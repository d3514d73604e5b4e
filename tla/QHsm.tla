------------------------------- MODULE QHsm --------------------------------
(***************************************************************************)
(* The QEP hierarchical event processor: QHsm_init, QHsm_dispatch and      *)
(* QHsm_isIn (qhsm_ini.c, qhsm_dis.c, qhsm_in.c) on any state machine of   *)
(* N_STATES states.  The machine is known only through its state handlers: *)
(* asked for its superstate (the EMPTY signal) a handler leaves it in      *)
(* me->temp, an event it may handle, pass on, or answer with a transition. *)
(* The processor finds the least common ancestor of source and target from *)
(* such questions alone, with one array of QEP_MAX_NEST_DEPTH_ entries.    *)
(*                                                                         *)
(* A dispatch runs to completion; each step here is one call of a handler  *)
(* that exits or enters a state, or one round of a loop of the processor.  *)
(***************************************************************************)
EXTENDS Integers, Sequences, FiniteSets

CONSTANTS
  N_STATES,   (* states of the machine, the top state not counted          *)
  MAX_NEST    (* QEP_MAX_NEST_DEPTH_: levels of nesting, the top included  *)

ASSUME QHsmAssumption == N_STATES \in Nat \ {0} /\ MAX_NEST \in Nat /\ MAX_NEST >= 2

TOP   == 0               (* QHsm_top; also "no nested initial transition"  *)
State == 1..N_STATES     (* numbered so that a state follows its superstate *)

VARIABLES
  super,    (* the superstate of each state: fixed by the handlers         *)
  initial,  (* target of its nested initial transition, or TOP if none     *)
  state,    (* me->state                                                   *)
  temp,     (* me->temp                                                    *)
  pc,       (* where the processor is                                      *)
  t, s,     (* its locals of the same names                                *)
  path, ip, (* the entry path, as the entries written, and its index       *)
  log,      (* what the handlers were told since the last stable state     *)
  tran      (* the transition taken: from the active state, source, target *)

machine == <<super, initial>>
hsmVars == <<machine, state, temp, pc, t, s, path, ip, log, tran>>

NoTran  == [from |-> TOP, source |-> TOP, target |-> TOP]
NoPath  == << >>

---------------------------------------------------------------------------
(* The state hierarchy, as the handlers define it.                         *)

(* x and the states around it, up to the top.                              *)
Ancestors(x) ==
  LET anc[y \in 0..N_STATES] == IF y = TOP THEN {TOP} ELSE {y} \cup anc[super[y]]
  IN  anc[x]

(* Superstates come first, nesting has its limit, and a nested initial     *)
(* transition leads inward.                                                *)
WellFormed ==
  /\ \A x \in State : super[x] < x
  /\ \A x \in State : Cardinality(Ancestors(x)) <= MAX_NEST
  /\ \A x \in State : initial[x] # TOP => x \in Ancestors(initial[x]) \ {initial[x]}

HsmInit ==
  /\ super \in [State -> 0..N_STATES] /\ initial \in [State -> 0..N_STATES]
  /\ WellFormed
  /\ state = TOP /\ temp = TOP /\ pc = "ctor"
  /\ t = TOP /\ s = TOP /\ path = NoPath /\ ip = -1
  /\ log = << >> /\ tran = NoTran

---------------------------------------------------------------------------
(* The locals of a call are gone when it returns.                          *)
Return(x) ==
  /\ pc' = "stable" /\ state' = x /\ temp' = x
  /\ t' = TOP /\ s' = TOP /\ path' = NoPath /\ ip' = -1

(* A write to path[k].                                                     *)
Put(k, x) == [j \in DOMAIN path \cup {k} |-> IF j = k THEN x ELSE path[j]]

(* QEP_EXIT_(x) and QEP_ENTER_(x): a handler without an exit or entry      *)
(* action answers with its superstate and so overwrites me->temp.          *)
Exit(x)  == log' = Append(log, <<"exit", x>>)  /\ temp' \in {temp, super[x]}
Enter(x) == log' = Append(log, <<"entry", x>>) /\ temp' \in {temp, super[x]}

(* The exit of x when its superstate is wanted next: if the exit action    *)
(* was handled, the EMPTY signal asks for it.                              *)
ExitToSuper(x) ==
  log' = Append(log, <<"exit", x>>) /\ temp' = super[x] /\ t' = super[x]

---------------------------------------------------------------------------
(* QHsm_init: the top-most initial transition, then down the hierarchy.    *)
QHsm_init ==
  /\ pc = "ctor"
  /\ \E x \in State : temp' = x /\ tran' = [NoTran EXCEPT !.target = x]
  /\ t' = TOP /\ pc' = "drill"
  /\ UNCHANGED <<machine, state, s, path, ip, log>>

(* QHsm_dispatch of an event.                                              *)
QHsm_dispatch ==
  /\ pc = "stable"
  /\ t' = state /\ pc' = "up" /\ log' = << >> /\ tran' = NoTran
  /\ UNCHANGED <<machine, state, temp, s, path, ip>>

(* The event is offered to me->temp.  A handler that does not know it, or  *)
(* whose guard refuses it, passes it to its superstate.                    *)
PassUp ==
  /\ pc = "up" /\ temp # TOP
  /\ temp' = super[temp]
  /\ UNCHANGED <<machine, state, pc, t, s, path, ip, log, tran>>

(* Handled without a transition, or ignored by QHsm_top.                   *)
NoTransition ==
  /\ pc = "up"
  /\ Return(t)
  /\ UNCHANGED <<machine, log, tran>>

TakeTransition ==
  /\ pc = "up" /\ temp # TOP
  /\ \E x \in State :
       /\ tran' = [from |-> t, source |-> temp, target |-> x]
       /\ path' = [k \in 0..1 |-> IF k = 0 THEN x ELSE t]
       /\ temp' = x
  /\ s' = temp /\ ip' = -1 /\ pc' = "exit"
  /\ UNCHANGED <<machine, state, t, log>>

(* Exit from the active state up to the source of the transition.          *)
ExitToSource ==
  /\ pc = "exit" /\ t # s
  /\ ExitToSuper(t)
  /\ UNCHANGED <<machine, state, pc, s, path, ip, tran>>

(* The cases (a) to (e), by the superstates of source and target.          *)
SelfOrSibling ==                                             (* (a), (c)   *)
  /\ path[0] = s \/ (super[path[0]] # s /\ super[s] = super[path[0]])
  /\ Exit(s) /\ ip' = 0 /\ pc' = "enter"
  /\ UNCHANGED <<t, path>>

ToSubstate ==                                                (* (b)        *)
  /\ path[0] # s /\ super[path[0]] = s
  /\ ip' = 0 /\ pc' = "enter" /\ temp' = s
  /\ UNCHANGED <<t, path, log>>

ToSuperstate ==                                              (* (d)        *)
  /\ path[0] # s /\ super[path[0]] \notin {s, super[s]} /\ super[s] = path[0]
  /\ Exit(s) /\ pc' = "enter"
  /\ UNCHANGED <<t, path, ip>>

(* Mutant: the path starts one entry too high.                             *)
FarTargetHigh ==
  /\ path[0] \notin {s, super[s]} /\ super[path[0]] \notin {s, super[s]}
  /\ path' = Put(2, super[path[0]]) /\ ip' = 2
  /\ t' = super[s] /\ temp' = super[path[0]] /\ pc' = "store"
  /\ UNCHANGED log

FarTarget ==                                                 (* (e)        *)
  /\ path[0] \notin {s, super[s]} /\ super[path[0]] \notin {s, super[s]}
  /\ path' = Put(1, super[path[0]]) /\ ip' = 1
  /\ t' = super[s] /\ temp' = super[path[0]] /\ pc' = "store"
  /\ UNCHANGED log

Classify ==
  /\ pc = "exit" /\ t = s
  /\ SelfOrSibling \/ ToSubstate \/ ToSuperstate \/ FarTarget
  /\ UNCHANGED <<machine, state, s, tran>>

(* (e) Store the superstates of the target up to the source or the top.    *)
StorePath ==
  /\ pc = "store" /\ path[ip] # TOP
  /\ LET up == super[path[ip]]
     IN  /\ path' = Put(ip + 1, up) /\ temp' = up
         /\ IF up = s THEN ip' = ip /\ pc' = "enter"
                      ELSE ip' = ip + 1 /\ UNCHANGED pc
  /\ UNCHANGED <<machine, state, t, s, log, tran>>

(* The source is not among them: exit it.                                  *)
ExitSource ==
  /\ pc = "store" /\ path[ip] = TOP
  /\ Exit(s) /\ pc' = "lca"
  /\ UNCHANGED <<machine, state, t, s, path, ip, tran>>

(* Mutant: the target itself is not tried.                                 *)
FindLCAAbove ==
  /\ pc = "lca"
  /\ \/ \E k \in 1..ip :
          /\ path[k] = t /\ ip' = k - 1 /\ pc' = "enter"
          /\ UNCHANGED <<t, temp, log>>
     \/ /\ \A k \in 1..ip : path[k] # t
        /\ ExitToSuper(t)
        /\ UNCHANGED <<ip, pc>>
  /\ UNCHANGED <<machine, state, s, path, tran>>

(* (f), (g) Is t on the stored path?  If not, exit it too and go up.       *)
FindLCA ==
  /\ pc = "lca"
  /\ \/ \E k \in 0..ip :
          /\ path[k] = t /\ ip' = k - 1 /\ pc' = "enter"
          /\ UNCHANGED <<t, temp, log>>
     \/ /\ \A k \in 0..ip : path[k] # t
        /\ ExitToSuper(t)
        /\ UNCHANGED <<ip, pc>>
  /\ UNCHANGED <<machine, state, s, path, tran>>

(* Retrace the path in reverse.                                            *)
EnterPath ==
  /\ pc = "enter" /\ ip >= 0
  /\ Enter(path[ip]) /\ ip' = ip - 1
  /\ UNCHANGED <<machine, state, pc, t, s, path, tran>>

(* The initial transition of the state entered last, if it has one.        *)
InitialTran ==
  /\ pc = "enter" /\ ip = -1
  /\ \/ /\ initial[path[0]] # TOP
        /\ t' = path[0] /\ temp' = initial[path[0]] /\ pc' = "drill"
        /\ UNCHANGED <<state, s, path, ip>>
     \/ /\ initial[path[0]] = TOP
        /\ Return(path[0])
  /\ UNCHANGED <<machine, log, tran>>

(* Its target and the superstates of it below t become the entry path.     *)
DrillTarget ==
  /\ pc = "drill"
  /\ ip' = 0 /\ path' = Put(0, temp) /\ temp' = super[temp] /\ pc' = "climb"
  /\ UNCHANGED <<machine, state, t, s, log, tran>>

DrillClimb ==
  /\ pc = "climb"
  /\ \/ /\ temp # t
        /\ ip' = ip + 1 /\ path' = Put(ip + 1, temp) /\ temp' = super[temp]
        /\ UNCHANGED pc
     \/ /\ temp = t
        /\ temp' = path[0] /\ pc' = "enter"
        /\ UNCHANGED <<ip, path>>
  /\ UNCHANGED <<machine, state, t, s, log, tran>>

---------------------------------------------------------------------------
(* QHsm_isIn walks me->temp up and restores it; log keeps the answer.      *)
QHsm_isIn ==
  /\ pc = "stable"
  /\ \E q \in State \cup {TOP} : t' = q
  /\ pc' = "isIn" /\ log' = << >> /\ tran' = NoTran
  /\ UNCHANGED <<machine, state, temp, s, path, ip>>

(* Mutant: me->temp is restored inside the loop.                           *)
IsInUpRestored ==
  /\ pc = "isIn" /\ temp \notin {t, TOP}
  /\ temp' = state
  /\ UNCHANGED <<machine, state, pc, t, s, path, ip, log, tran>>

IsInUp ==
  /\ pc = "isIn" /\ temp \notin {t, TOP}
  /\ temp' = super[temp]
  /\ UNCHANGED <<machine, state, pc, t, s, path, ip, log, tran>>

(* Mutant: reaching QHsm_top always means that the state is not found.     *)
IsInReturnNeverTop ==
  /\ pc = "isIn" /\ temp \in {t, TOP}
  /\ log' = <<<<IF temp # TOP THEN "in" ELSE "out", t>>>>
  /\ Return(state)
  /\ UNCHANGED <<machine, tran>>

IsInReturn ==
  /\ pc = "isIn" /\ temp \in {t, TOP}
  /\ log' = <<<<IF temp = t THEN "in" ELSE "out", t>>>>
  /\ Return(state)
  /\ UNCHANGED <<machine, tran>>

---------------------------------------------------------------------------
HsmStep ==
  \/ QHsm_init \/ PassUp \/ NoTransition \/ TakeTransition
  \/ ExitToSource \/ Classify \/ StorePath \/ ExitSource \/ FindLCA
  \/ EnterPath \/ InitialTran \/ DrillTarget \/ DrillClimb
  \/ IsInUp \/ IsInReturn

HsmNext == QHsm_dispatch \/ QHsm_isIn \/ HsmStep

HsmSpec == HsmInit /\ [][HsmNext]_hsmVars

(* The processor runs to completion and every handler returns.             *)
HsmFairSpec == HsmSpec /\ WF_hsmVars(HsmStep)

---------------------------------------------------------------------------
(* Reference: what a statechart means by a transition.                     *)

(* The states of S, innermost first and outermost first.                   *)
Up(S)   == [k \in 1..Cardinality(S) |->
              CHOOSE x \in S : Cardinality({y \in S : y > x}) = k - 1]
Down(S) == [k \in 1..Cardinality(S) |->
              CHOOSE x \in S : Cardinality({y \in S : y < x}) = k - 1]

(* The innermost state that the transition does not leave.                 *)
Scope(tr) == IF tr.source = tr.target
             THEN Ancestors(tr.source) \ {tr.source}
             ELSE Ancestors(tr.source) \cap Ancestors(tr.target)

(* Where the nested initial transitions of x lead.                         *)
Leaf(x) == LET leaf[y \in State] == IF initial[y] = TOP THEN y ELSE leaf[initial[y]]
           IN  leaf[x]

Told(what, q) == [k \in 1..Len(q) |-> <<what, q[k]>>]

Expected(tr) ==
     Told("exit",  Up(Ancestors(tr.from) \ Scope(tr)))
  \o Told("entry", Down(Ancestors(Leaf(tr.target)) \ Scope(tr)))

---------------------------------------------------------------------------
HsmTypeOK ==
  /\ super \in [State -> 0..N_STATES] /\ initial \in [State -> 0..N_STATES]
  /\ {state, temp, t, s} \subseteq 0..N_STATES
  /\ pc \in {"ctor", "stable", "up", "exit", "store", "lca", "enter", "drill", "climb", "isIn"}
  /\ ip \in -1..N_STATES
  /\ tran \in [from : 0..N_STATES, source : 0..N_STATES, target : 0..N_STATES]

(* A transition exits exactly the states from the active one up to the     *)
(* least common ancestor of source and target, innermost first, enters     *)
(* those below it down to the target and on along the nested initial       *)
(* transitions, outermost first, and leaves the machine where they lead,   *)
(* whatever case of QHsm_dispatch the hierarchy selects.                   *)
TransitionExact ==
  pc = "stable" /\ tran.target # TOP =>
    log = Expected(tran) /\ state = Leaf(tran.target)

(* path[] is never written outside its QEP_MAX_NEST_DEPTH_ entries, the    *)
(* ones that are only found out by the assertion that follows the loop     *)
(* included, and the index passes that assertion.                          *)
EntryPathFits == DOMAIN path \subseteq 0..(MAX_NEST - 1) /\ ip < MAX_NEST

(* QHsm_isIn finds exactly the active state and the states around it.      *)
IsInExact ==
  pc = "stable" =>
    \A q \in 0..N_STATES :
      /\ log = <<<<"in", q>>>>  => q \in Ancestors(state)
      /\ log = <<<<"out", q>>>> => q \notin Ancestors(state)

(* Every dispatch, initialisation and query ends: no loop of the processor *)
(* runs past the top state.                                                *)
RunsToCompletion == pc # "stable" ~> pc = "stable"
============================================================================
