------------------------------ MODULE QKernel -------------------------------
(***************************************************************************)
(* The QK preemptive kernel: the ready set, the scheduler QK_sched_ and    *)
(* its nested activations on the one stack of the processor, the priority  *)
(* ceiling mutex, nested interrupts and the PendSV exception through which *)
(* an interrupt preempts an active object.  Events carry no data here, an  *)
(* event queue is the number of its events.                                *)
(*                                                                         *)
(* A critical section is one action: between two of them interrupts are    *)
(* enabled and a new interrupt can come.                                   *)
(***************************************************************************)
EXTENDS QPSet, Sequences

CONSTANTS
  N_AO,      (* active objects, with priorities 1 .. N_AO                  *)
  MAX_NEST,  (* bound: interrupts nested in each other                     *)
  MAX_OPS    (* bound: posts, locks and interrupts within one busy period  *)

ASSUME KernelAssumption ==
  N_AO \in 1 .. WIDTH * WIDTH /\ MAX_NEST \in Nat /\ MAX_OPS \in Nat

Prio   == 1 .. N_AO
LOCKED == N_AO + 1   (* QK_currPrio_ before QF_run, above every priority   *)

VARIABLES
  phase,       (* "boot", "initialize" or "run": how far QF_run is         *)
  nEvt,        (* nEvt[p]: events in the queue of the active object p      *)
  readySet,    (* QK_readySet_, a QPSet64                                  *)
  currPrio,    (* QK_currPrio_                                             *)
  ceilingPrio, (* QK_ceilingPrio_                                          *)
  intNest,     (* QK_intNest_                                              *)
  frames,      (* activations of QK_sched_ on the stack, the last runs     *)
  isrs,        (* interrupt handlers on top of them, the last runs         *)
  pendSV,      (* 1 while the PendSV exception is pending                  *)
  ops          (* posts, locks and interrupts since the system was idle    *)

kernVars == <<currPrio, ceilingPrio, frames>>
intVars  == <<intNest, isrs, pendSV>>
vars == <<phase, nEvt, readySet, currPrio, ceilingPrio, intNest, frames, isrs, pendSV, ops>>

Init ==
  /\ phase = "boot"
  /\ nEvt = [p \in Prio |-> 0] /\ readySet = QPSet64_empty
  /\ currPrio = LOCKED /\ ceilingPrio = 0 /\ intNest = 0
  /\ frames = << >> /\ isrs = << >> /\ pendSV = 0
  /\ ops = 0

Idle == frames = << >> /\ isrs = << >> /\ pendSV = 0

(* The bound on what happens within one busy period.                       *)
Op == /\ phase = "boot" \/ ~Idle => ops < MAX_OPS
      /\ ops' = IF phase # "boot" /\ Idle THEN 1 ELSE ops + 1

----------------------------------------------------------------------------
(* The scheduler.                                                          *)

(* Mutant: the comparison with the current priority is off by one.         *)
SchedPrioSame(ready, curr, ceiling) ==
  IF QPSet64_findMax(ready) < curr \/ QPSet64_findMax(ready) <= ceiling THEN 0 ELSE QPSet64_findMax(ready)

(* QK_schedPrio_: the priority to activate, or 0 if there is none.         *)
SchedPrio(ready, curr, ceiling) ==
  IF QPSet64_findMax(ready) <= curr \/ QPSet64_findMax(ready) <= ceiling THEN 0 ELSE QPSet64_findMax(ready)

(* QK_sched_(p): a new activation, on top of the one that is interrupted,  *)
(* about to fetch the event of p.                                          *)
Activate(p, curr) ==
  /\ frames' = Append(frames, [prio |-> p, pin |-> curr, pc |-> "get", locks |-> << >>])
  /\ currPrio' = p

(* Schedule if that is due now that the ready set is ready.                *)
Schedule(ready, curr, ceiling) ==
  LET p == SchedPrio(ready, curr, ceiling) IN
  \/ p # 0 /\ Activate(p, curr)
  \/ p = 0 /\ currPrio' = curr /\ UNCHANGED frames

(* The last activation executes with interrupts enabled.                   *)
Top == frames[Len(frames)]
Running(l) == isrs = << >> /\ pendSV = 0 /\ frames # << >> /\ Top.pc = l
SetTop(f) == frames' = [frames EXCEPT ![Len(frames)] = f]

(* Mutant: QACTIVE_EQUEUE_ONEMPTY_ is forgotten.                           *)
RemovedNever(p) == readySet
(* The ready set once an event was taken from the queue of p.              *)
Removed(p) == IF nEvt[p] = 1 THEN QPSet64_remove(readySet, p) ELSE readySet

(* The activation fetches the next event of its active object.             *)
Get ==
  /\ Running("get")
  /\ nEvt' = [nEvt EXCEPT ![Top.prio] = @ - 1]
  /\ readySet' = Removed(Top.prio)
  /\ SetTop([Top EXCEPT !.pc = "run"])
  /\ UNCHANGED <<phase, currPrio, ceilingPrio, intVars, ops>>

(* Does QK_sched_ loop, or does it return to priority pin?                 *)
GoesOn(p, pin) == p > pin /\ p > ceilingPrio

(* The run-to-completion step ends: QK_sched_ goes on with the highest     *)
(* ready priority, or returns to the one it interrupted.                   *)
Complete ==
  LET p == QPSet64_findMax(readySet) IN
  /\ Running("run") /\ Top.locks = << >>
  /\ \/ /\ GoesOn(p, Top.pin)
        /\ SetTop([Top EXCEPT !.prio = p, !.pc = "get"])
        /\ currPrio' = p
     \/ /\ ~GoesOn(p, Top.pin)
        /\ frames' = SubSeq(frames, 1, Len(frames) - 1)
        /\ currPrio' = Top.pin
  /\ UNCHANGED <<phase, nEvt, readySet, ceilingPrio, intVars, ops>>

----------------------------------------------------------------------------
(* What an active object does in its run-to-completion step.               *)

(* The ready set once an event was added to the queue of q.                *)
Inserted(q) == IF nEvt[q] = 0 THEN QPSet64_insert(readySet, q) ELSE readySet
Enqueue(q) ==
  /\ nEvt' = [nEvt EXCEPT ![q] = @ + 1]
  /\ readySet' = Inserted(q)

(* QActive_postFIFO: an event in an empty queue signals the kernel, which  *)
(* schedules at once because no interrupt is being handled.                *)
Post(q) ==
  /\ Running("run") /\ Op
  /\ Enqueue(q)
  /\ \/ nEvt[q] = 0 /\ Schedule(readySet', currPrio, ceilingPrio)
     \/ nEvt[q] # 0 /\ UNCHANGED <<currPrio, frames>>
  /\ UNCHANGED <<phase, ceilingPrio, intVars>>

(* Mutant: a lock may lower the ceiling.                                   *)
RaisedAlways(c) == c
Raised(c) == IF ceilingPrio < c THEN c ELSE ceilingPrio

(* Bound: mutexes one step has locked at a time.                           *)
MAX_LOCKS == 2

(* QK_mutexLock(c).                                                        *)
Lock(c) ==
  /\ Running("run") /\ Len(Top.locks) < MAX_LOCKS /\ Op
  /\ SetTop([Top EXCEPT !.locks = Append(@, [mutex |-> ceilingPrio, ceiling |-> c])])
  /\ ceilingPrio' = Raised(c)
  /\ UNCHANGED <<phase, nEvt, readySet, currPrio, intVars>>

(* QK_mutexUnlock of the mutex locked last: the ceiling is restored and    *)
(* what it held back is scheduled.                                         *)
Unlock ==
  LET m    == Top.locks[Len(Top.locks)].mutex
      held == [frames EXCEPT ![Len(frames)].locks = SubSeq(@, 1, Len(@) - 1)]
      p    == SchedPrio(readySet, currPrio, m)
  IN
  /\ Running("run") /\ Top.locks # << >>
  /\ \/ /\ ceilingPrio > m
        /\ ceilingPrio' = m
        /\ frames' = IF p = 0 THEN held
                     ELSE Append(held, [prio |-> p, pin |-> currPrio,
                                        pc |-> "get", locks |-> << >>])
        /\ currPrio' = IF p = 0 THEN currPrio ELSE p
     \/ /\ ceilingPrio <= m
        /\ frames' = held
        /\ UNCHANGED <<ceilingPrio, currPrio>>
  /\ UNCHANGED <<phase, nEvt, readySet, intVars, ops>>

----------------------------------------------------------------------------
(* Interrupts.                                                             *)

LastIsr == isrs[Len(isrs)]
SetIsr(l) == isrs' = [isrs EXCEPT ![Len(isrs)] = l]
InIsr(l) == isrs # << >> /\ LastIsr = l

(* The processor takes an interrupt, of an active object, of PendSV or of  *)
(* an interrupt handler of lower priority.                                 *)
Interrupt ==
  /\ phase = "run" /\ Len(isrs) < MAX_NEST /\ Op
  /\ isrs' = Append(isrs, "entered")
  /\ UNCHANGED <<phase, nEvt, readySet, kernVars, intNest, pendSV>>

(* QK_ISR_ENTRY                                                            *)
IsrEntry ==
  /\ InIsr("entered")
  /\ SetIsr("body")
  /\ intNest' = intNest + 1
  /\ UNCHANGED <<phase, nEvt, readySet, kernVars, pendSV, ops>>

(* QActive_postFIFO with QK_intNest_ # 0 never schedules.                  *)
IsrPost(q) ==
  /\ InIsr("body") /\ Op
  /\ Enqueue(q)
  /\ UNCHANGED <<phase, kernVars, intVars>>

(* Mutant: PendSV is not triggered.                                        *)
TriggerLost == UNCHANGED pendSV
Trigger == pendSV' = 1

(* QK_ISR_EXIT                                                             *)
IsrExit ==
  /\ InIsr("body")
  /\ SetIsr("leaving")
  /\ intNest' = intNest - 1
  /\ Trigger
  /\ UNCHANGED <<phase, nEvt, readySet, kernVars, ops>>

IsrReturn ==
  /\ InIsr("leaving")
  /\ isrs' = SubSeq(isrs, 1, Len(isrs) - 1)
  /\ UNCHANGED <<phase, nEvt, readySet, kernVars, intNest, pendSV, ops>>

(* PendSV_Handler runs when the last interrupt handler has returned.       *)
PendSV ==
  /\ pendSV = 1 /\ isrs = << >>
  /\ pendSV' = 0
  /\ Schedule(readySet, currPrio, ceilingPrio)
  /\ UNCHANGED <<phase, nEvt, readySet, ceilingPrio, intNest, isrs, ops>>

----------------------------------------------------------------------------
(* Startup.                                                                *)

(* An initial transition posts an event while the scheduler is locked.     *)
BootPost(q) ==
  /\ phase = "boot" /\ Op
  /\ Enqueue(q)
  /\ \/ nEvt[q] = 0 /\ Schedule(readySet', currPrio, ceilingPrio)
     \/ nEvt[q] # 0 /\ UNCHANGED <<currPrio, frames>>
  /\ UNCHANGED <<phase, ceilingPrio, intVars>>

(* QF_run: initialize() unlocks the scheduler and serves what was posted.  *)
RunInitialize ==
  /\ phase = "boot"
  /\ phase' = "initialize"
  /\ Schedule(readySet, 0, ceilingPrio)
  /\ UNCHANGED <<nEvt, readySet, ceilingPrio, intVars, ops>>

(* QF_onStartup enables the interrupts, and the idle loop begins.          *)
OnStartup ==
  /\ phase = "initialize" /\ frames = << >>
  /\ phase' = "run"
  /\ UNCHANGED <<nEvt, readySet, kernVars, intVars, ops>>

----------------------------------------------------------------------------
(* What the processor does by itself, without a new demand on it.          *)
Progress ==
  \/ Get \/ Complete \/ Unlock
  \/ IsrEntry \/ IsrExit \/ IsrReturn \/ PendSV
  \/ RunInitialize \/ OnStartup

Demand ==
  \/ \E q \in Prio : Post(q) \/ Lock(q) \/ IsrPost(q) \/ BootPost(q)
  \/ Interrupt

Next == Progress \/ Demand

Spec == Init /\ [][Next]_vars

(* The processor does not stop, and run-to-completion steps end.           *)
FairSpec == Spec /\ WF_vars(Progress)

----------------------------------------------------------------------------
(* Properties.                                                             *)

Frame == [prio : Prio, pin : 0 .. N_AO, pc : {"get", "run"},
          locks : Seq([mutex : 0 .. N_AO, ceiling : Prio])]

TypeOK ==
  /\ phase \in {"boot", "initialize", "run"}
  /\ nEvt \in [Prio -> Nat]
  /\ readySet \in [super : SUBSET (1 .. WIDTH), subset : [0 .. WIDTH - 1 -> SUBSET (1 .. WIDTH)]]
  /\ currPrio \in 0 .. LOCKED
  /\ ceilingPrio \in 0 .. N_AO
  /\ intNest \in Nat
  /\ frames \in Seq(Frame)
  /\ isrs \in Seq({"entered", "body", "leaving"})
  /\ pendSV \in {0, 1}
  /\ ops \in Nat

(* The assertion of QACTIVE_EQUEUE_WAIT_: an activation that is about to   *)
(* fetch an event finds one, although interrupts and other activations ran *)
(* since it was chosen.                                                    *)
GetFindsEvent ==
  \A i \in 1 .. Len(frames) : frames[i].pc = "get" => nEvt[frames[i].prio] > 0

(* An activation only ever interrupts a lower priority, so no active       *)
(* object is entered again before its step has run to completion, and      *)
(* QK_currPrio_ names the activation on top.                               *)
RunToCompletion ==
  /\ \A i \in 1 .. Len(frames) :
       /\ frames[i].pin = IF i = 1 THEN 0 ELSE frames[i - 1].prio
       /\ frames[i].pin < frames[i].prio
  /\ phase # "boot" => currPrio = IF frames = << >> THEN 0 ELSE Top.prio

Held(i) == {frames[i].locks[j].ceiling : j \in 1 .. Len(frames[i].locks)}

(* While code outside of interrupt handlers executes, no event waits for   *)
(* an active object more urgent than that code and than the ceilings of    *)
(* the mutexes that are locked: preemption is never late, and unlocking    *)
(* restores what locking had raised.                                       *)
NoPriorityInversion ==
  phase # "boot" /\ isrs = << >> /\ pendSV = 0 =>
    \A p \in Prio : nEvt[p] > 0 =>
      \/ p <= currPrio
      \/ \E i \in 1 .. Len(frames) : \E c \in Held(i) : p <= c

(* While an active object has a mutex locked, only active objects above    *)
(* its ceiling are activated, whatever they lock and unlock in turn.       *)
MutexProtects ==
  \A i, j \in 1 .. Len(frames) : i < j => \A c \in Held(i) : frames[j].prio > c

(* Every event is eventually taken from its queue, if no new demands keep  *)
(* the processor busy for ever.                                            *)
EventsServed == \A p \in Prio : nEvt[p] > 0 ~> nEvt[p] = 0
=============================================================================
