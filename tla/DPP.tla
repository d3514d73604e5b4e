-------------------------------- MODULE DPP --------------------------------
(***************************************************************************)
(* The dining-philosophers application: the N_PHILO Philo active objects   *)
(* (philo.c), the Table active object that owns the forks (table.c), their *)
(* event queues, their time events and the SysTick and EXTI0 interrupts    *)
(* (bsp.c), scheduled by the preemptive run-to-completion kernel QK.       *)
(*                                                                         *)
(* Philo n has priority n + 2 and Table has priority N_PHILO + 2 (main.c), *)
(* so an active object is named here by its priority minus 2: the order of *)
(* the names is the order of the priorities.  LwIPMgr (priority 1) runs    *)
(* below all of them and touches none of this state; see LwIPMgr.          *)
(*                                                                         *)
(* A run-to-completion step of an active object is cut where it posts or   *)
(* publishes: that is where a higher-priority active object preempts it.   *)
(***************************************************************************)
EXTENDS Naturals, Sequences, FiniteSets

CONSTANTS
  N_PHILO,        (* number of philosophers                                *)
  THINK_TIME,     (* clock ticks a philosopher thinks                      *)
  EAT_TIME,       (* clock ticks a philosopher eats                        *)
  Q_LEN,          (* entries of the ring buffer of each event queue        *)
  MAX_BUSY_TICKS, (* bound: clock ticks within one busy period             *)
  MAX_EXTI        (* bound: EXTI0 fires while fewer events wait for Table  *)

ASSUME PhiloAssumption ==
  /\ N_PHILO \in Nat /\ N_PHILO >= 2
  /\ THINK_TIME \in Nat \ {0}
  /\ EAT_TIME \in Nat \ {0}
  /\ Q_LEN \in Nat
  /\ MAX_BUSY_TICKS \in Nat
  /\ MAX_EXTI \in Nat

Philo == 0 .. N_PHILO - 1
Table == N_PHILO
AO    == 0 .. N_PHILO

(* The neighbours of philosopher n.  His forks are n and LEFT(n).          *)
RIGHT(n) == (n + (N_PHILO - 1)) % N_PHILO
LEFT(n)  == (n + 1) % N_PHILO

(* A TableEvt: a signal with the number of the philosopher it is about.    *)
(* TIMEOUT is the event embedded in the philosopher's own time event; the  *)
(* EXTI0 event (MAX_PUB_SIG) carries no number and has 0.                  *)
Sig   == {"TIMEOUT", "HUNGRY", "EAT", "DONE", "MAX_PUB"}
Evt   == [sig : Sig, philoNum : Philo]
NoEvt == [sig |-> "NONE", philoNum |-> 0]
TableEvt(s, n) == [sig |-> s, philoNum |-> n]

VARIABLES
  state,     (* state[p]: the state of the Philo state machine p           *)
  timer,     (* timer[p]: down-counter of p's time event, 0 when disarmed  *)
  fork,      (* fork[f]: "FREE" or "USED"                                  *)
  isHungry,  (* isHungry[p]: 1 when Table owes p an EAT                    *)
  queue,     (* queue[a]: the event queue of active object a               *)
  pc,        (* pc[a]: where a is in its run-to-completion step            *)
  ev,        (* ev[a]: the event a is processing                           *)
  busyTicks, (* clock ticks since the system was last idle                 *)
  status     (* "running", or which kind of assertion stopped the system *)

philoVars == <<state, timer>>
tableVars == <<fork, isHungry>>
kernVars  == <<pc, ev>>
vars == <<state, timer, fork, isHungry, queue, pc, ev, busyTicks, status>>

Init ==
  /\ state     = [p \in Philo |-> "thinking"]
  /\ timer     = [p \in Philo |-> THINK_TIME]
  /\ fork      = [p \in Philo |-> "FREE"]
  /\ isHungry  = [p \in Philo |-> 0]
  /\ queue     = [a \in AO |-> << >>]
  /\ pc        = [a \in AO |-> "idle"]
  /\ ev        = [a \in AO |-> NoEvt]
  /\ busyTicks = 0
  /\ status    = "running"

----------------------------------------------------------------------------
(* Event queues and assertions.                                            *)

(* A queue holds the front event and Q_LEN more in its ring buffer.        *)
QueueAccepts(a) == Len(queue[a]) <= Q_LEN

(* Q_onAssert: interrupts are disabled and the processor loops forever.    *)
Halt(why) ==
  /\ status' = why
  /\ UNCHANGED <<state, timer, fork, isHungry, queue, pc, ev, busyTicks>>

(* A handler asserts cond, needs room in the queues it posts to (asserted  *)
(* by QActive_postFIFO) and then does act.                                 *)
Asserting(cond, room, act) ==
  \/ cond /\ room /\ act /\ UNCHANGED status
  \/ ~cond /\ Halt("failed")
  \/ cond /\ ~room /\ Halt("overflow")

PostTable(e) == queue' = [queue EXCEPT ![Table] = Append(@, e)]

(* QF_PUBLISH of EAT, to which exactly the philosophers subscribe.         *)
PublishEat(n) ==
  queue' = [a \in AO |-> IF a \in Philo THEN Append(queue[a], TableEvt("EAT", n))
                                        ELSE queue[a]]

----------------------------------------------------------------------------
(* The QK kernel.                                                          *)

Idle == \A a \in AO : pc[a] = "idle" /\ queue[a] = << >>

(* Active object a has an event and outranks every active object that has  *)
(* one and every active object that is in the middle of its own step.      *)
Schedulable(a) ==
  /\ pc[a] = "idle" /\ queue[a] # << >>
  /\ \A b \in AO : b > a => pc[b] = "idle" /\ queue[b] = << >>

(* One round of QK_sched_: take the next event of the highest-priority     *)
(* active object that is ready, on top of the one that is running.         *)
Sched(a) ==
  /\ status = "running"
  /\ Schedulable(a)
  /\ ev'    = [ev EXCEPT ![a] = Head(queue[a])]
  /\ queue' = [queue EXCEPT ![a] = Tail(@)]
  /\ pc'    = [pc EXCEPT ![a] = "run"]
  /\ UNCHANGED <<philoVars, tableVars, busyTicks, status>>

(* a executes at location l of its step, and nothing above it wants to.    *)
At(a, l) ==
  /\ status = "running"
  /\ pc[a] = l
  /\ \A b \in AO : b > a => pc[b] = "idle" /\ queue[b] = << >>

Goto(a, l) == pc' = [pc EXCEPT ![a] = l] /\ UNCHANGED ev

Return(a) ==
  /\ pc' = [pc EXCEPT ![a] = "idle"]
  /\ ev' = [ev EXCEPT ![a] = NoEvt]

----------------------------------------------------------------------------
(* Philo.                                                                  *)

(* QTimeEvt_postIn, which asserts that the time event is not armed.        *)
Disarmed(p) == timer[p] = 0
PostIn(p, ticks) == timer' = [timer EXCEPT ![p] = ticks]

(* TIMEOUT in thinking: the entry action of hungry posts HUNGRY to Table.  *)
ThinkingTimeout(p) ==
  /\ At(p, "run") /\ state[p] = "thinking" /\ ev[p].sig = "TIMEOUT"
  /\ Asserting(TRUE, QueueAccepts(Table),
               /\ PostTable(TableEvt("HUNGRY", p))
               /\ Goto(p, "posted")
               /\ UNCHANGED <<philoVars, tableVars, busyTicks>>)

(* Mutant: the transition to hungry does not complete.                     *)
EnterHungryLost(p) ==
  /\ At(p, "posted") /\ state[p] = "thinking"
  /\ Return(p)
  /\ UNCHANGED <<philoVars, tableVars, queue, busyTicks, status>>

(* ... and the transition to hungry completes once Table has run.          *)
EnterHungry(p) ==
  /\ At(p, "posted") /\ state[p] = "thinking"
  /\ state' = [state EXCEPT ![p] = "hungry"]
  /\ Return(p)
  /\ UNCHANGED <<timer, tableVars, queue, busyTicks, status>>

(* EAT for this philosopher in hungry: the entry action of eating.         *)
HungryEat(p) ==
  /\ At(p, "run") /\ state[p] = "hungry" /\ ev[p] = TableEvt("EAT", p)
  /\ Asserting(Disarmed(p), TRUE,
               /\ PostIn(p, EAT_TIME)
               /\ state' = [state EXCEPT ![p] = "eating"]
               /\ Return(p)
               /\ UNCHANGED <<tableVars, queue, busyTicks>>)

(* TIMEOUT in eating: the exit action publishes DONE, to which only Table  *)
(* subscribes.                                                             *)
EatingTimeout(p) ==
  /\ At(p, "run") /\ state[p] = "eating" /\ ev[p].sig = "TIMEOUT"
  /\ Asserting(TRUE, QueueAccepts(Table),
               /\ PostTable(TableEvt("DONE", p))
               /\ Goto(p, "posted")
               /\ UNCHANGED <<philoVars, tableVars, busyTicks>>)

(* ... and the entry action of thinking runs once Table has run.           *)
EnterThinking(p) ==
  /\ At(p, "posted") /\ state[p] = "eating"
  /\ Asserting(Disarmed(p), TRUE,
               /\ PostIn(p, THINK_TIME)
               /\ state' = [state EXCEPT ![p] = "thinking"]
               /\ Return(p)
               /\ UNCHANGED <<tableVars, queue, busyTicks>>)

(* Every other event is consumed without effect.  EAT must not be for this *)
(* philosopher while he thinks or eats.                                    *)
PhiloIgnore(p) ==
  /\ At(p, "run")
  /\ \/ ev[p].sig # "TIMEOUT" /\ ~(state[p] = "hungry" /\ ev[p] = TableEvt("EAT", p))
     \/ ev[p].sig = "TIMEOUT" /\ state[p] = "hungry"
  /\ Asserting(ev[p] = TableEvt("EAT", p) => state[p] = "hungry", TRUE,
               Return(p) /\ UNCHANGED <<philoVars, tableVars, queue, busyTicks>>)

----------------------------------------------------------------------------
(* Table.                                                                  *)

(* Mutant: the fork on the left is not checked.                            *)
OwnForkFree(n) == fork[n] = "FREE"

BothFree(n) == fork[n] = "FREE" /\ fork[LEFT(n)] = "FREE"
SetForks(n, u) == [fork EXCEPT ![n] = u, ![LEFT(n)] = u]

PublishAccepted == \A p \in Philo : QueueAccepts(p)

(* HUNGRY(n): serve n at once if both his forks are free, else remember.   *)
TableHungry ==
  LET n == ev[Table].philoNum IN
  /\ At(Table, "run") /\ ev[Table].sig = "HUNGRY"
  /\ Asserting(isHungry[n] = 0, BothFree(n) => PublishAccepted,
               /\ \/ /\ BothFree(n)
                     /\ fork' = SetForks(n, "USED")
                     /\ PublishEat(n)
                     /\ UNCHANGED isHungry
                  \/ /\ ~BothFree(n)
                     /\ isHungry' = [isHungry EXCEPT ![n] = 1]
                     /\ UNCHANGED <<fork, queue>>
               /\ Return(Table)
               /\ UNCHANGED <<philoVars, busyTicks>>)

(* Mutant: the fork on the far side is not checked.                        *)
CanServeUnchecked(m, otherFork, forks) == isHungry[m] = 1

(* A waiting neighbour m of the philosopher who is done can be served when *)
(* the fork he does not share with that philosopher is free too.           *)
CanServe(m, otherFork, forks) == isHungry[m] = 1 /\ forks[otherFork] = "FREE"

Serve(m, otherFork, forks) ==
  \/ /\ CanServe(m, otherFork, forks)
     /\ fork' = [forks EXCEPT ![m] = "USED", ![LEFT(m)] = "USED"]
     /\ isHungry' = [isHungry EXCEPT ![m] = 0]
     /\ PublishEat(m)
  \/ /\ ~CanServe(m, otherFork, forks)
     /\ fork' = forks
     /\ UNCHANGED <<isHungry, queue>>

(* DONE(n): free both forks, then check the right neighbour ...            *)
TableDone ==
  LET n == ev[Table].philoNum
      m == RIGHT(n)
      freed == SetForks(n, "FREE")
  IN
  /\ At(Table, "run") /\ ev[Table].sig = "DONE"
  /\ Asserting(isHungry[n] = 0 /\ fork[n] = "USED" /\ fork[LEFT(n)] = "USED",
               CanServe(m, m, freed) => PublishAccepted,
               /\ Serve(m, m, freed)
               /\ Goto(Table, "left")
               /\ UNCHANGED <<philoVars, busyTicks>>)

(* Mutant: the left neighbour is not checked.                              *)
TableDoneNoLeft ==
  /\ At(Table, "left")
  /\ Return(Table)
  /\ UNCHANGED <<philoVars, tableVars, queue, busyTicks, status>>

(* ... and the left neighbour.                                             *)
TableDoneLeft ==
  LET m == LEFT(ev[Table].philoNum) IN
  /\ At(Table, "left")
  /\ Asserting(TRUE, CanServe(m, LEFT(m), fork) => PublishAccepted,
               /\ Serve(m, LEFT(m), fork)
               /\ Return(Table)
               /\ UNCHANGED <<philoVars, busyTicks>>)

(* MAX_PUB_SIG from EXTI0 is not handled in serving nor in the top state.  *)
TableIgnore ==
  /\ At(Table, "run") /\ ev[Table].sig = "MAX_PUB"
  /\ Return(Table)
  /\ UNCHANGED <<philoVars, tableVars, queue, busyTicks, status>>

----------------------------------------------------------------------------
(* Interrupts.                                                             *)

(* QF_tick leaves a time event that is not armed alone.                    *)
CountDown(t) == IF t = 0 THEN 0 ELSE t - 1

(* SysTick_Handler: QF_tick counts every armed time event down and posts   *)
(* TIMEOUT for those that reach 0.  A busy period is assumed not to last   *)
(* more than MAX_BUSY_TICKS ticks.                                         *)
Tick ==
  LET due == {p \in Philo : timer[p] = 1} IN
  /\ status = "running"
  /\ Idle \/ busyTicks < MAX_BUSY_TICKS
  /\ Asserting(TRUE, \A p \in due : QueueAccepts(p),
               /\ timer' = [p \in Philo |-> CountDown(timer[p])]
               /\ queue' = [a \in AO |-> IF a \in due
                                         THEN Append(queue[a], TableEvt("TIMEOUT", a))
                                         ELSE queue[a]]
               /\ busyTicks' = IF Idle THEN 0 ELSE busyTicks + 1
               /\ UNCHANGED <<state, tableVars, kernVars>>)

(* Mutant: the pending bit is not cleared, and the handler runs again.     *)
Exti0Again ==
  /\ status = "running"
  /\ Len(queue[Table]) < MAX_EXTI
  /\ Asserting(TRUE, QueueAccepts(Table),
               /\ queue' = [queue EXCEPT ![Table] =
                     @ \o <<TableEvt("MAX_PUB", 0), TableEvt("MAX_PUB", 0)>>]
               /\ UNCHANGED <<philoVars, tableVars, kernVars, busyTicks>>)

(* EXTI0_IRQHandler posts an event to Table, for testing.                  *)
Exti0 ==
  /\ status = "running"
  /\ Len(queue[Table]) < MAX_EXTI
  /\ Asserting(TRUE, QueueAccepts(Table),
               /\ PostTable(TableEvt("MAX_PUB", 0))
               /\ UNCHANGED <<philoVars, tableVars, kernVars, busyTicks>>)

----------------------------------------------------------------------------
PhiloStep(p) ==
  \/ ThinkingTimeout(p) \/ EnterHungry(p) \/ HungryEat(p)
  \/ EatingTimeout(p) \/ EnterThinking(p) \/ PhiloIgnore(p)

TableStep == TableHungry \/ TableDone \/ TableDoneLeft \/ TableIgnore

(* The processor executes code of an active object or of the kernel.       *)
Run ==
  \/ \E a \in AO : Sched(a)
  \/ \E p \in Philo : PhiloStep(p)
  \/ TableStep

Next == Run \/ Tick \/ Exti0

Spec == Init /\ [][Next]_vars

(* The processor never stops while there is work.  SysTick never stops     *)
(* either, whatever other interrupts come between.                         *)
FairSpec == Spec /\ WF_vars(Run) /\ SF_vars(Tick)

----------------------------------------------------------------------------
(* Properties.                                                             *)

TypeOK ==
  /\ state \in [Philo -> {"thinking", "hungry", "eating"}]
  /\ timer \in [Philo -> Nat]
  /\ fork \in [Philo -> {"FREE", "USED"}]
  /\ isHungry \in [Philo -> {0, 1}]
  /\ queue \in [AO -> Seq(Evt)]
  /\ pc \in [AO -> {"idle", "run", "posted", "left"}]
  /\ ev \in [AO -> Evt \cup {NoEvt}]
  /\ busyTicks \in Nat
  /\ status \in {"running", "failed", "overflow"}

(* A philosopher eats from the entry to eating until its exit action has   *)
(* published DONE.                                                         *)
Eating(p) == state[p] = "eating" /\ pc[p] # "posted"

Has(s, e) == \E i \in 1 .. Len(s) : s[i] = e
InQueue(a, e) == Has(queue[a], e)

(* Philosopher p owns his forks: an EAT for him is on its way, he eats, or *)
(* his DONE has not been processed by Table.                               *)
Holds(p) ==
  \/ InQueue(p, TableEvt("EAT", p))
  \/ pc[p] = "run" /\ ev[p] = TableEvt("EAT", p)
  \/ Eating(p)
  \/ InQueue(Table, TableEvt("DONE", p))
  \/ pc[Table] = "run" /\ ev[Table] = TableEvt("DONE", p)

(* Two neighbours never eat at the same time, whatever the interleaving of *)
(* timeouts, preemptions and events in flight between Philo and Table.     *)
MutualExclusion == \A p \in Philo : ~(Eating(p) /\ Eating(LEFT(p)))

(* The fork bookkeeping of Table agrees with the philosophers and with the *)
(* EAT and DONE events in flight: a fork is USED iff one of its two        *)
(* philosophers owns it, and they never both do.                           *)
ForksMatchOwners ==
  \A p \in Philo :
    /\ fork[LEFT(p)] = "USED" <=> (Holds(p) \/ Holds(LEFT(p)))
    /\ ~(Holds(p) /\ Holds(LEFT(p)))

(* No assertion of a Philo or Table handler or of QTimeEvt_postIn fails,   *)
(* however long the busy periods are: HUNGRY comes from a philosopher not  *)
(* already waiting, DONE from one whose forks are USED, EAT reaches the    *)
(* philosopher it names only while he is hungry, and a time event is armed *)
(* only when it is disarmed.                                               *)
HandlerAssertionsHold == status # "failed"

(* No assertion fails at all, those of the event queues included, when a   *)
(* busy period is shorter than EAT_TIME.                                   *)
NoAssertionFails == status = "running"

(* Table never leaves a philosopher waiting whose forks are both free: the *)
(* two neighbour checks in the DONE handler miss nobody.                   *)
NobodyForgotten ==
  pc[Table] = "idle" => \A p \in Philo : isHungry[p] = 1 => ~BothFree(p)

(* Blocks of the small event pool in use.  The EATs still wanted by some   *)
(* philosopher are those wanted by the one furthest behind, since all get  *)
(* the same EATs in the same order; QF_publish keeps a reference to DONE   *)
(* until the philosopher who published it goes on.                         *)
EatsWanted(p) ==
  Cardinality({i \in 1 .. Len(queue[p]) : queue[p][i].sig = "EAT"})
    + IF ev[p].sig = "EAT" THEN 1 ELSE 0

KeptByPublisher ==
  {p \in Philo : /\ pc[p] = "posted" /\ state[p] = "eating"
                 /\ ~InQueue(Table, TableEvt("DONE", p)) /\ ev[Table] # TableEvt("DONE", p)}

BlocksInUse ==
  LET behind == CHOOSE p \in Philo : \A r \in Philo : EatsWanted(r) <= EatsWanted(p)
  IN  EatsWanted(behind) + Len(queue[Table]) + (IF pc[Table] = "idle" THEN 0 ELSE 1)
        + Cardinality(KeptByPublisher)

(* The small event pool of main.c never runs out, which would stop the     *)
(* system in Q_NEW: it needs a block for the EAT of every second           *)
(* philosopher, one for the DONE of every second one, and one for Table    *)
(* besides those EXTI0 allocates.                                          *)
SmallPoolSuffices == BlocksInUse <= 2 * (N_PHILO \div 2) + 1 + MAX_EXTI

(* Every philosopher who becomes hungry eventually eats, unless from some  *)
(* time on EXTI0 never lets the processor become idle again.               *)
NoStarvation == []<>Idle => \A p \in Philo : state[p] = "hungry" ~> Eating(p)

(* The application as an onlooker sees it: a philosopher is hungry from    *)
(* posting HUNGRY to the entry action of eating, and eats until his exit   *)
(* action publishes DONE.                                                  *)
Phase ==
  [p \in Philo |->
     IF pc[p] = "posted" THEN IF state[p] = "thinking" THEN "hungry" ELSE "thinking"
                         ELSE state[p]]

NextTo(p) == {LEFT(p), RIGHT(p)}

Abstract == INSTANCE Dining WITH phase <- Phase, Neighbours <- NextTo

(* The event-driven program implements the Dining specification: every     *)
(* step of it is a step of one philosopher that Dining allows, or none.    *)
ImplementsDining == Abstract!Spec
============================================================================
