----------------------------- MODULE DPP_proofs -----------------------------
(***************************************************************************)
(* Proofs about DPP: type correctness, and the inductive invariant from    *)
(* which mutual exclusion, the fork bookkeeping of Table and the           *)
(* assertions of the handlers follow for every number of philosophers and  *)
(* every timing.                                                           *)
(***************************************************************************)
EXTENDS DPP, FiniteSetTheorems, WellFoundedInduction, TLAPS

(* The value of LEFT without the modulo.                                   *)
LEMMA LeftValue ==
  ASSUME NEW n \in Philo
  PROVE  LEFT(n) = IF n = N_PHILO - 1 THEN 0 ELSE n + 1
  BY PhiloAssumption DEF Philo, LEFT

(* The value of RIGHT without the modulo.                                  *)
LEMMA RightValue ==
  ASSUME NEW n \in Philo
  PROVE  RIGHT(n) = IF n = 0 THEN N_PHILO - 1 ELSE n - 1
  BY PhiloAssumption DEF Philo, RIGHT

(* LEFT and RIGHT are inverse permutations of the philosophers, and nobody *)
(* is his own neighbour.                                                   *)
LEMMA Neighbours ==
  ASSUME NEW n \in Philo
  PROVE  /\ LEFT(n) \in Philo /\ RIGHT(n) \in Philo
         /\ LEFT(n) # n
         /\ LEFT(RIGHT(n)) = n /\ RIGHT(LEFT(n)) = n
         /\ \A k \in Philo : LEFT(k) = LEFT(n) => k = n
<1>1. LEFT(n) \in Philo /\ RIGHT(n) \in Philo /\ LEFT(n) # n
  BY LeftValue, RightValue, PhiloAssumption DEF Philo
<1>2. LEFT(RIGHT(n)) = n /\ RIGHT(LEFT(n)) = n
  BY <1>1, LeftValue, RightValue, PhiloAssumption DEF Philo
<1>3. \A k \in Philo : LEFT(k) = LEFT(n) => k = n
  BY LeftValue, PhiloAssumption DEF Philo
<1> QED BY <1>1, <1>2, <1>3

(* Table is an active object and no philosopher; it has the highest        *)
(* priority.                                                               *)
LEMMA AOs ==
  /\ Philo \subseteq AO /\ Table \in AO /\ Table \notin Philo
  /\ AO = Philo \cup {Table}
  /\ \A p \in Philo : Table > p
  BY PhiloAssumption DEF Philo, AO, Table

-----------------------------------------------------------------------------
(* What the asserting actions do when they do not stop the system.         *)

(* A thinking timeout posts HUNGRY, or the queue of Table overflows.       *)
LEMMA ThinkingTimeoutEffect ==
  ASSUME NEW p \in Philo, ThinkingTimeout(p)
  PROVE  \/ Halt("overflow")
         \/ /\ QueueAccepts(Table)
            /\ PostTable(TableEvt("HUNGRY", p))
            /\ Goto(p, "posted")
            /\ UNCHANGED <<philoVars, tableVars, busyTicks, status>>
  BY DEF ThinkingTimeout, Asserting

(* An eating timeout posts DONE, or the queue of Table overflows.          *)
LEMMA EatingTimeoutEffect ==
  ASSUME NEW p \in Philo, EatingTimeout(p)
  PROVE  \/ Halt("overflow")
         \/ /\ QueueAccepts(Table)
            /\ PostTable(TableEvt("DONE", p))
            /\ Goto(p, "posted")
            /\ UNCHANGED <<philoVars, tableVars, busyTicks, status>>
  BY DEF EatingTimeout, Asserting

(* EAT starts the meal, or the time event was still armed.                 *)
LEMMA HungryEatEffect ==
  ASSUME NEW p \in Philo, HungryEat(p)
  PROVE  \/ ~Disarmed(p) /\ Halt("failed")
         \/ /\ PostIn(p, EAT_TIME)
            /\ state' = [state EXCEPT ![p] = "eating"]
            /\ Return(p)
            /\ UNCHANGED <<tableVars, queue, busyTicks, status>>
  BY DEF HungryEat, Asserting

(* A finished meal starts a thought, or the time event was still armed.    *)
LEMMA EnterThinkingEffect ==
  ASSUME NEW p \in Philo, EnterThinking(p)
  PROVE  \/ ~Disarmed(p) /\ Halt("failed")
         \/ /\ PostIn(p, THINK_TIME)
            /\ state' = [state EXCEPT ![p] = "thinking"]
            /\ Return(p)
            /\ UNCHANGED <<tableVars, queue, busyTicks, status>>
  BY DEF EnterThinking, Asserting

(* An ignored event changes nothing, or it was an EAT nobody asked for.    *)
LEMMA PhiloIgnoreEffect ==
  ASSUME NEW p \in Philo, PhiloIgnore(p)
  PROVE  \/ /\ ev[p] = TableEvt("EAT", p) /\ state[p] # "hungry"
            /\ Halt("failed")
         \/ Return(p) /\ UNCHANGED <<philoVars, tableVars, queue, busyTicks, status>>
  BY DEF PhiloIgnore, Asserting

(* HUNGRY is served or remembered, or one of its assertions fails.         *)
LEMMA TableHungryEffect ==
  ASSUME NEW n, n = ev[Table].philoNum, TableHungry
  PROVE  \/ isHungry[n] # 0 /\ Halt("failed")
         \/ Halt("overflow")
         \/ /\ BothFree(n)
            /\ fork' = SetForks(n, "USED")
            /\ PublishEat(n)
            /\ Return(Table)
            /\ UNCHANGED <<philoVars, isHungry, busyTicks, status>>
         \/ /\ ~BothFree(n)
            /\ isHungry' = [isHungry EXCEPT ![n] = 1]
            /\ Return(Table)
            /\ UNCHANGED <<philoVars, fork, queue, busyTicks, status>>
  BY DEF TableHungry, Asserting

(* DONE frees the forks and serves on the right, or an assertion fails.    *)
LEMMA TableDoneEffect ==
  ASSUME NEW n, n = ev[Table].philoNum, TableDone
  PROVE  \/ /\ ~(isHungry[n] = 0 /\ fork[n] = "USED" /\ fork[LEFT(n)] = "USED")
            /\ Halt("failed")
         \/ Halt("overflow")
         \/ /\ Serve(RIGHT(n), RIGHT(n), SetForks(n, "FREE"))
            /\ Goto(Table, "left")
            /\ UNCHANGED <<philoVars, busyTicks, status>>
  BY DEF TableDone, Asserting

(* The second half of DONE serves on the left, or a queue overflows.       *)
LEMMA TableDoneLeftEffect ==
  ASSUME NEW m, m = LEFT(ev[Table].philoNum), TableDoneLeft
  PROVE  \/ Halt("overflow")
         \/ /\ Serve(m, LEFT(m), fork)
            /\ Return(Table)
            /\ UNCHANGED <<philoVars, busyTicks, status>>
  BY DEF TableDoneLeft, Asserting

(* A tick counts down and posts the timeouts, or a queue overflows.        *)
LEMMA TickEffect ==
  ASSUME Tick
  PROVE  \/ Halt("overflow")
         \/ /\ timer' = [p \in Philo |-> CountDown(timer[p])]
            /\ queue' = [a \in AO |-> IF a \in {p \in Philo : timer[p] = 1}
                                      THEN Append(queue[a], TableEvt("TIMEOUT", a))
                                      ELSE queue[a]]
            /\ busyTicks' = IF Idle THEN 0 ELSE busyTicks + 1
            /\ UNCHANGED <<state, tableVars, kernVars, status>>
  BY DEF Tick, Asserting

(* EXTI0 posts its event, or the queue of Table overflows.                 *)
LEMMA Exti0Effect ==
  ASSUME Exti0
  PROVE  \/ Halt("overflow")
         \/ /\ PostTable(TableEvt("MAX_PUB", 0))
            /\ UNCHANGED <<philoVars, tableVars, kernVars, busyTicks, status>>
  BY DEF Exti0, Asserting

-----------------------------------------------------------------------------
(* No step of the program leaves the types.                                *)
LEMMA TypeStep == TypeOK /\ [Next]_vars => TypeOK'
<1> SUFFICES ASSUME TypeOK, [Next]_vars
             PROVE  TypeOK'
  OBVIOUS
<1> USE AOs DEF TypeOK
<1>0. ASSUME NEW s \in Sig, NEW n \in Philo
      PROVE  TableEvt(s, n) \in Evt
  BY DEF TableEvt, Evt
<1>h. ASSUME NEW why \in {"failed", "overflow"}, Halt(why)
      PROVE  TypeOK'
  BY <1>h DEF Halt
<1>e. ASSUME NEW n \in Philo, PublishEat(n)
      PROVE  queue' \in [AO -> Seq(Evt)]
  BY <1>0, <1>e DEF PublishEat, Sig
<1>1. ASSUME NEW a \in AO, Sched(a)
      PROVE  TypeOK'
  BY <1>1 DEF Sched, Schedulable, philoVars, tableVars
<1>2. ASSUME NEW p \in Philo, ThinkingTimeout(p)
      PROVE  TypeOK'
  <2>1. CASE PostTable(TableEvt("HUNGRY", p)) /\ Goto(p, "posted")
             /\ UNCHANGED <<philoVars, tableVars, busyTicks, status>>
    BY <1>0, <2>1 DEF PostTable, Goto, philoVars, tableVars, Sig
  <2> QED BY <1>h, <1>2, <2>1, ThinkingTimeoutEffect
<1>3. ASSUME NEW p \in Philo, EnterHungry(p)
      PROVE  TypeOK'
  BY <1>3 DEF EnterHungry, Return, tableVars
<1>4. ASSUME NEW p \in Philo, HungryEat(p)
      PROVE  TypeOK'
  <2>1. CASE PostIn(p, EAT_TIME) /\ state' = [state EXCEPT ![p] = "eating"]
             /\ Return(p) /\ UNCHANGED <<tableVars, queue, busyTicks, status>>
    BY <2>1, PhiloAssumption DEF PostIn, Return, tableVars
  <2> QED BY <1>h, <1>4, <2>1, HungryEatEffect
<1>5. ASSUME NEW p \in Philo, EatingTimeout(p)
      PROVE  TypeOK'
  <2>1. CASE PostTable(TableEvt("DONE", p)) /\ Goto(p, "posted")
             /\ UNCHANGED <<philoVars, tableVars, busyTicks, status>>
    BY <1>0, <2>1 DEF PostTable, Goto, philoVars, tableVars, Sig
  <2> QED BY <1>h, <1>5, <2>1, EatingTimeoutEffect
<1>6. ASSUME NEW p \in Philo, EnterThinking(p)
      PROVE  TypeOK'
  <2>1. CASE PostIn(p, THINK_TIME) /\ state' = [state EXCEPT ![p] = "thinking"]
             /\ Return(p) /\ UNCHANGED <<tableVars, queue, busyTicks, status>>
    BY <2>1, PhiloAssumption DEF PostIn, Return, tableVars
  <2> QED BY <1>h, <1>6, <2>1, EnterThinkingEffect
<1>7. ASSUME NEW p \in Philo, PhiloIgnore(p)
      PROVE  TypeOK'
  <2>1. CASE Return(p) /\ UNCHANGED <<philoVars, tableVars, queue, busyTicks, status>>
    BY <2>1 DEF Return, philoVars, tableVars
  <2> QED BY <1>h, <1>7, <2>1, PhiloIgnoreEffect
<1>n. CASE TableHungry \/ TableDone \/ TableDoneLeft
  <2> DEFINE n == ev[Table].philoNum
  <2>1. n \in Philo
    BY <1>n, PhiloAssumption
    DEF TableHungry, TableDone, TableDoneLeft, At, Evt, NoEvt, Philo
  <2>2. ASSUME NEW m \in Philo, NEW forks \in [Philo -> {"FREE", "USED"}],
               NEW f, Serve(m, f, forks)
        PROVE  /\ fork' \in [Philo -> {"FREE", "USED"}]
               /\ isHungry' \in [Philo -> {0, 1}]
               /\ queue' \in [AO -> Seq(Evt)]
    BY <1>e, <2>2, Neighbours DEF Serve
  <2>3. LEFT(n) \in Philo /\ RIGHT(n) \in Philo
        /\ \A u \in {"FREE", "USED"} : SetForks(n, u) \in [Philo -> {"FREE", "USED"}]
    BY <2>1, Neighbours DEF SetForks
  <2> HIDE DEF n
  <2>4. CASE TableHungry
    <3>1. CASE fork' = SetForks(n, "USED") /\ PublishEat(n) /\ Return(Table)
               /\ UNCHANGED <<philoVars, isHungry, busyTicks, status>>
      BY <1>e, <2>1, <2>3, <3>1 DEF Return, philoVars
    <3>2. CASE isHungry' = [isHungry EXCEPT ![n] = 1] /\ Return(Table)
               /\ UNCHANGED <<philoVars, fork, queue, busyTicks, status>>
      BY <2>1, <3>2 DEF Return, philoVars
    <3> QED BY <1>h, <2>4, <3>1, <3>2, TableHungryEffect DEF n
  <2>5. CASE TableDone
    <3>1. CASE Serve(RIGHT(n), RIGHT(n), SetForks(n, "FREE")) /\ Goto(Table, "left")
               /\ UNCHANGED <<philoVars, busyTicks, status>>
      BY <2>2, <2>3, <3>1 DEF Goto, philoVars
    <3> QED BY <1>h, <2>5, <3>1, TableDoneEffect DEF n
  <2>6. CASE TableDoneLeft
    <3>1. CASE Serve(LEFT(n), LEFT(LEFT(n)), fork) /\ Return(Table)
               /\ UNCHANGED <<philoVars, busyTicks, status>>
      BY <2>2, <2>3, <3>1 DEF Return, philoVars
    <3> QED BY <1>h, <2>6, <3>1, TableDoneLeftEffect DEF n
  <2> QED BY <1>n, <2>4, <2>5, <2>6
<1>8. CASE TableIgnore
  BY <1>8 DEF TableIgnore, Return, philoVars, tableVars
<1>9. CASE Tick
  <2>1. CASE /\ timer' = [p \in Philo |-> CountDown(timer[p])]
             /\ queue' = [a \in AO |-> IF a \in {p \in Philo : timer[p] = 1}
                                       THEN Append(queue[a], TableEvt("TIMEOUT", a))
                                       ELSE queue[a]]
             /\ busyTicks' = IF Idle THEN 0 ELSE busyTicks + 1
             /\ UNCHANGED <<state, tableVars, kernVars, status>>
    BY <1>0, <2>1 DEF tableVars, kernVars, Sig, CountDown
  <2> QED BY <1>h, <1>9, <2>1, TickEffect
<1>10. CASE Exti0
  <2>1. CASE /\ PostTable(TableEvt("MAX_PUB", 0))
             /\ UNCHANGED <<philoVars, tableVars, kernVars, busyTicks, status>>
    BY <1>0, <2>1, PhiloAssumption
    DEF PostTable, philoVars, tableVars, kernVars, Sig, Philo
  <2> QED BY <1>h, <1>10, <2>1, Exti0Effect
<1>11. CASE UNCHANGED vars
  BY <1>11 DEF vars
<1> QED
  BY <1>1, <1>2, <1>3, <1>4, <1>5, <1>6, <1>7, <1>n, <1>8, <1>9, <1>10, <1>11
  DEF Next, Run, PhiloStep, TableStep

(* Every reachable state is well typed.                                    *)
THEOREM Typing == Spec => []TypeOK
<1>1. Init => TypeOK
  BY PhiloAssumption DEF Init, TypeOK, Philo, AO, NoEvt
<1> QED
  BY <1>1, TypeStep, PTL DEF Spec

-----------------------------------------------------------------------------
(* Sequences: membership and uniqueness of an event in a queue.            *)

Once(s, e) == \A i, j \in 1 .. Len(s) : s[i] = e /\ s[j] = e => i = j

(* What Append adds to a queue.                                            *)
LEMMA AppendFacts ==
  ASSUME NEW S, NEW s \in Seq(S), NEW e \in S, NEW f
  PROVE  /\ Append(s, e) \in Seq(S)
         /\ Has(Append(s, e), f) <=> Has(s, f) \/ f = e
         /\ Once(s, f) /\ (f = e => ~Has(s, f)) => Once(Append(s, e), f)
<1>1. /\ Append(s, e) \in Seq(S)
      /\ Len(Append(s, e)) = Len(s) + 1
      /\ \A i \in 1 .. Len(s) : Append(s, e)[i] = s[i]
      /\ Append(s, e)[Len(s) + 1] = e
      /\ Len(s) \in Nat
  OBVIOUS
<1>2. Has(Append(s, e), f) <=> Has(s, f) \/ f = e
  BY <1>1 DEF Has
<1>3. Once(s, f) /\ (f = e => ~Has(s, f)) => Once(Append(s, e), f)
  BY <1>1 DEF Has, Once
<1> QED BY <1>1, <1>2, <1>3

(* What taking the front event leaves in a queue.                          *)
LEMMA TailFacts ==
  ASSUME NEW S, NEW s \in Seq(S), s # << >>, NEW f
  PROVE  /\ Tail(s) \in Seq(S) /\ Head(s) \in S
         /\ Has(s, f) <=> Head(s) = f \/ Has(Tail(s), f)
         /\ Once(s, f) => Once(Tail(s), f)
         /\ Once(s, f) /\ Head(s) = f => ~Has(Tail(s), f)
<1>1. /\ Tail(s) \in Seq(S) /\ Head(s) \in S /\ Head(s) = s[1]
      /\ Len(s) \in Nat /\ Len(s) > 0 /\ Len(Tail(s)) = Len(s) - 1
      /\ \A i \in 1 .. Len(s) - 1 : Tail(s)[i] = s[i + 1]
  OBVIOUS
<1>2. ASSUME Has(s, f) PROVE Head(s) = f \/ Has(Tail(s), f)
  <2>1. PICK i \in 1 .. Len(s) : s[i] = f
    BY <1>2 DEF Has
  <2>2. CASE i = 1
    BY <1>1, <2>1, <2>2
  <2>3. CASE i # 1
    <3>1. i - 1 \in 1 .. Len(Tail(s)) /\ Tail(s)[i - 1] = f
      BY <1>1, <2>1, <2>3
    <3> QED BY <3>1 DEF Has
  <2> QED BY <2>2, <2>3
<1>3. ASSUME Head(s) = f \/ Has(Tail(s), f) PROVE Has(s, f)
  BY <1>1, <1>3 DEF Has
<1>4. Once(s, f) => Once(Tail(s), f)
  <2> SUFFICES ASSUME Once(s, f), NEW i \in 1 .. Len(Tail(s)), NEW j \in 1 .. Len(Tail(s)),
                      Tail(s)[i] = f, Tail(s)[j] = f
               PROVE  i = j
    BY DEF Once
  <2>1. s[i + 1] = f /\ s[j + 1] = f /\ i + 1 \in 1 .. Len(s) /\ j + 1 \in 1 .. Len(s)
    BY <1>1
  <2> QED BY <2>1 DEF Once
<1>5. Once(s, f) /\ Head(s) = f => ~Has(Tail(s), f)
  <2> SUFFICES ASSUME Once(s, f), Head(s) = f, NEW i \in 1 .. Len(Tail(s)), Tail(s)[i] = f
               PROVE  FALSE
    BY DEF Has
  <2>1. s[i + 1] = f /\ s[1] = f /\ i + 1 \in 1 .. Len(s) /\ 1 \in 1 .. Len(s) /\ i + 1 # 1
    BY <1>1
  <2> QED BY <2>1 DEF Once
<1> QED BY <1>1, <1>2, <1>3, <1>4, <1>5

-----------------------------------------------------------------------------
(* The inductive invariant.  It follows the request of a philosopher       *)
(* through the queues: the HUNGRY or DONE event that Table has not         *)
(* finished with belongs to a philosopher stopped right after posting it,  *)
(* because Table preempts him there; a philosopher waits for exactly one   *)
(* EAT, which is owed by isHungry or on its way; and his time event is     *)
(* armed, in his queue or being processed, never two of these.             *)

ExtiEvt     == TableEvt("MAX_PUB", 0)
Request     == [sig : {"HUNGRY", "DONE"}, philoNum : Philo]
PhiloEvt(p) == [sig : {"EAT"}, philoNum : Philo] \cup {TableEvt("TIMEOUT", p)}

InFlight(e) == InQueue(Table, e) \/ (pc[Table] = "run" /\ ev[Table] = e)
Posted(e)   == /\ pc[e.philoNum] = "posted"
               /\ state[e.philoNum] = IF e.sig = "HUNGRY" THEN "thinking" ELSE "eating"

Requesting(p) == InFlight(TableEvt("HUNGRY", p))
Releasing(p)  == InFlight(TableEvt("DONE", p))
Granted(p)    == InQueue(p, TableEvt("EAT", p))
TimedOut(p)   == InQueue(p, TableEvt("TIMEOUT", p))
Starting(p)   == pc[p] = "run" /\ ev[p] = TableEvt("EAT", p)
Expiring(p)   == pc[p] = "run" /\ ev[p] = TableEvt("TIMEOUT", p)
Waiting(p)    == \/ state[p] = "hungry" /\ ~Starting(p)
                 \/ state[p] = "thinking" /\ pc[p] = "posted"

TableInv ==
  /\ pc[Table] \in {"idle", "run", "left"}
  /\ \A i \in 1 .. Len(queue[Table]) :
       \/ queue[Table][i] = ExtiEvt
       \/ /\ i = 1 /\ pc[Table] = "idle"
          /\ queue[Table][i] \in Request /\ Posted(queue[Table][i])
  /\ pc[Table] = "run" => ev[Table] = ExtiEvt \/ (ev[Table] \in Request /\ Posted(ev[Table]))
  /\ pc[Table] = "left" => ev[Table] \in Request /\ ev[Table].sig = "DONE" /\ Posted(ev[Table])

PhiloInv(p) ==
  /\ pc[p] \in {"idle", "run", "posted"}
  /\ queue[p] \in Seq(PhiloEvt(p))
  /\ pc[p] = "run" => ev[p] \in PhiloEvt(p)
  /\ Once(queue[p], TableEvt("EAT", p))
  /\ Granted(p) => Waiting(p) /\ isHungry[p] = 0 /\ ~Requesting(p)
  /\ Starting(p) => state[p] = "hungry" /\ isHungry[p] = 0
  /\ isHungry[p] = 1 => Waiting(p) /\ ~Requesting(p)
  /\ Once(queue[p], TableEvt("TIMEOUT", p))
  /\ TimedOut(p) \/ timer[p] # 0 => state[p] # "hungry" /\ pc[p] # "posted" /\ ~Expiring(p)
  /\ Expiring(p) => state[p] # "hungry"
  /\ timer[p] # 0 => ~TimedOut(p)

(* As NobodyForgotten, also while Table has yet to check the left          *)
(* neighbour of the philosopher who is done.                               *)
WaitingInv ==
  \A p \in Philo :
    isHungry[p] = 1 => \/ ~BothFree(p)
                       \/ pc[Table] = "left" /\ p = LEFT(ev[Table].philoNum)

IInv ==
  /\ TypeOK
  /\ status # "failed"
  /\ TableInv
  /\ \A p \in Philo : PhiloInv(p)
  /\ ForksMatchOwners
  /\ WaitingInv

(* A request in flight stops its philosopher right after posting it.       *)
LEMMA InFlightPosted ==
  ASSUME TypeOK, TableInv, NEW e \in Request, InFlight(e)
  PROVE  Posted(e)
  BY DEF TypeOK, TableInv, InFlight, InQueue, Has, Request, ExtiEvt, TableEvt

(* While a philosopher runs, Table is idle and its queue is empty.         *)
LEMMA TableQuiet ==
  ASSUME TypeOK, NEW p \in Philo, NEW l, At(p, l)
  PROVE  /\ pc[Table] = "idle" /\ queue[Table] = << >>
         /\ \A e : ~InFlight(e)
  BY AOs DEF At, InFlight, InQueue, Has

(* Ownership of the forks in terms of the events in flight.                *)
LEMMA HoldsParts ==
  ASSUME NEW p \in Philo
  PROVE  /\ Holds(p) <=> Granted(p) \/ Starting(p) \/ Eating(p) \/ Releasing(p)
         /\ Holds(p)' <=> Granted(p)' \/ Starting(p)' \/ Eating(p)' \/ Releasing(p)'
  BY DEF Holds, Granted, Starting, Releasing, InFlight

(* The invariant holds when the active objects have been started.          *)
LEMMA InitIInv == Init => IInv
<1> SUFFICES ASSUME Init PROVE IInv
  OBVIOUS
<1>1. TypeOK
  BY PhiloAssumption DEF Init, TypeOK, Philo, AO, NoEvt
<1>2. TableInv
  BY AOs DEF Init, TableInv
<1>3. ASSUME NEW p \in Philo PROVE PhiloInv(p) /\ ~Holds(p)
  <2>1. /\ queue[p] = << >> /\ queue[Table] = << >> /\ pc[p] = "idle"
        /\ pc[Table] = "idle" /\ state[p] = "thinking" /\ isHungry[p] = 0
    BY AOs DEF Init
  <2>2. \A e : ~Has(<< >>, e) /\ Once(<< >>, e)
    BY DEF Has, Once
  <2>3. ~Granted(p) /\ ~TimedOut(p) /\ ~Starting(p) /\ ~Expiring(p) /\ ~Eating(p) /\ ~Releasing(p)
    BY <2>1, <2>2 DEF Granted, TimedOut, Starting, Expiring, Eating, Releasing, InFlight, InQueue
  <2>4. PhiloInv(p)
    BY <2>1, <2>2, <2>3 DEF PhiloInv
  <2> QED BY <2>3, <2>4, HoldsParts
<1>4. ForksMatchOwners
  BY <1>3, Neighbours DEF ForksMatchOwners, Init
<1>5. WaitingInv
  BY DEF WaitingInv, Init
<1>6. status # "failed"
  BY DEF Init
<1> QED BY <1>1, <1>2, <1>3, <1>4, <1>5, <1>6 DEF IInv

-----------------------------------------------------------------------------
(* What a step does not disturb.                                           *)

(* The fork bookkeeping is kept by a step that moves no fork and changes   *)
(* the owner of none.                                                      *)
LEMMA ForksKept ==
  ASSUME ForksMatchOwners, fork' = fork, \A q \in Philo : Holds(q)' <=> Holds(q)
  PROVE  ForksMatchOwners'
  BY Neighbours DEF ForksMatchOwners

(* Nobody is forgotten by a step that changes neither forks nor isHungry   *)
(* and does not end the DONE handler of Table.                             *)
LEMMA WaitingKept ==
  ASSUME WaitingInv, fork' = fork, isHungry' = isHungry,
         pc[Table] # "left" \/ (pc'[Table] = pc[Table] /\ ev'[Table] = ev[Table])
  PROVE  WaitingInv'
  BY DEF WaitingInv, BothFree

(* A step that leaves everything about philosopher q alone keeps his part. *)
LEMMA PhiloKept ==
  ASSUME NEW q \in Philo, PhiloInv(q),
         state'[q] = state[q], pc'[q] = pc[q], ev'[q] = ev[q], timer'[q] = timer[q],
         queue'[q] = queue[q], isHungry'[q] = isHungry[q],
         Requesting(q)' => Requesting(q)
  PROVE  /\ PhiloInv(q)'
         /\ Granted(q)' <=> Granted(q)
         /\ Starting(q)' <=> Starting(q)
         /\ Eating(q)' <=> Eating(q)
<1>1. /\ Granted(q)' <=> Granted(q)
      /\ Starting(q)' <=> Starting(q)
      /\ Eating(q)' <=> Eating(q)
      /\ TimedOut(q)' <=> TimedOut(q)
      /\ Expiring(q)' <=> Expiring(q)
      /\ Waiting(q)' <=> Waiting(q)
  BY DEF Granted, TimedOut, InQueue, Starting, Expiring, Waiting, Eating
<1>2. PhiloInv(q)'
  BY <1>1 DEF PhiloInv
<1> QED BY <1>1, <1>2

(* A halting step changes nothing that the invariant speaks of.            *)
LEMMA HaltIInv ==
  ASSUME IInv, Halt("overflow")
  PROVE  IInv'
<1>1. /\ UNCHANGED <<state, timer, fork, isHungry, queue, pc, ev, busyTicks>>
      /\ status' = "overflow"
  BY DEF Halt
<1>2. TypeOK' /\ status' # "failed"
  BY <1>1 DEF IInv, TypeOK
<1>3. \A e : InFlight(e)' <=> InFlight(e)
  BY <1>1 DEF InFlight, InQueue
<1>4. TableInv'
  BY <1>1 DEF IInv, TableInv, Posted
<1>5. ASSUME NEW p \in Philo
      PROVE  PhiloInv(p)' /\ (Holds(p)' <=> Holds(p))
  <2>1. Requesting(p)' <=> Requesting(p)
    BY <1>3 DEF Requesting
  <2>2. Releasing(p)' <=> Releasing(p)
    BY <1>3 DEF Releasing
  <2> QED BY <1>1, <2>1, <2>2, PhiloKept, HoldsParts DEF IInv
<1>6. ForksMatchOwners' /\ WaitingInv'
  BY <1>1, <1>5, ForksKept, WaitingKept DEF IInv
<1> QED BY <1>2, <1>4, <1>5, <1>6 DEF IInv

(* A step of philosopher p while Table is quiet: only his own part of the  *)
(* invariant has to be shown.                                              *)
LEMMA PhiloMoves ==
  ASSUME IInv, TypeOK', NEW p \in Philo,
         pc[Table] = "idle", queue[Table] = << >>,
         status' # "failed", fork' = fork, isHungry' = isHungry,
         pc'[Table] = "idle", queue'[Table] = << >>,
         \A q \in Philo \ {p} : /\ state'[q] = state[q] /\ pc'[q] = pc[q] /\ ev'[q] = ev[q]
                                /\ timer'[q] = timer[q] /\ queue'[q] = queue[q],
         PhiloInv(p)', Holds(p)' <=> Holds(p)
  PROVE  IInv'
<1>1. \A e : ~InFlight(e) /\ ~InFlight(e)'
  BY DEF InFlight, InQueue, Has
<1>2. TableInv'
  BY DEF TableInv
<1>3. ASSUME NEW q \in Philo, q # p
      PROVE  PhiloInv(q)' /\ (Holds(q)' <=> Holds(q))
  <2>1. ~Requesting(q)' /\ ~Releasing(q) /\ ~Releasing(q)'
    BY <1>1 DEF Requesting, Releasing
  <2>2. PhiloInv(q) /\ isHungry'[q] = isHungry[q]
    BY DEF IInv
  <2>3. q \in Philo \ {p}
    BY <1>3
  <2> QED BY <2>1, <2>2, <2>3, PhiloKept, HoldsParts
<1>4. ForksMatchOwners' /\ WaitingInv'
  BY <1>3, ForksKept, WaitingKept DEF IInv
<1> QED BY <1>2, <1>3, <1>4 DEF IInv

(* Taking the next event of a philosopher preserves the invariant.         *)
LEMMA SchedPhiloInv ==
  ASSUME IInv, TypeOK', NEW p \in Philo, Sched(p)
  PROVE  IInv'
<1> DEFINE q == queue[p]
<1>1. /\ pc[Table] = "idle" /\ queue[Table] = << >>
      /\ pc[p] = "idle" /\ q # << >> /\ status = "running"
  BY AOs DEF Sched, Schedulable
<1>2. /\ ev'[p] = Head(q) /\ queue'[p] = Tail(q) /\ pc'[p] = "run"
      /\ state' = state /\ timer' = timer /\ fork' = fork /\ isHungry' = isHungry
      /\ status' = status
      /\ \A a \in AO \ {p} : queue'[a] = queue[a] /\ pc'[a] = pc[a] /\ ev'[a] = ev[a]
  BY AOs DEF IInv, TypeOK, Sched, philoVars, tableVars
<1>3. PhiloInv(p)
  BY DEF IInv
<1>4. /\ Tail(q) \in Seq(PhiloEvt(p)) /\ Head(q) \in PhiloEvt(p)
      /\ \A f : /\ Has(q, f) <=> Head(q) = f \/ Has(Tail(q), f)
                /\ Once(q, f) => Once(Tail(q), f)
                /\ Once(q, f) /\ Head(q) = f => ~Has(Tail(q), f)
  BY <1>1, <1>3, TailFacts DEF PhiloInv
<1>5. ~Requesting(p) /\ ~Requesting(p)' /\ ~Releasing(p) /\ ~Releasing(p)'
  BY <1>1, <1>2, AOs DEF Requesting, Releasing, InFlight, InQueue, Has
<1>6. /\ Granted(p) <=> Granted(p)' \/ Starting(p)'
      /\ Starting(p)' => ~Granted(p)'
      /\ TimedOut(p) <=> TimedOut(p)' \/ Expiring(p)'
      /\ Expiring(p)' => ~TimedOut(p)'
      /\ ~Starting(p) /\ ~Expiring(p)
      /\ Eating(p)' <=> Eating(p)
      /\ ~(Starting(p)' /\ Expiring(p)')
  BY <1>1, <1>2, <1>3, <1>4
  DEF Granted, Starting, TimedOut, Expiring, InQueue, PhiloInv, Eating, TableEvt
<1>7. Waiting(p) => Waiting(p)' \/ Starting(p)'
  BY <1>1, <1>2 DEF Waiting
<1>8. PhiloInv(p)'
  <2>1. Once(queue'[p], TableEvt("EAT", p)) /\ Once(queue'[p], TableEvt("TIMEOUT", p))
    BY <1>2, <1>3, <1>4 DEF PhiloInv
  <2>2. Granted(p)' => Waiting(p)' /\ isHungry'[p] = 0
    BY <1>1, <1>2, <1>3, <1>6, <1>7 DEF PhiloInv
  <2>3. Starting(p)' => state'[p] = "hungry" /\ isHungry'[p] = 0
    BY <1>1, <1>2, <1>3, <1>6 DEF PhiloInv, Waiting
  <2>4. isHungry'[p] = 1 => Waiting(p)'
    BY <1>1, <1>2, <1>3, <1>6, <1>7 DEF PhiloInv
  <2>5. /\ TimedOut(p)' \/ timer'[p] # 0 =>
             state'[p] # "hungry" /\ pc'[p] # "posted" /\ ~Expiring(p)'
        /\ Expiring(p)' => state'[p] # "hungry"
        /\ timer'[p] # 0 => ~TimedOut(p)'
    BY <1>1, <1>2, <1>3, <1>6 DEF PhiloInv
  <2> QED BY <1>2, <1>4, <1>5, <2>1, <2>2, <2>3, <2>4, <2>5 DEF PhiloInv
<1>9. Holds(p)' <=> Holds(p)
  BY <1>5, <1>6, HoldsParts
<1> QED BY <1>1, <1>2, <1>8, <1>9, PhiloMoves, AOs

(* A philosopher's step that takes no event and touches no queue: which    *)
(* predicates of his own part are as before.                               *)
LEMMA QuietPhilo ==
  ASSUME TypeOK, TypeOK', NEW p \in Philo, NEW l, At(p, l), queue' = queue,
         pc'[Table] = pc[Table]
  PROVE  /\ pc[Table] = "idle" /\ queue[Table] = << >> /\ queue'[Table] = << >>
         /\ pc'[Table] = "idle" /\ pc[p] = l /\ status = "running"
         /\ ~Requesting(p) /\ ~Requesting(p)' /\ ~Releasing(p) /\ ~Releasing(p)'
         /\ Granted(p)' <=> Granted(p)
         /\ TimedOut(p)' <=> TimedOut(p)
<1>1. pc[Table] = "idle" /\ queue[Table] = << >> /\ pc[p] = l /\ status = "running"
  BY TableQuiet DEF At
<1>2. \A e : ~InFlight(e) /\ ~InFlight(e)'
  BY <1>1 DEF InFlight, InQueue, Has
<1> QED BY <1>1, <1>2 DEF Requesting, Releasing, Granted, TimedOut, InQueue

(* Completing the transition to hungry preserves the invariant.            *)
LEMMA EnterHungryInv ==
  ASSUME IInv, TypeOK', NEW p \in Philo, EnterHungry(p)
  PROVE  IInv'
<1>1. /\ At(p, "posted") /\ state[p] = "thinking" /\ queue' = queue
      /\ state'[p] = "hungry" /\ pc'[p] = "idle" /\ ev'[p] = NoEvt
      /\ timer' = timer /\ fork' = fork /\ isHungry' = isHungry /\ status' = status
      /\ \A q \in Philo \ {p} : state'[q] = state[q] /\ pc'[q] = pc[q] /\ ev'[q] = ev[q]
      /\ pc'[Table] = pc[Table]
  BY AOs DEF IInv, TypeOK, EnterHungry, Return, tableVars
<1>2. TypeOK /\ PhiloInv(p)
  BY DEF IInv
<1>3. /\ ~Starting(p) /\ ~Starting(p)' /\ ~Expiring(p)'
      /\ ~Eating(p) /\ ~Eating(p)' /\ Waiting(p)'
  <2>1. pc[p] = "posted"
    BY <1>1 DEF At
  <2> QED BY <1>1, <2>1 DEF Starting, Expiring, Eating, Waiting
<1>4. PhiloInv(p)'
  BY <1>1, <1>2, <1>3, QuietPhilo DEF PhiloInv
<1>5. Holds(p)' <=> Holds(p)
  BY <1>1, <1>2, <1>3, QuietPhilo, HoldsParts
<1> QED BY <1>1, <1>2, <1>4, <1>5, QuietPhilo, PhiloMoves

(* The transition to eating preserves the invariant.                       *)
LEMMA HungryEatInv ==
  ASSUME IInv, TypeOK', NEW p \in Philo, HungryEat(p)
  PROVE  IInv'
<1>1. At(p, "run") /\ state[p] = "hungry" /\ ev[p] = TableEvt("EAT", p)
  BY DEF HungryEat
<1>2. TypeOK /\ PhiloInv(p) /\ pc[p] = "run" /\ Starting(p)
  BY <1>1 DEF IInv, At, Starting
<1>3. Disarmed(p)
  BY <1>1, <1>2 DEF PhiloInv, Disarmed
<1>4. /\ PostIn(p, EAT_TIME)
      /\ state' = [state EXCEPT ![p] = "eating"]
      /\ Return(p)
      /\ UNCHANGED <<tableVars, queue, busyTicks, status>>
  BY <1>3, HungryEatEffect
<1>5. /\ queue' = queue /\ state'[p] = "eating" /\ pc'[p] = "idle" /\ ev'[p] = NoEvt
      /\ fork' = fork /\ isHungry' = isHungry /\ status' = status
      /\ \A q \in Philo \ {p} : /\ state'[q] = state[q] /\ pc'[q] = pc[q] /\ ev'[q] = ev[q]
                                /\ timer'[q] = timer[q]
      /\ pc'[Table] = pc[Table]
  BY <1>2, <1>4, AOs DEF TypeOK, PostIn, Return, tableVars
<1>6. ~Starting(p)' /\ ~Expiring(p)' /\ Eating(p)'
  BY <1>5 DEF Starting, Expiring, Eating
<1>7. ~Granted(p) /\ ~TimedOut(p)
  BY <1>1, <1>2 DEF PhiloInv, Waiting
<1>8. PhiloInv(p)'
  BY <1>1, <1>2, <1>5, <1>6, <1>7, QuietPhilo DEF PhiloInv
<1>9. Holds(p)' <=> Holds(p)
  BY <1>2, <1>6, HoldsParts
<1> QED BY <1>1, <1>2, <1>5, <1>8, <1>9, QuietPhilo, PhiloMoves

(* The transition to thinking preserves the invariant.                     *)
LEMMA EnterThinkingInv ==
  ASSUME IInv, TypeOK', NEW p \in Philo, EnterThinking(p)
  PROVE  IInv'
<1>1. At(p, "posted") /\ state[p] = "eating"
  BY DEF EnterThinking
<1>2. TypeOK /\ PhiloInv(p) /\ pc[p] = "posted"
  BY <1>1 DEF IInv, At
<1>3. Disarmed(p)
  BY <1>1, <1>2 DEF PhiloInv, Disarmed
<1>4. /\ PostIn(p, THINK_TIME)
      /\ state' = [state EXCEPT ![p] = "thinking"]
      /\ Return(p)
      /\ UNCHANGED <<tableVars, queue, busyTicks, status>>
  BY <1>3, EnterThinkingEffect
<1>5. /\ queue' = queue /\ state'[p] = "thinking" /\ pc'[p] = "idle" /\ ev'[p] = NoEvt
      /\ fork' = fork /\ isHungry' = isHungry /\ status' = status
      /\ \A q \in Philo \ {p} : /\ state'[q] = state[q] /\ pc'[q] = pc[q] /\ ev'[q] = ev[q]
                                /\ timer'[q] = timer[q]
      /\ pc'[Table] = pc[Table]
  BY <1>2, <1>4, AOs DEF TypeOK, PostIn, Return, tableVars
<1>6. /\ ~Starting(p)' /\ ~Expiring(p)' /\ ~Eating(p)'
      /\ ~Starting(p) /\ ~Eating(p) /\ ~Waiting(p)
  BY <1>1, <1>2, <1>5 DEF Starting, Expiring, Eating, Waiting
<1>7. ~Granted(p) /\ ~TimedOut(p)
  BY <1>1, <1>2, <1>6 DEF PhiloInv
<1>8. PhiloInv(p)'
  BY <1>1, <1>2, <1>5, <1>6, <1>7, QuietPhilo DEF PhiloInv
<1>9. Holds(p)' <=> Holds(p)
  BY <1>1, <1>2, <1>5, <1>6, <1>7, QuietPhilo, HoldsParts
<1> QED BY <1>1, <1>2, <1>5, <1>8, <1>9, QuietPhilo, PhiloMoves

(* Ignoring an event preserves the invariant.                              *)
LEMMA PhiloIgnoreInv ==
  ASSUME IInv, TypeOK', NEW p \in Philo, PhiloIgnore(p)
  PROVE  IInv'
<1>1. /\ At(p, "run")
      /\ \/ ev[p].sig # "TIMEOUT" /\ ~(state[p] = "hungry" /\ ev[p] = TableEvt("EAT", p))
         \/ ev[p].sig = "TIMEOUT" /\ state[p] = "hungry"
  BY DEF PhiloIgnore
<1>2. TypeOK /\ PhiloInv(p) /\ pc[p] = "run"
  BY <1>1 DEF IInv, At
<1>3. ~Starting(p)
  BY <1>1, <1>2 DEF PhiloInv, Starting, TableEvt
<1>4. Return(p) /\ UNCHANGED <<philoVars, tableVars, queue, busyTicks, status>>
  BY <1>2, <1>3, PhiloIgnoreEffect DEF Starting
<1>5. /\ queue' = queue /\ state' = state /\ pc'[p] = "idle" /\ ev'[p] = NoEvt
      /\ timer' = timer /\ fork' = fork /\ isHungry' = isHungry /\ status' = status
      /\ \A q \in Philo \ {p} : pc'[q] = pc[q] /\ ev'[q] = ev[q]
      /\ pc'[Table] = pc[Table]
  BY <1>2, <1>4, AOs DEF TypeOK, Return, philoVars, tableVars
<1>6. /\ ~Starting(p)' /\ ~Expiring(p)' /\ (Eating(p)' <=> Eating(p))
      /\ Waiting(p) => Waiting(p)'
  BY <1>2, <1>3, <1>5 DEF Starting, Expiring, Eating, Waiting
<1>8. PhiloInv(p)'
  BY <1>1, <1>2, <1>5, <1>6, QuietPhilo DEF PhiloInv
<1>9. Holds(p)' <=> Holds(p)
  BY <1>1, <1>2, <1>3, <1>5, <1>6, QuietPhilo, HoldsParts
<1> QED BY <1>1, <1>2, <1>5, <1>8, <1>9, QuietPhilo, PhiloMoves

(* The two steps in which a philosopher posts to Table.                    *)
LEMMA PostRequestInv ==
  ASSUME IInv, TypeOK', NEW p \in Philo, NEW s \in {"HUNGRY", "DONE"},
         At(p, "run"), ev[p].sig = "TIMEOUT",
         state[p] = IF s = "HUNGRY" THEN "thinking" ELSE "eating",
         PostTable(TableEvt(s, p)), Goto(p, "posted"),
         UNCHANGED <<philoVars, tableVars, busyTicks, status>>
  PROVE  IInv'
<1> DEFINE e == TableEvt(s, p)
<1>1. /\ TypeOK /\ TableInv /\ PhiloInv(p) /\ pc[p] = "run"
      /\ pc[Table] = "idle" /\ queue[Table] = << >> /\ status # "failed"
      /\ \A f : ~InFlight(f)
  BY TableQuiet DEF IInv, At
<1>2. /\ state' = state /\ timer' = timer /\ fork' = fork /\ isHungry' = isHungry
      /\ ev' = ev /\ status' = status /\ pc'[p] = "posted" /\ pc'[Table] = "idle"
      /\ \A q \in Philo \ {p} : pc'[q] = pc[q]
      /\ \A q \in Philo : queue'[q] = queue[q]
      /\ queue'[Table] = Append(queue[Table], e)
  BY <1>1, AOs DEF TypeOK, PostTable, Goto, philoVars, tableVars
<1>3. e \in Request /\ e \in Evt /\ e.sig = s /\ e.philoNum = p
  BY DEF Request, Evt, Sig, TableEvt
<1>4. Expiring(p) /\ ~Starting(p)
  BY <1>1 DEF PhiloInv, PhiloEvt, Expiring, Starting, TableEvt
<1>5. \A f : InFlight(f)' <=> f = e
  <2>1. queue[Table] \in Seq(Evt)
    BY <1>1, AOs DEF TypeOK
  <2>2. \A f : Has(queue'[Table], f) <=> Has(queue[Table], f) \/ f = e
    BY <1>2, <1>3, <2>1, AppendFacts
  <2> QED BY <1>1, <1>2, <2>2 DEF InFlight, InQueue
<1>6. TableInv'
  <2>1. Len(queue'[Table]) = 1 /\ queue'[Table][1] = e
    BY <1>1, <1>2, <1>3
  <2>2. Posted(e)'
    BY <1>2, <1>3 DEF Posted
  <2> QED BY <1>2, <1>3, <2>1, <2>2 DEF TableInv, Posted
<1>7. \A q \in Philo : Requesting(q)' <=> s = "HUNGRY" /\ q = p
  BY <1>5 DEF Requesting, TableEvt
<1>8. \A q \in Philo : Releasing(q)' <=> s = "DONE" /\ q = p
  BY <1>5 DEF Releasing, TableEvt
<1>9. \A q \in Philo : ~Requesting(q) /\ ~Releasing(q)
  BY <1>1 DEF Requesting, Releasing
<1>10. ASSUME NEW q \in Philo, q # p
       PROVE  PhiloInv(q)' /\ (Holds(q)' <=> Holds(q))
  <2>1. PhiloInv(q) /\ q \in Philo \ {p} /\ pc'[q] = pc[q]
    BY <1>2, <1>10 DEF IInv
  <2> QED BY <1>2, <1>7, <1>8, <1>9, <1>10, <2>1, PhiloKept, HoldsParts
<1>11. /\ ~Granted(p) /\ ~TimedOut(p) /\ isHungry[p] # 1 /\ timer[p] = 0
  BY <1>1, <1>4 DEF PhiloInv, Waiting
<1>12. /\ Granted(p)' <=> Granted(p)
       /\ TimedOut(p)' <=> TimedOut(p)
       /\ ~Starting(p)' /\ ~Expiring(p)' /\ ~Eating(p)' /\ (Eating(p) <=> s = "DONE")
  BY <1>1, <1>2 DEF Granted, TimedOut, InQueue, Starting, Expiring, Eating
<1>13. PhiloInv(p)'
  BY <1>1, <1>2, <1>11, <1>12 DEF PhiloInv
<1>14. Holds(p)' <=> Holds(p)
  BY <1>4, <1>8, <1>9, <1>11, <1>12, HoldsParts
<1>15. ForksMatchOwners' /\ WaitingInv'
  BY <1>1, <1>2, <1>10, <1>14, ForksKept, WaitingKept DEF IInv
<1> QED BY <1>1, <1>2, <1>6, <1>10, <1>13, <1>15 DEF IInv

(* Posting HUNGRY preserves the invariant.                                 *)
LEMMA ThinkingTimeoutInv ==
  ASSUME IInv, TypeOK', NEW p \in Philo, ThinkingTimeout(p)
  PROVE  IInv'
  BY ThinkingTimeoutEffect, PostRequestInv, HaltIInv DEF ThinkingTimeout

(* Publishing DONE preserves the invariant.                                *)
LEMMA EatingTimeoutInv ==
  ASSUME IInv, TypeOK', NEW p \in Philo, EatingTimeout(p)
  PROVE  IInv'
  BY EatingTimeoutEffect, PostRequestInv, HaltIInv DEF EatingTimeout

(* Interrupts and steps of Table that change no philosopher and no fork.   *)
LEMMA Exti0Inv ==
  ASSUME IInv, TypeOK', Exti0
  PROVE  IInv'
<1>1. CASE Halt("overflow")
  BY <1>1, HaltIInv
<1>2. CASE /\ PostTable(TableEvt("MAX_PUB", 0))
           /\ UNCHANGED <<philoVars, tableVars, kernVars, busyTicks, status>>
  <2>1. /\ state' = state /\ timer' = timer /\ fork' = fork /\ isHungry' = isHungry
        /\ pc' = pc /\ ev' = ev /\ status' = status
        /\ \A q \in Philo : queue'[q] = queue[q]
        /\ queue'[Table] = Append(queue[Table], ExtiEvt)
    BY <1>2, AOs DEF IInv, TypeOK, PostTable, philoVars, tableVars, kernVars, ExtiEvt
  <2>2. /\ TypeOK /\ TableInv /\ status # "failed"
        /\ queue[Table] \in Seq(Evt) /\ ExtiEvt \in Evt
    <3>1. ExtiEvt \in Evt
      BY PhiloAssumption DEF ExtiEvt, Evt, Sig, TableEvt, Philo
    <3> QED BY <3>1, AOs DEF IInv, TypeOK
  <2>3. \A e \in Request : InFlight(e)' <=> InFlight(e)
    BY <2>1, <2>2, AppendFacts DEF InFlight, InQueue, Request, ExtiEvt, TableEvt
  <2>4. TableInv'
    <3>1. /\ Len(queue'[Table]) = Len(queue[Table]) + 1
          /\ \A i \in 1 .. Len(queue[Table]) : queue'[Table][i] = queue[Table][i]
          /\ queue'[Table][Len(queue[Table]) + 1] = ExtiEvt
          /\ Len(queue[Table]) \in Nat
      BY <2>1, <2>2
    <3>2. \A e : Posted(e)' <=> Posted(e)
      BY <2>1 DEF Posted
    <3> QED BY <2>1, <2>2, <3>1, <3>2 DEF TableInv
  <2>5. ASSUME NEW q \in Philo
        PROVE  PhiloInv(q)' /\ (Holds(q)' <=> Holds(q))
    <3>1. (Requesting(q)' <=> Requesting(q)) /\ (Releasing(q)' <=> Releasing(q))
      BY <2>3 DEF Requesting, Releasing, Request, TableEvt
    <3> QED BY <2>1, <3>1, PhiloKept, HoldsParts DEF IInv
  <2>6. ForksMatchOwners' /\ WaitingInv'
    BY <2>1, <2>5, ForksKept, WaitingKept DEF IInv
  <2> QED BY <2>1, <2>2, <2>4, <2>5, <2>6 DEF IInv
<1> QED BY <1>1, <1>2, Exti0Effect

(* A step of Table that keeps the events in flight for all philosophers.   *)
LEMMA TableMoves ==
  ASSUME IInv, TypeOK', TableInv', status' # "failed",
         state' = state, timer' = timer, fork' = fork, isHungry' = isHungry,
         \A q \in Philo : pc'[q] = pc[q] /\ ev'[q] = ev[q] /\ queue'[q] = queue[q],
         \A e \in Request : InFlight(e)' <=> InFlight(e),
         pc[Table] # "left"
  PROVE  IInv'
<1>1. ASSUME NEW q \in Philo
      PROVE  PhiloInv(q)' /\ (Holds(q)' <=> Holds(q))
  <2>1. (Requesting(q)' <=> Requesting(q)) /\ (Releasing(q)' <=> Releasing(q))
    BY DEF Requesting, Releasing, Request, TableEvt
  <2> QED BY <2>1, PhiloKept, HoldsParts DEF IInv
<1>2. ForksMatchOwners' /\ WaitingInv'
  BY <1>1, ForksKept, WaitingKept DEF IInv
<1> QED BY <1>1, <1>2 DEF IInv

(* Taking the next event of Table preserves the invariant.                 *)
LEMMA SchedTableInv ==
  ASSUME IInv, TypeOK', Sched(Table)
  PROVE  IInv'
<1> DEFINE q == queue[Table]
<1>1. /\ pc[Table] = "idle" /\ q # << >> /\ status = "running" /\ q \in Seq(Evt)
      /\ TypeOK /\ TableInv
  BY AOs DEF IInv, TypeOK, Sched, Schedulable
<1>2. /\ ev'[Table] = Head(q) /\ queue'[Table] = Tail(q) /\ pc'[Table] = "run"
      /\ state' = state /\ timer' = timer /\ fork' = fork /\ isHungry' = isHungry
      /\ status' = status
      /\ \A a \in Philo : queue'[a] = queue[a] /\ pc'[a] = pc[a] /\ ev'[a] = ev[a]
  BY <1>1, AOs DEF TypeOK, Sched, philoVars, tableVars
<1>3. \A e : InFlight(e)' <=> InFlight(e)
  BY <1>1, <1>2, TailFacts DEF InFlight, InQueue
<1>4. TableInv'
  <2>1. /\ Head(q) = q[1] /\ Len(q) \in Nat /\ Len(q) > 0 /\ Len(Tail(q)) = Len(q) - 1
        /\ \A i \in 1 .. Len(q) - 1 : Tail(q)[i] = q[i + 1]
    BY <1>1
  <2>2. ASSUME NEW e \in Request PROVE Posted(e)' <=> Posted(e)
    BY <1>2 DEF Posted, Request
  <2>3. \A i \in 1 .. Len(Tail(q)) : Tail(q)[i] = ExtiEvt
    <3> SUFFICES ASSUME NEW i \in 1 .. Len(Tail(q)) PROVE Tail(q)[i] = ExtiEvt
      OBVIOUS
    <3>1. i + 1 \in 1 .. Len(q) /\ i + 1 # 1 /\ Tail(q)[i] = q[i + 1]
      BY <2>1
    <3> QED BY <1>1, <3>1 DEF TableInv
  <2>4. Head(q) = ExtiEvt \/ (Head(q) \in Request /\ Posted(Head(q)))
    BY <1>1, <2>1 DEF TableInv
  <2> QED BY <1>2, <2>2, <2>3, <2>4 DEF TableInv
<1> QED BY <1>1, <1>2, <1>3, <1>4, TableMoves

(* Ignoring the EXTI0 event preserves the invariant.                       *)
LEMMA TableIgnoreInv ==
  ASSUME IInv, TypeOK', TableIgnore
  PROVE  IInv'
<1>1. /\ pc[Table] = "run" /\ ev[Table].sig = "MAX_PUB" /\ status = "running"
      /\ TypeOK /\ TableInv
  BY DEF IInv, TableIgnore, At
<1>2. /\ pc'[Table] = "idle" /\ queue' = queue
      /\ state' = state /\ timer' = timer /\ fork' = fork /\ isHungry' = isHungry
      /\ status' = status
      /\ \A a \in Philo : pc'[a] = pc[a] /\ ev'[a] = ev[a]
  BY <1>1, AOs DEF TypeOK, TableIgnore, Return, philoVars, tableVars
<1>3. \A e \in Request : InFlight(e)' <=> InFlight(e)
  BY <1>1, <1>2 DEF InFlight, InQueue, Request
<1>4. TableInv'
  BY <1>1, <1>2 DEF TableInv
<1> QED BY <1>1, <1>2, <1>3, <1>4, TableMoves

(* A clock tick preserves the invariant.                                   *)
LEMMA TickInv ==
  ASSUME IInv, TypeOK', Tick
  PROVE  IInv'
<1>1. CASE Halt("overflow")
  BY <1>1, HaltIInv
<1>2. CASE /\ timer' = [p \in Philo |-> CountDown(timer[p])]
           /\ queue' = [a \in AO |-> IF a \in {p \in Philo : timer[p] = 1}
                                     THEN Append(queue[a], TableEvt("TIMEOUT", a))
                                     ELSE queue[a]]
           /\ busyTicks' = IF Idle THEN 0 ELSE busyTicks + 1
           /\ UNCHANGED <<state, tableVars, kernVars, status>>
  <2>1. /\ state' = state /\ fork' = fork /\ isHungry' = isHungry
        /\ pc' = pc /\ ev' = ev /\ status' = status /\ queue'[Table] = queue[Table]
        /\ TypeOK /\ TableInv /\ status # "failed"
    BY <1>2, AOs DEF IInv, tableVars, kernVars
  <2>2. \A e : InFlight(e)' <=> InFlight(e)
    BY <2>1 DEF InFlight, InQueue
  <2>3. TableInv'
    BY <2>1 DEF TableInv, Posted
  <2>4. ASSUME NEW p \in Philo
        PROVE  PhiloInv(p)' /\ (Holds(p)' <=> Holds(p))
    <3>1. (Requesting(p)' <=> Requesting(p)) /\ (Releasing(p)' <=> Releasing(p))
      BY <2>2 DEF Requesting, Releasing
    <3>2. PhiloInv(p) /\ timer[p] \in Nat /\ timer'[p] = CountDown(timer[p])
      BY <1>2, <2>1 DEF IInv, TypeOK
    <3>3. /\ Starting(p)' <=> Starting(p)
          /\ Expiring(p)' <=> Expiring(p)
          /\ Eating(p)' <=> Eating(p)
          /\ Waiting(p)' <=> Waiting(p)
      BY <2>1 DEF Starting, Expiring, Eating, Waiting
    <3>4. CASE timer[p] # 1
      <4>1. /\ queue'[p] = queue[p]
            /\ timer'[p] # 0 => timer[p] # 0
        BY <1>2, <3>2, <3>4, AOs DEF CountDown
      <4>2. (Granted(p)' <=> Granted(p)) /\ (TimedOut(p)' <=> TimedOut(p))
        BY <4>1 DEF Granted, TimedOut, InQueue
      <4>3. PhiloInv(p)'
        BY <2>1, <3>1, <3>2, <3>3, <4>1, <4>2 DEF PhiloInv
      <4> QED BY <3>1, <3>3, <4>2, <4>3, HoldsParts
    <3>5. CASE timer[p] = 1
      <4>1. queue'[p] = Append(queue[p], TableEvt("TIMEOUT", p)) /\ timer'[p] = 0
        BY <1>2, <3>2, <3>5, AOs DEF CountDown
      <4>2. /\ ~TimedOut(p) /\ state[p] # "hungry" /\ pc[p] # "posted" /\ ~Expiring(p)
            /\ queue[p] \in Seq(PhiloEvt(p)) /\ TableEvt("TIMEOUT", p) \in PhiloEvt(p)
            /\ ~Has(queue[p], TableEvt("TIMEOUT", p))
        BY <3>2, <3>5 DEF PhiloInv, PhiloEvt, TimedOut, InQueue
      <4>3. TableEvt("EAT", p) # TableEvt("TIMEOUT", p)
        BY DEF TableEvt
      <4>4. /\ queue'[p] \in Seq(PhiloEvt(p))
            /\ Has(queue'[p], TableEvt("EAT", p)) <=> Has(queue[p], TableEvt("EAT", p))
            /\ Once(queue'[p], TableEvt("EAT", p))
            /\ Once(queue'[p], TableEvt("TIMEOUT", p))
        BY <3>2, <4>1, <4>2, <4>3, AppendFacts DEF PhiloInv
      <4>5. Granted(p)' <=> Granted(p)
        BY <4>4 DEF Granted, InQueue
      <4>6. PhiloInv(p)'
        BY <2>1, <3>1, <3>2, <3>3, <4>1, <4>2, <4>4, <4>5 DEF PhiloInv
      <4> QED BY <3>1, <3>3, <4>5, <4>6, HoldsParts
    <3> QED BY <3>4, <3>5
  <2>5. ForksMatchOwners' /\ WaitingInv'
    BY <2>1, <2>4, ForksKept, WaitingKept DEF IInv
  <2> QED BY <2>1, <2>3, <2>4, <2>5 DEF IInv
<1> QED BY <1>1, <1>2, TickEffect

-----------------------------------------------------------------------------
(* The steps in which Table moves forks.                                   *)

(* While Table runs, only EXTI0 events are in its queue: the request it is *)
(* processing is the only one in flight.                                   *)
LEMMA OneRequest ==
  ASSUME TypeOK, TableInv, pc[Table] # "idle", NEW e \in Request
  PROVE  ~InQueue(Table, e) /\ (InFlight(e) <=> pc[Table] = "run" /\ ev[Table] = e)
<1>1. ~InQueue(Table, e)
  BY DEF TableInv, InQueue, Has, Request, ExtiEvt, TableEvt
<1> QED BY <1>1 DEF InFlight

(* Publishing EAT(n) puts it into the queue of every philosopher.          *)
LEMMA PublishFacts ==
  ASSUME NEW n \in Philo, NEW q \in Philo, PhiloInv(q), PublishEat(n), q = n => ~Granted(n)
  PROVE  /\ queue'[q] \in Seq(PhiloEvt(q)) /\ queue'[Table] = queue[Table]
         /\ Granted(q)' <=> Granted(q) \/ q = n
         /\ TimedOut(q)' <=> TimedOut(q)
         /\ Once(queue'[q], TableEvt("EAT", q)) /\ Once(queue'[q], TableEvt("TIMEOUT", q))
<1>1. /\ queue'[q] = Append(queue[q], TableEvt("EAT", n))
      /\ queue'[Table] = queue[Table]
  BY AOs DEF PublishEat
<1>2. /\ TableEvt("EAT", n) \in PhiloEvt(q)
      /\ TableEvt("EAT", n) # TableEvt("TIMEOUT", q)
      /\ TableEvt("EAT", n) = TableEvt("EAT", q) <=> q = n
  BY DEF PhiloEvt, TableEvt
<1>3. /\ queue[q] \in Seq(PhiloEvt(q))
      /\ Once(queue[q], TableEvt("EAT", q)) /\ Once(queue[q], TableEvt("TIMEOUT", q))
  BY DEF PhiloInv
<1>4. /\ Granted(q) <=> Has(queue[q], TableEvt("EAT", q))
      /\ Granted(q)' <=> Has(queue'[q], TableEvt("EAT", q))
      /\ TimedOut(q) <=> Has(queue[q], TableEvt("TIMEOUT", q))
      /\ TimedOut(q)' <=> Has(queue'[q], TableEvt("TIMEOUT", q))
  BY DEF Granted, TimedOut, InQueue
<1> QED BY <1>1, <1>2, <1>3, <1>4, AppendFacts

(* A step of Table keeps the part of philosopher q when what it does to    *)
(* isHungry[q] and to the EAT events fits the state q is in.               *)
LEMMA PhiloAfterTable ==
  ASSUME NEW q \in Philo, PhiloInv(q),
         state'[q] = state[q], pc'[q] = pc[q], ev'[q] = ev[q], timer'[q] = timer[q],
         queue'[q] \in Seq(PhiloEvt(q)),
         Once(queue'[q], TableEvt("EAT", q)), Once(queue'[q], TableEvt("TIMEOUT", q)),
         TimedOut(q)' <=> TimedOut(q), ~Requesting(q)',
         Granted(q)' => Waiting(q) /\ isHungry'[q] = 0,
         isHungry'[q] = 1 => Waiting(q),
         Starting(q) => isHungry'[q] = 0
  PROVE  /\ PhiloInv(q)'
         /\ (Starting(q)' <=> Starting(q)) /\ (Eating(q)' <=> Eating(q))
<1>1. /\ Starting(q)' <=> Starting(q)
      /\ Expiring(q)' <=> Expiring(q)
      /\ Eating(q)' <=> Eating(q)
      /\ Waiting(q)' <=> Waiting(q)
  BY DEF Starting, Expiring, Eating, Waiting
<1>2. PhiloInv(q)'
  BY <1>1 DEF PhiloInv
<1> QED BY <1>1, <1>2

(* The HUNGRY handler preserves the invariant.                             *)
LEMMA TableHungryInv ==
  ASSUME IInv, TypeOK', TableHungry
  PROVE  IInv'
<1> DEFINE n == ev[Table].philoNum
<1>1. /\ pc[Table] = "run" /\ ev[Table].sig = "HUNGRY" /\ status = "running"
      /\ TypeOK /\ TableInv /\ \A q \in Philo : PhiloInv(q)
  BY DEF TableHungry, At, IInv
<1>2. /\ ev[Table] = TableEvt("HUNGRY", n) /\ n \in Philo
      /\ pc[n] = "posted" /\ state[n] = "thinking"
  BY <1>1 DEF TableInv, ExtiEvt, TableEvt, Request, Posted
<1> HIDE DEF n
<1>3. /\ Requesting(n)
      /\ \A q \in Philo : ~Releasing(q)
  <2>1. \A q \in Philo : TableEvt("DONE", q) \in Request /\ TableEvt("DONE", q) # ev[Table]
    BY <1>1 DEF Request, TableEvt
  <2>2. Requesting(n)
    BY <1>1, <1>2 DEF Requesting, InFlight
  <2> QED BY <1>1, <2>1, <2>2, OneRequest DEF Releasing
<1>4. /\ isHungry[n] = 0 /\ ~Granted(n) /\ ~Starting(n) /\ ~Eating(n) /\ Waiting(n)
  BY <1>1, <1>2, <1>3 DEF PhiloInv, TypeOK, Starting, Eating, Waiting
<1>5. ASSUME Return(Table), queue'[Table] = queue[Table], state' = state
      PROVE  /\ TableInv'
             /\ \A q \in Philo : ~Requesting(q)' /\ ~Releasing(q)'
             /\ \A q \in Philo : pc'[q] = pc[q] /\ ev'[q] = ev[q]
             /\ pc'[Table] = "idle"
  <2>1. /\ \A q \in Philo : pc'[q] = pc[q] /\ ev'[q] = ev[q]
        /\ pc'[Table] = "idle"
    BY <1>1, <1>5, AOs DEF Return, TypeOK
  <2>2. \A q \in Philo : TableEvt("DONE", q) \in Request /\ TableEvt("HUNGRY", q) \in Request
    BY DEF Request, TableEvt
  <2>3. \A e \in Request : ~InFlight(e)'
    BY <1>1, <1>5, <2>1, OneRequest DEF InFlight, InQueue
  <2>4. TableInv'
    BY <1>1, <1>5, <2>1 DEF TableInv
  <2> QED BY <2>1, <2>2, <2>3, <2>4 DEF Requesting, Releasing
<1>6. CASE Halt("overflow")
  BY <1>6, HaltIInv
<1>7. CASE /\ BothFree(n)
           /\ fork' = SetForks(n, "USED")
           /\ PublishEat(n)
           /\ Return(Table)
           /\ UNCHANGED <<philoVars, isHungry, busyTicks, status>>
  <2>1. /\ state' = state /\ timer' = timer /\ isHungry' = isHungry /\ status' = status
        /\ queue'[Table] = queue[Table]
    BY <1>1, <1>2, <1>4, <1>7, PublishFacts DEF philoVars
  <2>2. ASSUME NEW q \in Philo
        PROVE  PhiloInv(q)' /\ (Holds(q)' <=> Holds(q) \/ q = n)
    <3>1. Granted(q)' => Waiting(q) /\ isHungry'[q] = 0
      BY <1>1, <1>2, <1>4, <1>7, <2>1, PublishFacts DEF PhiloInv
    <3>2. PhiloInv(q)' /\ (Starting(q)' <=> Starting(q)) /\ (Eating(q)' <=> Eating(q))
      BY <1>1, <1>2, <1>4, <1>5, <1>7, <2>1, <3>1, PublishFacts, PhiloAfterTable DEF PhiloInv
    <3> QED BY <1>1, <1>2, <1>3, <1>4, <1>5, <1>7, <2>1, <3>2, PublishFacts, HoldsParts
  <2>3. /\ fork'[n] = "USED" /\ fork'[LEFT(n)] = "USED"
        /\ \A f \in Philo : f # n /\ f # LEFT(n) => fork'[f] = fork[f]
        /\ fork[n] = "FREE" /\ fork[LEFT(n)] = "FREE"
    BY <1>1, <1>2, <1>7, Neighbours DEF SetForks, BothFree, TypeOK
  <2>4. ForksMatchOwners'
    <3> SUFFICES ASSUME NEW p \in Philo
                 PROVE  /\ fork'[LEFT(p)] = "USED" <=> (Holds(p)' \/ Holds(LEFT(p))')
                        /\ ~(Holds(p)' /\ Holds(LEFT(p))')
      BY DEF ForksMatchOwners
    <3>1. LEFT(p) \in Philo /\ (LEFT(p) = LEFT(n) <=> p = n) /\ LEFT(n) # n /\ LEFT(n) \in Philo
          /\ LEFT(p) # p
      BY <1>2, Neighbours
    <3>2. /\ fork[LEFT(p)] = "USED" <=> (Holds(p) \/ Holds(LEFT(p)))
          /\ ~(Holds(p) /\ Holds(LEFT(p)))
          /\ fork[LEFT(n)] = "USED" <=> (Holds(n) \/ Holds(LEFT(n)))
      BY <1>2 DEF IInv, ForksMatchOwners
    <3> QED BY <2>2, <2>3, <3>1, <3>2
  <2>5. WaitingInv'
    BY <1>1, <1>2, <2>1, <2>3, Neighbours DEF IInv, WaitingInv, BothFree
  <2> QED BY <1>1, <1>5, <1>7, <2>1, <2>2, <2>4, <2>5 DEF IInv
<1>8. CASE /\ ~BothFree(n)
           /\ isHungry' = [isHungry EXCEPT ![n] = 1]
           /\ Return(Table)
           /\ UNCHANGED <<philoVars, fork, queue, busyTicks, status>>
  <2>1. /\ state' = state /\ timer' = timer /\ fork' = fork /\ status' = status
        /\ queue' = queue /\ isHungry'[n] = 1
        /\ \A q \in Philo : q # n => isHungry'[q] = isHungry[q]
    BY <1>1, <1>2, <1>8 DEF philoVars, TypeOK
  <2>2. ASSUME NEW q \in Philo
        PROVE  PhiloInv(q)' /\ (Holds(q)' <=> Holds(q))
    <3>1. (Granted(q)' <=> Granted(q)) /\ (TimedOut(q)' <=> TimedOut(q))
      BY <2>1 DEF Granted, TimedOut, InQueue
    <3>2. PhiloInv(q)' /\ (Starting(q)' <=> Starting(q)) /\ (Eating(q)' <=> Eating(q))
      BY <1>1, <1>2, <1>4, <1>5, <1>8, <2>1, <3>1, PhiloAfterTable DEF PhiloInv
    <3> QED BY <1>3, <1>5, <1>8, <2>1, <3>1, <3>2, HoldsParts
  <2>3. ForksMatchOwners'
    BY <2>1, <2>2, ForksKept DEF IInv
  <2>4. WaitingInv'
    BY <1>1, <1>2, <1>8, <2>1 DEF IInv, WaitingInv, BothFree
  <2> QED BY <1>1, <1>5, <1>8, <2>1, <2>2, <2>3, <2>4 DEF IInv
<1> QED BY <1>4, <1>6, <1>7, <1>8, TableHungryEffect DEF n

(* The fork bookkeeping as a relation between forks and a set of owners.   *)
Consistent(forks, own) ==
  \A p \in Philo :
    /\ forks[LEFT(p)] = "USED" <=> (p \in own \/ LEFT(p) \in own)
    /\ ~(p \in own /\ LEFT(p) \in own)

Owners == {q \in Philo : Holds(q)}

(* The fork bookkeeping is a relation between fork and the set of owners.  *)
LEMMA OwnersConsistent ==
  /\ ForksMatchOwners <=> Consistent(fork, Owners)
  /\ ForksMatchOwners' <=> Consistent(fork', Owners')
  BY Neighbours DEF ForksMatchOwners, Consistent, Owners

(* An owner may give up both his forks, ...                                *)
LEMMA ReleaseConsistent ==
  ASSUME NEW forks \in [Philo -> {"FREE", "USED"}], NEW own \in SUBSET Philo,
         Consistent(forks, own), NEW n \in own
  PROVE  /\ forks[n] = "USED" /\ forks[LEFT(n)] = "USED"
         /\ Consistent([forks EXCEPT ![n] = "FREE", ![LEFT(n)] = "FREE"], own \ {n})
<1> DEFINE freed == [forks EXCEPT ![n] = "FREE", ![LEFT(n)] = "FREE"]
<1>1. n \in Philo /\ LEFT(n) \in Philo /\ LEFT(n) # n /\ RIGHT(n) \in Philo /\ LEFT(RIGHT(n)) = n
  BY Neighbours
<1>2. forks[n] = "USED" /\ forks[LEFT(n)] = "USED" /\ LEFT(n) \notin own /\ RIGHT(n) \notin own
  BY <1>1 DEF Consistent
<1>3. /\ freed[n] = "FREE" /\ freed[LEFT(n)] = "FREE"
      /\ \A f \in Philo : f # n /\ f # LEFT(n) => freed[f] = forks[f]
  BY <1>1
<1>4. ASSUME NEW p \in Philo
      PROVE  /\ freed[LEFT(p)] = "USED" <=> (p \in own \ {n} \/ LEFT(p) \in own \ {n})
             /\ ~(p \in own \ {n} /\ LEFT(p) \in own \ {n})
  <2>1. LEFT(p) \in Philo /\ (LEFT(p) = LEFT(n) => p = n) /\ (LEFT(p) = n => p = RIGHT(n))
    BY <1>1, Neighbours
  <2>2. /\ forks[LEFT(p)] = "USED" <=> (p \in own \/ LEFT(p) \in own)
        /\ ~(p \in own /\ LEFT(p) \in own)
    BY DEF Consistent
  <2> QED BY <1>2, <1>3, <2>1, <2>2
<1> QED BY <1>2, <1>4 DEF Consistent

(* ... and somebody whose two forks are free may become their owner.       *)
LEMMA GrantConsistent ==
  ASSUME NEW forks \in [Philo -> {"FREE", "USED"}], NEW own \in SUBSET Philo,
         Consistent(forks, own), NEW m \in Philo,
         forks[m] = "FREE", forks[LEFT(m)] = "FREE"
  PROVE  Consistent([forks EXCEPT ![m] = "USED", ![LEFT(m)] = "USED"], own \cup {m})
<1> DEFINE taken == [forks EXCEPT ![m] = "USED", ![LEFT(m)] = "USED"]
<1>1. LEFT(m) \in Philo /\ LEFT(m) # m /\ RIGHT(m) \in Philo /\ LEFT(RIGHT(m)) = m
  BY Neighbours
<1>2. LEFT(m) \notin own /\ RIGHT(m) \notin own /\ m \notin own
  BY <1>1 DEF Consistent
<1>3. /\ taken[m] = "USED" /\ taken[LEFT(m)] = "USED"
      /\ \A f \in Philo : f # m /\ f # LEFT(m) => taken[f] = forks[f]
  BY <1>1
<1>4. ASSUME NEW p \in Philo
      PROVE  /\ taken[LEFT(p)] = "USED" <=> (p \in own \cup {m} \/ LEFT(p) \in own \cup {m})
             /\ ~(p \in own \cup {m} /\ LEFT(p) \in own \cup {m})
  <2>1. /\ LEFT(p) \in Philo /\ (LEFT(p) = LEFT(m) => p = m) /\ (LEFT(p) = m => p = RIGHT(m))
        /\ LEFT(p) # p
    BY <1>1, Neighbours
  <2>2. /\ forks[LEFT(p)] = "USED" <=> (p \in own \/ LEFT(p) \in own)
        /\ ~(p \in own /\ LEFT(p) \in own)
    BY DEF Consistent
  <2> QED BY <1>2, <1>3, <2>1, <2>2
<1> QED BY <1>4 DEF Consistent

(* A philosopher who waits with isHungry set owns nothing.                 *)
LEMMA HungryOwnsNothing ==
  ASSUME TypeOK, TableInv, NEW q \in Philo, PhiloInv(q), isHungry[q] = 1
  PROVE  ~Holds(q) /\ Waiting(q) /\ ~Granted(q) /\ ~Starting(q)
<1>1. Waiting(q) /\ ~Granted(q) /\ ~Starting(q)
  BY DEF PhiloInv
<1>2. ~Eating(q)
  BY <1>1 DEF Waiting, Eating
<1>3. ~Releasing(q)
  <2>1. TableEvt("DONE", q) \in Request
    BY DEF Request, TableEvt
  <2>2. Posted(TableEvt("DONE", q)) => state[q] = "eating"
    BY DEF Posted, TableEvt
  <2> QED BY <1>1, <2>1, <2>2, InFlightPosted DEF Releasing, Waiting
<1> QED BY <1>1, <1>2, <1>3, HoldsParts

(* The philosophers after Table has checked neighbour m: if m is served,   *)
(* he becomes an owner; nobody else does.                                  *)
LEMMA ServePhilos ==
  ASSUME TypeOK, TableInv, \A q \in Philo : PhiloInv(q),
         NEW m \in Philo, NEW otherFork, NEW forks, Serve(m, otherFork, forks),
         state' = state, timer' = timer,
         \A q \in Philo : pc'[q] = pc[q] /\ ev'[q] = ev[q],
         \A q \in Philo : ~Requesting(q)' /\ ~Releasing(q)'
  PROVE  /\ queue'[Table] = queue[Table]
         /\ \A q \in Philo : PhiloInv(q)'
         /\ \A q \in Philo : Holds(q)' <=> \/ Holds(q) /\ ~Releasing(q)
                                           \/ q = m /\ CanServe(m, otherFork, forks)
<1>0. \A q \in Philo : ~Releasing(q) => (Holds(q) <=> Granted(q) \/ Starting(q) \/ Eating(q))
  BY HoldsParts
<1>00. \A q \in Philo : Releasing(q) => ~Granted(q) /\ ~Starting(q) /\ ~Eating(q)
  <2> SUFFICES ASSUME NEW q \in Philo, Releasing(q)
               PROVE  ~Granted(q) /\ ~Starting(q) /\ ~Eating(q)
    OBVIOUS
  <2>1. TableEvt("DONE", q) \in Request
    BY DEF Request, TableEvt
  <2>2. Posted(TableEvt("DONE", q)) => state[q] = "eating" /\ pc[q] = "posted"
    BY DEF Posted, TableEvt
  <2>3. state[q] = "eating" /\ pc[q] = "posted"
    BY <2>1, <2>2, InFlightPosted DEF Releasing
  <2> QED BY <2>3 DEF PhiloInv, Starting, Eating, Waiting
<1>1. CASE /\ CanServe(m, otherFork, forks)
           /\ isHungry' = [isHungry EXCEPT ![m] = 0]
           /\ PublishEat(m)
  <2>1. isHungry[m] = 1 /\ ~Holds(m) /\ Waiting(m) /\ ~Granted(m) /\ ~Starting(m)
    BY <1>1, HungryOwnsNothing DEF CanServe
  <2>2. isHungry'[m] = 0 /\ \A q \in Philo : q # m => isHungry'[q] = isHungry[q]
    BY <1>1 DEF TypeOK
  <2>3. ASSUME NEW q \in Philo
        PROVE  /\ PhiloInv(q)' /\ (Starting(q)' <=> Starting(q)) /\ (Eating(q)' <=> Eating(q))
               /\ Granted(q)' <=> Granted(q) \/ q = m
    <3>1. /\ queue'[q] \in Seq(PhiloEvt(q))
          /\ Granted(q)' <=> Granted(q) \/ q = m
          /\ TimedOut(q)' <=> TimedOut(q)
          /\ Once(queue'[q], TableEvt("EAT", q)) /\ Once(queue'[q], TableEvt("TIMEOUT", q))
      BY <1>1, <2>1, PublishFacts
    <3>2. /\ Granted(q)' => Waiting(q) /\ isHungry'[q] = 0
          /\ isHungry'[q] = 1 => Waiting(q)
          /\ Starting(q) => isHungry'[q] = 0
      BY <2>1, <2>2, <3>1 DEF PhiloInv
    <3> QED BY <3>1, <3>2, PhiloAfterTable
  <2>4. queue'[Table] = queue[Table]
    BY <1>1, AOs DEF PublishEat
  <2> QED BY <1>0, <1>00, <1>1, <2>3, <2>4, HoldsParts
<1>2. CASE ~CanServe(m, otherFork, forks) /\ UNCHANGED <<isHungry, queue>>
  <2>1. ASSUME NEW q \in Philo
        PROVE  /\ PhiloInv(q)' /\ (Starting(q)' <=> Starting(q)) /\ (Eating(q)' <=> Eating(q))
               /\ Granted(q)' <=> Granted(q)
    BY <1>2, PhiloKept
  <2> QED BY <1>0, <1>00, <1>2, <2>1, HoldsParts
<1> QED BY <1>1, <1>2 DEF Serve

(* The first half of the DONE handler preserves the invariant.             *)
LEMMA TableDoneInv ==
  ASSUME IInv, TypeOK', TableDone
  PROVE  IInv'
<1> DEFINE n == ev[Table].philoNum
           m == RIGHT(n)
           freed == SetForks(n, "FREE")
<1>1. /\ pc[Table] = "run" /\ ev[Table].sig = "DONE" /\ status = "running"
      /\ TypeOK /\ TableInv /\ \A q \in Philo : PhiloInv(q)
  BY DEF TableDone, At, IInv
<1>2. /\ ev[Table] = TableEvt("DONE", n) /\ n \in Philo /\ ev[Table] \in Request
      /\ pc[n] = "posted" /\ state[n] = "eating" /\ Posted(ev[Table])
  BY <1>1 DEF TableInv, ExtiEvt, TableEvt, Request, Posted
<1> HIDE DEF n
<1>3. /\ m \in Philo /\ LEFT(n) \in Philo /\ LEFT(n) # n /\ LEFT(m) = n
  BY <1>2, Neighbours
<1>4. \A q \in Philo : Releasing(q) <=> q = n
  <2>1. \A q \in Philo : TableEvt("DONE", q) \in Request /\ (TableEvt("DONE", q) = ev[Table] <=> q = n)
    BY <1>2 DEF Request, TableEvt
  <2> QED BY <1>1, <2>1, OneRequest DEF Releasing
<1>5. isHungry[n] = 0
  <2>1. isHungry[n] \in {0, 1} /\ PhiloInv(n)
    BY <1>1, <1>2 DEF TypeOK
  <2>2. isHungry[n] = 1 => Waiting(n)
    BY <2>1 DEF PhiloInv
  <2> QED BY <1>2, <2>1, <2>2 DEF Waiting
<1>6. /\ Consistent(fork, Owners) /\ n \in Owners /\ Owners \in SUBSET Philo
      /\ fork \in [Philo -> {"FREE", "USED"}]
  BY <1>1, <1>2, <1>4, OwnersConsistent, HoldsParts DEF IInv, Owners, TypeOK
<1>7. fork[n] = "USED" /\ fork[LEFT(n)] = "USED" /\ Consistent(freed, Owners \ {n})
  BY <1>6, ReleaseConsistent DEF SetForks
<1>8. /\ freed \in [Philo -> {"FREE", "USED"}] /\ freed[n] = "FREE" /\ freed[LEFT(n)] = "FREE"
      /\ \A f \in Philo : f # n /\ f # LEFT(n) => freed[f] = fork[f]
  BY <1>2, <1>3, <1>6 DEF SetForks
<1>9. CASE Halt("overflow")
  BY <1>9, HaltIInv
<1>10. CASE Serve(m, m, freed) /\ Goto(Table, "left") /\ UNCHANGED <<philoVars, busyTicks, status>>
  <2> HIDE DEF freed, m
  <2>1. /\ state' = state /\ timer' = timer /\ status' = status /\ pc'[Table] = "left"
        /\ ev' = ev /\ \A q \in Philo : pc'[q] = pc[q] /\ ev'[q] = ev[q]
    BY <1>1, <1>10, AOs DEF Goto, TypeOK, philoVars
  <2>2. queue'[Table] = queue[Table]
    BY <1>10, AOs DEF Serve, PublishEat
  <2>3. \A q \in Philo : ~Requesting(q)' /\ ~Releasing(q)'
    <3>1. \A q \in Philo : TableEvt("DONE", q) \in Request /\ TableEvt("HUNGRY", q) \in Request
      BY DEF Request, TableEvt
    <3>2. \A e \in Request : ~InFlight(e)'
      BY <1>1, <2>1, <2>2, OneRequest DEF InFlight, InQueue
    <3> QED BY <3>1, <3>2 DEF Requesting, Releasing
  <2>4. /\ \A q \in Philo : PhiloInv(q)'
        /\ \A q \in Philo : Holds(q)' <=> \/ Holds(q) /\ q # n
                                          \/ q = m /\ CanServe(m, m, freed)
    BY <1>1, <1>3, <1>4, <1>10, <2>1, <2>3, ServePhilos
  <2>5. TableInv'
    <3>1. Posted(ev[Table])'
      BY <1>2, <2>1 DEF Posted, n
    <3> QED BY <1>1, <1>2, <2>1, <2>2, <3>1 DEF TableInv
  <2>6. ForksMatchOwners'
    <3>1. CASE CanServe(m, m, freed) /\ fork' = [freed EXCEPT ![m] = "USED", ![LEFT(m)] = "USED"]
      <4>1. Owners' = (Owners \ {n}) \cup {m}
        BY <1>3, <2>4, <3>1 DEF Owners
      <4>2. freed[m] = "FREE" /\ freed[LEFT(m)] = "FREE"
        BY <1>3, <1>8, <3>1 DEF CanServe
      <4> QED BY <1>3, <1>6, <1>7, <1>8, <3>1, <4>1, <4>2, GrantConsistent, OwnersConsistent
    <3>2. CASE ~CanServe(m, m, freed) /\ fork' = freed
      <4>1. Owners' = Owners \ {n}
        BY <2>4, <3>2 DEF Owners
      <4> QED BY <1>7, <3>2, <4>1, OwnersConsistent
    <3> QED BY <1>10, <3>1, <3>2 DEF Serve
  <2>7. WaitingInv'
    <3> SUFFICES ASSUME NEW p \in Philo, isHungry'[p] = 1, p # LEFT(n)
                 PROVE  ~BothFree(p)'
      BY <2>1 DEF WaitingInv, n
    <3>1. isHungry[p] = 1 /\ p # n /\ (p = m => ~CanServe(m, m, freed))
      BY <1>1, <1>3, <1>5, <1>10 DEF Serve, TypeOK
    <3>2. fork[p] = "USED" \/ fork[LEFT(p)] = "USED"
      BY <1>1, <3>1, Neighbours DEF IInv, WaitingInv, BothFree, TypeOK
    <3>3. LEFT(p) \in Philo /\ LEFT(p) # LEFT(n) /\ (LEFT(p) = n => p = m)
      BY <1>2, <1>3, <3>1, Neighbours DEF m
    <3>4. freed[p] = "USED" \/ freed[LEFT(p)] = "USED"
      BY <1>3, <1>8, <3>1, <3>2, <3>3 DEF CanServe
    <3>5. (freed[p] = "USED" => fork'[p] = "USED") /\ (freed[LEFT(p)] = "USED" => fork'[LEFT(p)] = "USED")
      BY <1>3, <1>8, <1>10, <3>3 DEF Serve
    <3> QED BY <3>4, <3>5 DEF BothFree
  <2> QED BY <1>1, <2>1, <2>4, <2>5, <2>6, <2>7 DEF IInv
<1> QED BY <1>5, <1>7, <1>9, <1>10, TableDoneEffect DEF n

(* The second half of the DONE handler preserves the invariant.            *)
LEMMA TableDoneLeftInv ==
  ASSUME IInv, TypeOK', TableDoneLeft
  PROVE  IInv'
<1> DEFINE n == ev[Table].philoNum
           m == LEFT(n)
<1>1. /\ pc[Table] = "left" /\ status = "running"
      /\ TypeOK /\ TableInv /\ \A q \in Philo : PhiloInv(q)
  BY DEF TableDoneLeft, At, IInv
<1>2. n \in Philo /\ pc[n] = "posted" /\ state[n] = "eating"
  BY <1>1 DEF TableInv, TableEvt, Request, Posted
<1>3. /\ m \in Philo /\ LEFT(m) \in Philo /\ LEFT(m) # m
  BY <1>2, Neighbours
<1>4. \A q \in Philo : ~Releasing(q)
  <2>1. \A q \in Philo : TableEvt("DONE", q) \in Request
    BY DEF Request, TableEvt
  <2> QED BY <1>1, <2>1, OneRequest DEF Releasing
<1>5. ~Holds(n)
  BY <1>1, <1>2, <1>4, HoldsParts DEF PhiloInv, Starting, Eating, Waiting
<1>6. /\ Consistent(fork, Owners) /\ Owners \in SUBSET Philo
      /\ fork \in [Philo -> {"FREE", "USED"}]
  BY <1>1, OwnersConsistent DEF IInv, Owners, TypeOK
<1>7. CASE Halt("overflow")
  BY <1>7, HaltIInv
<1>8. CASE Serve(m, LEFT(m), fork) /\ Return(Table) /\ UNCHANGED <<philoVars, busyTicks, status>>
  <2>1. /\ state' = state /\ timer' = timer /\ status' = status /\ pc'[Table] = "idle"
        /\ \A q \in Philo : pc'[q] = pc[q] /\ ev'[q] = ev[q]
    BY <1>1, <1>8, AOs DEF Return, TypeOK, philoVars
  <2>2. queue'[Table] = queue[Table]
    BY <1>8, AOs DEF Serve, PublishEat
  <2>3. \A q \in Philo : ~Requesting(q)' /\ ~Releasing(q)'
    <3>1. \A q \in Philo : TableEvt("DONE", q) \in Request /\ TableEvt("HUNGRY", q) \in Request
      BY DEF Request, TableEvt
    <3>2. \A e \in Request : ~InFlight(e)'
      BY <1>1, <2>1, <2>2, OneRequest DEF InFlight, InQueue
    <3> QED BY <3>1, <3>2 DEF Requesting, Releasing
  <2>4. /\ \A q \in Philo : PhiloInv(q)'
        /\ \A q \in Philo : Holds(q)' <=> \/ Holds(q)
                                          \/ q = m /\ CanServe(m, LEFT(m), fork)
    BY <1>1, <1>3, <1>4, <1>8, <2>1, <2>3, ServePhilos
  <2>5. TableInv'
    BY <1>1, <2>1, <2>2 DEF TableInv
  <2>6. ForksMatchOwners'
    <3>1. CASE CanServe(m, LEFT(m), fork) /\ fork' = [fork EXCEPT ![m] = "USED", ![LEFT(m)] = "USED"]
      <4>1. Owners' = Owners \cup {m}
        BY <1>3, <2>4, <3>1 DEF Owners
      <4>2. ~Holds(m) /\ fork[LEFT(m)] = "FREE"
        BY <1>1, <1>3, <3>1, HungryOwnsNothing DEF CanServe
      <4>3. fork[m] = "FREE"
        BY <1>2, <1>3, <1>5, <1>6, <4>2 DEF IInv, ForksMatchOwners
      <4> QED BY <1>3, <1>6, <3>1, <4>1, <4>2, <4>3, GrantConsistent, OwnersConsistent
    <3>2. CASE ~CanServe(m, LEFT(m), fork) /\ fork' = fork
      <4>1. Owners' = Owners
        BY <2>4, <3>2 DEF Owners
      <4> QED BY <1>6, <3>2, <4>1, OwnersConsistent
    <3> QED BY <1>8, <3>1, <3>2 DEF Serve
  <2>7. WaitingInv'
    <3> SUFFICES ASSUME NEW p \in Philo, isHungry'[p] = 1
                 PROVE  ~BothFree(p)'
      BY DEF WaitingInv
    <3>1. isHungry[p] = 1 /\ (p = m => ~CanServe(m, LEFT(m), fork))
      BY <1>1, <1>3, <1>8 DEF Serve, TypeOK
    <3>2. fork[p] = "USED" \/ fork[LEFT(p)] = "USED"
      BY <1>1, <1>3, <3>1, Neighbours DEF IInv, WaitingInv, BothFree, TypeOK, CanServe
    <3>3. (fork[p] = "USED" => fork'[p] = "USED") /\ (fork[LEFT(p)] = "USED" => fork'[LEFT(p)] = "USED")
      BY <1>3, <1>6, <1>8, Neighbours DEF Serve
    <3> QED BY <3>2, <3>3 DEF BothFree
  <2> QED BY <1>1, <2>1, <2>4, <2>5, <2>6, <2>7 DEF IInv
<1> QED BY <1>7, <1>8, TableDoneLeftEffect

-----------------------------------------------------------------------------
(* IInv is inductive.                                                      *)
LEMMA StepIInv == IInv /\ [Next]_vars => IInv'
<1> SUFFICES ASSUME IInv, [Next]_vars PROVE IInv'
  OBVIOUS
<1>1. TypeOK'
  BY TypeStep DEF IInv
<1>2. CASE \E a \in AO : Sched(a)
  BY <1>1, <1>2, AOs, SchedPhiloInv, SchedTableInv
<1>3. CASE \E p \in Philo : PhiloStep(p)
  BY <1>1, <1>3, ThinkingTimeoutInv, EnterHungryInv, HungryEatInv, EatingTimeoutInv,
     EnterThinkingInv, PhiloIgnoreInv DEF PhiloStep
<1>4. CASE TableStep
  BY <1>1, <1>4, TableHungryInv, TableDoneInv, TableDoneLeftInv, TableIgnoreInv DEF TableStep
<1>5. CASE Tick
  BY <1>1, <1>5, TickInv
<1>6. CASE Exti0
  BY <1>1, <1>6, Exti0Inv
<1>7. CASE UNCHANGED vars
  <2>1. \A e : InFlight(e)' <=> InFlight(e)
    BY <1>7 DEF vars, InFlight, InQueue
  <2>2. TableInv' /\ status' # "failed"
    BY <1>7 DEF vars, TableInv, Posted, IInv
  <2>3. ASSUME NEW q \in Philo
        PROVE  PhiloInv(q)' /\ (Holds(q)' <=> Holds(q))
    <3>1. (Requesting(q)' <=> Requesting(q)) /\ (Releasing(q)' <=> Releasing(q))
      BY <2>1 DEF Requesting, Releasing
    <3> QED BY <1>7, <3>1, PhiloKept, HoldsParts DEF IInv, vars
  <2>4. ForksMatchOwners' /\ WaitingInv'
    BY <1>7, <2>3, ForksKept, WaitingKept DEF IInv, vars
  <2> QED BY <1>1, <2>2, <2>3, <2>4 DEF IInv
<1> QED BY <1>2, <1>3, <1>4, <1>5, <1>6, <1>7 DEF Next, Run

(* Every reachable state satisfies the invariant.                          *)
LEMMA Invariance == Spec => []IInv
  BY InitIInv, StepIInv, PTL DEF Spec

(* The bookkeeping of Table agrees with the philosophers and with the      *)
(* events in flight, for every number of philosophers, every queue length, *)
(* every timing of the clock and every preemption.                         *)
THEOREM Bookkeeping == Spec => []ForksMatchOwners
<1>1. IInv => ForksMatchOwners
  BY DEF IInv
<1> QED BY <1>1, Invariance, PTL

(* Two neighbours never eat at the same time.                              *)
THEOREM NeighboursExclude == Spec => []MutualExclusion
<1>1. IInv => MutualExclusion
  BY Neighbours DEF IInv, ForksMatchOwners, MutualExclusion, Holds
<1> QED BY <1>1, Invariance, PTL

(* No assertion of a Philo or Table handler or of QTimeEvt_postIn fails.   *)
THEOREM HandlersSafe == Spec => []HandlerAssertionsHold
<1>1. IInv => HandlerAssertionsHold
  BY DEF IInv, HandlerAssertionsHold
<1> QED BY <1>1, Invariance, PTL

(* Table, when idle, leaves nobody waiting whose two forks are free.       *)
THEOREM EverybodyRemembered == Spec => []NobodyForgotten
<1>1. IInv => NobodyForgotten
  BY DEF IInv, WaitingInv, NobodyForgotten
<1> QED BY <1>1, Invariance, PTL

-----------------------------------------------------------------------------
(* The event queues never overflow when a busy period is shorter than a    *)
(* meal.  No queue holds two equal events: an EAT that Table published is  *)
(* gone from every queue before the philosopher it names can be granted    *)
(* the forks again, because he eats for longer than the busy period in     *)
(* which all philosophers take it.                                         *)

EatEvt(n) == TableEvt("EAT", n)

(* Philosopher r started to eat in this busy period, and cannot finish     *)
(* before it ends.                                                         *)
Recent(r)  == /\ Eating(r) /\ ~Expiring(r) /\ ~TimedOut(r)
              /\ timer[r] + busyTicks > MAX_BUSY_TICKS
Current(r) == Granted(r) \/ Starting(r) \/ Recent(r)

Taking(p, r)  == pc[p] = "run" /\ ev[p] = EatEvt(r)
Publishing(p) == pc[p] = "posted" /\ state[p] = "eating"

(* A philosopher wants an EAT once, and only for somebody who is current.  *)
EatsInv ==
  \A p, r \in Philo :
    /\ Once(queue[p], EatEvt(r))
    /\ InQueue(p, EatEvt(r)) \/ Taking(p, r) => Current(r)
    /\ ~(InQueue(p, EatEvt(r)) /\ Taking(p, r))

TakenInv == \A p \in Philo : pc[p] # "run" => ev[p].sig # "EAT"

(* The neighbours of a philosopher who is publishing DONE have started to  *)
(* eat in this busy period, if they eat at all, and are not publishing.    *)
ApartInv ==
  \A p \in Philo : Publishing(p) =>
    \A q \in NextTo(p) : ~Publishing(q) /\ (Eating(q) => Recent(q))

TableLoad == IF pc[Table] = "idle" THEN Len(queue[Table]) ELSE Len(queue[Table]) + 1
LoadInv   == TableLoad <= MAX_EXTI + 1

RoomInv == EatsInv /\ TakenInv /\ ApartInv /\ LoadInv

(* What a step leaves alone of philosopher r.                              *)
Untouched(r) ==
  state'[r] = state[r] /\ timer'[r] = timer[r] /\ pc'[r] = pc[r] /\ ev'[r] = ev[r]

ShortBusyPeriods == MAX_BUSY_TICKS < EAT_TIME
QueuesSized      == N_PHILO <= Q_LEN /\ MAX_EXTI <= Q_LEN + 1

(* There are N_PHILO + 1 events that the queue of a philosopher can hold.  *)
LEMMA PhiloEvtCount ==
  ASSUME NEW p \in Philo
  PROVE  IsFiniteSet(PhiloEvt(p)) /\ Cardinality(PhiloEvt(p)) <= N_PHILO + 1
<1> DEFINE Eats == [sig : {"EAT"}, philoNum : Philo]
           number == [n \in Philo |-> EatEvt(n)]
<1>1. IsFiniteSet(Philo) /\ Cardinality(Philo) = N_PHILO
  BY FS_Interval, PhiloAssumption DEF Philo
<1>2. number \in Surjection(Philo, Eats)
  <2>1. \A n \in Philo : EatEvt(n) \in Eats
    BY DEF EatEvt, TableEvt
  <2>2. \A e \in Eats : e.philoNum \in Philo /\ EatEvt(e.philoNum) = e
    BY DEF EatEvt, TableEvt
  <2>3. \A e \in Eats : \E n \in Philo : number[n] = e
    BY <2>2
  <2> QED BY <2>1, <2>3 DEF Surjection
<1>3. IsFiniteSet(Eats) /\ Cardinality(Eats) <= N_PHILO
  BY <1>1, <1>2, FS_Surjection
<1> HIDE DEF Eats
<1>4. /\ IsFiniteSet(Eats \cup {TableEvt("TIMEOUT", p)})
      /\ Cardinality(Eats \cup {TableEvt("TIMEOUT", p)}) <= Cardinality(Eats) + 1
  <2>1. Cardinality(Eats) \in Nat
    BY <1>3, FS_CardinalityType
  <2>2. /\ IsFiniteSet(Eats \cup {TableEvt("TIMEOUT", p)})
        /\ Cardinality(Eats \cup {TableEvt("TIMEOUT", p)})
             = IF TableEvt("TIMEOUT", p) \in Eats THEN Cardinality(Eats) ELSE Cardinality(Eats) + 1
    BY <1>3, FS_AddElement, Zenon
  <2> QED BY <2>1, <2>2
<1> USE DEF Eats
<1> QED BY <1>3, <1>4, FS_CardinalityType, PhiloAssumption DEF PhiloEvt

(* The queue of a philosopher accepts an event that is not in it.          *)
LEMMA RoomForNew ==
  ASSUME QueuesSized, IInv, RoomInv, NEW p \in Philo, NEW e \in PhiloEvt(p), ~InQueue(p, e)
  PROVE  QueueAccepts(p)
<1> DEFINE q == queue[p]
           T == PhiloEvt(p) \ {e}
           at == [i \in 1 .. Len(q) |-> q[i]]
<1>1. /\ q \in Seq(PhiloEvt(p)) /\ Once(q, TableEvt("TIMEOUT", p))
      /\ \A r \in Philo : Once(q, EatEvt(r))
  BY DEF IInv, PhiloInv, RoomInv, EatsInv
<1>2. \A f \in PhiloEvt(p) : f = TableEvt("TIMEOUT", p) \/ \E r \in Philo : f = EatEvt(r)
  BY DEF PhiloEvt, EatEvt, TableEvt
<1>3. Len(q) \in Nat /\ \A i \in 1 .. Len(q) : q[i] \in PhiloEvt(p) /\ q[i] # e
  BY <1>1 DEF InQueue, Has
<1>4. at \in Injection(1 .. Len(q), T)
  <2>1. at \in [1 .. Len(q) -> T]
    BY <1>3
  <2>2. \A i, j \in 1 .. Len(q) : q[i] = q[j] => i = j
    BY <1>1, <1>2, <1>3 DEF Once
  <2>3. \A i, j \in 1 .. Len(q) : at[i] = at[j] => i = j
    BY <2>2
  <2> HIDE DEF q, T, at
  <2> QED BY <2>1, <2>3 DEF Injection, IsInjective
<1>5. IsFiniteSet(T) /\ Cardinality(T) <= N_PHILO
  <2>1. IsFiniteSet(PhiloEvt(p)) /\ Cardinality(PhiloEvt(p)) <= N_PHILO + 1
        /\ Cardinality(PhiloEvt(p)) \in Nat
    BY PhiloEvtCount, FS_CardinalityType
  <2>2. IsFiniteSet(T) /\ Cardinality(T) = Cardinality(PhiloEvt(p)) - 1
    BY <2>1, FS_RemoveElement
  <2> QED BY <2>1, <2>2, PhiloAssumption
<1>6. Cardinality(1 .. Len(q)) = Len(q) /\ Cardinality(1 .. Len(q)) <= Cardinality(T)
  BY <1>3, <1>4, <1>5, FS_Injection, FS_Interval
<1> QED
  BY <1>3, <1>5, <1>6, FS_CardinalityType, PhiloAssumption DEF QueueAccepts, QueuesSized

(* A philosopher to whom Table owes an EAT, or who has just asked for one, *)
(* has not started to eat in this busy period.                             *)
LEMMA NotCurrent ==
  ASSUME IInv, NEW n \in Philo,
         isHungry[n] = 1 \/ (pc[n] = "posted" /\ state[n] = "thinking" /\ Requesting(n))
  PROVE  ~Current(n)
  BY DEF IInv, PhiloInv, Current, Recent, Eating, Starting, Waiting

(* Table may publish EAT for a philosopher who is not current.             *)
LEMMA RoomToPublish ==
  ASSUME QueuesSized, IInv, RoomInv, NEW n \in Philo, ~Current(n)
  PROVE  PublishAccepted
<1> SUFFICES ASSUME NEW p \in Philo PROVE QueueAccepts(p)
  BY DEF PublishAccepted
<1>1. EatEvt(n) \in PhiloEvt(p) /\ ~InQueue(p, EatEvt(n))
  BY DEF PhiloEvt, EatEvt, TableEvt, RoomInv, EatsInv
<1> QED BY <1>1, RoomForNew

(* A step that touches nothing of philosopher r keeps him recent and       *)
(* current.                                                                *)
LEMMA CurrentKept ==
  ASSUME NEW r \in Philo, Untouched(r), queue'[r] = queue[r], busyTicks' = busyTicks
  PROVE  (Current(r)' <=> Current(r)) /\ (Recent(r)' <=> Recent(r))
  BY DEF Untouched, Current, Recent, Granted, Starting, Eating, Expiring, TimedOut, InQueue

(* A step that changes no philosopher's queue and keeps everybody current  *)
(* keeps the invariant of the EATs.                                        *)
LEMMA EatsKept ==
  ASSUME EatsInv, \A q \in Philo : queue'[q] = queue[q],
         \A q \in Philo : pc'[q] = "run" => pc[q] = "run" /\ ev'[q] = ev[q],
         \A r \in Philo : Current(r) => Current(r)'
  PROVE  EatsInv'
  BY DEF EatsInv, InQueue, Taking

(* A step that makes nobody publish, and lets nobody eat on or start to    *)
(* eat who is not recent thereafter, keeps publishers apart.               *)
LEMMA ApartKept ==
  ASSUME ApartInv, \A q \in Philo : Publishing(q)' => Publishing(q),
         \A q \in Philo : Eating(q)' => Eating(q) \/ Recent(q)',
         \A q \in Philo : Recent(q) /\ Eating(q)' => Recent(q)'
  PROVE  ApartInv'
<1> SUFFICES ASSUME NEW p \in Philo, Publishing(p)', NEW q \in NextTo(p)
             PROVE  ~Publishing(q)' /\ (Eating(q)' => Recent(q)')
  BY DEF ApartInv, NextTo
<1>1. q \in Philo
  BY Neighbours DEF NextTo
<1> QED BY <1>1 DEF ApartInv

(* The load of Table is a number.                                          *)
LEMMA LoadType ==
  /\ IInv => TableLoad \in Nat /\ Len(queue[Table]) \in Nat
  /\ IInv' => TableLoad' \in Nat /\ Len(queue'[Table]) \in Nat
  BY AOs DEF IInv, TypeOK, TableLoad

(* A step of Table that keeps the queues of the philosophers.              *)
LEMMA TableSilentRoom ==
  ASSUME RoomInv, busyTicks' = busyTicks, TableLoad' <= TableLoad, IInv, IInv',
         \A q \in Philo : Untouched(q) /\ queue'[q] = queue[q]
  PROVE  RoomInv'
<1>1. \A r \in Philo : (Current(r)' <=> Current(r)) /\ (Recent(r)' <=> Recent(r))
  BY CurrentKept
<1>2. EatsInv'
  BY <1>1, EatsKept DEF RoomInv, Untouched
<1>3. TakenInv'
  BY DEF RoomInv, TakenInv, Untouched
<1>4. ApartInv'
  BY <1>1, ApartKept DEF RoomInv, Untouched, Publishing, Eating
<1>5. LoadInv'
  BY LoadType, PhiloAssumption DEF RoomInv, LoadInv
<1> QED BY <1>2, <1>3, <1>4, <1>5 DEF RoomInv

(* A step of Table that publishes EAT for a philosopher who is not         *)
(* current.                                                                *)
LEMMA PublishKeepsRoom ==
  ASSUME IInv, IInv', RoomInv, NEW n \in Philo, ~Current(n), PublishEat(n),
         busyTicks' = busyTicks, TableLoad' <= TableLoad,
         \A q \in Philo : Untouched(q)
  PROVE  RoomInv'
<1>1. \A q \in Philo : queue'[q] = Append(queue[q], EatEvt(n)) /\ queue[q] \in Seq(Evt)
  BY AOs DEF PublishEat, EatEvt, IInv, TypeOK
<1>2. EatEvt(n) \in Evt /\ (\A r \in Philo : EatEvt(r) = EatEvt(n) <=> r = n)
  BY DEF Evt, Sig, EatEvt, TableEvt
<1>3. ASSUME NEW q \in Philo, NEW f
      PROVE  /\ Has(queue'[q], f) <=> Has(queue[q], f) \/ f = EatEvt(n)
             /\ Once(queue[q], f) /\ (f = EatEvt(n) => ~Has(queue[q], f)) => Once(queue'[q], f)
  <2> DEFINE s == queue[q]
  <2>1. s \in Seq(Evt) /\ queue'[q] = Append(s, EatEvt(n))
    BY <1>1
  <2> HIDE DEF s
  <2>2. /\ Has(Append(s, EatEvt(n)), f) <=> Has(s, f) \/ f = EatEvt(n)
        /\ Once(s, f) /\ (f = EatEvt(n) => ~Has(s, f)) => Once(Append(s, EatEvt(n)), f)
    BY <1>2, <2>1, AppendFacts
  <2> QED BY <2>1, <2>2 DEF s
<1>4. ASSUME NEW r \in Philo
      PROVE  (Current(r) \/ r = n => Current(r)') /\ (Recent(r)' <=> Recent(r))
             /\ (Eating(r)' <=> Eating(r)) /\ (Publishing(r)' <=> Publishing(r))
  <2>1. Granted(r)' <=> Granted(r) \/ r = n
    BY <1>2, <1>3 DEF Granted, InQueue, EatEvt
  <2>2. TimedOut(r)' <=> TimedOut(r)
    BY <1>3 DEF TimedOut, InQueue, EatEvt, TableEvt
  <2> QED BY <2>1, <2>2
          DEF Untouched, Current, Recent, Starting, Expiring, Eating, Publishing
<1>5. EatsInv'
  <2> SUFFICES ASSUME NEW p \in Philo, NEW r \in Philo
               PROVE  /\ Once(queue'[p], EatEvt(r))
                      /\ Has(queue'[p], EatEvt(r)) \/ Taking(p, r)' => Current(r)'
                      /\ ~(Has(queue'[p], EatEvt(r)) /\ Taking(p, r)')
    BY DEF EatsInv, InQueue
  <2>1. /\ ~Has(queue[p], EatEvt(n)) /\ ~Taking(p, n)
        /\ Once(queue[p], EatEvt(r))
        /\ Has(queue[p], EatEvt(r)) \/ Taking(p, r) => Current(r)
        /\ ~(Has(queue[p], EatEvt(r)) /\ Taking(p, r))
    BY DEF RoomInv, EatsInv, InQueue
  <2>2. Taking(p, r)' <=> Taking(p, r)
    BY DEF Taking, Untouched
  <2> QED BY <1>2, <1>3, <1>4, <2>1, <2>2
<1>6. TakenInv'
  BY DEF RoomInv, TakenInv, Untouched
<1>7. ApartInv'
  BY <1>4, ApartKept DEF RoomInv
<1>8. LoadInv'
  BY LoadType, PhiloAssumption DEF RoomInv, LoadInv
<1> QED BY <1>5, <1>6, <1>7, <1>8 DEF RoomInv

-----------------------------------------------------------------------------
(* Each step leaves room, and none fails.                                  *)

(* Taking the next event.                                                  *)
LEMMA SchedRoom ==
  ASSUME IInv, IInv', RoomInv, status = "running", NEW a \in AO, Sched(a)
  PROVE  status' = "running" /\ RoomInv'
<1>1. /\ status' = status /\ state' = state /\ timer' = timer /\ busyTicks' = busyTicks
      /\ ev'[a] = Head(queue[a]) /\ queue'[a] = Tail(queue[a]) /\ pc'[a] = "run"
      /\ pc[a] = "idle" /\ queue[a] # << >> /\ queue[a] \in Seq(Evt)
      /\ \A b \in AO \ {a} : queue'[b] = queue[b] /\ pc'[b] = pc[b] /\ ev'[b] = ev[b]
  BY DEF IInv, TypeOK, Sched, Schedulable, philoVars
<1>2. ASSUME NEW r \in Philo, r # a
      PROVE  Untouched(r) /\ queue'[r] = queue[r]
  BY <1>1, <1>2, AOs DEF Untouched
<1>3. CASE a = Table
  <2>1. Len(Tail(queue[a])) = Len(queue[a]) - 1 /\ Len(queue[a]) \in Nat
    BY <1>1
  <2>2. /\ TableLoad = Len(queue[a])
        /\ TableLoad' = Len(queue'[a]) + 1
        /\ Len(queue'[a]) = Len(queue[a]) - 1
    BY <1>1, <1>3, <2>1 DEF TableLoad
  <2>3. TableLoad' <= TableLoad
    BY <2>1, <2>2
  <2> QED BY <1>1, <1>2, <1>3, <2>3, AOs, TableSilentRoom
<1>4. CASE a \in Philo
  <2>1. \A f : /\ Has(queue[a], f) <=> ev'[a] = f \/ Has(queue'[a], f)
               /\ Once(queue[a], f) => Once(queue'[a], f)
               /\ Once(queue[a], f) /\ ev'[a] = f => ~Has(queue'[a], f)
    BY <1>1, TailFacts
  <2>2. /\ Current(a) => Current(a)'
        /\ Recent(a) => Recent(a)'
        /\ (Eating(a)' <=> Eating(a)) /\ ~Publishing(a)'
    <3>1. Granted(a) => Granted(a)' \/ Starting(a)'
      BY <1>1, <2>1 DEF Granted, Starting, InQueue
    <3>2. ~TimedOut(a) => ~TimedOut(a)' /\ ~Expiring(a)'
      BY <1>1, <2>1 DEF TimedOut, Expiring, InQueue
    <3>3. ~Starting(a) /\ (Eating(a)' <=> Eating(a)) /\ ~Publishing(a)'
      BY <1>1 DEF Starting, Eating, Publishing
    <3> QED BY <1>1, <3>1, <3>2, <3>3 DEF Current, Recent
  <2>3. ASSUME NEW r \in Philo
        PROVE  /\ Current(r) => Current(r)'
               /\ Recent(r) => Recent(r)'
               /\ (Eating(r)' <=> Eating(r)) /\ (Publishing(r)' => Publishing(r))
    <3>1. CASE r = a
      BY <2>2, <3>1
    <3>2. CASE r # a
      <4>1. Untouched(r) /\ queue'[r] = queue[r]
        BY <1>2, <3>2
      <4> QED BY <1>1, <4>1, CurrentKept DEF Untouched, Eating, Publishing
    <3> QED BY <3>1, <3>2
  <2>4. EatsInv'
    <3> SUFFICES ASSUME NEW p \in Philo, NEW r \in Philo
                 PROVE  /\ Once(queue'[p], EatEvt(r))
                        /\ Has(queue'[p], EatEvt(r)) \/ Taking(p, r)' => Current(r)'
                        /\ ~(Has(queue'[p], EatEvt(r)) /\ Taking(p, r)')
      BY DEF EatsInv, InQueue
    <3>1. /\ Once(queue[p], EatEvt(r))
          /\ Has(queue[p], EatEvt(r)) \/ Taking(p, r) => Current(r)
          /\ ~(Has(queue[p], EatEvt(r)) /\ Taking(p, r))
      BY DEF RoomInv, EatsInv, InQueue
    <3>2. CASE p = a
      BY <2>1, <2>3, <3>1, <3>2 DEF Taking
    <3>3. CASE p # a
      BY <1>2, <2>3, <3>1, <3>3 DEF Taking, Untouched
    <3> QED BY <3>2, <3>3
  <2>5. TakenInv'
    BY <1>1, AOs DEF RoomInv, TakenInv
  <2>6. ApartInv'
    BY <2>3, ApartKept DEF RoomInv
  <2>7. LoadInv'
    BY <1>1, <1>4, AOs DEF RoomInv, LoadInv, TableLoad
  <2> QED BY <1>1, <2>4, <2>5, <2>6, <2>7 DEF RoomInv
<1> QED BY <1>3, <1>4, AOs

(* The neighbours of a philosopher whose time event expires are not        *)
(* publishing: he would have started to eat in this busy period.           *)
LEMMA ExpiringApart ==
  ASSUME ApartInv, NEW p \in Philo, Expiring(p), Eating(p), NEW q \in NextTo(p)
  PROVE  q \in Philo /\ p \in NextTo(q) /\ ~Publishing(q)
<1>1. q \in Philo /\ p \in NextTo(q)
  BY Neighbours DEF NextTo
<1> QED BY <1>1 DEF ApartInv, Recent

(* A thinking or an eating timeout posts to Table, whose queue is empty.   *)
LEMMA TimeoutRoom ==
  ASSUME IInv, IInv', RoomInv, status = "running", NEW p \in Philo,
         ThinkingTimeout(p) \/ EatingTimeout(p)
  PROVE  status' = "running" /\ RoomInv'
<1>1. /\ At(p, "run") /\ ev[p].sig = "TIMEOUT" /\ TypeOK /\ PhiloInv(p) /\ pc[p] = "run"
      /\ state[p] \in {"thinking", "eating"} /\ status' # "failed"
      /\ pc[Table] = "idle" /\ queue[Table] = << >>
  BY TableQuiet DEF ThinkingTimeout, EatingTimeout, IInv, At
<1>2. QueueAccepts(Table)
  BY <1>1, PhiloAssumption DEF QueueAccepts
<1>3. \E e \in Evt : PostTable(e)
      /\ Goto(p, "posted") /\ UNCHANGED <<philoVars, tableVars, busyTicks, status>>
  BY <1>1, <1>2 DEF ThinkingTimeout, EatingTimeout, Asserting, Halt, Evt, Sig, TableEvt
<1>4. /\ \A q \in Philo : queue'[q] = queue[q] /\ (q # p => pc'[q] = pc[q])
      /\ state' = state /\ timer' = timer /\ busyTicks' = busyTicks /\ ev' = ev
      /\ status' = status /\ pc'[p] = "posted" /\ pc'[Table] = "idle"
      /\ Len(queue'[Table]) = 1
  BY <1>1, <1>3, AOs DEF PostTable, Goto, TypeOK, philoVars
<1>5. \A q \in Philo : q # p => Untouched(q)
  BY <1>4 DEF Untouched
<1>6. Expiring(p) /\ ~Starting(p) /\ ~Recent(p)
  BY <1>1 DEF At, PhiloInv, PhiloEvt, Expiring, Starting, Recent, TableEvt
<1>7. Current(p) => Current(p)'
  <2>1. Granted(p)' <=> Granted(p)
    BY <1>4 DEF Granted, InQueue
  <2> QED BY <1>6, <2>1 DEF Current
<1>8. EatsInv'
  <2>1. \A r \in Philo : Current(r) => Current(r)'
    BY <1>4, <1>5, <1>7, CurrentKept
  <2> QED BY <1>4, <2>1, EatsKept DEF RoomInv
<1>9. TakenInv'
  BY <1>1, <1>4 DEF RoomInv, TakenInv
<1>10. ApartInv'
  <2>1. \A r \in Philo : r # p => /\ Recent(r)' <=> Recent(r)
                                  /\ Eating(r)' <=> Eating(r)
                                  /\ Publishing(r)' <=> Publishing(r)
    BY <1>4, <1>5, CurrentKept DEF Eating, Publishing
  <2>2. CASE state[p] = "thinking"
    <3>1. ~Publishing(p)' /\ ~Eating(p)'
      BY <1>4, <2>2 DEF Publishing, Eating
    <3> QED BY <1>6, <2>1, <3>1, ApartKept DEF RoomInv
  <2>3. CASE state[p] = "eating"
    <3>1. Eating(p) /\ Publishing(p)' /\ ~Eating(p)'
      BY <1>1, <1>4, <2>3 DEF Eating, Publishing
    <3>2. \A q \in NextTo(p) : q \in Philo /\ q # p /\ p \in NextTo(q) /\ ~Publishing(q) /\ ~Eating(q)
      <4>1. \A q \in NextTo(p) : q \in Philo /\ p \in NextTo(q) /\ ~Publishing(q)
        BY <1>6, <3>1, ExpiringApart DEF RoomInv
      <4>2. \A q \in NextTo(p) : q # p /\ ~Holds(q)
        BY <3>1, Neighbours DEF IInv, ForksMatchOwners, Holds, NextTo
      <4> QED BY <4>1, <4>2, HoldsParts
    <3> SUFFICES ASSUME NEW r \in Philo, Publishing(r)', NEW q \in NextTo(r)
                 PROVE  ~Publishing(q)' /\ (Eating(q)' => Recent(q)')
      BY DEF ApartInv, NextTo
    <3>3. CASE r = p
      BY <2>1, <3>2, <3>3
    <3>4. CASE r # p
      <4>1. Publishing(r) /\ q \in Philo /\ r \in NextTo(q)
        BY <2>1, <3>4, Neighbours DEF NextTo
      <4>2. q # p
        BY <3>2, <4>1
      <4> QED BY <2>1, <4>1, <4>2 DEF RoomInv, ApartInv
    <3> QED BY <3>3, <3>4
  <2> QED BY <1>1, <2>2, <2>3
<1>11. LoadInv'
  BY <1>4, PhiloAssumption DEF LoadInv, TableLoad
<1> QED BY <1>4, <1>8, <1>9, <1>10, <1>11 DEF RoomInv

(* A step in which philosopher p returns, touching no queue: only whether  *)
(* he himself stays current has to be shown.                               *)
LEMMA OwnStepRoom ==
  ASSUME IInv, RoomInv, NEW p \in Philo, queue' = queue, busyTicks' = busyTicks, Return(p),
         \A q \in Philo \ {p} : state'[q] = state[q] /\ timer'[q] = timer[q],
         Starting(p) \/ Recent(p) => Recent(p)',
         Eating(p)' => Eating(p) \/ Recent(p)'
  PROVE  RoomInv'
<1>1. /\ pc'[p] = "idle" /\ ev'[p] = NoEvt
      /\ \A q \in AO \ {p} : pc'[q] = pc[q] /\ ev'[q] = ev[q]
  BY AOs DEF Return, IInv, TypeOK
<1>2. ASSUME NEW q \in Philo, q # p
      PROVE  /\ Untouched(q) /\ (Current(q)' <=> Current(q)) /\ (Recent(q)' <=> Recent(q))
             /\ (Eating(q)' <=> Eating(q)) /\ (Publishing(q)' <=> Publishing(q))
  <2>1. Untouched(q)
    BY <1>1, <1>2, AOs DEF Untouched
  <2> QED BY <2>1, CurrentKept DEF Untouched, Eating, Publishing
<1>3. (Current(p) => Current(p)') /\ ~Publishing(p)'
  BY <1>1 DEF Current, Granted, InQueue, Publishing
<1>4. EatsInv'
  <2>1. \A r \in Philo : Current(r) => Current(r)'
    BY <1>2, <1>3
  <2> QED BY <1>1, <2>1, AOs, EatsKept DEF RoomInv
<1>5. TakenInv'
  BY <1>1, AOs DEF RoomInv, TakenInv, NoEvt
<1>6. ApartInv'
  <2>1. /\ \A q \in Philo : Publishing(q)' => Publishing(q)
        /\ \A q \in Philo : Eating(q)' => Eating(q) \/ Recent(q)'
        /\ \A q \in Philo : Recent(q) /\ Eating(q)' => Recent(q)'
    BY <1>2, <1>3
  <2> QED BY <2>1, ApartKept DEF RoomInv
<1>7. LoadInv'
  BY <1>1, AOs DEF RoomInv, LoadInv, TableLoad
<1> QED BY <1>4, <1>5, <1>6, <1>7 DEF RoomInv

(* Completing the transition to hungry.                                    *)
LEMMA EnterHungryRoom ==
  ASSUME IInv, RoomInv, status = "running", NEW p \in Philo, EnterHungry(p)
  PROVE  status' = "running" /\ RoomInv'
<1>1. /\ pc[p] = "posted" /\ queue' = queue /\ busyTicks' = busyTicks /\ Return(p)
      /\ timer' = timer /\ status' = status /\ state'[p] = "hungry"
      /\ \A q \in Philo \ {p} : state'[q] = state[q]
  BY DEF IInv, TypeOK, EnterHungry, At
<1>2. ~Starting(p) /\ ~Recent(p) /\ ~Eating(p)'
  BY <1>1 DEF Starting, Recent, Eating
<1> QED BY <1>1, <1>2, OwnStepRoom

(* The transition to eating: the meal is longer than a busy period.        *)
LEMMA HungryEatRoom ==
  ASSUME ShortBusyPeriods, IInv, IInv', RoomInv, status = "running",
         NEW p \in Philo, HungryEat(p)
  PROVE  status' = "running" /\ RoomInv'
<1>1. /\ PostIn(p, EAT_TIME) /\ state' = [state EXCEPT ![p] = "eating"] /\ Return(p)
      /\ UNCHANGED <<tableVars, queue, busyTicks, status>>
      /\ state[p] = "hungry" /\ TypeOK /\ PhiloInv(p)
  BY HungryEatEffect DEF HungryEat, IInv, Halt
<1>2. /\ queue' = queue /\ busyTicks' = busyTicks /\ status' = status
      /\ state'[p] = "eating" /\ pc'[p] = "idle" /\ timer'[p] = EAT_TIME
      /\ \A q \in Philo \ {p} : state'[q] = state[q] /\ timer'[q] = timer[q]
  BY <1>1, AOs DEF TypeOK, PostIn, Return
<1>3. ~TimedOut(p)'
  BY <1>1, <1>2 DEF PhiloInv, TimedOut, InQueue
<1>4. timer'[p] + busyTicks' > MAX_BUSY_TICKS
  BY <1>1, <1>2, PhiloAssumption DEF ShortBusyPeriods, TypeOK
<1>5. Recent(p)'
  BY <1>2, <1>3, <1>4 DEF Recent, Eating, Expiring
<1> QED BY <1>1, <1>2, <1>5, OwnStepRoom

(* The transition to thinking.                                             *)
LEMMA EnterThinkingRoom ==
  ASSUME IInv, IInv', RoomInv, status = "running", NEW p \in Philo, EnterThinking(p)
  PROVE  status' = "running" /\ RoomInv'
<1>1. /\ PostIn(p, THINK_TIME) /\ state' = [state EXCEPT ![p] = "thinking"] /\ Return(p)
      /\ UNCHANGED <<tableVars, queue, busyTicks, status>>
      /\ pc[p] = "posted" /\ TypeOK
  BY EnterThinkingEffect DEF EnterThinking, At, IInv, Halt
<1>2. /\ queue' = queue /\ busyTicks' = busyTicks /\ status' = status
      /\ state'[p] = "thinking"
      /\ \A q \in Philo \ {p} : state'[q] = state[q] /\ timer'[q] = timer[q]
  BY <1>1 DEF TypeOK, PostIn
<1>3. ~Starting(p) /\ ~Recent(p) /\ ~Eating(p)'
  BY <1>1, <1>2 DEF Starting, Recent, Eating
<1> QED BY <1>1, <1>2, <1>3, OwnStepRoom

(* Ignoring an event.                                                      *)
LEMMA PhiloIgnoreRoom ==
  ASSUME IInv, IInv', RoomInv, status = "running", NEW p \in Philo, PhiloIgnore(p)
  PROVE  status' = "running" /\ RoomInv'
<1>1. /\ Return(p) /\ UNCHANGED <<philoVars, tableVars, queue, busyTicks, status>>
      /\ pc[p] = "run" /\ TypeOK /\ PhiloInv(p)
  BY PhiloIgnoreEffect DEF PhiloIgnore, At, IInv, Halt
<1>2. /\ queue' = queue /\ busyTicks' = busyTicks /\ status' = status
      /\ state' = state /\ timer' = timer /\ pc'[p] = "idle"
  BY <1>1, AOs DEF TypeOK, Return, philoVars
<1>3. ~Starting(p)
  BY <1>1 DEF PhiloIgnore, PhiloInv, Starting, TableEvt
<1>4. (Recent(p) => Recent(p)') /\ (Eating(p)' => Eating(p))
  BY <1>1, <1>2 DEF Recent, Eating, Expiring, TimedOut, InQueue
<1> QED BY <1>1, <1>2, <1>3, <1>4, OwnStepRoom

(* A step of Table from one place to another, its queue as before.         *)
LEMMA TableLoadKept ==
  ASSUME IInv, pc[Table] # "idle", queue'[Table] = queue[Table]
  PROVE  TableLoad' <= TableLoad
  BY LoadType DEF TableLoad

(* Serving a neighbour, or not, leaves room.                               *)
LEMMA ServeRoom ==
  ASSUME IInv, IInv', RoomInv, NEW m \in Philo, NEW f, NEW forks, Serve(m, f, forks),
         busyTicks' = busyTicks, pc[Table] # "idle", \A q \in Philo : Untouched(q)
  PROVE  RoomInv'
<1>1. queue'[Table] = queue[Table]
  BY AOs DEF Serve, PublishEat
<1>2. TableLoad' <= TableLoad
  BY <1>1, TableLoadKept
<1>3. CASE isHungry[m] = 1 /\ PublishEat(m)
  BY <1>2, <1>3, NotCurrent, PublishKeepsRoom
<1>4. CASE queue' = queue
  BY <1>2, <1>4, TableSilentRoom
<1> QED BY <1>3, <1>4 DEF Serve, CanServe

(* The HUNGRY handler.                                                     *)
LEMMA TableHungryRoom ==
  ASSUME QueuesSized, IInv, IInv', RoomInv, status = "running", TableHungry
  PROVE  status' = "running" /\ RoomInv'
<1> DEFINE n == ev[Table].philoNum
<1>1. /\ pc[Table] = "run" /\ ev[Table].sig = "HUNGRY" /\ TypeOK /\ TableInv /\ status' # "failed"
  BY DEF TableHungry, At, IInv
<1>2. /\ ev[Table] = TableEvt("HUNGRY", n) /\ n \in Philo
      /\ pc[n] = "posted" /\ state[n] = "thinking"
  BY <1>1 DEF TableInv, ExtiEvt, TableEvt, Request, Posted
<1>3. Requesting(n)
  BY <1>1, <1>2 DEF Requesting, InFlight
<1> HIDE DEF n
<1>4. ~Current(n) /\ PublishAccepted
  BY <1>2, <1>3, NotCurrent, RoomToPublish
<1>5. /\ PublishEat(n) \/ queue' = queue
      /\ Return(Table) /\ UNCHANGED <<philoVars, busyTicks, status>>
  BY <1>1, <1>4 DEF TableHungry, Asserting, Halt, n
<1>6. busyTicks' = busyTicks /\ status' = status /\ \A q \in Philo : Untouched(q)
  BY <1>1, <1>5, AOs DEF TypeOK, Return, philoVars, Untouched
<1>7. TableLoad' <= TableLoad
  <2>1. queue'[Table] = queue[Table]
    BY <1>5, AOs DEF PublishEat
  <2> QED BY <1>1, <2>1, TableLoadKept
<1> QED BY <1>2, <1>4, <1>5, <1>6, <1>7, PublishKeepsRoom, TableSilentRoom

(* The first half of the DONE handler.                                     *)
LEMMA TableDoneRoom ==
  ASSUME QueuesSized, IInv, IInv', RoomInv, status = "running", TableDone
  PROVE  status' = "running" /\ RoomInv'
<1> DEFINE n == ev[Table].philoNum
           m == RIGHT(n)
           freed == SetForks(n, "FREE")
<1>1. /\ pc[Table] = "run" /\ ev[Table].sig = "DONE" /\ TypeOK /\ TableInv /\ status' # "failed"
  BY DEF TableDone, At, IInv
<1>2. n \in Philo /\ m \in Philo
  BY <1>1, Neighbours DEF TableInv, ExtiEvt, TableEvt, Request
<1>3. CanServe(m, m, freed) => PublishAccepted
  BY <1>2, NotCurrent, RoomToPublish DEF CanServe
<1>4. /\ Serve(m, m, freed)
      /\ Goto(Table, "left") /\ UNCHANGED <<philoVars, busyTicks, status>>
  BY <1>1, <1>3 DEF TableDone, Asserting, Halt
<1> HIDE DEF n, m, freed
<1>5. busyTicks' = busyTicks /\ status' = status /\ \A q \in Philo : Untouched(q)
  BY <1>1, <1>4, AOs DEF TypeOK, Goto, philoVars, Untouched
<1> QED BY <1>1, <1>2, <1>4, <1>5, ServeRoom

(* The second half of the DONE handler.                                    *)
LEMMA TableDoneLeftRoom ==
  ASSUME QueuesSized, IInv, IInv', RoomInv, status = "running", TableDoneLeft
  PROVE  status' = "running" /\ RoomInv'
<1> DEFINE m == LEFT(ev[Table].philoNum)
<1>1. pc[Table] = "left" /\ TypeOK /\ TableInv /\ status' # "failed"
  BY DEF TableDoneLeft, At, IInv
<1>2. m \in Philo
  BY <1>1, Neighbours DEF TableInv, Request
<1>3. CanServe(m, LEFT(m), fork) => PublishAccepted
  BY <1>2, NotCurrent, RoomToPublish DEF CanServe
<1>4. /\ Serve(m, LEFT(m), fork)
      /\ Return(Table) /\ UNCHANGED <<philoVars, busyTicks, status>>
  BY <1>1, <1>3 DEF TableDoneLeft, Asserting, Halt
<1> HIDE DEF m
<1>5. busyTicks' = busyTicks /\ status' = status /\ \A q \in Philo : Untouched(q)
  BY <1>1, <1>4, AOs DEF TypeOK, Return, philoVars, Untouched
<1> QED BY <1>1, <1>2, <1>4, <1>5, ServeRoom

(* The EXTI0 event that Table ignores.                                     *)
LEMMA TableIgnoreRoom ==
  ASSUME IInv, IInv', RoomInv, status = "running", TableIgnore
  PROVE  status' = "running" /\ RoomInv'
<1>1. /\ queue' = queue /\ busyTicks' = busyTicks /\ status' = status
      /\ pc[Table] # "idle" /\ \A q \in Philo : Untouched(q)
  BY AOs DEF IInv, TypeOK, TableIgnore, At, Return, philoVars, Untouched
<1> QED BY <1>1, TableLoadKept, TableSilentRoom

(* A clock tick: the time events that come due are in no queue, and nobody *)
(* who started to eat in this busy period is among them.                   *)
LEMMA TickRoom ==
  ASSUME QueuesSized, IInv, IInv', RoomInv, status = "running", Tick
  PROVE  status' = "running" /\ RoomInv'
<1> DEFINE due == {p \in Philo : timer[p] = 1}
<1>1. TypeOK /\ TypeOK' /\ \A p \in Philo : PhiloInv(p)
  BY DEF IInv
<1>2. ASSUME NEW p \in due PROVE QueueAccepts(p)
  <2>1. p \in Philo /\ timer[p] = 1
    OBVIOUS
  <2>2. ~TimedOut(p)
    BY <1>1, <2>1 DEF PhiloInv
  <2>3. TableEvt("TIMEOUT", p) \in PhiloEvt(p) /\ ~InQueue(p, TableEvt("TIMEOUT", p))
    BY <2>2 DEF PhiloEvt, TimedOut
  <2> QED BY <2>1, <2>3, RoomForNew
<1>3. /\ timer' = [p \in Philo |-> CountDown(timer[p])]
      /\ queue' = [a \in AO |-> IF a \in due THEN Append(queue[a], TableEvt("TIMEOUT", a))
                                             ELSE queue[a]]
      /\ busyTicks' = IF Idle THEN 0 ELSE busyTicks + 1
      /\ state' = state /\ pc' = pc /\ ev' = ev /\ status' = status
      /\ Idle \/ busyTicks < MAX_BUSY_TICKS
  BY <1>2 DEF Tick, Asserting, Halt, kernVars
<1>4. ASSUME NEW p \in Philo
      PROVE  /\ \A r \in Philo : /\ Once(queue'[p], EatEvt(r))
                                 /\ Has(queue'[p], EatEvt(r)) <=> Has(queue[p], EatEvt(r))
             /\ timer[p] # 1 => queue'[p] = queue[p]
  <2>1. CASE timer[p] # 1
    BY <1>3, <2>1, AOs DEF RoomInv, EatsInv
  <2>2. CASE timer[p] = 1
    <3> DEFINE s == queue[p]
    <3>1. s \in Seq(Evt) /\ queue'[p] = Append(s, TableEvt("TIMEOUT", p))
      BY <1>1, <1>3, <2>2, AOs DEF TypeOK
    <3>2. TableEvt("TIMEOUT", p) \in Evt
          /\ \A r \in Philo : EatEvt(r) # TableEvt("TIMEOUT", p) /\ Once(s, EatEvt(r))
      BY DEF Evt, Sig, EatEvt, TableEvt, RoomInv, EatsInv
    <3> HIDE DEF s
    <3>3. ASSUME NEW r \in Philo
          PROVE  /\ Once(Append(s, TableEvt("TIMEOUT", p)), EatEvt(r))
                 /\ Has(Append(s, TableEvt("TIMEOUT", p)), EatEvt(r)) <=> Has(s, EatEvt(r))
      BY <3>1, <3>2, AppendFacts
    <3> QED BY <2>2, <3>1, <3>3 DEF s
  <2> QED BY <2>1, <2>2
<1>5. TakenInv' /\ LoadInv'
  BY <1>3, AOs DEF RoomInv, TakenInv, LoadInv, TableLoad
<1>6. CASE Idle
  <2>1. \A p, r \in Philo : ~Has(queue[p], EatEvt(r)) /\ ~Taking(p, r)' /\ ~Publishing(p)'
    BY <1>3, <1>6, AOs DEF Idle, Has, Taking, Publishing
  <2>2. EatsInv'
    BY <1>4, <2>1 DEF EatsInv, InQueue
  <2>3. ApartInv'
    BY <2>1 DEF ApartInv
  <2> QED BY <1>3, <1>5, <2>2, <2>3 DEF RoomInv
<1>7. CASE ~Idle
  <2>1. ASSUME NEW r \in Philo, Recent(r) PROVE Recent(r)'
    <3>1. /\ timer[r] \in Nat /\ busyTicks \in Nat
          /\ timer[r] + busyTicks > MAX_BUSY_TICKS /\ busyTicks < MAX_BUSY_TICKS
      BY <1>1, <1>3, <1>7, <2>1 DEF Recent, TypeOK
    <3>2. timer[r] # 0 /\ timer[r] # 1
      BY <3>1, PhiloAssumption
    <3>3. timer'[r] = timer[r] - 1 /\ busyTicks' = busyTicks + 1
      BY <1>3, <1>7, <3>2 DEF CountDown
    <3>4. timer'[r] + busyTicks' > MAX_BUSY_TICKS
      BY <3>1, <3>3, PhiloAssumption
    <3>5. ~TimedOut(r)' /\ ~Expiring(r)' /\ Eating(r)'
      BY <1>3, <1>4, <2>1, <3>2 DEF Recent, TimedOut, Expiring, Eating, InQueue
    <3> QED BY <3>4, <3>5 DEF Recent
  <2>2. ASSUME NEW r \in Philo PROVE Current(r) => Current(r)'
    <3>1. Granted(r)' <=> Granted(r)
      BY <1>4 DEF Granted, InQueue, EatEvt
    <3>2. Starting(r)' <=> Starting(r)
      BY <1>3 DEF Starting
    <3> QED BY <2>1, <3>1, <3>2 DEF Current
  <2>3. EatsInv'
    BY <1>3, <1>4, <2>2 DEF RoomInv, EatsInv, InQueue, Taking
  <2>4. ApartInv'
    <3>1. \A q \in Philo : (Publishing(q)' <=> Publishing(q)) /\ (Eating(q)' <=> Eating(q))
      BY <1>3 DEF Publishing, Eating
    <3> QED BY <2>1, <3>1, ApartKept DEF RoomInv
  <2> QED BY <1>3, <1>5, <2>3, <2>4 DEF RoomInv
<1> QED BY <1>6, <1>7

(* EXTI0 posts to Table only while few events wait there (MAX_EXTI).       *)
LEMMA Exti0Room ==
  ASSUME QueuesSized, IInv, IInv', RoomInv, status = "running", Exti0
  PROVE  status' = "running" /\ RoomInv'
<1>1. Len(queue[Table]) < MAX_EXTI /\ Len(queue[Table]) \in Nat /\ queue[Table] \in Seq(Evt)
  BY AOs DEF Exti0, IInv, TypeOK
<1>2. QueueAccepts(Table)
  BY <1>1, PhiloAssumption DEF QueuesSized, QueueAccepts
<1>3. /\ PostTable(ExtiEvt)
      /\ UNCHANGED <<philoVars, tableVars, kernVars, busyTicks, status>>
  BY <1>2 DEF Exti0, Asserting, Halt, ExtiEvt
<1>4. /\ busyTicks' = busyTicks /\ status' = status /\ pc' = pc
      /\ queue'[Table] = Append(queue[Table], ExtiEvt)
      /\ \A q \in Philo : queue'[q] = queue[q] /\ Untouched(q)
  BY <1>3, AOs DEF IInv, TypeOK, PostTable, philoVars, kernVars, Untouched
<1>5. Len(queue'[Table]) = Len(queue[Table]) + 1
  BY <1>1, <1>4
<1>6. LoadInv'
  BY <1>1, <1>4, <1>5, PhiloAssumption DEF LoadInv, TableLoad
<1>7. \A r \in Philo : (Current(r)' <=> Current(r)) /\ (Recent(r)' <=> Recent(r))
  BY <1>4, CurrentKept
<1>8. EatsInv' /\ TakenInv'
  BY <1>4, <1>7, EatsKept DEF RoomInv, TakenInv, Untouched
<1>9. ApartInv'
  BY <1>4, <1>7, ApartKept DEF RoomInv, Untouched, Publishing, Eating
<1> QED BY <1>4, <1>6, <1>8, <1>9 DEF RoomInv

(* IInv, RoomInv and a running system are inductive together.              *)
RunningInv == IInv /\ RoomInv /\ status = "running"

(* A step of a system whose busy periods are short keeps it running.       *)
LEMMA StepRunning ==
  ASSUME ShortBusyPeriods, QueuesSized, RunningInv, [Next]_vars
  PROVE  RunningInv'
<1>1. IInv /\ IInv' /\ RoomInv /\ status = "running"
  BY StepIInv DEF RunningInv
<1>2. CASE \E a \in AO : Sched(a)
  BY <1>1, <1>2, SchedRoom DEF RunningInv
<1>3. CASE \E p \in Philo : PhiloStep(p)
  BY <1>1, <1>3, TimeoutRoom, EnterHungryRoom, HungryEatRoom, EnterThinkingRoom,
     PhiloIgnoreRoom DEF PhiloStep, RunningInv
<1>4. CASE TableStep
  BY <1>1, <1>4, TableHungryRoom, TableDoneRoom, TableDoneLeftRoom, TableIgnoreRoom
  DEF TableStep, RunningInv
<1>5. CASE Tick \/ Exti0
  BY <1>1, <1>5, TickRoom, Exti0Room DEF RunningInv
<1>6. CASE UNCHANGED vars
  <2>1. /\ busyTicks' = busyTicks /\ status' = status /\ TableLoad' = TableLoad
        /\ \A q \in Philo : Untouched(q) /\ queue'[q] = queue[q]
    BY <1>6 DEF vars, Untouched, TableLoad
  <2> QED BY <1>1, <2>1, LoadType, TableSilentRoom DEF RunningInv
<1> QED
  BY <1>2, <1>3, <1>4, <1>5, <1>6 DEF Next, Run

(* The active objects have been started and nothing waits for anybody.     *)
LEMMA InitRunning == Init => RunningInv
<1> SUFFICES ASSUME Init PROVE RunningInv
  OBVIOUS
<1>1. \A a \in AO : queue[a] = << >> /\ pc[a] = "idle" /\ ev[a] = NoEvt
  BY DEF Init
<1>2. EatsInv
  BY <1>1, AOs DEF EatsInv, Once, InQueue, Has, Taking
<1>3. TakenInv /\ ApartInv
  BY <1>1, AOs DEF TakenInv, ApartInv, Publishing, NoEvt
<1>4. LoadInv
  BY <1>1, AOs, PhiloAssumption DEF LoadInv, TableLoad
<1> QED BY <1>2, <1>3, <1>4, InitIInv DEF RunningInv, RoomInv, Init

(* No assertion ever stops the system when a busy period is shorter than a *)
(* meal and the queues are as long as there are philosophers: no event     *)
(* queue overflows and no handler finds a state it does not expect.        *)
THEOREM NeverHalts ==
  ASSUME ShortBusyPeriods, QueuesSized
  PROVE  Spec => []NoAssertionFails
<1>1. RunningInv /\ [Next]_vars => RunningInv'
  BY StepRunning
<1>2. RunningInv => NoAssertionFails
  BY DEF RunningInv, NoAssertionFails
<1> QED BY <1>1, <1>2, InitRunning, PTL DEF Spec

-----------------------------------------------------------------------------
(* The small event pool.  The philosophers who own forks are no            *)
(* neighbours, nor are those whose DONE is kept while they publish it, so  *)
(* each of the two sets has at most every second philosopher.              *)

(* A set of philosophers without neighbours has at most half of them.      *)
LEMMA EverySecond ==
  ASSUME NEW S \in SUBSET Philo, \A p \in S : LEFT(p) \notin S
  PROVE  IsFiniteSet(S) /\ Cardinality(S) \in Nat /\ Cardinality(S) <= N_PHILO \div 2
<1> DEFINE left == [p \in S |-> LEFT(p)]
<1>1. IsFiniteSet(Philo) /\ Cardinality(Philo) = N_PHILO
  BY FS_Interval, PhiloAssumption DEF Philo
<1>2. IsFiniteSet(S) /\ Cardinality(S) \in Nat
  BY <1>1, FS_Subset, FS_CardinalityType
<1>3. IsFiniteSet(Philo \ S) /\ Cardinality(Philo \ S) = N_PHILO - Cardinality(S)
  <2>1. Philo \cap S = S
    OBVIOUS
  <2> QED BY <1>1, <2>1, FS_Difference
<1>4. left \in Injection(S, Philo \ S)
  <2>1. left \in [S -> Philo \ S]
    BY Neighbours
  <2>2. \A p, q \in S : left[p] = left[q] => p = q
    BY Neighbours
  <2> HIDE DEF left
  <2> QED BY <2>1, <2>2 DEF Injection, IsInjective
<1>5. Cardinality(S) <= Cardinality(Philo \ S)
  BY <1>3, <1>4, FS_Injection
<1> QED BY <1>2, <1>3, <1>5, PhiloAssumption

(* No philosopher wants more EATs than there are owners of forks.          *)
LEMMA EatsBound ==
  ASSUME RunningInv, NEW p \in Philo
  PROVE  EatsWanted(p) \in Nat /\ EatsWanted(p) <= N_PHILO \div 2
<1> DEFINE q == queue[p]
           I == {i \in 1 .. Len(q) : q[i].sig = "EAT"}
           S == {r \in Philo : InQueue(p, EatEvt(r))}
           T == {r \in Philo : Taking(p, r)}
           num == [i \in I |-> q[i].philoNum]
<1>1. /\ q \in Seq(PhiloEvt(p)) /\ Len(q) \in Nat
      /\ ev[p].sig = "EAT" => pc[p] = "run" /\ ev[p] \in PhiloEvt(p)
  BY DEF RunningInv, IInv, PhiloInv, RoomInv, TakenInv
<1>2. \A f \in PhiloEvt(p) : f.sig = "EAT" => f.philoNum \in Philo /\ f = EatEvt(f.philoNum)
  BY DEF PhiloEvt, EatEvt, TableEvt
<1>3. \A r \in Philo : /\ Once(q, EatEvt(r))
                       /\ r \in S \/ r \in T => Current(r)
                       /\ ~(r \in S /\ r \in T)
  BY DEF RunningInv, RoomInv, EatsInv
<1>4. \A i \in I : q[i] \in PhiloEvt(p) /\ q[i].sig = "EAT"
  BY <1>1
<1>5. num \in Injection(I, S)
  <2>1. \A i \in I : q[i] = EatEvt(num[i]) /\ num[i] \in Philo
    BY <1>2, <1>4
  <2>2. \A i \in I : num[i] \in S
    BY <2>1 DEF InQueue, Has
  <2>3. \A i, j \in I : num[i] = num[j] => i = j
    BY <1>3, <2>1 DEF Once
  <2>4. num \in [I -> S]
    BY <2>2
  <2> HIDE DEF num, I, S
  <2> QED BY <2>3, <2>4 DEF Injection, IsInjective
<1>6. /\ IsFiniteSet(Owners) /\ Cardinality(Owners) \in Nat
      /\ Cardinality(Owners) <= N_PHILO \div 2
  <2>1. Owners \in SUBSET Philo /\ \A r \in Owners : LEFT(r) \notin Owners
    BY Neighbours DEF Owners, RunningInv, IInv, ForksMatchOwners
  <2> QED BY <2>1, EverySecond
<1>7. S \cup T \in SUBSET Owners
  BY <1>3, HoldsParts DEF Owners, Current, Recent
<1>8. /\ IsFiniteSet(S) /\ IsFiniteSet(T) /\ Cardinality(S) \in Nat /\ Cardinality(T) \in Nat
      /\ Cardinality(S) + Cardinality(T) <= Cardinality(Owners)
  <2>1. IsFiniteSet(S) /\ IsFiniteSet(T) /\ Cardinality(S \cup T) <= Cardinality(Owners)
    BY <1>6, <1>7, FS_Subset
  <2>2. S \cap T = {}
    BY <1>3
  <2> HIDE DEF S, T
  <2>3. Cardinality(S \cup T) = Cardinality(S) + Cardinality(T) - 0
    BY <2>1, <2>2, FS_Union, FS_EmptySet
  <2>4. Cardinality(S) \in Nat /\ Cardinality(T) \in Nat
    BY <2>1, FS_CardinalityType
  <2> QED BY <2>1, <2>3, <2>4
<1>9. IsFiniteSet(I) /\ Cardinality(I) \in Nat /\ Cardinality(I) <= Cardinality(S)
  BY <1>5, <1>8, FS_Injection, FS_CardinalityType
<1>10. ev[p].sig = "EAT" => Cardinality(T) >= 1
  <2> SUFFICES ASSUME ev[p].sig = "EAT" PROVE Cardinality(T) # 0
    BY <1>8
  <2>1. ev[p].philoNum \in T
    BY <1>1, <1>2 DEF Taking
  <2> QED BY <1>8, <2>1, FS_EmptySet
<1>11. EatsWanted(p) = Cardinality(I) + IF ev[p].sig = "EAT" THEN 1 ELSE 0
  BY DEF EatsWanted
<1> HIDE DEF I, S, T
<1> QED BY <1>6, <1>8, <1>9, <1>10, <1>11, PhiloAssumption

(* The least number principle.                                             *)
LEMMA LeastNat ==
  ASSUME NEW S, S \subseteq Nat, S # {}
  PROVE  \E x \in S : \A y \in S : x <= y
<1>1. \E R : IsWellFoundedOn(R, Nat) /\ \A x, y \in Nat : <<y, x>> \in R <=> y < x
  <2>1. \A x, y \in Nat : <<y, x>> \in OpToRel(<, Nat) <=> y < x
    BY DEF OpToRel
  <2> WITNESS OpToRel(<, Nat)
  <2> QED BY <2>1, NatLessThanWellFounded, Zenon
<1>2. PICK R : IsWellFoundedOn(R, Nat) /\ \A x, y \in Nat : <<y, x>> \in R <=> y < x
  BY <1>1
<1>3. PICK x \in S : \A y \in S : ~ (<<y, x>> \in R)
  BY <1>2, WFMin
<1>4. \A y \in S : ~ (y < x)
  BY <1>2, <1>3, S \subseteq Nat, Zenon
<1> QED BY <1>4

(* Some philosopher is furthest behind.                                    *)
LEMMA SomebodyBehind ==
  ASSUME RunningInv
  PROVE  \E p \in Philo : \A r \in Philo : EatsWanted(r) <= EatsWanted(p)
<1> DEFINE ahead(p) == (N_PHILO \div 2) - EatsWanted(p)
           A == {ahead(p) : p \in Philo}
<1>1. N_PHILO \div 2 \in Nat /\ 0 \in Philo
  BY PhiloAssumption DEF Philo
<1>2. A \subseteq Nat /\ A # {}
  BY <1>1, EatsBound
<1>3. PICK x \in A : \A y \in A : x <= y
  BY <1>2, LeastNat
<1>4. PICK p \in Philo : x = ahead(p)
  BY <1>3
<1>5. \A r \in Philo : ahead(p) <= ahead(r)
  BY <1>3, <1>4
<1> QED BY <1>1, <1>5, EatsBound

(* The blocks of the small event pool in use are at most twice every       *)
(* second philosopher's, one that Table processes and those of EXTI0.      *)
THEOREM PoolSuffices ==
  ASSUME ShortBusyPeriods, QueuesSized
  PROVE  Spec => []SmallPoolSuffices
<1>1. RunningInv /\ [Next]_vars => RunningInv'
  BY StepRunning
<1>2. RunningInv => SmallPoolSuffices
  <2> SUFFICES ASSUME RunningInv PROVE SmallPoolSuffices
    OBVIOUS
  <2> DEFINE behind == CHOOSE p \in Philo : \A r \in Philo : EatsWanted(r) <= EatsWanted(p)
  <2>1. behind \in Philo
    BY SomebodyBehind
  <2> HIDE DEF behind
  <2>2. EatsWanted(behind) \in Nat /\ EatsWanted(behind) <= N_PHILO \div 2
    BY <2>1, EatsBound
  <2>3. /\ Cardinality(KeptByPublisher) \in Nat
        /\ Cardinality(KeptByPublisher) <= N_PHILO \div 2
    <3>1. /\ KeptByPublisher \in SUBSET Philo
          /\ \A p \in KeptByPublisher : LEFT(p) \notin KeptByPublisher
      BY DEF KeptByPublisher, RunningInv, RoomInv, ApartInv, Publishing, NextTo
    <3> QED BY <3>1, EverySecond
  <2>4. TableLoad \in Nat /\ TableLoad <= MAX_EXTI + 1 /\ Len(queue[Table]) \in Nat
    BY LoadType DEF RunningInv, RoomInv, LoadInv
  <2>5. BlocksInUse = EatsWanted(behind) + Len(queue[Table])
                        + (IF pc[Table] = "idle" THEN 0 ELSE 1) + Cardinality(KeptByPublisher)
    BY DEF BlocksInUse, behind
  <2>6. BlocksInUse = EatsWanted(behind) + TableLoad + Cardinality(KeptByPublisher)
    BY <2>2, <2>3, <2>4, <2>5 DEF TableLoad
  <2> QED BY <2>2, <2>3, <2>4, <2>6, PhiloAssumption DEF SmallPoolSuffices
<1> QED BY <1>1, <1>2, InitRunning, PTL DEF Spec

-----------------------------------------------------------------------------
(* DPP implements Dining.                                                  *)

(* A step of philosopher p that leaves the others alone changes only his   *)
(* own phase.                                                              *)
LEMMA PhaseOfOne ==
  ASSUME TypeOK, TypeOK', NEW p \in Philo,
         \A q \in Philo : q # p => state'[q] = state[q] /\ pc'[q] = pc[q]
  PROVE  Phase' = [Phase EXCEPT ![p] = Phase'[p]]
  BY DEF Phase

(* A step that changes no state, and moves nobody into or out of the       *)
(* middle of a transition, changes no phase.                               *)
LEMMA PhaseKept ==
  ASSUME \A q \in Philo : /\ state'[q] = state[q]
                          /\ pc'[q] = "posted" <=> pc[q] = "posted"
  PROVE  Phase' = Phase
  BY DEF Phase

(* Every step of DPP is a step of Dining or leaves its phases alone.       *)
LEMMA StepDining ==
  ASSUME IInv, IInv', [Next]_vars
  PROVE  [Abstract!Next]_Phase
<1>0. TypeOK /\ TypeOK' /\ \A q \in Philo : PhiloInv(q)
  BY DEF IInv
<1>h. ASSUME NEW why, Halt(why) PROVE Phase' = Phase
  BY <1>h, PhaseKept DEF Halt
<1>1. ASSUME NEW a \in AO, Sched(a) PROVE Phase' = Phase
  BY <1>0, <1>1, AOs, PhaseKept DEF Sched, Schedulable, philoVars, TypeOK
<1>2. ASSUME NEW p \in Philo, ThinkingTimeout(p) PROVE [Abstract!Next]_Phase
  <2>1. CASE Goto(p, "posted") /\ UNCHANGED philoVars
    <3>1. /\ state' = state /\ pc'[p] = "posted" /\ \A q \in Philo : q # p => pc'[q] = pc[q]
          /\ state[p] = "thinking" /\ pc[p] = "run"
      BY <1>0, <1>2, <2>1, AOs DEF Goto, philoVars, TypeOK, ThinkingTimeout, At
    <3>2. Phase[p] = "thinking" /\ Phase'[p] = "hungry"
      BY <3>1 DEF Phase
    <3> QED BY <1>0, <3>1, <3>2, PhaseOfOne DEF Abstract!Next, Abstract!BecomeHungry
  <2> QED BY <1>h, <1>2, <2>1, ThinkingTimeoutEffect
<1>3. ASSUME NEW p \in Philo, EnterHungry(p) PROVE Phase' = Phase
  <2>1. /\ \A q \in Philo : q # p => pc'[q] = pc[q] /\ state'[q] = state[q]
        /\ pc[p] = "posted" /\ state[p] = "thinking" /\ pc'[p] = "idle" /\ state'[p] = "hungry"
    BY <1>0, <1>3, AOs DEF EnterHungry, Return, At, TypeOK
  <2> QED BY <2>1 DEF Phase
<1>4. ASSUME NEW p \in Philo, HungryEat(p) PROVE [Abstract!Next]_Phase
  <2>1. CASE state' = [state EXCEPT ![p] = "eating"] /\ Return(p)
    <3>1. /\ \A q \in Philo : q # p => pc'[q] = pc[q] /\ state'[q] = state[q]
          /\ pc[p] = "run" /\ state[p] = "hungry" /\ pc'[p] = "idle" /\ state'[p] = "eating"
          /\ ev[p] = TableEvt("EAT", p)
      BY <1>0, <1>4, <2>1, AOs DEF HungryEat, Return, At, TypeOK
    <3>2. Phase[p] = "hungry" /\ Phase'[p] = "eating"
      BY <3>1 DEF Phase
    <3>3. \A q \in Philo : Phase[q] = "eating" => Holds(q)
      BY <1>0 DEF Phase, Holds, Eating, TypeOK
    <3>4. Holds(p)
      BY <3>1 DEF Holds
    <3>5. ~Holds(LEFT(p)) /\ ~Holds(RIGHT(p))
      BY <3>4, Neighbours DEF IInv, ForksMatchOwners
    <3>6. \A q \in NextTo(p) : Phase[q] # "eating"
      BY <3>3, <3>5, Neighbours DEF NextTo
    <3> QED BY <1>0, <3>1, <3>2, <3>6, PhaseOfOne DEF Abstract!Next, Abstract!StartEating
  <2> QED BY <1>h, <1>4, <2>1, HungryEatEffect
<1>5. ASSUME NEW p \in Philo, EatingTimeout(p) PROVE [Abstract!Next]_Phase
  <2>1. CASE Goto(p, "posted") /\ UNCHANGED philoVars
    <3>1. /\ state' = state /\ pc'[p] = "posted" /\ \A q \in Philo : q # p => pc'[q] = pc[q]
          /\ state[p] = "eating" /\ pc[p] = "run"
      BY <1>0, <1>5, <2>1, AOs DEF Goto, philoVars, TypeOK, EatingTimeout, At
    <3>2. Phase[p] = "eating" /\ Phase'[p] = "thinking"
      BY <3>1 DEF Phase
    <3> QED BY <1>0, <3>1, <3>2, PhaseOfOne DEF Abstract!Next, Abstract!StopEating
  <2> QED BY <1>h, <1>5, <2>1, EatingTimeoutEffect
<1>6. ASSUME NEW p \in Philo, EnterThinking(p) PROVE Phase' = Phase
  <2>1. CASE state' = [state EXCEPT ![p] = "thinking"] /\ Return(p)
    <3>1. /\ \A q \in Philo : q # p => pc'[q] = pc[q] /\ state'[q] = state[q]
          /\ pc[p] = "posted" /\ state[p] = "eating" /\ pc'[p] = "idle" /\ state'[p] = "thinking"
      BY <1>0, <1>6, <2>1, AOs DEF EnterThinking, Return, At, TypeOK
    <3> QED BY <3>1 DEF Phase
  <2> QED BY <1>h, <1>6, <2>1, EnterThinkingEffect
<1>7. ASSUME NEW p \in Philo, PhiloIgnore(p) PROVE Phase' = Phase
  <2>1. CASE Return(p) /\ UNCHANGED philoVars
    BY <1>0, <1>7, <2>1, AOs, PhaseKept DEF PhiloIgnore, At, Return, philoVars, TypeOK
  <2> QED BY <1>h, <1>7, <2>1, PhiloIgnoreEffect
<1>8. CASE TableStep
  <2>1. CASE UNCHANGED philoVars /\ (Return(Table) \/ Goto(Table, "left"))
    BY <1>0, <2>1, AOs, PhaseKept DEF Return, Goto, philoVars, TypeOK
  <2>2. CASE TableIgnore
    BY <2>1, <2>2 DEF TableIgnore, philoVars
  <2> QED BY <1>h, <1>8, <2>1, <2>2, TableHungryEffect, TableDoneEffect, TableDoneLeftEffect
          DEF TableStep, philoVars
<1>9. CASE Tick
  BY <1>h, <1>9, TickEffect, PhaseKept DEF kernVars
<1>10. CASE Exti0
  BY <1>h, <1>10, Exti0Effect, PhaseKept DEF kernVars, philoVars
<1>11. CASE UNCHANGED vars
  BY <1>11, PhaseKept DEF vars
<1> QED
  BY <1>1, <1>2, <1>3, <1>4, <1>5, <1>6, <1>7, <1>8, <1>9, <1>10, <1>11
  DEF Next, Run, PhiloStep

(* The program implements Dining for every number of philosophers, queue   *)
(* length and timing: what an onlooker sees is philosophers who start to   *)
(* eat only while neither neighbour eats.                                  *)
THEOREM Refinement == Spec => ImplementsDining
<1>1. Init => Abstract!Init
  BY AOs DEF Init, Abstract!Init, Phase
<1>2. IInv /\ IInv' /\ [Next]_vars => [Abstract!Next]_Phase
  BY StepDining
<1> QED BY <1>1, <1>2, Invariance, PTL DEF Spec, ImplementsDining, Abstract!Spec
=============================================================================
