------------------------------- MODULE Timers -------------------------------
(***************************************************************************)
(* What time events promise: independent count-downs, all moved by a tick, *)
(* each owing its active object one event when it runs out.                *)
(***************************************************************************)
EXTENDS Integers

CONSTANTS TimeEvt, MAX_TICKS

VARIABLES
  remain,  (* remain[t]: ticks until t expires, 0 when it is disarmed      *)
  period,  (* period[t]: what t starts again with, 0 for a one-shot        *)
  owed     (* owed[t]: 1 when t has expired and is still to be posted      *)

Init ==
  /\ remain = [t \in TimeEvt |-> 0]
  /\ period = [t \in TimeEvt |-> 0]
  /\ owed   = [t \in TimeEvt |-> 0]

Settled == \A t \in TimeEvt : owed[t] = 0

(* Arm, disarm or change t.                                                *)
Set(t, n, p) ==
  /\ Settled
  /\ remain' = [remain EXCEPT ![t] = n]
  /\ period' = [period EXCEPT ![t] = p]
  /\ UNCHANGED owed

Tick ==
  /\ Settled
  /\ remain' = [t \in TimeEvt |-> IF remain[t] = 1 THEN period[t]
                                  ELSE IF remain[t] = 0 THEN 0 ELSE remain[t] - 1]
  /\ owed' = [t \in TimeEvt |-> IF remain[t] = 1 THEN 1 ELSE 0]
  /\ UNCHANGED period

Deliver(t) ==
  /\ owed[t] = 1
  /\ owed' = [owed EXCEPT ![t] = 0]
  /\ UNCHANGED <<remain, period>>

Next ==
  \/ \E t \in TimeEvt, n \in 0 .. MAX_TICKS, p \in 0 .. MAX_TICKS : Set(t, n, p)
  \/ Tick
  \/ \E t \in TimeEvt : Deliver(t)

Spec == Init /\ [][Next]_<<remain, period, owed>>
=============================================================================
