------------------------------ MODULE QTimeEvt ------------------------------
(***************************************************************************)
(* The time events of QF: the linked list of time events, QTimeEvt_arm_,   *)
(* QTimeEvt_disarm and QTimeEvt_rearm (qte_arm.c, qte_darm.c, qte_rarm.c)  *)
(* and the walk of QF_tick along the list (qf_tick.c), which unlinks the   *)
(* time events that were disarmed or have expired while it walks.          *)
(*                                                                         *)
(* QF_tick runs in SysTick_Handler, so no active object runs while it      *)
(* walks; the interrupt that can preempt it (EXTI0) touches no time event. *)
(***************************************************************************)
EXTENDS Integers, Sequences, FiniteSets

CONSTANTS
  TimeEvt,   (* the time events                                            *)
  NULL,      (* the null pointer                                           *)
  MAX_TICKS  (* bound: ticks a time event is armed with                    *)

ASSUME TimeEvtAssumption ==
  /\ IsFiniteSet(TimeEvt) /\ NULL \notin TimeEvt
  /\ MAX_TICKS \in Nat \ {0}

VARIABLES
  listHead,  (* QF_timeEvtListHead_                                        *)
  next,      (* next[t]: the link to the next time event                   *)
  ctr,       (* ctr[t]: the down-counter, 0 when t is disarmed             *)
  interval,  (* interval[t]: the period, 0 for a one-shot time event       *)
  act,       (* act[t]: 1 once t knows its active object                   *)
  linked,    (* linked[t]: the reference counter, 1 while t is in the list *)
  cursor,    (* the time event QF_tick has come to                         *)
  prev,      (* the last time event QF_tick has left in the list           *)
  at         (* "out" of QF_tick, at a "visit", at a "post" or "after" it  *)

listVars == <<listHead, next, linked>>
tickVars == <<cursor, prev, at>>
vars == <<listHead, next, ctr, interval, act, linked, cursor, prev, at>>

Init ==
  /\ listHead = NULL
  /\ next     = [t \in TimeEvt |-> NULL]
  /\ ctr      = [t \in TimeEvt |-> 0]
  /\ interval = [t \in TimeEvt |-> 0]
  /\ act      = [t \in TimeEvt |-> 0]
  /\ linked   = [t \in TimeEvt |-> 0]
  /\ cursor = NULL /\ prev = NULL /\ at = "out"

----------------------------------------------------------------------------
(* Operations of the active objects.                                       *)

(* A time event that is not linked goes to the front of the list.          *)
Link(t) ==
  \/ /\ linked[t] = 0
     /\ next' = [next EXCEPT ![t] = listHead]
     /\ listHead' = t
     /\ linked' = [linked EXCEPT ![t] = 1]
  \/ linked[t] # 0 /\ UNCHANGED listVars

(* QTimeEvt_postIn (p = 0) and QTimeEvt_postEvery (p = n), of a disarmed   *)
(* time event.                                                             *)
Arm(t, n, p) ==
  /\ at = "out" /\ ctr[t] = 0
  /\ interval' = [interval EXCEPT ![t] = p]
  /\ ctr' = [ctr EXCEPT ![t] = n]
  /\ act' = [act EXCEPT ![t] = 1]
  /\ Link(t)
  /\ UNCHANGED tickVars

(* QTimeEvt_disarm leaves the unlinking to QF_tick.                        *)
Disarm(t) ==
  /\ at = "out"
  /\ ctr' = [ctr EXCEPT ![t] = 0]
  /\ UNCHANGED <<listVars, interval, act, tickVars>>

Rearm(t, n) ==
  /\ at = "out" /\ act[t] = 1
  /\ ctr' = [ctr EXCEPT ![t] = n]
  /\ \/ ctr[t] = 0 /\ Link(t)
     \/ ctr[t] # 0 /\ UNCHANGED listVars
  /\ UNCHANGED <<interval, act, tickVars>>

----------------------------------------------------------------------------
(* QF_tick.                                                                *)

(* Take the time event under the cursor out of the list.                   *)
Unlink(t) ==
  /\ \/ t = listHead /\ listHead' = next[t] /\ UNCHANGED next
     \/ t # listHead /\ next' = [next EXCEPT ![prev] = next[t]] /\ UNCHANGED listHead
  /\ linked' = [linked EXCEPT ![t] = 0]

(* Mutant: the unlinked time event becomes the previous one.               *)
StepAfterUnlink(t) == cursor' = next[t] /\ prev' = t /\ at' = "visit"

(* Go on with the next time event after unlinking t ...                    *)
StepUnlinked(t) == cursor' = next[t] /\ UNCHANGED prev /\ at' = "visit"
(* ... or leaving it in the list.                                          *)
StepLinked(t) == cursor' = next[t] /\ prev' = t /\ at' = "visit"

TickBegin ==
  /\ at = "out"
  /\ cursor' = listHead /\ prev' = NULL /\ at' = "visit"
  /\ UNCHANGED <<listVars, ctr, interval, act>>

(* Mutant: a disarmed time event is passed over and left in the list.      *)
VisitDisarmedKept ==
  /\ at = "visit" /\ cursor # NULL /\ ctr[cursor] = 0
  /\ StepLinked(cursor)
  /\ UNCHANGED <<listVars, ctr, interval, act>>

(* The time event was disarmed.                                            *)
VisitDisarmed ==
  /\ at = "visit" /\ cursor # NULL /\ ctr[cursor] = 0
  /\ Unlink(cursor)
  /\ StepUnlinked(cursor)
  /\ UNCHANGED <<ctr, interval, act>>

(* The time event is counted down.                                         *)
VisitArmed ==
  /\ at = "visit" /\ cursor # NULL /\ ctr[cursor] > 1
  /\ ctr' = [ctr EXCEPT ![cursor] = @ - 1]
  /\ StepLinked(cursor)
  /\ UNCHANGED <<listVars, interval, act>>

(* Mutant: a periodic time event is not armed again.                       *)
ReloadNever(t) == 0
Reload(t) == interval[t]

(* The time event expires; a periodic one is armed again.                  *)
VisitExpiring ==
  /\ at = "visit" /\ cursor # NULL /\ ctr[cursor] = 1
  /\ ctr' = [ctr EXCEPT ![cursor] = Reload(cursor)]
  /\ at' = "post"
  /\ UNCHANGED <<listVars, interval, act, cursor, prev>>

(* QACTIVE_POST, outside of the critical section.                          *)
PostTimeEvt ==
  /\ at = "post"
  /\ at' = "after"
  /\ UNCHANGED <<listVars, ctr, interval, act, cursor, prev>>

(* Back in the critical section a time event still at 0 is unlinked.       *)
AfterPost ==
  /\ at = "after"
  /\ \/ ctr[cursor] = 0 /\ Unlink(cursor) /\ StepUnlinked(cursor)
     \/ ctr[cursor] # 0 /\ StepLinked(cursor) /\ UNCHANGED listVars
  /\ UNCHANGED <<ctr, interval, act>>

TickEnd ==
  /\ at = "visit" /\ cursor = NULL
  /\ at' = "out" /\ prev' = NULL
  /\ UNCHANGED <<listVars, ctr, interval, act, cursor>>

----------------------------------------------------------------------------
Walk == VisitDisarmed \/ VisitArmed \/ VisitExpiring \/ PostTimeEvt \/ AfterPost \/ TickEnd

Use(t) ==
  \/ Disarm(t)
  \/ \E n \in 1 .. MAX_TICKS : Rearm(t, n) \/ (\E p \in {0, n} : Arm(t, n, p))

Next == (\E t \in TimeEvt : Use(t)) \/ TickBegin \/ Walk

Spec == Init /\ [][Next]_vars

(* SysTick comes again and again and QF_tick runs to completion.           *)
FairSpec == Spec /\ WF_vars(TickBegin) /\ WF_vars(Walk)

----------------------------------------------------------------------------
(* Properties.                                                             *)

TypeOK ==
  /\ listHead \in TimeEvt \cup {NULL}
  /\ next \in [TimeEvt -> TimeEvt \cup {NULL}]
  /\ ctr \in [TimeEvt -> 0 .. MAX_TICKS]
  /\ interval \in [TimeEvt -> 0 .. MAX_TICKS]
  /\ act \in [TimeEvt -> {0, 1}] /\ linked \in [TimeEvt -> {0, 1}]
  /\ cursor \in TimeEvt \cup {NULL} /\ prev \in TimeEvt \cup {NULL}
  /\ at \in {"out", "visit", "post", "after"}

(* Where the links lead from t, and the time events on the way.            *)
Path(links, t) ==
  LET link[k \in 0 .. Cardinality(TimeEvt)] ==
        IF k = 0 THEN t ELSE IF link[k - 1] = NULL THEN NULL ELSE links[link[k - 1]]
  IN link
From(links, t) == {Path(links, t)[k] : k \in 0 .. Cardinality(TimeEvt)} \ {NULL}

(* The list ends and holds the linked time events and no other, whatever   *)
(* was armed, disarmed and rearmed between and unlinked during the ticks,  *)
(* and every armed time event is in it.  The assertion of QF_tick holds:   *)
(* the one before the cursor is known, and links to the cursor, when the   *)
(* cursor is not at the head.                                              *)
ListExact ==
  /\ Path(next, listHead)[Cardinality(TimeEvt)] = NULL
  /\ From(next, listHead) = {t \in TimeEvt : linked[t] = 1}
  /\ \A t \in TimeEvt : ctr[t] # 0 => linked[t] = 1
  /\ cursor \notin {NULL, listHead} =>
       prev # NULL /\ linked[prev] = 1 /\ next[prev] = cursor

(* The time events QF_tick has still to visit in this tick.                *)
ToVisit == IF at = "visit" THEN From(next, cursor)
           ELSE IF at = "out" \/ cursor = NULL THEN {}
           ELSE From(next, next[cursor])

Remain ==
  LET v == ToVisit IN
  [t \in TimeEvt |-> IF t \in v /\ ctr[t] = 1 THEN interval[t]
                     ELSE IF t \in v /\ ctr[t] # 0 THEN ctr[t] - 1 ELSE ctr[t]]
Owed ==
  LET v == ToVisit IN
  [t \in TimeEvt |->
     IF (t \in v /\ ctr[t] = 1) \/ (at = "post" /\ t = cursor) THEN 1 ELSE 0]

Abstract == INSTANCE Timers WITH remain <- Remain, period <- interval, owed <- Owed

(* The walk along the list implements independent count-downs: a tick      *)
(* moves every armed time event by exactly one and posts exactly those     *)
(* that run out, however the list is relinked under it.                    *)
ImplementsTimers == Abstract!Spec

(* A disarmed time event leaves the list with a later tick: the list does  *)
(* not grow with time events nobody uses.                                  *)
DisarmedLeaves ==
  \A t \in TimeEvt : ctr[t] = 0 /\ linked[t] = 1 ~> ctr[t] # 0 \/ linked[t] = 0
=============================================================================
