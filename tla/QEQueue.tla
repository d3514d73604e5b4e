------------------------------ MODULE QEQueue -------------------------------
(***************************************************************************)
(* The QF event queue (qeq_*.c) and the same queue inside an active object *)
(* (qa_fifo.c, qa_lifo.c, qa_get_.c): a front event and a ring buffer of   *)
(* qLen entries whose indices run downwards.  Every operation is one       *)
(* critical section and therefore one action.                              *)
(***************************************************************************)
EXTENDS Integers, Sequences

CONSTANTS
  Event,   (* the events that are posted                                   *)
  NULL,    (* the null pointer                                             *)
  qLen     (* number of entries of the ring buffer                         *)

ASSUME QueueAssumption == qLen \in Nat /\ NULL \notin Event

VARIABLES
  frontEvt,  (* the next event, NULL when the queue is empty               *)
  ring,      (* the ring buffer                                            *)
  head,      (* where the next event is inserted at the back               *)
  tail,      (* where the event behind the front one is                    *)
  nFree,     (* number of free entries of the ring buffer                  *)
  nMin,      (* the smallest nFree so far                                  *)
  ready,     (* 1 when the active object is in QK_readySet_                *)
  got,       (* the event the last get returned                            *)
  failed     (* 1 once the overflow assertion has failed                   *)

queueVars == <<frontEvt, ring, head, tail, nFree, nMin, ready>>
vars == <<frontEvt, ring, head, tail, nFree, nMin, ready, got, failed>>

Index == 0 .. qLen - 1

(* QEQueue_init, on storage that is zero.                                  *)
Init ==
  /\ frontEvt = NULL
  /\ ring     = [i \in Index |-> NULL]
  /\ head     = 0
  /\ tail     = 0
  /\ nFree    = qLen
  /\ nMin     = qLen
  /\ ready    = 0
  /\ got      = NULL
  /\ failed   = 0

(* Mutant: an index wraps around one entry early.                          *)
DecEarly(i) == IF i <= 1 THEN qLen - 1 ELSE i - 1

Dec(i) == IF i = 0 THEN qLen - 1 ELSE i - 1
Inc(i) == IF i + 1 = qLen THEN 0 ELSE i + 1

(* Mutant: the low-water mark is updated before nFree is.                  *)
UseEntryLate ==
  /\ nFree' = nFree - 1
  /\ nMin'  = IF nMin > nFree THEN nFree ELSE nMin

(* One entry of the ring buffer is used up.                                *)
UseEntry ==
  /\ nFree' = nFree - 1
  /\ nMin'  = IF nMin > nFree - 1 THEN nFree - 1 ELSE nMin

(* The queue was empty: the event is delivered directly and the active     *)
(* object becomes ready.                                                   *)
Deliver(e) ==
  /\ frontEvt = NULL
  /\ frontEvt' = e
  /\ ready' = 1
  /\ UNCHANGED <<ring, head, tail, nFree, nMin, got, failed>>

(* Q_ASSERT(nFree != 0)                                                    *)
Overflow ==
  /\ frontEvt # NULL /\ nFree = 0
  /\ failed' = 1
  /\ UNCHANGED <<queueVars, got>>

PostFIFO(e) ==
  /\ failed = 0
  /\ \/ Deliver(e)
     \/ Overflow
     \/ /\ frontEvt # NULL /\ nFree # 0
        /\ ring' = [ring EXCEPT ![head] = e]
        /\ head' = Dec(head)
        /\ UseEntry
        /\ UNCHANGED <<frontEvt, tail, ready, got, failed>>

PostLIFO(e) ==
  /\ failed = 0
  /\ \/ Deliver(e)
     \/ Overflow
     \/ /\ frontEvt # NULL /\ nFree # 0
        /\ tail' = Inc(tail)
        /\ ring' = [ring EXCEPT ![tail'] = frontEvt]
        /\ frontEvt' = e
        /\ UseEntry
        /\ UNCHANGED <<head, ready, got, failed>>

(* QACTIVE_EQUEUE_ONEMPTY_                                                 *)
OnEmpty == ready' = 0

Get ==
  /\ failed = 0 /\ frontEvt # NULL
  /\ got' = frontEvt
  /\ \/ /\ nFree # qLen
        /\ frontEvt' = ring[tail]
        /\ tail' = Dec(tail)
        /\ nFree' = nFree + 1
        /\ UNCHANGED ready
     \/ /\ nFree = qLen
        /\ frontEvt' = NULL
        /\ OnEmpty
        /\ UNCHANGED <<tail, nFree>>
  /\ UNCHANGED <<ring, head, nMin, failed>>

(* QEQueue_get on an empty queue (QK never calls QActive_get_ on one).     *)
GetNothing ==
  /\ failed = 0 /\ frontEvt = NULL
  /\ got' = NULL
  /\ UNCHANGED <<queueVars, failed>>

Next == (\E e \in Event : PostFIFO(e) \/ PostLIFO(e)) \/ Get \/ GetNothing

Spec == Init /\ [][Next]_vars

----------------------------------------------------------------------------
(* Properties.                                                             *)

TypeOK ==
  /\ frontEvt \in Event \cup {NULL}
  /\ ring \in [Index -> Event \cup {NULL}]
  /\ head \in Nat /\ (qLen # 0 => head \in Index)
  /\ tail \in Nat /\ (qLen # 0 => tail \in Index)
  /\ nFree \in 0 .. qLen
  /\ nMin \in 0 .. qLen
  /\ ready \in {0, 1}
  /\ got \in Event \cup {NULL}
  /\ failed \in {0, 1}

(* The entry k places behind the tail, and the number of entries in use.   *)
Entry(k) == IF k <= tail THEN tail - k ELSE tail + qLen - k
Used == qLen - nFree

(* Active object and kernel agree: it is in the ready set exactly when an  *)
(* event waits, so no event is forgotten and none is taken from an empty   *)
(* queue.  (Part of the inductive invariant of QActive_proofs.)            *)
ReadyIffEvents == ready = 1 <=> frontEvt # NULL

(* The ring buffer is used only behind a front event, and the insertion    *)
(* point is right behind the last used entry, around the wrap too.         *)
HeadBehindUsed ==
  /\ frontEvt = NULL => Used = 0
  /\ head = Entry(Used)
  /\ \A k \in 0 .. qLen - 1 : k < Used => ring[Entry(k)] \in Event

Contents ==
  [i \in 1 .. (IF frontEvt = NULL THEN 0 ELSE 1 + Used) |->
     IF i = 1 THEN frontEvt ELSE ring[Entry(i - 2)]]

Abstract == INSTANCE Deque
            WITH contents <- Contents, peak <- qLen - nMin, taken <- got,
                 NoEvent <- NULL, Room <- qLen

(* The ring buffer implements a bounded deque: events come out in the      *)
(* order they are due, none lost or twice, posts fail only when qLen + 1   *)
(* events wait, and the margin nMin is the smallest room there ever was.   *)
ImplementsDeque == Abstract!Spec
=============================================================================
