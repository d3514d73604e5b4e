------------------------------- MODULE Deque --------------------------------
(***************************************************************************)
(* What an event queue promises: a sequence of events with room for        *)
(* Room + 1 of them, posted at the back or at the front and taken from the *)
(* front, that fails when it overflows and remembers its fullest moment.   *)
(***************************************************************************)
EXTENDS Naturals, Sequences

CONSTANTS Event, NoEvent, Room

VARIABLES
  contents,  (* the events in the queue                                    *)
  peak,      (* the most events that ever waited behind the front one      *)
  taken,     (* what the last Take returned                                *)
  failed     (* 1 once an event was posted to a full queue                 *)

Init == contents = << >> /\ peak = 0 /\ taken = NoEvent /\ failed = 0

(* s replaces the contents, or the queue fails because it is full.         *)
Grow(s) ==
  /\ failed = 0
  /\ \/ /\ Len(contents) <= Room
        /\ contents' = s
        /\ peak' = IF peak < Len(contents) THEN Len(contents) ELSE peak
        /\ UNCHANGED <<taken, failed>>
     \/ /\ Len(contents) > Room
        /\ failed' = 1
        /\ UNCHANGED <<contents, peak, taken>>

PushBack  == \E e \in Event : Grow(Append(contents, e))
PushFront == \E e \in Event : Grow(<<e>> \o contents)

Take ==
  /\ failed = 0 /\ contents # << >>
  /\ taken' = Head(contents)
  /\ contents' = Tail(contents)
  /\ UNCHANGED <<peak, failed>>

TakeNothing ==
  /\ failed = 0 /\ contents = << >>
  /\ taken' = NoEvent
  /\ UNCHANGED <<contents, peak, failed>>

Next == PushBack \/ PushFront \/ Take \/ TakeNothing

Spec == Init /\ [][Next]_<<contents, peak, taken, failed>>
=============================================================================
