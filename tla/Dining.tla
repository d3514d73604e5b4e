------------------------------- MODULE Dining -------------------------------
(***************************************************************************)
(* What the application promises, with no Table, event, queue, clock or    *)
(* scheduler in it: philosophers around a table think, get hungry and eat, *)
(* and one starts to eat only while neither neighbour does.                *)
(***************************************************************************)
CONSTANTS
  Philo,          (* the philosophers                                      *)
  Neighbours(_)   (* Neighbours(p): the philosophers who share p's forks   *)

VARIABLE phase    (* phase[p]: "thinking", "hungry" or "eating"            *)

Init == phase = [p \in Philo |-> "thinking"]

BecomeHungry(p) ==
  /\ phase[p] = "thinking"
  /\ phase' = [phase EXCEPT ![p] = "hungry"]

StartEating(p) ==
  /\ phase[p] = "hungry"
  /\ \A q \in Neighbours(p) : phase[q] # "eating"
  /\ phase' = [phase EXCEPT ![p] = "eating"]

StopEating(p) ==
  /\ phase[p] = "eating"
  /\ phase' = [phase EXCEPT ![p] = "thinking"]

Next == \E p \in Philo : BecomeHungry(p) \/ StartEating(p) \/ StopEating(p)

Spec == Init /\ [][Next]_phase
=============================================================================
