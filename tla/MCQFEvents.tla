----------------------------- MODULE MCQFEvents -----------------------------
(* Instances of QFEvents for TLC.                                          *)
EXTENDS QFEvents
=============================================================================
