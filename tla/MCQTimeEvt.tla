----------------------------- MODULE MCQTimeEvt -----------------------------
(* Instances of QTimeEvt for TLC.                                          *)
EXTENDS QTimeEvt
=============================================================================
