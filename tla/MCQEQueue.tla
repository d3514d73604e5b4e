----------------------------- MODULE MCQEQueue ------------------------------
(* Instances of QEQueue for TLC.                                           *)
EXTENDS QEQueue
=============================================================================
