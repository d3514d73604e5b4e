------------------------------ MODULE MCQHsm -------------------------------
(* Instances of QHsm for TLC.                                              *)
EXTENDS QHsm
============================================================================
