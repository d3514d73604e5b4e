----------------------------- MODULE MCQKernel ------------------------------
(* Instances of QKernel for TLC.                                           *)
EXTENDS QKernel
=============================================================================
