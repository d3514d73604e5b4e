------------------------------- MODULE MCDPP -------------------------------
(* Instances of DPP for TLC; the constants are given in the .cfg files.    *)
EXTENDS DPP
============================================================================
