----------------------------- MODULE MCLwIPMgr -----------------------------
(* Instances of LwIPMgr for TLC.                                           *)
EXTENDS LwIPMgr
============================================================================
