---------------------------- MODULE MCEthDriver ----------------------------
(* Instances of EthDriver for TLC.                                         *)
EXTENDS EthDriver
============================================================================
