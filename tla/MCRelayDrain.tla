---------------------------- MODULE MCRelayDrain ----------------------------
(* RelayDrain for TLC.                                                     *)
EXTENDS RelayDrain
=============================================================================
