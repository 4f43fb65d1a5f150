-------------------------- MODULE MCRelayPresence ---------------------------
(* RelayPresence for TLC.                                                  *)
EXTENDS RelayPresence
=============================================================================
