------------------------- MODULE MCRelayCredential -------------------------
(* RelayCredential for TLC.                                                *)
EXTENDS RelayCredential
=============================================================================
