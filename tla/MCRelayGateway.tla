--------------------------- MODULE MCRelayGateway ---------------------------
(* RelayGateway for TLC: three losses or restarts around one phone.        *)
EXTENDS RelayGateway
=============================================================================
