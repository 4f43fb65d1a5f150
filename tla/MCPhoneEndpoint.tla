-------------------------- MODULE MCPhoneEndpoint --------------------------
(* PhoneEndpoint for TLC.                                                  *)
EXTENDS PhoneEndpoint
=============================================================================
