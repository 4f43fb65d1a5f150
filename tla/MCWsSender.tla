----------------------------- MODULE MCWsSender -----------------------------
(* WsSender for TLC: a lane of two messages or three bytes.                *)
EXTENDS WsSender
=============================================================================
