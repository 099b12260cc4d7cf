---------------------------- MODULE MCStackClient ----------------------------
(* A stack of 5 bytes over a map of 36 addresses. *)
EXTENDS StackClient
=============================================================================
