-------------------------------- MODULE MCWzcp -------------------------------
(***************************************************************************)
(* Wzcp on small instances: one writing thread, and two that share the     *)
(* socket.                                                                 *)
(***************************************************************************)
EXTENDS Wzcp

CONSTANTS r, t1

NoSender == {}
OneSender == {t1}
Bodies == {1, 2}
==============================================================================
