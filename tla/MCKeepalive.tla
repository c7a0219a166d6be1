---------------------------- MODULE MCKeepalive ----------------------------
(***************************************************************************)
(* Keepalive with two configurable intervals, a timeout of two ticks and   *)
(* room for a second persistent timer next to the regular ones.            *)
(***************************************************************************)
EXTENDS Keepalive
=============================================================================
