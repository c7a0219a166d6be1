------------------------------- MODULE MCLine -------------------------------
(***************************************************************************)
(* Line with a timeout of two ticks and at most two packets on their way   *)
(* in one direction, enough for data packets to cross and for a keepalive  *)
(* to be under way behind data.                                            *)
(***************************************************************************)
EXTENDS Line
=============================================================================
