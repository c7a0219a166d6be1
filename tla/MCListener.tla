----------------------------- MODULE MCListener -----------------------------
(* Listener for TLC: commands of up to three updates, two ports, two marks. *)
EXTENDS Listener
=============================================================================
