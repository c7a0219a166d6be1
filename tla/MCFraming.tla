------------------------------ MODULE MCFraming ------------------------------
(* Framing with the constants of src/consts.rs, for packets of every size. *)
EXTENDS Framing

AllSizes == 0 .. 65535
=============================================================================
