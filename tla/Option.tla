------------------------------- MODULE Option -------------------------------
(* Rust's Option: a field of type Option<T> holds a T or NONE. *)

CONSTANT NONE
=============================================================================
