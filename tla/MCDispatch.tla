----------------------------- MODULE MCDispatch -----------------------------
(***************************************************************************)
(* A small engine: two streams, one there from the start, and two workers. *)
(***************************************************************************)
EXTENDS Dispatch

CONSTANTS s1, s2, w1, w2, ep
=============================================================================
