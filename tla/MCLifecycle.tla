---------------------------- MODULE MCLifecycle ----------------------------
(***************************************************************************)
(* A small engine: one socket, one or two workers.                         *)
(***************************************************************************)
EXTENDS Lifecycle, TLC

CONSTANTS s1, w1, w2, main

(* Workers are interchangeable. *)
Symmetry == Permutations(Worker)
=============================================================================
