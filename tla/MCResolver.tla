----------------------------- MODULE MCResolver -----------------------------
(***************************************************************************)
(* Two clients that ask for one name or two.                               *)
(***************************************************************************)
EXTENDS Resolver, TLC

CONSTANTS c1, c2, n1, n2

(* Clients are interchangeable, and so are names. *)
Symmetry == Permutations(Client) \cup Permutations(Name)
=============================================================================
