----------------------------- MODULE MCQuestion -----------------------------
(***************************************************************************)
(* Names of two and of three labels, and one of a single label.            *)
(***************************************************************************)
EXTENDS Question

(* ab.c, x.yz.w and pc *)
MCAsked == {<<<<97, 98>>, <<99>>>>, <<<<120>>, <<121, 122>>, <<119>>>>, <<<<112, 99>>>>}
=============================================================================
