---------------------------- MODULE MCTcpStream ----------------------------
(***************************************************************************)
(* A stream that queues two or three bytes through a send buffer of one.  *)
(***************************************************************************)
EXTENDS TcpStream, TLC

CONSTANTS w1, w2

(* Workers are interchangeable. *)
Symmetry == Permutations(Worker)
=============================================================================
