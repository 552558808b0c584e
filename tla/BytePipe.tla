------------------------------ MODULE BytePipe ------------------------------
(***************************************************************************)
(* What a client may rely on from TcpStream::queueWrite: of the bytes it   *)
(* queued, numbered as they were, the socket gets a prefix, in order and   *)
(* each once.                                                              *)
(***************************************************************************)
EXTENDS Naturals, Sequences

VARIABLES
  queued,    \* how many bytes the client queued
  delivered  \* the bytes written to the socket

FirstBytes(n) == [i \in 1..n |-> i]

Init == queued = 0 /\ delivered = <<>>

Queue ==
  /\ queued' > queued
  /\ UNCHANGED delivered

Deliver ==
  /\ \E n \in (Len(delivered) + 1)..queued : delivered' = FirstBytes(n)
  /\ UNCHANGED queued

Spec == Init /\ [][Queue \/ Deliver]_<<queued, delivered>>
=============================================================================
