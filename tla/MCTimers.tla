------------------------------ MODULE MCTimers ------------------------------
(***************************************************************************)
(* Two owners as in the program: a stream with its inactivity and egress   *)
(* timers, and a resolver with the timeout of one query.  The timeouts     *)
(* differ, so that a timer set later can become the first one, and two     *)
(* dates can coincide.                                                     *)
(***************************************************************************)
EXTENDS Timers

CONSTANTS stream, resolver, activity, egress, queryTimeout

MCOwner ==
  [t \in Timer |-> IF t = queryTimeout THEN resolver ELSE stream]

MCTimeout ==
  [t \in Timer |-> IF t = activity THEN 3 ELSE IF t = egress THEN 1 ELSE 2]
=============================================================================
