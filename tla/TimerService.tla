---------------------------- MODULE TimerService ----------------------------
(***************************************************************************)
(* What Engine::setTimer and Engine::cancelTimer promise their callers:    *)
(* one-shot timers.  A timer is pending from the call that sets it until   *)
(* it fires or is cancelled; it fires at most once for each time it is     *)
(* set, and its event then waits in the engine's queue for a worker.       *)
(* Cancelling a timer does not take back an event already queued.          *)
(***************************************************************************)
EXTENDS Sequences

CONSTANTS Runnable, Timer, Owner

VARIABLES
  pending,   \* the timers set, not fired and not cancelled
  queue      \* the events of fired timers, oldest first

vars == <<pending, queue>>

Init == pending = {} /\ queue = <<>>

Set(t) == pending' = pending \cup {t} /\ UNCHANGED queue

Cancel(t) == pending' = pending \ {t} /\ UNCHANGED queue

CancelAll(r) == pending' = {t \in pending : Owner[t] # r} /\ UNCHANGED queue

Expire(t) ==
  /\ t \in pending
  /\ pending' = pending \ {t}
  /\ queue' = Append(queue, t)

Take == queue # <<>> /\ queue' = Tail(queue) /\ UNCHANGED pending

Clear == pending' = {} /\ queue' = <<>>

Next ==
  \/ \E t \in Timer : Set(t) \/ Cancel(t) \/ Expire(t)
  \/ \E r \in Runnable : CancelAll(r)
  \/ Take
  \/ Clear

Spec == Init /\ [][Next]_vars
=============================================================================
