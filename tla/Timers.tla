------------------------------- MODULE Timers -------------------------------
(***************************************************************************)
(* Sb::Timers (timers.cpp) together with the part of Sb::Engine that owns  *)
(* the one timerfd all timers share (engine.cpp: setTimerTrigger,          *)
(* clearTimer, handleTimerExpired, doSetTimer, doCancelTimer, doRemove).   *)
(*                                                                         *)
(* Every entry point runs under Engine::timerLock (and Timers::timeLock    *)
(* inside it), so each is one action.  What is concurrent with them is the *)
(* kernel: the timerfd counts down, epoll reports it to the epoll thread,  *)
(* and the epoll thread holds that report for a while before it gets the   *)
(* lock in handleTimerExpired.                                             *)
(***************************************************************************)
EXTENDS Naturals, Sequences, FiniteSets

CONSTANTS
  Runnable,   \* the objects that own timers
  Timer,      \* Event objects used as timers; the code identifies one by its address
  Owner,      \* Owner[t]: the object Event::obj refers to
  Timeout,    \* Timeout[t]: each caller in src/ arms a given Event with one fixed timeout
  Horizon,    \* bound: timers are set and cancelled before this time
  MaxTime     \* bound: the clock stops here, when every date has passed

ASSUME TimersAssumption ==
  /\ Owner \in [Timer -> Runnable]
  /\ Timeout \in [Timer -> Nat]
  /\ Horizon \in Nat
  /\ MaxTime \in Nat
  /\ \A t \in Timer : Horizon + Timeout[t] <= MaxTime

VARIABLES
  now,            \* SteadyClock::now()
  alive,          \* the objects a weak_ptr can still lock
  timesByDate,    \* std::map from a date to the timer due then
  timersByOwner,  \* std::unordered_multimap from an owner to its timers
  timerEvent,     \* Engine::timerEvent: empty, or the timer armed
  fdExpiry,       \* when the timerfd goes off, 0 when it is disarmed
  fdReadable,     \* it went off and was not read since
  fdInterest,     \* the EPOLLONESHOT registration is enabled
  epollReported,  \* epoll_wait returned timerEvId, not handled yet
  eventQueue,     \* the expired timers' events, waiting for a worker
  phase           \* "running", "trapped" (a failed assert) or "stopped"

kernelVars == <<fdExpiry, fdReadable, fdInterest, epollReported>>
tableVars == <<timesByDate, timersByOwner>>
vars == <<now, alive, tableVars, timerEvent, kernelVars, eventQueue, phase>>

Entry == [tp : Nat, id : Timer]

Later(m, n) == IF m >= n THEN m ELSE n

(* The entry timesByDate.begin() points to, as a set: empty if the map is. *)
Earliest(dates) == {e \in dates : \A f \in dates : e.tp <= f.tp}

(* Timers::getStartEvent: which timer is due first, whatever its date.     *)
StartEvent(dates) == {e.id : e \in Earliest(dates)}

Init ==
  /\ now = 0
  /\ alive = Runnable
  /\ timesByDate = {}
  /\ timersByOwner = {}
  /\ timerEvent = {}
  /\ fdExpiry = 0
  /\ fdReadable = FALSE
  /\ fdInterest = TRUE
  /\ epollReported = FALSE
  /\ eventQueue = <<>>
  /\ phase = "running"

-----------------------------------------------------------------------------

(* Timers::removeTimer: the dates its owner has it under, and one of the   *)
(* multimap's entries for it, if there is any.                             *)
DatesWithout(t) ==
  timesByDate \ {e \in timesByDate :
                   /\ e.id = t
                   /\ \E o \in timersByOwner : Owner[o.id] = Owner[t] /\ o.tp = e.tp}

OwnedWithoutById(t) ==    \* mutant: find_if takes the owner's first entry
  LET mine == {o \in timersByOwner : Owner[o.id] = Owner[t]}
  IN  IF mine = {} THEN {timersByOwner} ELSE {timersByOwner \ {o} : o \in mine}

OwnedWithout(t) ==
  LET mine == {o \in timersByOwner : o.id = t}
  IN  IF mine = {} THEN {timersByOwner} ELSE {timersByOwner \ {o} : o \in mine}

CheckNothing(dates, owned) ==    \* mutant: the assertions compiled out
  phase' = phase

(* The assertions that the two containers have the same size; when one     *)
(* fails, __builtin_trap ends the process.                                 *)
CheckSizes(dates, owned) ==
  phase' = IF Cardinality(dates) = Cardinality(owned) THEN "running" ELSE "trapped"

SetTriggerUnclamped(dates) ==    \* mutant: no max with NanoSecs{1}
  /\ fdReadable' = FALSE
  /\ timerEvent' = StartEvent(dates)
  /\ IF dates = {}
     THEN fdExpiry' = fdExpiry
     ELSE \E e \in Earliest(dates) : fdExpiry' = IF e.tp > now THEN e.tp ELSE 0

SetTriggerSwapped(dates) ==      \* mutant: the operands of the subtraction swapped
  /\ fdReadable' = FALSE
  /\ timerEvent' = StartEvent(dates)
  /\ IF dates = {}
     THEN fdExpiry' = fdExpiry
     ELSE \E e \in Earliest(dates) : fdExpiry' = now - e.tp

SetTriggerOnce(dates) ==         \* mutant: leaves a timerfd already armed alone
  /\ fdReadable' = FALSE
  /\ timerEvent' = StartEvent(dates)
  /\ IF dates = {} \/ fdExpiry # 0
     THEN fdExpiry' = fdExpiry
     ELSE \E e \in Earliest(dates) : fdExpiry' = Later(e.tp, now + 1)

(* Timers::setTrigger and Engine::setTimerTrigger.  With no timer left the *)
(* timerfd is drained but neither disarmed nor deregistered.               *)
SetTrigger(dates) ==
  /\ fdReadable' = FALSE
  /\ timerEvent' = StartEvent(dates)
  /\ IF dates = {}
     THEN fdExpiry' = fdExpiry
     ELSE \E e \in Earliest(dates) : fdExpiry' = Later(e.tp, now + 1)

(* The timerfd's time has come; at MaxTime it always has, sooner or later. *)
FdDue == fdExpiry # 0 /\ (fdExpiry <= now \/ now >= MaxTime)

SetTriggerWithoutMod(dates) ==   \* mutant: no EPOLL_CTL_MOD after a report
  SetTrigger(dates) /\ UNCHANGED <<fdInterest, epollReported>>

(* setTrigger on a worker.  Between the read that drains the timerfd and   *)
(* timerfd_settime the old setting may go off and, the registration being  *)
(* enabled in between, be reported; settime then clears it.                *)
SetTriggerOnWorker(dates) ==
  /\ SetTrigger(dates)
  /\ \/ /\ fdInterest' = (fdInterest \/ dates # {})
        /\ UNCHANGED epollReported
     \/ /\ dates # {}
        /\ FdDue
        /\ ~epollReported
        /\ fdInterest' = FALSE
        /\ epollReported' = TRUE

TriggerIfNone(dates) ==          \* mutant: arms only the first timer set
  IF (dates = {}) # (timesByDate = {})
  THEN SetTriggerOnWorker(dates)
  ELSE UNCHANGED <<timerEvent, kernelVars>>

(* cancelTimer, setTimer and cancelAllTimers touch the timerfd only when   *)
(* a different timer has become the first one.                             *)
TriggerIfChanged(dates) ==
  IF StartEvent(dates) # StartEvent(timesByDate)
  THEN SetTriggerOnWorker(dates)
  ELSE UNCHANGED <<timerEvent, kernelVars>>

(* std::map::emplace leaves the map alone when the key is there already.   *)
Emplace(dates, e) ==
  IF \E f \in dates : f.tp = e.tp THEN dates ELSE dates \cup {e}

(* Engine::doSetTimer and Timers::setTimer. *)
SetTimer(t) ==
  /\ phase = "running"
  /\ now < Horizon
  /\ Owner[t] \in alive
  /\ \E owned \in OwnedWithout(t) :
       LET new == [tp |-> now + Timeout[t], id |-> t]
       IN  /\ timesByDate' = Emplace(DatesWithout(t), new)
           /\ timersByOwner' = owned \cup {new}
           /\ CheckSizes(timesByDate', timersByOwner')
           /\ TriggerIfChanged(timesByDate')
  /\ UNCHANGED <<now, alive, eventQueue>>

(* Engine::doCancelTimer and Timers::cancelTimer. *)
CancelTimer(t) ==
  /\ phase = "running"
  /\ now < Horizon
  /\ Owner[t] \in alive
  /\ timesByDate' = DatesWithout(t)
  /\ timersByOwner' \in OwnedWithout(t)
  /\ CheckSizes(timesByDate', timersByOwner')
  /\ TriggerIfChanged(timesByDate')
  /\ UNCHANGED <<now, alive, eventQueue>>

(* Engine::doRemove's second half and Timers::cancelAllTimers, which       *)
(* erases by date alone.                                                   *)
CancelAllTimers(r) ==
  LET mine == {o \in timersByOwner : Owner[o.id] = r}
  IN  /\ phase = "running"
      /\ now < Horizon
      /\ r \in alive
      /\ timesByDate' = {e \in timesByDate : \A o \in mine : o.tp # e.tp}
      /\ timersByOwner' = timersByOwner \ mine
      /\ CheckSizes(timesByDate', timersByOwner')
      /\ TriggerIfChanged(timesByDate')
      /\ UNCHANGED <<now, alive, eventQueue>>

(* An owner dies.  What its destructor cancels it cancels in vain: the     *)
(* weak_ptr in the Event no longer locks, so cancelTimer returns at once.  *)
Destroy(r) ==
  /\ phase = "running"
  /\ r \in alive
  /\ alive' = alive \ {r}
  /\ UNCHANGED <<now, tableVars, timerEvent, kernelVars, eventQueue, phase>>

-----------------------------------------------------------------------------

(* The kernel: time passes, the timerfd goes off, epoll_wait reports it.   *)
Tick ==
  /\ phase = "running"
  /\ now < MaxTime
  /\ now' = now + 1
  /\ UNCHANGED <<alive, tableVars, timerEvent, kernelVars, eventQueue, phase>>

FdExpire ==
  /\ phase = "running"
  /\ FdDue
  /\ fdExpiry' = 0
  /\ fdReadable' = TRUE
  /\ UNCHANGED <<now, alive, tableVars, timerEvent, fdInterest, epollReported,
                 eventQueue, phase>>

EpollReport ==
  /\ phase = "running"
  /\ fdReadable
  /\ fdInterest
  /\ ~epollReported
  /\ epollReported' = TRUE
  /\ fdInterest' = FALSE
  /\ UNCHANGED <<now, alive, tableVars, timerEvent, fdExpiry, fdReadable,
                 eventQueue, phase>>

(* Engine::handleTimerExpired finds no timer armed any more. *)
HandleTimerCancelled ==
  /\ phase = "running"
  /\ epollReported
  /\ timerEvent = {}
  /\ epollReported' = FALSE
  /\ UNCHANGED <<now, alive, tableVars, timerEvent, fdExpiry, fdReadable,
                 fdInterest, eventQueue, phase>>

(* Engine::handleTimerExpired queues the armed event, then                 *)
(* Timers::handleTimerExpired removes the first timer and arms the next.   *)
HandleTimerExpired ==
  /\ phase = "running"
  /\ epollReported
  /\ \E t \in timerEvent : eventQueue' = Append(eventQueue, t)
  /\ IF timesByDate = {}
     THEN /\ phase' = "trapped"     \* "Expired timer not found"
          /\ UNCHANGED tableVars
     ELSE \E t \in StartEvent(timesByDate) :
            /\ timesByDate' = DatesWithout(t)
            /\ timersByOwner' \in OwnedWithout(t)
            /\ CheckSizes(timesByDate', timersByOwner')
  /\ SetTrigger(timesByDate')
  /\ fdInterest' = (fdInterest \/ timesByDate' # {})
  /\ epollReported' = FALSE
  /\ UNCHANGED <<now, alive>>

(* A worker pops the event and runs it; that the callback is skipped when  *)
(* the owner is dead changes nothing here.                                 *)
RunEvent ==
  /\ phase = "running"
  /\ eventQueue # <<>>
  /\ eventQueue' = Tail(eventQueue)
  /\ UNCHANGED <<now, alive, tableVars, timerEvent, kernelVars, phase>>

(* The end of Engine::doInit: everything is dropped. *)
Clear ==
  /\ phase = "running"
  /\ phase' = "stopped"
  /\ timerEvent' = {}
  /\ eventQueue' = <<>>
  /\ timesByDate' = {}
  /\ timersByOwner' = {}
  /\ UNCHANGED <<now, alive, kernelVars>>

-----------------------------------------------------------------------------

EpollThread == HandleTimerCancelled \/ HandleTimerExpired

Next ==
  \/ \E t \in Timer : SetTimer(t) \/ CancelTimer(t)
  \/ \E r \in Runnable : CancelAllTimers(r) \/ Destroy(r)
  \/ Tick \/ FdExpire \/ EpollReport
  \/ HandleTimerCancelled \/ HandleTimerExpired
  \/ RunEvent
  \/ Clear

Spec == Init /\ [][Next]_vars

(* The clock advances, the kernel delivers and the epoll thread runs. *)
FairSpec ==
  /\ Spec
  /\ WF_vars(Tick) /\ WF_vars(FdExpire) /\ WF_vars(EpollReport)
  /\ WF_vars(EpollThread)

-----------------------------------------------------------------------------

(* Every variable has its type; the tables stay finite.                    *)
TypeOK ==
  /\ now \in Nat
  /\ alive \subseteq Runnable
  /\ timesByDate \subseteq Entry
  /\ timersByOwner \subseteq Entry
  /\ IsFiniteSet(timesByDate)
  /\ IsFiniteSet(timersByOwner)
  /\ timerEvent \subseteq Timer
  /\ fdExpiry \in Nat
  /\ fdReadable \in BOOLEAN
  /\ fdInterest \in BOOLEAN
  /\ epollReported \in BOOLEAN
  /\ eventQueue \in Seq(Timer)
  /\ phase \in {"running", "trapped", "stopped"}

(* While the process lives, the two containers hold the same timers with   *)
(* the same dates, a timer is in them once, and no two share a date: what  *)
(* removeTimer and cancelAllTimers, which erase by date, rely on.          *)
TablesAgree ==
  phase = "running" =>
    /\ timesByDate = timersByOwner
    /\ \A e, f \in timesByDate : e.id = f.id \/ e.tp = f.tp => e = f

(* The event the engine will queue at the next expiry is that of the timer *)
(* Timers::handleTimerExpired then removes: the first one (engine.cpp:182  *)
(* and timers.cpp:15), whatever was set and cancelled in between.          *)
ArmedIsEarliest ==
  phase = "running" => timerEvent = StartEvent(timesByDate)

(* No wake-up is lost: with a timer armed, the epoll thread either holds a *)
(* report of the timerfd or will get one, the registration being enabled   *)
(* and the timerfd readable or counting down.                              *)
NoLostExpiry ==
  phase = "running" /\ timerEvent # {} =>
    \/ epollReported
    \/ fdInterest /\ (fdReadable \/ fdExpiry # 0)

(* Nothing is waited for longer than the caller asked: no date is further  *)
(* away than its timer's timeout, and the timerfd never counts down past   *)
(* the first date, so skipping setTrigger when the first timer is the same *)
(* (timers.cpp:71, 91, 110) makes no timer late.                           *)
NeverLate ==
  phase = "running" =>
    /\ \A e \in timesByDate : e.tp <= now + Timeout[e.id]
    /\ timerEvent # {} /\ ~epollReported /\ ~fdReadable =>
         \E e \in Earliest(timesByDate) : fdExpiry <= Later(e.tp, now + 1)

(* A timer past its date is fired, set again or cancelled in the end.      *)
Overdue(t) ==
  /\ phase = "running"
  /\ \E o \in timersByOwner : o.id = t /\ o.tp <= now

OverdueFires == \A t \in Timer : Overdue(t) ~> ~Overdue(t)

(* What the assertions of timers.cpp say: the containers never differ in   *)
(* size and an expired timer is always found.                              *)
NeverTrapped == phase # "trapped"

(* A timer's event is queued only once its date has passed: inactivity is  *)
(* inactivityTimeout without traffic, counted from the last setTimer.      *)
NeverEarly ==
  [][\A t \in timerEvent :
       Len(eventQueue') > Len(eventQueue) =>
         \E o \in timersByOwner : o.id = t /\ o.tp <= now]_vars

(* Timers and the engine's timerfd implement one-shot timers.              *)
Service ==
  INSTANCE TimerService
    WITH pending <- {o.id : o \in timersByOwner}, queue <- eventQueue

ImplementsService == Service!Spec
=============================================================================
