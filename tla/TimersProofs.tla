---------------------------- MODULE TimersProofs ----------------------------
(***************************************************************************)
(* Proofs about Timers, for any owners, timers and timeouts.               *)
(*                                                                         *)
(* The inductive invariant IInv joins the four safety invariants: the      *)
(* tables have to agree for removeTimer and cancelAllTimers to be what     *)
(* they look like (WithoutIsById, CancelAllIsByOwner), and the timerfd     *)
(* invariants speak of the first entry of a table that agrees.             *)
(***************************************************************************)
EXTENDS Timers, TLAPS, FiniteSetTheorems

IInv ==
  /\ TypeOK
  /\ TablesAgree
  /\ ArmedIsEarliest
  /\ NoLostExpiry
  /\ NeverLate

(* A table without the entries of one timer. *)
Without(table, t) == {e \in table : e.id # t}

-----------------------------------------------------------------------------

(* Timers::removeTimer takes the timer's entries and only them out of both *)
(* containers (timers.cpp:21).                                             *)
LEMMA WithoutIsById ==
  ASSUME TablesAgree, phase = "running", NEW t \in Timer
  PROVE  /\ DatesWithout(t) = Without(timesByDate, t)
         /\ OwnedWithout(t) = {Without(timersByOwner, t)}
<1>1. DatesWithout(t) = Without(timesByDate, t)
  BY DEF DatesWithout, Without, TablesAgree
<1>2. OwnedWithout(t) = {Without(timersByOwner, t)}
  <2>1. CASE \A o \in timersByOwner : o.id # t
    <3>1. {o \in timersByOwner : o.id = t} = {}
      BY <2>1
    <3>2. Without(timersByOwner, t) = timersByOwner
      BY <2>1 DEF Without
    <3> QED BY <3>1, <3>2 DEF OwnedWithout
  <2>2. CASE \E o \in timersByOwner : o.id = t
    <3>1. PICK p \in timersByOwner : p.id = t
      BY <2>2
    <3>2. {o \in timersByOwner : o.id = t} = {p}
      BY <3>1 DEF TablesAgree
    <3>3. Without(timersByOwner, t) = timersByOwner \ {p}
      BY <3>2 DEF Without
    <3> QED BY <3>2, <3>3 DEF OwnedWithout
  <2> QED BY <2>1, <2>2
<1> QED BY <1>1, <1>2

(* Timers::cancelAllTimers, which erases by date, takes exactly the        *)
(* owner's entries (timers.cpp:104).                                       *)
LEMMA CancelAllIsByOwner ==
  ASSUME TablesAgree, phase = "running", NEW r \in Runnable
  PROVE  LET mine == {o \in timersByOwner : Owner[o.id] = r}
         IN  {e \in timesByDate : \A o \in mine : o.tp # e.tp} = timersByOwner \ mine
BY DEF TablesAgree

(* The entry armed is the only first one. *)
LEMMA EarliestIsUnique ==
  ASSUME TypeOK, TablesAgree, phase = "running",
         NEW e \in Earliest(timesByDate), NEW f \in Earliest(timesByDate)
  PROVE  e = f
BY DEF TypeOK, TablesAgree, Earliest, Entry

-----------------------------------------------------------------------------

(* What a change of the tables must preserve, whoever makes it: sets of    *)
(* entries with one date per timer and one timer per date.                 *)
LEMMA SubsetAgrees ==
  ASSUME TypeOK, TablesAgree, phase = "running",
         NEW table, table \subseteq timesByDate,
         timesByDate' = table, timersByOwner' = table,
         phase' \in {"running", "trapped"}
  PROVE  /\ TablesAgree'
         /\ timesByDate' \subseteq Entry /\ IsFiniteSet(timesByDate')
         /\ timersByOwner' \subseteq Entry /\ IsFiniteSet(timersByOwner')
<1>1. IsFiniteSet(table)
  BY FS_Subset DEF TypeOK
<1> QED BY <1>1 DEF TablesAgree, TypeOK

(* Timers::setTimer: when no assertion fails the new date was free, and    *)
(* the tables agree (timers.cpp:88-90).                                    *)
LEMMA SetTimerAgrees ==
  ASSUME TypeOK, TimersAssumption, TablesAgree, phase = "running",
         NEW t \in Timer, SetTimer(t)
  PROVE  LET new == [tp |-> now + Timeout[t], id |-> t]
         IN  /\ TablesAgree'
             /\ timesByDate' \subseteq Entry /\ IsFiniteSet(timesByDate')
             /\ timersByOwner' = Without(timersByOwner, t) \cup {new}
             /\ timersByOwner' \subseteq Entry /\ IsFiniteSet(timersByOwner')
<1> DEFINE new == [tp |-> now + Timeout[t], id |-> t]
           dates == Without(timesByDate, t)
<1>1. new \in Entry /\ new.id = t /\ new.tp = now + Timeout[t]
  BY DEF TypeOK, TimersAssumption, Entry
<1>2. dates \subseteq timesByDate /\ dates \subseteq Entry /\ new \notin dates
  BY DEF Without, TypeOK
<1>3. IsFiniteSet(dates)
  BY <1>2, FS_Subset DEF TypeOK
<1>4. Without(timersByOwner, t) = dates
  BY DEF TablesAgree, Without
<1>5. timesByDate' = Emplace(dates, new) /\ timersByOwner' = dates \cup {new}
      /\ CheckSizes(timesByDate', timersByOwner')
  BY <1>4, WithoutIsById DEF SetTimer
<1>6. /\ IsFiniteSet(dates \cup {new})
      /\ Cardinality(dates \cup {new}) = Cardinality(dates) + 1
      /\ Cardinality(dates) \in Nat
  BY <1>2, <1>3, FS_AddElement, FS_CardinalityType
<1>7. CASE \E f \in dates : f.tp = new.tp
  <2>1. timesByDate' = dates
    BY <1>5, <1>7 DEF Emplace
  <2>2. phase' = "trapped"
    <3>1. phase' = IF Cardinality(dates) = Cardinality(dates \cup {new})
                   THEN "running" ELSE "trapped"
      BY <2>1, <1>5 DEF CheckSizes
    <3>2. Cardinality(dates) # Cardinality(dates \cup {new})
      BY <1>6
    <3> QED BY <3>1, <3>2
  <2> QED BY <2>1, <2>2, <1>1, <1>2, <1>3, <1>4, <1>5, <1>6 DEF TablesAgree
<1>8. CASE \A f \in dates : f.tp # new.tp
  <2>1. timesByDate' = dates \cup {new}
    BY <1>5, <1>8 DEF Emplace
  <2>2. \A e, f \in dates \cup {new} : e.id = f.id \/ e.tp = f.tp => e = f
    BY <1>1, <1>2, <1>8 DEF TablesAgree, Without
  <2> QED BY <2>1, <2>2, <1>1, <1>2, <1>4, <1>5, <1>6 DEF TablesAgree
<1> QED BY <1>7, <1>8

-----------------------------------------------------------------------------

(* What the kernel's side of the invariant says after a step. *)
TriggerOK ==
  /\ timerEvent \subseteq Timer
  /\ fdExpiry \in Nat
  /\ fdReadable \in BOOLEAN
  /\ fdInterest \in BOOLEAN
  /\ epollReported \in BOOLEAN
  /\ ArmedIsEarliest
  /\ NoLostExpiry
  /\ phase = "running" /\ timerEvent # {} /\ ~epollReported /\ ~fdReadable =>
       \E e \in Earliest(timesByDate) : fdExpiry <= Later(e.tp, now + 1)

(* Timers::setTrigger arms the first timer of the new table, and the       *)
(* max with NanoSecs{1} keeps it from disarming the timerfd instead.       *)
LEMMA SetTriggerArms ==
  ASSUME TypeOK, now' = now, timesByDate' \subseteq Entry,
         SetTrigger(timesByDate'),
         fdInterest' \in BOOLEAN, epollReported' \in BOOLEAN,
         timesByDate' = {} \/ fdInterest' \/ epollReported'
  PROVE  TriggerOK'
<1>1. timerEvent' = StartEvent(timesByDate') /\ timerEvent' \subseteq Timer
  BY DEF SetTrigger, StartEvent, Earliest, Entry
<1>2. timerEvent' # {} => timesByDate' # {}
  BY <1>1 DEF StartEvent, Earliest
<1>3. timesByDate' # {} =>
        \E e \in Earliest(timesByDate') :
          /\ fdExpiry' = Later(e.tp, now + 1)
          /\ e.tp \in Nat
  BY DEF SetTrigger, Earliest, Entry
<1>4. fdExpiry' \in Nat /\ (timesByDate' # {} => fdExpiry' # 0)
  BY <1>3 DEF SetTrigger, Later, TypeOK
<1>5. ArmedIsEarliest'
  BY <1>1 DEF ArmedIsEarliest
<1>6. NoLostExpiry'
  BY <1>2, <1>4 DEF NoLostExpiry
<1>7. timerEvent' # {} =>
        \E e \in Earliest(timesByDate') : fdExpiry' <= Later(e.tp, now' + 1)
  BY <1>2, <1>3, <1>4
<1>8. fdReadable' \in BOOLEAN
  BY DEF SetTrigger
<1> QED BY <1>1, <1>4, <1>5, <1>6, <1>7, <1>8 DEF TriggerOK

(* Comparing the first timers is enough: if the first timer is the same,   *)
(* its date has not come nearer, and the timerfd need not be touched.      *)
LEMMA TriggerIfChangedArms ==
  ASSUME IInv, phase = "running", now' = now, timesByDate' \subseteq Entry,
         TriggerIfChanged(timesByDate'),
         \A e \in timesByDate', f \in timesByDate : e.id = f.id => f.tp <= e.tp
  PROVE  TriggerOK'
<1>1. CASE StartEvent(timesByDate') # StartEvent(timesByDate)
  <2>1. SetTriggerOnWorker(timesByDate')
    BY <1>1 DEF TriggerIfChanged
  <2>2. SetTrigger(timesByDate')
    BY <2>1 DEF SetTriggerOnWorker
  <2>3. /\ fdInterest' \in BOOLEAN /\ epollReported' \in BOOLEAN
        /\ timesByDate' = {} \/ fdInterest' \/ epollReported'
    BY <2>1 DEF SetTriggerOnWorker, IInv, TypeOK
  <2> QED BY <2>2, <2>3, SetTriggerArms DEF IInv
<1>2. CASE StartEvent(timesByDate') = StartEvent(timesByDate)
  <2>1. UNCHANGED <<timerEvent, fdExpiry, fdReadable, fdInterest, epollReported>>
    BY <1>2 DEF TriggerIfChanged, kernelVars
  <2>2. timerEvent = StartEvent(timesByDate')
    BY <1>2 DEF IInv, ArmedIsEarliest
  <2>3. ASSUME timerEvent # {}, ~epollReported, ~fdReadable
        PROVE  \E e \in Earliest(timesByDate') : fdExpiry <= Later(e.tp, now + 1)
    <3>1. PICK f \in Earliest(timesByDate) : fdExpiry <= Later(f.tp, now + 1)
      BY <2>3 DEF IInv, NeverLate
    <3>2. f.id \in StartEvent(timesByDate')
      BY <1>2 DEF StartEvent
    <3>3. PICK e \in Earliest(timesByDate') : e.id = f.id
      BY <3>2 DEF StartEvent
    <3>4. f.tp <= e.tp /\ f.tp \in Nat /\ e.tp \in Nat
      BY <3>3 DEF Earliest, IInv, TypeOK, Entry
    <3>5. fdExpiry <= Later(e.tp, now + 1)
      BY <3>1, <3>4 DEF Later, IInv, TypeOK
    <3> QED BY <3>5
  <2>4. ArmedIsEarliest'
    BY <2>1, <2>2 DEF ArmedIsEarliest
  <2>5. NoLostExpiry'
    BY <2>1 DEF IInv, NoLostExpiry
  <2>6. (phase = "running" /\ timerEvent # {} /\ ~epollReported /\ ~fdReadable =>
          \E e \in Earliest(timesByDate) : fdExpiry <= Later(e.tp, now + 1))'
    BY <2>1, <2>3
  <2> QED BY <2>1, <2>4, <2>5, <2>6 DEF TriggerOK, IInv, TypeOK
<1> QED BY <1>1, <1>2

(* The parts of the invariant put together again. *)
LEMMA Assemble ==
  ASSUME TriggerOK', TablesAgree',
         now' \in Nat, alive' \subseteq Runnable, eventQueue' \in Seq(Timer),
         timesByDate' \subseteq Entry, IsFiniteSet(timesByDate'),
         timersByOwner' \subseteq Entry, IsFiniteSet(timersByOwner'),
         phase' \in {"running", "trapped"},
         phase' = "running" => \A e \in timesByDate' : e.tp <= now' + Timeout[e.id]
  PROVE  IInv'
BY DEF IInv, TypeOK, TriggerOK, NeverLate

-----------------------------------------------------------------------------

LEMMA InitInv == Init => IInv
<1> SUFFICES ASSUME Init PROVE IInv
  OBVIOUS
<1>1. StartEvent(timesByDate) = {}
  BY DEF Init, StartEvent, Earliest
<1>2. TypeOK
  <2>1. eventQueue \in Seq(Timer)
    BY DEF Init
  <2>2. IsFiniteSet({})
    BY FS_EmptySet
  <2> QED BY <2>1, <2>2 DEF Init, TypeOK
<1>3. TablesAgree /\ ArmedIsEarliest /\ NoLostExpiry /\ NeverLate
  BY <1>1 DEF Init, TablesAgree, ArmedIsEarliest, NoLostExpiry, NeverLate
<1> QED BY <1>2, <1>3 DEF IInv

(* Engine::doSetTimer *)
LEMMA SetTimerInv ==
  ASSUME TimersAssumption, IInv, NEW t \in Timer, SetTimer(t)
  PROVE  IInv'
<1> DEFINE new == [tp |-> now + Timeout[t], id |-> t]
<1>1. /\ TypeOK /\ TablesAgree /\ phase = "running"
      /\ now' = now /\ alive' = alive /\ eventQueue' = eventQueue
      /\ phase' \in {"running", "trapped"}
  BY DEF IInv, SetTimer, CheckSizes
<1>2. /\ TablesAgree'
      /\ timesByDate' \subseteq Entry /\ IsFiniteSet(timesByDate')
      /\ timersByOwner' \subseteq Entry /\ IsFiniteSet(timersByOwner')
  BY <1>1, SetTimerAgrees
<1>3. \A e \in timesByDate' : e = new \/ e \in Without(timesByDate, t)
  BY <1>1, WithoutIsById DEF SetTimer, Emplace
<1>4. now \in Nat /\ Timeout[t] \in Nat /\ now + Timeout[t] \in Nat
  BY <1>1 DEF TypeOK, TimersAssumption
<1>5. \A e \in timesByDate' : e.tp <= now' + Timeout[e.id]
  BY <1>1, <1>3, <1>4 DEF IInv, NeverLate, Without
<1>6. \A e \in timesByDate', f \in timesByDate : e.id = f.id => f.tp <= e.tp
  <2> SUFFICES ASSUME NEW e \in timesByDate', NEW f \in timesByDate, e.id = f.id
               PROVE  f.tp <= e.tp
    OBVIOUS
  <2>0. f.tp \in Nat
    BY <1>1 DEF TypeOK, Entry
  <2>1. CASE e = new
    BY <2>1, <1>1, <1>4 DEF IInv, NeverLate
  <2>2. CASE e \in Without(timesByDate, t)
    <3>1. e = f
      BY <2>2, <1>1 DEF Without, TablesAgree
    <3> QED BY <3>1, <2>0
  <2> QED BY <2>1, <2>2, <1>3
<1>7. TriggerOK'
  BY <1>1, <1>2, <1>6, TriggerIfChangedArms DEF SetTimer
<1> QED BY <1>1, <1>2, <1>5, <1>7, Assemble DEF TypeOK

(* Taking timers out of tables that agree, and arming the first one left,  *)
(* preserves the invariant: cancelTimer, cancelAllTimers, an expiry.       *)
LEMMA ShrinkInv ==
  ASSUME IInv, phase = "running",
         NEW table, table \subseteq timesByDate,
         timesByDate' = table, timersByOwner' = table,
         now' = now, alive' \subseteq Runnable, eventQueue' \in Seq(Timer),
         phase' \in {"running", "trapped"},
         TriggerIfChanged(timesByDate') \/ TriggerOK'
  PROVE  IInv'
<1>1. /\ TablesAgree'
      /\ timesByDate' \subseteq Entry /\ IsFiniteSet(timesByDate')
      /\ timersByOwner' \subseteq Entry /\ IsFiniteSet(timersByOwner')
  BY SubsetAgrees DEF IInv
<1>2. \A e \in timesByDate', f \in timesByDate : e.id = f.id => f.tp <= e.tp
  BY DEF IInv, TablesAgree, TypeOK, Entry
<1>3. TriggerOK'
  BY <1>1, <1>2, TriggerIfChangedArms
<1>4. \A e \in timesByDate' : e.tp <= now' + Timeout[e.id]
  BY DEF IInv, NeverLate
<1> QED BY <1>1, <1>3, <1>4, Assemble DEF IInv, TypeOK

(* Engine::doCancelTimer *)
LEMMA CancelTimerInv ==
  ASSUME IInv, NEW t \in Timer, CancelTimer(t)
  PROVE  IInv'
<1>1. /\ timesByDate' = Without(timesByDate, t)
      /\ timersByOwner' = Without(timesByDate, t)
  BY WithoutIsById DEF CancelTimer, IInv, TablesAgree
<1>2. Without(timesByDate, t) \subseteq timesByDate
  BY DEF Without
<1> QED BY <1>1, <1>2, ShrinkInv DEF CancelTimer, CheckSizes, IInv, TypeOK

(* Engine::doRemove *)
LEMMA CancelAllTimersInv ==
  ASSUME IInv, NEW r \in Runnable, CancelAllTimers(r)
  PROVE  IInv'
<1> DEFINE mine == {o \in timersByOwner : Owner[o.id] = r}
<1>1. phase = "running" /\ TablesAgree
  BY DEF CancelAllTimers, IInv
<1>2. /\ timesByDate' = timersByOwner \ mine
      /\ timersByOwner' = timersByOwner \ mine
  BY <1>1, CancelAllIsByOwner DEF CancelAllTimers
<1>3. timersByOwner \ mine \subseteq timesByDate
  BY <1>1 DEF TablesAgree
<1>4. /\ now' = now /\ alive' = alive /\ eventQueue' = eventQueue
      /\ phase' \in {"running", "trapped"}
      /\ TriggerIfChanged(timesByDate')
  BY DEF CancelAllTimers, CheckSizes
<1> QED BY <1>1, <1>2, <1>3, <1>4, ShrinkInv DEF IInv, TypeOK

(* Engine::handleTimerExpired, with the event of the timer it removes.     *)
LEMMA ExpiredIsArmed ==
  ASSUME IInv, HandleTimerExpired
  PROVE  \E t \in Timer :
           /\ timerEvent = {t}
           /\ t \in StartEvent(timesByDate)
           /\ eventQueue' = Append(eventQueue, t)
           /\ timesByDate' = Without(timesByDate, t)
           /\ timersByOwner' = Without(timesByDate, t)
           /\ phase' \in {"running", "trapped"}
<1>1. phase = "running" /\ TypeOK /\ TablesAgree
  BY DEF HandleTimerExpired, IInv
<1>2. PICK t \in timerEvent : eventQueue' = Append(eventQueue, t)
  BY DEF HandleTimerExpired
<1>3. t \in StartEvent(timesByDate) /\ t \in Timer
  BY <1>1, <1>2 DEF IInv, ArmedIsEarliest, TypeOK
<1>4. \A s \in StartEvent(timesByDate) : s = t
  BY <1>1, <1>3, EarliestIsUnique DEF StartEvent
<1>5. timerEvent = {t}
  BY <1>1, <1>3, <1>4 DEF IInv, ArmedIsEarliest
<1>6. timesByDate # {}
  BY <1>3 DEF StartEvent, Earliest
<1>7. /\ timesByDate' = DatesWithout(t) /\ timersByOwner' \in OwnedWithout(t)
      /\ phase' \in {"running", "trapped"}
  BY <1>4, <1>6 DEF HandleTimerExpired, CheckSizes
<1>8. /\ timesByDate' = Without(timesByDate, t)
      /\ timersByOwner' = Without(timesByDate, t)
  BY <1>1, <1>3, <1>7, WithoutIsById DEF TablesAgree
<1> QED BY <1>2, <1>3, <1>5, <1>7, <1>8

LEMMA HandleTimerExpiredInv ==
  ASSUME IInv, HandleTimerExpired
  PROVE  IInv'
<1>1. PICK t \in Timer :
           /\ timerEvent = {t}
           /\ t \in StartEvent(timesByDate)
           /\ eventQueue' = Append(eventQueue, t)
           /\ timesByDate' = Without(timesByDate, t)
           /\ timersByOwner' = Without(timesByDate, t)
           /\ phase' \in {"running", "trapped"}
  BY ExpiredIsArmed
<1>2. Without(timesByDate, t) \subseteq timesByDate
  BY DEF Without
<1>3. timesByDate' \subseteq Entry
  BY <1>1, <1>2 DEF IInv, TypeOK
<1>4. /\ SetTrigger(timesByDate')
      /\ fdInterest' \in BOOLEAN /\ epollReported' \in BOOLEAN
      /\ timesByDate' = {} \/ fdInterest' \/ epollReported'
      /\ now' = now /\ alive' = alive
  BY DEF HandleTimerExpired, IInv, TypeOK
<1>5. TriggerOK'
  BY <1>3, <1>4, SetTriggerArms DEF IInv
<1>6. phase = "running" /\ alive' \subseteq Runnable /\ eventQueue' \in Seq(Timer)
  BY <1>1, <1>4 DEF HandleTimerExpired, IInv, TypeOK
<1> QED BY <1>1, <1>2, <1>4, <1>5, <1>6, ShrinkInv

(* The steps that leave the tables alone. *)
LEMMA OtherInv ==
  ASSUME IInv,
         \/ \E r \in Runnable : Destroy(r)
         \/ Tick \/ FdExpire \/ EpollReport \/ HandleTimerCancelled
         \/ RunEvent
         \/ UNCHANGED vars
  PROVE  IInv'
<1>1. CASE \E r \in Runnable : Destroy(r)
  BY <1>1 DEF Destroy, tableVars, kernelVars, IInv, TypeOK, TablesAgree,
     ArmedIsEarliest, NoLostExpiry, NeverLate
<1>2. CASE Tick
  <2>1. /\ now \in Nat /\ now' = now + 1 /\ phase = "running"
        /\ UNCHANGED <<timesByDate, timersByOwner, timerEvent, fdExpiry,
                       fdReadable, fdInterest, epollReported>>
    BY <1>2 DEF Tick, tableVars, kernelVars, IInv, TypeOK
  <2>2. TypeOK' /\ TablesAgree' /\ ArmedIsEarliest' /\ NoLostExpiry'
    BY <1>2 DEF Tick, tableVars, kernelVars, IInv, TypeOK, TablesAgree,
       ArmedIsEarliest, NoLostExpiry
  <2>3. \A e \in timesByDate : e.tp \in Nat /\ Timeout[e.id] \in Nat
    BY TimersAssumption DEF IInv, TypeOK, Entry
  <2>4. \A e \in timesByDate : e.tp <= now' + Timeout[e.id]
    BY <2>1, <2>3 DEF IInv, NeverLate
  <2>5. \A e \in timesByDate :
          fdExpiry <= Later(e.tp, now + 1) => fdExpiry <= Later(e.tp, now' + 1)
    BY <2>1, <2>3 DEF Later, IInv, TypeOK
  <2>6. NeverLate'
    BY <2>1, <2>4, <2>5 DEF NeverLate, IInv, Earliest
  <2> QED BY <2>2, <2>6 DEF IInv
<1>3. CASE FdExpire
  BY <1>3 DEF FdExpire, tableVars, IInv, TypeOK, TablesAgree,
     ArmedIsEarliest, NoLostExpiry, NeverLate
<1>4. CASE EpollReport
  BY <1>4 DEF EpollReport, tableVars, IInv, TypeOK, TablesAgree,
     ArmedIsEarliest, NoLostExpiry, NeverLate
<1>5. CASE HandleTimerCancelled
  BY <1>5 DEF HandleTimerCancelled, tableVars, IInv, TypeOK, TablesAgree,
     ArmedIsEarliest, NoLostExpiry, NeverLate
<1>6. CASE RunEvent
  <2>1. eventQueue' \in Seq(Timer)
    BY <1>6 DEF RunEvent, IInv, TypeOK
  <2> QED BY <1>6, <2>1 DEF RunEvent, tableVars, kernelVars, IInv, TypeOK,
     TablesAgree, ArmedIsEarliest, NoLostExpiry, NeverLate
<1>7. CASE UNCHANGED vars
  BY <1>7 DEF vars, tableVars, kernelVars, IInv, TypeOK, TablesAgree,
     ArmedIsEarliest, NoLostExpiry, NeverLate
<1> QED BY <1>1, <1>2, <1>3, <1>4, <1>5, <1>6, <1>7

(* The end of Engine::doInit *)
LEMMA ClearInv ==
  ASSUME IInv, Clear
  PROVE  IInv'
BY FS_EmptySet DEF Clear, kernelVars, IInv, TypeOK, TablesAgree,
   ArmedIsEarliest, NoLostExpiry, NeverLate

LEMMA StepInv == IInv /\ [Next]_vars => IInv'
<1> SUFFICES ASSUME IInv, [Next]_vars PROVE IInv'
  OBVIOUS
<1>1. ASSUME NEW t \in Timer, SetTimer(t) PROVE IInv'
  BY <1>1, TimersAssumption, SetTimerInv
<1>2. ASSUME NEW t \in Timer, CancelTimer(t) PROVE IInv'
  BY <1>2, CancelTimerInv
<1>3. ASSUME NEW r \in Runnable, CancelAllTimers(r) PROVE IInv'
  BY <1>3, CancelAllTimersInv
<1>4. CASE HandleTimerExpired
  BY <1>4, HandleTimerExpiredInv
<1>5. CASE Clear
  BY <1>5, ClearInv
<1> QED BY <1>1, <1>2, <1>3, <1>4, <1>5, OtherInv DEF Next

-----------------------------------------------------------------------------

(* The invariant holds for any owners, timers and timeouts. *)
THEOREM InductiveInvariant == Spec => []IInv
BY InitInv, StepInv, PTL DEF Spec

(* Every variable keeps its type. *)
THEOREM TypeCorrect == Spec => []TypeOK
<1>1. IInv => TypeOK
  BY DEF IInv
<1> QED BY <1>1, InductiveInvariant, PTL

(* timesByDate and timersByOwner hold the same timers as long as the       *)
(* process lives (timers.cpp).                                             *)
THEOREM TablesAlwaysAgree == Spec => []TablesAgree
<1>1. IInv => TablesAgree
  BY DEF IInv
<1> QED BY <1>1, InductiveInvariant, PTL

(* The engine's armed event is the first timer's (engine.cpp:182).         *)
THEOREM ArmedIsAlwaysEarliest == Spec => []ArmedIsEarliest
<1>1. IInv => ArmedIsEarliest
  BY DEF IInv
<1> QED BY <1>1, InductiveInvariant, PTL

(* An armed timer's wake-up is never lost (engine.cpp:210).                *)
THEOREM ExpiryNeverLost == Spec => []NoLostExpiry
<1>1. IInv => NoLostExpiry
  BY DEF IInv
<1> QED BY <1>1, InductiveInvariant, PTL

(* The timerfd never counts down past the first date (timers.cpp:48).      *)
THEOREM NeverCountsPast == Spec => []NeverLate
<1>1. IInv => NeverLate
  BY DEF IInv
<1> QED BY <1>1, InductiveInvariant, PTL

-----------------------------------------------------------------------------

(* What the abstract service sees of the tables. *)
Pending == {o.id : o \in timersByOwner}

LEMMA PendingWithout ==
  ASSUME NEW t
  PROVE  {o.id : o \in Without(timersByOwner, t)} = Pending \ {t}
BY DEF Pending, Without

(* Every step of the timers is a step of the one-shot timer service, or    *)
(* leaves what the service sees unchanged.                                 *)
LEMMA StepRefines ==
  IInv /\ [Next]_vars => [Service!Next]_<<Pending, eventQueue>>
<1> SUFFICES ASSUME IInv, [Next]_vars
             PROVE  [Service!Next]_<<Pending, eventQueue>>
  OBVIOUS
<1>1. ASSUME NEW t \in Timer, SetTimer(t) PROVE Service!Next
  <2> DEFINE new == [tp |-> now + Timeout[t], id |-> t]
  <2>1. phase = "running" /\ TypeOK /\ TablesAgree
    BY <1>1 DEF SetTimer, IInv
  <2>2. timersByOwner' = Without(timersByOwner, t) \cup {new}
    BY <1>1, <2>1, SetTimerAgrees, TimersAssumption
  <2>3. Pending' = {o.id : o \in Without(timersByOwner, t)} \cup {t}
    <3> DEFINE rest == Without(timersByOwner, t)
    <3> HIDE DEF rest
    <3>1. new.id = t /\ timersByOwner' = rest \cup {new}
      BY <2>2 DEF rest
    <3> HIDE DEF new
    <3>2. Pending' = {o.id : o \in rest} \cup {t}
      BY <3>1 DEF Pending
    <3> QED BY <3>2 DEF rest
  <2>4. Pending' = Pending \cup {t}
    BY <2>3, PendingWithout
  <2>5. Service!Set(t)
    BY <1>1, <2>4 DEF SetTimer, Service!Set, Pending
  <2> QED BY <2>5 DEF Service!Next
<1>2. ASSUME NEW t \in Timer, CancelTimer(t) PROVE Service!Next
  <2>1. timersByOwner' = Without(timersByOwner, t)
    BY <1>2, WithoutIsById DEF CancelTimer, IInv
  <2>2. Pending' = Pending \ {t}
    BY <2>1, PendingWithout DEF Pending
  <2>3. Service!Cancel(t)
    BY <1>2, <2>2 DEF CancelTimer, Service!Cancel, Pending
  <2> QED BY <2>3 DEF Service!Next
<1>3. ASSUME NEW r \in Runnable, CancelAllTimers(r) PROVE Service!Next
  <2>1. timersByOwner' = timersByOwner \ {o \in timersByOwner : Owner[o.id] = r}
    BY <1>3 DEF CancelAllTimers
  <2>2. Pending' = {t \in Pending : Owner[t] # r}
    BY <2>1 DEF Pending
  <2>3. Service!CancelAll(r)
    BY <1>3, <2>2 DEF CancelAllTimers, Service!CancelAll, Pending
  <2> QED BY <2>3 DEF Service!Next
<1>4. CASE HandleTimerExpired
  <2>1. PICK t \in Timer :
           /\ t \in StartEvent(timesByDate)
           /\ eventQueue' = Append(eventQueue, t)
           /\ timersByOwner' = Without(timesByDate, t)
    BY <1>4, ExpiredIsArmed
  <2>2. timesByDate = timersByOwner
    BY <1>4 DEF HandleTimerExpired, IInv, TablesAgree
  <2>3. Pending' = Pending \ {t}
    BY <2>1, <2>2, PendingWithout DEF Pending
  <2>4. t \in Pending
    BY <2>1, <2>2 DEF Pending, StartEvent, Earliest
  <2>5. Service!Expire(t)
    BY <2>1, <2>3, <2>4 DEF Service!Expire, Pending
  <2> QED BY <2>5 DEF Service!Next
<1>5. CASE RunEvent
  <2>1. Service!Take
    BY <1>5 DEF RunEvent, tableVars, Service!Take
  <2> QED BY <2>1 DEF Service!Next
<1>6. CASE Clear
  <2>1. Service!Clear
    BY <1>6 DEF Clear, Service!Clear
  <2> QED BY <2>1 DEF Service!Next
<1>7. CASE \/ \E r \in Runnable : Destroy(r)
           \/ Tick \/ FdExpire \/ EpollReport \/ HandleTimerCancelled
           \/ UNCHANGED vars
  BY <1>7 DEF Destroy, Tick, FdExpire, EpollReport, HandleTimerCancelled,
     vars, tableVars, kernelVars, Pending
<1> QED BY <1>1, <1>2, <1>3, <1>4, <1>5, <1>6, <1>7 DEF Next

(* Timers and the engine's timerfd implement TimerService: a timer fires   *)
(* at most once for each time it is set, and never after it is cancelled.  *)
THEOREM Refinement == Spec => ImplementsService
<1>1. Init => Service!Init
  BY DEF Init, Service!Init
<1>2. IInv /\ [Next]_vars => [Service!Next]_(Service!vars)
  BY StepRefines DEF Pending, Service!vars
<1> QED BY <1>1, <1>2, InductiveInvariant, PTL
     DEF Spec, ImplementsService, Service!Spec
=============================================================================
