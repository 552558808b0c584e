-------------------------- MODULE LifecycleProofs --------------------------
(***************************************************************************)
(* Proofs about Lifecycle, for any sockets and workers.                    *)
(*                                                                         *)
(* activeCount and the permits are counted by the labels the workers are   *)
(* at: TypeOK alone does not say that either stays within its bounds, so   *)
(* IInv adds ActiveCounts and PermitsHaveEvents.  A step moves one worker  *)
(* (Moves), which changes each count by one at most (CountAfterMove).      *)
(***************************************************************************)
EXTENDS Lifecycle, TLAPS, FiniteSetTheorems

(* The workers f has at one of the labels, and how many they are.          *)
At(f, labels) == {w \in Worker : f[w] \in labels}
Count(f, labels) == Cardinality(At(f, labels))

(* Workers with a permit and no event yet; those that run an event; and    *)
(* those that have left the loop or are about to, which activeCount counts *)
(* for ever if an exception took them there.                               *)
Popping == {"pop"}
Busy == {"run", "arm", "passivate", "stop", "stopKill"}
Left == {"leave", "leaveKill", "exit", "exited"}

(* activeCount counts every worker that runs an event, and no other that   *)
(* is still in the loop.                                                   *)
ActiveCounts ==
  /\ Count(pc, Busy) <= active
  /\ active <= Count(pc, Busy \cup Left)

Owed == IF pc[Main] = "signal" THEN 1 ELSE 0

(* Until stopWorkers gives permits, each permit, each worker about to pop  *)
(* and the signal the epoll thread owes has an event of its own in         *)
(* eventQueue: no worker finds the queue empty.                            *)
PermitsHaveEvents ==
  pc[Main] \notin {"join", "clear", "done", "trapped"} =>
    sem + Count(pc, Popping) + Owed <= queue

(* newEvent has room for its event.                                        *)
RoomForReport == pc[Main] \in {"newEvent", "push"} => queue <= MaxQueue

IInv ==
  /\ TypeOK
  /\ ExitMeansStop
  /\ ActiveCounts
  /\ PermitsHaveEvents
  /\ RoomForReport

(* The epoll thread goes past stopWorkers when all flags are set, ...       *)
AllSet == pc[Main] \in {"clear", "done"} => \A w \in Worker : exited[w]

(* ... and one that was false says where its worker is.                    *)
SaysSo(w) == exited[w] => pc[w] = "exited"

(* stopWorkers waits for each worker whose exited is false at any time:    *)
(* only a worker whose flag was true from the start, uninitialised as it   *)
(* is (engine.hpp:87), can be deleted while it runs.                       *)
WaitsForEachWorker ==
  \A w \in Worker :
    [](~exited[w] => [](pc[Main] \in {"clear", "done"} => w \notin Running))

-----------------------------------------------------------------------------

(* Counting workers: how many there can be, and that one at a label counts. *)
LEMMA CountBounds ==
  ASSUME LifecycleAssumption, NEW f, NEW labels
  PROVE  /\ IsFiniteSet(At(f, labels))
         /\ Count(f, labels) \in Nat
         /\ Count(f, labels) <= Cardinality(Worker)
         /\ \A w \in Worker : f[w] \in labels => Count(f, labels) > 0
<1>1. IsFiniteSet(Worker) /\ At(f, labels) \in SUBSET Worker
  BY DEF LifecycleAssumption, At
<1>2. IsFiniteSet(At(f, labels)) /\ Cardinality(At(f, labels)) <= Cardinality(Worker)
  BY <1>1, FS_Subset
<1>3. Cardinality(At(f, labels)) \in Nat /\ Cardinality(Worker) \in Nat
  BY <1>1, <1>2, FS_CardinalityType
<1>4. Cardinality(At(f, labels)) = 0 <=> At(f, labels) = {}
  BY <1>2, FS_EmptySet
<1>5. \A w \in Worker : f[w] \in labels => At(f, labels) # {}
  BY DEF At
<1> QED BY <1>2, <1>3, <1>4, <1>5 DEF Count

(* At most one worker goes to another label.                               *)
Moves(w) == \A t \in Thread \ {w} : pc'[t] = pc[t]

(* Then there is one more worker at the labels, or one fewer, or as many   *)
(* as before.                                                              *)
LEMMA CountAfterMove ==
  ASSUME LifecycleAssumption, NEW w \in Worker, Moves(w), NEW labels
  PROVE  /\ pc[w] \in labels /\ pc'[w] \notin labels =>
              Count(pc', labels) = Count(pc, labels) - 1
         /\ pc[w] \notin labels /\ pc'[w] \in labels =>
              Count(pc', labels) = Count(pc, labels) + 1
         /\ (pc[w] \in labels <=> pc'[w] \in labels) =>
              Count(pc', labels) = Count(pc, labels)
<1>1. \A v \in Worker \ {w} : pc'[v] = pc[v]
  BY DEF Thread, Moves
<1>2. IsFiniteSet(At(pc, labels))
  BY CountBounds
<1>3. ASSUME pc[w] \in labels, pc'[w] \notin labels
      PROVE  Count(pc', labels) = Count(pc, labels) - 1
  <2>1. At(pc', labels) = At(pc, labels) \ {w} /\ w \in At(pc, labels)
    BY <1>1, <1>3 DEF At
  <2>2. Cardinality(At(pc, labels) \ {w}) = Cardinality(At(pc, labels)) - 1
    BY <1>2, <2>1, FS_RemoveElement
  <2> QED BY <2>1, <2>2 DEF Count
<1>4. ASSUME pc[w] \notin labels, pc'[w] \in labels
      PROVE  Count(pc', labels) = Count(pc, labels) + 1
  <2>1. At(pc', labels) = At(pc, labels) \cup {w} /\ w \notin At(pc, labels)
    BY <1>1, <1>4 DEF At
  <2>2. Cardinality(At(pc, labels) \cup {w}) = Cardinality(At(pc, labels)) + 1
    BY <1>2, <2>1, FS_AddElement
  <2> QED BY <2>1, <2>2 DEF Count
<1>5. ASSUME pc[w] \in labels <=> pc'[w] \in labels
      PROVE  Count(pc', labels) = Count(pc, labels)
  <2>1. At(pc', labels) = At(pc, labels)
    BY <1>1, <1>5 DEF At
  <2> QED BY <2>1 DEF Count
<1> QED BY <1>3, <1>4, <1>5

(* activeCount after a worker's step: unchanged unless the worker begins an *)
(* event or ends one, and kept by an event that leaves with an exception.  *)
ActiveStep(w) ==
  \/ /\ active' = active
     /\ pc'[w] \in Busy => pc[w] \in Busy
     /\ pc[w] \in Busy \cup Left => pc'[w] \in Busy \cup Left
  \/ active' = active + 1 /\ pc[w] \notin Busy \cup Left /\ pc'[w] \in Busy
  \/ active' = active - 1 /\ pc[w] \in Busy /\ pc'[w] \notin Busy

(* Such a step keeps activeCount between its bounds.                       *)
LEMMA ActiveAfterMove ==
  ASSUME LifecycleAssumption, TypeOK, ActiveCounts,
         NEW w \in Worker, Moves(w), ActiveStep(w)
  PROVE  ActiveCounts' /\ active' \in 0 .. Cardinality(Worker)
<1> DEFINE Counted == Busy \cup Left
<1>1. Cardinality(Worker) \in Nat
  BY FS_CardinalityType DEF LifecycleAssumption
<1>2. /\ Count(pc, Busy) \in Nat /\ Count(pc', Busy) \in Nat
      /\ Count(pc, Counted) \in Nat /\ Count(pc', Counted) \in Nat
      /\ Count(pc', Counted) <= Cardinality(Worker)
  BY CountBounds
<1>3. /\ pc[w] \in Busy /\ pc'[w] \notin Busy => Count(pc', Busy) = Count(pc, Busy) - 1
      /\ pc[w] \notin Busy /\ pc'[w] \in Busy => Count(pc', Busy) = Count(pc, Busy) + 1
      /\ (pc[w] \in Busy <=> pc'[w] \in Busy) => Count(pc', Busy) = Count(pc, Busy)
  BY CountAfterMove
<1>4. /\ pc[w] \in Counted /\ pc'[w] \notin Counted =>
           Count(pc', Counted) = Count(pc, Counted) - 1
      /\ pc[w] \notin Counted /\ pc'[w] \in Counted =>
           Count(pc', Counted) = Count(pc, Counted) + 1
      /\ (pc[w] \in Counted <=> pc'[w] \in Counted) =>
           Count(pc', Counted) = Count(pc, Counted)
  BY CountAfterMove
<1>5. active \in Nat /\ Count(pc, Busy) <= active /\ active <= Count(pc, Counted)
  BY <1>1 DEF TypeOK, ActiveCounts
<1>6. \A l : l \in Busy => l \in Counted
  OBVIOUS
<1>7. ActiveStep(w) <=>
      \/ /\ active' = active
         /\ pc'[w] \in Busy => pc[w] \in Busy
         /\ pc[w] \in Counted => pc'[w] \in Counted
      \/ active' = active + 1 /\ pc[w] \notin Counted /\ pc'[w] \in Busy
      \/ active' = active - 1 /\ pc[w] \in Busy /\ pc'[w] \notin Busy
  BY DEF ActiveStep
<1> HIDE DEF Counted
<1>8. Count(pc', Busy) <= active' /\ active' <= Count(pc', Counted)
  BY <1>2, <1>3, <1>4, <1>5, <1>6, <1>7
<1> QED BY <1>1, <1>2, <1>5, <1>7, <1>8 DEF ActiveCounts, Counted

(* The permits after a worker's step, before stopWorkers has begun: the    *)
(* worker takes a permit to pop an event, and gives one with an event.     *)
PermitStep(w) ==
  /\ queue' \in Nat /\ sem' \in Nat
  /\ \/ queue + sem' <= queue' + sem /\ (pc'[w] = "pop" => pc[w] = "pop")
     \/ queue' = queue /\ sem' = sem - 1 /\ pc[w] # "pop"
     \/ queue' = queue - 1 /\ sem' = sem /\ pc[w] = "pop" /\ pc'[w] # "pop"
     \/ queue = 0 /\ pc[w] = "pop"

(* Such a step takes no permit without an event.                           *)
LEMMA PermitsAfterMove ==
  ASSUME LifecycleAssumption, TypeOK, PermitsHaveEvents,
         NEW w \in Worker, Moves(w), PermitStep(w)
  PROVE  PermitsHaveEvents'
<1> SUFFICES ASSUME pc'[Main] \notin {"join", "clear", "done", "trapped"}
             PROVE  sem' + Count(pc', Popping) + Owed' <= queue'
  BY DEF PermitsHaveEvents
<1>1. pc'[Main] = pc[Main]
  BY DEF LifecycleAssumption, Moves, Thread
<1>2. /\ Count(pc, Popping) \in Nat
      /\ Count(pc', Popping) \in Nat
      /\ pc[w] \in Popping => Count(pc, Popping) > 0
  BY CountBounds
<1>3. /\ pc[w] \in Popping /\ pc'[w] \notin Popping =>
           Count(pc', Popping) = Count(pc, Popping) - 1
      /\ pc[w] \notin Popping /\ pc'[w] \in Popping =>
           Count(pc', Popping) = Count(pc, Popping) + 1
      /\ (pc[w] \in Popping <=> pc'[w] \in Popping) =>
           Count(pc', Popping) = Count(pc, Popping)
  BY CountAfterMove
<1>4. Owed' = Owed /\ Owed \in {0, 1}
  BY <1>1 DEF Owed
<1>5. sem + Count(pc, Popping) + Owed <= queue
  BY <1>1 DEF PermitsHaveEvents
<1>6. queue \in Nat /\ sem \in Nat
  BY DEF TypeOK, LifecycleAssumption
<1>7. \A l : l \in Popping <=> l = "pop"
  BY DEF Popping
<1>8. queue' \in Nat /\ sem' \in Nat
  BY DEF PermitStep
<1>9. CASE queue + sem' <= queue' + sem /\ (pc'[w] = "pop" => pc[w] = "pop")
  <2>1. Count(pc', Popping) <= Count(pc, Popping)
    BY <1>2, <1>3, <1>7, <1>9
  <2>2. \A q, r, s, t, c, d, o \in Nat :
           q + t <= r + s /\ s + c + o <= q /\ d <= c => t + d + o <= r
    OBVIOUS
  <2> QED BY <1>2, <1>4, <1>5, <1>6, <1>8, <1>9, <2>1, <2>2
<1>10. CASE queue' = queue /\ sem' = sem - 1 /\ pc[w] # "pop"
  BY <1>2, <1>3, <1>4, <1>5, <1>6, <1>7, <1>8, <1>10
<1>11. CASE queue' = queue - 1 /\ sem' = sem /\ pc[w] = "pop" /\ pc'[w] # "pop"
  BY <1>2, <1>3, <1>4, <1>5, <1>6, <1>7, <1>8, <1>11
<1>12. CASE queue = 0 /\ pc[w] = "pop"
  BY <1>2, <1>4, <1>5, <1>6, <1>7, <1>12
<1> QED BY <1>9, <1>10, <1>11, <1>12 DEF PermitStep

(* A step of the epoll thread moves no worker.                             *)
LEMMA CountsWithoutWorkers ==
  ASSUME LifecycleAssumption, TypeOK,
         UNCHANGED pc \/ \E label : Goto(Main, label)
  PROVE  \A labels : Count(pc', labels) = Count(pc, labels)
<1>1. \A v \in Worker : pc'[v] = pc[v]
  BY DEF TypeOK, Thread, Goto, LifecycleAssumption
<1>2. \A labels : At(pc', labels) = At(pc, labels)
  BY <1>1 DEF At
<1> QED BY <1>2 DEF Count

-----------------------------------------------------------------------------

(* What a worker's step does to activeCount and to the permits.            *)
LEMMA WorkerCounts ==
  ASSUME LifecycleAssumption, IInv, NEW w \in Worker, WorkerStep(w)
  PROVE  /\ ActiveCounts' /\ active' \in 0 .. Cardinality(Worker)
         /\ PermitsHaveEvents' /\ sem' \in 0 .. MaxSem
<1> SUFFICES Moves(w) /\ ActiveStep(w) /\ PermitStep(w) /\ sem' \in 0 .. MaxSem
  BY ActiveAfterMove, PermitsAfterMove DEF IInv
<1>0. w \in Thread /\ w # Main
  BY DEF Thread, LifecycleAssumption
<1> USE <1>0 DEF IInv, TypeOK, LifecycleAssumption, Goto, WorkerAt, Works, Saturated,
                 Moves, ActiveStep, PermitStep, Busy, Left, stopVars, queueVars
<1>1. CASE WorkerTest(w)
  BY <1>1 DEF WorkerTest
<1>2. CASE WorkerWait(w)
  BY <1>2 DEF WorkerWait
<1>3. CASE WorkerPop(w)
  BY <1>3 DEF WorkerPop
<1>4. CASE WorkerActivate(w)
  BY <1>4 DEF WorkerActivate
<1>5. CASE RunNothing(w)
  BY <1>5 DEF RunNothing
<1>6. CASE RunRegister(w)
  BY <1>6 DEF RunRegister
<1>7. CASE RunTimer(w)
  BY <1>7 DEF RunTimer
<1>8. CASE RunArm(w)
  BY <1>8 DEF RunArm
<1>9. CASE RunPost(w)
  BY <1>9 DEF RunPost
<1>10. CASE RunStop(w)
  BY <1>10 DEF RunStop
<1>11. CASE WorkerPassivate(w)
  BY <1>11 DEF WorkerPassivate
<1>12. CASE IdleHash(w)
  BY <1>12 DEF IdleHash
<1>13. CASE IdleTimer(w)
  BY <1>13 DEF IdleTimer
<1>14. CASE IdleCount(w)
  BY <1>14 DEF IdleCount
<1>15. CASE DoStopTest(w)
  BY <1>15 DEF DoStopTest, AfterStop
<1>16. CASE DoStopKill(w)
  BY <1>16 DEF DoStopKill, AfterStop
<1>17. CASE WorkerExit(w)
  BY <1>17 DEF WorkerExit
<1> QED
  BY <1>1, <1>2, <1>3, <1>4, <1>5, <1>6, <1>7, <1>8, <1>9,
     <1>10, <1>11, <1>12, <1>13, <1>14, <1>15, <1>16, <1>17
  DEF WorkerStep

(* The other steps of the epoll thread, and the signals.                   *)
OtherStep ==
  \/ UserStops \/ HandleSignal \/ EpollThrows \/ StopWorkersFails
  \/ SpawnEnd \/ EpollStep \/ StopStep

(* A new worker counts nowhere yet (engine.cpp:62).                        *)
LEMMA SpawnCounts ==
  ASSUME LifecycleAssumption, IInv, SpawnWorker
  PROVE  /\ ActiveCounts' /\ active' \in 0 .. Cardinality(Worker)
         /\ PermitsHaveEvents' /\ sem' \in 0 .. MaxSem
<1>1. PICK w \in Worker : pc[w] = "unborn" /\ Goto(w, "test")
  BY DEF SpawnWorker
<1>2. Moves(w) /\ pc'[w] = "test"
  BY <1>1 DEF Goto, Moves, IInv, TypeOK, Thread
<1>3. ActiveStep(w) /\ PermitStep(w) /\ sem' \in 0 .. MaxSem
  BY <1>1, <1>2 DEF SpawnWorker, IInv, TypeOK, LifecycleAssumption, ActiveStep,
                    PermitStep, Busy, Left, queueVars
<1> QED BY <1>2, <1>3, ActiveAfterMove, PermitsAfterMove DEF IInv

(* The epoll thread queues an event before it gives its permit.            *)
LEMMA OtherCounts ==
  ASSUME LifecycleAssumption, IInv, OtherStep
  PROVE  /\ ActiveCounts' /\ active' \in 0 .. Cardinality(Worker)
         /\ PermitsHaveEvents' /\ sem' \in 0 .. MaxSem
<1>1. /\ active' = active
      /\ UNCHANGED pc \/ \E label : Goto(Main, label)
  BY DEF OtherStep, EpollStep, StopStep, stopVars, queueVars, UserStops, HandleSignal,
         EpollThrows, StopWorkersFails, SpawnEnd, EpollTest, EpollSocket, EpollTimer,
         EpollReturned, NewEventLock, NewEventPush, EpollSignal, DestroyResolver,
         StopWorkers, StopWorkersEnd, Clear
<1>2. \A labels : Count(pc', labels) = Count(pc, labels)
  BY <1>1, CountsWithoutWorkers DEF IInv
<1>3. ActiveCounts' /\ active' \in 0 .. Cardinality(Worker)
  BY <1>1, <1>2 DEF IInv, TypeOK, ActiveCounts
<1>4. Count(pc, Popping) \in Nat
  BY CountBounds
<1>5. /\ sem' \in 0 .. MaxSem
      /\ pc'[Main] \notin {"join", "clear", "done", "trapped"} =>
           sem' + Count(pc, Popping) + Owed' <= queue'
  <2> USE <1>4 DEF IInv, TypeOK, LifecycleAssumption, Goto, MainAt, PermitsHaveEvents, Owed,
                 Thread, stopVars, queueVars, Saturated
  <2>1. CASE UserStops
    BY <2>1 DEF UserStops
  <2>2. CASE HandleSignal
    BY <2>2 DEF HandleSignal
  <2>3. CASE EpollThrows
    BY <2>3 DEF EpollThrows
  <2>4. CASE StopWorkersFails
    BY <2>4 DEF StopWorkersFails
  <2>5. CASE SpawnEnd
    BY <2>5 DEF SpawnEnd
  <2>6. CASE EpollTest
    BY <2>6 DEF EpollTest
  <2>7. CASE EpollSocket
    BY <2>7 DEF EpollSocket
  <2>8. CASE EpollTimer
    <3>1. CASE stopping
      BY <2>8, <3>1 DEF EpollTimer
    <3>2. CASE ~stopping
      <4>1. /\ sem' = sem /\ queue' = queue + 1 /\ Owed = 0 /\ Owed' = 1
            /\ sem + Count(pc, Popping) + 0 <= queue
        BY <2>8, <3>2 DEF EpollTimer
      <4> QED BY <4>1
    <3> QED BY <3>1, <3>2
  <2>9. CASE EpollReturned
    BY <2>9 DEF EpollReturned
  <2>10. CASE NewEventLock
    BY <2>10 DEF NewEventLock
  <2>11. CASE NewEventPush
    BY <2>11 DEF NewEventPush
  <2>12. CASE EpollSignal
    BY <2>12 DEF EpollSignal
  <2>13. CASE DestroyResolver
    BY <2>13 DEF DestroyResolver
  <2>14. CASE StopWorkers
    <3>1. Cardinality(Waiting) \in Nat
      BY FS_Subset, FS_CardinalityType DEF Waiting
    <3> QED BY <2>14, <3>1 DEF StopWorkers
  <2>15. CASE StopWorkersEnd
    BY <2>15 DEF StopWorkersEnd
  <2>16. CASE Clear
    BY <2>16 DEF Clear
  <2> QED
    BY <2>1, <2>2, <2>3, <2>4, <2>5, <2>6, <2>7, <2>8, <2>9,
       <2>10, <2>11, <2>12, <2>13, <2>14, <2>15, <2>16
    DEF OtherStep, EpollStep, StopStep
<1> QED BY <1>2, <1>3, <1>5 DEF PermitsHaveEvents

-----------------------------------------------------------------------------

(* The rest of the invariant: a worker leaves only when it has seen        *)
(* stopping, or has sent the signal.                                       *)
LEMMA WorkerKeeps ==
  ASSUME LifecycleAssumption, IInv, NEW w \in Worker, WorkerStep(w),
         active' \in 0 .. Cardinality(Worker), sem' \in 0 .. MaxSem
  PROVE  TypeOK' /\ ExitMeansStop' /\ RoomForReport'
<1> USE DEF IInv, TypeOK, LifecycleAssumption, Thread, ExitMeansStop, RoomForReport,
            Goto, WorkerAt, Works, stopVars, queueVars
<1>1. CASE WorkerTest(w)
  BY <1>1 DEF WorkerTest
<1>2. CASE WorkerWait(w)
  BY <1>2 DEF WorkerWait
<1>3. CASE WorkerPop(w)
  BY <1>3 DEF WorkerPop
<1>4. CASE WorkerActivate(w)
  BY <1>4 DEF WorkerActivate
<1>5. CASE RunNothing(w)
  BY <1>5 DEF RunNothing
<1>6. CASE RunRegister(w)
  BY <1>6 DEF RunRegister
<1>7. CASE RunTimer(w)
  <2>1. PICK to \in {"arm", "passivate"} : pc' = [pc EXCEPT ![w] = to]
    BY <1>7 DEF RunTimer
  <2>2. timer' \in BOOLEAN
    BY <1>7 DEF RunTimer
  <2>3. UNCHANGED <<stopVars, hash, hashLocked, report, queueVars, exited>>
    BY <1>7 DEF RunTimer
  <2>4. work' \in 0 .. MaxWork
    BY <1>7 DEF RunTimer
  <2> QED BY <1>7, <2>1, <2>2, <2>3, <2>4
<1>8. CASE RunArm(w)
  BY <1>8 DEF RunArm
<1>9. CASE RunPost(w)
  BY <1>9 DEF RunPost
<1>10. CASE RunStop(w)
  BY <1>10 DEF RunStop
<1>11. CASE WorkerPassivate(w)
  BY <1>11 DEF WorkerPassivate
<1>12. CASE IdleHash(w)
  BY <1>12 DEF IdleHash
<1>13. CASE IdleTimer(w)
  BY <1>13 DEF IdleTimer
<1>14. CASE IdleCount(w)
  BY <1>14 DEF IdleCount
<1>15. CASE DoStopTest(w)
  BY <1>15 DEF DoStopTest, AfterStop
<1>16. CASE DoStopKill(w)
  BY <1>16 DEF DoStopKill, AfterStop
<1>17. CASE WorkerExit(w)
  BY <1>17 DEF WorkerExit
<1> QED
  BY <1>1, <1>2, <1>3, <1>4, <1>5, <1>6, <1>7, <1>8, <1>9,
     <1>10, <1>11, <1>12, <1>13, <1>14, <1>15, <1>16, <1>17
  DEF WorkerStep

(* A signal that is handled has set stopping, or left its handler stuck.   *)
LEMMA OtherKeeps ==
  ASSUME LifecycleAssumption, IInv, SpawnWorker \/ OtherStep,
         active' \in 0 .. Cardinality(Worker), sem' \in 0 .. MaxSem
  PROVE  TypeOK' /\ ExitMeansStop' /\ RoomForReport'
<1> USE DEF IInv, TypeOK, LifecycleAssumption, Thread, ExitMeansStop, RoomForReport,
            Goto, MainAt, stopVars, queueVars
<1>1. CASE SpawnWorker
  BY <1>1 DEF SpawnWorker
<1>2. CASE UserStops
  BY <1>2 DEF UserStops
<1>3. CASE HandleSignal
  BY <1>3 DEF HandleSignal
<1>4. CASE EpollThrows
  BY <1>4 DEF EpollThrows
<1>5. CASE StopWorkersFails
  BY <1>5 DEF StopWorkersFails
<1>6. CASE SpawnEnd
  BY <1>6 DEF SpawnEnd
<1>7. CASE EpollTest
  BY <1>7 DEF EpollTest
<1>8. CASE EpollSocket
  BY <1>8 DEF EpollSocket
<1>9. CASE EpollTimer
  <2>1. CASE stopping
    BY <1>9, <2>1 DEF EpollTimer
  <2>2. CASE ~stopping
    BY <1>9, <2>2 DEF EpollTimer
  <2> QED BY <2>1, <2>2
<1>10. CASE EpollReturned
  BY <1>10 DEF EpollReturned
<1>11. CASE NewEventLock
  BY <1>11 DEF NewEventLock
<1>12. CASE NewEventPush
  <2>1. CASE report \in hash
    <3>1. hashLocked' \in BOOLEAN
      BY <1>12 DEF NewEventPush
    <3>2. queue' \in 0 .. MaxQueue + 1
      BY <1>12, <2>1 DEF NewEventPush
    <3> QED BY <1>12, <2>1, <3>1, <3>2 DEF NewEventPush
  <2>2. CASE report \notin hash
    BY <1>12, <2>2 DEF NewEventPush
  <2> QED BY <2>1, <2>2
<1>13. CASE EpollSignal
  BY <1>13 DEF EpollSignal
<1>14. CASE DestroyResolver
  BY <1>14 DEF DestroyResolver
<1>15. CASE StopWorkers
  BY <1>15 DEF StopWorkers
<1>16. CASE StopWorkersEnd
  BY <1>16 DEF StopWorkersEnd
<1>17. CASE Clear
  <2>1. timer' \in BOOLEAN
    BY <1>17 DEF Clear
  <2>2. ExitMeansStop' /\ RoomForReport'
    BY <1>17 DEF Clear
  <2> QED BY <1>17, <2>1, <2>2 DEF Clear
<1> QED
  BY <1>1, <1>2, <1>3, <1>4, <1>5, <1>6, <1>7, <1>8, <1>9,
     <1>10, <1>11, <1>12, <1>13, <1>14, <1>15, <1>16, <1>17
  DEF OtherStep, EpollStep, StopStep

-----------------------------------------------------------------------------

(* The engine starts in the invariant, ...                                 *)
LEMMA InitIInv ==
  ASSUME LifecycleAssumption, Init
  PROVE  IInv
<1>0. Cardinality(Worker) \in Nat
  BY FS_CardinalityType DEF LifecycleAssumption
<1>1. TypeOK
  <2>1. /\ {stopping, signals, stuck, hashLocked, timer} \subseteq BOOLEAN
        /\ exited \in [Worker -> BOOLEAN]
    BY DEF Init, LifecycleAssumption
  <2>2. queue = 0 /\ sem = 0 /\ active = 0 /\ work = 0
    BY DEF Init
  <2> QED BY <1>0, <2>1, <2>2 DEF Init, TypeOK, LifecycleAssumption, Thread
<1>2. \A w \in Worker : pc[w] = "unborn"
  BY DEF Init, Thread, LifecycleAssumption
<1>3. At(pc, Busy) = {} /\ At(pc, Busy \cup Left) = {} /\ At(pc, Popping) = {}
  BY <1>2 DEF At, Busy, Left, Popping
<1>4. Count(pc, Busy) = 0 /\ Count(pc, Busy \cup Left) = 0 /\ Count(pc, Popping) = 0
  BY <1>3, FS_EmptySet DEF Count
<1>5. pc[Main] = "spawn"
  BY DEF Init, Thread
<1>6. ActiveCounts /\ PermitsHaveEvents
  BY <1>4, <1>5 DEF Init, ActiveCounts, PermitsHaveEvents, Owed
<1> QED BY <1>1, <1>2, <1>5, <1>6 DEF IInv, ExitMeansStop, RoomForReport

(* ... and each step keeps it.                                             *)
LEMMA NextIInv ==
  ASSUME LifecycleAssumption, IInv, [Next]_vars
  PROVE  IInv'
<1>1. CASE \E w \in Worker : WorkerStep(w)
  BY <1>1, WorkerCounts, WorkerKeeps DEF IInv
<1>2. CASE SpawnWorker
  BY <1>2, SpawnCounts, OtherKeeps DEF IInv
<1>3. CASE OtherStep
  BY <1>3, OtherCounts, OtherKeeps DEF IInv
<1>4. CASE UNCHANGED vars
  BY <1>4 DEF vars, stopVars, queueVars, IInv, TypeOK, ExitMeansStop, ActiveCounts,
              PermitsHaveEvents, RoomForReport, Count, At, Owed
<1> QED BY <1>1, <1>2, <1>3, <1>4 DEF Next, MainStep, OtherStep

(* IInv is an invariant: what the theorems below follow from.              *)
LEMMA Invariance == Spec => []IInv
<1>1. Init => IInv
  BY InitIInv, LifecycleAssumption
<1>2. IInv /\ [Next]_vars => IInv'
  BY NextIInv, LifecycleAssumption
<1> QED BY <1>1, <1>2, PTL DEF Spec

(* Every reachable state is well typed: in particular a worker never takes *)
(* a permit that is not there, and activeCount never passes the number of  *)
(* workers nor goes below zero (engine.cpp:324-343).                       *)
THEOREM TypeCorrect == Spec => []TypeOK
<1>1. IInv => TypeOK
  BY DEF IInv
<1> QED BY <1>1, Invariance, PTL

(* No worker leaves the loop of Engine::worker unless the engine is        *)
(* stopping, or the signal that will stop it is on its way                 *)
(* (engine.cpp:339, 345, 348).                                             *)
THEOREM NoWorkerLostEarly == Spec => []ExitMeansStop
<1>1. IInv => ExitMeansStop
  BY DEF IInv
<1> QED BY <1>1, Invariance, PTL

(* Until stopWorkers gives permits of its own, the permits, the workers    *)
(* about to pop and the signal owed are no more than the events queued: a  *)
(* worker that finds eventQueue empty (engine.cpp:330) was woken to stop.  *)
THEOREM PermitsAreForEvents == Spec => []PermitsHaveEvents
<1>1. IInv => PermitsHaveEvents
  BY DEF IInv
<1> QED BY <1>1, Invariance, PTL

-----------------------------------------------------------------------------

(* Only me.exited = true sets the flag, as the worker's last step          *)
(* (engine.cpp:350), and Engine::doInit goes on when all are set.          *)
LEMMA NextExited ==
  ASSUME LifecycleAssumption, TypeOK, [Next]_vars
  PROVE  /\ AllSet => AllSet'
         /\ \A v \in Worker : SaysSo(v) => SaysSo(v)'
<1> USE DEF TypeOK, AllSet, SaysSo, LifecycleAssumption, Thread, Goto
<1>1. CASE \E w \in Worker : WorkerStep(w)
  <2>1. PICK w \in Worker : WorkerStep(w)
    BY <1>1
  <2>2. w # Main /\ pc'[Main] = pc[Main]
    BY <2>1 DEF WorkerStep, WorkerTest, WorkerWait, WorkerPop, WorkerActivate,
         RunNothing, RunRegister, RunTimer, RunArm, RunPost, RunStop, WorkerPassivate,
         IdleHash, IdleTimer, IdleCount, DoStopTest, DoStopKill, WorkerExit
  <2>3. CASE WorkerExit(w)
    BY <2>2, <2>3 DEF WorkerExit, WorkerAt
  <2>4. CASE ~WorkerExit(w)
    <3>1. pc[w] # "exited" /\ UNCHANGED exited
      BY <2>1, <2>4 DEF WorkerStep, WorkerTest, WorkerWait, WorkerPop, WorkerActivate,
           RunNothing, RunRegister, RunTimer, RunArm, RunPost, RunStop, WorkerPassivate,
           IdleHash, IdleTimer, IdleCount, DoStopTest, DoStopKill, Works, WorkerAt
    <3>2. \A v \in Worker \ {w} : pc'[v] = pc[v]
      BY <2>1, <2>4 DEF WorkerStep, WorkerTest, WorkerWait, WorkerPop, WorkerActivate,
           RunNothing, RunRegister, RunTimer, RunArm, RunPost, RunStop, WorkerPassivate,
           IdleHash, IdleTimer, IdleCount, DoStopTest, DoStopKill
    <3> QED BY <2>2, <3>1, <3>2
  <2> QED BY <2>3, <2>4
<1>2. CASE SpawnWorker
  BY <1>2 DEF SpawnWorker, MainAt
<1>3. CASE StopWorkersEnd
  BY <1>3 DEF StopWorkersEnd, Joined, MainAt
<1>4. CASE Clear
  BY <1>4 DEF Clear, MainAt
<1>5. CASE OtherStep /\ ~StopWorkersEnd /\ ~Clear
  <2>1. UNCHANGED exited /\ \A v \in Worker : pc'[v] = pc[v]
    BY <1>5 DEF OtherStep, EpollStep, StopStep, UserStops, HandleSignal, EpollThrows,
         StopWorkersFails, SpawnEnd, EpollTest, EpollSocket, EpollTimer, EpollReturned,
         NewEventLock, NewEventPush, EpollSignal, DestroyResolver, StopWorkers
  <2>2. pc'[Main] \in {"clear", "done"} => pc[Main] \in {"clear", "done"}
    BY <1>5 DEF OtherStep, EpollStep, StopStep, UserStops, HandleSignal, EpollThrows,
         StopWorkersFails, SpawnEnd, EpollTest, EpollSocket, EpollTimer, EpollReturned,
         NewEventLock, NewEventPush, EpollSignal, DestroyResolver, StopWorkers
  <2> QED BY <2>1, <2>2
<1>6. CASE UNCHANGED vars
  BY <1>6 DEF vars
<1> QED BY <1>1, <1>2, <1>3, <1>4, <1>5, <1>6 DEF Next, MainStep, OtherStep

(* stopWorkers gets past its assertion (engine.cpp:80) only when no worker *)
(* runs any more but those whose Worker::exited was never false: nothing   *)
(* but the uninitialised flag can let it pass early, whatever it holds.    *)
THEOREM StopWaitsForWorkers == Spec => WaitsForEachWorker
<1> SUFFICES ASSUME NEW w \in Worker
             PROVE  Spec => [](~exited[w] => [](pc[Main] \in {"clear", "done"} => w \notin Running))
  BY DEF WaitsForEachWorker
<1> DEFINE Gone == pc[Main] \in {"clear", "done"} => w \notin Running
           Unset == ~exited[w]
           K == SaysSo(w)
<1>1. Init => AllSet
  BY LifecycleAssumption DEF Init, AllSet, Thread
<1>2. IInv /\ AllSet /\ [Next]_vars => AllSet'
  BY NextExited, LifecycleAssumption DEF IInv
<1>3. IInv /\ K /\ [Next]_vars => K'
  BY NextExited, LifecycleAssumption DEF IInv
<1>4. Unset => K
  BY DEF SaysSo
<1>5. AllSet /\ K => Gone
  BY DEF AllSet, SaysSo, Running
<1> HIDE DEF Gone, Unset, K
<1>6. Spec => [](Unset => []Gone)
  BY <1>1, <1>2, <1>3, <1>4, <1>5, Invariance, PTL DEF Spec
<1> QED BY <1>6 DEF Gone, Unset
=============================================================================
