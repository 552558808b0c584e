----------------------------- MODULE Lifecycle -----------------------------
(***************************************************************************)
(* How Sb::Engine starts, runs and stops (engine.cpp: doInit, startWorkers, *)
(* doEpoll, worker, doStop, doSignalHandler, stopWorkers).                 *)
(*                                                                         *)
(* The thread that calls start is the epoll thread.  A worker stops the    *)
(* engine by sending it SIGUSR1, the user by SIGINT or SIGTERM; its        *)
(* handler sets stopping, under evHashLock.  What an event does is one     *)
(* effect: module Dispatch has the rest of it.  Here any registered socket *)
(* may be reported at any time, one per epoll_wait.                        *)
(***************************************************************************)
EXTENDS Naturals, FiniteSets

CONSTANTS
  Sock,      \* the sockets
  Worker,    \* the worker threads
  Main,      \* the epoll thread
  Garbage,   \* what the uninitialised Worker::exited may hold
  MaxQueue,  \* bound: events queued
  MaxSem,    \* bound: permits, above what the queue has events for
  MaxWork    \* bound: events that do something

ASSUME LifecycleAssumption ==
  /\ Main \notin Worker
  /\ Worker # {} /\ IsFiniteSet(Worker)
  /\ Garbage \subseteq BOOLEAN /\ FALSE \in Garbage
  /\ MaxQueue \in Nat /\ MaxSem \in Nat /\ MaxWork \in Nat
  /\ MaxQueue < MaxSem

VARIABLES
  pc,          \* where each thread is
  stopping,    \* Engine::stopping
  hash,        \* Engine::eventHash
  hashLocked,  \* whether the epoll thread holds evHashLock
  report,      \* the socket newEvent was called for
  timer,       \* whether timerEvent is set
  queue,       \* the length of eventQueue
  sem,         \* Semaphore::count
  active,      \* activeCount
  exited,      \* exited[w]: Worker::exited
  signals,     \* whether a signal is pending for the epoll thread
  stuck,       \* whether its handler waits for a lock it holds itself
  work         \* events so far that did something

stopVars == <<stopping, signals, stuck>>
queueVars == <<queue, sem>>
vars == <<pc, stopVars, hash, hashLocked, report, timer, queueVars, active,
          exited, work>>

Thread == Worker \cup {Main}

(* doInit asserts that something was added; it then calls startWorkers,    *)
(* which takes evHashLock.                                                 *)
Init ==
  /\ pc = [t \in Thread |-> IF t = Main THEN "spawn" ELSE "unborn"]
  /\ stopping = FALSE
  /\ hash \in SUBSET Sock
  /\ timer \in BOOLEAN
  /\ hash # {} \/ timer
  /\ hashLocked = TRUE
  /\ report \in Sock
  /\ queue = 0
  /\ sem = 0
  /\ active = 0
  /\ exited \in [Worker -> Garbage]
  /\ signals = FALSE
  /\ stuck = FALSE
  /\ work = 0

Goto(t, label) == pc' = [pc EXCEPT ![t] = label]

-----------------------------------------------------------------------------
(* Signals. *)

(* SIGINT or SIGTERM, while its handler is signalHandler. *)
UserStops ==
  /\ pc[Main] \notin {"clear", "done", "trapped"}
  /\ work < MaxWork
  /\ work' = work + 1
  /\ signals' = TRUE
  /\ UNCHANGED <<pc, stopping, stuck, hash, hashLocked, report, timer,
                 queueVars, active, exited>>

(* doSignalHandler interrupts the epoll thread between any two of its      *)
(* steps, and epoll_wait, which fails with EINTR.                          *)
HandleSignal ==
  /\ signals
  /\ ~stuck
  /\ pc[Main] \notin {"done", "trapped"}
  /\ signals' = FALSE
  /\ IF ~stopping /\ hashLocked
     THEN stuck' = TRUE /\ UNCHANGED stopping
     ELSE stopping' = TRUE /\ UNCHANGED stuck
  /\ IF pc[Main] = "epoll_wait" THEN Goto(Main, "returned") ELSE UNCHANGED pc
  /\ UNCHANGED <<hash, hashLocked, report, timer, queueVars, active, exited, work>>

-----------------------------------------------------------------------------
(* The epoll thread. *)

MainAt(label) == pc[Main] = label /\ ~stuck

(* One round of startWorkers' loop; the new thread runs at once.           *)
SpawnWorker ==
  /\ MainAt("spawn")
  /\ \E w \in Worker : pc[w] = "unborn" /\ Goto(w, "test")
  /\ UNCHANGED <<stopVars, hash, hashLocked, report, timer, queueVars, active,
                 exited, work>>

SpawnEnd ==
  /\ MainAt("spawn")
  /\ \A w \in Worker : pc[w] # "unborn"
  /\ hashLocked' = FALSE
  /\ Goto(Main, "test")
  /\ UNCHANGED <<stopVars, hash, report, timer, queueVars, active, exited, work>>

(* while(!stopping) *)
EpollTest ==
  /\ MainAt("test")
  /\ Goto(Main, IF stopping THEN "destroy" ELSE "epoll_wait")
  /\ UNCHANGED <<stopVars, hash, hashLocked, report, timer, queueVars, active,
                 exited, work>>

(* epoll_wait returns the report of a socket, ... *)
EpollSocket ==
  /\ MainAt("epoll_wait")
  /\ queue < MaxQueue
  /\ report' \in hash
  /\ Goto(Main, IF stopping THEN "destroy" ELSE "newEvent")
  /\ UNCHANGED <<stopVars, hash, hashLocked, timer, queueVars, active, exited, work>>

(* ... or of the timer, which timerLock guards: handleTimerExpired queues  *)
(* timerEvent, and there is another one or there is not.                   *)
EpollTimer ==
  /\ MainAt("epoll_wait")
  /\ timer
  /\ queue < MaxQueue
  /\ IF stopping
     THEN Goto(Main, "destroy") /\ UNCHANGED <<timer, queue>>
     ELSE /\ queue' = queue + 1
          /\ timer' \in BOOLEAN
          /\ Goto(Main, "signal")
  /\ UNCHANGED <<stopVars, hash, hashLocked, report, sem, active, exited, work>>

(* After a signal: EINTR. *)
EpollReturned ==
  /\ MainAt("returned")
  /\ Goto(Main, IF stopping THEN "destroy" ELSE "test")
  /\ UNCHANGED <<stopVars, hash, hashLocked, report, timer, queueVars, active,
                 exited, work>>

(* newEvent: evHashLock, then the search of eventHash, ...                 *)
NewEventLock ==
  /\ MainAt("newEvent")
  /\ hashLocked' = TRUE
  /\ Goto(Main, "push")
  /\ UNCHANGED <<stopVars, hash, report, timer, queueVars, active, exited, work>>

(* ... eventQueue.push_back and the end of the lock. *)
NewEventPush ==
  /\ MainAt("push")
  /\ hashLocked' = FALSE
  /\ IF report \in hash
     THEN queue' = queue + 1 /\ Goto(Main, "signal")
     ELSE Goto(Main, "test") /\ UNCHANGED queue
  /\ UNCHANGED <<stopVars, hash, report, timer, sem, active, exited, work>>

EpollSignal ==
  /\ MainAt("signal")
  /\ sem' = sem + 1
  /\ Goto(Main, "test")
  /\ UNCHANGED <<stopVars, hash, hashLocked, report, timer, queue, active, exited, work>>

(* An exception in doEpoll: stop() does nothing on the epoll thread.       *)
EpollThrows ==
  /\ pc[Main] \in {"epoll_wait", "newEvent"}
  /\ ~stuck
  /\ work < MaxWork
  /\ work' = work + 1
  /\ Goto(Main, "destroy")
  /\ UNCHANGED <<stopVars, hash, hashLocked, report, timer, queueVars, active, exited>>

(* theResolver.destroy() *)
DestroyResolver ==
  /\ MainAt("destroy")
  /\ Goto(Main, "join")
  /\ UNCHANGED <<stopVars, hash, hashLocked, report, timer, queueVars, active,
                 exited, work>>

Saturated(n) == IF n > MaxSem THEN MaxSem ELSE n

Waiting == {w \in Worker : ~exited[w]}

StopWorkersExited ==    \* mutant: the test of exited inverted
  /\ MainAt("join")
  /\ Waiting # {}
  /\ sem' = Saturated(sem + Cardinality(Worker \ Waiting))
  /\ UNCHANGED <<pc, stopVars, hash, hashLocked, report, timer, queue, active,
                 exited, work>>

(* A round of stopWorkers that finds workers which have not exited.        *)
StopWorkers ==
  /\ MainAt("join")
  /\ Waiting # {}
  /\ sem' = Saturated(sem + Cardinality(Waiting))
  /\ UNCHANGED <<pc, stopVars, hash, hashLocked, report, timer, queue, active,
                 exited, work>>

JoinedLast ==    \* mutant: waiting is set anew for each slave
  \E w \in Worker : exited[w]

(* ... and one that finds none: waiting is false. *)
Joined == \A w \in Worker : exited[w]

StopWorkersEnd ==
  /\ MainAt("join")
  /\ Joined
  /\ Goto(Main, "clear")
  /\ UNCHANGED <<stopVars, hash, hashLocked, report, timer, queueVars, active,
                 exited, work>>

(* The rounds, of a millisecond each, are over: the assertion fails.       *)
StopWorkersFails ==
  /\ MainAt("join")
  /\ ~Joined
  /\ Goto(Main, "trapped")
  /\ UNCHANGED <<stopVars, hash, hashLocked, report, timer, queueVars, active,
                 exited, work>>

(* The end of doInit, and of the engine.  Signals have their default       *)
(* disposition again.                                                      *)
Clear ==
  /\ MainAt("clear")
  /\ hash' = {}
  /\ timer' = FALSE
  /\ queue' = 0
  /\ Goto(Main, "done")
  /\ UNCHANGED <<stopVars, hashLocked, report, sem, active, exited, work>>
-----------------------------------------------------------------------------
(* A worker.  A worker whose engine is gone no longer runs. *)

WorkerAt(w, label) == pc[w] = label /\ pc[Main] \notin {"done", "trapped"}

(* The loop of Engine::worker. *)
WorkerTest(w) ==
  /\ WorkerAt(w, "test")
  /\ Goto(w, IF stopping THEN "exit" ELSE "wait")
  /\ UNCHANGED <<stopVars, hash, hashLocked, report, timer, queueVars, active,
                 exited, work>>

WorkerWaitSpurious(w) ==    \* mutant: cv.wait without its predicate
  /\ WorkerAt(w, "wait")
  /\ sem' = sem - 1
  /\ Goto(w, "pop")
  /\ UNCHANGED <<stopVars, hash, hashLocked, report, timer, queue, active,
                 exited, work>>

(* Semaphore::wait *)
WorkerWait(w) ==
  /\ WorkerAt(w, "wait")
  /\ sem > 0
  /\ sem' = sem - 1
  /\ Goto(w, "pop")
  /\ UNCHANGED <<stopVars, hash, hashLocked, report, timer, queue, active,
                 exited, work>>

(* With no event to pop, the event run is one that does nothing.           *)
WorkerPop(w) ==
  /\ WorkerAt(w, "pop")
  /\ IF queue > 0
     THEN queue' = queue - 1 /\ Goto(w, "activate")
     ELSE Goto(w, "activateEmpty") /\ UNCHANGED queue
  /\ UNCHANGED <<stopVars, hash, hashLocked, report, timer, sem, active, exited, work>>

(* activeCount++ *)
WorkerActivate(w) ==
  /\ pc[w] \in {"activate", "activateEmpty"}
  /\ WorkerAt(w, pc[w])
  /\ active' = active + 1
  /\ Goto(w, IF pc[w] = "activate" THEN "run" ELSE "passivate")
  /\ UNCHANGED <<stopVars, hash, hashLocked, report, timer, queueVars, exited, work>>

(* The event does nothing that matters here. *)
RunNothing(w) ==
  /\ WorkerAt(w, "run")
  /\ Goto(w, "passivate")
  /\ UNCHANGED <<stopVars, hash, hashLocked, report, timer, queueVars, active,
                 exited, work>>

(* What an event may do: *)
Works(w) ==
  /\ WorkerAt(w, "run")
  /\ work < MaxWork
  /\ work' = work + 1

(* Engine::add or remove, unless the engine is stopping; *)
RunRegister(w) ==
  /\ Works(w)
  /\ ~stopping
  /\ ~hashLocked
  /\ \E s \in Sock : hash' \in {hash \cup {s}, hash \ {s}}
  /\ Goto(w, "passivate")
  /\ UNCHANGED <<stopVars, hashLocked, report, timer, queueVars, active, exited>>

(* setTimer or cancelTimer, in which timerEvent is reset before it is set; *)
RunTimer(w) ==
  /\ Works(w)
  /\ timer' = FALSE
  /\ \E to \in {"arm", "passivate"} : Goto(w, to)
  /\ UNCHANGED <<stopVars, hash, hashLocked, report, queueVars, active, exited>>

RunArm(w) ==
  /\ WorkerAt(w, "arm")
  /\ timer' = TRUE
  /\ Goto(w, "passivate")
  /\ UNCHANGED <<stopVars, hash, hashLocked, report, queueVars, active, exited, work>>

(* runAsync or triggerWrites, without the step between push and signal;    *)
RunPost(w) ==
  /\ Works(w)
  /\ queue < MaxQueue
  /\ queue' = queue + 1
  /\ sem' = Saturated(sem + 1)
  /\ Goto(w, "passivate")
  /\ UNCHANGED <<stopVars, hash, hashLocked, report, timer, active, exited>>

(* Engine::stop; or throw an exception, which worker catches.              *)
RunStop(w) ==
  /\ Works(w)
  /\ \E to \in {"stop", "leave"} : Goto(w, to)
  /\ UNCHANGED <<stopVars, hash, hashLocked, report, timer, queueVars, active, exited>>

(* activeCount--, and the three reads of the test for an idle engine, none *)
(* of them under a lock.                                                   *)
WorkerPassivate(w) ==
  /\ WorkerAt(w, "passivate")
  /\ active' = active - 1
  /\ Goto(w, "idleHash")
  /\ UNCHANGED <<stopVars, hash, hashLocked, report, timer, queueVars, exited, work>>

IdleHash(w) ==
  /\ WorkerAt(w, "idleHash")
  /\ Goto(w, IF hash = {} THEN "idleTimer" ELSE "test")
  /\ UNCHANGED <<stopVars, hash, hashLocked, report, timer, queueVars, active,
                 exited, work>>

IdleTimer(w) ==
  /\ WorkerAt(w, "idleTimer")
  /\ Goto(w, IF timer THEN "test" ELSE "idleCount")
  /\ UNCHANGED <<stopVars, hash, hashLocked, report, timer, queueVars, active,
                 exited, work>>

IdleCount(w) ==
  /\ WorkerAt(w, "idleCount")
  /\ Goto(w, IF active = 0 THEN "leave" ELSE "test")
  /\ UNCHANGED <<stopVars, hash, hashLocked, report, timer, queueVars, active,
                 exited, work>>

(* doStop: the test of stopping, and the signal.  From Engine::stop the    *)
(* event goes on; the idle test and the handlers of exceptions leave the   *)
(* loop.                                                                   *)
AfterStop(label) == IF label \in {"stop", "stopKill"} THEN "passivate" ELSE "exit"

DoStopTest(w) ==
  /\ pc[w] \in {"stop", "leave"}
  /\ WorkerAt(w, pc[w])
  /\ Goto(w, IF stopping THEN AfterStop(pc[w])
             ELSE IF pc[w] = "stop" THEN "stopKill" ELSE "leaveKill")
  /\ UNCHANGED <<stopVars, hash, hashLocked, report, timer, queueVars, active,
                 exited, work>>

DoStopKillNone(w) ==    \* mutant: no pthread_kill
  /\ pc[w] \in {"stopKill", "leaveKill"}
  /\ WorkerAt(w, pc[w])
  /\ Goto(w, AfterStop(pc[w]))
  /\ UNCHANGED <<stopping, signals, stuck, hash, hashLocked, report, timer,
                 queueVars, active, exited, work>>

DoStopKill(w) ==
  /\ pc[w] \in {"stopKill", "leaveKill"}
  /\ WorkerAt(w, pc[w])
  /\ signals' = TRUE
  /\ Goto(w, AfterStop(pc[w]))
  /\ UNCHANGED <<stopping, stuck, hash, hashLocked, report, timer, queueVars,
                 active, exited, work>>

(* me.exited = true *)
WorkerExit(w) ==
  /\ WorkerAt(w, "exit")
  /\ exited' = [exited EXCEPT ![w] = TRUE]
  /\ Goto(w, "exited")
  /\ UNCHANGED <<stopVars, hash, hashLocked, report, timer, queueVars, active, work>>

-----------------------------------------------------------------------------

EpollStep ==
  \/ EpollTest \/ EpollSocket \/ EpollTimer \/ EpollReturned
  \/ NewEventLock \/ NewEventPush \/ EpollSignal

StopStep == DestroyResolver \/ StopWorkers \/ StopWorkersEnd \/ Clear

MainStep == SpawnWorker \/ SpawnEnd \/ EpollStep \/ StopStep

WorkerStep(w) ==
  \/ WorkerTest(w) \/ WorkerWait(w) \/ WorkerPop(w) \/ WorkerActivate(w)
  \/ RunNothing(w) \/ RunRegister(w) \/ RunTimer(w) \/ RunArm(w)
  \/ RunPost(w) \/ RunStop(w)
  \/ WorkerPassivate(w) \/ IdleHash(w) \/ IdleTimer(w) \/ IdleCount(w)
  \/ DoStopTest(w) \/ DoStopKill(w) \/ WorkerExit(w)

Next ==
  \/ UserStops
  \/ HandleSignal
  \/ MainStep
  \/ EpollThrows
  \/ StopWorkersFails
  \/ \E w \in Worker : WorkerStep(w)

Spec == Init /\ [][Next]_vars

(* Threads are scheduled and signals delivered.  Reports are not owed: once *)
(* stopping, no step depends on one.  Nor are the rounds ever over.        *)
FairSpec ==
  /\ Spec
  /\ WF_vars(HandleSignal)
  /\ WF_vars(SpawnWorker \/ SpawnEnd \/ EpollTest \/ EpollReturned
             \/ NewEventLock \/ NewEventPush \/ EpollSignal \/ StopStep)
  /\ \A w \in Worker : WF_vars(WorkerStep(w))

-----------------------------------------------------------------------------

Running == {w \in Worker : pc[w] \notin {"unborn", "exited"}}

(* Every variable has its type. *)
TypeOK ==
  /\ pc \in [Thread -> {"unborn", "test", "wait", "pop", "activate",
        "activateEmpty", "run", "arm", "passivate", "idleHash", "idleTimer",
        "idleCount", "stop", "leave", "stopKill", "leaveKill", "exit",
        "exited", "spawn", "epoll_wait", "returned", "newEvent", "push",
        "signal", "destroy", "join", "clear", "done", "trapped"}]
  /\ stopping \in BOOLEAN /\ signals \in BOOLEAN /\ stuck \in BOOLEAN
  /\ hash \subseteq Sock
  /\ hashLocked \in BOOLEAN
  /\ report \in Sock
  /\ timer \in BOOLEAN
  /\ queue \in 0..MaxQueue + 1
  /\ sem \in 0..MaxSem
  /\ active \in 0..Cardinality(Worker)
  /\ exited \in [Worker -> BOOLEAN]
  /\ work \in 0..MaxWork

(* A worker leaves its loop only with the engine stopping, or with the     *)
(* signal sent that will stop it: the engine never goes on short of        *)
(* workers after an exception or an idle test (engine.cpp:339, 345, 348).  *)
ExitMeansStop ==
  \A w \in Worker :
    pc[w] \in {"exit", "exited"} => stopping \/ signals \/ stuck

(* When stopWorkers gets past its assertion (engine.cpp:80), every worker  *)
(* has left the engine it deletes and clears.                              *)
StoppedWorkersHaveExited ==
  pc[Main] \in {"clear", "done"} => Running = {}

(* The epoll thread went to sleep after its signal (engine.cpp:359-361).   *)
Asleep == stopping /\ pc[Main] = "epoll_wait"

StopAsked == stopping \/ signals \/ \E w \in Worker : pc[w] = "exited"

(* A stop that a signal, a call, an exception or the idle test asked for   *)
(* comes to its end, or to the failed assertion of stopWorkers.  There are *)
(* two ways to hang: asleep, until some report, or stuck in the handler,   *)
(* on an evHashLock the interrupted thread holds.                          *)
StopCompletes ==
  <>StopAsked => <>[](pc[Main] \in {"done", "trapped"} \/ Asleep \/ stuck)
=============================================================================
