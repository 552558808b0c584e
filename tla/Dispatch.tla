------------------------------ MODULE Dispatch ------------------------------
(***************************************************************************)
(* How Sb::Engine carries readiness from epoll to its workers (engine.cpp: *)
(* doEpoll, newEvent, doRunAsync, doTriggerWrites, doAdd, doRemove, worker *)
(* and run; semaphore.cpp; event.cpp) while the engine runs.               *)
(*                                                                         *)
(* Registrations are EPOLLONESHOT: a report disarms the socket, and the    *)
(* worker that runs the event arms it again at the end of Engine::run.     *)
(* The epoll thread and the workers meet in eventQueue and its semaphore.  *)
(* Sockets are connected streams without an egress rate; of TcpStream only *)
(* what the engine's steps depend on is here: input not read, output not   *)
(* sent, blocked, once, writeTriggered.                                    *)
(***************************************************************************)
EXTENDS Naturals, Sequences, FiniteSets

CONSTANTS
  Sock,          \* the sockets
  First,         \* those added before the engine starts
  Fallible,      \* bound: those that may fail
  Worker,        \* the worker threads
  Epoll,         \* the thread in Engine::doEpoll
  EventsPerRun,  \* EPOLL_EVENTS_PER_RUN
  MaxArrivals,   \* bound: chunks of input that arrive at one socket
  MaxCalls,      \* bound: calls clients make and timers that expire
  MaxChunks      \* bound: chunks a client queues in a row

ASSUME DispatchAssumption ==
  /\ Sock # {}
  /\ First \subseteq Sock
  /\ IsFiniteSet(Worker)
  /\ Epoll \notin Worker
  /\ EventsPerRun \in Nat \ {0}
  /\ MaxArrivals \in Nat
  /\ MaxCalls \in Nat
  /\ MaxChunks \in Nat

VARIABLES
  hash,        \* eventHash: the sockets that are in it
  armed,       \* the sockets whose registration is enabled
  added,       \* the sockets given to Engine::add so far
  out,         \* the sockets whose registration includes EPOLLOUT
  arrived,     \* arrived[s]: chunks of input so far
  unread,      \* unread[s]: those not read yet
  failed,      \* the sockets with EPOLLERR or EPOLLRDHUP
  writable,    \* the sockets with room in the kernel's send buffer
  unsent,      \* unsent[s]: the length of the stream's writeQueue
  blocked,     \* the streams with TcpStream::blocked
  once,        \* the streams with TcpStream::once
  triggered,   \* the streams with TcpStream::writeTriggered
  batch,       \* what epoll_wait returned and newEvent has not seen yet
  eventQueue,  \* Engine::eventQueue
  sem,         \* Semaphore::count
  pc,          \* where each thread is
  event,       \* event[w]: the event w runs
  needOut,     \* the workers whose local needOut is true
  resume,      \* where a thread goes on after sem.signal()
  calls        \* calls made so far

registryVars == <<hash, added, armed, out>>
kernelVars == <<arrived, unread, failed, writable>>
streamVars == <<unsent, blocked, once, triggered>>
threadVars == <<pc, event, needOut, resume>>
vars == <<registryVars, kernelVars, streamVars, batch, eventQueue, sem,
          threadVars, calls>>

Thread == Worker \cup {Epoll}

(* What an event does when it is run: Engine::run with these epoll events, *)
(* or, for "call", a callback given to runAsync or to a timer.             *)
Report == [sock : Sock, flags : SUBSET {"in", "out", "error"}]

Event == Report \cup [sock : Sock, flags : {{"call"}}]

(* The event of a worker that runs none. *)
NoEvent == [sock |-> CHOOSE s \in Sock : TRUE, flags |-> {}]

Init ==
  /\ hash = First
  /\ added = First
  /\ armed = First
  /\ out = First
  /\ arrived = [s \in Sock |-> 0]
  /\ unread = [s \in Sock |-> 0]
  /\ failed = {}
  /\ writable = Sock
  /\ unsent = [s \in Sock |-> 0]
  /\ blocked = {}
  /\ once = {}
  /\ triggered = {}
  /\ batch = {}
  /\ eventQueue = <<>>
  /\ sem = 0
  /\ pc = [t \in Thread |-> "wait"]
  /\ event = [w \in Worker |-> NoEvent]
  /\ needOut = {}
  /\ resume = [t \in Thread |-> "wait"]
  /\ calls = 0

(* A worker back at sem.wait() has destroyed its event.                    *)
Goto(t, label) ==
  /\ pc' = [pc EXCEPT ![t] = label]
  /\ event' = [w \in Worker |->
                 IF w = t /\ label = "wait" THEN NoEvent ELSE event[w]]

(* eventQueue.push_back under eqLock; sem.signal() is a step of its own.   *)
Post(t, e, next) ==
  /\ eventQueue' = Append(eventQueue, e)
  /\ Goto(t, "signal")
  /\ resume' = [resume EXCEPT ![t] = next]

NewEventSignals(t, e, next) ==    \* mutant: signals for a dropped event too
  /\ eventQueue' = IF e.sock \in hash THEN Append(eventQueue, e) ELSE eventQueue
  /\ Goto(t, "signal")
  /\ resume' = [resume EXCEPT ![t] = next]

(* Engine::newEvent, which drops the event of a socket already removed.    *)
NewEvent(t, e, next) ==
  IF e.sock \in hash
  THEN Post(t, e, next)
  ELSE Goto(t, next) /\ UNCHANGED <<eventQueue, resume>>

(* Semaphore::signal *)
Signal(t) ==
  /\ pc[t] = "signal"
  /\ sem' = sem + 1
  /\ Goto(t, resume[t])
  /\ resume' = [resume EXCEPT ![t] = "wait"]
  /\ UNCHANGED <<registryVars, kernelVars, streamVars, batch, eventQueue,
                 needOut, calls>>

-----------------------------------------------------------------------------

(* The kernel and the peers: input arrives, room appears, streams fail.    *)
Arrive(s) ==
  /\ arrived[s] < MaxArrivals
  /\ arrived' = [arrived EXCEPT ![s] = @ + 1]
  /\ unread' = [unread EXCEPT ![s] = @ + 1]
  /\ UNCHANGED <<registryVars, failed, writable, streamVars, batch,
                 eventQueue, sem, threadVars, calls>>

Room(s) ==
  /\ s \notin writable
  /\ writable' = writable \cup {s}
  /\ UNCHANGED <<registryVars, arrived, unread, failed, streamVars, batch,
                 eventQueue, sem, threadVars, calls>>

Fail(s) ==
  /\ s \in Fallible \ failed
  /\ failed' = failed \cup {s}
  /\ UNCHANGED <<registryVars, arrived, unread, writable, streamVars, batch,
                 eventQueue, sem, threadVars, calls>>

(* What epoll would report of s. *)
Ready(s) ==
  {f \in {"in", "out", "error"} :
     \/ f = "in" /\ unread[s] > 0
     \/ f = "out" /\ s \in out /\ s \in writable
     \/ f = "error" /\ s \in failed}

Reportable == {s \in armed : Ready(s) # {}}

-----------------------------------------------------------------------------
(* The epoll thread. *)

(* epoll_wait.  Sockets are never deregistered: one that was removed from  *)
(* eventHash is still reported.                                            *)
EpollWait ==
  /\ pc[Epoll] = "wait"
  /\ \E S \in SUBSET Reportable :
       /\ S # {}
       /\ S = Reportable \/ Cardinality(S) = EventsPerRun
       /\ batch' = {[sock |-> s, flags |-> Ready(s)] : s \in S}
       /\ armed' = armed \ S
  /\ Goto(Epoll, "handle")
  /\ UNCHANGED <<hash, added, out, kernelVars, streamVars, eventQueue, sem, needOut, resume, calls>>

(* newEvent for one of the sockets reported. *)
EpollHandle ==
  /\ pc[Epoll] = "handle"
  /\ \E b \in batch :
       /\ batch' = batch \ {b}
       /\ NewEvent(Epoll, b, IF batch' = {} THEN "wait" ELSE "handle")
  /\ UNCHANGED <<registryVars, kernelVars, streamVars, sem, needOut, calls>>

(* handleTimerExpired queues the event of some timer (module Timers).      *)
EpollTimer(s) ==
  /\ pc[Epoll] = "wait"
  /\ calls < MaxCalls
  /\ calls' = calls + 1
  /\ Post(Epoll, [sock |-> s, flags |-> {"call"}], "wait")
  /\ UNCHANGED <<registryVars, kernelVars, streamVars, batch, sem, needOut>>

-----------------------------------------------------------------------------
(* A worker. *)

WorkerWaitSpurious(w) ==    \* mutant: cv.wait without its predicate
  /\ pc[w] = "wait"
  /\ sem' = sem - 1
  /\ Goto(w, "pop")
  /\ UNCHANGED <<registryVars, kernelVars, streamVars, batch, eventQueue,
                 needOut, resume, calls>>

(* Semaphore::wait *)
WorkerWait(w) ==
  /\ pc[w] = "wait"
  /\ sem > 0
  /\ sem' = sem - 1
  /\ Goto(w, "pop")
  /\ UNCHANGED <<registryVars, kernelVars, streamVars, batch, eventQueue, needOut, resume, calls>>

(* An empty queue gives the worker an event that does nothing. *)
WorkerPop(w) ==
  /\ pc[w] = "pop"
  /\ IF eventQueue = <<>>
     THEN /\ Goto(w, "wait")
          /\ UNCHANGED eventQueue
     ELSE /\ event' = [event EXCEPT ![w] = Head(eventQueue)]
          /\ eventQueue' = Tail(eventQueue)
          /\ pc' = [pc EXCEPT ![w] = "begin"]
  /\ UNCHANGED <<registryVars, kernelVars, streamVars, batch, sem, needOut,
                 resume, calls>>

AfterReadDeaf(flags) == "update"    \* mutant: EPOLLERR, EPOLLRDHUP not tested

(* The order of the handlers in Engine::run, from the first of them on.    *)
AfterRead(flags) == IF "error" \in flags THEN "error" ELSE "update"

AfterWrite(flags) == IF "in" \in flags THEN "read" ELSE AfterRead(flags)

FirstHandler(flags) ==
  IF "call" \in flags THEN "call"
  ELSE IF "out" \in flags THEN "write"
  ELSE AfterWrite(flags)

(* Event::operator() and the test that opens Engine::run.  A callback runs *)
(* whether or not the stream was removed: the stream still exists.         *)
WorkerBegin(w) ==
  /\ pc[w] = "begin"
  /\ IF event[w].sock \in hash \/ "call" \in event[w].flags
     THEN Goto(w, FirstHandler(event[w].flags))
     ELSE Goto(w, "wait")
  /\ UNCHANGED <<registryVars, kernelVars, streamVars, batch, eventQueue, sem,
                 needOut, resume, calls>>

(* TcpStream::handleWrite: sends all there is, or as much as there is room *)
(* for; or a write fails, which loses its chunk and ends the loop with the *)
(* rest still queued.  The first time, and whenever it has taken the last  *)
(* of the queue, it queues notifyWriteComplete.                            *)
HandleWrite(w) ==
  LET s == event[w].sock
      next == AfterWrite(event[w].flags)
  IN  /\ pc[w] = "write"
      /\ triggered' = triggered \ {s}
      /\ once' = once \cup {s}
      /\ \/ /\ s \in writable \/ unsent[s] = 0
            /\ unsent' = [unsent EXCEPT ![s] = 0]
            /\ blocked' = blocked \ {s}
            /\ UNCHANGED writable
         \/ \E n \in 1..unsent[s] :
              /\ s \notin writable => n = unsent[s]
              /\ unsent' = [unsent EXCEPT ![s] = n]
              /\ blocked' = blocked \cup {s}
              /\ writable' = writable \ {s}
         \/ /\ s \in failed
            /\ \E n \in 0..unsent[s] - 1 : unsent' = [unsent EXCEPT ![s] = n]
            /\ blocked' = blocked \ {s}
            /\ UNCHANGED writable
      /\ IF s \notin once \/ (unsent[s] > 0 /\ unsent'[s] = 0)
         THEN Post(w, [sock |-> s, flags |-> {"call"}], next)
         ELSE Goto(w, next) /\ UNCHANGED <<eventQueue, resume>>
      /\ UNCHANGED <<registryVars, arrived, unread, failed, batch, sem, needOut, calls>>

(* readLock is held by the worker that is reading. *)
ReadLocked(w, s) ==
  \E v \in Worker \ {w} :
    /\ event[v].sock = s
    /\ pc[v] = "reading" \/ (pc[v] = "signal" /\ resume[v] = "reading")

Reads(w) ==
  \/ pc[w] = "reading"
  \/ pc[w] = "read" /\ ~ReadLocked(w, event[w].sock)

(* read() has found nothing more. *)
HandleReadEnd(w) ==
  /\ Reads(w)
  /\ unread[event[w].sock] = 0
  /\ Goto(w, AfterRead(event[w].flags))
  /\ UNCHANGED <<registryVars, kernelVars, streamVars, batch, eventQueue, sem, needOut, resume, calls>>

HandleErrorOnly(w) ==    \* mutant: handleError as UdpSocket has it
  /\ pc[w] = "error"
  /\ Goto(w, "wait")
  /\ UNCHANGED <<registryVars, kernelVars, streamVars, batch, eventQueue, sem,
                 needOut, resume, calls>>

(* TcpStream::handleError and disconnect; the socket is not armed again.   *)
HandleError(w) ==
  /\ pc[w] = "error"
  /\ hash' = hash \ {event[w].sock}
  /\ Goto(w, "wait")
  /\ UNCHANGED <<added, armed, out, kernelVars, streamVars, batch, eventQueue,
                 sem, needOut, resume, calls>>

(* waitingOutEvent(), read before evHashLock is taken.                     *)
ReadNeedOut(w) ==
  /\ pc[w] = "update"
  /\ needOut' = IF event[w].sock \in blocked \/ event[w].sock \notin once
                THEN needOut \cup {w} ELSE needOut
  /\ Goto(w, "mod")
  /\ UNCHANGED <<registryVars, kernelVars, streamVars, batch, eventQueue, sem, resume, calls>>

RearmForOut(w) ==    \* mutant: EPOLL_CTL_MOD only to wait for EPOLLOUT
  LET s == event[w].sock
  IN  /\ pc[w] = "mod"
      /\ IF s \in hash /\ w \in needOut
         THEN armed' = armed \cup {s} /\ out' = out \cup {s}
         ELSE UNCHANGED <<armed, out>>
      /\ needOut' = needOut \ {w}
      /\ Goto(w, "wait")
      /\ UNCHANGED <<hash, added, kernelVars, streamVars, batch, eventQueue,
                     sem, resume, calls>>

(* EPOLL_CTL_MOD, under evHashLock. *)
Rearm(w) ==
  LET s == event[w].sock
  IN  /\ pc[w] = "mod"
      /\ IF s \in hash
         THEN /\ armed' = armed \cup {s}
              /\ out' = IF w \in needOut THEN out \cup {s} ELSE out \ {s}
         ELSE UNCHANGED <<armed, out>>
      /\ needOut' = needOut \ {w}
      /\ Goto(w, "wait")
      /\ UNCHANGED <<hash, added, kernelVars, streamVars, batch, eventQueue,
                     sem, resume, calls>>

-----------------------------------------------------------------------------
(* What a client does when it is called back (the classes of main.cpp). *)

ClientIdle(w, next) ==
  /\ Goto(w, next)
  /\ UNCHANGED <<registryVars, streamVars, eventQueue, resume, calls>>

ClientWriteMarks(w, s, next) ==    \* mutant: writeTriggered set before the test
  /\ calls < MaxCalls
  /\ calls' = calls + 1
  /\ \E n \in 1..MaxChunks : unsent' = [unsent EXCEPT ![s] = @ + n]
  /\ triggered' = triggered \cup {s}
  /\ Goto(w, next)
  /\ UNCHANGED <<registryVars, blocked, once, eventQueue, resume>>

(* TcpStream::queueWrite of a chunk, or, with nothing in between, of some  *)
(* chunks in a row (as in Remote::writeComplete).                          *)
ClientWrite(w, s, next) ==
  /\ calls < MaxCalls
  /\ calls' = calls + 1
  /\ \E n \in 1..MaxChunks : unsent' = [unsent EXCEPT ![s] = @ + n]
  /\ IF s \in blocked \/ s \in triggered
     THEN Goto(w, next) /\ UNCHANGED <<triggered, eventQueue, resume>>
     ELSE /\ triggered' = triggered \cup {s}
          /\ NewEvent(w, [sock |-> s, flags |-> {"out"}], next)
  /\ UNCHANGED <<registryVars, blocked, once>>

(* TcpStream::disconnect and Engine::doRemove; only the first call of it   *)
(* gets past TcpStream::disconnecting.                                     *)
ClientDisconnect(w, s, next) ==
  /\ calls < MaxCalls
  /\ s \in hash
  /\ calls' = calls + 1
  /\ hash' = hash \ {s}
  /\ Goto(w, next)
  /\ UNCHANGED <<added, armed, out, streamVars, eventQueue, resume>>

(* TcpStream::create to a destination and Engine::doAdd. *)
ClientCreate(w, s, next) ==
  /\ calls < MaxCalls
  /\ s \notin added
  /\ calls' = calls + 1
  /\ hash' = hash \cup {s}
  /\ added' = added \cup {s}
  /\ armed' = armed \cup {s}
  /\ out' = out \cup {s}
  /\ Goto(w, next)
  /\ UNCHANGED <<streamVars, eventQueue, resume>>

ClientCall(w, next) ==
  \/ ClientIdle(w, next)
  \/ \E s \in added : ClientWrite(w, s, next) \/ ClientDisconnect(w, s, next)
  \/ \E s \in Sock : ClientCreate(w, s, next)

(* One round of TcpStream::handleRead's loop: read, then client->received. *)
HandleReadChunk(w) ==
  LET s == event[w].sock
  IN  /\ Reads(w)
      /\ unread[s] > 0
      /\ unread' = [unread EXCEPT ![s] = @ - 1]
      /\ ClientCall(w, "reading")
      /\ UNCHANGED <<arrived, failed, writable, batch, sem, needOut>>

(* A callback: client->writeComplete, or a timer of the client.            *)
RunCallback(w) ==
  /\ pc[w] = "call"
  /\ ClientCall(w, "wait")
  /\ UNCHANGED <<kernelVars, batch, sem, needOut>>

-----------------------------------------------------------------------------

Environment == \E s \in added : Arrive(s) \/ Room(s) \/ Fail(s)

EpollStep == EpollWait \/ EpollHandle \/ Signal(Epoll)

WorkerStep(w) ==
  \/ WorkerWait(w) \/ WorkerPop(w) \/ WorkerBegin(w) \/ Signal(w)
  \/ HandleWrite(w)
  \/ HandleReadChunk(w) \/ HandleReadEnd(w)
  \/ HandleError(w)
  \/ ReadNeedOut(w) \/ Rearm(w)
  \/ RunCallback(w)

Next ==
  \/ Environment
  \/ EpollStep
  \/ \E s \in added : EpollTimer(s)
  \/ \E w \in Worker : WorkerStep(w)

Spec == Init /\ [][Next]_vars

(* Every thread is scheduled; the peers owe nothing. *)
FairSpec ==
  /\ Spec
  /\ WF_vars(EpollStep)
  /\ \A w \in Worker : WF_vars(WorkerStep(w))

-----------------------------------------------------------------------------

Label == {"wait", "handle", "signal", "pop", "begin", "call", "write", "read",
          "reading", "error", "update", "mod"}

(* Every variable has its type.                                            *)
TypeOK ==
  /\ hash \subseteq added
  /\ added \subseteq Sock
  /\ armed \subseteq added
  /\ out \subseteq Sock
  /\ arrived \in [Sock -> Nat]
  /\ unread \in [Sock -> Nat]
  /\ failed \subseteq Sock
  /\ writable \subseteq Sock
  /\ unsent \in [Sock -> Nat]
  /\ blocked \subseteq Sock
  /\ once \subseteq Sock
  /\ triggered \subseteq added
  /\ batch \subseteq Report
  /\ eventQueue \in Seq(Event)
  /\ sem \in Nat
  /\ pc \in [Thread -> Label]
  /\ event \in [Worker -> Event]
  /\ needOut \subseteq Worker
  /\ resume \in [Thread -> Label \ {"pop", "begin", "call", "signal", "mod"}]
  /\ calls \in Nat

At(label) == {t \in Thread : pc[t] = label}

(* Each queued event has one permit of the semaphore, given, still to be   *)
(* given by the thread that queued it, or held by a worker on its way to   *)
(* the queue: no event is stranded and no worker finds the queue empty.    *)
PermitPerEvent ==
  Len(eventQueue) = sem + Cardinality(At("pop")) + Cardinality(At("signal"))

(* An event that, once run, arms the socket again, on its way: reported,   *)
(* queued, or in a worker that has not done EPOLL_CTL_MOD.                 *)
Carried(s, flags) ==
  \/ \E b \in batch : b.sock = s /\ b.flags \cap flags # {}
  \/ \E i \in DOMAIN eventQueue :
       eventQueue[i].sock = s /\ eventQueue[i].flags \cap flags # {}
  \/ \E w \in Worker :
       /\ event[w].sock = s /\ event[w].flags \cap flags # {}
       /\ pc[w] = "begin"

InRun(w) ==
  \/ pc[w] \in {"write", "read", "reading", "error", "update", "mod"}
  \/ pc[w] = "signal" /\ resume[w] # "wait"

(* A socket that can be reported, or is about to be: the EPOLLONESHOT      *)
(* registration of a socket in eventHash is never left disabled.           *)
NoLostReadiness ==
  \A s \in hash :
    \/ s \in armed
    \/ Carried(s, {"in", "out", "error"})
    \/ \E w \in Worker : event[w].sock = s /\ InRun(w)

(* writeTriggered says that an EPOLLOUT event is on its way, so queueWrite *)
(* may leave what it queued to it (tcpstream.cpp:180); and what is queued  *)
(* is left with neither that nor blocked only by a write that failed.  The *)
(* socket has failed then, and FailedRemoved says what becomes of it.      *)
TriggerNotLost ==
  \A s \in hash :
    /\ s \in triggered =>
         \/ Carried(s, {"out"})
         \/ \E w \in Worker : event[w].sock = s /\ pc[w] = "write"
    /\ unsent[s] > 0 => s \in triggered \cup blocked \cup failed

(* A stream that has failed is removed, whatever its one-shot registration *)
(* was reporting and whoever was running it then: what a failed write left *)
(* in its queue does not wait for ever.                                    *)
FailedRemoved ==
  \A s \in Sock : s \in failed /\ s \in hash ~> s \notin hash

(* Input is read, or the stream removed, whatever else goes on.            *)
InputHandled ==
  \A s \in Sock : unread[s] > 0 /\ s \in hash ~> unread[s] = 0 \/ s \notin hash
=============================================================================
