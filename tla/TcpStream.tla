----------------------------- MODULE TcpStream -----------------------------
(***************************************************************************)
(* One Sb::TcpStream (tcpstream.cpp) with the part of the engine that      *)
(* drives it: its registration, its timers and its events in the queue.    *)
(*                                                                         *)
(* writeLock makes handleWrite, waitingOutEvent, asyncEgress, disconnect   *)
(* and queueWrite one step each.  The client may call queueWrite and       *)
(* disconnect from any thread, once create has given it the stream.        *)
(* A stream that was accepted is limited: its egressRate is not 0.         *)
(***************************************************************************)
EXTENDS Naturals, Sequences, FiniteSets, SequencesExt

CONSTANTS
  Worker,    \* the worker threads
  Limited,   \* which streams there are: limited or not
  Buffer,    \* the size of the kernel's send buffer
  MaxBytes,  \* bound: bytes the client queues
  MaxInput   \* bound: reports of input

ASSUME TcpStreamAssumption ==
  /\ Limited \subseteq BOOLEAN
  /\ Buffer \in Nat \ {0}
  /\ MaxBytes \in Nat
  /\ MaxInput \in Nat

VARIABLES
  limited,        \* egressRate # 0
  phase,          \* how far TcpStream::create is
  connected, once, blocked, triggered, disconnecting,  \* as in TcpStream
  writeQueue,     \* the bytes in TcpStream::writeQueue
  queued,         \* how many bytes were queued
  registered,     \* whether eventHash has the stream
  armed,          \* whether its registration is enabled
  out,            \* whether that includes EPOLLOUT
  activity,       \* whether the timer is set
  egress,         \* whether the timer is set
  events,         \* eventQueue, its events for this stream
  pc,             \* where each worker is
  event,          \* event[w]: the event w runs
  needOut,        \* the workers whose local needOut is true
  established,    \* whether the kernel has connected the socket
  broken,         \* whether it has failed
  sent,           \* the bytes the kernel took
  drained,        \* how many of them have left the send buffer
  inputs,         \* reports of input so far
  trapped         \* whether an assertion failed

flagVars == <<connected, once, blocked, triggered, disconnecting>>
dataVars == <<writeQueue, queued>>
registryVars == <<registered, armed, out>>
timerVars == <<activity, egress>>
threadVars == <<pc, event, needOut>>
kernelVars == <<established, broken, sent, drained, inputs>>
vars == <<limited, phase, flagVars, dataVars, registryVars, timerVars, events,
          threadVars, kernelVars, trapped>>

(* Events by what they run: Engine::run with these epoll events, or one of *)
(* the stream's own.                                                       *)
Run == SUBSET {"in", "out", "error"}
Own == {{"complete"}, {"activity"}, {"egress"}}

Init ==
  /\ limited \in Limited
  /\ phase = "new"
  /\ connected = limited
  /\ established = limited
  /\ once = FALSE
  /\ blocked = FALSE
  /\ triggered = FALSE
  /\ disconnecting = FALSE
  /\ writeQueue = <<>>
  /\ queued = 0
  /\ registered = FALSE
  /\ armed = FALSE
  /\ out = FALSE
  /\ activity = FALSE
  /\ egress = FALSE
  /\ events = <<>>
  /\ pc = [w \in Worker |-> "wait"]
  /\ event = [w \in Worker |-> {}]
  /\ needOut = {}
  /\ broken = FALSE
  /\ sent = <<>>
  /\ drained = 0
  /\ inputs = 0
  /\ trapped = FALSE

(* newEvent(evId, EPOLLOUT), for a stream eventHash has.                   *)
TriggerWrites(queue) ==
  IF registered THEN Append(queue, {"out"}) ELSE queue

WaitingOutEventOnce ==    \* mutant: once is not tested
  /\ blocked \/ ~connected
  /\ ~disconnecting
  /\ ~connected \/ ~limited

(* waitingOutEvent *)
WaitingOutEvent ==
  /\ blocked \/ ~once \/ ~connected
  /\ ~disconnecting
  /\ ~connected \/ ~limited

-----------------------------------------------------------------------------
(* TcpStream::create, after client->tcpStream was set. *)

(* ... of a socket that was accepted: runAsync(notifyWriteComplete) *)
CreateAccepted ==
  /\ phase = "new" /\ limited
  /\ events' = Append(events, {"complete"})
  /\ phase' = "add"
  /\ UNCHANGED <<limited, flagVars, dataVars, registryVars, timerVars,
                 threadVars, kernelVars, trapped>>

(* ... to a destination: connect has succeeded, is in progress or failed.  *)
CreateConnected ==
  /\ phase = "new" /\ ~limited
  /\ \/ /\ established' \in BOOLEAN
        /\ connected' = established'
        /\ activity' = TRUE
        /\ phase' = "add"
     \/ /\ phase' = "failed"
        /\ UNCHANGED <<established, connected, activity>>
  /\ UNCHANGED <<limited, once, blocked, triggered, disconnecting, dataVars,
                 registryVars, egress, events, threadVars, broken, sent,
                 drained, inputs, trapped>>

(* Engine::doAdd *)
EngineAdd ==
  /\ phase = "add"
  /\ registered' = TRUE
  /\ armed' = TRUE
  /\ out' = WaitingOutEvent
  /\ phase' = "added"
  /\ UNCHANGED <<limited, flagVars, dataVars, timerVars, events, threadVars,
                 kernelVars, trapped>>

-----------------------------------------------------------------------------
(* The kernel, the peer and the epoll thread. *)

Establish ==
  /\ phase # "new" /\ ~established
  /\ established' = TRUE
  /\ UNCHANGED <<limited, phase, flagVars, dataVars, registryVars, timerVars,
                 events, threadVars, broken, sent, drained, inputs, trapped>>

Break ==
  /\ phase # "new" /\ ~broken
  /\ broken' = TRUE
  /\ UNCHANGED <<limited, phase, flagVars, dataVars, registryVars, timerVars,
                 events, threadVars, established, sent, drained, inputs, trapped>>

(* The peer reads what is in the send buffer. *)
Drain ==
  /\ drained < Len(sent)
  /\ drained' = Len(sent)
  /\ UNCHANGED <<limited, phase, flagVars, dataVars, registryVars, timerVars,
                 events, threadVars, established, broken, sent, inputs, trapped>>

RoomLeft == Buffer - (Len(sent) - drained)

(* What epoll_wait reports, and newEvent queues unless it was removed.     *)
Report ==
  /\ armed
  /\ \E input \in BOOLEAN :
       LET flags == {f \in {"in", "out", "error"} :
                       \/ f = "in" /\ input
                       \/ f = "out" /\ out /\ (broken \/ (established /\ RoomLeft > 0))
                       \/ f = "error" /\ broken}
       IN  /\ flags # {}
           /\ input => inputs < MaxInput
           /\ inputs' = inputs + (IF input THEN 1 ELSE 0)
           /\ events' = IF registered THEN Append(events, flags) ELSE events
  /\ armed' = FALSE
  /\ UNCHANGED <<limited, phase, flagVars, dataVars, registered, out,
                 timerVars, threadVars, established, broken, sent, drained, trapped>>

(* A timer expires (module Timers) and its event is queued.                *)
ActivityExpires ==
  /\ activity
  /\ activity' = FALSE
  /\ events' = Append(events, {"activity"})
  /\ UNCHANGED <<limited, phase, flagVars, dataVars, registryVars, egress,
                 threadVars, kernelVars, trapped>>

EgressExpires ==
  /\ egress
  /\ egress' = FALSE
  /\ events' = Append(events, {"egress"})
  /\ UNCHANGED <<limited, phase, flagVars, dataVars, registryVars, activity,
                 threadVars, kernelVars, trapped>>

-----------------------------------------------------------------------------
(* A worker. *)

Goto(w, label) ==
  /\ pc' = [pc EXCEPT ![w] = label]
  /\ event' = IF label = "wait" THEN [event EXCEPT ![w] = {}] ELSE event

AfterRead(flags) == IF "error" \in flags THEN "error" ELSE "update"

AfterWrite(flags) == IF "in" \in flags THEN "read" ELSE AfterRead(flags)

FirstHandler(flags) ==
  IF flags \in Own THEN "own"
  ELSE IF "out" \in flags THEN "write" ELSE AfterWrite(flags)

(* A worker takes the next event; Engine::run drops that of a stream which *)
(* was removed.                                                            *)
Begin(w) ==
  /\ pc[w] = "wait"
  /\ events # <<>>
  /\ events' = Tail(events)
  /\ IF registered \/ Head(events) \in Own
     THEN /\ pc' = [pc EXCEPT ![w] = FirstHandler(Head(events))]
          /\ event' = [event EXCEPT ![w] = Head(events)]
     ELSE UNCHANGED <<pc, event>>
  /\ UNCHANGED <<limited, phase, flagVars, dataVars, registryVars, timerVars,
                 needOut, kernelVars, trapped>>

(* What is left of the queue when n bytes of it were written. *)
Left(n) == SubSeq(writeQueue, n + 1, Len(writeQueue))

Min2(m, n) == IF m < n THEN m ELSE n

WriteAllAlways ==    \* mutant: what write returns is not looked at
  /\ ~broken
  /\ sent' = sent \o writeQueue
  /\ writeQueue' = <<>>
  /\ blocked' = FALSE /\ triggered' = FALSE
  /\ UNCHANGED egress

(* The loop of handleWrite: what write takes, and why the loop ends.       *)
WriteAll ==
  /\ ~broken
  /\ Len(writeQueue) <= RoomLeft
  /\ sent' = sent \o writeQueue
  /\ writeQueue' = <<>>
  /\ blocked' = FALSE /\ triggered' = FALSE
  /\ UNCHANGED egress

WriteUntilFullWhole ==    \* mutant: push_front of the whole chunk
  /\ ~broken
  /\ Len(writeQueue) > RoomLeft
  /\ sent' = sent \o SubSeq(writeQueue, 1, RoomLeft)
  /\ writeQueue' = writeQueue
  /\ blocked' = TRUE /\ triggered' = FALSE
  /\ UNCHANGED egress

WriteUntilFull ==
  /\ ~broken
  /\ Len(writeQueue) > RoomLeft
  /\ sent' = sent \o SubSeq(writeQueue, 1, RoomLeft)
  /\ writeQueue' = Left(RoomLeft)
  /\ blocked' = TRUE /\ triggered' = FALSE
  /\ UNCHANGED egress

(* The rate is exceeded: the egress timer will trigger the next write.     *)
WriteUntilRate ==
  /\ ~broken
  /\ limited
  /\ \E n \in 1..Min2(Len(writeQueue), RoomLeft) :
       /\ sent' = sent \o SubSeq(writeQueue, 1, n)
       /\ writeQueue' = Left(n)
  /\ blocked' = TRUE /\ triggered' = TRUE
  /\ egress' = TRUE

(* Any other error: the chunk it met is lost. *)
WriteFails ==
  /\ broken
  /\ IF writeQueue = <<>> THEN writeQueue' = <<>>
     ELSE \E n \in 1..Len(writeQueue) : writeQueue' = Left(n)
  /\ blocked' = FALSE /\ triggered' = FALSE
  /\ UNCHANGED <<sent, egress>>

HandleWriteConnected(w) ==
  /\ pc[w] = "write"
  /\ connected
  /\ WriteAll \/ WriteUntilFull \/ WriteUntilRate \/ WriteFails
  /\ activity' = (activity \/ sent' # sent)
  /\ once' = TRUE
  /\ events' = IF ~once \/ (writeQueue # <<>> /\ writeQueue' = <<>>)
               THEN Append(events, {"complete"}) ELSE events
  /\ Goto(w, AfterWrite(event[w]))
  /\ UNCHANGED <<limited, phase, connected, disconnecting, queued,
                 registryVars, needOut, established, broken, drained, inputs, trapped>>

(* EPOLLOUT of a socket that was connecting. *)
HandleWriteConnects(w) ==
  /\ pc[w] = "write"
  /\ ~connected
  /\ connected' = TRUE
  /\ blocked' = FALSE
  /\ activity' = TRUE
  /\ triggered' = (writeQueue # <<>>)
  /\ events' = IF writeQueue # <<>> THEN TriggerWrites(events)
               ELSE Append(events, {"complete"})
  /\ Goto(w, AfterWrite(event[w]))
  /\ UNCHANGED <<limited, phase, once, disconnecting, dataVars, registryVars,
                 egress, needOut, kernelVars, trapped>>

(* handleRead: what it reads sets the activity timer, even if the stream   *)
(* was removed.  The client's calls from received are actions of their own.*)
HandleRead(w) ==
  /\ pc[w] = "read"
  /\ activity' = TRUE
  /\ Goto(w, AfterRead(event[w]))
  /\ UNCHANGED <<limited, phase, flagVars, dataVars, registryVars, egress,
                 events, needOut, kernelVars, trapped>>

DisconnectAgain ==    \* mutant: disconnecting is not tested
  /\ disconnecting' = TRUE
  /\ IF phase # "added" THEN UNCHANGED <<registered, timerVars, trapped>>
     ELSE /\ trapped' = (trapped \/ ~registered)
          /\ registered' = FALSE
          /\ activity' = FALSE /\ egress' = FALSE

(* TcpStream::disconnect.  Before Engine::add, self is empty and remove    *)
(* does nothing.  doRemove asserts that eventHash has the stream, and      *)
(* cancels its timers.                                                     *)
Disconnect ==
  /\ disconnecting' = TRUE
  /\ IF disconnecting \/ phase # "added"
     THEN UNCHANGED <<registered, timerVars, trapped>>
     ELSE /\ trapped' = (trapped \/ ~registered)
          /\ registered' = FALSE
          /\ activity' = FALSE /\ egress' = FALSE

HandleError(w) ==
  /\ pc[w] = "error"
  /\ Disconnect
  /\ Goto(w, "wait")
  /\ UNCHANGED <<limited, phase, connected, once, blocked, triggered,
                 dataVars, armed, out, events, needOut, kernelVars>>

(* waitingOutEvent(), before evHashLock is taken, ... *)
ReadNeedOut(w) ==
  /\ pc[w] = "update"
  /\ needOut' = IF WaitingOutEvent THEN needOut \cup {w} ELSE needOut \ {w}
  /\ Goto(w, "mod")
  /\ UNCHANGED <<limited, phase, flagVars, dataVars, registryVars, timerVars,
                 events, kernelVars, trapped>>

(* ... and EPOLL_CTL_MOD. *)
Rearm(w) ==
  /\ pc[w] = "mod"
  /\ IF registered
     THEN armed' = TRUE /\ out' = (w \in needOut)
     ELSE UNCHANGED <<armed, out>>
  /\ needOut' = needOut \ {w}
  /\ Goto(w, "wait")
  /\ UNCHANGED <<limited, phase, flagVars, dataVars, registered, timerVars,
                 events, kernelVars, trapped>>

(* asyncWriteComplete calls the client. *)
AsyncWriteComplete(w) ==
  /\ pc[w] = "own" /\ event[w] = {"complete"}
  /\ Goto(w, "wait")
  /\ UNCHANGED <<limited, phase, flagVars, dataVars, registryVars, timerVars,
                 events, needOut, kernelVars, trapped>>

AsyncDisconnect(w) ==
  /\ pc[w] = "own" /\ event[w] = {"activity"}
  /\ Disconnect
  /\ Goto(w, "wait")
  /\ UNCHANGED <<limited, phase, connected, once, blocked, triggered,
                 dataVars, armed, out, events, needOut, kernelVars>>

AsyncEgress(w) ==
  /\ pc[w] = "own" /\ event[w] = {"egress"}
  /\ trapped' = (trapped \/ ~triggered)
  /\ events' = TriggerWrites(events)
  /\ Goto(w, "wait")
  /\ UNCHANGED <<limited, phase, flagVars, dataVars, registryVars, timerVars,
                 needOut, kernelVars>>

-----------------------------------------------------------------------------
(* The client, on any thread, from the first part of create on.            *)

QueueWriteUnguarded ==    \* mutant: triggers whenever it is connected
  /\ queued < MaxBytes
  /\ queued' = queued + 1
  /\ writeQueue' = Append(writeQueue, queued + 1)
  /\ IF connected
     THEN triggered' = TRUE /\ events' = TriggerWrites(events)
     ELSE UNCHANGED <<triggered, events>>
  /\ UNCHANGED <<limited, phase, connected, once, blocked, disconnecting,
                 registryVars, timerVars, threadVars, kernelVars, trapped>>

(* queueWrite of a byte *)
QueueWrite ==
  /\ queued < MaxBytes
  /\ queued' = queued + 1
  /\ writeQueue' = Append(writeQueue, queued + 1)
  /\ IF connected /\ ~blocked /\ ~triggered
     THEN triggered' = TRUE /\ events' = TriggerWrites(events)
     ELSE UNCHANGED <<triggered, events>>
  /\ UNCHANGED <<limited, phase, connected, once, blocked, disconnecting,
                 registryVars, timerVars, threadVars, kernelVars, trapped>>

ClientDisconnect ==
  /\ Disconnect
  /\ UNCHANGED <<limited, phase, connected, once, blocked, triggered,
                 dataVars, armed, out, events, threadVars, kernelVars>>

-----------------------------------------------------------------------------

Create == CreateAccepted \/ CreateConnected \/ EngineAdd

EpollStep == Report \/ EgressExpires

WorkerStep(w) ==
  \/ Begin(w)
  \/ HandleWriteConnected(w) \/ HandleWriteConnects(w)
  \/ HandleRead(w) \/ HandleError(w)
  \/ ReadNeedOut(w) \/ Rearm(w)
  \/ AsyncWriteComplete(w) \/ AsyncDisconnect(w) \/ AsyncEgress(w)

Next ==
  \/ Create
  \/ Establish \/ Break \/ Drain
  \/ EpollStep \/ ActivityExpires
  \/ \E w \in Worker : WorkerStep(w)
  \/ QueueWrite \/ ClientDisconnect

Spec == Init /\ [][Next]_vars

-----------------------------------------------------------------------------

(* Every variable has its type. *)
TypeOK ==
  /\ phase \in {"new", "add", "added", "failed"}
  /\ {limited, connected, once, blocked, triggered, disconnecting, registered,
      armed, out, activity, egress, established, broken, trapped} \subseteq BOOLEAN
  /\ writeQueue \in Seq(1..MaxBytes)
  /\ queued \in 0..MaxBytes
  /\ events \in Seq(Run \cup Own)
  /\ pc \in [Worker -> {"wait", "own", "write", "read", "error", "update", "mod"}]
  /\ event \in [Worker -> Run \cup Own]
  /\ needOut \subseteq Worker
  /\ sent \in Seq(1..MaxBytes)
  /\ drained \in 0..Len(sent) /\ Len(sent) - drained <= Buffer
  /\ inputs \in 0..MaxInput

(* Neither assertion fails: asyncEgress runs only while writeTriggered is  *)
(* set (tcpstream.cpp:147), and the stream is removed from eventHash only  *)
(* once (engine.cpp:255), whoever disconnects it.                          *)
AssertionsHold == ~trapped

Triggers ==
  Cardinality({i \in DOMAIN events : "out" \in events[i]})
    + Cardinality({w \in Worker : pc[w] = "write"})

EgressPending ==
  \/ egress
  \/ \E i \in DOMAIN events : events[i] = {"egress"}
  \/ \E w \in Worker : event[w] = {"egress"}

(* A limited stream keeps its pace: while its egress timer runs there is   *)
(* no write on its way, and there is never more than one (line 180 tests   *)
(* blocked and writeTriggered, line 142 keeps EPOLLOUT away).              *)
PacedWrites ==
  limited => Triggers + (IF EgressPending THEN 1 ELSE 0) <= 1

RunPending ==
  \/ armed
  \/ \E i \in DOMAIN events : events[i] \notin Own
  \/ \E w \in Worker : pc[w] \in {"write", "read", "error", "update", "mod"}

WritePending ==
  \/ \E i \in DOMAIN events : "out" \in events[i]
  \/ \E w \in Worker : pc[w] = "write"

ActivityPending ==
  \/ activity
  \/ \E i \in DOMAIN events : events[i] = {"activity"}
  \/ \E w \in Worker : event[w] = {"activity"}

(* What is queued is not forgotten, whichever threads write, report and    *)
(* re-arm: a write is on its way; or the egress timer will bring one; or   *)
(* the stream is blocked, or not set up, and the inactivity timer, which   *)
(* is the last resort, runs.  A stream without a limit then asks for       *)
(* EPOLLOUT at its next run, and there is a next run.  The exception is an *)
(* accepted stream whose first write was triggered before Engine::add.     *)
QueuedIsRemembered ==
  registered /\ ~(disconnecting \/ broken) /\ writeQueue # <<>> =>
    \/ WritePending
    \/ limited /\ EgressPending
    \/ limited /\ blocked /\ ActivityPending
    \/ ~limited /\ WaitingOutEvent /\ RunPending /\ ActivityPending
    \/ limited /\ triggered /\ ~once

(* needOut (engine.cpp:311) is what the stream needs: while one without a  *)
(* limit has output queued, EPOLLOUT is asked for, or a run is on its way  *)
(* that will ask for it or write.                                          *)
NoSilentStall ==
  registered /\ ~(disconnecting \/ broken \/ limited) /\ writeQueue # <<>> =>
    \/ armed /\ out
    \/ \E i \in DOMAIN events : events[i] \notin Own
    \/ \E w \in Worker :
         /\ pc[w] \in {"write", "read", "error", "update", "mod"}
         /\ pc[w] = "mod" => w \in needOut

(* The client's bytes reach the socket in order, none lost but at the end, *)
(* none twice, through partial writes, EAGAIN and the egress rate.         *)
Pipe == INSTANCE BytePipe WITH delivered <- sent

ImplementsPipe == Pipe!Spec
=============================================================================
