--------------------------- MODULE DispatchProofs ---------------------------
(***************************************************************************)
(* Proofs about Dispatch, for any number of sockets and workers.           *)
(*                                                                         *)
(* The inductive invariant joins the three safety invariants.  The permits *)
(* are counted by the kind of step: one that leaves queue and semaphore    *)
(* alone, queues an event, or takes one.  The other two invariants rest on *)
(* where a report goes: CarriedStep says that it stays on its way until a  *)
(* worker begins it, RunStep that Engine::run then goes on to handleError  *)
(* or to EPOLL_CTL_MOD.                                                    *)
(***************************************************************************)
EXTENDS Dispatch, TLAPS, FiniteSetTheorems

(* Nothing is queued for a stream that was not added yet. *)
Untouched == \A s \in Sock \ added : unsent[s] = 0

(* epoll_wait is called again only when its last batch was gone through.   *)
BatchHandled ==
  pc[Epoll] = "wait" \/ (pc[Epoll] = "signal" /\ resume[Epoll] = "wait") =>
    batch = {}

(* Only the epoll thread goes back to its batch. *)
WorkersResume == \A w \in Worker : resume[w] # "handle"

IInv ==
  /\ TypeOK
  /\ BatchHandled
  /\ WorkersResume
  /\ PermitPerEvent
  /\ NoLostReadiness
  /\ TriggerNotLost
  /\ Untouched

-----------------------------------------------------------------------------

(* How many threads are at a label, when one of them moves. *)
LEMMA CountMove ==
  ASSUME TypeOK, DispatchAssumption,
         NEW t \in Thread, NEW to \in Label, NEW l \in Label,
         pc' = [pc EXCEPT ![t] = to]
  PROVE  /\ Cardinality(At(l)) \in Nat
         /\ Cardinality(At(l)') \in Nat
         /\ to = l /\ pc[t] # l =>
              Cardinality(At(l)') = Cardinality(At(l)) + 1
         /\ to # l /\ pc[t] = l =>
              Cardinality(At(l)') = Cardinality(At(l)) - 1
         /\ (to = l <=> pc[t] = l) =>
              Cardinality(At(l)') = Cardinality(At(l))
<1>1. IsFiniteSet(Thread)
  BY FS_AddElement DEF Thread, DispatchAssumption
<1>2. At(l) \subseteq Thread /\ At(l)' \subseteq Thread
  BY DEF At
<1>3. IsFiniteSet(At(l)) /\ IsFiniteSet(At(l)')
  BY <1>1, <1>2, FS_Subset
<1>4. /\ to = l => At(l)' = At(l) \cup {t}
      /\ to # l => At(l)' = At(l) \ {t}
      /\ t \in At(l) <=> pc[t] = l
  BY DEF At, TypeOK
<1>5. /\ Cardinality(At(l)) \in Nat
      /\ Cardinality(At(l)') \in Nat
  BY <1>3, FS_CardinalityType
<1>6. to = l /\ pc[t] # l => Cardinality(At(l)') = Cardinality(At(l)) + 1
  BY <1>3, <1>4, FS_AddElement
<1>7. to # l /\ pc[t] = l => Cardinality(At(l)') = Cardinality(At(l)) - 1
  BY <1>3, <1>4, FS_RemoveElement
<1>8. (to = l <=> pc[t] = l) => At(l)' = At(l)
  BY <1>4
<1> QED BY <1>5, <1>6, <1>7, <1>8

(* A thread moves on without touching queue or semaphore. *)
LEMMA QuietPermit ==
  ASSUME TypeOK, DispatchAssumption, PermitPerEvent,
         NEW t \in Thread, NEW to \in Label \ {"pop", "signal"},
         pc[t] \notin {"pop", "signal"},
         pc' = [pc EXCEPT ![t] = to],
         eventQueue' = eventQueue, sem' = sem
  PROVE  PermitPerEvent'
<1>1. /\ Cardinality(At("pop")') = Cardinality(At("pop"))
      /\ Cardinality(At("signal")') = Cardinality(At("signal"))
  BY CountMove DEF Label
<1> QED BY <1>1 DEF PermitPerEvent

(* eventQueue.push_back: the permit is still to be given. *)
LEMMA PostPermit ==
  ASSUME TypeOK, DispatchAssumption, PermitPerEvent,
         NEW t \in Thread, NEW e, NEW next,
         pc[t] \notin {"pop", "signal"},
         e \in Event,
         Post(t, e, next), sem' = sem
  PROVE  PermitPerEvent'
<1>0. pc' = [pc EXCEPT ![t] = "signal"] /\ eventQueue' = Append(eventQueue, e)
  BY DEF Post, Goto
<1>1. /\ Cardinality(At("pop")') = Cardinality(At("pop"))
      /\ Cardinality(At("signal")') = Cardinality(At("signal")) + 1
      /\ Cardinality(At("pop")) \in Nat
      /\ Cardinality(At("signal")) \in Nat
  BY <1>0, CountMove DEF Label
<1>2. Len(eventQueue') = Len(eventQueue) + 1
  BY <1>0 DEF TypeOK
<1>3. sem \in Nat
  BY DEF TypeOK
<1> QED BY <1>1, <1>2, <1>3 DEF PermitPerEvent

(* sem.signal() *)
LEMMA SignalPermit ==
  ASSUME TypeOK, DispatchAssumption, PermitPerEvent,
         NEW t \in Thread, Signal(t)
  PROVE  PermitPerEvent'
<1>1. pc' = [pc EXCEPT ![t] = resume[t]] /\ pc[t] = "signal"
  BY DEF Signal, Goto
<1>2. resume[t] \in Label \ {"pop", "signal"}
  BY DEF TypeOK
<1>3. /\ Cardinality(At("pop")') = Cardinality(At("pop"))
      /\ Cardinality(At("signal")') = Cardinality(At("signal")) - 1
      /\ Cardinality(At("pop")) \in Nat
      /\ Cardinality(At("signal")) \in Nat
  BY <1>1, <1>2, CountMove DEF Label
<1>4. sem' = sem + 1 /\ eventQueue' = eventQueue /\ sem \in Nat
  BY DEF Signal, TypeOK
<1> QED BY <1>3, <1>4 DEF PermitPerEvent

(* sem.wait() *)
LEMMA WaitPermit ==
  ASSUME TypeOK, DispatchAssumption, PermitPerEvent,
         NEW w \in Worker, WorkerWait(w)
  PROVE  PermitPerEvent'
<1>1. pc' = [pc EXCEPT ![w] = "pop"] /\ pc[w] = "wait" /\ w \in Thread
  BY DEF WorkerWait, Goto, Thread
<1>2. /\ Cardinality(At("pop")') = Cardinality(At("pop")) + 1
      /\ Cardinality(At("signal")') = Cardinality(At("signal"))
      /\ Cardinality(At("pop")) \in Nat
      /\ Cardinality(At("signal")) \in Nat
  BY <1>1, CountMove DEF Label
<1>3. sem' = sem - 1 /\ eventQueue' = eventQueue /\ sem \in Nat
  BY DEF WorkerWait, TypeOK
<1> QED BY <1>2, <1>3 DEF PermitPerEvent

(* A worker with a permit finds an event. *)
LEMMA PermitFindsEvent ==
  ASSUME TypeOK, DispatchAssumption, PermitPerEvent,
         NEW w \in Worker, pc[w] = "pop"
  PROVE  eventQueue # <<>> /\ Len(eventQueue) > 0
<1>1. IsFiniteSet(Thread)
  BY FS_AddElement DEF Thread, DispatchAssumption
<1>2. IsFiniteSet(At("pop")) /\ IsFiniteSet(At("signal"))
  BY <1>1, FS_Subset DEF At
<1>3. Cardinality(At("pop")) \in Nat /\ Cardinality(At("signal")) \in Nat
  BY <1>2, FS_CardinalityType
<1>4. At("pop") # {}
  BY DEF At, Thread
<1>5. Cardinality(At("pop")) # 0
  BY <1>2, <1>4, FS_EmptySet
<1>6. Len(eventQueue) > 0
  BY <1>3, <1>5 DEF PermitPerEvent, TypeOK
<1> QED BY <1>6

LEMMA PopPermit ==
  ASSUME TypeOK, DispatchAssumption, PermitPerEvent,
         NEW w \in Worker, WorkerPop(w)
  PROVE  PermitPerEvent'
<1>1. eventQueue # <<>> /\ Len(eventQueue) > 0
  BY PermitFindsEvent DEF WorkerPop
<1>2. /\ pc' = [pc EXCEPT ![w] = "begin"] /\ pc[w] = "pop" /\ w \in Thread
      /\ eventQueue' = Tail(eventQueue) /\ sem' = sem
  BY <1>1 DEF WorkerPop, Thread
<1>3. /\ Cardinality(At("pop")') = Cardinality(At("pop")) - 1
      /\ Cardinality(At("signal")') = Cardinality(At("signal"))
      /\ Cardinality(At("pop")) \in Nat
      /\ Cardinality(At("signal")) \in Nat
  BY <1>2, CountMove DEF Label
<1>4. Len(eventQueue') = Len(eventQueue) - 1
  BY <1>1, <1>2 DEF TypeOK
<1>5. Len(eventQueue) \in Nat /\ sem \in Nat
  BY DEF TypeOK
<1> QED BY <1>2, <1>3, <1>4, <1>5 DEF PermitPerEvent

-----------------------------------------------------------------------------

Resumable == Label \ {"pop", "begin", "call", "signal", "mod"}

(* The types of the variables a thread's move changes. *)
ThreadType ==
  /\ pc \in [Thread -> Label]
  /\ event \in [Worker -> Event]
  /\ resume \in [Thread -> Resumable]
  /\ eventQueue \in Seq(Event)

LEMMA GotoType ==
  ASSUME TypeOK, DispatchAssumption,
         NEW t \in Thread, NEW to \in Label, Goto(t, to)
  PROVE  pc' \in [Thread -> Label] /\ event' \in [Worker -> Event]
<1>1. NoEvent \in Event
  BY DEF NoEvent, Event, Report, DispatchAssumption
<1>2. pc' \in [Thread -> Label]
  BY DEF Goto, TypeOK
<1>3. event' \in [Worker -> Event]
  BY <1>1 DEF Goto, TypeOK
<1> QED BY <1>2, <1>3

LEMMA PostType ==
  ASSUME TypeOK, DispatchAssumption,
         NEW t \in Thread, NEW e \in Event, NEW next \in Resumable,
         Post(t, e, next)
  PROVE  ThreadType'
<1>1. "signal" \in Label
  BY DEF Label
<1>2. pc' \in [Thread -> Label] /\ event' \in [Worker -> Event]
  BY <1>1, GotoType DEF Post
<1>3. eventQueue' \in Seq(Event)
  BY DEF Post, TypeOK
<1>4. resume' \in [Thread -> Resumable]
  BY DEF Post, TypeOK, Resumable
<1> QED BY <1>2, <1>3, <1>4 DEF ThreadType

(* Where Engine::run goes after each handler. *)
LEMMA NextHandler ==
  ASSUME NEW flags
  PROVE  /\ AfterRead(flags) \in {"error", "update"}
         /\ AfterWrite(flags) \in {"read", "error", "update"}
         /\ FirstHandler(flags) \in {"call", "write", "read", "error", "update"}
BY DEF AfterRead, AfterWrite, FirstHandler

(* What the clients' calls do to the threads and the queue. *)
LEMMA ClientCallMoves ==
  ASSUME TypeOK, DispatchAssumption,
         NEW w \in Worker, NEW next \in Resumable, ClientCall(w, next)
  PROVE  \/ Goto(w, next) /\ UNCHANGED <<eventQueue, resume>>
         \/ \E s \in added :
              /\ s \in hash
              /\ [sock |-> s, flags |-> {"out"}] \in Event
              /\ Post(w, [sock |-> s, flags |-> {"out"}], next)
<1>1. \A s \in added : [sock |-> s, flags |-> {"out"}] \in Event
  BY DEF Event, Report, TypeOK
<1>2. CASE ClientIdle(w, next)
  BY <1>2 DEF ClientIdle
<1>3. CASE \E s \in added : ClientWrite(w, s, next)
  <2>1. PICK s \in added : ClientWrite(w, s, next)
    BY <1>3
  <2> QED BY <2>1, <1>1 DEF ClientWrite, NewEvent
<1>4. CASE \E s \in added : ClientDisconnect(w, s, next)
  BY <1>4 DEF ClientDisconnect
<1>5. CASE \E s \in Sock : ClientCreate(w, s, next)
  BY <1>5 DEF ClientCreate
<1> QED BY <1>2, <1>3, <1>4, <1>5 DEF ClientCall

(* ... and to the rest of the state. *)
LEMMA ClientCallType ==
  ASSUME TypeOK, DispatchAssumption,
         NEW w \in Worker, NEW next \in Resumable, ClientCall(w, next)
  PROVE  /\ ThreadType'
         /\ hash' \subseteq added' /\ added' \subseteq Sock
         /\ armed' \subseteq added' /\ out' \subseteq Sock
         /\ unsent' \in [Sock -> Nat]
         /\ blocked' = blocked /\ once' = once
         /\ triggered' \subseteq added'
         /\ calls' \in Nat
<1>0. w \in Thread /\ next \in Label
  BY DEF Thread, Resumable
<1>1. ThreadType'
  <2>1. CASE Goto(w, next) /\ UNCHANGED <<eventQueue, resume>>
    BY <1>0, <2>1, GotoType DEF ThreadType, TypeOK, Resumable
  <2>2. CASE \E s \in added :
              /\ [sock |-> s, flags |-> {"out"}] \in Event
              /\ Post(w, [sock |-> s, flags |-> {"out"}], next)
    BY <1>0, <2>2, PostType
  <2> QED BY <2>1, <2>2, ClientCallMoves
<1>2. CASE ClientIdle(w, next)
  BY <1>1, <1>2 DEF ClientIdle, registryVars, streamVars, TypeOK
<1>3. CASE \E s \in added : ClientWrite(w, s, next)
  <2>1. PICK s \in added : ClientWrite(w, s, next)
    BY <1>3
  <2>2. triggered' \subseteq added
    BY <2>1 DEF ClientWrite, TypeOK
  <2>3. PICK n \in 1..MaxChunks : unsent' = [unsent EXCEPT ![s] = @ + n]
    BY <2>1 DEF ClientWrite
  <2>4. n \in Nat
    BY DEF DispatchAssumption
  <2>5. unsent' \in [Sock -> Nat]
    BY <2>3, <2>4 DEF TypeOK
  <2>6. calls' \in Nat
    BY <2>1 DEF ClientWrite, TypeOK
  <2> QED BY <1>1, <2>1, <2>2, <2>5, <2>6 DEF ClientWrite, registryVars, TypeOK
<1>4. CASE \E s \in added : ClientDisconnect(w, s, next)
  BY <1>1, <1>4 DEF ClientDisconnect, streamVars, TypeOK
<1>5. CASE \E s \in Sock : ClientCreate(w, s, next)
  BY <1>1, <1>5 DEF ClientCreate, streamVars, TypeOK
<1> QED BY <1>2, <1>3, <1>4, <1>5 DEF ClientCall

LEMMA InitType == DispatchAssumption /\ Init => TypeOK
<1> SUFFICES ASSUME DispatchAssumption, Init PROVE TypeOK
  OBVIOUS
<1>1. NoEvent \in Event
  BY DEF NoEvent, Event, Report, DispatchAssumption
<1>2. eventQueue \in Seq(Event)
  BY DEF Init
<1>3. pc \in [Thread -> Label] /\ resume \in [Thread -> Resumable]
  BY DEF Init, Label, Resumable
<1> QED BY <1>1, <1>2, <1>3 DEF Init, TypeOK, Resumable, DispatchAssumption

LEMMA EnvironmentType ==
  ASSUME TypeOK, Environment
  PROVE  TypeOK'
<1>0. added \subseteq Sock
  BY DEF TypeOK
<1>1. CASE \E s \in Sock : Arrive(s)
  <2>1. PICK s \in Sock : Arrive(s)
    BY <1>1
  <2>2. arrived' \in [Sock -> Nat] /\ unread' \in [Sock -> Nat]
    BY <2>1 DEF Arrive, TypeOK
  <2> QED BY <2>1, <2>2 DEF Arrive, TypeOK, registryVars, streamVars, threadVars
<1>2. CASE \E s \in Sock : Room(s)
  BY <1>2 DEF Room, TypeOK, registryVars, streamVars, threadVars
<1>3. CASE \E s \in Sock : Fail(s)
  BY <1>3 DEF Fail, TypeOK, registryVars, streamVars, threadVars
<1> QED BY <1>0, <1>1, <1>2, <1>3 DEF Environment

LEMMA SignalType ==
  ASSUME TypeOK, DispatchAssumption, NEW t \in Thread, Signal(t)
  PROVE  TypeOK'
<1>1. resume[t] \in Label
  BY DEF TypeOK
<1>2. pc' \in [Thread -> Label] /\ event' \in [Worker -> Event]
  BY <1>1, GotoType DEF Signal
<1>3. resume' \in [Thread -> Resumable]
  BY DEF Signal, TypeOK, Resumable, Label
<1> QED BY <1>2, <1>3 DEF Signal, TypeOK, Resumable, registryVars, kernelVars,
     streamVars

LEMMA EpollType ==
  ASSUME TypeOK, DispatchAssumption,
         EpollWait \/ EpollHandle \/ (\E s \in added : EpollTimer(s))
  PROVE  TypeOK'
<1>0. Epoll \in Thread /\ {"wait", "handle", "signal"} \subseteq Label
      /\ {"wait", "handle"} \subseteq Resumable
  BY DEF Thread, Label, Resumable
<1>1. CASE EpollWait
  <2>1. batch' \subseteq Report
    BY <1>1 DEF EpollWait, Reportable, Ready, Report, TypeOK
  <2>2. armed' \subseteq added
    BY <1>1 DEF EpollWait, TypeOK
  <2>3. pc' \in [Thread -> Label] /\ event' \in [Worker -> Event]
    BY <1>0, <1>1, GotoType DEF EpollWait
  <2> QED BY <1>1, <2>1, <2>2, <2>3 DEF EpollWait, TypeOK, kernelVars, streamVars
<1>2. CASE EpollHandle
  <2>1. PICK b \in batch :
          /\ batch' = batch \ {b}
          /\ NewEvent(Epoll, b, IF batch' = {} THEN "wait" ELSE "handle")
    BY <1>2 DEF EpollHandle
  <2>2. b \in Event
    BY DEF TypeOK, Event
  <2>3. ThreadType'
    <3> DEFINE next == IF batch' = {} THEN "wait" ELSE "handle"
    <3>1. next \in Resumable /\ next \in Label
      BY <1>0
    <3>2. CASE b.sock \in hash
      <4>1. Post(Epoll, b, next)
        BY <2>1, <3>2 DEF NewEvent
      <4> HIDE DEF next
      <4> QED BY <1>0, <2>2, <3>1, <4>1, PostType
    <3>3. CASE b.sock \notin hash
      <4>1. Goto(Epoll, next) /\ UNCHANGED <<eventQueue, resume>>
        BY <2>1, <3>3 DEF NewEvent
      <4> HIDE DEF next
      <4>2. pc' \in [Thread -> Label] /\ event' \in [Worker -> Event]
        BY <1>0, <3>1, <4>1, GotoType
      <4> QED BY <4>1, <4>2 DEF ThreadType, TypeOK, Resumable
    <3> QED BY <3>2, <3>3
  <2> QED BY <1>2, <2>1, <2>3 DEF EpollHandle, ThreadType, TypeOK, Resumable,
       registryVars, kernelVars, streamVars
<1>3. CASE \E s \in added : EpollTimer(s)
  <2>1. PICK s \in added : EpollTimer(s)
    BY <1>3
  <2>2. [sock |-> s, flags |-> {"call"}] \in Event
    BY DEF Event, TypeOK
  <2>3. ThreadType'
    BY <1>0, <2>1, <2>2, PostType DEF EpollTimer
  <2> QED BY <2>1, <2>3 DEF EpollTimer, ThreadType, TypeOK, Resumable,
       registryVars, kernelVars, streamVars
<1> QED BY <1>1, <1>2, <1>3

LEMMA WorkerType ==
  ASSUME TypeOK, DispatchAssumption, PermitPerEvent,
         NEW w \in Worker, WorkerStep(w)
  PROVE  TypeOK'
<1>0. w \in Thread /\ Resumable \subseteq Label /\ "wait" \in Resumable
  BY DEF Thread, Resumable, Label
<1>1. CASE WorkerWait(w)
  <2>1. pc' \in [Thread -> Label] /\ event' \in [Worker -> Event]
    BY <1>0, <1>1, GotoType DEF WorkerWait, Label
  <2>2. sem' \in Nat
    BY <1>1 DEF WorkerWait, TypeOK
  <2> QED BY <1>1, <2>1, <2>2 DEF WorkerWait, TypeOK, Resumable, registryVars,
       kernelVars, streamVars
<1>2. CASE WorkerPop(w)
  <2>1. eventQueue # <<>>
    BY <1>2, PermitFindsEvent DEF WorkerPop
  <2>2. Head(eventQueue) \in Event /\ Tail(eventQueue) \in Seq(Event)
    BY <2>1 DEF TypeOK
  <2>3. /\ pc' \in [Thread -> Label] /\ event' \in [Worker -> Event]
        /\ eventQueue' \in Seq(Event)
    BY <1>0, <1>2, <2>1, <2>2 DEF WorkerPop, TypeOK, Label
  <2> QED BY <1>2, <2>3 DEF WorkerPop, TypeOK, Resumable, registryVars,
       kernelVars, streamVars
<1>3. CASE WorkerBegin(w)
  <2>1. FirstHandler(event[w].flags) \in Label /\ "wait" \in Label
    BY NextHandler DEF Label
  <2>2. pc' \in [Thread -> Label] /\ event' \in [Worker -> Event]
    BY <1>0, <1>3, <2>1, GotoType DEF WorkerBegin
  <2> QED BY <1>3, <2>2 DEF WorkerBegin, TypeOK, Resumable, registryVars,
       kernelVars, streamVars
<1>4. CASE Signal(w)
  BY <1>0, <1>4, SignalType
<1>5. CASE HandleWrite(w)
  <2> DEFINE s == event[w].sock
             next == AfterWrite(event[w].flags)
  <2>1. s \in Sock /\ next \in Resumable /\ next \in Label
    BY NextHandler DEF TypeOK, Event, Report, Resumable, Label
  <2>2. unsent' \in [Sock -> Nat]
    <3>1. \E n \in Nat : unsent' = [unsent EXCEPT ![s] = n]
      <4>1. /\ \A n \in 1..unsent[s] : n \in Nat
            /\ \A n \in 0..unsent[s] - 1 : n \in Nat
        BY <2>1 DEF TypeOK
      <4> QED BY <1>5, <4>1 DEF HandleWrite
    <3> HIDE DEF s
    <3> QED BY <2>1, <3>1 DEF TypeOK
  <2>3. /\ blocked' \subseteq Sock /\ once' \subseteq Sock
        /\ triggered' \subseteq added /\ writable' \subseteq Sock
    BY <1>5, <2>1 DEF HandleWrite, TypeOK
  <2>4. ThreadType'
    <3>1. CASE Post(w, [sock |-> s, flags |-> {"call"}], next)
      <4>1. [sock |-> s, flags |-> {"call"}] \in Event
        BY <2>1 DEF Event
      <4> HIDE DEF s, next
      <4> QED BY <1>0, <2>1, <3>1, <4>1, PostType
    <3>2. CASE Goto(w, next) /\ UNCHANGED <<eventQueue, resume>>
      <4> HIDE DEF s, next
      <4> QED BY <1>0, <2>1, <3>2, GotoType DEF ThreadType, TypeOK, Resumable
    <3> QED BY <1>5, <3>1, <3>2 DEF HandleWrite
  <2> QED BY <1>5, <2>2, <2>3, <2>4 DEF HandleWrite, TypeOK, ThreadType,
       Resumable, registryVars
<1>6. CASE HandleReadChunk(w)
  <2>1. "reading" \in Resumable
    BY DEF Resumable, Label
  <2>2. unread' \in [Sock -> Nat]
    <3>1. event[w].sock \in Sock
      BY DEF TypeOK, Event, Report
    <3> QED BY <1>6, <3>1 DEF HandleReadChunk, TypeOK
  <2>3. ClientCall(w, "reading")
    BY <1>6 DEF HandleReadChunk
  <2> QED BY <1>6, <2>1, <2>2, <2>3, ClientCallType DEF HandleReadChunk, TypeOK,
       ThreadType, Resumable
<1>7. CASE HandleReadEnd(w)
  <2>1. AfterRead(event[w].flags) \in Label
    BY NextHandler DEF Label
  <2>2. pc' \in [Thread -> Label] /\ event' \in [Worker -> Event]
    BY <1>0, <1>7, <2>1, GotoType DEF HandleReadEnd
  <2> QED BY <1>7, <2>2 DEF HandleReadEnd, TypeOK, Resumable, registryVars,
       kernelVars, streamVars
<1>8. CASE HandleError(w)
  <2>1. pc' \in [Thread -> Label] /\ event' \in [Worker -> Event]
    BY <1>0, <1>8, GotoType DEF HandleError
  <2> QED BY <1>8, <2>1 DEF HandleError, TypeOK, Resumable, kernelVars,
       streamVars
<1>9. CASE ReadNeedOut(w)
  <2>1. pc' \in [Thread -> Label] /\ event' \in [Worker -> Event]
    BY <1>0, <1>9, GotoType DEF ReadNeedOut, Label
  <2> QED BY <1>9, <2>1 DEF ReadNeedOut, TypeOK, Resumable, registryVars,
       kernelVars, streamVars
<1>10. CASE Rearm(w)
  <2>1. pc' \in [Thread -> Label] /\ event' \in [Worker -> Event]
    BY <1>0, <1>10, GotoType DEF Rearm
  <2> QED BY <1>10, <2>1 DEF Rearm, TypeOK, Resumable, kernelVars, streamVars
<1>11. CASE RunCallback(w)
  <2>1. ClientCall(w, "wait")
    BY <1>11 DEF RunCallback
  <2> QED BY <1>0, <1>11, <2>1, ClientCallType DEF RunCallback, TypeOK,
       ThreadType, Resumable, kernelVars
<1> QED BY <1>1, <1>2, <1>3, <1>4, <1>5, <1>6, <1>7, <1>8, <1>9, <1>10, <1>11
     DEF WorkerStep

LEMMA StepType ==
  ASSUME TypeOK, DispatchAssumption, PermitPerEvent, [Next]_vars
  PROVE  TypeOK'
<1>1. CASE UNCHANGED vars
  BY <1>1 DEF vars, registryVars, kernelVars, streamVars, threadVars, TypeOK
<1>2. CASE Next
  <2>1. Epoll \in Thread
    BY DEF Thread
  <2> QED BY <1>2, <2>1, EnvironmentType, EpollType, SignalType, WorkerType
       DEF Next, EpollStep
<1> QED BY <1>1, <1>2

-----------------------------------------------------------------------------

(* Every step keeps one permit per queued event.                           *)
LEMMA StepPermit ==
  ASSUME TypeOK, DispatchAssumption, PermitPerEvent, [Next]_vars
  PROVE  PermitPerEvent'
<1>0. Epoll \in Thread /\ Worker \subseteq Thread
  BY DEF Thread
<1>1. CASE UNCHANGED vars \/ Environment
  BY <1>1 DEF vars, threadVars, Environment, Arrive, Room, Fail,
     PermitPerEvent, At
<1>2. ASSUME NEW t \in Thread, Signal(t) PROVE PermitPerEvent'
  BY <1>2, SignalPermit
<1>3. CASE EpollWait
  <2>1. /\ pc[Epoll] = "wait" /\ pc' = [pc EXCEPT ![Epoll] = "handle"]
        /\ eventQueue' = eventQueue /\ sem' = sem
    BY <1>3 DEF EpollWait, Goto
  <2> QED BY <1>0, <2>1, QuietPermit DEF Label
<1>4. CASE EpollHandle
  <2> DEFINE next == IF batch' = {} THEN "wait" ELSE "handle"
  <2>1. PICK b \in batch : NewEvent(Epoll, b, next)
    BY <1>4 DEF EpollHandle
  <2>2. b \in Event /\ pc[Epoll] = "handle" /\ sem' = sem
    BY <1>4 DEF EpollHandle, TypeOK, Event
  <2>3. next \in Label \ {"pop", "signal"}
    BY DEF Label
  <2>4. CASE Post(Epoll, b, next)
    <3> HIDE DEF next
    <3> QED BY <1>0, <2>2, <2>4, PostPermit
  <2>5. CASE Goto(Epoll, next) /\ UNCHANGED <<eventQueue, resume>>
    <3> HIDE DEF next
    <3> QED BY <1>0, <2>2, <2>3, <2>5, QuietPermit DEF Goto
  <2> QED BY <2>1, <2>4, <2>5 DEF NewEvent
<1>5. CASE \E s \in added : EpollTimer(s)
  <2>1. PICK s \in added : EpollTimer(s)
    BY <1>5
  <2>2. [sock |-> s, flags |-> {"call"}] \in Event
    BY DEF Event, TypeOK
  <2> QED BY <1>0, <2>1, <2>2, PostPermit DEF EpollTimer
<1>6. ASSUME NEW w \in Worker, WorkerStep(w) PROVE PermitPerEvent'
  <2>1. CASE WorkerWait(w)
    BY <2>1, WaitPermit
  <2>2. CASE WorkerPop(w)
    BY <2>2, PopPermit
  <2>3. CASE Signal(w)
    BY <1>0, <2>3, SignalPermit
  <2>4. CASE WorkerBegin(w) \/ HandleReadEnd(w) \/ HandleError(w)
             \/ ReadNeedOut(w) \/ Rearm(w)
    <3>1. /\ FirstHandler(event[w].flags) \in Label \ {"pop", "signal"}
          /\ AfterRead(event[w].flags) \in Label \ {"pop", "signal"}
          /\ {"wait", "mod"} \subseteq Label \ {"pop", "signal"}
      BY NextHandler DEF Label
    <3>2. /\ \E to \in Label \ {"pop", "signal"} : pc' = [pc EXCEPT ![w] = to]
          /\ pc[w] \notin {"pop", "signal"}
          /\ eventQueue' = eventQueue /\ sem' = sem
      BY <2>4, <3>1 DEF WorkerBegin, HandleReadEnd, HandleError, ReadNeedOut,
         Rearm, Reads, Goto
    <3> QED BY <1>0, <3>2, QuietPermit
  <2>5. CASE HandleWrite(w)
    <3> DEFINE e == [sock |-> event[w].sock, flags |-> {"call"}]
               next == AfterWrite(event[w].flags)
    <3>1. e \in Event
      BY DEF Event, Report, TypeOK
    <3>2. next \in Label \ {"pop", "signal"}
      BY NextHandler DEF Label
    <3>3. pc[w] = "write" /\ sem' = sem
      BY <2>5 DEF HandleWrite
    <3>4. CASE Post(w, e, next)
      <4> HIDE DEF e, next
      <4> QED BY <1>0, <3>1, <3>3, <3>4, PostPermit
    <3>5. CASE Goto(w, next) /\ UNCHANGED <<eventQueue, resume>>
      <4> HIDE DEF e, next
      <4> QED BY <1>0, <3>2, <3>3, <3>5, QuietPermit DEF Goto
    <3> QED BY <2>5, <3>4, <3>5 DEF HandleWrite
  <2>6. CASE HandleReadChunk(w) \/ RunCallback(w)
    <3>1. PICK next \in {"reading", "wait"} : ClientCall(w, next)
      BY <2>6 DEF HandleReadChunk, RunCallback
    <3>2. next \in Resumable /\ next \in Label \ {"pop", "signal"}
      BY DEF Resumable, Label
    <3>3. pc[w] \notin {"pop", "signal"} /\ sem' = sem
      BY <2>6 DEF HandleReadChunk, RunCallback, Reads
    <3>4. CASE Goto(w, next) /\ UNCHANGED <<eventQueue, resume>>
      BY <1>0, <3>2, <3>3, <3>4, QuietPermit DEF Goto
    <3>5. CASE \E e \in Event : Post(w, e, next)
      BY <1>0, <3>3, <3>5, PostPermit
    <3> QED BY <3>1, <3>2, <3>4, <3>5, ClientCallMoves
  <2> QED BY <1>6, <2>1, <2>2, <2>3, <2>4, <2>5, <2>6 DEF WorkerStep
<1> QED BY <1>0, <1>1, <1>2, <1>3, <1>4, <1>5, <1>6 DEF Next, EpollStep

-----------------------------------------------------------------------------

(* A step leaves the threads other than t where they are. *)
Moves(t) ==
  \A u \in Thread \ {t} :
    /\ pc'[u] = pc[u]
    /\ resume'[u] = resume[u]
    /\ u \in Worker => event'[u] = event[u]

(* How a step of t that begins no event moves t and the queue. *)
Moved(t, to) ==
  /\ pc[t] # "begin"
  /\ Goto(t, to)
  /\ batch' = batch
  /\ \/ eventQueue' = eventQueue /\ resume' = resume
     \/ /\ to = "signal"
        /\ \E e \in Event : eventQueue' = Append(eventQueue, e)
        /\ resume'[t] \in Resumable
        /\ \A u \in Thread \ {t} : resume'[u] = resume[u]

LEMMA PostMoved ==
  ASSUME TypeOK, NEW t \in Thread, NEW e \in Event, NEW next \in Resumable,
         pc[t] # "begin", Post(t, e, next), batch' = batch
  PROVE  Moved(t, "signal") /\ resume'[t] = next
BY DEF Post, Moved, TypeOK, Resumable

LEMMA ClientMoved ==
  ASSUME TypeOK, DispatchAssumption,
         NEW w \in Worker, NEW next \in Resumable,
         ClientCall(w, next), batch' = batch, pc[w] # "begin"
  PROVE  \/ Moved(w, next) /\ UNCHANGED resume
         \/ Moved(w, "signal") /\ resume'[w] = next
<1>1. w \in Thread
  BY DEF Thread
<1>2. CASE Goto(w, next) /\ UNCHANGED <<eventQueue, resume>>
  BY <1>2 DEF Moved
<1>3. CASE \E e \in Event : Post(w, e, next)
  BY <1>1, <1>3, PostMoved
<1> QED BY <1>2, <1>3, ClientCallMoves

LEMMA ReadMoved ==
  ASSUME TypeOK, DispatchAssumption, NEW w \in Worker, HandleReadChunk(w)
  PROVE  \/ Moved(w, "reading") /\ UNCHANGED resume
         \/ Moved(w, "signal") /\ resume'[w] = "reading"
<1>1. ClientCall(w, "reading") /\ batch' = batch /\ pc[w] # "begin"
  BY DEF HandleReadChunk, Reads
<1>2. "reading" \in Resumable
  BY DEF Resumable, Label
<1> QED BY <1>1, <1>2, ClientMoved

LEMMA CallbackMoved ==
  ASSUME TypeOK, DispatchAssumption, NEW w \in Worker, RunCallback(w)
  PROVE  \/ Moved(w, "wait") /\ UNCHANGED resume
         \/ Moved(w, "signal") /\ resume'[w] = "wait"
<1>1. ClientCall(w, "wait") /\ batch' = batch /\ pc[w] # "begin"
  BY DEF RunCallback
<1>2. "wait" \in Resumable
  BY DEF Resumable, Label
<1> QED BY <1>1, <1>2, ClientMoved

LEMMA WriteMoved ==
  ASSUME TypeOK, NEW w \in Worker, HandleWrite(w)
  PROVE  \E next \in {"read", "error", "update"} :
           \/ Moved(w, next) /\ UNCHANGED resume
           \/ Moved(w, "signal") /\ resume'[w] = next
<1> DEFINE e == [sock |-> event[w].sock, flags |-> {"call"}]
           next == AfterWrite(event[w].flags)
<1>1. e \in Event /\ next \in {"read", "error", "update"}
  BY NextHandler DEF Event, Report, TypeOK
<1>2. next \in Resumable /\ w \in Thread
  BY <1>1 DEF Resumable, Label, Thread
<1>3. pc[w] = "write" /\ batch' = batch
  BY DEF HandleWrite
<1>4. Post(w, e, next) \/ (Goto(w, next) /\ UNCHANGED <<eventQueue, resume>>)
  BY DEF HandleWrite
<1> HIDE DEF e, next
<1>5. CASE Post(w, e, next)
  BY <1>1, <1>2, <1>3, <1>5, PostMoved
<1>6. CASE Goto(w, next) /\ UNCHANGED <<eventQueue, resume>>
  BY <1>1, <1>3, <1>6 DEF Moved
<1> QED BY <1>4, <1>5, <1>6

(* Every thread's steps are its own. *)
LEMMA StepMoves ==
  ASSUME TypeOK, DispatchAssumption, PermitPerEvent, [Next]_vars
  PROVE  \/ UNCHANGED <<threadVars, batch, eventQueue>>
         \/ Moves(Epoll) /\ (EpollStep \/ \E s \in added : EpollTimer(s))
         \/ \E w \in Worker : Moves(w) /\ WorkerStep(w)
<1>0. Epoll \in Thread /\ Worker \subseteq Thread /\ Epoll \notin Worker
  BY DEF Thread, DispatchAssumption
<1>1. ASSUME NEW t \in Thread, NEW to, Goto(t, to),
             \A u \in Thread \ {t} : resume'[u] = resume[u]
      PROVE  Moves(t)
  BY <1>1 DEF Goto, Moves, TypeOK
<1>2. ASSUME NEW t \in Thread, NEW to, Moved(t, to) PROVE Moves(t)
  BY <1>1, <1>2 DEF Moved
<1>3. ASSUME NEW t \in Thread, Signal(t) PROVE Moves(t)
  <2>1. \A u \in Thread \ {t} : resume'[u] = resume[u]
    BY <1>3 DEF Signal, TypeOK
  <2> QED BY <1>1, <1>3, <2>1 DEF Signal
<1>4. CASE UNCHANGED vars \/ Environment
  BY <1>4 DEF vars, Environment, Arrive, Room, Fail
<1>5. ASSUME EpollWait \/ EpollHandle \/ (\E s \in added : EpollTimer(s))
      PROVE  Moves(Epoll)
  <2>1. \E to : Goto(Epoll, to)
    BY <1>5 DEF EpollWait, EpollHandle, EpollTimer, NewEvent, Post
  <2>2. \A u \in Thread \ {Epoll} : resume'[u] = resume[u]
    BY <1>5 DEF EpollWait, EpollHandle, EpollTimer, NewEvent, Post, TypeOK
  <2> QED BY <1>0, <1>1, <2>1, <2>2
<1>6. ASSUME NEW w \in Worker, WorkerStep(w) PROVE Moves(w)
  <2>1. CASE WorkerPop(w)
    <3>1. eventQueue # <<>>
      BY <2>1, PermitFindsEvent DEF WorkerPop
    <3> QED BY <1>0, <2>1, <3>1 DEF WorkerPop, Moves, TypeOK
  <2>2. CASE Signal(w)
    BY <1>0, <1>3, <2>2
  <2>3. CASE HandleWrite(w)
    BY <1>0, <1>2, <2>3, WriteMoved
  <2>4. CASE HandleReadChunk(w) \/ RunCallback(w)
    BY <1>0, <1>2, <2>4, ReadMoved, CallbackMoved
  <2>5. CASE WorkerWait(w) \/ WorkerBegin(w) \/ HandleReadEnd(w)
             \/ HandleError(w) \/ ReadNeedOut(w) \/ Rearm(w)
    <3>1. (\E to : Goto(w, to)) /\ resume' = resume
      BY <2>5 DEF WorkerWait, WorkerBegin, HandleReadEnd, HandleError,
         ReadNeedOut, Rearm
    <3> QED BY <1>0, <1>1, <3>1
  <2> QED BY <1>6, <2>1, <2>2, <2>3, <2>4, <2>5 DEF WorkerStep
<1> QED BY <1>0, <1>3, <1>4, <1>5, <1>6 DEF Next, EpollStep

(* An event on its way stays on its way until a worker begins it, or its   *)
(* socket is removed.                                                      *)
LEMMA CarriedStep ==
  ASSUME TypeOK, DispatchAssumption, PermitPerEvent, BatchHandled, [Next]_vars,
         NEW s \in hash, NEW flags, Carried(s, flags)
  PROVE  \/ Carried(s, flags)'
         \/ \E w \in Worker :
              /\ WorkerBegin(w)
              /\ event[w].sock = s /\ event[w].flags \cap flags # {}
<1>0. Epoll \in Thread /\ Worker \subseteq Thread /\ Epoll \notin Worker
  BY DEF Thread, DispatchAssumption
<1>q. eventQueue \in Seq(Event)
  BY DEF TypeOK
<1> DEFINE Same(v) == pc'[v] = pc[v] /\ event'[v] = event[v]
<1>1. ASSUME batch \subseteq batch',
             \A v \in Worker : pc[v] = "begin" => Same(v),
             \A i \in DOMAIN eventQueue :
               i \in DOMAIN eventQueue' /\ eventQueue'[i] = eventQueue[i]
      PROVE  Carried(s, flags)'
  BY <1>1 DEF Carried
<1>2. ASSUME \/ eventQueue' = eventQueue
             \/ \E e \in Event : eventQueue' = Append(eventQueue, e)
      PROVE  \A i \in DOMAIN eventQueue :
               i \in DOMAIN eventQueue' /\ eventQueue'[i] = eventQueue[i]
  BY <1>2, <1>q
<1>3. CASE UNCHANGED <<threadVars, batch, eventQueue>>
  BY <1>1, <1>3 DEF threadVars
<1>4. ASSUME NEW t \in Thread, NEW to, Moves(t), Moved(t, to)
      PROVE  Carried(s, flags)'
  <2>1. \A v \in Worker : pc[v] = "begin" => Same(v)
    BY <1>0, <1>4 DEF Moves, Moved
  <2>2. batch \subseteq batch'
    BY <1>4 DEF Moved
  <2>3. \/ eventQueue' = eventQueue
        \/ \E e \in Event : eventQueue' = Append(eventQueue, e)
    BY <1>4 DEF Moved
  <2> QED BY <1>1, <1>2, <2>1, <2>2, <2>3
<1>5. ASSUME NEW t \in Thread, Moves(t), Signal(t)
      PROVE  Carried(s, flags)'
  <2>1. \A v \in Worker : pc[v] = "begin" => Same(v)
    BY <1>0, <1>5 DEF Moves, Signal
  <2> QED BY <1>1, <1>5, <2>1 DEF Signal
<1>6. CASE Moves(Epoll) /\ EpollWait
  <2>1. batch = {} /\ eventQueue' = eventQueue
    BY <1>6 DEF BatchHandled, EpollWait
  <2>2. \A v \in Worker : Same(v)
    BY <1>0, <1>6 DEF Moves
  <2> QED BY <1>1, <2>1, <2>2
<1>7. CASE Moves(Epoll) /\ EpollHandle
  <2>1. PICK b \in batch :
          /\ batch' = batch \ {b}
          /\ eventQueue' = IF b.sock \in hash THEN Append(eventQueue, b)
                                              ELSE eventQueue
    BY <1>7 DEF EpollHandle, NewEvent, Post
  <2>2. b \in Event
    BY DEF TypeOK, Event
  <2>3. \A v \in Worker : Same(v)
    BY <1>0, <1>7 DEF Moves
  <2>4. \A i \in DOMAIN eventQueue :
          i \in DOMAIN eventQueue' /\ eventQueue'[i] = eventQueue[i]
    BY <1>2, <2>1, <2>2
  <2>5. CASE b.sock = s /\ b.flags \cap flags # {}
    <3>1. eventQueue' = Append(eventQueue, b)
      BY <2>1, <2>5
    <3>2. /\ Len(eventQueue) + 1 \in DOMAIN eventQueue'
          /\ eventQueue'[Len(eventQueue) + 1] = b
      BY <1>q, <2>2, <3>1
    <3> QED BY <2>5, <3>2 DEF Carried
  <2>6. CASE ~(b.sock = s /\ b.flags \cap flags # {})
    BY <2>1, <2>3, <2>4, <2>6 DEF Carried
  <2> QED BY <2>5, <2>6
<1>8. CASE Moves(Epoll) /\ \E r \in added : EpollTimer(r)
  <2>1. PICK r \in added : EpollTimer(r)
    BY <1>8
  <2>2. [sock |-> r, flags |-> {"call"}] \in Event /\ "wait" \in Resumable
    BY DEF Event, TypeOK, Resumable, Label
  <2>3. Moved(Epoll, "signal")
    BY <1>0, <2>1, <2>2, PostMoved DEF EpollTimer
  <2> QED BY <1>0, <1>4, <1>8, <2>3
<1>9. ASSUME NEW w \in Worker, Moves(w), WorkerPop(w)
      PROVE  Carried(s, flags)'
  <2>1. eventQueue # <<>> /\ Len(eventQueue) > 0
    BY <1>9, PermitFindsEvent DEF WorkerPop
  <2>2. /\ pc[w] = "pop" /\ pc'[w] = "begin" /\ event'[w] = Head(eventQueue)
        /\ eventQueue' = Tail(eventQueue) /\ batch' = batch
    BY <1>0, <1>9, <2>1 DEF WorkerPop, TypeOK
  <2>3. \A v \in Worker : pc[v] = "begin" => Same(v)
    BY <1>0, <1>9, <2>2 DEF Moves
  <2>4. CASE \E i \in DOMAIN eventQueue :
               eventQueue[i].sock = s /\ eventQueue[i].flags \cap flags # {}
    <3>1. PICK i \in DOMAIN eventQueue :
            eventQueue[i].sock = s /\ eventQueue[i].flags \cap flags # {}
      BY <2>4
    <3>2. CASE i = 1
      <4>1. event'[w] = eventQueue[1]
        BY <2>2
      <4> QED BY <2>2, <3>1, <3>2, <4>1 DEF Carried
    <3>3. CASE i # 1
      <4>1. i - 1 \in DOMAIN eventQueue' /\ eventQueue'[i - 1] = eventQueue[i]
        BY <1>q, <2>1, <2>2, <3>1, <3>3
      <4> QED BY <3>1, <4>1 DEF Carried
    <3> QED BY <3>2, <3>3
  <2> QED BY <2>2, <2>3, <2>4 DEF Carried
<1>10. ASSUME NEW w \in Worker, Moves(w), WorkerBegin(w),
              ~(event[w].sock = s /\ event[w].flags \cap flags # {})
       PROVE  Carried(s, flags)'
  <2>1. \A v \in Worker : v # w => Same(v)
    BY <1>0, <1>10 DEF Moves
  <2>2. batch' = batch /\ eventQueue' = eventQueue
    BY <1>10 DEF WorkerBegin
  <2> QED BY <1>10, <2>1, <2>2 DEF Carried
<1>11. ASSUME NEW w \in Worker, Moves(w), WorkerStep(w),
              ~Signal(w), ~WorkerPop(w), ~WorkerBegin(w)
       PROVE  Carried(s, flags)'
  <2>1. CASE HandleWrite(w)
    BY <1>0, <1>4, <1>11, <2>1, WriteMoved
  <2>2. CASE HandleReadChunk(w) \/ RunCallback(w)
    BY <1>0, <1>4, <1>11, <2>2, ReadMoved, CallbackMoved
  <2>3. CASE WorkerWait(w) \/ HandleReadEnd(w) \/ HandleError(w)
             \/ ReadNeedOut(w) \/ Rearm(w)
    <3>1. \E to : Moved(w, to)
      BY <2>3 DEF Moved, WorkerWait, HandleReadEnd, HandleError, ReadNeedOut,
         Rearm, Reads
    <3> QED BY <1>0, <1>4, <1>11, <3>1
  <2> QED BY <1>11, <2>1, <2>2, <2>3 DEF WorkerStep
<1> QED BY <1>0, <1>3, <1>5, <1>6, <1>7, <1>8, <1>9, <1>10, <1>11, StepMoves
     DEF EpollStep

(* A run goes on until it removes the socket or arms it again. *)
LEMMA RunStep ==
  ASSUME TypeOK, DispatchAssumption, PermitPerEvent, WorkersResume,
         [Next]_vars, NEW v \in Worker, InRun(v)
  PROVE  \/ InRun(v)' /\ event'[v] = event[v]
         \/ HandleError(v)
         \/ Rearm(v)
<1>0. /\ Epoll \in Thread /\ Worker \subseteq Thread /\ Epoll \notin Worker
      /\ v \in Thread
  BY DEF Thread, DispatchAssumption
<1>1. ASSUME UNCHANGED threadVars \/ \E t \in Thread \ {v} : Moves(t)
      PROVE  InRun(v)' /\ event'[v] = event[v]
  BY <1>0, <1>1 DEF Moves, InRun, threadVars
<1>2. ASSUME NEW to \in {"read", "reading", "error", "update", "mod", "write"},
             Goto(v, to)
      PROVE  InRun(v)' /\ event'[v] = event[v]
  BY <1>0, <1>2 DEF Goto, InRun, TypeOK
<1>3. ASSUME NEW next \in {"read", "reading", "error", "update"},
             \/ Moved(v, next)
             \/ Moved(v, "signal") /\ resume'[v] = next
      PROVE  InRun(v)' /\ event'[v] = event[v]
  <2>1. CASE Moved(v, next)
    BY <1>2, <2>1 DEF Moved
  <2>2. CASE Moved(v, "signal") /\ resume'[v] = next
    BY <1>0, <2>2 DEF Moved, Goto, InRun, TypeOK
  <2> QED BY <1>3, <2>1, <2>2
<1>4. CASE WorkerStep(v)
  <2>1. CASE Signal(v)
    <3>1. resume[v] \in {"read", "reading", "error", "update", "write"}
      BY <1>0, <2>1 DEF Signal, InRun, WorkersResume, TypeOK, Label
    <3> QED BY <1>2, <2>1, <3>1 DEF Signal
  <2>2. CASE HandleWrite(v)
    BY <1>3, <2>2, WriteMoved
  <2>3. CASE HandleReadChunk(v)
    BY <1>3, <2>3, ReadMoved
  <2>4. CASE HandleReadEnd(v)
    BY <1>2, <2>4, NextHandler DEF HandleReadEnd
  <2>5. CASE ReadNeedOut(v)
    BY <1>2, <2>5 DEF ReadNeedOut
  <2>6. CASE WorkerWait(v) \/ WorkerPop(v) \/ WorkerBegin(v) \/ RunCallback(v)
    BY <2>6 DEF WorkerWait, WorkerPop, WorkerBegin, RunCallback, InRun
  <2> QED BY <1>4, <2>1, <2>2, <2>3, <2>4, <2>5, <2>6 DEF WorkerStep
<1> QED BY <1>0, <1>1, <1>4, StepMoves

(* epoll_wait is called only with its last batch gone through, and workers *)
(* do not resume at newEvent.                                              *)
LEMMA StepBatch ==
  ASSUME TypeOK, DispatchAssumption, PermitPerEvent, BatchHandled,
         WorkersResume, [Next]_vars
  PROVE  BatchHandled' /\ WorkersResume'
<1>0. /\ Epoll \in Thread /\ Worker \subseteq Thread /\ Epoll \notin Worker
      /\ {"wait", "handle"} \subseteq Resumable
  BY DEF Thread, DispatchAssumption, Resumable, Label
<1>1. CASE UNCHANGED <<threadVars, batch, eventQueue>>
  BY <1>1 DEF threadVars, BatchHandled, WorkersResume
<1>2. CASE Moves(Epoll) /\ (EpollStep \/ \E s \in added : EpollTimer(s))
  <2>1. WorkersResume'
    BY <1>0, <1>2 DEF Moves, WorkersResume
  <2>2. CASE EpollWait
    <3>1. pc'[Epoll] = "handle"
      BY <1>0, <2>2 DEF EpollWait, Goto, TypeOK
    <3> QED BY <2>1, <3>1 DEF BatchHandled
  <2>3. CASE EpollHandle
    <3> DEFINE next == IF batch' = {} THEN "wait" ELSE "handle"
    <3>1. PICK b \in batch : NewEvent(Epoll, b, next)
      BY <2>3 DEF EpollHandle
    <3>2. CASE Post(Epoll, b, next)
      <4>1. pc'[Epoll] = "signal" /\ resume'[Epoll] = next
        BY <1>0, <3>2 DEF Post, Goto, TypeOK
      <4> QED BY <2>1, <4>1 DEF BatchHandled
    <3>3. CASE Goto(Epoll, next)
      <4>1. pc'[Epoll] = next
        BY <1>0, <3>3 DEF Goto, TypeOK
      <4> QED BY <2>1, <4>1 DEF BatchHandled
    <3> QED BY <3>1, <3>2, <3>3 DEF NewEvent
  <2>4. CASE Signal(Epoll)
    <3>1. /\ pc'[Epoll] = resume[Epoll] /\ resume[Epoll] # "signal"
          /\ batch' = batch /\ pc[Epoll] = "signal"
      BY <1>0, <2>4 DEF Signal, Goto, TypeOK
    <3> QED BY <2>1, <3>1 DEF BatchHandled
  <2>5. CASE \E s \in added : EpollTimer(s)
    BY <2>1, <2>5 DEF EpollTimer, BatchHandled
  <2> QED BY <1>2, <2>2, <2>3, <2>4, <2>5 DEF EpollStep
<1>3. ASSUME NEW w \in Worker, Moves(w), WorkerStep(w)
      PROVE  BatchHandled' /\ WorkersResume'
  <2>1. batch' = batch
    BY <1>3 DEF WorkerStep, WorkerWait, WorkerPop, WorkerBegin, Signal,
       HandleWrite, HandleReadChunk, HandleReadEnd, HandleError, ReadNeedOut,
       Rearm, RunCallback
  <2>2. BatchHandled'
    BY <1>0, <1>3, <2>1 DEF Moves, BatchHandled
  <2>3. resume'[w] \in {resume[w], "wait", "read", "reading", "error", "update"}
    <3>1. CASE Signal(w)
      BY <1>0, <3>1 DEF Signal, TypeOK
    <3>2. CASE HandleWrite(w)
      BY <3>2, WriteMoved
    <3>3. CASE HandleReadChunk(w) \/ RunCallback(w)
      BY <3>3, ReadMoved, CallbackMoved
    <3>4. CASE WorkerWait(w) \/ WorkerPop(w) \/ WorkerBegin(w)
               \/ HandleReadEnd(w) \/ HandleError(w) \/ ReadNeedOut(w) \/ Rearm(w)
      BY <3>4 DEF WorkerWait, WorkerPop, WorkerBegin, HandleReadEnd,
         HandleError, ReadNeedOut, Rearm
    <3> QED BY <1>3, <3>1, <3>2, <3>3, <3>4 DEF WorkerStep
  <2>4. WorkersResume'
    BY <1>0, <1>3, <2>3 DEF Moves, WorkersResume
  <2> QED BY <2>2, <2>4
<1> QED BY <1>1, <1>2, <1>3, StepMoves

-----------------------------------------------------------------------------

Begun(w, s, flags) ==
  WorkerBegin(w) /\ event[w].sock = s /\ event[w].flags \cap flags # {}

(* An event of a registered socket that is begun is run. *)
LEMMA BegunRuns ==
  ASSUME TypeOK, NEW w \in Worker, NEW s \in hash,
         NEW flags \in SUBSET {"in", "out", "error"}, Begun(w, s, flags)
  PROVE  /\ event'[w] = event[w]
         /\ pc'[w] \in {"write", "read", "error", "update"}
         /\ "out" \in event[w].flags => pc'[w] = "write"
<1>1. event[w] \in Event /\ w \in Thread
  BY DEF TypeOK, Thread
<1>2. "call" \notin event[w].flags
  BY <1>1 DEF Event, Report, Begun
<1>3. Goto(w, FirstHandler(event[w].flags))
  BY DEF Begun, WorkerBegin
<1>4. /\ FirstHandler(event[w].flags) \in {"write", "read", "error", "update"}
      /\ "out" \in event[w].flags => FirstHandler(event[w].flags) = "write"
  BY <1>2, NextHandler DEF FirstHandler
<1>5. pc'[w] = FirstHandler(event[w].flags)
  BY <1>1, <1>3 DEF Goto, TypeOK
<1>6. event'[w] = event[w]
  BY <1>3, <1>4 DEF Goto
<1> QED BY <1>4, <1>5, <1>6

(* What is armed stays so until it is reported, and what is added is armed. *)
LEMMA ArmedStep ==
  ASSUME TypeOK, DispatchAssumption, [Next]_vars
  PROVE  /\ \A s \in hash' : s \in hash \/ s \in armed'
         /\ \A s \in armed :
              \/ s \in armed'
              \/ Carried(s, {"in", "out", "error"})'
<1>1. CASE EpollWait
  <2>1. PICK S \in SUBSET Reportable :
          /\ batch' = {[sock |-> s, flags |-> Ready(s)] : s \in S}
          /\ armed' = armed \ S
    BY <1>1 DEF EpollWait
  <2>2. SUFFICES ASSUME NEW s \in S
                 PROVE  Carried(s, {"in", "out", "error"})'
    BY <1>1, <2>1 DEF EpollWait
  <2> DEFINE b == [sock |-> s, flags |-> Ready(s)]
  <2>3. b \in batch' /\ b.sock = s /\ b.flags = Ready(s)
    BY <2>1
  <2>4. Ready(s) # {} /\ Ready(s) \subseteq {"in", "out", "error"}
    BY DEF Reportable, Ready
  <2>5. b.flags \cap {"in", "out", "error"} # {}
    BY <2>3, <2>4
  <2> HIDE DEF b
  <2> QED BY <2>3, <2>5 DEF Carried
<1>2. ASSUME NEW w \in Worker, HandleReadChunk(w) \/ RunCallback(w)
      PROVE  armed \subseteq armed' /\ \A s \in hash' : s \in hash \/ s \in armed'
  <2>1. PICK next : ClientCall(w, next)
    BY <1>2 DEF HandleReadChunk, RunCallback
  <2> QED BY <2>1 DEF ClientCall, ClientIdle, ClientWrite, ClientDisconnect,
       ClientCreate, registryVars
<1>3. ASSUME NEW w \in Worker, WorkerStep(w)
      PROVE  armed \subseteq armed' /\ \A s \in hash' : s \in hash \/ s \in armed'
  BY <1>2, <1>3 DEF WorkerStep, WorkerWait, WorkerPop, WorkerBegin, Signal,
     HandleWrite, HandleReadEnd, HandleError, ReadNeedOut, Rearm, registryVars
<1>4. CASE UNCHANGED vars \/ Environment \/ EpollHandle \/ Signal(Epoll)
           \/ \E s \in added : EpollTimer(s)
  BY <1>4 DEF vars, Environment, Arrive, Room, Fail, EpollHandle, Signal,
     EpollTimer, registryVars
<1> QED BY <1>1, <1>3, <1>4 DEF Next, EpollStep

LEMMA StepReadiness ==
  ASSUME TypeOK, DispatchAssumption, PermitPerEvent, BatchHandled,
         WorkersResume, NoLostReadiness, [Next]_vars
  PROVE  NoLostReadiness'
<1> DEFINE F == {"in", "out", "error"}
<1>1. SUFFICES ASSUME NEW s \in hash'
               PROVE  \/ s \in armed'
                      \/ Carried(s, F)'
                      \/ \E w \in Worker : event'[w].sock = s /\ InRun(w)'
  BY DEF NoLostReadiness
<1>2. CASE s \notin hash \/ s \in armed
  BY <1>2, ArmedStep
<1>3. CASE s \in hash /\ Carried(s, F)
  <2>1. Carried(s, F)' \/ \E w \in Worker : Begun(w, s, F)
    BY <1>3, CarriedStep DEF Begun
  <2>2. ASSUME NEW w \in Worker, Begun(w, s, F)
        PROVE  event'[w].sock = s /\ InRun(w)'
    BY <1>3, <2>2, BegunRuns DEF Begun, InRun
  <2> QED BY <2>1, <2>2
<1>4. CASE s \in hash /\ \E w \in Worker : event[w].sock = s /\ InRun(w)
  <2>1. PICK w \in Worker : event[w].sock = s /\ InRun(w)
    BY <1>4
  <2>2. CASE InRun(w)' /\ event'[w] = event[w]
    BY <2>1, <2>2
  <2>3. CASE HandleError(w)
    BY <1>1, <2>1, <2>3 DEF HandleError
  <2>4. CASE Rearm(w)
    BY <1>4, <2>1, <2>4 DEF Rearm
  <2> QED BY <2>1, <2>2, <2>3, <2>4, RunStep
<1> QED BY <1>2, <1>3, <1>4 DEF NoLostReadiness

-----------------------------------------------------------------------------

(* Who changes a stream's output: handleWrite, and queueWrite.  A socket   *)
(* that has failed stays so.                                               *)
LEMMA StreamStep ==
  ASSUME TypeOK, DispatchAssumption, [Next]_vars
  PROVE  /\ added \subseteq added' /\ failed \subseteq failed'
         /\ hash' \subseteq hash \cup (Sock \ added)
         /\ \/ UNCHANGED streamVars
            \/ \E w \in Worker : HandleWrite(w)
            \/ \E w \in Worker, s \in added, next \in Resumable :
                 ClientWrite(w, s, next)
<1>1. ASSUME NEW w \in Worker, HandleReadChunk(w) \/ RunCallback(w)
      PROVE  /\ added \subseteq added' /\ failed' = failed
             /\ hash' \subseteq hash \cup (Sock \ added)
             /\ \/ UNCHANGED streamVars
                \/ \E s \in added, next \in Resumable : ClientWrite(w, s, next)
  <2>1. PICK next \in Resumable : ClientCall(w, next)
    BY <1>1 DEF HandleReadChunk, RunCallback, Resumable, Label
  <2>2. failed' = failed
    BY <1>1 DEF HandleReadChunk, RunCallback, kernelVars
  <2> QED BY <2>1, <2>2 DEF ClientCall, ClientIdle, ClientWrite,
       ClientDisconnect, ClientCreate, registryVars
<1>2. ASSUME NEW w \in Worker, HandleWrite(w)
      PROVE  UNCHANGED <<added, hash, failed>>
  BY <1>2 DEF HandleWrite, registryVars
<1>3. ASSUME NEW w \in Worker,
             WorkerWait(w) \/ WorkerPop(w) \/ WorkerBegin(w) \/ Signal(w)
             \/ HandleReadEnd(w) \/ HandleError(w) \/ ReadNeedOut(w) \/ Rearm(w)
      PROVE  /\ added' = added /\ failed' = failed
             /\ hash' \subseteq hash /\ UNCHANGED streamVars
  BY <1>3 DEF WorkerWait, WorkerPop, WorkerBegin, Signal, HandleReadEnd,
     HandleError, ReadNeedOut, Rearm, registryVars, kernelVars
<1>4. CASE UNCHANGED vars \/ Environment \/ EpollStep
           \/ \E s \in added : EpollTimer(s)
  <2>1. UNCHANGED <<added, hash, streamVars>>
    BY <1>4 DEF vars, Environment, Arrive, Room, Fail, EpollStep, EpollWait,
       EpollHandle, Signal, EpollTimer, registryVars
  <2>2. failed \subseteq failed'
    BY <1>4 DEF vars, Environment, Arrive, Room, Fail, EpollStep, EpollWait,
       EpollHandle, Signal, EpollTimer, kernelVars
  <2> QED BY <2>1, <2>2
<1> QED BY <1>1, <1>2, <1>3, <1>4 DEF Next, WorkerStep

(* handleWrite sends all that is queued, or leaves the stream blocked, or  *)
(* a write failed.                                                         *)
LEMMA WriteSends ==
  ASSUME TypeOK, NEW w \in Worker, HandleWrite(w)
  PROVE  /\ hash' = hash /\ added' = added /\ failed' = failed
         /\ triggered' = triggered \ {event[w].sock}
         /\ \A r \in Sock \ {event[w].sock} :
              unsent'[r] = unsent[r] /\ (r \in blocked' <=> r \in blocked)
         /\ \/ unsent'[event[w].sock] = 0
            \/ unsent[event[w].sock] > 0 /\ event[w].sock \in blocked'
            \/ unsent[event[w].sock] > 0 /\ event[w].sock \in failed
<1> DEFINE s == event[w].sock
<1>1. s \in Sock
  BY DEF TypeOK, Event, Report
<1>2. \/ unsent' = [unsent EXCEPT ![s] = 0] /\ blocked' = blocked \ {s}
      \/ \E n \in 1..unsent[s] :
           unsent' = [unsent EXCEPT ![s] = n] /\ blocked' = blocked \cup {s}
      \/ /\ s \in failed
         /\ \E n \in 0..unsent[s] - 1 :
              unsent' = [unsent EXCEPT ![s] = n] /\ blocked' = blocked \ {s}
  BY DEF HandleWrite
<1>3. /\ hash' = hash /\ added' = added /\ failed' = failed
      /\ triggered' = triggered \ {s}
  BY DEF HandleWrite, registryVars
<1> HIDE DEF s
<1>4. CASE unsent' = [unsent EXCEPT ![s] = 0] /\ blocked' = blocked \ {s}
  BY <1>1, <1>3, <1>4 DEF TypeOK, s
<1>5. CASE \E n \in 1..unsent[s] :
             unsent' = [unsent EXCEPT ![s] = n] /\ blocked' = blocked \cup {s}
  <2>1. unsent[s] \in Nat
    BY <1>1 DEF TypeOK
  <2>2. unsent[s] > 0
    BY <1>5, <2>1
  <2> QED BY <1>1, <1>3, <1>5, <2>2 DEF TypeOK, s
<1>6. CASE /\ s \in failed
           /\ \E n \in 0..unsent[s] - 1 :
                unsent' = [unsent EXCEPT ![s] = n] /\ blocked' = blocked \ {s}
  <2>1. unsent[s] \in Nat
    BY <1>1 DEF TypeOK
  <2>2. unsent[s] > 0
    BY <1>6, <2>1
  <2> QED BY <1>1, <1>3, <1>6, <2>2 DEF TypeOK, s
<1> QED BY <1>2, <1>4, <1>5, <1>6

LEMMA StepTrigger ==
  ASSUME TypeOK, DispatchAssumption, PermitPerEvent, BatchHandled,
         WorkersResume, TriggerNotLost, Untouched, [Next]_vars
  PROVE  TriggerNotLost' /\ Untouched'
<1> DEFINE OnItsWay(s) ==
             \/ Carried(s, {"out"})
             \/ \E w \in Worker : event[w].sock = s /\ pc[w] = "write"
<1>0. Worker \subseteq Thread /\ Epoll \notin Worker
  BY DEF Thread, DispatchAssumption
<1>1. ASSUME NEW s \in hash, OnItsWay(s)
      PROVE  OnItsWay(s)' \/ \E w \in Worker : HandleWrite(w) /\ event[w].sock = s
  <2>1. CASE Carried(s, {"out"})
    <3>1. Carried(s, {"out"})' \/ \E w \in Worker : Begun(w, s, {"out"})
      BY <2>1, CarriedStep DEF Begun
    <3>2. ASSUME NEW w \in Worker, Begun(w, s, {"out"})
          PROVE  event'[w].sock = s /\ pc'[w] = "write"
      BY <3>2, BegunRuns DEF Begun
    <3> QED BY <3>1, <3>2
  <2>2. CASE \E w \in Worker : event[w].sock = s /\ pc[w] = "write"
    <3>1. PICK w \in Worker : event[w].sock = s /\ pc[w] = "write"
      BY <2>2
    <3>2. \/ pc'[w] = pc[w] /\ event'[w] = event[w]
          \/ WorkerStep(w)
      BY <1>0, StepMoves DEF Moves, threadVars
    <3>3. WorkerStep(w) => HandleWrite(w)
      BY <3>1 DEF WorkerStep, WorkerWait, WorkerPop, WorkerBegin, Signal,
         HandleReadChunk, HandleReadEnd, Reads, HandleError, ReadNeedOut,
         Rearm, RunCallback
    <3> QED BY <3>1, <3>2, <3>3
  <2> QED BY <1>1, <2>1, <2>2
<1>2. \A s \in hash' : s \in hash \/ (s \in Sock \ added)
  BY StreamStep
<1>3. CASE UNCHANGED streamVars
  <2>1. ASSUME NEW s \in hash'
        PROVE  /\ s \in triggered' => OnItsWay(s)'
               /\ unsent'[s] > 0 => s \in triggered' \cup blocked' \cup failed'
    <3>1. CASE s \in hash
      <4>1. s \in triggered => OnItsWay(s)'
        <5>1. \A w \in Worker : HandleWrite(w) /\ event[w].sock = s => s \notin triggered'
          BY DEF HandleWrite
        <5> HIDE DEF OnItsWay
        <5>2. s \in triggered => OnItsWay(s)
          BY <3>1 DEF TriggerNotLost, OnItsWay
        <5> QED BY <1>1, <1>3, <3>1, <5>1, <5>2 DEF streamVars
      <4>2. failed \subseteq failed'
        BY StreamStep
      <4> QED BY <1>3, <3>1, <4>1, <4>2 DEF streamVars, TriggerNotLost
    <3>2. CASE s \in Sock \ added
      <4>1. unsent[s] = 0 /\ s \notin triggered
        BY <3>2 DEF Untouched, TypeOK
      <4> QED BY <1>3, <4>1 DEF streamVars
    <3> QED BY <1>2, <3>1, <3>2
  <2>2. Untouched'
    <3>1. Sock \ added' \subseteq Sock \ added
      BY StreamStep
    <3> QED BY <1>3, <3>1 DEF streamVars, Untouched
  <2> QED BY <2>1, <2>2 DEF TriggerNotLost
<1>4. ASSUME NEW w \in Worker, HandleWrite(w)
      PROVE  TriggerNotLost' /\ Untouched'
  <2>1. ASSUME NEW s \in hash'
        PROVE  /\ s \in triggered' => OnItsWay(s)'
               /\ unsent'[s] > 0 => s \in triggered' \cup blocked' \cup failed'
    <3>0. s \in hash /\ s \in Sock
      BY <1>4, WriteSends DEF TypeOK
    <3>1. CASE s = event[w].sock
      <4>1. s \notin triggered'
            /\ (unsent'[s] = 0 \/ s \in blocked' \/ s \in failed')
        BY <1>4, <3>1, WriteSends
      <4> QED BY <4>1
    <3>2. CASE s # event[w].sock
      <4>1. /\ s \in triggered' <=> s \in triggered
            /\ s \in blocked' <=> s \in blocked
            /\ unsent'[s] = unsent[s] /\ failed' = failed
        BY <1>4, <3>0, <3>2, WriteSends
      <4>2. \A v \in Worker : HandleWrite(v) /\ event[v].sock = s => s \notin triggered'
        BY DEF HandleWrite
      <4> HIDE DEF OnItsWay
      <4>3. s \in triggered => OnItsWay(s)
        BY <3>0 DEF TriggerNotLost, OnItsWay
      <4>4. unsent[s] > 0 => s \in triggered \cup blocked \cup failed
        BY <3>0 DEF TriggerNotLost
      <4> QED BY <1>1, <3>0, <4>1, <4>2, <4>3, <4>4
    <3> QED BY <3>1, <3>2
  <2>2. Untouched'
    <3>1. ASSUME NEW r \in Sock \ added PROVE unsent'[r] = 0
      <4>1. unsent[r] = 0
        BY DEF Untouched
      <4> QED BY <1>4, <4>1, WriteSends
    <3> QED BY <1>4, <3>1, WriteSends DEF Untouched
  <2> QED BY <2>1, <2>2 DEF TriggerNotLost
<1>5. ASSUME NEW w \in Worker, NEW r \in added, NEW next \in Resumable,
             ClientWrite(w, r, next)
      PROVE  TriggerNotLost' /\ Untouched'
  <2>0. /\ hash' = hash /\ added' = added /\ blocked' = blocked
        /\ \E n \in 1..MaxChunks : unsent' = [unsent EXCEPT ![r] = @ + n]
        /\ r \in Sock /\ failed \subseteq failed'
    BY <1>5, StreamStep DEF ClientWrite, registryVars, TypeOK
  <2>1. ASSUME NEW s \in hash
        PROVE  /\ s \in triggered' => OnItsWay(s)'
               /\ unsent'[s] > 0 => s \in triggered' \cup blocked' \cup failed'
    <3>0. s \in Sock
      BY DEF TypeOK
    <3>1. \A v \in Worker : ~(HandleWrite(v) /\ event[v].sock = s /\ s \in triggered')
      BY DEF HandleWrite
    <3>2. s \in triggered => OnItsWay(s)
      BY DEF TriggerNotLost
    <3>3. CASE s \in triggered
      <4>1. triggered \subseteq triggered'
        BY <1>5 DEF ClientWrite
      <4> HIDE DEF OnItsWay
      <4> QED BY <1>1, <3>1, <3>2, <3>3, <4>1
    <3>4. CASE s \notin triggered /\ s # r
      <4>1. s \notin triggered' /\ unsent'[s] = unsent[s]
        BY <1>5, <2>0, <3>0, <3>4 DEF ClientWrite, TypeOK
      <4> QED BY <2>0, <3>4, <4>1 DEF TriggerNotLost
    <3>5. CASE s \notin triggered /\ s = r /\ s \in blocked
      <4>1. s \notin triggered'
        BY <1>5, <3>5 DEF ClientWrite
      <4> QED BY <2>0, <3>5, <4>1
    <3>6. CASE s \notin triggered /\ s = r /\ s \notin blocked
      <4> DEFINE e == [sock |-> s, flags |-> {"out"}]
      <4>1. e \in Event /\ eventQueue \in Seq(Event)
        BY <3>0 DEF Event, Report, TypeOK
      <4>2. s \in triggered' /\ eventQueue' = Append(eventQueue, e)
        BY <1>5, <3>6 DEF ClientWrite, NewEvent, Post
      <4>3. /\ Len(eventQueue) + 1 \in DOMAIN eventQueue'
            /\ eventQueue'[Len(eventQueue) + 1] = e
        BY <4>1, <4>2
      <4>4. e.sock = s /\ e.flags \cap {"out"} # {}
        OBVIOUS
      <4> HIDE DEF e
      <4>5. Carried(s, {"out"})'
        BY <4>3, <4>4 DEF Carried
      <4> QED BY <4>2, <4>5
    <3> QED BY <3>3, <3>4, <3>5, <3>6
  <2>2. Untouched'
    BY <2>0 DEF Untouched, TypeOK
  <2> QED BY <2>0, <2>1, <2>2 DEF TriggerNotLost
<1> QED BY <1>3, <1>4, <1>5, StreamStep

-----------------------------------------------------------------------------

(* The invariant of Dispatch, and that it is inductive.                    *)
THEOREM InductiveInvariant == Spec => []IInv
<1>1. DispatchAssumption
  BY DispatchAssumption
<1>2. Init => IInv
  <2> SUFFICES ASSUME Init PROVE IInv
    OBVIOUS
  <2>1. TypeOK
    BY <1>1, InitType
  <2>2. PermitPerEvent
    <3>1. At("pop") = {} /\ At("signal") = {}
      BY DEF At, Init
    <3>2. Cardinality(At("pop")) = 0 /\ Cardinality(At("signal")) = 0
      BY <3>1, FS_EmptySet
    <3>3. Len(eventQueue) = 0 /\ sem = 0
      BY DEF Init
    <3> QED BY <3>2, <3>3 DEF PermitPerEvent
  <2>3. NoLostReadiness
    BY DEF Init, NoLostReadiness
  <2>4. TriggerNotLost /\ Untouched
    BY <1>1 DEF Init, TriggerNotLost, Untouched, DispatchAssumption
  <2>5. BatchHandled /\ WorkersResume
    BY DEF Init, BatchHandled, WorkersResume, Thread
  <2> QED BY <2>1, <2>2, <2>3, <2>4, <2>5 DEF IInv
<1>3. IInv /\ [Next]_vars => IInv'
  <2> SUFFICES ASSUME IInv, [Next]_vars PROVE IInv'
    OBVIOUS
  <2> USE <1>1
  <2>1. TypeOK' /\ PermitPerEvent'
    BY StepType, StepPermit DEF IInv
  <2>2. BatchHandled' /\ WorkersResume'
    BY StepBatch DEF IInv
  <2>3. NoLostReadiness'
    BY StepReadiness DEF IInv
  <2>4. TriggerNotLost' /\ Untouched'
    BY StepTrigger DEF IInv
  <2> QED BY <2>1, <2>2, <2>3, <2>4 DEF IInv
<1> QED BY <1>2, <1>3, PTL DEF Spec

(* Every variable always has its type. *)
THEOREM TypeCorrect == Spec => []TypeOK
<1>1. IInv => TypeOK
  BY DEF IInv
<1> QED BY <1>1, InductiveInvariant, PTL

(* Whatever the interleaving of epoll thread and workers, a queued event   *)
(* has its permit: Semaphore::signal after the push in Engine::newEvent    *)
(* and Semaphore::wait before the pop in Engine::worker never part.        *)
THEOREM EachEventHasItsPermit == Spec => []PermitPerEvent
<1>1. IInv => PermitPerEvent
  BY DEF IInv
<1> QED BY <1>1, InductiveInvariant, PTL

(* The EPOLLONESHOT registration of a socket in eventHash is never left    *)
(* disabled: it is enabled, its report is on its way to Engine::run, or    *)
(* Engine::run is on its way to EPOLL_CTL_MOD.                             *)
THEOREM ReadinessIsNeverLost == Spec => []NoLostReadiness
<1>1. IInv => NoLostReadiness
  BY DEF IInv
<1> QED BY <1>1, InductiveInvariant, PTL

(* writeTriggered always stands for an event that will write, so what      *)
(* TcpStream::queueWrite leaves to it is not forgotten; and only a write   *)
(* that failed leaves a queue with neither writeTriggered nor blocked.     *)
THEOREM TriggerIsNeverLost == Spec => []TriggerNotLost
<1>1. IInv => TriggerNotLost
  BY DEF IInv
<1> QED BY <1>1, InductiveInvariant, PTL
=============================================================================
