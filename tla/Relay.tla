------------------------------- MODULE Relay -------------------------------
(***************************************************************************)
(* The proxy of main.cpp: an HttpProxy, the client of a stream that was    *)
(* accepted, and the Remotes it makes, each the client of a stream to the  *)
(* host a request names (tcpconn.cpp).                                     *)
(*                                                                         *)
(* Of the two TcpStreams only what their clients see is here, as module    *)
(* TcpStream has it: what is queued is written, and writeComplete follows. *)
(* A TcpStream is never destroyed, so neither HttpProxy::disconnected nor  *)
(* Remote::disconnect is ever called, and a Remote that was given a stream *)
(* lives for ever.  The client's input is a series of numbered chunks.     *)
(***************************************************************************)
EXTENDS Naturals, Sequences, FiniteSets, SequencesExt

CONSTANTS
  MaxChunks,   \* bound: chunks the client sends
  MaxRemotes,  \* bound: Remotes the HttpProxy makes
  MaxReplies   \* bound: chunks the remote host sends

ASSUME RelayAssumption ==
  MaxChunks \in Nat /\ MaxRemotes \in Nat /\ MaxReplies \in Nat

Remote == 1 .. MaxRemotes

(* The streams: the HttpProxy's own, and those of the Remotes.             *)
Proxy == 0
Stream == Remote \cup {Proxy}

VARIABLES
  taken,       \* the chunks read so far
  reader,      \* where the worker is that reads from the client
  header,      \* HttpProxy::header
  headerKind,  \* what header holds: too short, no blank line, or one
  ep,          \* HttpProxy::ep: empty, or the Remote made last
  place,       \* place[r]: how far the Remote r is
  initWrite,   \* initWrite[r]: Remote::initWrite
  relayed,     \* relayed[r]: the chunks r gave to its stream
  given,       \* given[r]: those the HttpProxy gave to r (history)
  unsent,      \* the streams with something to write
  once,        \* those with TcpStream::once
  completing,  \* those whose notifyWriteComplete is queued
  gone,        \* whether the client's stream was disconnected
  disconnectWhenCompleted,
  replies      \* chunks the remote host has sent

headerVars == <<header, headerKind, ep>>
remoteVars == <<place, initWrite, relayed, given>>
streamVars == <<unsent, once, completing, gone>>
vars == <<taken, reader, headerVars, remoteVars, streamVars,
          disconnectWhenCompleted, replies>>

(* A stream was accepted: the listener's factory made the HttpProxy, and   *)
(* TcpStream::create queued the first notifyWriteComplete.                 *)
Init ==
  /\ taken = 0
  /\ reader = "idle"
  /\ header = <<>>
  /\ headerKind = "short"
  /\ ep = {}
  /\ place = [r \in Remote |-> "unused"]
  /\ initWrite = [r \in Remote |-> <<>>]
  /\ relayed = [r \in Remote |-> <<>>]
  /\ given = [r \in Remote |-> <<>>]
  /\ unsent = {}
  /\ once = {}
  /\ completing = {Proxy}
  /\ gone = FALSE
  /\ disconnectWhenCompleted = FALSE
  /\ replies = 0

(* weak_ptr<Remote>::lock and weak_ptr<TcpStream>::lock                    *)
EpLocked == {r \in ep : place[r] # "dead"}

HasStream(r) == place[r] \in {"stream", "open", "ended"}

(* The worker in doWrite holds Remote::lock.                               *)
Locked(r) == r \in ep /\ reader \in {"writeNow", "writeLater"}

-----------------------------------------------------------------------------
(* TcpStream::handleRead of the client's stream.  The loop goes on after a *)
(* disconnect.                                                             *)

StartReading ==
  /\ reader = "idle" /\ ~gone
  /\ reader' = "reading"
  /\ UNCHANGED <<taken, headerVars, remoteVars, streamVars,
                 disconnectWhenCompleted, replies>>

StopReading ==
  /\ reader = "reading"
  /\ reader' = "idle"
  /\ UNCHANGED <<taken, headerVars, remoteVars, streamVars,
                 disconnectWhenCompleted, replies>>

(* HttpProxy::received with a Remote: doWrite.                             *)
ReceivedForRemote ==
  /\ reader = "reading" /\ EpLocked # {}
  /\ taken < MaxChunks
  /\ taken' = taken + 1
  /\ reader' = "doWrite"
  /\ UNCHANGED <<headerVars, remoteVars, streamVars, disconnectWhenCompleted, replies>>

(* HttpProxy::received without one: what the chunk makes of the header     *)
(* depends on what the header was.                                         *)
ReceivesHeader ==
  /\ reader = "reading" /\ EpLocked = {}
  /\ taken < MaxChunks
  /\ taken' = taken + 1
  /\ UNCHANGED <<disconnectWhenCompleted, replies>>

(* Less than four bytes, so at most three chunks. *)
HeaderTooShort ==
  /\ ReceivesHeader
  /\ headerKind = "short" /\ Len(header) < 3
  /\ header' = Append(header, taken')
  /\ UNCHANGED <<reader, headerKind, ep, remoteVars, streamVars>>

HeaderWithoutBlankLine ==
  /\ ReceivesHeader
  /\ headerKind # "whole"
  /\ header' = Append(header, taken')
  /\ headerKind' = "long"
  /\ gone' = TRUE
  /\ UNCHANGED <<reader, ep, remoteVars, unsent, once, completing>>

(* make_shared<Remote> with a copy of the header, and                      *)
(* TcpConnection::create: the address is known, or cannot be known, or the *)
(* resolver is still to tell; TcpStream::create may fail too.              *)
OpenRemote(r, bytes) ==
  /\ place[r] = "unused"
  /\ \A q \in Remote : q < r => place[q] # "unused"
  /\ \E p \in {"resolving", "stream", "ended", "failed"} :
       place' = [place EXCEPT ![r] = p]
  /\ initWrite' = [initWrite EXCEPT ![r] = bytes]
  /\ given' = [given EXCEPT ![r] = bytes]
  /\ UNCHANGED <<relayed, streamVars>>

KeepsNone(r) == {}    \* mutant: ep = sp forgotten

(* ep = sp *)
Keeps(r) == {r}

HeaderOfGet ==
  /\ ReceivesHeader
  /\ header' = Append(header, taken')
  /\ headerKind' = "whole"
  /\ \E r \in Remote :
       /\ OpenRemote(r, header')
       /\ ep' = Keeps(r)
       /\ reader' = IF place'[r] = "failed" THEN "failing" ELSE "reading"

(* CONNECT: the header is erased up to the end of the blank line, which    *)
(* ends in the new chunk unless there was one before; the rest of that     *)
(* chunk, if any, counts as the chunk.                                     *)
HeaderOfConnect ==
  /\ ReceivesHeader
  /\ \E first \in 1 .. Len(header) + 2 :
       /\ headerKind # "whole" => first > Len(header)
       /\ header' = SubSeq(Append(header, taken'), first, Len(header) + 1)
  /\ headerKind' \in IF header' = <<>> THEN {"short"} ELSE {"short", "long", "whole"}
  /\ \E r \in Remote :
       /\ OpenRemote(r, header')
       /\ ep' = Keeps(r)
       /\ reader' = IF place'[r] = "failed" THEN "failingConnect" ELSE "answer"

(* TcpConnection::create has returned after it called disconnected.        *)
CreateFailed ==
  /\ reader \in {"failing", "failingConnect"}
  /\ \A r \in Remote : place[r] \notin {"failed", "flagging"}
  /\ reader' = IF reader = "failing" THEN "reading" ELSE "answer"
  /\ UNCHANGED <<taken, headerVars, remoteVars, streamVars,
                 disconnectWhenCompleted, replies>>

(* queueWrite("HTTP/1.1 200 OK") *)
Answer ==
  /\ reader = "answer"
  /\ reader' = "reading"
  /\ unsent' = unsent \cup {Proxy}
  /\ UNCHANGED <<taken, headerVars, remoteVars, once, completing, gone,
                 disconnectWhenCompleted, replies>>
-----------------------------------------------------------------------------
(* Remote::doWrite, under Remote::lock: tcpStream.lock() first, ...        *)
DoWriteLock ==
  /\ reader = "doWrite"
  /\ \E r \in ep : reader' = IF HasStream(r) THEN "writeNow" ELSE "writeLater"
  /\ UNCHANGED <<taken, headerVars, remoteVars, streamVars,
                 disconnectWhenCompleted, replies>>

DoWriteNowAhead ==    \* mutant: initWrite is left to writeComplete
  /\ reader = "writeNow"
  /\ \E r \in ep :
       /\ relayed' = [relayed EXCEPT ![r] = Append(@, taken)]
       /\ given' = [given EXCEPT ![r] = Append(@, taken)]
       /\ unsent' = unsent \cup {r}
  /\ reader' = "reading"
  /\ UNCHANGED <<taken, headerVars, place, initWrite, once, completing, gone,
                 disconnectWhenCompleted, replies>>

(* ... then initWrite and the chunk to the stream, ...                     *)
DoWriteNow ==
  /\ reader = "writeNow"
  /\ \E r \in ep :
       /\ relayed' = [relayed EXCEPT ![r] = Append(@ \o initWrite[r], taken)]
       /\ initWrite' = [initWrite EXCEPT ![r] = <<>>]
       /\ given' = [given EXCEPT ![r] = Append(@, taken)]
       /\ unsent' = unsent \cup {r}
  /\ reader' = "reading"
  /\ UNCHANGED <<taken, headerVars, place, once, completing, gone,
                 disconnectWhenCompleted, replies>>

(* ... or the chunk to initWrite.                                          *)
DoWriteLater ==
  /\ reader = "writeLater"
  /\ \E r \in ep :
       /\ initWrite' = [initWrite EXCEPT ![r] = Append(@, taken)]
       /\ given' = [given EXCEPT ![r] = Append(@, taken)]
  /\ reader' = "reading"
  /\ UNCHANGED <<taken, headerVars, place, relayed, streamVars,
                 disconnectWhenCompleted, replies>>

-----------------------------------------------------------------------------
(* The Remote's way to a stream, on other workers. *)

(* TcpConn::resolved, TcpStream::create: the Remote has its stream, which  *)
(* may be one that could not connect.                                      *)
Resolved(r) ==
  /\ place[r] = "resolving"
  /\ \E p \in {"stream", "ended"} : place' = [place EXCEPT ![r] = p]
  /\ UNCHANGED <<taken, reader, headerVars, initWrite, relayed, given,
                 streamVars, disconnectWhenCompleted, replies>>

(* TcpConn::notResolved: ~TcpConn calls Remote::disconnected, which calls  *)
(* HttpProxy::disconnect.                                                  *)
NotResolved(r) ==
  /\ place[r] = "resolving"
  /\ place' = [place EXCEPT ![r] = "failed"]
  /\ UNCHANGED <<taken, reader, headerVars, initWrite, relayed, given,
                 streamVars, disconnectWhenCompleted, replies>>

(* HttpProxy::disconnect, without a lock: writeQueueEmpty, ...             *)
ProxyDisconnect(r) ==
  /\ place[r] = "failed"
  /\ IF Proxy \in unsent
     THEN place' = [place EXCEPT ![r] = "flagging"] /\ UNCHANGED gone
     ELSE place' = [place EXCEPT ![r] = "dead"] /\ gone' = TRUE
  /\ UNCHANGED <<taken, reader, headerVars, initWrite, relayed, given, unsent,
                 once, completing, disconnectWhenCompleted, replies>>

(* ... then disconnectWhenCompleted = true.                                *)
ProxyFlag(r) ==
  /\ place[r] = "flagging"
  /\ place' = [place EXCEPT ![r] = "dead"]
  /\ disconnectWhenCompleted' = TRUE
  /\ UNCHANGED <<taken, reader, headerVars, initWrite, relayed, given,
                 streamVars, replies>>

-----------------------------------------------------------------------------
(* The streams *)

Established(r) ==
  /\ place[r] = "stream"
  /\ place' = [place EXCEPT ![r] = "open"]
  /\ UNCHANGED <<taken, reader, headerVars, initWrite, relayed, given,
                 streamVars, disconnectWhenCompleted, replies>>

(* An error, or the activity timer.                                        *)
StreamEnds(r) ==
  /\ place[r] \in {"stream", "open"}
  /\ place' = [place EXCEPT ![r] = "ended"]
  /\ UNCHANGED <<taken, reader, headerVars, initWrite, relayed, given,
                 streamVars, disconnectWhenCompleted, replies>>

ClientEnds ==
  /\ ~gone
  /\ gone' = TRUE
  /\ UNCHANGED <<taken, reader, headerVars, remoteVars, unsent, once,
                 completing, disconnectWhenCompleted, replies>>

(* handleWrite up to where it queues notifyWriteComplete: the first time,  *)
(* and when it has sent the last of the queue.                             *)
HandleWrite(s) ==
  /\ IF s = Proxy THEN ~gone ELSE place[s] = "open"
  /\ s \in unsent \/ s \notin once
  /\ unsent' = unsent \ {s}
  /\ once' = once \cup {s}
  /\ completing' = completing \cup {s}
  /\ UNCHANGED <<taken, reader, headerVars, remoteVars, gone,
                 disconnectWhenCompleted, replies>>

(* Remote::received: HttpProxy::queueWrite.                                *)
RemoteReceived(r) ==
  /\ place[r] = "open"
  /\ replies < MaxReplies
  /\ replies' = replies + 1
  /\ unsent' = unsent \cup {Proxy}
  /\ UNCHANGED <<taken, reader, headerVars, remoteVars, once, completing, gone,
                 disconnectWhenCompleted>>

FlushKeeping(r) ==    \* mutant: initWrite.resize(0) forgotten
  /\ relayed' = [relayed EXCEPT ![r] = @ \o initWrite[r]]
  /\ UNCHANGED initWrite
  /\ unsent' = IF initWrite[r] = <<>> THEN unsent ELSE unsent \cup {r}

(* What Remote::writeComplete does; two of them queued are as good as one. *)
Flush(r) ==
  /\ relayed' = [relayed EXCEPT ![r] = @ \o initWrite[r]]
  /\ initWrite' = [initWrite EXCEPT ![r] = <<>>]
  /\ unsent' = IF initWrite[r] = <<>> THEN unsent ELSE unsent \cup {r}

RemoteWriteCompleteUnlocked(r) ==    \* mutant: Remote::lock is not taken
  /\ r \in completing
  /\ completing' = completing \ {r}
  /\ Flush(r)
  /\ UNCHANGED <<taken, reader, headerVars, place, given, once, gone,
                 disconnectWhenCompleted, replies>>

RemoteWriteComplete(r) ==
  /\ r \in completing /\ ~Locked(r)
  /\ completing' = completing \ {r}
  /\ Flush(r)
  /\ UNCHANGED <<taken, reader, headerVars, place, given, once, gone,
                 disconnectWhenCompleted, replies>>

ProxyWriteCompleteDeaf ==    \* mutant: disconnectWhenCompleted is not tested
  /\ Proxy \in completing
  /\ completing' = completing \ {Proxy}
  /\ UNCHANGED <<taken, reader, headerVars, remoteVars, unsent, once, gone,
                 disconnectWhenCompleted, replies>>

ProxyWriteComplete ==
  /\ Proxy \in completing
  /\ completing' = completing \ {Proxy}
  /\ gone' = (gone \/ disconnectWhenCompleted)
  /\ UNCHANGED <<taken, reader, headerVars, remoteVars, unsent, once,
                 disconnectWhenCompleted, replies>>

-----------------------------------------------------------------------------

Reads ==
  \/ StartReading \/ StopReading
  \/ ReceivedForRemote
  \/ HeaderTooShort \/ HeaderWithoutBlankLine \/ HeaderOfGet \/ HeaderOfConnect
  \/ CreateFailed \/ Answer
  \/ DoWriteLock \/ DoWriteNow \/ DoWriteLater

Next ==
  \/ Reads
  \/ \E r \in Remote :
       \/ Resolved(r) \/ NotResolved(r)
       \/ ProxyDisconnect(r) \/ ProxyFlag(r)
       \/ Established(r) \/ StreamEnds(r)
       \/ RemoteReceived(r) \/ RemoteWriteComplete(r)
  \/ \E s \in Stream : HandleWrite(s)
  \/ ClientEnds
  \/ ProxyWriteComplete

Spec == Init /\ [][Next]_vars

(* Workers run what they began and what is queued.  The client's stream    *)
(* writes: before a Remote is connected it is given the one answer, which  *)
(* an empty send buffer takes.                                             *)
FairSpec ==
  /\ Spec
  /\ WF_vars(HandleWrite(Proxy))
  /\ WF_vars(ProxyWriteComplete)
  /\ \A r \in Remote : WF_vars(ProxyDisconnect(r) \/ ProxyFlag(r))

-----------------------------------------------------------------------------

Chunks == UNION {[1 .. n -> 1 .. MaxChunks] : n \in 0 .. MaxChunks}

(* Every variable has its type; no Remote is given more than there is.     *)
TypeOK ==
  /\ taken \in 0 .. MaxChunks
  /\ reader \in {"idle", "reading", "doWrite", "writeNow", "writeLater",
                 "failing", "failingConnect", "answer"}
  /\ header \in Chunks
  /\ headerKind \in {"short", "long", "whole"}
  /\ ep \subseteq Remote /\ Cardinality(ep) <= 1
  /\ place \in [Remote -> {"unused", "resolving", "stream", "open", "ended",
                           "failed", "flagging", "dead"}]
  /\ {initWrite, relayed, given} \subseteq [Remote -> Chunks]
  /\ {unsent, once, completing} \subseteq SUBSET Stream
  /\ {gone, disconnectWhenCompleted} \subseteq BOOLEAN
  /\ replies \in 0 .. MaxReplies

(* A Remote's stream gets what the HttpProxy gave to the Remote, in order  *)
(* and each chunk once, and what it has not got waits in initWrite: on     *)
(* whichever worker doWrite and writeComplete flush it, and whenever the   *)
(* stream comes.                                                           *)
RelayedInOrder == \A r \in Remote : relayed[r] \o initWrite[r] = given[r]

(* With the stream open, writeComplete is still to run for what waits in   *)
(* initWrite: doWrite looks for the stream and inserts under one lock, so  *)
(* it cannot miss the last writeComplete.                                  *)
NothingStranded ==
  \A r \in Remote :
    place[r] = "open" /\ initWrite[r] # <<>> =>
      r \in completing \/ r \in unsent \/ r \notin once

(* For one client at most one Remote ever has a stream: another one is     *)
(* made only after the lookup of the last one failed.                      *)
OneRemoteConnects == Cardinality({r \in Remote : HasStream(r)}) <= 1

(* When the lookup fails the client is disconnected at once, or marked for *)
(* it; marked before the last of what is queued for it was sent and told,  *)
(* it is disconnected then.  (HttpProxy::disconnect sets the mark without  *)
(* the lock, so it may come too late: only the activity timer is left.)    *)
FailureDisconnects ==
  /\ \A r \in Remote : place[r] = "failed" ~> gone \/ disconnectWhenCompleted
  /\ disconnectWhenCompleted /\ Proxy \in unsent \cup completing ~> gone
=============================================================================
