---------------------------- MODULE RelayProofs ----------------------------
(***************************************************************************)
(* Proofs about Relay, for any numbers of chunks, Remotes and replies.     *)
(*                                                                         *)
(* RelayedInOrder is inductive once the sequences are; the others need to  *)
(* know which Remote may still be alive (EpIsTheLiveOne), that a stream    *)
(* writes only once it is connected (OnceIsConnected), and that under      *)
(* Remote::lock no writeComplete passes between the look for the stream    *)
(* and the insertion in initWrite (FlushIsDue).                            *)
(*                                                                         *)
(* The last part is about HttpHeader: the end of the header is found in a  *)
(* text of any length.                                                     *)
(***************************************************************************)
EXTENDS Relay, HttpHeader, TLAPS, FiniteSetTheorems, SequenceTheorems,
        WellFoundedInduction

Piece == 1 .. MaxChunks

(* TypeOK without the lengths, which follow from NoMoreThanTaken.          *)
PlainTypes ==
  /\ taken \in 0 .. MaxChunks
  /\ reader \in {"idle", "reading", "doWrite", "writeNow", "writeLater",
                 "failing", "failingConnect", "answer"}
  /\ headerKind \in {"short", "long", "whole"}
  /\ ep \subseteq Remote /\ \A q, r \in ep : q = r
  /\ place \in [Remote -> {"unused", "resolving", "stream", "open", "ended",
                           "failed", "flagging", "dead"}]
  /\ unsent \subseteq Stream /\ once \subseteq Stream /\ completing \subseteq Stream
  /\ gone \in BOOLEAN /\ disconnectWhenCompleted \in BOOLEAN
  /\ replies \in 0 .. MaxReplies

SequenceTypes ==
  /\ header \in Seq(Piece)
  /\ initWrite \in [Remote -> Seq(Piece)]
  /\ relayed \in [Remote -> Seq(Piece)]
  /\ given \in [Remote -> Seq(Piece)]

(* What the worker in doWrite has read, its Remote has still to be given.  *)
Writing == {"doWrite", "writeNow", "writeLater"}

NoMoreThanTaken ==
  /\ Len(header) <= taken
  /\ \A r \in Remote :
       /\ Len(given[r]) <= taken
       /\ r \in ep /\ reader \in Writing => Len(given[r]) < taken

(* ep is the only Remote that is made and not destroyed.                   *)
EpIsTheLiveOne ==
  \A r \in Remote :
    /\ r \in ep => place[r] # "unused"
    /\ place[r] \notin {"unused", "dead"} => r \in ep

(* A Remote that is not made yet has relayed nothing.                      *)
UnusedIsEmpty == \A r \in Remote : place[r] = "unused" => relayed[r] = <<>>

(* A stream writes, and calls writeComplete, only once its Remote is       *)
(* connected.                                                              *)
OnceIsConnected ==
  \A r \in Remote : r \in once \cup completing => place[r] \in {"open", "ended"}

(* A chunk about to be put in initWrite has a writeComplete to come.       *)
FlushIsDue ==
  reader = "writeLater" => \A r \in ep : r \notin once \/ r \in completing

IInv ==
  /\ PlainTypes
  /\ SequenceTypes
  /\ NoMoreThanTaken
  /\ RelayedInOrder
  /\ EpIsTheLiveOne
  /\ UnusedIsEmpty
  /\ OnceIsConnected
  /\ FlushIsDue
  /\ NothingStranded

-----------------------------------------------------------------------------

(* What a step leaves of the types.                                        *)
LEMMA PlainTypesKept ==
  ASSUME RelayAssumption, IInv, [Next]_vars
  PROVE  PlainTypes'
<1> USE DEF RelayAssumption, IInv, PlainTypes, Stream, Remote, Proxy, EpLocked, HasStream,
            headerVars, remoteVars, streamVars
<1>1. CASE StartReading
  BY <1>1 DEF StartReading
<1>2. CASE StopReading
  BY <1>2 DEF StopReading
<1>3. CASE ReceivedForRemote
  BY <1>3 DEF ReceivedForRemote
<1>4. CASE CreateFailed
  BY <1>4 DEF CreateFailed
<1>5. CASE Answer
  BY <1>5 DEF Answer
<1>6. CASE DoWriteLock
  BY <1>6 DEF DoWriteLock
<1>7. CASE DoWriteNow
  BY <1>7 DEF DoWriteNow
<1>8. CASE DoWriteLater
  BY <1>8 DEF DoWriteLater
<1>9. CASE HeaderTooShort
  BY <1>9 DEF HeaderTooShort, ReceivesHeader
<1>10. CASE HeaderWithoutBlankLine
  BY <1>10 DEF HeaderWithoutBlankLine, ReceivesHeader
<1>11. CASE HeaderOfGet
  BY <1>11 DEF HeaderOfGet, ReceivesHeader, OpenRemote, Keeps
<1>12. CASE HeaderOfConnect
  BY <1>12 DEF HeaderOfConnect, ReceivesHeader, OpenRemote, Keeps
<1>13. CASE ClientEnds
  BY <1>13 DEF ClientEnds
<1>14. CASE ProxyWriteComplete
  BY <1>14 DEF ProxyWriteComplete
<1>15. CASE \E r \in Remote : Resolved(r)
  BY <1>15 DEF Resolved
<1>16. CASE \E r \in Remote : NotResolved(r)
  BY <1>16 DEF NotResolved
<1>17. CASE \E r \in Remote : ProxyDisconnect(r)
  BY <1>17 DEF ProxyDisconnect
<1>18. CASE \E r \in Remote : ProxyFlag(r)
  BY <1>18 DEF ProxyFlag
<1>19. CASE \E r \in Remote : Established(r)
  BY <1>19 DEF Established
<1>20. CASE \E r \in Remote : StreamEnds(r)
  BY <1>20 DEF StreamEnds
<1>21. CASE \E r \in Remote : RemoteReceived(r)
  BY <1>21 DEF RemoteReceived
<1>22. CASE \E r \in Remote : RemoteWriteComplete(r)
  BY <1>22 DEF RemoteWriteComplete, Flush, Locked
<1>23. CASE \E s \in Stream : HandleWrite(s)
  BY <1>23 DEF HandleWrite
<1>24. CASE UNCHANGED vars
  BY <1>24 DEF vars
<1> QED BY <1>1, <1>2, <1>3, <1>4, <1>5, <1>6, <1>7, <1>8, <1>9, <1>10, <1>11,
       <1>12, <1>13, <1>14, <1>15, <1>16, <1>17, <1>18, <1>19, <1>20, <1>21,
       <1>22, <1>23, <1>24 DEF Next, Reads

(* Which Remote is alive, and whose stream has written.                    *)
LEMMA PlacesKept ==
  ASSUME RelayAssumption, IInv, [Next]_vars
  PROVE  EpIsTheLiveOne' /\ UnusedIsEmpty' /\ OnceIsConnected'
<1> USE DEF IInv, PlainTypes, SequenceTypes, EpIsTheLiveOne, UnusedIsEmpty,
            OnceIsConnected, Stream, Proxy, Remote, EpLocked, headerVars, remoteVars, streamVars
<1>1. CASE StartReading
  BY <1>1 DEF StartReading
<1>2. CASE StopReading
  BY <1>2 DEF StopReading
<1>3. CASE ReceivedForRemote
  BY <1>3 DEF ReceivedForRemote
<1>4. CASE CreateFailed
  BY <1>4 DEF CreateFailed
<1>5. CASE Answer
  BY <1>5 DEF Answer
<1>6. CASE DoWriteLock
  BY <1>6 DEF DoWriteLock
<1>7. CASE DoWriteNow
  BY <1>7 DEF DoWriteNow
<1>8. CASE DoWriteLater
  BY <1>8 DEF DoWriteLater
<1>9. CASE HeaderTooShort
  BY <1>9 DEF HeaderTooShort, ReceivesHeader
<1>10. CASE HeaderWithoutBlankLine
  BY <1>10 DEF HeaderWithoutBlankLine, ReceivesHeader
<1>11. CASE HeaderOfGet
  <2>1. PICK r \in Remote : OpenRemote(r, header') /\ ep' = {r}
    BY <1>11 DEF HeaderOfGet, Keeps
  <2>2. /\ EpLocked = {} /\ place[r] = "unused"
        /\ UNCHANGED <<relayed, once, completing>>
    BY <1>11, <2>1 DEF HeaderOfGet, ReceivesHeader, OpenRemote
  <2>3. /\ place'[r] \notin {"unused", "dead"}
        /\ \A q \in Remote \ {r} : place'[q] = place[q]
    BY <2>1 DEF OpenRemote
  <2> QED BY <2>1, <2>2, <2>3
<1>12. CASE HeaderOfConnect
  <2>1. PICK r \in Remote : OpenRemote(r, header') /\ ep' = {r}
    BY <1>12 DEF HeaderOfConnect, Keeps
  <2>2. EpLocked = {} /\ place[r] = "unused" /\ UNCHANGED <<relayed, once, completing>>
    BY <1>12, <2>1 DEF HeaderOfConnect, ReceivesHeader, OpenRemote
  <2>3. /\ place'[r] \notin {"unused", "dead"}
        /\ \A q \in Remote \ {r} : place'[q] = place[q]
    BY <2>1 DEF OpenRemote
  <2> QED BY <2>1, <2>2, <2>3
<1>13. CASE ClientEnds
  BY <1>13 DEF ClientEnds
<1>14. CASE ProxyWriteComplete
  BY <1>14 DEF ProxyWriteComplete
<1>15. CASE \E r \in Remote : Resolved(r)
  BY <1>15 DEF Resolved
<1>16. CASE \E r \in Remote : NotResolved(r)
  <2>1. PICK r \in Remote : NotResolved(r)
    BY <1>16
  <2> QED BY <2>1 DEF NotResolved
<1>17. CASE \E r \in Remote : ProxyDisconnect(r)
  <2>1. PICK r \in Remote : ProxyDisconnect(r)
    BY <1>17
  <2>2. /\ place[r] = "failed" /\ place'[r] \in {"flagging", "dead"}
        /\ \A q \in Remote \ {r} : place'[q] = place[q]
        /\ UNCHANGED <<ep, relayed, once, completing>>
    BY <2>1 DEF ProxyDisconnect
  <2> QED BY <2>2
<1>18. CASE \E r \in Remote : ProxyFlag(r)
  <2>1. PICK r \in Remote : ProxyFlag(r)
    BY <1>18
  <2> QED BY <2>1 DEF ProxyFlag
<1>19. CASE \E r \in Remote : Established(r)
  BY <1>19 DEF Established
<1>20. CASE \E r \in Remote : StreamEnds(r)
  <2>1. PICK r \in Remote : StreamEnds(r)
    BY <1>20
  <2> QED BY <2>1 DEF StreamEnds
<1>21. CASE \E r \in Remote : RemoteReceived(r)
  BY <1>21 DEF RemoteReceived
<1>22. CASE \E r \in Remote : RemoteWriteComplete(r)
  <2>1. PICK r \in Remote : RemoteWriteComplete(r)
    BY <1>22
  <2>2. UNCHANGED <<ep, place, once>> /\ completing' \subseteq completing
    BY <2>1 DEF RemoteWriteComplete
  <2>3. relayed' = [relayed EXCEPT ![r] = @ \o initWrite[r]] /\ place[r] # "unused"
    BY <2>1 DEF RemoteWriteComplete, Flush
  <2> QED BY <2>2, <2>3
<1>23. CASE \E s \in Stream : HandleWrite(s)
  BY <1>23 DEF HandleWrite
<1>24. CASE UNCHANGED vars
  BY <1>24 DEF vars
<1> QED BY <1>1, <1>2, <1>3, <1>4, <1>5, <1>6, <1>7, <1>8, <1>9, <1>10, <1>11,
       <1>12, <1>13, <1>14, <1>15, <1>16, <1>17, <1>18, <1>19, <1>20, <1>21,
       <1>22, <1>23, <1>24 DEF Next, Reads

(* Remote::doWrite and Remote::writeComplete under Remote::lock.           *)
LEMMA FlushKept ==
  ASSUME RelayAssumption, IInv, [Next]_vars
  PROVE  FlushIsDue' /\ NothingStranded'
<1> USE DEF IInv, PlainTypes, SequenceTypes, EpIsTheLiveOne, UnusedIsEmpty,
            OnceIsConnected, FlushIsDue, NothingStranded, Stream, Proxy, Remote, EpLocked, HasStream, headerVars, remoteVars, streamVars
<1>1. CASE StartReading
  BY <1>1 DEF StartReading
<1>2. CASE StopReading
  BY <1>2 DEF StopReading
<1>3. CASE ReceivedForRemote
  BY <1>3 DEF ReceivedForRemote
<1>4. CASE CreateFailed
  BY <1>4 DEF CreateFailed
<1>5. CASE Answer
  BY <1>5 DEF Answer
<1>6. CASE DoWriteLock
  BY <1>6 DEF DoWriteLock
<1>7. CASE DoWriteNow
  BY <1>7 DEF DoWriteNow
<1>8. CASE DoWriteLater
  BY <1>8 DEF DoWriteLater
<1>9. CASE HeaderTooShort
  BY <1>9 DEF HeaderTooShort, ReceivesHeader
<1>10. CASE HeaderWithoutBlankLine
  BY <1>10 DEF HeaderWithoutBlankLine, ReceivesHeader
<1>11. CASE HeaderOfGet
  BY <1>11 DEF HeaderOfGet, ReceivesHeader, OpenRemote, Keeps
<1>12. CASE HeaderOfConnect
  BY <1>12 DEF HeaderOfConnect, ReceivesHeader, OpenRemote, Keeps
<1>13. CASE ClientEnds
  BY <1>13 DEF ClientEnds
<1>14. CASE ProxyWriteComplete
  BY <1>14 DEF ProxyWriteComplete
<1>15. CASE \E r \in Remote : Resolved(r)
  BY <1>15 DEF Resolved
<1>16. CASE \E r \in Remote : NotResolved(r)
  BY <1>16 DEF NotResolved
<1>17. CASE \E r \in Remote : ProxyDisconnect(r)
  BY <1>17 DEF ProxyDisconnect
<1>18. CASE \E r \in Remote : ProxyFlag(r)
  BY <1>18 DEF ProxyFlag
<1>19. CASE \E r \in Remote : Established(r)
  BY <1>19 DEF Established
<1>20. CASE \E r \in Remote : StreamEnds(r)
  BY <1>20 DEF StreamEnds
<1>21. CASE \E r \in Remote : RemoteReceived(r)
  BY <1>21 DEF RemoteReceived
<1>22. CASE \E r \in Remote : RemoteWriteComplete(r)
  <2>1. PICK r \in Remote : RemoteWriteComplete(r)
    BY <1>22
  <2>2. /\ UNCHANGED <<reader, ep, place, once>> /\ completing' = completing \ {r}
        /\ initWrite' = [initWrite EXCEPT ![r] = <<>>] /\ unsent \subseteq unsent'
        /\ ~Locked(r)
    BY <2>1 DEF RemoteWriteComplete, Flush
  <2>3. FlushIsDue'
    BY <2>2 DEF Locked
  <2>4. NothingStranded'
    BY <2>2
  <2> QED BY <2>3, <2>4
<1>23. CASE \E s \in Stream : HandleWrite(s)
  BY <1>23 DEF HandleWrite
<1>24. CASE UNCHANGED vars
  BY <1>24 DEF vars
<1> QED BY <1>1, <1>2, <1>3, <1>4, <1>5, <1>6, <1>7, <1>8, <1>9, <1>10, <1>11,
       <1>12, <1>13, <1>14, <1>15, <1>16, <1>17, <1>18, <1>19, <1>20, <1>21,
       <1>22, <1>23, <1>24 DEF Next, Reads

(* One chunk more, wherever it is appended, and a flush: the sequences     *)
(* stay what they were in one piece.                                       *)
LEMMA Chunking ==
  ASSUME NEW s \in Seq(Piece), NEW t \in Seq(Piece), NEW e \in Piece
  PROVE  /\ s \o t \in Seq(Piece) /\ Len(s \o t) = Len(s) + Len(t)
         /\ Append(s, e) \in Seq(Piece) /\ Len(Append(s, e)) = Len(s) + 1
         /\ s \o <<>> = s /\ <<>> \o s = s
         /\ <<>> \in Seq(Piece)
<1>1. s \o t \in Seq(Piece) /\ Len(s \o t) = Len(s) + Len(t)
  BY ConcatProperties
<1>2. Append(s, e) \in Seq(Piece) /\ Len(Append(s, e)) = Len(s) + 1
  BY AppendProperties
<1>3. s \o <<>> = s /\ <<>> \o s = s /\ <<>> \in Seq(Piece)
  BY ConcatEmptySeq, EmptySeq
<1> QED BY <1>1, <1>2, <1>3

(* A chunk put in initWrite comes last of all.                             *)
LEMMA AppendedLast ==
  ASSUME NEW s \in Seq(Piece), NEW t \in Seq(Piece), NEW e \in Piece
  PROVE  s \o Append(t, e) = Append(s \o t, e)
<1>1. <<e>> \in Seq(Piece) /\ s \o t \in Seq(Piece)
  BY ConcatProperties
<1>2. Append(t, e) = t \o <<e>> /\ Append(s \o t, e) = (s \o t) \o <<e>>
  BY <1>1, AppendIsConcat
<1> QED BY <1>1, <1>2, ConcatAssociative

(* TcpConnection::create: the Remote is given the header, and has relayed  *)
(* nothing.                                                                *)
LEMMA OpenedKept ==
  ASSUME IInv, NEW r \in Remote, OpenRemote(r, header'), ep' = {r}, reader' \notin Writing,
         taken' = taken + 1, header' \in Seq(Piece), Len(header') <= taken'
  PROVE  SequenceTypes' /\ NoMoreThanTaken' /\ RelayedInOrder'
<1>1. /\ initWrite' = [initWrite EXCEPT ![r] = header'] /\ UNCHANGED relayed
      /\ given' = [given EXCEPT ![r] = header'] /\ relayed[r] = <<>>
  BY DEF OpenRemote, IInv, UnusedIsEmpty
<1>2. SequenceTypes'
  BY <1>1 DEF IInv, SequenceTypes
<1>3. NoMoreThanTaken'
  <2>1. \A q \in Remote : Len(given[q]) <= taken /\ Len(given[q]) \in Nat
    BY LenProperties DEF IInv, NoMoreThanTaken, SequenceTypes
  <2> QED BY <1>1, <2>1 DEF IInv, NoMoreThanTaken, SequenceTypes, PlainTypes
<1>4. RelayedInOrder'
  <2>1. <<>> \o header' = header'
    BY ConcatEmptySeq
  <2> QED BY <1>1, <2>1 DEF IInv, RelayedInOrder, SequenceTypes
<1> QED BY <1>2, <1>3, <1>4

(* The rest of the steps give no Remote anything.                          *)
GivesNothing ==
  /\ UNCHANGED <<taken, header, initWrite, relayed, given>>
  /\ \A r \in ep' : r \in ep
  /\ reader' \in Writing => reader \in Writing

(* What doWrite, writeComplete and the HttpProxy do with the chunks.       *)
LEMMA SequencesKept ==
  ASSUME RelayAssumption, IInv, [Next]_vars
  PROVE  SequenceTypes' /\ NoMoreThanTaken' /\ RelayedInOrder'
<1> USE DEF IInv, PlainTypes, SequenceTypes, NoMoreThanTaken, RelayedInOrder, Writing, Piece
<1>1. CASE ReceivedForRemote
  BY <1>1 DEF ReceivedForRemote, headerVars, remoteVars
<1>2. CASE HeaderTooShort
  BY <1>2, Chunking DEF HeaderTooShort, ReceivesHeader, headerVars, remoteVars
<1>3. CASE HeaderWithoutBlankLine
  BY <1>3, Chunking DEF HeaderWithoutBlankLine, ReceivesHeader, remoteVars
<1>4. CASE HeaderOfGet
  <2>1. taken' = taken + 1 /\ taken' \in Piece /\ header' = Append(header, taken')
    BY <1>4 DEF HeaderOfGet, ReceivesHeader, RelayAssumption
  <2>2. header' \in Seq(Piece) /\ Len(header') <= taken'
    BY <2>1, Chunking
  <2>3. PICK r \in Remote : OpenRemote(r, header') /\ ep' = {r} /\ reader' \notin Writing
    BY <1>4 DEF HeaderOfGet, Keeps
  <2> QED BY <2>1, <2>2, <2>3, OpenedKept
<1>5. CASE HeaderOfConnect
  <2>1. taken' = taken + 1 /\ taken' \in Piece
    BY <1>5 DEF HeaderOfConnect, ReceivesHeader, RelayAssumption
  <2>2. PICK first \in 1 .. Len(header) + 2 :
          header' = SubSeq(Append(header, taken'), first, Len(header) + 1)
    BY <1>5 DEF HeaderOfConnect
  <2>3. /\ Append(header, taken') \in Seq(Piece)
        /\ Len(Append(header, taken')) = Len(header) + 1
        /\ Len(header) \in Nat
    BY <2>1, Chunking, LenProperties
  <2>4. \A i \in first .. Len(header) + 1 : Append(header, taken')[i] \in Piece
    BY <2>3, ElementOfSeq
  <2>5. header' \in Seq(Piece) /\ Len(header') <= Len(header) + 1
    BY <2>2, <2>3, <2>4, SubSeqProperties
  <2>6. PICK r \in Remote : OpenRemote(r, header') /\ ep' = {r} /\ reader' \notin Writing
    BY <1>5 DEF HeaderOfConnect, Keeps
  <2>7. Len(header') <= taken'
    BY <2>1, <2>3, <2>5, LenProperties
  <2> QED BY <2>1, <2>5, <2>6, <2>7, OpenedKept
<1>6. CASE DoWriteNow
  <2>1. PICK r \in ep :
          /\ relayed' = [relayed EXCEPT ![r] = Append(@ \o initWrite[r], taken)]
          /\ initWrite' = [initWrite EXCEPT ![r] = <<>>]
          /\ given' = [given EXCEPT ![r] = Append(@, taken)]
    BY <1>6 DEF DoWriteNow
  <2>2. /\ UNCHANGED <<taken, header, ep>> /\ reader' \notin Writing
        /\ r \in Remote /\ Len(given[r]) < taken
    BY <1>6, <2>1 DEF DoWriteNow, headerVars
  <2>3. Len(given[r]) \in Nat /\ taken \in Piece
    BY <2>2, LenProperties DEF RelayAssumption
  <2>4. /\ Append(relayed[r] \o initWrite[r], taken) \in Seq(Piece)
        /\ Append(given[r], taken) \in Seq(Piece)
        /\ Len(Append(given[r], taken)) = Len(given[r]) + 1
        /\ Append(relayed[r] \o initWrite[r], taken) \o <<>> = Append(given[r], taken)
        /\ <<>> \in Seq(Piece)
    BY <2>2, <2>3, Chunking
  <2>5. SequenceTypes' /\ NoMoreThanTaken'
    BY <2>1, <2>2, <2>3, <2>4
  <2>6. RelayedInOrder'
    BY <2>1, <2>2, <2>4
  <2> QED BY <2>5, <2>6
<1>7. CASE DoWriteLater
  <2>1. PICK r \in ep :
          /\ initWrite' = [initWrite EXCEPT ![r] = Append(@, taken)]
          /\ given' = [given EXCEPT ![r] = Append(@, taken)]
    BY <1>7 DEF DoWriteLater
  <2>2. /\ UNCHANGED <<taken, header, ep, relayed>> /\ reader' \notin Writing
        /\ r \in Remote /\ Len(given[r]) < taken
    BY <1>7, <2>1 DEF DoWriteLater, headerVars
  <2>3. Len(given[r]) \in Nat /\ taken \in Piece
    BY <2>2, LenProperties DEF RelayAssumption
  <2>4. /\ Append(initWrite[r], taken) \in Seq(Piece)
        /\ Append(given[r], taken) \in Seq(Piece)
        /\ Len(Append(given[r], taken)) = Len(given[r]) + 1
    BY <2>2, <2>3, Chunking
  <2>5. SequenceTypes' /\ NoMoreThanTaken'
    BY <2>1, <2>2, <2>3, <2>4
  <2>6. RelayedInOrder'
    <3>1. relayed[r] \o initWrite[r] = given[r]
      BY <2>2
    <3>2. /\ relayed[r] \in Seq(Piece) /\ initWrite[r] \in Seq(Piece)
      BY <2>2
    <3>3. relayed[r] \o Append(initWrite[r], taken)
            = Append(relayed[r] \o initWrite[r], taken)
      BY <2>3, <3>2, AppendedLast
    <3> QED BY <2>1, <2>2, <3>1, <3>3
  <2> QED BY <2>5, <2>6
<1>8. CASE \E r \in Remote : RemoteWriteComplete(r)
  <2>1. PICK r \in Remote :
          /\ relayed' = [relayed EXCEPT ![r] = @ \o initWrite[r]]
          /\ initWrite' = [initWrite EXCEPT ![r] = <<>>]
          /\ UNCHANGED <<taken, header, ep, reader, given>>
    BY <1>8 DEF RemoteWriteComplete, Flush, headerVars
  <2>2. /\ relayed[r] \o initWrite[r] \in Seq(Piece) /\ <<>> \in Seq(Piece)
        /\ (relayed[r] \o initWrite[r]) \o <<>> = relayed[r] \o initWrite[r]
    BY ConcatProperties, EmptySeq, ConcatEmptySeq
  <2>3. SequenceTypes' /\ NoMoreThanTaken'
    BY <2>1, <2>2
  <2>4. RelayedInOrder'
    BY <2>1, <2>2
  <2> QED BY <2>3, <2>4
<1>9. CASE GivesNothing
  BY <1>9 DEF GivesNothing
<1>10. \/ GivesNothing
       \/ ReceivedForRemote \/ HeaderTooShort \/ HeaderWithoutBlankLine
       \/ HeaderOfGet \/ HeaderOfConnect \/ DoWriteNow \/ DoWriteLater
       \/ \E r \in Remote : RemoteWriteComplete(r)
  BY DEF GivesNothing, Next, Reads, vars, headerVars, remoteVars, streamVars, StartReading,
         StopReading, CreateFailed, Answer, DoWriteLock, Resolved, NotResolved,
         ProxyDisconnect, ProxyFlag, Established, StreamEnds, RemoteReceived,
         HandleWrite, ClientEnds, ProxyWriteComplete
<1> QED BY <1>1, <1>2, <1>3, <1>4, <1>5, <1>6, <1>7, <1>8, <1>9, <1>10

-----------------------------------------------------------------------------

(* An HttpProxy starts in the invariant, and each step keeps it.           *)
LEMMA Invariance == Spec => []IInv
<1>1. Init => IInv
  <2> SUFFICES ASSUME Init PROVE IInv
    OBVIOUS
  <2>1. <<>> \in Seq(Piece) /\ Len(<<>>) = 0 /\ <<>> \o <<>> = <<>>
    BY EmptySeq, ConcatEmptySeq
  <2>2. gone \in BOOLEAN /\ disconnectWhenCompleted \in BOOLEAN
    BY DEF Init
  <2>3. PlainTypes
    BY <2>2, RelayAssumption DEF Init, PlainTypes, Stream, Remote, Proxy
  <2>4. SequenceTypes /\ RelayedInOrder
    BY <2>1 DEF Init, SequenceTypes, RelayedInOrder
  <2>5. NoMoreThanTaken
    BY <2>1 DEF Init, NoMoreThanTaken
  <2>6. EpIsTheLiveOne /\ UnusedIsEmpty /\ OnceIsConnected /\ FlushIsDue /\ NothingStranded
    BY DEF Init, EpIsTheLiveOne, UnusedIsEmpty, OnceIsConnected, FlushIsDue,
           NothingStranded, Remote, Proxy
  <2> QED BY <2>3, <2>4, <2>5, <2>6 DEF IInv
<1>2. IInv /\ [Next]_vars => IInv'
  BY RelayAssumption, PlainTypesKept, PlacesKept, FlushKept, SequencesKept DEF IInv
<1> QED BY <1>1, <1>2, PTL DEF Spec

(* Every sequence of chunks is one TypeOK allows.                          *)
LEMMA ShortSequences ==
  ASSUME NEW s \in Seq(Piece), Len(s) <= taken, taken \in 0 .. MaxChunks, RelayAssumption
  PROVE  s \in Chunks
<1>1. Len(s) \in 0 .. MaxChunks /\ s \in [1 .. Len(s) -> Piece]
  BY LenProperties DEF RelayAssumption
<1> QED BY <1>1 DEF Chunks, Piece

(* Every reachable state is well typed, and no Remote is given more chunks *)
(* than the client has sent (main.cpp:194-303).                            *)
THEOREM TypeCorrect == Spec => []TypeOK
<1>1. IInv => TypeOK
  <2> SUFFICES ASSUME IInv PROVE TypeOK
    OBVIOUS
  <2>1. Cardinality(ep) <= 1
    <3>1. CASE ep = {}
      BY <3>1, FS_EmptySet
    <3>2. CASE ep # {}
      <4>1. PICK r : ep = {r}
        BY <3>2 DEF IInv, PlainTypes
      <4>2. Cardinality(ep) = 1
        BY <4>1, FS_Singleton, Zenon
      <4> QED BY <4>2
    <3> QED BY <3>1, <3>2
  <2>2. header \in Chunks
    BY ShortSequences, RelayAssumption DEF IInv, PlainTypes, SequenceTypes, NoMoreThanTaken
  <2>3. \A r \in Remote : {given[r], relayed[r], initWrite[r]} \subseteq Chunks
    <3> SUFFICES ASSUME NEW r \in Remote
                 PROVE  {given[r], relayed[r], initWrite[r]} \subseteq Chunks
      OBVIOUS
    <3>1. /\ Len(given[r]) = Len(relayed[r]) + Len(initWrite[r]) /\ Len(given[r]) <= taken
          /\ {Len(given[r]), Len(relayed[r]), Len(initWrite[r])} \subseteq Nat
      BY ConcatProperties, LenProperties
      DEF IInv, SequenceTypes, RelayedInOrder, NoMoreThanTaken
    <3>2. \A k, m, n \in Nat : k = m + n /\ k <= taken => m <= taken /\ n <= taken
      BY RelayAssumption DEF IInv, PlainTypes
    <3>3. Len(relayed[r]) <= taken /\ Len(initWrite[r]) <= taken
      BY <3>1, <3>2
    <3> QED BY <3>1, <3>3, ShortSequences, RelayAssumption DEF IInv, PlainTypes, SequenceTypes
  <2>4. {initWrite, relayed, given} \subseteq [Remote -> Chunks]
    BY <2>3 DEF IInv, SequenceTypes
  <2>5. {unsent, once, completing} \subseteq SUBSET Stream
    BY DEF IInv, PlainTypes
  <2>6. {gone, disconnectWhenCompleted} \subseteq BOOLEAN
    BY DEF IInv, PlainTypes
  <2> QED BY <2>1, <2>2, <2>4, <2>5, <2>6 DEF IInv, PlainTypes, TypeOK
<1> QED BY <1>1, Invariance, PTL

(* What a Remote's stream was given, and what waits in initWrite, is what  *)
(* the HttpProxy gave to the Remote, in order and each chunk once, on      *)
(* whichever worker doWrite and writeComplete ran (main.cpp:194-219).      *)
THEOREM RelaysInOrder == Spec => []RelayedInOrder
<1>1. IInv => RelayedInOrder
  BY DEF IInv
<1> QED BY <1>1, Invariance, PTL

(* Nothing waits in initWrite of a connected Remote without a writeComplete *)
(* to come: under Remote::lock doWrite cannot miss the last one.           *)
THEOREM NothingIsStranded == Spec => []NothingStranded
<1>1. IInv => NothingStranded
  BY DEF IInv
<1> QED BY <1>1, Invariance, PTL

(* An HttpProxy never has two Remotes with a stream: it makes another only *)
(* when the last is destroyed, and one with a stream never is.             *)
THEOREM OneRemoteHasStream == Spec => []OneRemoteConnects
<1>1. IInv => OneRemoteConnects
  <2> SUFFICES ASSUME IInv PROVE OneRemoteConnects
    OBVIOUS
  <2> DEFINE Connected == {r \in Remote : HasStream(r)}
  <2>1. \A q, r \in Connected : q = r
    BY DEF IInv, EpIsTheLiveOne, PlainTypes, HasStream
  <2>2. CASE Connected = {}
    BY <2>2, FS_EmptySet DEF OneRemoteConnects
  <2>3. CASE Connected # {}
    <3>1. PICK r : Connected = {r}
      BY <2>1, <2>3
    <3>2. Cardinality(Connected) = 1
      BY <3>1, FS_Singleton
    <3> QED BY <3>2 DEF OneRemoteConnects
  <2> QED BY <2>2, <2>3
<1> QED BY <1>1, Invariance, PTL
-----------------------------------------------------------------------------
(* The header: findFirstPattern, by induction over the text.               *)

(* A set of numbers that is not empty has a least one.                     *)
LEMMA LeastNumber ==
  ASSUME NEW T, T \subseteq Nat, T # {}
  PROVE  \E n \in T : \A m \in T : n <= m
<1> DEFINE R1 == {ss \in Nat \X Nat : ss[1] < ss[2]}
<1>1. IsWellFoundedOn(R1, Nat)
  BY NatLessThanWellFounded DEF OpToRel
<1>2. PICK n \in T : \A m \in T : ~(<<m, n>> \in R1)
  <2> HIDE DEF R1
  <2> QED BY <1>1, WFMin
<1>3. \A m \in T : ~(m < n)
  <2> TAKE m \in T
  <2>1. m \in Nat /\ n \in Nat
    OBVIOUS
  <2>2. <<m, n>> \in R1 <=> m < n
    BY <2>1
  <2> QED BY <1>2, <2>2
<1> QED BY <1>3

(* Induction over the positions of a text.                                 *)
LEMMA PositionInduction ==
  ASSUME NEW T, 0 \in T, \A n \in Nat : n \in T => n + 1 \in T
  PROVE  \A n \in Nat : n \in T
<1> DEFINE U == Nat \ T
<1>1. SUFFICES ASSUME U # {} PROVE FALSE
  OBVIOUS
<1>2. PICK n \in U : \A m \in U : n <= m
  BY <1>1, LeastNumber
<1>3. n \in Nat /\ n # 0 /\ n - 1 \in Nat /\ ~(n <= n - 1)
  OBVIOUS
<1>4. n - 1 \in T
  BY <1>2, <1>3
<1>5. (n - 1) + 1 = n
  BY <1>3
<1> QED BY <1>3, <1>4, <1>5

(* What a search has of a text up to each position: one character more     *)
(* than up to the position before.                                         *)
SearchOf(text, pattern, f) ==
  /\ f[0] = [matchPos |-> 0, second |-> 0]
  /\ \A pos \in 1 .. Len(text) : f[pos] = MatchNext(text, pattern, f[pos - 1], pos)

(* FindFirstPattern is such a search.                                      *)
LEMMA SearchUnfolds ==
  ASSUME NEW text, Len(text) \in Nat, NEW pattern
  PROVE  \E f : /\ SearchOf(text, pattern, f)
                /\ FindFirstPattern(text, pattern)
                     = [found |-> f[Len(text)].matchPos = Len(pattern),
                        second |-> f[Len(text)].second]
<1> DEFINE n == Len(text)
           none == [matchPos |-> 0, second |-> 0]
           Then(s, pos) == MatchNext(text, pattern, s, pos)
           Is(f, m) == f = [pos \in 0 .. m |-> IF pos = 0 THEN none ELSE Then(f[pos - 1], pos)]
           T == {m \in Nat : \E f : Is(f, m)}
           upTo == CHOOSE f : Is(f, n)
<1>1. FindFirstPattern(text, pattern)
        = [found |-> upTo[n].matchPos = Len(pattern), second |-> upTo[n].second]
  BY Zenon DEF FindFirstPattern
<1> HIDE DEF n, none, Then
<1>2. 0 \in T
  <2> DEFINE f == [pos \in 0 .. 0 |-> none]
  <2>1. f = [pos \in 0 .. 0 |-> IF pos = 0 THEN none ELSE Then(f[pos - 1], pos)]
    <3>1. \A pos \in 0 .. 0 : pos = 0
      OBVIOUS
    <3> QED BY <3>1
  <2>2. Is(f, 0)
    BY <2>1
  <2> HIDE DEF Is, f
  <2> QED BY <2>2
<1>3. ASSUME NEW m \in Nat, m \in T
      PROVE  m + 1 \in T
  <2>1. PICK f : Is(f, m)
    BY <1>3
  <2> DEFINE g == [pos \in 0 .. m + 1 |-> IF pos = 0 THEN none ELSE Then(f[pos - 1], pos)]
  <2>2. \A pos \in 0 .. m : g[pos] = f[pos]
    <3> TAKE pos \in 0 .. m
    <3>1. f[pos] = IF pos = 0 THEN none ELSE Then(f[pos - 1], pos)
      BY <2>1
    <3>2. pos \in 0 .. m + 1
      OBVIOUS
    <3> QED BY <3>1, <3>2
  <2>3. \A pos \in 0 .. m + 1 : pos # 0 => g[pos - 1] = f[pos - 1]
    <3> TAKE pos \in 0 .. m + 1
    <3>1. pos # 0 => pos - 1 \in 0 .. m
      OBVIOUS
    <3> QED BY <2>2, <3>1
  <2>4. Is(g, m + 1)
    BY <2>3
  <2> HIDE DEF g, Is
  <2> QED BY <2>4
<1>4. n \in T
  <2>1. n \in Nat
    BY DEF n
  <2> HIDE DEF T
  <2> QED BY <1>2, <1>3, <2>1, PositionInduction
<1>5. Is(upTo, n)
  <2> HIDE DEF Is
  <2> QED BY <1>4
<1> HIDE DEF upTo
<1>6. upTo[0] = none /\ \A pos \in 1 .. n : upTo[pos] = Then(upTo[pos - 1], pos)
  <2>1. 0 \in 0 .. n /\ \A pos \in 1 .. n : pos \in 0 .. n /\ pos # 0
    BY DEF n
  <2> QED BY <1>5, <2>1
<1>7. SearchOf(text, pattern, upTo)
  BY <1>6 DEF SearchOf, n, none, Then
<1> QED BY <1>1, <1>7 DEF n

(* A blank line ends at e.                                                 *)
BlankEnds(text, e) ==
  text[e - 3] = CR /\ text[e - 2] = LF /\ text[e - 1] = CR /\ text[e] = LF

(* Up to pos: what is half read is what was read last, and all of it is a  *)
(* blank line.                                                             *)
Sound(text, s, pos) ==
  /\ s.matchPos \in 0 .. 4 /\ s.second \in Nat
  /\ s.matchPos = 1 => pos >= 1 /\ text[pos] = CR
  /\ s.matchPos = 2 => pos >= 2 /\ text[pos - 1] = CR /\ text[pos] = LF
  /\ s.matchPos = 3 => /\ pos >= 3 /\ text[pos - 2] = CR
                       /\ text[pos - 1] = LF /\ text[pos] = CR
  /\ s.matchPos = 4 => s.second \in 4 .. pos /\ BlankEnds(text, s.second)

(* Up to pos: no blank line was passed, and none that begins is missed.    *)
Complete(text, s, pos) ==
  IF s.matchPos = 4
  THEN \A e \in 4 .. s.second - 1 : ~BlankEnds(text, e)
  ELSE /\ \A e \in 4 .. pos : ~BlankEnds(text, e)
       /\ pos >= 1 /\ text[pos] = CR => s.matchPos \in {1, 3}
       /\ pos >= 2 /\ text[pos - 1] = CR /\ text[pos] = LF => s.matchPos = 2
       /\ pos >= 3 /\ text[pos - 2] = CR /\ text[pos - 1] = LF /\ text[pos] = CR
            => s.matchPos = 3

(* The two line ends differ from each other and from the wildcard.         *)
LEMMA LineEnds == CR # LF /\ CR # "?" /\ LF # "?"
BY DEF CR, LF

(* One character more of a blank line.                                     *)
LEMMA BlankNext ==
  ASSUME NEW text, NEW s, NEW pos, s.matchPos \in 0 .. 4
  PROVE  LET next == MatchNext(text, BlankLinePattern, s, pos)
         IN  /\ s.matchPos = 4 => next = s
             /\ s.matchPos # 4 =>
                  /\ next.second = pos
                  /\ next.matchPos =
                       IF text[pos] = IF s.matchPos \in {0, 2} THEN CR ELSE LF
                       THEN s.matchPos + 1 ELSE 0
<1> DEFINE m == s.matchPos
           c == IF m \in {0, 2} THEN CR ELSE LF
           next == MatchNext(text, BlankLinePattern, s, pos)
<1>1. /\ Len(BlankLinePattern) = 4
      /\ BlankLinePattern[1] = CR /\ BlankLinePattern[2] = LF
      /\ BlankLinePattern[3] = CR /\ BlankLinePattern[4] = LF
  BY DEF BlankLinePattern
<1>2. CASE m = 4
  BY <1>1, <1>2 DEF MatchNext
<1>3. CASE m # 4
  <2>1. m = 0 \/ m = 1 \/ m = 2 \/ m = 3
    BY <1>3
  <2>2. 0 + 1 = 1 /\ 1 + 1 = 2 /\ 2 + 1 = 3 /\ 3 + 1 = 4
    OBVIOUS
  <2>3. 0 \in {0, 2} /\ ~(1 \in {0, 2}) /\ 2 \in {0, 2} /\ ~(3 \in {0, 2})
    OBVIOUS
  <2>4. BlankLinePattern[m + 1] = c
    <3>1. CASE m = 0
      BY <1>1, <2>2, <2>3, <3>1
    <3>2. CASE m = 1
      BY <1>1, <2>2, <2>3, <3>2
    <3>3. CASE m = 2
      BY <1>1, <2>2, <2>3, <3>3
    <3>4. CASE m = 3
      BY <1>1, <2>2, <2>3, <3>4
    <3> QED BY <2>1, <3>1, <3>2, <3>3, <3>4
  <2>5. c # "?"
    BY LineEnds
  <2> DEFINE t == text[pos]
  <2>6. c \in {t, "?"} <=> t = c
    <3> HIDE DEF c, t
    <3> QED BY <2>5
  <2>7. next = [matchPos |-> IF BlankLinePattern[m + 1] \in {t, "?"} THEN m + 1 ELSE 0,
                second |-> pos]
    BY <1>1, <1>3, Zenon DEF MatchNext
  <2> HIDE DEF next, m, c, t
  <2>8. next = [matchPos |-> IF t = c THEN m + 1 ELSE 0, second |-> pos]
    BY <2>4, <2>6, <2>7, Zenon
  <2>9. next.second = pos /\ next.matchPos = IF t = c THEN m + 1 ELSE 0
    BY <2>8
  <2> QED BY <1>3, <2>9 DEF next, m, c, t
<1> QED BY <1>2, <1>3

(* What the search has stays sound from one character to the next.         *)
LEMMA SoundNext ==
  ASSUME NEW text, NEW s, NEW pos \in Nat, Sound(text, s, pos)
  PROVE  Sound(text, MatchNext(text, BlankLinePattern, s, pos + 1), pos + 1)
<1> DEFINE m == s.matchPos
           p == pos + 1
           next == MatchNext(text, BlankLinePattern, s, p)
           c == IF m \in {0, 2} THEN CR ELSE LF
<1>1. m \in 0 .. 4
  BY DEF Sound
<1>2. /\ m = 4 => next = s
      /\ m # 4 => next.second = p /\ next.matchPos = IF text[p] = c THEN m + 1 ELSE 0
  BY <1>1, BlankNext
<1>3. /\ p - 1 = pos /\ p - 2 = pos - 1 /\ p - 3 = pos - 2 /\ p \in Nat /\ p >= 1
      /\ (pos >= 1 => p >= 2) /\ (pos >= 2 => p >= 3) /\ (pos >= 3 => p \in 4 .. p)
      /\ 4 .. pos \subseteq 4 .. p
  OBVIOUS
<1> SUFFICES Sound(text, next, p)
  OBVIOUS
<1> HIDE DEF next, p
<1>4. CASE m = 4
  <2>1. s.second \in 4 .. p
    BY <1>3, <1>4 DEF Sound
  <2> QED BY <1>2, <1>4, <2>1 DEF Sound
<1>5. CASE m # 4
  <2>1. CASE text[p] # c
    BY <1>2, <1>3, <1>5, <2>1 DEF Sound
  <2>2. CASE text[p] = c
    <3>1. m = 0 \/ m = 1 \/ m = 2 \/ m = 3
      BY <1>1, <1>5
    <3>2. next.second = p /\ next.matchPos = m + 1
      BY <1>2, <1>5, <2>2
    <3>3. CASE m = 0
      <4>1. next.matchPos = 1 /\ text[p] = CR
        BY <2>2, <3>2, <3>3
      <4> QED BY <1>3, <3>2, <4>1 DEF Sound
    <3>4. CASE m = 1
      <4>1. next.matchPos = 2 /\ text[p] = LF /\ pos >= 1 /\ text[pos] = CR
        BY <2>2, <3>2, <3>4 DEF Sound
      <4> QED BY <1>3, <3>2, <4>1 DEF Sound
    <3>5. CASE m = 2
      <4>1. next.matchPos = 3 /\ text[p] = CR /\ pos >= 2 /\ text[pos - 1] = CR /\ text[pos] = LF
        BY <2>2, <3>2, <3>5 DEF Sound
      <4> QED BY <1>3, <3>2, <4>1 DEF Sound
    <3>6. CASE m = 3
      <4>1. /\ next.matchPos = 4 /\ text[p] = LF /\ pos >= 3 /\ text[pos - 2] = CR
            /\ text[pos - 1] = LF /\ text[pos] = CR
        BY <2>2, <3>2, <3>6 DEF Sound
      <4>2. BlankEnds(text, p)
        BY <1>3, <4>1 DEF BlankEnds
      <4> QED BY <1>3, <3>2, <4>1, <4>2 DEF Sound
    <3> QED BY <3>1, <3>3, <3>4, <3>5, <3>6
  <2> QED BY <2>1, <2>2
<1> QED BY <1>4, <1>5

(* Where every CR comes before an LF, a character that breaks a match      *)
(* begins none, so it need not be tried again.                             *)
LEMMA CompleteNext ==
  ASSUME NEW text, NEW s, NEW pos \in Nat, pos + 1 <= Len(text), Len(text) \in Nat,
         DOMAIN text = 1 .. Len(text), ProperLineEnds(text),
         Sound(text, s, pos), Complete(text, s, pos)
  PROVE  Complete(text, MatchNext(text, BlankLinePattern, s, pos + 1), pos + 1)
<1> DEFINE m == s.matchPos
           p == pos + 1
           next == MatchNext(text, BlankLinePattern, s, p)
           c == IF m \in {0, 2} THEN CR ELSE LF
<1>1. m \in 0 .. 4
  BY DEF Sound
<1>2. /\ m = 4 => next = s
      /\ m # 4 => next.second = p /\ next.matchPos = IF text[p] = c THEN m + 1 ELSE 0
  BY <1>1, BlankNext
<1>3. /\ p - 1 = pos /\ p - 2 = pos - 1 /\ p - 3 = pos - 2 /\ p \in Nat /\ p >= 1
      /\ (p >= 2 => pos >= 1) /\ (p >= 3 => pos >= 2) /\ (p >= 4 => pos >= 3)
      /\ \A e \in 4 .. p : e \in 4 .. pos \/ (e = p /\ p >= 4)
      /\ \A e \in 4 .. p - 1 : e \in 4 .. pos
  OBVIOUS
<1>4. pos >= 1 /\ text[pos] = CR => text[p] = LF
  <2>1. SUFFICES ASSUME pos >= 1, text[pos] = CR PROVE text[p] = LF
    OBVIOUS
  <2>2. pos \in DOMAIN text
    BY <2>1
  <2> QED BY <2>1, <2>2 DEF ProperLineEnds
<1> SUFFICES Complete(text, next, p)
  OBVIOUS
<1> HIDE DEF next, p
<1>5. CASE m = 4
  <2> QED BY <1>2, <1>5 DEF Complete
<1>6. CASE m # 4
  <2>1. /\ \A e \in 4 .. pos : ~BlankEnds(text, e)
        /\ pos >= 1 /\ text[pos] = CR => m \in {1, 3}
        /\ pos >= 2 /\ text[pos - 1] = CR /\ text[pos] = LF => m = 2
        /\ pos >= 3 /\ text[pos - 2] = CR /\ text[pos - 1] = LF /\ text[pos] = CR => m = 3
    BY <1>6 DEF Complete
  <2>2. /\ m = 1 => pos >= 1 /\ text[pos] = CR
        /\ m = 3 => pos >= 1 /\ text[pos] = CR
    BY DEF Sound
  <2>3. m = 0 \/ m = 1 \/ m = 2 \/ m = 3
    BY <1>1, <1>6
  <2>4. next.matchPos = IF text[p] = c THEN m + 1 ELSE 0
    BY <1>2, <1>6
  <2>5. text[p] = CR => next.matchPos \in {1, 3}
    <3>1. SUFFICES ASSUME text[p] = CR PROVE next.matchPos \in {1, 3}
      OBVIOUS
    <3>2. m = 0 \/ m = 2
      BY <1>4, <2>2, <2>3, <3>1, LineEnds
    <3> QED BY <2>4, <3>1, <3>2
  <2>6. p >= 2 /\ text[p - 1] = CR /\ text[p] = LF /\ next.matchPos # 4 => next.matchPos = 2
    <3>1. SUFFICES ASSUME p >= 2, text[p - 1] = CR, text[p] = LF, next.matchPos # 4
                   PROVE  next.matchPos = 2
      OBVIOUS
    <3>2. m = 1 \/ m = 3
      BY <1>3, <2>1, <3>1
    <3> QED BY <2>4, <3>1, <3>2
  <2>7. p >= 3 /\ text[p - 2] = CR /\ text[p - 1] = LF /\ text[p] = CR => next.matchPos = 3
    <3>1. SUFFICES ASSUME p >= 3, text[p - 2] = CR, text[p - 1] = LF, text[p] = CR
                   PROVE  next.matchPos = 3
      OBVIOUS
    <3>2. m = 2
      BY <1>3, <2>1, <3>1
    <3> QED BY <2>4, <3>1, <3>2
  <2>8. CASE next.matchPos = 4
    <3>1. next.second = p
      BY <1>2, <1>6
    <3>2. \A e \in 4 .. p - 1 : ~BlankEnds(text, e)
      BY <1>3, <2>1
    <3> QED BY <2>8, <3>1, <3>2 DEF Complete
  <2>9. CASE next.matchPos # 4
    <3>1. p >= 4 => ~BlankEnds(text, p)
      <4>1. SUFFICES ASSUME p >= 4, BlankEnds(text, p) PROVE FALSE
        OBVIOUS
      <4>2. m = 3 /\ text[p] = LF
        BY <1>3, <2>1, <4>1 DEF BlankEnds
      <4> QED BY <2>4, <2>9, <4>2
    <3>2. \A e \in 4 .. p : ~BlankEnds(text, e)
      BY <1>3, <2>1, <3>1
    <3> QED BY <2>5, <2>6, <2>7, <2>9, <3>2 DEF Complete
  <2> QED BY <2>8, <2>9
<1> QED BY <1>5, <1>6

(* findFirstPattern finds a blank line only where there is one, in any     *)
(* text, and the first one in a text whose CRs all come before LFs         *)
(* (main.cpp:28-42).                                                       *)
LEMMA BlankLineIsFound ==
  ASSUME NEW text, Len(text) \in Nat, DOMAIN text = 1 .. Len(text)
  PROVE  LET it == FindFirstPattern(text, BlankLinePattern)
             n == Len(text)
         IN  /\ it.found => it.second \in 4 .. n /\ BlankEnds(text, it.second)
             /\ ProperLineEnds(text) =>
                  IF it.found THEN \A e \in 4 .. it.second - 1 : ~BlankEnds(text, e)
                  ELSE \A e \in 4 .. n : ~BlankEnds(text, e)
<1> DEFINE n == Len(text)
           it == FindFirstPattern(text, BlankLinePattern)
           proper == ProperLineEnds(text)
<1>1. PICK f : /\ SearchOf(text, BlankLinePattern, f)
               /\ it = [found |-> f[n].matchPos = Len(BlankLinePattern),
                        second |-> f[n].second]
  BY SearchUnfolds
<1> DEFINE s == f[n]
           T == {pos \in Nat : \/ pos > n
                               \/ /\ Sound(text, f[pos], pos)
                                  /\ proper => Complete(text, f[pos], pos)}
<1>2. 0 \in T
  <2>1. f[0].matchPos = 0 /\ f[0].second = 0
    BY <1>1 DEF SearchOf
  <2>2. Sound(text, f[0], 0)
    BY <2>1 DEF Sound
  <2>3. Complete(text, f[0], 0)
    BY <2>1 DEF Complete
  <2> QED BY <2>2, <2>3
<1>3. ASSUME NEW pos \in Nat, pos \in T
      PROVE  pos + 1 \in T
  <2>1. CASE pos + 1 > n
    BY <2>1
  <2>2. CASE ~(pos + 1 > n)
    <3>1. pos + 1 \in 1 .. n /\ (pos + 1) - 1 = pos /\ pos + 1 <= n /\ pos + 1 \in Nat
          /\ ~(pos > n)
      BY <2>2
    <3>2. f[pos + 1] = MatchNext(text, BlankLinePattern, f[pos], pos + 1)
      BY <1>1, <3>1 DEF SearchOf
    <3>3. Sound(text, f[pos], pos) /\ (proper => Complete(text, f[pos], pos))
      BY <1>3, <3>1
    <3>4. Sound(text, f[pos + 1], pos + 1)
      BY <3>2, <3>3, SoundNext
    <3>5. proper => Complete(text, f[pos + 1], pos + 1)
      BY <3>1, <3>2, <3>3, CompleteNext
    <3> QED BY <3>1, <3>4, <3>5
  <2> QED BY <2>1, <2>2
<1>4. n \in T
  <2> HIDE DEF T
  <2> QED BY <1>2, <1>3, PositionInduction
<1>5. Sound(text, s, n) /\ (proper => Complete(text, s, n))
  BY <1>4
<1>6. it.found <=> s.matchPos = 4
  <2>1. Len(BlankLinePattern) = 4
    BY DEF BlankLinePattern
  <2> HIDE DEF it
  <2>2. it.found = (s.matchPos = Len(BlankLinePattern))
    BY <1>1
  <2> QED BY <2>1, <2>2
<1>7. it.second = s.second
  BY <1>1
<1> HIDE DEF it, s, n, T
<1> QED BY <1>5, <1>6, <1>7 DEF Sound, Complete, it, n

(* So it does of the texts of any length that TLC tries some of.           *)
THEOREM BlankLinesAreFound == FindsBlankLine
<1> SUFFICES ASSUME NEW n \in 0 .. MaxText, NEW text \in [1 .. n -> {CR, LF, "a"}]
             PROVE  LET it == FindFirstPattern(text, BlankLinePattern)
                        ends == {e \in 4 .. n : SubSeq(text, e - 3, e) = BlankLinePattern}
                    IN  /\ it.found => it.second \in ends
                        /\ ProperLineEnds(text) /\ ends # {} =>
                             it.found /\ it.second = Min(ends)
  BY DEF FindsBlankLine
<1> DEFINE it == FindFirstPattern(text, BlankLinePattern)
           ends == {e \in 4 .. n : SubSeq(text, e - 3, e) = BlankLinePattern}
<1>1. n \in Nat
  BY HeaderAssumption
<1>2. text \in Seq({CR, LF, "a"}) /\ Len(text) = n /\ DOMAIN text = 1 .. n
  BY <1>1
<1>3. \A e \in 4 .. n : e \in ends <=> BlankEnds(text, e)
  <2> TAKE e \in 4 .. n
  <2> DEFINE u == SubSeq(text, e - 3, e)
             w == BlankLinePattern
             C == {CR, LF, "a"}
  <2>1. u \in Seq(C) /\ Len(u) = 4
        /\ u[1] = text[e - 3] /\ u[2] = text[e - 2] /\ u[3] = text[e - 1] /\ u[4] = text[e]
    <3>1. e - 3 \in 1 .. n /\ e \in 1 .. n
      BY <1>1
    <3> HIDE DEF C
    <3>2. text \in Seq(C) /\ Len(text) = n
      BY <1>2 DEF C
    <3> QED BY <3>1, <3>2
  <2>2. w \in Seq(C) /\ Len(w) = 4 /\ w[1] = CR /\ w[2] = LF /\ w[3] = CR /\ w[4] = LF
    BY DEF BlankLinePattern
  <2> HIDE DEF u, w, C
  <2>3. u = w <=> u[1] = w[1] /\ u[2] = w[2] /\ u[3] = w[3] /\ u[4] = w[4]
    <3>1. SUFFICES ASSUME u[1] = w[1], u[2] = w[2], u[3] = w[3], u[4] = w[4] PROVE u = w
      OBVIOUS
    <3>2. \A k \in 1 .. 4 : k = 1 \/ k = 2 \/ k = 3 \/ k = 4
      OBVIOUS
    <3>3. \A k \in 1 .. 4 : u[k] = w[k]
      BY <3>1, <3>2, Zenon
    <3> QED BY <2>1, <2>2, <3>3, SeqEqual
  <2> QED BY <2>1, <2>2, <2>3 DEF BlankEnds, u, w
<1>4. /\ it.found => it.second \in 4 .. n /\ BlankEnds(text, it.second)
      /\ ProperLineEnds(text) =>
           IF it.found THEN \A e \in 4 .. it.second - 1 : ~BlankEnds(text, e)
           ELSE \A e \in 4 .. n : ~BlankEnds(text, e)
  BY <1>1, <1>2, BlankLineIsFound
<1> HIDE DEF it
<1>5. it.found => it.second \in ends
  BY <1>3, <1>4
<1>6. ASSUME ProperLineEnds(text), ends # {}
      PROVE  it.found /\ it.second = Min(ends)
  <2>1. PICK e \in ends : TRUE
    BY <1>6
  <2>2. it.found
    BY <1>3, <1>4, <1>6, <2>1
  <2>3. it.second \in ends /\ it.second \in 4 .. n
    BY <1>4, <1>5, <2>2
  <2>4. \A d \in ends : it.second <= d
    <3> TAKE d \in ends
    <3>1. d \in 4 .. n /\ BlankEnds(text, d)
      BY <1>3
    <3>2. ~(d \in 4 .. it.second - 1)
      BY <1>4, <1>6, <2>2, <3>1
    <3> QED BY <2>3, <3>1, <3>2
  <2>5. ends \subseteq Nat
    BY <1>1
  <2> HIDE DEF ends
  <2>6. Min(ends) \in ends /\ \A d \in ends : Min(ends) <= d
    BY <1>6, <2>5, LeastNumber DEF Min
  <2>7. Min(ends) <= it.second /\ it.second <= Min(ends) /\ Min(ends) \in Nat /\ it.second \in Nat
    BY <2>3, <2>4, <2>5, <2>6
  <2> QED BY <2>2, <2>7
<1> QED BY <1>5, <1>6 DEF it
=============================================================================
