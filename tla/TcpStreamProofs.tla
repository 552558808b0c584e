-------------------------- MODULE TcpStreamProofs --------------------------
(***************************************************************************)
(* Proofs about TcpStream, for any workers, bytes and buffer.              *)
(*                                                                         *)
(* The assertion of asyncEgress and the pace of a limited stream rest on   *)
(* one count: OneTrigger, that at most one of the egress timer, the events *)
(* and the workers will come to a write, and that writeTriggered is set    *)
(* while one does. The order of the bytes (BytesInOrder) needs no other    *)
(* thread: handleWrite has writeLock throughout. That what is queued is    *)
(* remembered is the last part.                                            *)
(***************************************************************************)
EXTENDS TcpStream, TLAPS, FiniteSetTheorems, SequenceTheorems

(* What eventQueue holds, and the bytes: each is named by its place.       *)
Event == Run \cup Own
Byte == 1 .. MaxBytes

(* TypeOK: the flags one by one, ...                                       *)
FlagTypes ==
  /\ limited \in BOOLEAN
  /\ connected \in BOOLEAN /\ once \in BOOLEAN /\ blocked \in BOOLEAN
  /\ triggered \in BOOLEAN /\ disconnecting \in BOOLEAN
  /\ registered \in BOOLEAN /\ armed \in BOOLEAN /\ out \in BOOLEAN
  /\ activity \in BOOLEAN /\ egress \in BOOLEAN
  /\ established \in BOOLEAN /\ broken \in BOOLEAN /\ trapped \in BOOLEAN

(* ... the threads and the events, ...                                     *)
ThreadTypes ==
  /\ phase \in {"new", "add", "added", "failed"}
  /\ events \in Seq(Event)
  /\ pc \in [Worker -> {"wait", "own", "write", "read", "error", "update", "mod"}]
  /\ event \in [Worker -> Event]
  /\ needOut \subseteq Worker
  /\ inputs \in 0 .. MaxInput

(* ... and the bytes.                                                      *)
ByteTypes ==
  /\ writeQueue \in Seq(Byte) /\ sent \in Seq(Byte)
  /\ queued \in 0 .. MaxBytes
  /\ drained \in 0 .. Len(sent) /\ Len(sent) - drained <= Buffer

(* TypeOK is these three.                                                  *)
LEMMA TypesAre == TypeOK <=> FlagTypes /\ ThreadTypes /\ ByteTypes
<1> DEFINE flags == {limited, connected, once, blocked, triggered, disconnecting, registered,
                     armed, out, activity, egress, established, broken, trapped}
<1>1. ASSUME flags \subseteq BOOLEAN PROVE FlagTypes
  <2>1. \A x \in flags : x \in BOOLEAN
    BY <1>1, Zenon
  <2>2. limited \in flags /\ connected \in flags /\ once \in flags /\ blocked \in flags
    OBVIOUS
  <2> QED BY <2>1, Zenon DEF FlagTypes
<1>2. ASSUME FlagTypes PROVE flags \subseteq BOOLEAN
  <2> SUFFICES ASSUME NEW x \in flags PROVE x \in BOOLEAN
    OBVIOUS
  <2> USE <1>2 DEF FlagTypes
  <2>1. CASE x \in {limited, connected, once, blocked, triggered}
    BY <2>1, Zenon
  <2>2. CASE x \in {disconnecting, registered, armed, out, activity}
    BY <2>2, Zenon
  <2>3. CASE x \in {egress, established, broken, trapped}
    BY <2>3, Zenon
  <2> QED BY <2>1, <2>2, <2>3, Zenon
<1> QED BY <1>1, <1>2 DEF TypeOK, ThreadTypes, ByteTypes, Event, Byte

-----------------------------------------------------------------------------

(* TcpStream::disconnect, alone or within another step.                    *)
LEMMA DisconnectFlags ==
  ASSUME FlagTypes, Disconnect
  PROVE  /\ disconnecting' \in BOOLEAN /\ registered' \in BOOLEAN
         /\ activity' \in BOOLEAN /\ egress' \in BOOLEAN /\ trapped' \in BOOLEAN
<1>1. disconnecting' \in BOOLEAN
  BY DEF Disconnect
<1>2. CASE disconnecting \/ phase # "added"
  <2>1. UNCHANGED <<registered, activity, egress, trapped>>
    BY <1>2 DEF Disconnect, timerVars
  <2> QED BY <1>1, <2>1 DEF FlagTypes
<1>3. CASE ~(disconnecting \/ phase # "added")
  <2>1. /\ trapped' = (trapped \/ ~registered)
        /\ registered' = FALSE /\ activity' = FALSE /\ egress' = FALSE
    BY <1>3 DEF Disconnect
  <2>2. trapped' \in BOOLEAN
    BY <2>1
  <2>3. registered' \in BOOLEAN /\ activity' \in BOOLEAN /\ egress' \in BOOLEAN
    BY <2>1
  <2> QED BY <1>1, <2>2, <2>3
<1> QED BY <1>2, <1>3

(* Each step keeps the flags Boolean.                                      *)
LEMMA FlagTypesKept ==
  ASSUME TcpStreamAssumption, FlagTypes, [Next]_vars
  PROVE  FlagTypes'
<1> USE DEF FlagTypes
<1>0. WaitingOutEvent \in BOOLEAN
  BY DEF WaitingOutEvent
<1>1. CASE CreateAccepted
  BY <1>1 DEF CreateAccepted, flagVars, registryVars, timerVars, kernelVars
<1>2. CASE CreateConnected
  <2>1. connected' \in BOOLEAN /\ established' \in BOOLEAN
    BY <1>2 DEF CreateConnected
  <2>2. activity' \in BOOLEAN
    BY <1>2 DEF CreateConnected
  <2>3. UNCHANGED <<limited, once, blocked, triggered, disconnecting, registered, armed, out,
                    egress, broken, trapped>>
    BY <1>2 DEF CreateConnected, registryVars
  <2> QED BY <2>1, <2>2, <2>3
<1>3. CASE EngineAdd
  BY <1>0, <1>3 DEF EngineAdd, flagVars, timerVars, kernelVars
<1>4. CASE Establish
  BY <1>4 DEF Establish, flagVars, registryVars, timerVars
<1>5. CASE Break
  BY <1>5 DEF Break, flagVars, registryVars, timerVars
<1>6. CASE Drain
  BY <1>6 DEF Drain, flagVars, registryVars, timerVars
<1>7. CASE Report
  <2>1. armed' \in BOOLEAN
    BY <1>7 DEF Report
  <2>2. UNCHANGED <<limited, connected, once, blocked, triggered, disconnecting, registered,
                    out, activity, egress, established, broken, trapped>>
    BY <1>7 DEF Report, flagVars, timerVars
  <2> QED BY <2>1, <2>2
<1>8. CASE ActivityExpires
  <2>1. activity' \in BOOLEAN
    BY <1>8 DEF ActivityExpires
  <2>2. UNCHANGED <<limited, connected, once, blocked, triggered, disconnecting, registered,
                    armed, out, egress, established, broken, trapped>>
    BY <1>8 DEF ActivityExpires, flagVars, registryVars, kernelVars
  <2> QED BY <2>1, <2>2
<1>9. CASE EgressExpires
  <2>1. egress' \in BOOLEAN
    BY <1>9 DEF EgressExpires
  <2>2. UNCHANGED <<limited, connected, once, blocked, triggered, disconnecting, registered,
                    armed, out, activity, established, broken, trapped>>
    BY <1>9 DEF EgressExpires, flagVars, registryVars, kernelVars
  <2> QED BY <2>1, <2>2
<1>10. CASE QueueWrite
  <2>1. triggered' \in BOOLEAN
    BY <1>10 DEF QueueWrite
  <2>2. UNCHANGED <<limited, connected, once, blocked, disconnecting, registered, armed, out,
                    activity, egress, established, broken, trapped>>
    BY <1>10 DEF QueueWrite, registryVars, timerVars, kernelVars
  <2> QED BY <2>1, <2>2
<1>11. CASE ClientDisconnect
  <2>1. UNCHANGED <<limited, connected, once, blocked, triggered, armed, out, established,
                    broken>>
    BY <1>11 DEF ClientDisconnect, kernelVars
  <2> QED BY <1>11, <2>1, DisconnectFlags DEF ClientDisconnect
<1>12. ASSUME NEW w \in Worker, Begin(w) PROVE FlagTypes'
  BY <1>12 DEF Begin, flagVars, registryVars, timerVars, kernelVars
<1>13. ASSUME NEW w \in Worker, HandleWriteConnected(w) PROVE FlagTypes'
  <2>1. /\ activity' = (activity \/ sent' # sent) /\ once' = TRUE
        /\ UNCHANGED <<limited, connected, disconnecting, registered, armed, out,
                       established, broken, trapped>>
    BY <1>13 DEF HandleWriteConnected, registryVars
  <2>2. activity' \in BOOLEAN
    BY <2>1
  <2>3. blocked' \in BOOLEAN /\ triggered' \in BOOLEAN /\ egress' \in BOOLEAN
    BY <1>13 DEF HandleWriteConnected, WriteAll, WriteUntilFull, WriteUntilRate, WriteFails
  <2> QED BY <2>1, <2>2, <2>3
<1>14. ASSUME NEW w \in Worker, HandleWriteConnects(w) PROVE FlagTypes'
  BY <1>14 DEF HandleWriteConnects, registryVars, kernelVars
<1>15. ASSUME NEW w \in Worker, HandleRead(w) PROVE FlagTypes'
  BY <1>15 DEF HandleRead, flagVars, registryVars, kernelVars
<1>16. ASSUME NEW w \in Worker, HandleError(w) PROVE FlagTypes'
  <2>1. UNCHANGED <<limited, connected, once, blocked, triggered, armed, out, established,
                    broken>>
    BY <1>16 DEF HandleError, kernelVars
  <2> QED BY <1>16, <2>1, DisconnectFlags DEF HandleError
<1>17. ASSUME NEW w \in Worker, ReadNeedOut(w) PROVE FlagTypes'
  BY <1>17 DEF ReadNeedOut, flagVars, registryVars, timerVars, kernelVars
<1>18. ASSUME NEW w \in Worker, Rearm(w) PROVE FlagTypes'
  <2>1. armed' \in BOOLEAN
    BY <1>18 DEF Rearm
  <2>3. out' \in BOOLEAN
    <3>1. (w \in needOut) \in BOOLEAN
      OBVIOUS
    <3>2. out' = (w \in needOut) \/ out' = out
      BY <1>18 DEF Rearm
    <3> QED BY <3>1, <3>2, Zenon
  <2>2. UNCHANGED <<limited, connected, once, blocked, triggered, disconnecting, registered,
                    activity, egress, established, broken, trapped>>
    BY <1>18 DEF Rearm, flagVars, timerVars, kernelVars
  <2> QED BY <2>1, <2>2, <2>3
<1>19. ASSUME NEW w \in Worker, AsyncWriteComplete(w) PROVE FlagTypes'
  BY <1>19 DEF AsyncWriteComplete, flagVars, registryVars, timerVars, kernelVars
<1>20. ASSUME NEW w \in Worker, AsyncDisconnect(w) PROVE FlagTypes'
  <2>1. UNCHANGED <<limited, connected, once, blocked, triggered, armed, out, established,
                    broken>>
    BY <1>20 DEF AsyncDisconnect, kernelVars
  <2> QED BY <1>20, <2>1, DisconnectFlags DEF AsyncDisconnect
<1>21. ASSUME NEW w \in Worker, AsyncEgress(w) PROVE FlagTypes'
  BY <1>21 DEF AsyncEgress, flagVars, registryVars, timerVars, kernelVars
<1>22. CASE UNCHANGED vars
  BY <1>22 DEF vars, flagVars, registryVars, timerVars, kernelVars
<1> QED
  BY <1>1, <1>2, <1>3, <1>4, <1>5, <1>6, <1>7, <1>8, <1>9, <1>10, <1>11, <1>12, <1>13,
     <1>14, <1>15, <1>16, <1>17, <1>18, <1>19, <1>20, <1>21, <1>22
  DEF Next, Create, EpollStep, WorkerStep

(* What the steps put in eventQueue.                                       *)
LEMMA TriggerIsEvent ==
  ASSUME ThreadTypes
  PROVE  TriggerWrites(events) \in Seq(Event)
  BY DEF ThreadTypes, TriggerWrites, Event, Run

(* Each step leaves the workers at their labels, with events of the        *)
(* stream.                                                                 *)
LEMMA ThreadTypesKept ==
  ASSUME TcpStreamAssumption, ThreadTypes, [Next]_vars
  PROVE  ThreadTypes'
<1> USE DEF ThreadTypes
<1>0. /\ {} \in Event /\ {"complete"} \in Event /\ {"activity"} \in Event
      /\ {"egress"} \in Event
  BY DEF Event, Run, Own
<1> DEFINE PC == {"wait", "own", "write", "read", "error", "update", "mod"}
<1>00. /\ \A flags : AfterRead(flags) \in PC /\ AfterWrite(flags) \in PC
                     /\ FirstHandler(flags) \in PC
       /\ \A w \in Worker, label \in PC :
            Goto(w, label) => pc' \in [Worker -> PC] /\ event' \in [Worker -> Event]
  <2>1. \A flags : AfterRead(flags) \in PC /\ AfterWrite(flags) \in PC
                   /\ FirstHandler(flags) \in PC
    BY DEF AfterRead, AfterWrite, FirstHandler
  <2>2. \A w \in Worker, label \in PC :
          Goto(w, label) => pc' \in [Worker -> PC] /\ event' \in [Worker -> Event]
    BY <1>0 DEF Goto
  <2> QED BY <2>1, <2>2
<1>1. CASE CreateAccepted
  BY <1>0, <1>1 DEF CreateAccepted, threadVars, kernelVars
<1>2. CASE CreateConnected
  BY <1>2 DEF CreateConnected, threadVars
<1>3. CASE EngineAdd
  BY <1>3 DEF EngineAdd, threadVars, kernelVars
<1>4. CASE Establish
  BY <1>4 DEF Establish, threadVars
<1>5. CASE Break
  BY <1>5 DEF Break, threadVars
<1>6. CASE Drain
  BY <1>6 DEF Drain, threadVars
<1>7. CASE Report
  <2>1. PICK input \in BOOLEAN, flags \in Run :
          /\ input => inputs < MaxInput
          /\ inputs' = inputs + (IF input THEN 1 ELSE 0)
          /\ events' = IF registered THEN Append(events, flags) ELSE events
    BY <1>7 DEF Report, Run
  <2>2. flags \in Event
    BY DEF Event
  <2>3. events' \in Seq(Event)
    BY <2>1, <2>2
  <2>4. inputs' \in 0 .. MaxInput
    BY <2>1 DEF TcpStreamAssumption
  <2> QED BY <1>7, <2>3, <2>4 DEF Report, threadVars
<1>8. CASE ActivityExpires
  BY <1>0, <1>8 DEF ActivityExpires, threadVars, kernelVars
<1>9. CASE EgressExpires
  BY <1>0, <1>9 DEF EgressExpires, threadVars, kernelVars
<1>10. CASE QueueWrite
  BY <1>10, TriggerIsEvent DEF QueueWrite, threadVars, kernelVars
<1>11. CASE ClientDisconnect
  BY <1>11 DEF ClientDisconnect, threadVars, kernelVars
<1>12. ASSUME NEW w \in Worker, Begin(w) PROVE ThreadTypes'
  BY <1>00, <1>12 DEF Begin, kernelVars
<1>13. ASSUME NEW w \in Worker, HandleWriteConnected(w) PROVE ThreadTypes'
  <2>1. events' \in Seq(Event)
    BY <1>0, <1>13 DEF HandleWriteConnected
  <2>2. Goto(w, AfterWrite(event[w])) /\ UNCHANGED <<phase, needOut, inputs>>
    BY <1>13 DEF HandleWriteConnected
  <2> QED BY <1>00, <2>1, <2>2
<1>14. ASSUME NEW w \in Worker, HandleWriteConnects(w) PROVE ThreadTypes'
  <2>1. events' \in Seq(Event)
    BY <1>0, <1>14, TriggerIsEvent DEF HandleWriteConnects
  <2> QED BY <1>00, <1>14, <2>1 DEF HandleWriteConnects, kernelVars
<1>15. ASSUME NEW w \in Worker, HandleRead(w) PROVE ThreadTypes'
  BY <1>00, <1>15 DEF HandleRead, kernelVars
<1>16. ASSUME NEW w \in Worker, HandleError(w) PROVE ThreadTypes'
  BY <1>00, <1>16 DEF HandleError, kernelVars
<1>17. ASSUME NEW w \in Worker, ReadNeedOut(w) PROVE ThreadTypes'
  BY <1>00, <1>17 DEF ReadNeedOut, kernelVars
<1>18. ASSUME NEW w \in Worker, Rearm(w) PROVE ThreadTypes'
  BY <1>00, <1>18 DEF Rearm, kernelVars
<1>19. ASSUME NEW w \in Worker, AsyncWriteComplete(w) PROVE ThreadTypes'
  BY <1>00, <1>19 DEF AsyncWriteComplete, kernelVars
<1>20. ASSUME NEW w \in Worker, AsyncDisconnect(w) PROVE ThreadTypes'
  BY <1>00, <1>20 DEF AsyncDisconnect, kernelVars
<1>21. ASSUME NEW w \in Worker, AsyncEgress(w) PROVE ThreadTypes'
  BY <1>00, <1>21, TriggerIsEvent DEF AsyncEgress, kernelVars
<1>22. CASE UNCHANGED vars
  BY <1>22 DEF vars, threadVars, kernelVars
<1> QED
  BY <1>1, <1>2, <1>3, <1>4, <1>5, <1>6, <1>7, <1>8, <1>9, <1>10, <1>11, <1>12, <1>13,
     <1>14, <1>15, <1>16, <1>17, <1>18, <1>19, <1>20, <1>21, <1>22
  DEF Next, Create, EpollStep, WorkerStep

-----------------------------------------------------------------------------
(* What the loop of handleWrite takes from the queue, m bytes, and what of *)
(* it the kernel gets, n: no more than there is room for, and all unless   *)
(* the socket has failed.                                                  *)
Moves(m, n) ==
  /\ writeQueue' = SubSeq(writeQueue, m + 1, Len(writeQueue))
  /\ sent' = sent \o SubSeq(writeQueue, 1, n)
  /\ n <= RoomLeft
  /\ ~broken => m = n
  /\ broken => n = 0

(* The lengths are numbers.                                                *)
LEMMA RoomIsNatural ==
  ASSUME TcpStreamAssumption, ByteTypes
  PROVE  RoomLeft \in Nat /\ Len(sent) \in Nat /\ Len(writeQueue) \in Nat
<1>1. Len(sent) \in Nat /\ Len(writeQueue) \in Nat
  BY DEF ByteTypes
<1>2. Len(sent) - drained \in Nat /\ Len(sent) - drained <= Buffer /\ Buffer \in Nat
  BY <1>1 DEF ByteTypes, TcpStreamAssumption
<1>3. Buffer - (Len(sent) - drained) \in Nat
  BY <1>2
<1> QED BY <1>1, <1>3 DEF RoomLeft

(* Each of the three ways the loop of handleWrite ends takes bytes from    *)
(* the front of the queue: it has written all, the kernel is full, or the  *)
(* rate is reached.                                                        *)
LEMMA WriteMoves ==
  ASSUME TcpStreamAssumption, ByteTypes,
         WriteAll \/ WriteUntilFull \/ WriteUntilRate \/ WriteFails
  PROVE  \E m, n \in 0 .. Len(writeQueue) : Moves(m, n)
<1> DEFINE len == Len(writeQueue)
<1>1. RoomLeft \in Nat /\ len \in Nat
  BY RoomIsNatural
<1>2. /\ SubSeq(writeQueue, 1, len) = writeQueue
      /\ SubSeq(writeQueue, 1, 0) = <<>> /\ SubSeq(writeQueue, len + 1, len) = <<>>
      /\ sent \o <<>> = sent
  BY <1>1, SubSeqFull, SubSeqEmpty, ConcatEmptySeq DEF ByteTypes
<1>3. CASE WriteAll
  <2>1. Moves(len, len)
    BY <1>1, <1>2, <1>3 DEF WriteAll, Moves
  <2> QED BY <1>1, <2>1
<1>4. CASE WriteUntilFull
  <2>1. Moves(RoomLeft, RoomLeft)
    BY <1>1, <1>4 DEF WriteUntilFull, Moves, Left
  <2> QED BY <1>1, <1>4, <2>1 DEF WriteUntilFull
<1>5. CASE WriteUntilRate
  <2>1. PICK n \in 1 .. Min2(len, RoomLeft) :
          sent' = sent \o SubSeq(writeQueue, 1, n) /\ writeQueue' = Left(n)
    BY <1>5 DEF WriteUntilRate
  <2>2. n \in 0 .. len /\ n <= RoomLeft
    BY <1>1 DEF Min2
  <2>3. Moves(n, n)
    BY <1>5, <2>1, <2>2 DEF WriteUntilRate, Moves, Left
  <2> QED BY <2>2, <2>3
<1>6. CASE WriteFails
  <2>1. broken /\ sent' = sent \o SubSeq(writeQueue, 1, 0)
    BY <1>2, <1>6 DEF WriteFails
  <2>4. 0 <= RoomLeft /\ 0 = 0
    BY <1>1
  <2>2. CASE writeQueue = <<>>
    <3>1. writeQueue' = SubSeq(writeQueue, 0 + 1, len) /\ len = 0
      BY <1>2, <1>6, <2>2 DEF WriteFails
    <3>2. Moves(0, 0)
      BY <2>1, <2>4, <3>1, Zenon DEF Moves
    <3> QED BY <1>1, <3>2
  <2>3. CASE writeQueue # <<>>
    <3>1. PICK m \in 1 .. len : writeQueue' = Left(m)
      BY <1>6, <2>3 DEF WriteFails
    <3>2. Moves(m, 0)
      BY <2>1, <2>4, <3>1, Zenon DEF Moves, Left
    <3> QED BY <1>1, <3>1, <3>2
  <2> QED BY <2>2, <2>3
<1> QED BY <1>3, <1>4, <1>5, <1>6

(* ... byte by byte.                                                       *)
LEMMA MovedBytes ==
  ASSUME TcpStreamAssumption, ByteTypes, NEW m \in 0 .. Len(writeQueue),
         NEW n \in 0 .. Len(writeQueue), Moves(m, n)
  PROVE  /\ writeQueue' \in Seq(Byte) /\ Len(writeQueue') = Len(writeQueue) - m
         /\ \A i \in 1 .. Len(writeQueue') : writeQueue'[i] = writeQueue[m + i]
         /\ sent' \in Seq(Byte) /\ Len(sent') = Len(sent) + n
         /\ \A i \in 1 .. Len(sent) : sent'[i] = sent[i]
         /\ \A i \in 1 .. n : sent'[Len(sent) + i] = writeQueue[i]
<1> DEFINE len == Len(writeQueue)
           taken == SubSeq(writeQueue, 1, n)
<1>1. len \in Nat /\ Len(sent) \in Nat
  BY RoomIsNatural
<1>2. \A i \in 1 .. len : writeQueue[i] \in Byte
  BY DEF ByteTypes
<1>3. /\ taken \in Seq(Byte) /\ Len(taken) = n
      /\ \A i \in 1 .. n : taken[i] = writeQueue[i]
  <2>1. \A i \in 1 .. n : writeQueue[i] \in Byte
    BY <1>1, <1>2
  <2>2. /\ taken \in Seq(Byte) /\ Len(taken) = IF 1 <= n THEN n - 1 + 1 ELSE 0
        /\ \A i \in 1 .. n - 1 + 1 : taken[i] = writeQueue[1 + i - 1]
    BY <2>1, SubSeqProperties
  <2> QED BY <1>1, <2>2
<1>4. /\ writeQueue' \in Seq(Byte) /\ Len(writeQueue') = len - m
      /\ \A i \in 1 .. Len(writeQueue') : writeQueue'[i] = writeQueue[m + i]
  <2> DEFINE rest == SubSeq(writeQueue, m + 1, len)
  <2>1. \A i \in m + 1 .. len : writeQueue[i] \in Byte
    BY <1>1, <1>2
  <2>2. m + 1 \in Int /\ len \in Int
    BY <1>1
  <2>3. /\ rest \in Seq(Byte)
        /\ Len(rest) = IF m + 1 <= len THEN len - (m + 1) + 1 ELSE 0
        /\ \A i \in 1 .. len - (m + 1) + 1 : rest[i] = writeQueue[m + 1 + i - 1]
    BY <2>1, <2>2, SubSeqProperties
  <2>4. writeQueue' = rest
    BY DEF Moves
  <2> HIDE DEF rest
  <2>5. Len(rest) = len - m /\ \A i \in 1 .. len - m : rest[i] = writeQueue[m + i]
    BY <1>1, <2>3
  <2> QED BY <2>3, <2>4, <2>5
<1>5. sent' = sent \o taken
  BY DEF Moves
<1> HIDE DEF taken
<1>6. sent \in Seq(Byte)
  BY DEF ByteTypes
<1>7. /\ sent' \in Seq(Byte) /\ Len(sent') = Len(sent) + n
      /\ \A i \in 1 .. Len(sent) + n :
           sent'[i] = IF i <= Len(sent) THEN sent[i] ELSE taken[i - Len(sent)]
  BY <1>3, <1>5, <1>6, ConcatProperties
<1>8. \A i \in 1 .. Len(sent) : sent'[i] = sent[i]
  BY <1>1, <1>7
<1>9. \A i \in 1 .. n : sent'[Len(sent) + i] = writeQueue[i]
  <2> SUFFICES ASSUME NEW i \in 1 .. n PROVE sent'[Len(sent) + i] = writeQueue[i]
    OBVIOUS
  <2>1. /\ Len(sent) + i \in 1 .. Len(sent) + n /\ ~(Len(sent) + i <= Len(sent))
        /\ (Len(sent) + i) - Len(sent) = i
    BY <1>1
  <2> QED BY <1>3, <1>7, <2>1
<1> QED BY <1>4, <1>7, <1>8, <1>9

-----------------------------------------------------------------------------

(* What was sent and what is queued are the bytes in the order the client  *)
(* queued them; after a failed write some of the queue is gone, and no     *)
(* more will be sent.                                                      *)
BytesInOrder ==
  /\ Len(sent) <= queued
  /\ \A i \in 1 .. Len(sent) : sent[i] = i
  /\ ~broken => /\ Len(sent) + Len(writeQueue) = queued
                /\ \A i \in 1 .. Len(writeQueue) : writeQueue[i] = Len(sent) + i

(* The steps that move no byte.                                            *)
LEMMA OthersMoveNothing ==
  ASSUME [Next]_vars, ~QueueWrite, ~(\E w \in Worker : HandleWriteConnected(w))
  PROVE  /\ UNCHANGED <<writeQueue, queued, sent>>
         /\ drained' = drained \/ drained' = Len(sent)
         /\ broken => broken'
<1> USE DEF dataVars, kernelVars
<1>1. CASE CreateAccepted
  BY <1>1 DEF CreateAccepted
<1>2. CASE CreateConnected
  BY <1>2 DEF CreateConnected
<1>3. CASE EngineAdd
  BY <1>3 DEF EngineAdd
<1>4. CASE Establish \/ Break \/ Drain \/ Report \/ ActivityExpires \/ EgressExpires
  BY <1>4 DEF Establish, Break, Drain, Report, ActivityExpires, EgressExpires
<1>5. CASE ClientDisconnect
  BY <1>5 DEF ClientDisconnect
<1>6. ASSUME NEW w \in Worker, WorkerStep(w)
      PROVE  UNCHANGED <<writeQueue, queued, sent, drained, broken>>
  BY <1>6 DEF WorkerStep, Begin, HandleWriteConnects, HandleRead, HandleError, ReadNeedOut,
              Rearm, AsyncWriteComplete, AsyncDisconnect, AsyncEgress
<1>7. CASE UNCHANGED vars
  BY <1>7 DEF vars
<1> QED BY <1>1, <1>2, <1>3, <1>4, <1>5, <1>6, <1>7 DEF Next, Create, EpollStep

(* Each step keeps the bytes in order: queueWrite adds the next at the     *)
(* end, handleWrite moves them from the front.                             *)
LEMMA BytesKept ==
  ASSUME TcpStreamAssumption, ByteTypes, BytesInOrder, [Next]_vars
  PROVE  ByteTypes' /\ BytesInOrder'
<1>1. /\ Len(sent) \in Nat /\ Len(writeQueue) \in Nat /\ RoomLeft \in Nat
      /\ Buffer \in Nat /\ MaxBytes \in Nat
      /\ queued \in 0 .. MaxBytes /\ drained \in 0 .. Len(sent)
  BY RoomIsNatural DEF ByteTypes, TcpStreamAssumption
<1>2. CASE QueueWrite
  <2>1. /\ writeQueue' = Append(writeQueue, queued + 1) /\ queued' = queued + 1
        /\ queued < MaxBytes /\ UNCHANGED <<sent, drained, broken>>
    BY <1>2 DEF QueueWrite, kernelVars
  <2>2. queued + 1 \in Byte /\ writeQueue \in Seq(Byte)
    BY <1>1, <2>1 DEF Byte, ByteTypes
  <2>3. /\ writeQueue' \in Seq(Byte) /\ Len(writeQueue') = Len(writeQueue) + 1
        /\ \A i \in 1 .. Len(writeQueue) : writeQueue'[i] = writeQueue[i]
        /\ writeQueue'[Len(writeQueue) + 1] = queued + 1
    BY <2>1, <2>2, AppendProperties
  <2>4. ByteTypes'
    BY <1>1, <2>1, <2>3 DEF ByteTypes
  <2>5. ASSUME ~broken
        PROVE  /\ Len(sent) + Len(writeQueue') = queued'
               /\ \A i \in 1 .. Len(writeQueue') : writeQueue'[i] = Len(sent) + i
    <3>1. /\ Len(sent) + Len(writeQueue) = queued
          /\ \A i \in 1 .. Len(writeQueue) : writeQueue[i] = Len(sent) + i
      BY <2>5 DEF BytesInOrder
    <3>2. Len(sent) + Len(writeQueue') = queued'
      <4>1. \A a, b, q \in Int : a + b = q => a + (b + 1) = q + 1
        OBVIOUS
      <4>2. Len(sent) + (Len(writeQueue) + 1) = queued + 1
        BY <1>1, <3>1, <4>1
      <4> QED BY <2>1, <2>3, <4>2
    <3>3. ASSUME NEW i \in 1 .. Len(writeQueue') PROVE writeQueue'[i] = Len(sent) + i
      <4>1. CASE i = Len(writeQueue) + 1
        BY <1>1, <2>3, <3>1, <4>1
      <4>2. CASE i # Len(writeQueue) + 1
        BY <1>1, <2>3, <3>1, <4>2
      <4> QED BY <4>1, <4>2
    <3> QED BY <3>2, <3>3
  <2> QED BY <1>1, <2>1, <2>4, <2>5 DEF BytesInOrder
<1>3. CASE \E w \in Worker : HandleWriteConnected(w)
  <2>1. PICK w \in Worker : HandleWriteConnected(w)
    BY <1>3
  <2>2. UNCHANGED <<queued, broken, drained>>
    BY <2>1 DEF HandleWriteConnected
  <2>3. PICK m \in 0 .. Len(writeQueue), n \in 0 .. Len(writeQueue) : Moves(m, n)
    BY <2>1, WriteMoves DEF HandleWriteConnected
  <2>4. /\ writeQueue' \in Seq(Byte) /\ Len(writeQueue') = Len(writeQueue) - m
        /\ \A i \in 1 .. Len(writeQueue') : writeQueue'[i] = writeQueue[m + i]
        /\ sent' \in Seq(Byte) /\ Len(sent') = Len(sent) + n
        /\ \A i \in 1 .. Len(sent) : sent'[i] = sent[i]
        /\ \A i \in 1 .. n : sent'[Len(sent) + i] = writeQueue[i]
    BY <2>3, MovedBytes
  <2>5. n <= Buffer - (Len(sent) - drained) /\ (~broken => m = n) /\ (broken => n = 0)
    BY <2>3 DEF Moves, RoomLeft
  <2>6. drained' \in 0 .. Len(sent') /\ Len(sent') - drained' <= Buffer
    BY <1>1, <2>2, <2>4, <2>5
  <2>7. ByteTypes'
    BY <1>1, <2>2, <2>4, <2>6 DEF ByteTypes
  <2>8. CASE broken
    <3>1. \A i \in 1 .. Len(sent') : sent'[i] = i
      BY <1>1, <2>4, <2>5, <2>8 DEF BytesInOrder
    <3> QED BY <1>1, <2>2, <2>4, <2>5, <2>7, <2>8, <3>1 DEF BytesInOrder
  <2>9. CASE ~broken
    <3>1. m = n
      BY <2>5, <2>9
    <3>2. /\ Len(sent) + Len(writeQueue) = queued
          /\ \A i \in 1 .. Len(writeQueue) : writeQueue[i] = Len(sent) + i
      BY <2>9 DEF BytesInOrder
    <3>3. \A i \in 1 .. Len(sent') : sent'[i] = i
      <4> SUFFICES ASSUME NEW i \in 1 .. Len(sent') PROVE sent'[i] = i
        OBVIOUS
      <4>1. CASE i <= Len(sent)
        BY <1>1, <2>4, <4>1 DEF BytesInOrder
      <4>2. CASE ~(i <= Len(sent))
        <5>1. /\ i - Len(sent) \in 1 .. n /\ i - Len(sent) \in 1 .. Len(writeQueue)
              /\ Len(sent) + (i - Len(sent)) = i
          BY <1>1, <2>4, <4>2
        <5> QED BY <2>4, <3>2, <5>1
      <4> QED BY <4>1, <4>2
    <3>4. \A i \in 1 .. Len(writeQueue') : writeQueue'[i] = Len(sent') + i
      BY <1>1, <2>4, <3>1, <3>2
    <3>5. Len(sent') + Len(writeQueue') = queued' /\ Len(sent') <= queued'
      <4>1. \A a, b, k, q \in Int :
              a + b = q /\ k <= b => (a + k) + (b - k) = q /\ a + k <= q
        OBVIOUS
      <4>2. /\ (Len(sent) + n) + (Len(writeQueue) - n) = queued
            /\ Len(sent) + n <= queued
        <5>1. Len(sent) \in Int /\ Len(writeQueue) \in Int /\ n \in Int /\ queued \in Int
          BY <1>1
        <5>2. n <= Len(writeQueue)
          BY <1>1
        <5> QED BY <3>2, <4>1, <5>1, <5>2
      <4> QED BY <2>2, <2>4, <3>1, <4>2
    <3> QED BY <2>7, <3>3, <3>4, <3>5 DEF BytesInOrder
  <2> QED BY <2>8, <2>9
<1>4. CASE ~QueueWrite /\ ~(\E w \in Worker : HandleWriteConnected(w))
  <2>1. /\ UNCHANGED <<writeQueue, queued, sent>>
        /\ drained' = drained \/ drained' = Len(sent)
        /\ broken => broken'
    BY <1>4, OthersMoveNothing
  <2> QED BY <1>1, <2>1 DEF ByteTypes, BytesInOrder
<1> QED BY <1>2, <1>3, <1>4

-----------------------------------------------------------------------------
(* A limited stream is connected from the start and never asks for         *)
(* EPOLLOUT (tcpstream.cpp:142).                                           *)
LimitedIsConnected == limited => connected /\ ~out /\ needOut = {}

(* A worker that waits has no event, and one that runs an own event of the *)
(* stream is nowhere else.                                                 *)
EventIsHandled ==
  \A w \in Worker :
    /\ pc[w] = "wait" => event[w] = {}
    /\ pc[w] = "own" <=> event[w] \in Own

(* From Engine::add to disconnect, eventHash has the stream.               *)
AddedIsRegistered == phase = "added" /\ ~disconnecting => registered

(* Only a limited stream has an egress timer.                              *)
EgressIsLimited == ~limited => ~EgressPending

(* What leads to a write of a limited stream: EPOLLOUT, or the egress      *)
(* timer's event.                                                          *)
Leads(e) == "out" \in e \/ e = {"egress"}
Waiting == {i \in DOMAIN events : Leads(events[i])}
Held == {w \in Worker : pc[w] = "write" \/ event[w] = {"egress"}}

(* There is one of these at most, and while there is, writeTriggered is    *)
(* set.                                                                    *)
OneTrigger ==
  limited =>
    /\ \A i, j \in Waiting : i = j
    /\ \A v, w \in Held : v = w
    /\ Waiting = {} \/ (Held = {} /\ ~egress)
    /\ Held = {} \/ ~egress
    /\ ~triggered => Waiting = {} /\ Held = {} /\ ~egress

IInv ==
  /\ TypeOK
  /\ BytesInOrder
  /\ LimitedIsConnected
  /\ EventIsHandled
  /\ AddedIsRegistered
  /\ EgressIsLimited
  /\ OneTrigger
  /\ AssertionsHold

-----------------------------------------------------------------------------

(* Each step leaves a limited stream connected, and without EPOLLOUT.      *)
LEMMA LimitedKept ==
  ASSUME LimitedIsConnected, ThreadTypes, [Next]_vars
  PROVE  LimitedIsConnected' /\ limited' = limited
<1> USE DEF LimitedIsConnected, flagVars, registryVars, threadVars, kernelVars
<1>1. CASE CreateAccepted
  BY <1>1 DEF CreateAccepted
<1>2. CASE CreateConnected
  BY <1>2 DEF CreateConnected
<1>3. CASE EngineAdd
  BY <1>3 DEF EngineAdd, WaitingOutEvent
<1>4. CASE Establish \/ Break \/ Drain \/ Report \/ ActivityExpires \/ EgressExpires
  BY <1>4 DEF Establish, Break, Drain, Report, ActivityExpires, EgressExpires
<1>5. CASE ClientDisconnect
  BY <1>5 DEF ClientDisconnect
<1>6. CASE QueueWrite
  BY <1>6 DEF QueueWrite
<1>7. ASSUME NEW w \in Worker, ReadNeedOut(w)
      PROVE  LimitedIsConnected' /\ limited' = limited
  BY <1>7 DEF ReadNeedOut, WaitingOutEvent
<1>8. ASSUME NEW w \in Worker, Rearm(w)
      PROVE  LimitedIsConnected' /\ limited' = limited
  <2>1. limited' = limited /\ connected' = connected /\ needOut' = needOut \ {w}
    BY <1>8 DEF Rearm
  <2>2. limited => ~out'
    BY <1>8 DEF Rearm
  <2> QED BY <2>1, <2>2
<1>9. ASSUME NEW w \in Worker, Begin(w) \/ HandleWriteConnected(w) \/ HandleWriteConnects(w)
      PROVE  LimitedIsConnected' /\ limited' = limited
  BY <1>9 DEF Begin, HandleWriteConnected, HandleWriteConnects
<1>10. ASSUME NEW w \in Worker, HandleRead(w) \/ HandleError(w) \/ AsyncWriteComplete(w)
                                \/ AsyncDisconnect(w) \/ AsyncEgress(w)
       PROVE  LimitedIsConnected' /\ limited' = limited
  BY <1>10 DEF HandleRead, HandleError, AsyncWriteComplete, AsyncDisconnect, AsyncEgress
<1>11. CASE UNCHANGED vars
  BY <1>11 DEF vars
<1> QED
  BY <1>1, <1>2, <1>3, <1>4, <1>5, <1>6, <1>7, <1>8, <1>9, <1>10, <1>11
  DEF Next, Create, EpollStep, WorkerStep

(* The steps of other threads than the workers.                            *)
LEMMA OthersRunNothing ==
  ASSUME [Next]_vars, ~(\E w \in Worker : WorkerStep(w))
  PROVE  UNCHANGED <<pc, event>>
<1> USE DEF threadVars
<1>1. CASE Create
  BY <1>1 DEF Create, CreateAccepted, CreateConnected, EngineAdd
<1>2. CASE Establish \/ Break \/ Drain \/ Report \/ ActivityExpires \/ EgressExpires
  BY <1>2 DEF Establish, Break, Drain, Report, ActivityExpires, EgressExpires
<1>3. CASE ClientDisconnect \/ QueueWrite
  BY <1>3 DEF ClientDisconnect, QueueWrite
<1>4. CASE UNCHANGED vars
  BY <1>4 DEF vars
<1> QED BY <1>1, <1>2, <1>3, <1>4 DEF Next, EpollStep

(* A worker's other steps leave its event, or end its run.                 *)
LEMMA WorkerGoesOn ==
  ASSUME ThreadTypes, NEW w \in Worker, WorkerStep(w), ~Begin(w)
  PROVE  \/ /\ pc[w] \notin {"wait", "own"}
            /\ \E label \in {"read", "error", "update", "mod"} : pc' = [pc EXCEPT ![w] = label]
            /\ event' = event
         \/ /\ pc' = [pc EXCEPT ![w] = "wait"]
            /\ event' = [event EXCEPT ![w] = {}]
<1> USE DEF Goto, AfterRead, AfterWrite
<1>1. CASE HandleWriteConnected(w)
  BY <1>1 DEF HandleWriteConnected
<1>2. CASE HandleWriteConnects(w)
  BY <1>2 DEF HandleWriteConnects
<1>3. CASE HandleRead(w)
  BY <1>3 DEF HandleRead
<1>4. CASE HandleError(w)
  BY <1>4 DEF HandleError
<1>5. CASE ReadNeedOut(w)
  BY <1>5 DEF ReadNeedOut
<1>6. CASE Rearm(w)
  BY <1>6 DEF Rearm
<1>7. CASE AsyncWriteComplete(w) \/ AsyncDisconnect(w) \/ AsyncEgress(w)
  BY <1>7 DEF AsyncWriteComplete, AsyncDisconnect, AsyncEgress
<1> QED BY <1>1, <1>2, <1>3, <1>4, <1>5, <1>6, <1>7 DEF WorkerStep

(* Each step gives a worker that waits its event, takes it at the end, or  *)
(* changes neither.                                                        *)
LEMMA HandledKept ==
  ASSUME EventIsHandled, ThreadTypes, [Next]_vars
  PROVE  EventIsHandled'
<1> USE DEF EventIsHandled, ThreadTypes
<1>1. CASE ~(\E w \in Worker : WorkerStep(w))
  BY <1>1, OthersRunNothing
<1>2. ASSUME NEW w \in Worker, WorkerStep(w), ~Begin(w)
      PROVE  EventIsHandled'
  <2>1. {} \notin Own
    BY DEF Own
  <2> QED BY <1>2, <2>1, WorkerGoesOn
<1>3. ASSUME NEW w \in Worker, Begin(w)
      PROVE  EventIsHandled'
  <2>1. CASE UNCHANGED <<pc, event>>
    BY <2>1
  <2>2. CASE /\ pc' = [pc EXCEPT ![w] = FirstHandler(Head(events))]
             /\ event' = [event EXCEPT ![w] = Head(events)]
    <3>1. /\ FirstHandler(Head(events)) # "wait"
          /\ FirstHandler(Head(events)) = "own" <=> Head(events) \in Own
      BY DEF FirstHandler, AfterWrite, AfterRead
    <3> QED BY <2>2, <3>1
  <2> QED BY <1>3, <2>1, <2>2 DEF Begin
<1> QED BY <1>1, <1>2, <1>3

(* TcpStream::disconnect tests disconnecting first, so that the stream is  *)
(* still in eventHash when doRemove looks for it.                          *)
LEMMA DisconnectIsSafe ==
  ASSUME FlagTypes, AddedIsRegistered, Disconnect
  PROVE  /\ AssertionsHold => AssertionsHold'
         /\ phase' = phase => AddedIsRegistered'
         /\ egress' => egress
<1>1. CASE disconnecting \/ phase # "added"
  <2>1. UNCHANGED <<registered, egress, trapped>> /\ disconnecting' = TRUE
    BY <1>1 DEF Disconnect, timerVars
  <2> QED BY <2>1 DEF AssertionsHold, AddedIsRegistered
<1>2. CASE ~(disconnecting \/ phase # "added")
  <2>1. trapped' = (trapped \/ ~registered) /\ disconnecting' = TRUE /\ egress' = FALSE
    BY <1>2 DEF Disconnect
  <2>2. registered
    BY <1>2 DEF AddedIsRegistered
  <2> QED BY <2>1, <2>2 DEF AssertionsHold, AddedIsRegistered
<1> QED BY <1>1, <1>2

(* Each step keeps the assertions: a worker that runs asyncEgress is one   *)
(* of what leads to a write, so writeTriggered is set.                     *)
LEMMA AssertionsKept ==
  ASSUME FlagTypes, ThreadTypes, AddedIsRegistered, EgressIsLimited, OneTrigger,
         AssertionsHold, [Next]_vars
  PROVE  AddedIsRegistered' /\ AssertionsHold'
<1> DEFINE Goal == AddedIsRegistered' /\ AssertionsHold'
<1>0. ASSUME UNCHANGED <<phase, disconnecting, registered, trapped>> PROVE Goal
  BY <1>0 DEF AddedIsRegistered, AssertionsHold
<1>1. CASE CreateAccepted \/ CreateConnected
  <2>1. phase' # "added" /\ trapped' = trapped
    BY <1>1 DEF CreateAccepted, CreateConnected
  <2> QED BY <2>1 DEF AddedIsRegistered, AssertionsHold
<1>2. CASE EngineAdd
  <2>1. registered' = TRUE /\ trapped' = trapped
    BY <1>2 DEF EngineAdd
  <2> QED BY <2>1 DEF AddedIsRegistered, AssertionsHold
<1>3. CASE Establish \/ Break \/ Drain \/ Report \/ ActivityExpires \/ EgressExpires
  <2>1. UNCHANGED <<phase, disconnecting, registered, trapped>>
    BY <1>3 DEF Establish, Break, Drain, Report, ActivityExpires, EgressExpires, flagVars,
                registryVars
  <2> QED BY <1>0, <2>1
<1>4. CASE QueueWrite
  <2>1. UNCHANGED <<phase, disconnecting, registered, trapped>>
    BY <1>4 DEF QueueWrite, registryVars
  <2> QED BY <1>0, <2>1
<1>5. CASE ClientDisconnect
  BY <1>5, DisconnectIsSafe DEF ClientDisconnect
<1>6. ASSUME NEW w \in Worker, Begin(w) \/ HandleWriteConnected(w) \/ HandleWriteConnects(w)
                              \/ HandleRead(w) \/ ReadNeedOut(w) \/ Rearm(w)
                              \/ AsyncWriteComplete(w)
      PROVE  Goal
  <2>1. UNCHANGED <<phase, disconnecting, registered, trapped>>
    BY <1>6 DEF Begin, HandleWriteConnected, HandleWriteConnects, HandleRead, ReadNeedOut,
                Rearm, AsyncWriteComplete, flagVars, registryVars
  <2> QED BY <1>0, <2>1
<1>7. ASSUME NEW w \in Worker, HandleError(w) \/ AsyncDisconnect(w)
      PROVE  Goal
  <2>1. Disconnect /\ phase' = phase
    BY <1>7 DEF HandleError, AsyncDisconnect
  <2> QED BY <2>1, DisconnectIsSafe
<1>8. ASSUME NEW w \in Worker, AsyncEgress(w)
      PROVE  Goal
  <2>1. /\ event[w] = {"egress"} /\ trapped' = (trapped \/ ~triggered)
        /\ UNCHANGED <<phase, disconnecting, registered>>
    BY <1>8 DEF AsyncEgress, flagVars, registryVars
  <2>2. limited
    BY <2>1 DEF EgressIsLimited, EgressPending
  <2>3. w \in Held
    BY <2>1 DEF Held
  <2>4. triggered
    BY <2>2, <2>3 DEF OneTrigger
  <2> QED BY <2>1, <2>4 DEF AddedIsRegistered, AssertionsHold
<1>9. CASE UNCHANGED vars
  BY <1>0, <1>9 DEF vars, flagVars, registryVars
<1> QED
  BY <1>1, <1>2, <1>3, <1>4, <1>5, <1>6, <1>7, <1>8, <1>9
  DEF Next, Create, EpollStep, WorkerStep

-----------------------------------------------------------------------------

(* eventQueue at its two ends.                                             *)
LEMMA AppendedLast ==
  ASSUME ThreadTypes, NEW e, events' = Append(events, e)
  PROVE  /\ Waiting' \subseteq Waiting \cup {Len(events) + 1}
         /\ ~Leads(e) => Waiting' \subseteq Waiting
         /\ \A i \in DOMAIN events' :
              events'[i] = e \/ (i \in DOMAIN events /\ events'[i] = events[i])
<1>1. Len(events) \in Nat /\ DOMAIN events = 1 .. Len(events)
  BY DEF ThreadTypes
<1>2. /\ DOMAIN events' = 1 .. Len(events) + 1 /\ events'[Len(events) + 1] = e
      /\ \A i \in 1 .. Len(events) : events'[i] = events[i]
  BY <1>1 DEF ThreadTypes
<1>3. \A i \in DOMAIN events' :
        i = Len(events) + 1 \/ (i \in DOMAIN events /\ events'[i] = events[i])
  <2> SUFFICES ASSUME NEW i \in 1 .. Len(events) + 1, i # Len(events) + 1
               PROVE  i \in DOMAIN events /\ events'[i] = events[i]
    BY <1>2
  <2>1. i \in 1 .. Len(events)
    BY <1>1
  <2> QED BY <1>1, <1>2, <2>1
<1> HIDE DEF Leads
<1> QED BY <1>2, <1>3 DEF Waiting

(* Taking the first event moves the others up.                             *)
LEMMA TakenFirst ==
  ASSUME ThreadTypes, events # <<>>, events' = Tail(events)
  PROVE  /\ Head(events) = events[1] /\ 1 \in DOMAIN events
         /\ DOMAIN events' \subseteq Nat \ {0}
         /\ \A i \in DOMAIN events' : i + 1 \in DOMAIN events /\ events'[i] = events[i + 1]
         /\ \A i \in Waiting' : i + 1 \in Waiting
<1>1. /\ Len(events) \in Nat /\ Len(events) # 0 /\ DOMAIN events = 1 .. Len(events)
      /\ Head(events) = events[1] /\ events \in Seq(Event)
  BY DEF ThreadTypes
<1>2. /\ Len(events') = Len(events) - 1 /\ DOMAIN events' = 1 .. Len(events) - 1
      /\ \A i \in 1 .. Len(events) - 1 : events'[i] = events[i + 1]
  BY <1>1, HeadTailProperties
<1>3. \A i \in DOMAIN events' : i + 1 \in DOMAIN events /\ events'[i] = events[i + 1]
  BY <1>1, <1>2
<1> QED BY <1>1, <1>2, <1>3 DEF Waiting, Leads

(* What is behind the first stays.                                         *)
LEMMA StaysBehind ==
  ASSUME ThreadTypes, events # <<>>, events' = Tail(events), NEW i \in DOMAIN events, i # 1
  PROVE  i - 1 \in DOMAIN events' /\ events'[i - 1] = events[i]
<1>1. /\ Len(events) \in Nat /\ DOMAIN events = 1 .. Len(events) /\ events \in Seq(Event)
  BY DEF ThreadTypes
<1>2. /\ Len(events') = Len(events) - 1 /\ DOMAIN events' = 1 .. Len(events) - 1
      /\ \A j \in 1 .. Len(events) - 1 : events'[j] = events[j + 1]
  BY <1>1, HeadTailProperties
<1>3. i - 1 \in 1 .. Len(events) - 1 /\ (i - 1) + 1 = i
  BY <1>1
<1> QED BY <1>2, <1>3

(* Which events lead to no write.                                          *)
LEMMA NotLeading ==
  /\ ~Leads({"complete"}) /\ ~Leads({"activity"})
  /\ {"complete"} # {"egress"} /\ {"activity"} # {"egress"} /\ {} # {"egress"}
  /\ \A e \in Run : e # {"egress"}
<1>1. "egress" \notin {"in", "out", "error"}
  OBVIOUS
<1>2. ~Leads({"complete"}) /\ ~Leads({"activity"})
  BY DEF Leads
<1> QED BY <1>1, <1>2 DEF Run

(* The events that are queued but by the timer are not the timer's.        *)
LEMMA EgressKept ==
  ASSUME FlagTypes, ThreadTypes, EgressIsLimited, EventIsHandled, AddedIsRegistered,
         limited' = limited, [Next]_vars
  PROVE  EgressIsLimited'
<1> SUFFICES ASSUME ~limited PROVE ~EgressPending'
  BY DEF EgressIsLimited
<1>0. /\ ~egress /\ \A i \in DOMAIN events : events[i] # {"egress"}
      /\ \A w \in Worker : event[w] # {"egress"}
  BY DEF EgressIsLimited, EgressPending
<1>00. \A w \in Worker : WorkerStep(w) /\ ~Begin(w) => \A v \in Worker : event'[v] # {"egress"}
  BY <1>0, WorkerGoesOn, NotLeading DEF ThreadTypes
<1>1. CASE CreateAccepted
  <2>1. ~egress' /\ events' = Append(events, {"complete"}) /\ event' = event
    BY <1>0, <1>1 DEF CreateAccepted, timerVars, threadVars
  <2> QED BY <1>0, <2>1, AppendedLast, NotLeading DEF EgressPending
<1>2. CASE CreateConnected \/ EngineAdd \/ Establish \/ Break \/ Drain
  <2>1. UNCHANGED <<egress, events, event>>
    BY <1>2 DEF CreateConnected, EngineAdd, Establish, Break, Drain, timerVars, threadVars
  <2> QED BY <1>0, <2>1 DEF EgressPending
<1>3. CASE Report
  <2>1. PICK flags \in Run : events' = IF registered THEN Append(events, flags) ELSE events
    BY <1>3 DEF Report, Run
  <2>2. ~egress' /\ event' = event
    BY <1>0, <1>3 DEF Report, timerVars, threadVars
  <2> QED BY <1>0, <2>1, <2>2, AppendedLast, NotLeading DEF EgressPending
<1>4. CASE ActivityExpires
  <2>1. ~egress' /\ events' = Append(events, {"activity"}) /\ event' = event
    BY <1>0, <1>4 DEF ActivityExpires, threadVars
  <2> QED BY <1>0, <2>1, AppendedLast, NotLeading DEF EgressPending
<1>5. CASE EgressExpires
  BY <1>0, <1>5 DEF EgressExpires
<1>6. {"out"} # {"egress"}
  OBVIOUS
<1>7. ASSUME events' = events \/ events' = TriggerWrites(events)
             \/ events' = Append(events, {"complete"})
      PROVE  \A i \in DOMAIN events' : events'[i] # {"egress"}
  BY <1>0, <1>6, <1>7, AppendedLast, NotLeading DEF TriggerWrites
<1>8. CASE QueueWrite
  <2>1. ~egress' /\ event' = event
    BY <1>0, <1>8 DEF QueueWrite, timerVars, threadVars
  <2> QED BY <1>0, <1>7, <1>8, <2>1 DEF EgressPending, QueueWrite
<1>9. CASE ClientDisconnect
  <2>1. ~egress'
    BY <1>0, <1>9, DisconnectIsSafe DEF ClientDisconnect
  <2>2. UNCHANGED <<events, event>>
    BY <1>9 DEF ClientDisconnect, threadVars
  <2> QED BY <1>0, <2>1, <2>2 DEF EgressPending
<1>10. ASSUME NEW w \in Worker, Begin(w)
       PROVE  ~EgressPending'
  <2>1. events # <<>> /\ events' = Tail(events) /\ ~egress'
    BY <1>0, <1>10 DEF Begin, timerVars
  <2>2. \A i \in DOMAIN events' : events'[i] # {"egress"}
    BY <1>0, <2>1, TakenFirst
  <2>3. Head(events) # {"egress"}
    BY <1>0, <2>1, TakenFirst
  <2>4. \A v \in Worker : event'[v] # {"egress"}
    BY <1>0, <1>10, <2>3 DEF Begin, ThreadTypes
  <2> QED BY <2>1, <2>2, <2>4 DEF EgressPending
<1>11. ASSUME NEW w \in Worker, HandleWriteConnected(w)
       PROVE  ~EgressPending'
  <2>1. ~egress'
    BY <1>0, <1>11 DEF HandleWriteConnected, WriteAll, WriteUntilFull, WriteUntilRate, WriteFails
  <2>2. events' = events \/ events' = Append(events, {"complete"})
    BY <1>11 DEF HandleWriteConnected
  <2>3. \A v \in Worker : event'[v] # {"egress"}
    <3>1. \/ event' = event
          \/ event' = [event EXCEPT ![w] = {}]
      BY <1>11 DEF HandleWriteConnected, Goto
    <3> QED BY <1>0, <3>1, NotLeading DEF ThreadTypes
  <2> QED BY <1>7, <2>1, <2>2, <2>3 DEF EgressPending
<1>12. ASSUME NEW w \in Worker, WorkerStep(w), ~Begin(w), ~HandleWriteConnected(w)
       PROVE  ~EgressPending'
  <2>1. ~egress'
    <3>1. CASE HandleError(w) \/ AsyncDisconnect(w)
      BY <1>0, <3>1, DisconnectIsSafe DEF HandleError, AsyncDisconnect
    <3>2. CASE ~(HandleError(w) \/ AsyncDisconnect(w))
      BY <1>0, <1>12, <3>2 DEF WorkerStep, HandleWriteConnects, HandleRead, ReadNeedOut, Rearm,
         AsyncWriteComplete, AsyncEgress, timerVars
    <3> QED BY <3>1, <3>2
  <2>2. events' = events \/ events' = TriggerWrites(events)
        \/ events' = Append(events, {"complete"})
    BY <1>12 DEF WorkerStep, HandleWriteConnects, HandleRead, HandleError, ReadNeedOut, Rearm,
       AsyncWriteComplete, AsyncDisconnect, AsyncEgress
  <2> QED BY <1>00, <1>7, <1>12, <2>1, <2>2 DEF EgressPending
<1>13. CASE UNCHANGED vars
  BY <1>0, <1>13 DEF vars, timerVars, threadVars, EgressPending
<1> QED
  BY <1>1, <1>2, <1>3, <1>4, <1>5, <1>8, <1>9, <1>10, <1>11, <1>12, <1>13
  DEF Next, Create, EpollStep

(* Fewer of what leads to a write are no more than one.                    *)
LEMMA NoneAdded ==
  ASSUME OneTrigger, limited' = limited, Waiting' \subseteq Waiting, Held' \subseteq Held,
         egress' => egress, triggered => triggered'
  PROVE  OneTrigger'
  BY DEF OneTrigger

(* ... and one is one.                                                     *)
LEMMA OnlyOne ==
  ASSUME NEW j, Waiting = {}, Held = {}, ~egress, triggered',
         Waiting' \subseteq {j}, Held' = {}, ~egress'
  PROVE  OneTrigger'
  BY DEF OneTrigger

(* A worker that goes on does not come to a write.                         *)
LEMMA HeldBy ==
  ASSUME ThreadTypes, EventIsHandled, NEW w \in Worker, WorkerStep(w), ~Begin(w)
  PROVE  Held' \subseteq Held /\ (pc[w] = "write" => w \notin Held')
<1>1. \A v \in Worker : v # w => pc'[v] = pc[v] /\ event'[v] = event[v]
  BY WorkerGoesOn DEF ThreadTypes
<1>2. \/ pc'[w] \in {"read", "error", "update", "mod"} /\ event'[w] = event[w]
      \/ pc'[w] = "wait" /\ event'[w] = {}
  BY WorkerGoesOn DEF ThreadTypes
<1>3. Held' \subseteq Held
  BY <1>1, <1>2, NotLeading DEF Held
<1>4. ASSUME pc[w] = "write" PROVE w \notin Held'
  <2>1. {"egress"} \in Own
    BY DEF Own
  <2>2. event[w] # {"egress"}
    BY <1>4, <2>1 DEF EventIsHandled
  <2> QED BY <1>2, <2>2, NotLeading DEF Held
<1> QED BY <1>3, <1>4

(* Each step keeps OneTrigger: triggerWrites is called when there is none, *)
(* and handleWrite sets the timer after it was the one.                    *)
LEMMA OneTriggerKept ==
  ASSUME FlagTypes, ThreadTypes, LimitedIsConnected, EventIsHandled, AddedIsRegistered,
         OneTrigger, limited' = limited, [Next]_vars
  PROVE  OneTrigger'
<1> SUFFICES ASSUME limited PROVE OneTrigger'
  BY DEF OneTrigger
<1>0. connected /\ ~out /\ needOut = {}
  BY DEF LimitedIsConnected
<1>1. CASE CreateAccepted
  <2>1. /\ events' = Append(events, {"complete"})
        /\ UNCHANGED <<egress, triggered, pc, event>>
    BY <1>1 DEF CreateAccepted, flagVars, timerVars, threadVars
  <2>2. Waiting' \subseteq Waiting /\ Held' = Held
    BY <2>1, AppendedLast, NotLeading DEF Held
  <2> QED BY <2>1, <2>2, NoneAdded
<1>2. CASE EngineAdd \/ Establish \/ Break \/ Drain \/ CreateConnected
  <2>1. UNCHANGED <<egress, triggered, pc, event, events>>
    BY <1>2 DEF EngineAdd, Establish, Break, Drain, CreateConnected, flagVars, timerVars,
                threadVars
  <2>2. Waiting' = Waiting /\ Held' = Held
    BY <2>1 DEF Waiting, Held
  <2> QED BY <2>1, <2>2, NoneAdded
<1>3. CASE Report
  <2>1. PICK flags \in Run :
          /\ "out" \in flags => out
          /\ events' = IF registered THEN Append(events, flags) ELSE events
    BY <1>3 DEF Report, Run
  <2>2. ~Leads(flags)
    BY <1>0, <2>1, NotLeading DEF Leads
  <2>3. UNCHANGED <<egress, triggered, pc, event>>
    BY <1>3 DEF Report, flagVars, timerVars, threadVars
  <2>4. Waiting' \subseteq Waiting
    <3>1. CASE events' = events
      BY <3>1 DEF Waiting
    <3>2. CASE events' = Append(events, flags)
      BY <2>2, <3>2, AppendedLast
    <3> QED BY <2>1, <3>1, <3>2
  <2>5. Held' = Held
    BY <2>3 DEF Held
  <2> QED BY <2>3, <2>4, <2>5, NoneAdded
<1>4. CASE ActivityExpires
  <2>1. /\ events' = Append(events, {"activity"})
        /\ UNCHANGED <<egress, triggered, pc, event>>
    BY <1>4 DEF ActivityExpires, flagVars, threadVars
  <2>2. Waiting' \subseteq Waiting /\ Held' = Held
    BY <2>1, AppendedLast, NotLeading DEF Held
  <2> QED BY <2>1, <2>2, NoneAdded
<1>5. CASE EgressExpires
  <2>1. /\ egress /\ ~egress' /\ events' = Append(events, {"egress"})
        /\ UNCHANGED <<triggered, pc, event>>
    BY <1>5 DEF EgressExpires, flagVars, threadVars
  <2>2. Waiting' \subseteq Waiting \cup {Len(events) + 1} /\ Held' = Held
    BY <2>1, AppendedLast DEF Held
  <2>3. Waiting = {} /\ Held = {} /\ triggered
    BY <2>1 DEF OneTrigger
  <2>4. triggered'
    BY <2>1, <2>3
  <2>5. Waiting' \subseteq {Len(events) + 1} /\ Held' = {}
    BY <2>2, <2>3
  <2> QED BY <2>1, <2>4, <2>5 DEF OneTrigger
<1>6. CASE QueueWrite
  <2>1. UNCHANGED <<egress, pc, event>>
    BY <1>6 DEF QueueWrite, timerVars, threadVars
  <2>2. Held' = Held
    BY <2>1 DEF Held
  <2>3. CASE connected /\ ~blocked /\ ~triggered
    <3>1. triggered' = TRUE /\ events' = TriggerWrites(events)
      BY <1>6, <2>3 DEF QueueWrite
    <3>2. Waiting = {} /\ Held = {} /\ ~egress
      BY <2>3 DEF OneTrigger
    <3>3. Waiting' \subseteq {Len(events) + 1}
      <4>1. CASE events' = events
        BY <3>2, <4>1 DEF Waiting
      <4>2. CASE events' = Append(events, {"out"})
        BY <3>2, <4>2, AppendedLast
      <4> QED BY <3>1, <4>1, <4>2 DEF TriggerWrites
    <3>4. triggered'
      BY <3>1
    <3> QED BY <2>1, <2>2, <3>2, <3>3, <3>4, OnlyOne
  <2>4. CASE ~(connected /\ ~blocked /\ ~triggered)
    <3>1. UNCHANGED <<triggered, events>>
      BY <1>6, <2>4 DEF QueueWrite
    <3>2. Waiting' = Waiting
      BY <3>1 DEF Waiting
    <3> QED BY <2>1, <2>2, <3>1, <3>2, NoneAdded
  <2> QED BY <2>3, <2>4
<1>7. CASE ClientDisconnect
  <2>1. UNCHANGED <<triggered, pc, event, events>> /\ (egress' => egress)
    BY <1>7, DisconnectIsSafe DEF ClientDisconnect, threadVars
  <2>2. Waiting' = Waiting /\ Held' = Held
    BY <2>1 DEF Waiting, Held
  <2> QED BY <2>1, <2>2, NoneAdded
<1>8. ASSUME NEW w \in Worker, Begin(w)
      PROVE  OneTrigger'
  <2>1. /\ events # <<>> /\ events' = Tail(events)
        /\ UNCHANGED <<egress, triggered>>
    BY <1>8 DEF Begin, flagVars, timerVars
  <2>2. /\ Head(events) = events[1] /\ 1 \in DOMAIN events
        /\ Waiting' \subseteq Nat \ {0} /\ \A i \in Waiting' : i + 1 \in Waiting
    <3>1. Waiting' \subseteq DOMAIN events'
      BY DEF Waiting
    <3> QED BY <2>1, <3>1, TakenFirst
  <2>3. Held' \subseteq Held \cup {w}
    BY <1>8 DEF Begin, Held, ThreadTypes
  <2>4. CASE Leads(Head(events))
    <3>1. 1 \in Waiting
      BY <2>2, <2>4 DEF Waiting
    <3>2. Held = {} /\ ~egress /\ triggered /\ \A i \in Waiting : i = 1
      BY <3>1 DEF OneTrigger
    <3>3. Waiting' = {}
      BY <2>2, <3>2
    <3>4. Held' \subseteq {w}
      BY <2>3, <3>2
    <3> QED BY <2>1, <3>2, <3>3, <3>4 DEF OneTrigger
  <2>5. CASE ~Leads(Head(events))
    <3>1. Head(events) # {"egress"} /\ FirstHandler(Head(events)) # "write"
      BY <2>5 DEF Leads, FirstHandler, AfterWrite, AfterRead
    <3>2. Held' \subseteq Held
      BY <1>8, <3>1 DEF Begin, Held, ThreadTypes
    <3>3. \A i, j \in Waiting' : i = j
      <4> SUFFICES ASSUME NEW i \in Waiting', NEW j \in Waiting' PROVE i = j
        OBVIOUS
      <4>1. i + 1 = j + 1 /\ i \in Nat /\ j \in Nat
        BY <2>2 DEF OneTrigger
      <4> QED BY <4>1
    <3>4. Waiting = {} => Waiting' = {}
      BY <2>2
    <3> QED BY <2>1, <3>2, <3>3, <3>4 DEF OneTrigger
  <2> QED BY <2>4, <2>5
<1>9. ASSUME NEW w \in Worker, HandleWriteConnected(w)
      PROVE  OneTrigger'
  <2>1. /\ pc[w] = "write" /\ WorkerStep(w) /\ ~Begin(w)
        /\ events' = events \/ events' = Append(events, {"complete"})
    BY <1>9 DEF HandleWriteConnected, WorkerStep, Begin
  <2>2. egress' => egress \/ triggered'
    BY <1>9 DEF HandleWriteConnected, WriteAll, WriteUntilFull, WriteUntilRate, WriteFails
  <2>3. w \in Held
    BY <2>1 DEF Held
  <2>4. Waiting = {} /\ ~egress /\ \A v \in Held : v = w
    BY <2>3 DEF OneTrigger
  <2>5. Held' = {}
    BY <2>1, <2>4, HeldBy
  <2>6. Waiting' = {}
    <3>1. CASE events' = events
      BY <2>4, <3>1 DEF Waiting
    <3>2. CASE events' = Append(events, {"complete"})
      BY <2>4, <3>2, AppendedLast, NotLeading
    <3> QED BY <2>1, <3>1, <3>2
  <2> QED BY <2>2, <2>4, <2>5, <2>6 DEF OneTrigger
<1>10. ASSUME NEW w \in Worker, AsyncEgress(w)
       PROVE  OneTrigger'
  <2>1. /\ event[w] = {"egress"} /\ pc[w] = "own" /\ WorkerStep(w) /\ ~Begin(w)
        /\ events' = TriggerWrites(events) /\ UNCHANGED <<egress, triggered>>
    BY <1>10 DEF AsyncEgress, WorkerStep, Begin, flagVars, timerVars
  <2>2. w \in Held
    BY <2>1 DEF Held
  <2>3. Waiting = {} /\ ~egress /\ triggered /\ \A v \in Held : v = w
    BY <2>2 DEF OneTrigger
  <2>4. pc'[w] = "wait" /\ event'[w] = {}
    BY <1>10 DEF AsyncEgress, Goto, ThreadTypes
  <2>5. Held' = {}
    <3>1. w \notin Held'
      BY <2>4, NotLeading DEF Held
    <3> QED BY <2>1, <2>3, <3>1, HeldBy
  <2>6. Waiting' \subseteq {Len(events) + 1}
    <3>1. CASE events' = events
      BY <2>3, <3>1 DEF Waiting
    <3>2. CASE events' = Append(events, {"out"})
      BY <2>3, <3>2, AppendedLast
    <3> QED BY <2>1, <3>1, <3>2 DEF TriggerWrites
  <2> QED BY <2>1, <2>3, <2>5, <2>6 DEF OneTrigger
<1>11. ASSUME NEW w \in Worker, WorkerStep(w), ~Begin(w), ~HandleWriteConnected(w),
              ~AsyncEgress(w)
       PROVE  OneTrigger'
  <2>1. ~HandleWriteConnects(w)
    BY <1>0 DEF HandleWriteConnects
  <2>2. UNCHANGED <<events, triggered>>
    BY <1>11, <2>1 DEF WorkerStep, HandleRead, HandleError, ReadNeedOut, Rearm,
       AsyncWriteComplete, AsyncDisconnect, flagVars
  <2>3. egress' => egress
    <3>1. CASE HandleError(w) \/ AsyncDisconnect(w)
      BY <3>1, DisconnectIsSafe DEF HandleError, AsyncDisconnect
    <3>2. CASE ~(HandleError(w) \/ AsyncDisconnect(w))
      BY <1>11, <2>1, <3>2 DEF WorkerStep, HandleRead, ReadNeedOut, Rearm, AsyncWriteComplete,
         timerVars
    <3> QED BY <3>1, <3>2
  <2>4. Waiting' = Waiting
    BY <2>2 DEF Waiting
  <2> QED BY <1>11, <2>2, <2>3, <2>4, HeldBy, NoneAdded
<1>12. CASE UNCHANGED vars
  <2>1. UNCHANGED <<egress, triggered, pc, event, events>>
    BY <1>12 DEF vars, flagVars, timerVars, threadVars
  <2>2. Waiting' = Waiting /\ Held' = Held
    BY <2>1 DEF Waiting, Held
  <2> QED BY <2>1, <2>2, NoneAdded
<1> QED
  BY <1>1, <1>2, <1>3, <1>4, <1>5, <1>6, <1>7, <1>8, <1>9, <1>10, <1>11, <1>12
  DEF Next, Create, EpollStep

-----------------------------------------------------------------------------

(* The invariant holds before the stream is created, ...                   *)
LEMMA InitHolds == TcpStreamAssumption /\ Init => IInv
<1> SUFFICES ASSUME TcpStreamAssumption, Init PROVE IInv
  OBVIOUS
<1>1. /\ phase = "new" /\ writeQueue = <<>> /\ sent = <<>> /\ queued = 0 /\ drained = 0
      /\ events = <<>> /\ needOut = {} /\ inputs = 0
      /\ pc = [w \in Worker |-> "wait"] /\ event = [w \in Worker |-> {}]
  BY DEF Init
<1>2. /\ limited \in BOOLEAN /\ connected = limited /\ established = limited
      /\ once = FALSE /\ blocked = FALSE /\ triggered = FALSE /\ disconnecting = FALSE
      /\ registered = FALSE /\ armed = FALSE /\ out = FALSE /\ activity = FALSE
      /\ egress = FALSE /\ broken = FALSE /\ trapped = FALSE
  BY DEF Init, TcpStreamAssumption
<1>3. Len(<<>>) = 0 /\ DOMAIN <<>> = {}
  OBVIOUS
<1>4. FlagTypes
  BY <1>2, Zenon DEF FlagTypes
<1>5. ThreadTypes
  <2>1. {} \in Event /\ <<>> \in Seq(Event)
    BY DEF Event, Run
  <2> QED BY <1>1, <2>1 DEF ThreadTypes, TcpStreamAssumption
<1>6. ByteTypes
  BY <1>1, <1>3 DEF ByteTypes, TcpStreamAssumption
<1>7. BytesInOrder
  BY <1>1, <1>3 DEF BytesInOrder
<1>8. LimitedIsConnected /\ AddedIsRegistered /\ AssertionsHold
  BY <1>1, <1>2, Zenon DEF LimitedIsConnected, AddedIsRegistered, AssertionsHold
<1>9. EventIsHandled
  <2>1. {} \notin Own
    BY DEF Own
  <2> QED BY <1>1, <2>1 DEF EventIsHandled
<1>10. EgressIsLimited /\ Waiting = {} /\ Held = {}
  BY <1>1, <1>2, <1>3, NotLeading DEF EgressIsLimited, EgressPending, Waiting, Held
<1>11. OneTrigger
  BY <1>2, <1>10 DEF OneTrigger
<1> QED BY <1>4, <1>5, <1>6, <1>7, <1>8, <1>9, <1>10, <1>11, TypesAre DEF IInv

(* ... and each step keeps it.                                             *)
LEMMA StepKept ==
  ASSUME TcpStreamAssumption, IInv, [Next]_vars
  PROVE  IInv'
<1>1. FlagTypes /\ ThreadTypes /\ ByteTypes
  BY TypesAre DEF IInv
<1>2. FlagTypes' /\ ThreadTypes'
  BY <1>1, FlagTypesKept, ThreadTypesKept
<1>3. ByteTypes' /\ BytesInOrder'
  BY <1>1, BytesKept DEF IInv
<1>4. TypeOK'
  <2>1. TypeOK' <=> (FlagTypes' /\ ThreadTypes' /\ ByteTypes')
    BY TypesAre, PTL
  <2> QED BY <1>2, <1>3, <2>1
<1>5. LimitedIsConnected' /\ limited' = limited
  BY <1>1, LimitedKept DEF IInv
<1>6. EventIsHandled'
  BY <1>1, HandledKept DEF IInv
<1>7. AddedIsRegistered' /\ AssertionsHold'
  BY <1>1, AssertionsKept DEF IInv
<1>8. EgressIsLimited'
  BY <1>1, <1>5, EgressKept DEF IInv
<1>9. OneTrigger'
  BY <1>1, <1>5, OneTriggerKept DEF IInv
<1> QED BY <1>3, <1>4, <1>5, <1>6, <1>7, <1>8, <1>9 DEF IInv

(* IInv is an invariant: the properties follow from it.                    *)
THEOREM Invariance == Spec => []IInv
<1>1. Init => IInv
  BY InitHolds, TcpStreamAssumption
<1>2. IInv /\ [Next]_vars => IInv'
  BY StepKept, TcpStreamAssumption
<1> QED BY <1>1, <1>2, PTL DEF Spec

-----------------------------------------------------------------------------

(* The variables keep their types, and no more is in the send buffer than  *)
(* it holds.                                                               *)
THEOREM TypeCorrect == Spec => []TypeOK
<1>1. IInv => TypeOK
  BY DEF IInv
<1> QED BY <1>1, Invariance, PTL

(* Neither assertion fails: asyncEgress runs only while writeTriggered is  *)
(* set (tcpstream.cpp:147), and the stream is removed once                 *)
(* (engine.cpp:255), whoever disconnects it.                               *)
THEOREM NoAssertionFails == Spec => []AssertionsHold
<1>1. IInv => AssertionsHold
  BY DEF IInv
<1> QED BY <1>1, Invariance, PTL

(* No more than one element, in two sets of which one is empty.            *)
LEMMA AtMostOne ==
  ASSUME NEW S, \A x, y \in S : x = y
  PROVE  Cardinality(S) \in 0 .. 1 /\ (S = {} => Cardinality(S) = 0)
<1>1. CASE S = {}
  BY <1>1, FS_EmptySet
<1>2. CASE S # {}
  <2>1. PICK x \in S : TRUE
    BY <1>2
  <2>2. S = {x}
    BY <2>1
  <2>3. Cardinality({x}) = 1
    BY FS_Singleton
  <2>4. Cardinality(S) = 1
    BY <2>2, <2>3, Zenon
  <2> QED BY <1>2, <2>4
<1> QED BY <1>1, <1>2

(* A limited stream has one write on its way or its egress timer, never    *)
(* both and never two (tcpstream.cpp:142, 180).                            *)
THEOREM LimitedIsPaced == Spec => []PacedWrites
<1>1. IInv => PacedWrites
  <2> SUFFICES ASSUME IInv, limited
               PROVE  Triggers + (IF EgressPending THEN 1 ELSE 0) <= 1
    BY DEF PacedWrites
  <2> DEFINE outs == {i \in DOMAIN events : "out" \in events[i]}
             writers == {w \in Worker : pc[w] = "write"}
  <2>1. outs \subseteq Waiting /\ writers \subseteq Held
    BY DEF Waiting, Leads, Held
  <2>2. "out" \notin {"egress"}
    OBVIOUS
  <2>3. /\ \A i, j \in Waiting : i = j
        /\ \A v, w \in Held : v = w
        /\ Waiting = {} \/ (Held = {} /\ ~egress)
        /\ Held = {} \/ ~egress
    BY DEF IInv, OneTrigger
  <2>4. ASSUME EgressPending PROVE outs = {} /\ writers = {}
    <3>1. CASE egress
      BY <2>1, <2>3, <3>1
    <3>2. CASE \E i \in DOMAIN events : events[i] = {"egress"}
      <4>1. PICK i \in DOMAIN events : events[i] = {"egress"}
        BY <3>2
      <4>2. i \in Waiting
        BY <4>1 DEF Waiting, Leads
      <4>3. outs = {}
        BY <2>1, <2>2, <2>3, <4>1, <4>2
      <4> QED BY <2>1, <2>3, <4>2, <4>3
    <3>3. CASE \E w \in Worker : event[w] = {"egress"}
      <4>1. PICK w \in Worker : event[w] = {"egress"}
        BY <3>3
      <4>2. w \in Held /\ pc[w] = "own"
        BY <4>1 DEF IInv, Held, EventIsHandled, Own
      <4>3. writers = {}
        BY <2>1, <2>3, <4>2
      <4> QED BY <2>1, <2>3, <4>2, <4>3
    <3> QED BY <2>4, <3>1, <3>2, <3>3 DEF EgressPending
  <2>5. outs = {} \/ writers = {}
    BY <2>1, <2>3
  <2>6. /\ Cardinality(outs) \in 0 .. 1 /\ (outs = {} => Cardinality(outs) = 0)
        /\ Cardinality(writers) \in 0 .. 1 /\ (writers = {} => Cardinality(writers) = 0)
    <3>1. (\A i, j \in outs : i = j) /\ (\A v, w \in writers : v = w)
      BY <2>1, <2>3
    <3> HIDE DEF outs, writers
    <3> QED BY <3>1, AtMostOne
  <2>7. Triggers = Cardinality(outs) + Cardinality(writers)
    BY DEF Triggers
  <2> HIDE DEF outs, writers
  <2>8. CASE EgressPending
    BY <2>4, <2>6, <2>7, <2>8
  <2>9. CASE ~EgressPending
    BY <2>5, <2>6, <2>7, <2>9
  <2> QED BY <2>8, <2>9
<1> QED BY <1>1, Invariance, PTL

-----------------------------------------------------------------------------

(* TcpStream implements BytePipe.                                          *)

(* What was sent, as BytePipe says it: the first bytes, in order.          *)
SentPrefix ==
  sent = Pipe!FirstBytes(Len(sent)) /\ Len(sent) \in Nat /\ Len(sent) <= queued

(* BytesInOrder says no less.                                              *)
LEMMA SentIsPrefix == IInv => SentPrefix
<1> SUFFICES ASSUME IInv PROVE SentPrefix
  OBVIOUS
<1>1. Len(sent) \in Nat /\ sent = [i \in 1 .. Len(sent) |-> sent[i]]
  BY TypesAre DEF IInv, ByteTypes
<1>2. Len(sent) <= queued /\ \A i \in 1 .. Len(sent) : sent[i] = i
  BY DEF IInv, BytesInOrder
<1> QED BY <1>1, <1>2 DEF SentPrefix, Pipe!FirstBytes

(* Each step queues a byte, sends what comes next, or does nothing a       *)
(* BytePipe shows.                                                         *)
LEMMA PipeStep ==
  ASSUME TcpStreamAssumption, IInv, IInv', [Next]_vars
  PROVE  [Pipe!Queue \/ Pipe!Deliver]_<<queued, sent>>
<1>1. ByteTypes
  BY TypesAre DEF IInv
<1>2. CASE QueueWrite
  <2>1. queued' = queued + 1 /\ sent' = sent /\ queued \in Nat
    BY <1>1, <1>2 DEF QueueWrite, kernelVars, ByteTypes
  <2> QED BY <2>1 DEF Pipe!Queue
<1>3. ASSUME NEW w \in Worker, HandleWriteConnected(w)
      PROVE  [Pipe!Queue \/ Pipe!Deliver]_<<queued, sent>>
  <2>1. queued' = queued
    BY <1>3 DEF HandleWriteConnected
  <2>2. PICK m \in 0 .. Len(writeQueue), n \in 0 .. Len(writeQueue) : Moves(m, n)
    BY <1>1, <1>3, WriteMoves DEF HandleWriteConnected
  <2>3. Len(sent') = Len(sent) + n /\ n \in Nat
    BY <1>1, <2>2, MovedBytes, RoomIsNatural
  <2>4. sent = Pipe!FirstBytes(Len(sent)) /\ Len(sent) \in Nat
    BY SentIsPrefix DEF SentPrefix
  <2>5. sent' = Pipe!FirstBytes(Len(sent')) /\ Len(sent') <= queued'
    <3>1. SentPrefix'
      BY SentIsPrefix, PTL
    <3> QED BY <3>1 DEF SentPrefix, Pipe!FirstBytes
  <2>6. CASE n = 0
    <3>1. Len(sent') = Len(sent)
      BY <2>3, <2>4, <2>6
    <3> QED BY <2>1, <2>4, <2>5, <3>1
  <2>7. CASE n # 0
    <3>1. queued \in Nat
      BY <1>1 DEF ByteTypes
    <3>2. Len(sent') \in Len(sent) + 1 .. queued
      BY <2>1, <2>3, <2>4, <2>5, <2>7, <3>1
    <3> QED BY <2>1, <2>5, <3>2 DEF Pipe!Deliver
  <2> QED BY <2>6, <2>7
<1>4. CASE ~QueueWrite /\ ~(\E w \in Worker : HandleWriteConnected(w))
  BY <1>4, OthersMoveNothing
<1> QED BY <1>2, <1>3, <1>4

(* The bytes the client queued reach the socket in order, none lost but at *)
(* the end and none twice, through partial writes, EAGAIN and the egress   *)
(* rate (tcpstream.cpp, queueWrite and handleWrite).                       *)
THEOREM BytesAreSentInOrder == Spec => ImplementsPipe
<1>1. Init => Pipe!Init
  BY DEF Init, Pipe!Init
<1>2. IInv /\ IInv' /\ [Next]_vars => [Pipe!Queue \/ Pipe!Deliver]_<<queued, sent>>
  BY PipeStep, TcpStreamAssumption
<1> QED BY <1>1, <1>2, Invariance, PTL DEF Spec, Pipe!Spec, ImplementsPipe

-----------------------------------------------------------------------------
(* Between waitingOutEvent() and EPOLL_CTL_MOD (engine.cpp:311-318)        *)
(* another worker may change what it says, so what is queued may be left   *)
(* without EPOLLOUT. What holds for any workers is QueuedIsRemembered.     *)

Handling == {"write", "read", "error", "update", "mod"}
RunIsQueued == \E i \in DOMAIN events : events[i] \notin Own

(* Before Engine::add the stream has no handler but its own events'.       *)
AddedFirst ==
  phase # "added" => ~registered /\ ~once /\ \A w \in Worker : pc[w] \in {"wait", "own"}

OnceConnected == once => connected

(* A stream that is not disconnected will run again at the next report.    *)
RunIsDue ==
  registered /\ ~disconnecting =>
    armed \/ RunIsQueued \/ \E w \in Worker : pc[w] \in Handling

(* A stream that is not blocked has triggered a write for what is queued.  *)
QueuedIsTriggered ==
  (limited \/ once) /\ ~blocked /\ ~broken /\ writeQueue # <<>> => triggered

(* From the first write on, writeTriggered says that another is to come.   *)
TriggeredIsDue == registered /\ triggered /\ once => WritePending \/ EgressPending

(* The kernel has bytes of a limited stream that is blocked, so its        *)
(* inactivity timer runs; that of another runs from the start.             *)
BlockedHasSent == limited /\ blocked => sent # <<>>

ActivityIsPending ==
  ~disconnecting /\ (IF limited THEN sent # <<>> ELSE phase \in {"add", "added"}) =>
    ActivityPending

MemoryInv ==
  /\ AddedFirst /\ OnceConnected /\ RunIsDue
  /\ QueuedIsTriggered /\ TriggeredIsDue
  /\ BlockedHasSent /\ ActivityIsPending

(* What is queued stays queued until a worker takes it.                    *)
Queues == events' = events \/ \E e : events' = Append(events, e)

LEMMA QueueGrows ==
  ASSUME ThreadTypes, Queues
  PROVE  /\ RunIsQueued => RunIsQueued'
         /\ (\E i \in DOMAIN events : "out" \in events[i])
            => \E i \in DOMAIN events' : "out" \in events'[i]
         /\ \A i \in DOMAIN events : i \in DOMAIN events' /\ events'[i] = events[i]
<1>1. \A i \in DOMAIN events : i \in DOMAIN events' /\ events'[i] = events[i]
  BY DEF ThreadTypes, Queues
<1> QED BY <1>1 DEF RunIsQueued

(* A worker's step that takes no event from eventQueue only appends to it. *)
LEMMA WorkerQueues ==
  ASSUME NEW w \in Worker, WorkerStep(w), ~Begin(w)
  PROVE  Queues
<1> USE DEF Queues
<1>1. CASE HandleWriteConnected(w) \/ HandleWriteConnects(w)
  BY <1>1 DEF HandleWriteConnected, HandleWriteConnects, TriggerWrites
<1>2. CASE ~(HandleWriteConnected(w) \/ HandleWriteConnects(w))
  BY <1>2 DEF WorkerStep, HandleRead, HandleError, ReadNeedOut, Rearm, AsyncWriteComplete,
     AsyncDisconnect, AsyncEgress, TriggerWrites
<1> QED BY <1>1, <1>2

(* Each step keeps what is known of the stream before Engine::add, and     *)
(* that it is connected before its first write.                            *)
LEMMA AddedFirstKept ==
  ASSUME ThreadTypes, AddedFirst, OnceConnected, [Next]_vars
  PROVE  AddedFirst' /\ OnceConnected'
<1> DEFINE Goal == AddedFirst' /\ OnceConnected'
<1>0. ASSUME UNCHANGED <<phase, once, connected>>, registered' => registered, pc' = pc
      PROVE  Goal
  BY <1>0 DEF AddedFirst, OnceConnected
<1>1. CASE CreateAccepted \/ CreateConnected
  <2>1. /\ phase = "new" /\ UNCHANGED <<registered, once, pc>>
    BY <1>1 DEF CreateAccepted, CreateConnected, flagVars, registryVars, threadVars
  <2>2. ~registered' /\ ~once' /\ \A w \in Worker : pc'[w] \in {"wait", "own"}
    BY <2>1 DEF AddedFirst
  <2> QED BY <2>2 DEF AddedFirst, OnceConnected
<1>2. CASE EngineAdd
  <2>1. phase' = "added" /\ UNCHANGED <<once, connected>>
    BY <1>2 DEF EngineAdd, flagVars
  <2> QED BY <2>1 DEF AddedFirst, OnceConnected
<1>3. CASE Establish \/ Break \/ Drain \/ Report \/ ActivityExpires \/ EgressExpires
  <2>1. UNCHANGED <<phase, once, connected, registered, pc>>
    BY <1>3 DEF Establish, Break, Drain, Report, ActivityExpires, EgressExpires, flagVars,
                registryVars, threadVars
  <2> QED BY <1>0, <2>1
<1>4. CASE QueueWrite \/ ClientDisconnect
  <2>1. UNCHANGED <<phase, once, connected, pc>>
    BY <1>4 DEF QueueWrite, ClientDisconnect, threadVars
  <2>2. registered' => registered
    BY <1>4 DEF QueueWrite, ClientDisconnect, Disconnect, registryVars
  <2> QED BY <1>0, <2>1, <2>2
<1>5. ASSUME NEW w \in Worker, Begin(w)
      PROVE  Goal
  <2>1. UNCHANGED <<phase, once, connected, registered>>
    BY <1>5 DEF Begin, flagVars, registryVars
  <2>2. ASSUME phase # "added" PROVE \A v \in Worker : pc'[v] \in {"wait", "own"}
    <3>1. ~registered /\ \A v \in Worker : pc[v] \in {"wait", "own"}
      BY <2>2 DEF AddedFirst
    <3> QED BY <1>5, <3>1 DEF Begin, FirstHandler, ThreadTypes
  <2> QED BY <2>1, <2>2 DEF AddedFirst, OnceConnected
<1>6. ASSUME NEW w \in Worker, WorkerStep(w), ~Begin(w)
      PROVE  Goal
  <2>1. phase' = phase /\ (registered' => registered)
    BY <1>6 DEF WorkerStep, HandleWriteConnected, HandleWriteConnects, HandleRead, HandleError,
       ReadNeedOut, Rearm, AsyncWriteComplete, AsyncDisconnect, AsyncEgress, Disconnect,
       registryVars
  <2>2. OnceConnected'
    <3>1. CASE HandleWriteConnected(w) \/ HandleWriteConnects(w)
      <4>1. connected'
        BY <3>1 DEF HandleWriteConnected, HandleWriteConnects
      <4> QED BY <4>1 DEF OnceConnected
    <3>2. CASE ~(HandleWriteConnected(w) \/ HandleWriteConnects(w))
      <4>1. UNCHANGED <<once, connected>>
        BY <1>6, <3>2 DEF WorkerStep, HandleRead, HandleError, ReadNeedOut, Rearm,
           AsyncWriteComplete, AsyncDisconnect, AsyncEgress, flagVars
      <4> QED BY <4>1 DEF OnceConnected
    <3> QED BY <3>1, <3>2
  <2>3. ASSUME phase # "added"
        PROVE  ~once' /\ \A v \in Worker : pc'[v] \in {"wait", "own"}
    <3>1. ~once /\ \A v \in Worker : pc[v] \in {"wait", "own"}
      BY <2>3 DEF AddedFirst
    <3>2. pc' = [pc EXCEPT ![w] = "wait"]
      BY <1>6, <3>1, WorkerGoesOn
    <3>3. pc[w] # "write"
      BY <3>1
    <3>4. once' = once
      BY <1>6, <3>3 DEF WorkerStep, HandleWriteConnected, HandleWriteConnects, HandleRead,
         HandleError, ReadNeedOut, Rearm, AsyncWriteComplete, AsyncDisconnect, AsyncEgress,
         flagVars
    <3> QED BY <3>1, <3>2, <3>4 DEF ThreadTypes
  <2> QED BY <2>1, <2>2, <2>3 DEF AddedFirst
<1>7. CASE UNCHANGED vars
  <2>1. UNCHANGED <<phase, once, connected, registered, pc>>
    BY <1>7 DEF vars, flagVars, registryVars, threadVars
  <2> QED BY <1>0, <2>1
<1> QED
  BY <1>1, <1>2, <1>3, <1>4, <1>5, <1>6, <1>7 DEF Next, Create, EpollStep

(* Each step keeps QueuedIsTriggered: queueWrite triggers a write unless   *)
(* the stream is blocked or one is triggered already, and handleWrite ends *)
(* with an empty queue or blocked.                                         *)
LEMMA QueuedIsTriggeredKept ==
  ASSUME ThreadTypes, OnceConnected, LimitedIsConnected, QueuedIsTriggered,
         limited' = limited, [Next]_vars
  PROVE  QueuedIsTriggered'
<1> DEFINE Goal == QueuedIsTriggered'
<1>0. ASSUME UNCHANGED <<once, blocked, triggered, writeQueue>>, broken => broken'
      PROVE  Goal
  BY <1>0 DEF QueuedIsTriggered
<1>1. CASE Create \/ Establish \/ Break \/ Drain \/ Report \/ ActivityExpires \/ EgressExpires
           \/ ClientDisconnect
  <2>1. UNCHANGED <<once, blocked, triggered, writeQueue>>
    BY <1>1 DEF Create, CreateAccepted, CreateConnected, EngineAdd, Establish, Break, Drain,
       Report, ActivityExpires, EgressExpires, ClientDisconnect, flagVars, dataVars
  <2>2. broken => broken'
    BY <1>1 DEF Create, CreateAccepted, CreateConnected, EngineAdd, Establish, Break, Drain,
       Report, ActivityExpires, EgressExpires, ClientDisconnect, kernelVars
  <2> QED BY <1>0, <2>1, <2>2
<1>2. CASE QueueWrite
  <2>1. UNCHANGED <<once, blocked, connected>>
    BY <1>2 DEF QueueWrite
  <2>2. connected /\ ~blocked => triggered'
    BY <1>2 DEF QueueWrite
  <2> QED BY <2>1, <2>2 DEF QueuedIsTriggered, OnceConnected, LimitedIsConnected
<1>3. ASSUME NEW w \in Worker, HandleWriteConnected(w)
      PROVE  Goal
  <2>1. broken' = broken
    BY <1>3 DEF HandleWriteConnected
  <2>2. blocked' \/ broken \/ writeQueue' = <<>>
    BY <1>3 DEF HandleWriteConnected, WriteAll, WriteUntilFull, WriteUntilRate, WriteFails
  <2> QED BY <2>1, <2>2 DEF QueuedIsTriggered
<1>4. ASSUME NEW w \in Worker, HandleWriteConnects(w)
      PROVE  Goal
  <2>1. ~once /\ once' = once /\ ~limited
    BY <1>4 DEF HandleWriteConnects, OnceConnected, LimitedIsConnected
  <2> QED BY <2>1 DEF QueuedIsTriggered
<1>5. ASSUME NEW w \in Worker, WorkerStep(w), ~HandleWriteConnected(w), ~HandleWriteConnects(w)
      PROVE  Goal
  <2>1. UNCHANGED <<once, blocked, triggered, writeQueue, broken>>
    BY <1>5 DEF WorkerStep, Begin, HandleRead, HandleError, ReadNeedOut, Rearm,
       AsyncWriteComplete, AsyncDisconnect, AsyncEgress, flagVars, dataVars, kernelVars
  <2> QED BY <1>0, <2>1
<1>6. CASE UNCHANGED vars
  BY <1>0, <1>6 DEF vars, flagVars, dataVars, kernelVars
<1> QED BY <1>1, <1>2, <1>3, <1>4, <1>5, <1>6 DEF Next, EpollStep

(* An event of the stream's own stays queued until a worker takes it, and  *)
(* with that worker until it runs it.                                      *)
Runs(e) == (\E i \in DOMAIN events : events[i] = e) \/ \E w \in Worker : event[w] = e

LEMMA EventStays ==
  ASSUME ThreadTypes, EventIsHandled, NEW e \in Own, Runs(e), [Next]_vars
  PROVE  Runs(e)' \/ \E w \in Worker : event[w] = e /\ pc[w] = "own" /\ WorkerStep(w)
<1>1. ASSUME Queues, \E i \in DOMAIN events : events[i] = e
      PROVE  Runs(e)'
  <2>1. \A i \in DOMAIN events : i \in DOMAIN events' /\ events'[i] = events[i]
    BY <1>1, QueueGrows
  <2> QED BY <1>1, <2>1 DEF Runs
<1>2. CASE ~(\E w \in Worker : WorkerStep(w))
  <2>1. event' = event
    BY <1>2, OthersRunNothing
  <2>2. Queues
    BY <1>2 DEF Next, Create, CreateAccepted, CreateConnected, EngineAdd, Establish, Break,
       Drain, EpollStep, Report, ActivityExpires, EgressExpires, QueueWrite,
       ClientDisconnect, vars, threadVars, Queues, TriggerWrites
  <2> QED BY <1>1, <2>1, <2>2 DEF Runs
<1>3. ASSUME NEW w \in Worker, Begin(w)
      PROVE  Runs(e)'
  <2>1. /\ pc[w] = "wait" /\ events # <<>> /\ events' = Tail(events)
        /\ Head(events) \in Own => event' = [event EXCEPT ![w] = Head(events)]
        /\ event' = event \/ event' = [event EXCEPT ![w] = Head(events)]
    BY <1>3 DEF Begin
  <2>2. CASE \E v \in Worker : event[v] = e
    <3>1. PICK v \in Worker : event[v] = e
      BY <2>2
    <3>2. v # w
      BY <2>1, <3>1 DEF EventIsHandled, Own
    <3> QED BY <2>1, <3>1, <3>2 DEF ThreadTypes, Runs
  <2>3. CASE \E i \in DOMAIN events : events[i] = e
    <3>1. PICK i \in DOMAIN events : events[i] = e
      BY <2>3
    <3>2. CASE i = 1
      <4>1. Head(events) = e
        BY <2>1, <3>1, <3>2, TakenFirst
      <4> QED BY <2>1, <4>1 DEF ThreadTypes, Runs
    <3>3. CASE i # 1
      <4>1. i - 1 \in DOMAIN events' /\ events'[i - 1] = events[i]
        BY <2>1, <3>1, <3>3, StaysBehind
      <4> QED BY <3>1, <4>1 DEF Runs
    <3> QED BY <3>2, <3>3
  <2> QED BY <2>2, <2>3 DEF Runs
<1>4. ASSUME NEW w \in Worker, WorkerStep(w), ~Begin(w)
      PROVE  Runs(e)' \/ (event[w] = e /\ pc[w] = "own")
  <2>1. Queues
    BY <1>4, WorkerQueues
  <2>2. CASE \E v \in Worker : event[v] = e
    <3>1. PICK v \in Worker : event[v] = e
      BY <2>2
    <3>2. pc[v] = "own"
      BY <3>1 DEF EventIsHandled
    <3>3. CASE v # w
      <4>1. event'[v] = event[v]
        BY <1>4, <3>3, WorkerGoesOn DEF ThreadTypes
      <4> QED BY <3>1, <4>1 DEF Runs
    <3> QED BY <3>1, <3>2, <3>3
  <2> QED BY <1>1, <2>1, <2>2 DEF Runs
<1> QED BY <1>2, <1>3, <1>4

(* The egress timer leads to a write, unless the stream is removed.        *)
LEMMA EgressStays ==
  ASSUME ThreadTypes, EventIsHandled, EgressPending, registered', [Next]_vars
  PROVE  EgressPending' \/ WritePending'
<1> DEFINE e == {"egress"}
<1>0. e \in Own /\ e # {"complete"} /\ e # {"activity"}
  BY NotLeading DEF Own
<1>1. CASE egress
  <2>1. CASE EgressExpires
    <3>1. events' = Append(events, e)
      BY <2>1 DEF EgressExpires
    <3>2. Len(events) + 1 \in DOMAIN events' /\ events'[Len(events) + 1] = e
      BY <3>1 DEF ThreadTypes
    <3> QED BY <3>2 DEF EgressPending
  <2>2. CASE CreateAccepted \/ CreateConnected \/ EngineAdd \/ Establish \/ Break \/ Drain
             \/ Report \/ ActivityExpires \/ QueueWrite \/ UNCHANGED vars
    <3>1. egress'
      BY <1>1, <2>2 DEF CreateAccepted, CreateConnected, EngineAdd, Establish, Break, Drain,
         Report, ActivityExpires, QueueWrite, vars, timerVars
    <3> QED BY <3>1 DEF EgressPending
  <2>3. CASE ClientDisconnect \/ \E w \in Worker : HandleError(w) \/ AsyncDisconnect(w)
    <3>1. egress'
      BY <1>1, <2>3 DEF ClientDisconnect, HandleError, AsyncDisconnect, Disconnect, timerVars
    <3> QED BY <3>1 DEF EgressPending
  <2>4. ASSUME NEW w \in Worker, WorkerStep(w), ~HandleError(w), ~AsyncDisconnect(w)
        PROVE  egress'
    BY <1>1, <2>4 DEF WorkerStep, Begin, HandleWriteConnected, WriteAll, WriteUntilFull,
       WriteUntilRate, WriteFails, HandleWriteConnects, HandleRead, ReadNeedOut, Rearm,
       AsyncWriteComplete, AsyncEgress, timerVars
  <2> QED BY <2>1, <2>2, <2>3, <2>4 DEF Next, Create, EpollStep, EgressPending
<1>2. CASE ~egress
  <2>1. Runs(e)
    BY <1>2 DEF EgressPending, Runs
  <2>2. CASE Runs(e)'
    BY <2>2 DEF EgressPending, Runs
  <2>3. ASSUME NEW w \in Worker, event[w] = e, pc[w] = "own", WorkerStep(w)
        PROVE  WritePending'
    <3>1. AsyncEgress(w)
      BY <1>0, <2>3 DEF WorkerStep, Begin, HandleWriteConnected, HandleWriteConnects,
         HandleRead, HandleError, ReadNeedOut, Rearm, AsyncWriteComplete, AsyncDisconnect
    <3>2. events' = Append(events, {"out"})
      BY <3>1 DEF AsyncEgress, TriggerWrites, registryVars
    <3>3. Len(events) + 1 \in DOMAIN events' /\ events'[Len(events) + 1] = {"out"}
      BY <3>2 DEF ThreadTypes
    <3> QED BY <3>3 DEF WritePending
  <2> HIDE DEF e
  <2> QED BY <1>0, <2>1, <2>2, <2>3, EventStays
<1> QED BY <1>1, <1>2

(* The inactivity timer leads to disconnect.                               *)
LEMMA ActivityStays ==
  ASSUME ThreadTypes, EventIsHandled, ActivityPending, ~disconnecting', [Next]_vars
  PROVE  ActivityPending'
<1> DEFINE e == {"activity"}
<1>0. e \in Own /\ e # {"complete"} /\ e # {"egress"}
  BY NotLeading DEF Own
<1>1. ~ClientDisconnect /\ \A w \in Worker : ~HandleError(w) /\ ~AsyncDisconnect(w)
  BY DEF ClientDisconnect, HandleError, AsyncDisconnect, Disconnect
<1>2. CASE activity
  <2>1. CASE ActivityExpires
    <3>1. events' = Append(events, e)
      BY <2>1 DEF ActivityExpires
    <3>2. Len(events) + 1 \in DOMAIN events' /\ events'[Len(events) + 1] = e
      BY <3>1 DEF ThreadTypes
    <3> QED BY <3>2 DEF ActivityPending
  <2>2. CASE CreateAccepted \/ CreateConnected \/ EngineAdd \/ Establish \/ Break \/ Drain
             \/ Report \/ EgressExpires \/ QueueWrite \/ UNCHANGED vars
    <3>1. activity'
      BY <1>2, <2>2 DEF CreateAccepted, CreateConnected, EngineAdd, Establish, Break, Drain,
         Report, EgressExpires, QueueWrite, vars, timerVars
    <3> QED BY <3>1 DEF ActivityPending
  <2>3. ASSUME NEW w \in Worker, WorkerStep(w)
        PROVE  activity'
    BY <1>1, <1>2, <2>3 DEF WorkerStep, Begin, HandleWriteConnected, HandleWriteConnects,
       HandleRead, ReadNeedOut, Rearm, AsyncWriteComplete, AsyncEgress, timerVars
  <2> QED BY <1>1, <2>1, <2>2, <2>3 DEF Next, Create, EpollStep, ActivityPending
<1>3. CASE ~activity
  <2>1. Runs(e)
    BY <1>3 DEF ActivityPending, Runs
  <2>2. CASE Runs(e)'
    BY <2>2 DEF ActivityPending, Runs
  <2>3. ASSUME NEW w \in Worker, event[w] = e, pc[w] = "own", WorkerStep(w)
        PROVE  FALSE
    BY <1>0, <1>1, <2>3 DEF WorkerStep, Begin, HandleWriteConnected, HandleWriteConnects,
       HandleRead, ReadNeedOut, Rearm, AsyncWriteComplete, AsyncEgress
  <2> HIDE DEF e
  <2> QED BY <1>0, <2>1, <2>2, <2>3, EventStays
<1> QED BY <1>2, <1>3

(* Each step keeps TriggeredIsDue: writeTriggered is reset only by the     *)
(* handleWrite that its event, or the egress timer, leads to.              *)
LEMMA TriggeredIsDueKept ==
  ASSUME ThreadTypes, EventIsHandled, AddedFirst, OnceConnected, TriggeredIsDue, [Next]_vars
  PROVE  TriggeredIsDue'
<1> DEFINE Goal == WritePending' \/ EgressPending'
<1> SUFFICES ASSUME registered', triggered', once' PROVE Goal
  BY DEF TriggeredIsDue
<1>1. ASSUME registered, triggered, once, Queues,
             \A w \in Worker : pc[w] = "write" => pc'[w] = "write"
      PROVE  Goal
  BY <1>1, QueueGrows, EgressStays DEF TriggeredIsDue, WritePending
<1>2. CASE CreateAccepted \/ CreateConnected
  BY <1>2 DEF CreateAccepted, CreateConnected, registryVars, AddedFirst
<1>3. CASE EngineAdd
  BY <1>3 DEF EngineAdd, flagVars, AddedFirst
<1>4. CASE Establish \/ Break \/ Drain \/ Report \/ ActivityExpires \/ EgressExpires
  <2>1. UNCHANGED <<registered, triggered, once, pc>>
    BY <1>4 DEF Establish, Break, Drain, Report, ActivityExpires, EgressExpires, flagVars,
                registryVars, threadVars
  <2>2. Queues
    BY <1>4 DEF Establish, Break, Drain, Report, ActivityExpires, EgressExpires, Queues
  <2> QED BY <1>1, <2>1, <2>2
<1>5. CASE QueueWrite
  <2>1. UNCHANGED <<registered, once, pc>> /\ Queues
    BY <1>5 DEF QueueWrite, registryVars, threadVars, Queues, TriggerWrites
  <2>2. CASE connected /\ ~blocked /\ ~triggered
    <3>1. events' = Append(events, {"out"})
      BY <1>5, <2>1, <2>2 DEF QueueWrite, TriggerWrites
    <3>2. Len(events) + 1 \in DOMAIN events' /\ events'[Len(events) + 1] = {"out"}
      BY <3>1 DEF ThreadTypes
    <3> QED BY <3>2 DEF WritePending
  <2>3. CASE ~(connected /\ ~blocked /\ ~triggered)
    <3>1. triggered' = triggered
      BY <1>5, <2>3 DEF QueueWrite
    <3> QED BY <1>1, <2>1, <3>1
  <2> QED BY <2>2, <2>3
<1>6. CASE ClientDisconnect
  <2>1. UNCHANGED <<triggered, once, pc, events>> /\ (registered' => registered)
    BY <1>6 DEF ClientDisconnect, Disconnect, threadVars
  <2> QED BY <1>1, <2>1 DEF Queues
<1>7. ASSUME NEW w \in Worker, Begin(w)
      PROVE  Goal
  <2>1. /\ pc[w] = "wait" /\ events # <<>> /\ events' = Tail(events)
        /\ UNCHANGED <<registered, triggered, once>>
    BY <1>7 DEF Begin, flagVars, registryVars
  <2>2. pc' = [pc EXCEPT ![w] = FirstHandler(Head(events))]
    BY <1>7, <2>1 DEF Begin
  <2>3. WritePending \/ EgressPending
    BY <2>1 DEF TriggeredIsDue
  <2>4. CASE \E v \in Worker : pc[v] = "write"
    BY <2>1, <2>2, <2>4 DEF WritePending, ThreadTypes
  <2>5. CASE \E i \in DOMAIN events : "out" \in events[i]
    <3>1. PICK i \in DOMAIN events : "out" \in events[i]
      BY <2>5
    <3>2. CASE i = 1
      <4>1. "out" \in Head(events)
        BY <2>1, <3>1, <3>2, TakenFirst
      <4>2. FirstHandler(Head(events)) = "write"
        BY <4>1 DEF FirstHandler, Own
      <4> QED BY <2>2, <4>2 DEF WritePending, ThreadTypes
    <3>3. CASE i # 1
      <4>1. i - 1 \in DOMAIN events' /\ events'[i - 1] = events[i]
        BY <2>1, <3>1, <3>3, StaysBehind
      <4> QED BY <3>1, <4>1 DEF WritePending
    <3> QED BY <3>2, <3>3
  <2> QED BY <2>3, <2>4, <2>5, EgressStays DEF WritePending
<1>8. ASSUME NEW w \in Worker, HandleWriteConnected(w)
      PROVE  Goal
  BY <1>8 DEF HandleWriteConnected, WriteAll, WriteUntilFull, WriteUntilRate, WriteFails,
     EgressPending
<1>9. ASSUME NEW w \in Worker, HandleWriteConnects(w)
      PROVE  Goal
  BY <1>9 DEF HandleWriteConnects, OnceConnected
<1>10. ASSUME NEW w \in Worker, WorkerStep(w), ~Begin(w), ~HandleWriteConnected(w),
              ~HandleWriteConnects(w)
       PROVE  Goal
  <2>1. pc[w] # "write" /\ UNCHANGED <<triggered, once>>
    BY <1>10 DEF WorkerStep, HandleRead, HandleError, ReadNeedOut, Rearm, AsyncWriteComplete,
       AsyncDisconnect, AsyncEgress, flagVars
  <2>2. registered' => registered
    BY <1>10 DEF WorkerStep, HandleRead, HandleError, ReadNeedOut, Rearm, AsyncWriteComplete,
       AsyncDisconnect, AsyncEgress, Disconnect, registryVars
  <2>3. \A v \in Worker : pc[v] = "write" => pc'[v] = "write"
    BY <1>10, <2>1, WorkerGoesOn DEF ThreadTypes
  <2> QED BY <1>1, <1>10, <2>1, <2>2, <2>3, WorkerQueues
<1>11. CASE UNCHANGED vars
  BY <1>1, <1>11 DEF vars, flagVars, registryVars, threadVars, Queues
<1> QED
  BY <1>2, <1>3, <1>4, <1>5, <1>6, <1>7, <1>8, <1>9, <1>10, <1>11
  DEF Next, Create, EpollStep

(* Each step keeps RunIsDue: Engine::run ends with EPOLL_CTL_MOD, or       *)
(* disconnect.                                                             *)
LEMMA RunIsDueKept ==
  ASSUME ThreadTypes, AddedFirst, RunIsDue, [Next]_vars
  PROVE  RunIsDue'
<1> DEFINE Handled == \E w \in Worker : pc[w] \in Handling
           Goal == armed' \/ RunIsQueued' \/ Handled'
<1> SUFFICES ASSUME registered', ~disconnecting' PROVE Goal
  BY DEF RunIsDue
<1>1. ASSUME armed => armed', Handled => Handled', Queues, registered, ~disconnecting
      PROVE  Goal
  BY <1>1, QueueGrows DEF RunIsDue
<1>2. CASE CreateAccepted \/ CreateConnected
  BY <1>2 DEF CreateAccepted, CreateConnected, registryVars, AddedFirst
<1>3. CASE EngineAdd
  BY <1>3 DEF EngineAdd
<1>4. CASE Establish \/ Break \/ Drain \/ ActivityExpires \/ EgressExpires \/ QueueWrite
           \/ UNCHANGED vars
  <2>1. UNCHANGED <<armed, pc, registered, disconnecting>>
    BY <1>4 DEF Establish, Break, Drain, ActivityExpires, EgressExpires, QueueWrite, vars,
                flagVars, registryVars, threadVars
  <2>2. Queues
    BY <1>4 DEF Establish, Break, Drain, ActivityExpires, EgressExpires, QueueWrite, Queues,
                TriggerWrites, vars
  <2> QED BY <1>1, <2>1, <2>2
<1>5. CASE Report
  <2>1. PICK flags \in Run : events' = IF registered THEN Append(events, flags) ELSE events
    BY <1>5 DEF Report, Run
  <2>2. registered
    BY <1>5 DEF Report
  <2>3. events' = Append(events, flags)
    BY <2>1, <2>2
  <2>4. Len(events) + 1 \in DOMAIN events' /\ events'[Len(events) + 1] = flags
    BY <2>3 DEF ThreadTypes
  <2>5. flags \notin Own
    BY DEF Run, Own
  <2> QED BY <2>4, <2>5 DEF RunIsQueued
<1>6. CASE ClientDisconnect
  BY <1>6 DEF ClientDisconnect, Disconnect
<1>7. ASSUME NEW w \in Worker, Begin(w)
      PROVE  Goal
  <2>1. /\ pc[w] = "wait" /\ events # <<>> /\ events' = Tail(events)
        /\ UNCHANGED <<armed, registered, disconnecting>>
    BY <1>7 DEF Begin, flagVars, registryVars
  <2>2. pc' = [pc EXCEPT ![w] = FirstHandler(Head(events))]
    BY <1>7, <2>1 DEF Begin
  <2>3. armed \/ RunIsQueued \/ Handled
    BY <2>1 DEF RunIsDue
  <2>4. CASE Handled
    BY <2>1, <2>2, <2>4 DEF ThreadTypes, Handling
  <2>5. CASE RunIsQueued
    <3>1. PICK i \in DOMAIN events : events[i] \notin Own
      BY <2>5 DEF RunIsQueued
    <3>2. CASE i = 1
      <4>1. Head(events) \notin Own
        BY <2>1, <3>1, <3>2, TakenFirst
      <4>2. FirstHandler(Head(events)) \in Handling
        BY <4>1 DEF FirstHandler, AfterWrite, AfterRead, Handling
      <4> QED BY <2>2, <4>2 DEF ThreadTypes
    <3>3. CASE i # 1
      <4>1. i - 1 \in DOMAIN events' /\ events'[i - 1] = events[i]
        BY <2>1, <3>1, <3>3, StaysBehind
      <4> QED BY <3>1, <4>1 DEF RunIsQueued
    <3> QED BY <3>2, <3>3
  <2> QED BY <2>1, <2>3, <2>4, <2>5
<1>8. ASSUME NEW w \in Worker, HandleWriteConnected(w) \/ HandleWriteConnects(w)
                              \/ HandleRead(w) \/ ReadNeedOut(w)
      PROVE  Goal
  <2>1. pc'[w] \in {"read", "error", "update", "mod"}
    BY <1>8 DEF HandleWriteConnected, HandleWriteConnects, HandleRead, ReadNeedOut, Goto,
       AfterWrite, AfterRead, ThreadTypes
  <2> QED BY <2>1 DEF Handling
<1>9. ASSUME NEW w \in Worker, HandleError(w) \/ AsyncDisconnect(w)
      PROVE  Goal
  BY <1>9 DEF HandleError, AsyncDisconnect, Disconnect
<1>10. ASSUME NEW w \in Worker, Rearm(w)
       PROVE  Goal
  BY <1>10 DEF Rearm
<1>11. ASSUME NEW w \in Worker, AsyncWriteComplete(w) \/ AsyncEgress(w)
       PROVE  Goal
  <2>1. /\ pc[w] = "own" /\ pc' = [pc EXCEPT ![w] = "wait"]
        /\ UNCHANGED <<armed, registered, disconnecting>>
    BY <1>11 DEF AsyncWriteComplete, AsyncEgress, Goto, flagVars, registryVars
  <2>2. Queues
    BY <1>11 DEF AsyncWriteComplete, AsyncEgress, Queues, TriggerWrites
  <2>3. Handled => Handled'
    BY <2>1 DEF Handling, ThreadTypes
  <2> QED BY <1>1, <2>1, <2>2, <2>3
<1> QED
  BY <1>2, <1>3, <1>4, <1>5, <1>6, <1>7, <1>8, <1>9, <1>10, <1>11
  DEF Next, Create, EpollStep, WorkerStep

(* Each step keeps BlockedHasSent: with nothing sent the kernel has room   *)
(* for a byte at least.                                                    *)
LEMMA BlockedHasSentKept ==
  ASSUME TcpStreamAssumption, ByteTypes, LimitedIsConnected, BlockedHasSent,
         limited' = limited, [Next]_vars
  PROVE  BlockedHasSent'
<1>1. ASSUME NEW w \in Worker, HandleWriteConnected(w)
      PROVE  BlockedHasSent'
  <2>1. RoomLeft \in Nat /\ Len(sent) \in Nat /\ Len(writeQueue) \in Nat /\ Buffer \in Nat \ {0}
    BY RoomIsNatural DEF TcpStreamAssumption
  <2>2. SUFFICES ASSUME WriteUntilFull \/ WriteUntilRate PROVE sent' # <<>>
    BY <1>1 DEF HandleWriteConnected, WriteAll, WriteFails, BlockedHasSent
  <2>3. sent \in Seq(Byte)
    BY DEF ByteTypes
  <2>4. Len(sent) = 0 => RoomLeft > 0
    <3>1. drained \in 0 .. Len(sent)
      BY DEF ByteTypes
    <3>2. Len(sent) = 0 => drained = 0
      BY <2>1, <3>1
    <3> QED BY <2>1, <3>2 DEF RoomLeft
  <2>5. \E n \in 0 .. Len(writeQueue) :
          /\ sent' = sent \o SubSeq(writeQueue, 1, n)
          /\ n > 0 \/ Len(sent) > 0
    <3>1. CASE WriteUntilFull
      <4>1. sent' = sent \o SubSeq(writeQueue, 1, RoomLeft) /\ Len(writeQueue) > RoomLeft
        BY <3>1 DEF WriteUntilFull
      <4>2. RoomLeft \in 0 .. Len(writeQueue) /\ (RoomLeft > 0 \/ Len(sent) > 0)
        BY <2>1, <2>4, <4>1
      <4> QED BY <4>1, <4>2
    <3>2. CASE WriteUntilRate
      <4>1. PICK n \in 1 .. Min2(Len(writeQueue), RoomLeft) :
              sent' = sent \o SubSeq(writeQueue, 1, n)
        BY <3>2 DEF WriteUntilRate
      <4>2. n \in 0 .. Len(writeQueue) /\ n > 0
        BY <2>1 DEF Min2
      <4> QED BY <4>1, <4>2
    <3> QED BY <2>2, <3>1, <3>2
  <2>6. PICK n \in 0 .. Len(writeQueue) :
          /\ sent' = sent \o SubSeq(writeQueue, 1, n)
          /\ n > 0 \/ Len(sent) > 0
    BY <2>5
  <2>7. SubSeq(writeQueue, 1, n) \in Seq(Byte) /\ Len(SubSeq(writeQueue, 1, n)) = n
    <3>1. \A k \in 1 .. Len(writeQueue) : writeQueue[k] \in Byte
      BY DEF ByteTypes
    <3>2. \A k \in 1 .. n : writeQueue[k] \in Byte
      BY <2>1, <3>1
    <3>3. /\ SubSeq(writeQueue, 1, n) \in Seq(Byte)
          /\ Len(SubSeq(writeQueue, 1, n)) = IF 1 <= n THEN n - 1 + 1 ELSE 0
      BY <3>2, SubSeqProperties
    <3> QED BY <2>1, <3>3
  <2>8. Len(sent') = Len(sent) + n
    BY <2>3, <2>6, <2>7, ConcatProperties
  <2>9. Len(sent') # 0
    BY <2>1, <2>6, <2>8
  <2> QED BY <2>9
<1>2. CASE QueueWrite
  BY <1>2 DEF QueueWrite, kernelVars, BlockedHasSent
<1>3. CASE ~QueueWrite /\ ~(\E w \in Worker : HandleWriteConnected(w))
  <2>1. sent' = sent
    BY <1>3, OthersMoveNothing
  <2>2. blocked' => blocked
    BY <1>3 DEF Next, Create, CreateAccepted, CreateConnected, EngineAdd, Establish, Break,
       Drain, EpollStep, Report, ActivityExpires, EgressExpires, ClientDisconnect, WorkerStep,
       Begin, HandleWriteConnects, HandleRead, HandleError, ReadNeedOut, Rearm,
       AsyncWriteComplete, AsyncDisconnect, AsyncEgress, vars, flagVars
  <2> QED BY <2>1, <2>2 DEF BlockedHasSent
<1> QED BY <1>1, <1>2, <1>3

(* Each step keeps ActivityIsPending: connect and write set the inactivity *)
(* timer, and only disconnect cancels it.                                  *)
LEMMA ActivityIsPendingKept ==
  ASSUME ThreadTypes, EventIsHandled, ActivityIsPending, limited' = limited, [Next]_vars
  PROVE  ActivityIsPending'
<1> SUFFICES ASSUME IF limited THEN sent' # <<>> ELSE phase' \in {"add", "added"},
                    ~disconnecting'
             PROVE  ActivityPending'
  BY DEF ActivityIsPending
<1>1. CASE IF limited THEN sent # <<>> ELSE phase \in {"add", "added"}
  <2>1. ~disconnecting
    BY DEF Next, Create, CreateAccepted, CreateConnected, EngineAdd, Establish, Break,
       Drain, EpollStep, Report, ActivityExpires, EgressExpires, QueueWrite,
       ClientDisconnect, WorkerStep, Begin, HandleWriteConnected, HandleWriteConnects,
       HandleRead, HandleError, ReadNeedOut, Rearm, AsyncWriteComplete, AsyncDisconnect,
       AsyncEgress, Disconnect, vars, flagVars
  <2>2. ActivityPending
    BY <1>1, <2>1 DEF ActivityIsPending
  <2> QED BY <2>2, ActivityStays
<1>2. CASE ~limited /\ phase \notin {"add", "added"}
  <2>1. CASE CreateConnected
    BY <1>2, <2>1 DEF CreateConnected, ActivityPending
  <2>2. CASE ~CreateConnected
    <3>1. phase' = phase
      BY <1>2, <2>2 DEF Next, Create, CreateAccepted, EngineAdd, Establish, Break,
         Drain, EpollStep, Report, ActivityExpires, EgressExpires, QueueWrite,
         ClientDisconnect, WorkerStep, Begin, HandleWriteConnected, HandleWriteConnects,
         HandleRead, HandleError, ReadNeedOut, Rearm, AsyncWriteComplete, AsyncDisconnect,
         AsyncEgress, vars
    <3> QED BY <1>2, <3>1
  <2> QED BY <2>1, <2>2
<1>3. CASE limited /\ sent = <<>>
  <2>1. CASE \E w \in Worker : HandleWriteConnected(w)
    BY <1>3, <2>1 DEF HandleWriteConnected, ActivityPending
  <2>2. CASE QueueWrite
    BY <1>3, <2>2 DEF QueueWrite, kernelVars
  <2>3. CASE ~QueueWrite /\ ~(\E w \in Worker : HandleWriteConnected(w))
    BY <1>3, <2>3, OthersMoveNothing
  <2> QED BY <2>1, <2>2, <2>3
<1> QED BY <1>1, <1>2, <1>3

(* What a stream has queued is not forgotten, for any number of workers:   *)
(* whether it was queued or triggered before Engine::add or after, and     *)
(* whatever another worker does between waitingOutEvent() and              *)
(* EPOLL_CTL_MOD, a write, a run or the inactivity timer is to come.       *)
THEOREM NothingIsForgotten == Spec => []QueuedIsRemembered
<1>1. Init => MemoryInv
  <2> SUFFICES ASSUME Init PROVE MemoryInv
    OBVIOUS
  <2>1. /\ registered = FALSE /\ once = FALSE /\ pc = [w \in Worker |-> "wait"]
        /\ phase = "new" /\ blocked = FALSE /\ writeQueue = <<>> /\ sent = <<>>
    BY DEF Init
  <2>2. AddedFirst /\ OnceConnected /\ RunIsDue
    BY <2>1 DEF AddedFirst, OnceConnected, RunIsDue
  <2>3. QueuedIsTriggered /\ TriggeredIsDue /\ BlockedHasSent /\ ActivityIsPending
    BY <2>1 DEF QueuedIsTriggered, TriggeredIsDue, BlockedHasSent, ActivityIsPending
  <2> QED BY <2>2, <2>3 DEF MemoryInv
<1>2. IInv /\ MemoryInv /\ [Next]_vars => MemoryInv'
  <2> SUFFICES ASSUME IInv, MemoryInv, [Next]_vars PROVE MemoryInv'
    OBVIOUS
  <2>1. /\ ThreadTypes /\ ByteTypes /\ EventIsHandled /\ LimitedIsConnected
        /\ limited' = limited
    BY TypesAre, LimitedKept DEF IInv
  <2>2. AddedFirst' /\ OnceConnected'
    BY <2>1, AddedFirstKept DEF MemoryInv
  <2>3. QueuedIsTriggered' /\ TriggeredIsDue'
    BY <2>1, QueuedIsTriggeredKept, TriggeredIsDueKept DEF MemoryInv
  <2>4. RunIsDue'
    BY <2>1, RunIsDueKept DEF MemoryInv
  <2>5. BlockedHasSent' /\ ActivityIsPending'
    BY <2>1, BlockedHasSentKept, ActivityIsPendingKept, TcpStreamAssumption DEF MemoryInv
  <2> QED BY <2>2, <2>3, <2>4, <2>5 DEF MemoryInv
<1>3. IInv /\ MemoryInv => QueuedIsRemembered
  <2> SUFFICES ASSUME IInv, MemoryInv,
                      registered, ~disconnecting, ~broken, writeQueue # <<>>
               PROVE  \/ WritePending
                      \/ limited /\ EgressPending
                      \/ limited /\ blocked /\ ActivityPending
                      \/ ~limited /\ WaitingOutEvent /\ RunPending /\ ActivityPending
                      \/ limited /\ triggered /\ ~once
    BY DEF QueuedIsRemembered
  <2>1. EgressPending => limited
    BY DEF IInv, EgressIsLimited
  <2>2. triggered /\ once => WritePending \/ EgressPending
    BY DEF MemoryInv, TriggeredIsDue
  <2>3. CASE limited /\ triggered
    BY <2>2, <2>3
  <2>4. CASE limited /\ ~triggered
    <3>1. blocked
      BY <2>4 DEF MemoryInv, QueuedIsTriggered
    <3>2. ActivityPending
      BY <2>4, <3>1 DEF MemoryInv, BlockedHasSent, ActivityIsPending
    <3> QED BY <2>4, <3>1, <3>2
  <2>5. CASE ~limited /\ once /\ ~blocked
    <3>1. triggered
      BY <2>5 DEF MemoryInv, QueuedIsTriggered
    <3> QED BY <2>1, <2>2, <2>5, <3>1
  <2>6. CASE ~limited /\ (~once \/ blocked)
    <3>1. WaitingOutEvent
      BY <2>6 DEF WaitingOutEvent
    <3>2. RunPending
      BY DEF MemoryInv, RunIsDue, RunIsQueued, Handling, RunPending
    <3>3. phase = "added"
      BY DEF MemoryInv, AddedFirst
    <3>4. ActivityPending
      BY <2>6, <3>3 DEF MemoryInv, ActivityIsPending
    <3> QED BY <2>6, <3>1, <3>2, <3>4
  <2> QED BY <2>3, <2>4, <2>5, <2>6
<1> QED BY <1>1, <1>2, <1>3, Invariance, PTL DEF Spec
=============================================================================
