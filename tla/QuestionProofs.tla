--------------------------- MODULE QuestionProofs ---------------------------
(***************************************************************************)
(* Proofs about Question, for any names and whatever bytes Query makes of  *)
(* them.                                                                   *)
(*                                                                         *)
(* What an answer finds depends on where resolve was when the lock was     *)
(* released, and what is sent on where each question is: in todo, in       *)
(* writeQueue, in the hands of handleWrite, or gone.                       *)
(***************************************************************************)
EXTENDS QueryProofs, FiniteSetTheorems

(* The query has a client before resolve releases the lock, and while it   *)
(* is pending.                                                             *)
PendingHasClient ==
  /\ step \in {"idle", "create", "write", "timer", "unlocked"}
  /\ clients \in Nat
  /\ step = "idle" => ~pending
  /\ step = "timer" => clients > 0
  /\ step = "unlocked" /\ pending => clients > 0

(* The question being sent is the first of todo, and in one place.         *)
OneInPlace ==
  /\ todo \in {<<>>, <<"A">>, <<"AAAA", "A">>}
  /\ step \in {"create", "write"} <=> todo # <<>>
  /\ step # "write" => writeQueue = <<>> /\ hand = <<>>
  /\ step = "write" =>
       \/ writeQueue = <<Head(todo)>> /\ hand = <<>>
       \/ writeQueue = <<>> /\ hand = <<Head(todo)>>
       \/ writeQueue = <<>> /\ hand = <<>>

(* No question that has been sent is still to be sent.                     *)
SentAtMostOnce ==
  /\ asking.prefs \in Prefs
  /\ sent \in [Type -> 0 .. 1]
  /\ step = "idle" => \A t \in Type : sent[t] = 0
  /\ step = "create" => \A i \in DOMAIN todo : sent[todo[i]] = 0
  /\ step = "write" => \A i \in DOMAIN todo : i # 1 => sent[todo[i]] = 0
  /\ writeQueue # <<>> \/ hand # <<>> => sent[Head(todo)] = 0

(* Init's choice, which no step changes.                                   *)
LookupIsAsked ==
  asking.name \in Asked /\ asking.prefs \in Prefs /\ asking.fails \subseteq Type

(* The socket of the question being sent is in the engine; that of one that *)
(* cannot be sent only until then; and answers come to those that were.    *)
SocketsFollow ==
  /\ registered \subseteq Type
  /\ trapped \in BOOLEAN /\ room \in BOOLEAN
  /\ inbox \in [Type -> Seq(Reply)]
  /\ DOMAIN readers \subseteq Type
  /\ \A t \in DOMAIN readers : readers[t] \in [reply : Reply, removed : BOOLEAN]
  /\ \A t \in Type : inbox[t] # <<>> \/ t \in DOMAIN readers => sent[t] = 1
  /\ \A t \in asking.fails : sent[t] = 0
  /\ \A t \in registered \cap asking.fails :
       step = "write" /\ t = Head(todo) /\ (writeQueue # <<>> \/ hand # <<>>)
  /\ step = "write" /\ (writeQueue # <<>> \/ hand # <<>>) => Head(todo) \in registered
  /\ step = "idle" => registered = {}

(* What Names::put and get leave of a name: addresses, one at least.       *)
Kept == [addrs : Seq(Seq(0 .. 255)), lastAccessIndex : Nat]
Entry(names) ==
  names \in Kept /\ names.addrs # <<>> /\ names.lastAccessIndex < Len(names.addrs)

(* Only the name that was asked for is ever known.                         *)
Knows(known) ==
  DOMAIN known \subseteq {Dotted[asking.name]} /\ \A n \in DOMAIN known : Entry(known[n])

NameIsKnown == Knows(byName) /\ (step = "idle" => DOMAIN byName = {})

(* The query has clients for what is still to be asked, and its timeout    *)
(* once the lock is released; the client is told after it has ended.       *)
QueryEnds ==
  /\ pending \in BOOLEAN /\ timer \in {"unset", "set", "expired", "off"}
  /\ step = "idle" => clients = 0
  /\ clients + Len(todo) <= 2
  /\ timer = "unset" <=> step # "unlocked"
  /\ again \in Prefs \cup {""} /\ telling \subseteq Word /\ told \in [Client -> Seq(Word)]
  /\ pending \/ step = "idle" => telling = {}
  /\ \A v, w \in telling : v = w

-----------------------------------------------------------------------------

(* A step of resolve moves on and adds clients; requestComplete, which     *)
(* waits for the lock, takes the last one only with the query.             *)
LEMMA ClientKept ==
  ASSUME PendingHasClient, [Next]_vars
  PROVE  PendingHasClient'
<1> USE DEF PendingHasClient
<1>1. CASE Resolve
  BY <1>1 DEF Resolve
<1>2. CASE Create
  BY <1>2 DEF Create, queryVars
<1>3. CASE Pop \/ Sent \/ WouldBlock \/ NotSent
  BY <1>3 DEF Pop, Sent, WouldBlock, NotSent, queryVars
<1>4. CASE ClientWaits
  BY <1>4 DEF ClientWaits
<1>5. CASE SetTimer
  BY <1>5 DEF SetTimer
<1>6. CASE ResolveAgain \/ Drain \/ Tell
  <2>1. UNCHANGED <<resolveVars, queryVars>>
    BY <1>6, Zenon DEF ResolveAgain, Drain, Tell
  <2> QED BY <2>1 DEF resolveVars, queryVars
<1>7. CASE \E t \in Type : Answer(t) \/ Receive(t) \/ Disconnect(t)
  BY <1>7 DEF Answer, Receive, Disconnect, resolveVars, queryVars
<1>8. CASE \E t \in Type : RequestComplete(t)
  <2>1. step \in {"idle", "unlocked"} /\ step' = step
    BY <1>8 DEF RequestComplete, CanComplete, LockFree, resolveVars
  <2>2. CASE ~pending
    <3>1. UNCHANGED <<pending, clients>>
      BY <1>8, <2>2 DEF RequestComplete, queryVars
    <3> QED BY <2>1, <2>2, <3>1
  <2>3. CASE pending
    <3>1. /\ clients' = clients - 1
          /\ clients > 1 => pending' = pending
          /\ ~(clients > 1) => pending' = FALSE
      BY <1>8, <2>3, Zenon DEF RequestComplete
    <3>2. CASE clients > 1
      <4>1. clients' \in Nat /\ clients' > 0
        BY <3>1, <3>2
      <4>2. step' = "unlocked"
        BY <2>1, <2>3
      <4> QED BY <4>1, <4>2
    <3>3. CASE ~(clients > 1)
      <4>1. clients = 1
        BY <2>1, <2>3, <3>3
      <4>2. clients' = 0
        BY <3>1, <4>1
      <4> QED BY <2>1, <3>1, <3>3, <4>2
    <3> QED BY <3>2, <3>3
  <2> QED BY <2>2, <2>3
<1>9. CASE Expire
  BY <1>9 DEF Expire, resolveVars
<1>10. CASE QueryTimedout
  BY <1>10 DEF QueryTimedout, resolveVars
<1>11. CASE UNCHANGED vars
  BY <1>11 DEF vars, resolveVars, queryVars
<1> QED
  BY <1>1, <1>2, <1>3, <1>4, <1>5, <1>6, <1>7, <1>8, <1>9, <1>10, <1>11
  DEF Next, Resolving

(* The steps that are not resolve's send nothing.                          *)
LEMMA OthersSendNothing ==
  ASSUME [Next]_vars, ~Resolving
  PROVE  UNCHANGED <<asking, step, todo, writeQueue, hand, sent>>
<1>1. CASE ResolveAgain \/ Drain \/ Tell \/ Expire \/ QueryTimedout
  BY <1>1 DEF ResolveAgain, Drain, Tell, Expire, QueryTimedout, resolveVars, netVars
<1>2. CASE \E t \in Type : Answer(t) \/ Receive(t) \/ Disconnect(t) \/ RequestComplete(t)
  BY <1>2 DEF Answer, Receive, Disconnect, RequestComplete, resolveVars, netVars
<1>3. CASE UNCHANGED vars
  BY <1>3 DEF vars, resolveVars, netVars
<1> QED BY <1>1, <1>2, <1>3 DEF Next

(* Each step of resolve moves a question on, or back to writeQueue.        *)
LEMMA SendingKept ==
  ASSUME QuestionAssumption, OneInPlace, SentAtMostOnce, [Next]_vars
  PROVE  OneInPlace' /\ SentAtMostOnce'
<1> USE DEF OneInPlace, SentAtMostOnce, Type
<1>0. /\ Head(<<"A">>) = "A" /\ Tail(<<"A">>) = <<>> /\ DOMAIN <<"A">> = {1}
      /\ Head(<<"AAAA", "A">>) = "AAAA" /\ Tail(<<"AAAA", "A">>) = <<"A">>
      /\ DOMAIN <<"AAAA", "A">> = {1, 2} /\ <<"AAAA", "A">>[2] = "A"
      /\ <<"AAAA", "A">>[1] = "AAAA" /\ <<"A">>[1] = "A"
      /\ <<"A">> # <<>> /\ <<"AAAA", "A">> # <<>>
      /\ \A x : Append(<<>>, x) = <<x>> /\ Head(<<x>>) = x /\ Tail(<<x>>) = <<>> /\ <<x>> # <<>>
  OBVIOUS
<1>1. CASE ~Resolving
  BY <1>1, OthersSendNothing
<1>2. CASE Resolve
  <2>1. /\ step = "idle" /\ step' = "create" /\ todo' = TypesInOrder(asking.prefs)
        /\ UNCHANGED <<asking, writeQueue, hand, sent>>
    BY <1>2 DEF Resolve, netVars
  <2>2. todo' = <<"A">> \/ todo' = <<"AAAA", "A">>
    BY <2>1 DEF TypesInOrder
  <2>3. OneInPlace'
    BY <1>0, <2>1, <2>2
  <2> QED BY <1>0, <2>1, <2>2, <2>3
<1>3. CASE Create
  <2>1. /\ step = "create" /\ step' = "write" /\ writeQueue' = <<Head(todo)>>
        /\ UNCHANGED <<asking, todo, hand, sent>>
    BY <1>0, <1>3 DEF Create, netVars
  <2>2. CASE todo = <<"A">>
    BY <1>0, <2>1, <2>2
  <2>3. CASE todo = <<"AAAA", "A">>
    BY <1>0, <2>1, <2>3
  <2> QED BY <2>1, <2>2, <2>3
<1>4. CASE Pop
  <2>1. /\ step = "write" /\ writeQueue = <<Head(todo)>> /\ hand' = writeQueue
        /\ writeQueue' = <<>> /\ UNCHANGED <<asking, step, todo, sent>>
    BY <1>0, <1>4 DEF Pop, netVars
  <2> QED BY <2>1
<1>5. CASE Sent
  <2>1. /\ step = "write" /\ Head(hand) = Head(todo) /\ writeQueue = <<>> /\ hand # <<>>
        /\ todo # <<>>
    BY <1>0, <1>5 DEF Sent
  <2>2. /\ UNCHANGED <<asking, step, todo, writeQueue>> /\ hand' = <<>>
        /\ sent' = [sent EXCEPT ![Head(todo)] = @ + 1]
    BY <1>5, <2>1 DEF Sent
  <2>3. CASE todo = <<"A">>
    BY <1>0, <2>1, <2>2, <2>3
  <2>4. CASE todo = <<"AAAA", "A">>
    BY <1>0, <2>1, <2>2, <2>4
  <2> QED BY <2>1, <2>3, <2>4
<1>6. CASE WouldBlock
  <2>1. /\ step = "write" /\ hand = <<Head(todo)>> /\ writeQueue' = hand
        /\ hand' = <<>> /\ UNCHANGED <<asking, step, todo, sent>>
    BY <1>0, <1>6 DEF WouldBlock, netVars
  <2> QED BY <1>0, <2>1
<1>7. CASE NotSent
  BY <1>7 DEF NotSent, netVars
<1>8. CASE ClientWaits
  <2>1. /\ step = "write" /\ hand = <<>> /\ writeQueue = <<>> /\ todo' = Tail(todo)
        /\ step' = IF todo' = <<>> THEN "timer" ELSE "create"
        /\ UNCHANGED <<asking, writeQueue, hand, sent>>
    BY <1>8 DEF ClientWaits, netVars
  <2>2. CASE todo = <<"A">>
    BY <1>0, <2>1, <2>2
  <2>3. CASE todo = <<"AAAA", "A">>
    BY <1>0, <2>1, <2>3
  <2> QED BY <2>1, <2>2, <2>3
<1>9. CASE SetTimer
  BY <1>9 DEF SetTimer, netVars
<1> QED BY <1>1, <1>2, <1>3, <1>4, <1>5, <1>6, <1>7, <1>8, <1>9 DEF Resolving

-----------------------------------------------------------------------------

(* What is asked, and of whom, stays what it is in every step.             *)
LEMMA AskedKept ==
  ASSUME LookupIsAsked, [Next]_vars
  PROVE  LookupIsAsked' /\ UNCHANGED asking
<1>1. UNCHANGED asking
  <2>1. CASE ~Resolving
    BY <2>1, OthersSendNothing
  <2>2. CASE Resolving
    BY <2>2 DEF Resolving, Resolve, Create, Pop, Sent, WouldBlock, NotSent, ClientWaits,
                SetTimer
  <2> QED BY <2>1, <2>2
<1> QED BY <1>1 DEF LookupIsAsked

(* What resolve does to the sockets.                                       *)
LEMMA SocketsKeptByResolve ==
  ASSUME QuestionAssumption, LookupIsAsked, OneInPlace, SentAtMostOnce, SocketsFollow,
         Resolving
  PROVE  SocketsFollow'
<1> USE DEF SocketsFollow
<1>0. \A x : Append(<<>>, x) = <<x>> /\ Head(<<x>>) = x /\ Tail(<<x>>) = <<>> /\ <<x>> # <<>>
  OBVIOUS
<1>a. todo # <<>> => Head(todo) \in Type
  <2>1. Head(<<"A">>) = "A" /\ Head(<<"AAAA", "A">>) = "AAAA"
    OBVIOUS
  <2> QED BY <2>1 DEF OneInPlace, Type
<1>1. CASE Resolve
  BY <1>1 DEF Resolve, engineVars, netVars, LookupIsAsked
<1>2. CASE Create
  <2>1. /\ step = "create" /\ step' = "write" /\ writeQueue' = <<Head(todo)>>
        /\ registered' = registered \cup {Head(todo)}
        /\ UNCHANGED <<asking, todo, hand, sent, inbox, readers, trapped, room>>
    BY <1>0, <1>2 DEF Create, netVars, OneInPlace
  <2>2. todo # <<>> /\ registered \cap asking.fails = {}
    BY <2>1 DEF OneInPlace
  <2> QED BY <1>a, <1>0, <2>1, <2>2
<1>3. CASE Pop
  <2>1. /\ step = "write" /\ writeQueue # <<>> /\ hand' = <<Head(writeQueue)>>
        /\ UNCHANGED <<asking, step, todo, registered, sent, inbox, readers, trapped, room>>
    BY <1>3 DEF Pop, netVars, engineVars
  <2> QED BY <1>0, <2>1
<1>4. CASE Sent
  <2>1. /\ step = "write" /\ Head(hand) = Head(todo) /\ writeQueue = <<>> /\ hand # <<>>
        /\ todo # <<>>
    BY <1>0, <1>4 DEF Sent, OneInPlace
  <2>2. /\ UNCHANGED <<asking, step, todo, writeQueue, registered, inbox, readers, trapped,
                       room>>
        /\ hand' = <<>> /\ Head(todo) \notin asking.fails
        /\ sent' = [sent EXCEPT ![Head(todo)] = @ + 1]
    BY <1>4, <2>1 DEF Sent, engineVars
  <2>3. sent' = [sent EXCEPT ![Head(todo)] = 1]
    <3>1. sent[Head(todo)] + 1 = 1
      BY <2>1 DEF SentAtMostOnce
    <3> QED BY <2>2, <3>1, Zenon
  <2>4. registered \cap asking.fails = {}
    BY <2>2
  <2>5. \A t \in Type : sent'[t] = IF t = Head(todo) THEN 1 ELSE sent[t]
    BY <2>3 DEF SentAtMostOnce
  <2>6. \A t \in asking.fails : sent'[t] = 0
    BY <2>2, <2>5 DEF LookupIsAsked
  <2> QED BY <2>1, <2>2, <2>4, <2>5, <2>6
<1>5. CASE WouldBlock
  <2>1. /\ step = "write" /\ hand # <<>> /\ writeQueue' # <<>>
        /\ UNCHANGED <<asking, step, todo, registered, sent, inbox, readers, trapped, room>>
    BY <1>0, <1>5 DEF WouldBlock, netVars, engineVars, OneInPlace
  <2> QED BY <2>1
<1>6. CASE NotSent
  <2>1. /\ step = "write" /\ Head(hand) = Head(todo) /\ writeQueue = <<>> /\ hand # <<>>
    BY <1>0, <1>6 DEF NotSent, OneInPlace
  <2>2. /\ UNCHANGED <<asking, step, todo, writeQueue, sent, inbox, readers, room>>
        /\ hand' = <<>> /\ registered' = registered \ {Head(todo)}
    BY <1>6, <2>1 DEF NotSent, DoRemove, netVars
  <2>3. trapped' \in BOOLEAN
    BY <1>6, Zenon DEF NotSent, DoRemove
  <2> QED BY <2>1, <2>2, <2>3
<1>7. CASE ClientWaits
  <2>1. /\ hand = <<>> /\ writeQueue = <<>> /\ step' \in {"timer", "create"}
        /\ UNCHANGED <<asking, hand, writeQueue, registered, sent, inbox, readers, trapped,
                       room>>
    BY <1>7 DEF ClientWaits, netVars, engineVars
  <2> QED BY <2>1
<1>8. CASE SetTimer
  BY <1>8 DEF SetTimer, netVars, engineVars, OneInPlace
<1> QED BY <1>1, <1>2, <1>3, <1>4, <1>5, <1>6, <1>7, <1>8 DEF Resolving

(* Answers come to questions sent; their sockets are then removed.         *)
LEMMA SocketsKept ==
  ASSUME QuestionAssumption, LookupIsAsked, PendingHasClient, OneInPlace, SentAtMostOnce,
         SocketsFollow, [Next]_vars
  PROVE  SocketsFollow'
<1> USE DEF SocketsFollow
<1>1. CASE Resolving
  BY <1>1, SocketsKeptByResolve
<1>2. ASSUME ~Resolving
      PROVE  UNCHANGED <<asking, step, todo, writeQueue, hand, sent>>
  BY <1>2, OthersSendNothing
<1>3. CASE ~Resolving /\ (ResolveAgain \/ Tell \/ Expire \/ UNCHANGED vars)
  <2>1. UNCHANGED <<registered, trapped, room, inbox, readers>>
    BY <1>3 DEF ResolveAgain, Tell, Expire, vars, engineVars, netVars
  <2> QED BY <1>2, <1>3, <2>1
<1>4. CASE ~Resolving /\ Drain
  BY <1>2, <1>4 DEF Drain, engineVars
<1>5. ASSUME NEW t \in Type, ~Resolving, Answer(t)
      PROVE  SocketsFollow'
  <2>1. PICK reply \in Reply, copies \in 1 .. 2 :
          inbox' = [inbox EXCEPT ![t] = [i \in 1 .. copies |-> reply]]
    BY <1>5 DEF Answer
  <2>2. sent[t] = 1 /\ UNCHANGED <<registered, trapped, room, readers>>
    BY <1>5 DEF Answer, engineVars, SentAtMostOnce
  <2>3. [i \in 1 .. copies |-> reply] \in Seq(Reply)
    OBVIOUS
  <2>4. inbox' \in [Type -> Seq(Reply)] /\ \A u \in Type : u # t => inbox'[u] = inbox[u]
    BY <2>1, <2>3
  <2> QED BY <1>2, <1>5, <2>2, <2>4
<1>6. ASSUME NEW t \in Type, ~Resolving, Receive(t)
      PROVE  SocketsFollow'
  <2> DEFINE busy == [reply |-> Head(inbox[t]), removed |-> FALSE]
  <2>1. /\ readers' = Emplace(readers, t, busy) /\ inbox[t] # <<>>
        /\ inbox' = [inbox EXCEPT ![t] = Tail(@)]
        /\ UNCHANGED <<registered, trapped, room>>
    BY <1>6 DEF Receive, engineVars
  <2>2. busy \in [reply : Reply, removed : BOOLEAN] /\ Tail(inbox[t]) \in Seq(Reply)
    BY <2>1
  <2>3. /\ DOMAIN readers' = DOMAIN readers \cup {t}
        /\ \A u \in DOMAIN readers' : readers'[u] \in [reply : Reply, removed : BOOLEAN]
    BY <2>1, <2>2 DEF Emplace
  <2>4. inbox' \in [Type -> Seq(Reply)] /\ \A u \in Type : u # t => inbox'[u] = inbox[u]
    BY <2>1, <2>2
  <2>5. \A u \in Type : inbox'[u] # <<>> \/ u \in DOMAIN readers' => sent'[u] = 1
    BY <1>2, <1>6, <2>1, <2>3, <2>4
  <2> QED BY <1>2, <1>6, <2>1, <2>3, <2>4, <2>5
<1>7. ASSUME NEW t \in Type, ~Resolving, Disconnect(t)
      PROVE  SocketsFollow'
  <2>1. /\ t \in DOMAIN readers /\ registered' = registered \ {t}
        /\ UNCHANGED <<inbox, room>>
    BY <1>7 DEF Disconnect, DoRemove, netVars
  <2>2. trapped' \in BOOLEAN
    BY <1>7, Zenon DEF Disconnect, DoRemove
  <2>3. readers' = readers \/ readers' = [readers EXCEPT ![t].removed = TRUE]
    BY <1>7 DEF Disconnect
  <2>4. /\ DOMAIN readers' = DOMAIN readers
        /\ \A u \in DOMAIN readers' : readers'[u] \in [reply : Reply, removed : BOOLEAN]
    BY <2>1, <2>3
  <2>5. step = "write" /\ (writeQueue # <<>> \/ hand # <<>>) => t # Head(todo)
    BY <2>1 DEF SentAtMostOnce
  <2> QED BY <1>2, <1>7, <2>1, <2>2, <2>4, <2>5
<1>8. ASSUME NEW t \in Type, ~Resolving, RequestComplete(t)
      PROVE  SocketsFollow'
  <2>1. /\ readers' = Restrict(readers, DOMAIN readers \ {t})
        /\ UNCHANGED <<registered, trapped, room, inbox>>
    BY <1>8 DEF RequestComplete, engineVars, netVars
  <2>2. /\ DOMAIN readers' = DOMAIN readers \ {t}
        /\ \A u \in DOMAIN readers' : readers'[u] = readers[u]
    BY <2>1 DEF Restrict
  <2> QED BY <1>2, <1>8, <2>1, <2>2
<1>9. CASE ~Resolving /\ QueryTimedout
  <2>1. step # "write" /\ UNCHANGED <<room, inbox, readers>>
    BY <1>9 DEF QueryTimedout, LockFree, netVars
  <2>2. trapped' \in BOOLEAN
    BY <1>9, Zenon DEF QueryTimedout, DoRemove
  <2>3. registered' \subseteq registered
    BY <1>9 DEF QueryTimedout, DoRemove
  <2> QED BY <1>2, <1>9, <2>1, <2>2, <2>3
<1> QED BY <1>1, <1>3, <1>4, <1>5, <1>6, <1>7, <1>8, <1>9 DEF Next

-----------------------------------------------------------------------------

(* Round from lastAccessIndex, get comes to every address.                 *)
LEMMA TurnsRound ==
  ASSUME NEW num \in Nat \ {0}, NEW last \in 0 .. num - 1
  PROVE  /\ \A i \in 1 .. num : (last + i) % num \in 0 .. num - 1
         /\ \A j \in 0 .. num - 1 : \E i \in 1 .. num : (last + i) % num = j
<1>1. \A x \in 0 .. num - 1 : x % num = x /\ (x + num) % num = x
  OBVIOUS
<1>2. ASSUME NEW i \in 1 .. num
      PROVE  (last + i) % num \in 0 .. num - 1
  <2>1. last + i \in Nat
    OBVIOUS
  <2> QED BY <2>1
<1>3. ASSUME NEW j \in 0 .. num - 1
      PROVE  \E i \in 1 .. num : (last + i) % num = j
  <2>1. CASE j > last
    <3>1. j - last \in 1 .. num /\ last + (j - last) = j
      BY <2>1
    <3> QED BY <1>1, <3>1
  <2>2. CASE j <= last
    <3>1. j - last + num \in 1 .. num /\ last + (j - last + num) = j + num
      BY <2>2
    <3> QED BY <1>1, <3>1
  <2> QED BY <2>1, <2>2
<1> QED BY <1>2, <1>3

(* Names::get finds an address if one suits, and keeps them all.           *)
LEMMA GetFinds ==
  ASSUME NEW names, Entry(names), NEW prefs
  PROVE  LET got == Get(names, prefs)
         IN  /\ Entry(got.names) /\ got.names.addrs = names.addrs
             /\ got.found = <<>> \/ \E addr \in Seq(0 .. 255) : got.found = <<addr>>
             /\ got.found # <<>> <=> \E addr \in Range(names.addrs) : Suits(prefs, addr)
<1> DEFINE num == Len(names.addrs)
           turn == [i \in 1 .. num |-> (names.lastAccessIndex + i) % num]
           good == {i \in DOMAIN turn : Suits(prefs, names.addrs[turn[i] + 1])}
           got == Get(names, prefs)
<1>1. /\ num \in Nat \ {0} /\ names.lastAccessIndex \in 0 .. num - 1
      /\ names.addrs \in Seq(Seq(0 .. 255)) /\ DOMAIN names.addrs = 1 .. num
  BY DEF Entry, Kept
<1>2. \A i \in 1 .. num : turn[i] \in 0 .. num - 1
  BY <1>1, TurnsRound
<1>3. \A j \in 0 .. num - 1 : \E i \in 1 .. num : turn[i] = j
  BY <1>1, TurnsRound
<1>4. good = {i \in 1 .. num : Suits(prefs, names.addrs[turn[i] + 1])}
  OBVIOUS
<1>5. got = IF good = {} THEN [found |-> <<>>, names |-> names]
            ELSE [found |-> <<names.addrs[turn[Min(good)] + 1]>>,
                  names |-> [names EXCEPT !.lastAccessIndex = turn[Min(good)]]]
  BY DEF Get
<1> HIDE DEF turn, good, got, num
<1>7. good # {} <=> \E addr \in Range(names.addrs) : Suits(prefs, addr)
  <2>1. ASSUME NEW i \in good
        PROVE  \E addr \in Range(names.addrs) : Suits(prefs, addr)
    <3>1. i \in 1 .. num /\ turn[i] + 1 \in 1 .. num
      BY <1>1, <1>2, <1>4
    <3> QED BY <1>1, <1>4, <3>1 DEF Range
  <2>2. ASSUME NEW addr \in Range(names.addrs), Suits(prefs, addr)
        PROVE  good # {}
    <3>1. PICK j \in 1 .. num : addr = names.addrs[j]
      BY <1>1 DEF Range
    <3>2. j - 1 \in 0 .. num - 1
      BY <1>1
    <3>3. PICK i \in 1 .. num : turn[i] = j - 1
      BY <1>3, <3>2
    <3>4. turn[i] + 1 = j
      BY <3>3
    <3> QED BY <1>4, <2>2, <3>1, <3>4
  <2> QED BY <2>1, <2>2
<1>8. CASE good = {}
  <2>1. got.found = <<>> /\ got.names = names
    BY <1>5, <1>8
  <2> QED BY <1>7, <1>8, <2>1 DEF got
<1>9. CASE good # {}
  <2> DEFINE i == turn[Min(good)]
  <2>1. Min(good) \in 1 .. num
    <3>1. good \subseteq 1 .. num /\ 1 .. num \subseteq Nat
      BY <1>1, <1>4
    <3> QED BY <1>9, <3>1, MinIsLeast
  <2>2. i \in 0 .. num - 1
    BY <1>2, <2>1
  <2>3. got = [found |-> <<names.addrs[i + 1]>>,
               names |-> [names EXCEPT !.lastAccessIndex = i]]
    BY <1>5, <1>9
  <2> HIDE DEF i
  <2>4. names.addrs[i + 1] \in Seq(0 .. 255)
    BY <1>1, <2>2
  <2>5. [names EXCEPT !.lastAccessIndex = i] = [addrs |-> names.addrs, lastAccessIndex |-> i]
    BY DEF Entry, Kept
  <2>6. got.names = [addrs |-> names.addrs, lastAccessIndex |-> i]
    BY <2>3, <2>5
  <2>7. Entry(got.names)
    BY <1>1, <2>2, <2>6 DEF Entry, Kept, num
  <2>8. got.found = <<names.addrs[i + 1]>> /\ got.found # <<>>
    BY <2>3
  <2> QED BY <1>7, <1>9, <2>4, <2>6, <2>7, <2>8 DEF got
<1> QED BY <1>8, <1>9

(* What is heard: no name in an error, no address or one of t's family.    *)
LEMMA HeardIs ==
  ASSUME QuestionAssumption, LookupIsAsked, NEW t \in Type, readers[t].reply \in Reply
  PROVE  LET ans == Heard(t)
         IN  /\ ans.name \in {<<>>, Dotted[asking.name]}
             /\ ans.addr # <<>> =>
                  /\ ans.name = Dotted[asking.name]
                  /\ \E addr \in Seq(0 .. 255) :
                       ans.addr = <<addr>> /\ Family(addr) = t
<1> DEFINE reply == readers[t].reply
           i == SelectInSeq(reply[2], LAMBDA kind : kind = "address")
           ans == Heard(t)
<1>1. /\ ans.name = IF reply[1] = "error" THEN <<>> ELSE Dotted[asking.name]
      /\ ans.addr = IF i = 0 THEN <<>> ELSE <<Address(t, i)>>
  BY AnswerIsHeard DEF Heard, LookupIsAsked
<1>2. i \in 0 .. 2 /\ (reply[1] = "error" => i = 0)
  BY FirstAddress
<1> HIDE DEF i, reply, ans
<1>3. ASSUME i # 0
      PROVE  Address(t, i) \in Seq(0 .. 255) /\ Family(Address(t, i)) = t
  <2>1. i \in 0 .. 255
    BY <1>2
  <2>2. CASE t = "A"
    <3>1. Address(t, i) = <<10, 0, 0, i>>
      BY <2>2 DEF Address
    <3>2. <<10, 0, 0, i>> \in Seq(0 .. 255) /\ Len(<<10, 0, 0, i>>) = 4
      BY <2>1
    <3> QED BY <2>2, <3>1, <3>2 DEF Family, IsIpv4
  <2>3. CASE t = "AAAA"
    <3> DEFINE addr == <<32, 1, 13, 184, 0, 0, 0, 0, 0, 0, 0, 0, 0, 0, 1, i>>
    <3>1. Address(t, i) = addr
      BY <2>3 DEF Address
    <3>2. addr \in Seq(0 .. 255) /\ Len(addr) = 16
      BY <2>1
    <3> HIDE DEF addr
    <3>3. Family(addr) = "AAAA"
      BY <3>2 DEF Family, IsIpv4
    <3> QED BY <2>3, <3>1, <3>2, <3>3
  <2> QED BY <2>2, <2>3 DEF Type
<1>4. ans.addr # <<>> => i # 0
  BY <1>1
<1> QED BY <1>1, <1>2, <1>3, <1>4 DEF ans

(* The families of what is known of the name.                              *)
FamiliesIn(known) ==
  IF Dotted[asking.name] \notin DOMAIN known THEN {}
  ELSE {Family(addr) : addr \in Range(known[Dotted[asking.name]].addrs)}

(* byName knows of no other name that may be asked for: their keys differ. *)
LEMMA OneNameIsKnown ==
  ASSUME QuestionAssumption, LookupIsAsked, Knows(byName)
  PROVE  Families = [name \in Asked |->
                       IF name = asking.name THEN FamiliesIn(byName) ELSE {}]
<1>1. ASSUME NEW name \in Asked, name # asking.name
      PROVE  Dotted[name] \notin DOMAIN byName
  BY <1>1, DottedIsInjective DEF LookupIsAsked, Knows
<1> QED BY <1>1 DEF Families, FamiliesIn

(* Names::put adds the address that was heard, of the family asked for.    *)
LEMMA PutAdds ==
  ASSUME QuestionAssumption, LookupIsAsked, Knows(byName),
         NEW t \in Type, readers[t].reply \in Reply
  PROVE  LET ans == Heard(t)
             names == Put(ans)
         IN  /\ Knows(names)
             /\ ans.name \in DOMAIN names => ans.name = Dotted[asking.name]
             /\ ans.addr = <<>> => names = byName
             /\ ans.addr # <<>> =>
                  /\ ans.name = Dotted[asking.name] /\ ans.name \in DOMAIN names
                  /\ FamiliesIn(names) = FamiliesIn(byName) \cup {t}
<1> DEFINE ans == Heard(t)
           names == Put(ans)
           dotted == Dotted[asking.name]
<1>1. /\ ans.name \in {<<>>, dotted} /\ dotted # <<>>
      /\ ans.addr # <<>> => ans.name = dotted
  BY HeardIs, DottedIsSomething DEF LookupIsAsked
<1>2. CASE ans.addr = <<>>
  <2>1. names = byName
    BY <1>2 DEF Put
  <2> QED BY <1>1, <1>2, <2>1 DEF Knows
<1>3. CASE ans.addr # <<>>
  <2>1. PICK addr \in Seq(0 .. 255) : ans.addr = <<addr>> /\ Family(addr) = t
    BY <1>3, HeardIs
  <2> DEFINE old == IF dotted \in DOMAIN byName THEN byName[dotted]
                    ELSE [addrs |-> <<>>, lastAccessIndex |-> 0]
             new == [addrs |-> old.addrs \o <<addr>>, lastAccessIndex |-> old.lastAccessIndex]
  <2>2. old \in Kept /\ old.lastAccessIndex \in 0 .. Len(old.addrs)
    BY DEF Knows, Entry, Kept
  <2>3. Range(old.addrs) = IF dotted \in DOMAIN byName THEN Range(byName[dotted].addrs) ELSE {}
    BY DEF Range
  <2> HIDE DEF old
  <2>4. [old EXCEPT !.addrs = @ \o <<addr>>] = new
    <3>1. \A r \in Kept : \A x : [r EXCEPT !.addrs = x]
                             = [addrs |-> x, lastAccessIndex |-> r.lastAccessIndex]
      BY DEF Kept
    <3> QED BY <2>2, <3>1
  <2>5. /\ new.addrs \in Seq(Seq(0 .. 255)) /\ Len(new.addrs) = Len(old.addrs) + 1
        /\ new.addrs[Len(old.addrs) + 1] = addr
        /\ \A i \in 1 .. Len(old.addrs) : new.addrs[i] = old.addrs[i]
    BY <2>2 DEF Kept
  <2>6. Entry(new)
    BY <2>2, <2>5 DEF Entry, Kept
  <2>7. Range(new.addrs) = Range(old.addrs) \cup {addr}
    <3>1. /\ DOMAIN new.addrs = 1 .. Len(old.addrs) + 1 /\ DOMAIN old.addrs = 1 .. Len(old.addrs)
          /\ Len(old.addrs) \in Nat
      BY <2>2, <2>5 DEF Kept
    <3> HIDE DEF new
    <3>2. \A x \in Range(new.addrs) : x \in Range(old.addrs) \cup {addr}
      <4>1. \A i \in DOMAIN new.addrs : i \in 1 .. Len(old.addrs) \/ i = Len(old.addrs) + 1
        BY <3>1
      <4> QED BY <2>5, <3>1, <4>1, ZenonT(60) DEF Range
    <3>3. \A x \in Range(old.addrs) \cup {addr} : x \in Range(new.addrs)
      BY <2>5, <3>1, SMTT(60) DEF Range
    <3> QED BY <3>2, <3>3
  <2>8. names = Emplace(byName, dotted, new)
    BY <1>1, <1>3, <2>1, <2>4, Zenon DEF Put, old
  <2> HIDE DEF new, names, ans
  <2>9. DOMAIN names = DOMAIN byName \cup {dotted} /\ names[dotted] = new
    BY <2>8 DEF Emplace
  <2>10. Knows(names)
    <3>1. DOMAIN names = {dotted}
      BY <2>9 DEF Knows
    <3> QED BY <2>6, <2>9, <3>1 DEF Knows
  <2>11. FamiliesIn(names) = FamiliesIn(byName) \cup {t}
    <3>1. FamiliesIn(names) = {Family(a) : a \in Range(old.addrs) \cup {addr}}
      BY <2>7, <2>9 DEF FamiliesIn
    <3>2. FamiliesIn(byName) = {Family(a) : a \in Range(old.addrs)}
      BY <2>3 DEF FamiliesIn
    <3> QED BY <2>1, <3>1, <3>2
  <2> QED BY <1>1, <1>3, <2>9, <2>10, <2>11 DEF names, ans
<1> QED BY <1>2, <1>3

(* What get finds in what is known is what Resolver finds.                 *)
LEMMA GetIsFound ==
  ASSUME QuestionAssumption, LookupIsAsked, NEW known, Knows(known),
         Dotted[asking.name] \in DOMAIN known, NEW prefs \in Prefs
  PROVE  LET got == Get(known[Dotted[asking.name]], prefs)
             names == Emplace(known, Dotted[asking.name], got.names)
         IN  /\ Knows(names) /\ FamiliesIn(names) = FamiliesIn(known)
             /\ got.found \in Seq(Seq(0 .. 255))
             /\ got.found # <<>> <=> FamiliesIn(known) \cap R!Types(prefs) # {}
             /\ FamiliesIn(known) # {}
<1> DEFINE dotted == Dotted[asking.name]
           got == Get(known[dotted], prefs)
           names == Emplace(known, dotted, got.names)
<1>1. Entry(known[dotted])
  BY DEF Knows
<1>2. /\ Entry(got.names) /\ got.names.addrs = known[dotted].addrs
      /\ got.found = <<>> \/ \E addr \in Seq(0 .. 255) : got.found = <<addr>>
      /\ got.found # <<>> <=> \E addr \in Range(known[dotted].addrs) : Suits(prefs, addr)
  BY <1>1, GetFinds
<1> HIDE DEF got
<1>3. DOMAIN names = DOMAIN known /\ names[dotted] = got.names
  BY DEF Emplace
<1> HIDE DEF names
<1>4. Knows(names)
  <2>1. DOMAIN names = {dotted}
    BY <1>3 DEF Knows
  <2> QED BY <1>2, <1>3, <2>1 DEF Knows
<1>5. FamiliesIn(names) = FamiliesIn(known)
  BY <1>2, <1>3 DEF FamiliesIn
<1>6. got.found \in Seq(Seq(0 .. 255))
  <2>1. <<>> \in Seq(Seq(0 .. 255)) /\ \A addr \in Seq(0 .. 255) : <<addr>> \in Seq(Seq(0 .. 255))
    OBVIOUS
  <2> QED BY <1>2, <2>1
<1>7. FamiliesIn(known) = {Family(addr) : addr \in Range(known[dotted].addrs)}
  BY DEF FamiliesIn
<1>8. FamiliesIn(known) # {}
  <2>1. known[dotted].addrs[1] \in Range(known[dotted].addrs)
    BY <1>1 DEF Range, Entry, Kept
  <2> QED BY <1>7, <2>1
<1>9. \A addr : Suits(prefs, addr) <=> Family(addr) \in R!Types(prefs)
  BY DEF Suits, Family, R!Types, R!Family
<1>10. got.found # <<>> <=> FamiliesIn(known) \cap R!Types(prefs) # {}
  BY <1>2, <1>7, <1>9
<1> QED BY <1>4, <1>5, <1>6, <1>8, <1>10 DEF names, got

(* todo is one of three.                                                   *)
LEMMA TodoLengths ==
  /\ Len(<<>>) = 0 /\ Len(<<"A">>) = 1 /\ Len(<<"AAAA", "A">>) = 2
  /\ Tail(<<"A">>) = <<>> /\ Tail(<<"AAAA", "A">>) = <<"A">>
  /\ \A prefs : TypesInOrder(prefs) \in {<<"A">>, <<"AAAA", "A">>}
<1>1. Len(<<>>) = 0
  OBVIOUS
<1>2. Len(<<"A">>) = 1
  OBVIOUS
<1>3. Len(<<"AAAA", "A">>) = 2
  OBVIOUS
<1>4. Tail(<<"A">>) = <<>>
  OBVIOUS
<1>5. Tail(<<"AAAA", "A">>) = <<"A">>
  OBVIOUS
<1>6. \A prefs : TypesInOrder(prefs) \in {<<"A">>, <<"AAAA", "A">>}
  BY DEF TypesInOrder
<1> QED BY <1>1, <1>2, <1>3, <1>4, <1>5, <1>6

(* The steps of resolve count the clients and leave the rest.              *)
LEMMA QueryKeptByResolve ==
  ASSUME QuestionAssumption, LookupIsAsked, PendingHasClient, OneInPlace, QueryEnds,
         Resolving
  PROVE  QueryEnds' /\ UNCHANGED <<byName, again, telling, told>>
<1>0. UNCHANGED <<byName, again, telling, told>>
  BY DEF Resolving, Resolve, Create, Pop, Sent, WouldBlock, NotSent, ClientWaits, SetTimer,
         clientVars
<1>1. CASE Resolve
  <2>1. /\ step = "idle" /\ step' = "create" /\ todo' = TypesInOrder(asking.prefs)
        /\ pending' = TRUE /\ UNCHANGED <<clients, timer>>
    BY <1>1 DEF Resolve
  <2>2. Len(todo') = 1 \/ Len(todo') = 2
    BY <2>1, TodoLengths, Zenon
  <2>3. clients' + Len(todo') <= 2
    <3>1. clients' = 0
      BY <2>1 DEF QueryEnds
    <3>2. 0 + 1 <= 2 /\ 0 + 2 <= 2
      OBVIOUS
    <3> QED BY <2>2, <3>1, <3>2, Zenon
  <2> QED BY <1>0, <2>1, <2>3 DEF QueryEnds
<1>2. CASE Create \/ Pop \/ Sent \/ WouldBlock \/ NotSent
  <2>1. /\ step \in {"create", "write"} /\ step' = "write"
        /\ UNCHANGED <<todo, pending, clients, timer>>
    BY <1>2 DEF Create, Pop, Sent, WouldBlock, NotSent, queryVars, OneInPlace, PendingHasClient
  <2> QED BY <1>0, <2>1 DEF QueryEnds
<1>3. CASE ClientWaits
  <2>1. /\ step = "write" /\ step' \in {"timer", "create"} /\ clients' = clients + 1
        /\ todo' = Tail(todo) /\ todo # <<>> /\ UNCHANGED <<pending, timer>>
    BY <1>3 DEF ClientWaits, OneInPlace
  <2>2. \/ Len(todo) = 1 /\ Len(todo') = 0
        \/ Len(todo) = 2 /\ Len(todo') = 1
    <3>1. CASE todo = <<"A">>
      BY <2>1, <3>1, TodoLengths, Zenon
    <3>2. CASE todo = <<"AAAA", "A">>
      BY <2>1, <3>2, TodoLengths, Zenon
    <3> QED BY <2>1, <3>1, <3>2 DEF OneInPlace
  <2>3. clients' + Len(todo') = clients + Len(todo)
    <3>1. clients' = clients + 1 /\ clients \in Nat
      BY <2>1 DEF PendingHasClient
    <3>2. \A n \in Nat : n + 1 + 0 = n + 1 /\ n + 1 + 1 = n + 2
      OBVIOUS
    <3> QED BY <2>2, <3>1, <3>2, Zenon
  <2>4. clients' + Len(todo') <= 2
    BY <2>3 DEF QueryEnds
  <2> QED BY <1>0, <2>1, <2>4 DEF QueryEnds
<1>4. CASE SetTimer
  <2>1. /\ step = "timer" /\ step' = "unlocked" /\ timer' = "set"
        /\ UNCHANGED <<todo, pending, clients>>
    BY <1>4 DEF SetTimer
  <2>2. clients' + Len(todo') <= 2
    BY <2>1 DEF QueryEnds
  <2> QED BY <1>0, <2>1, <2>2 DEF QueryEnds
<1> QED BY <1>0, <1>1, <1>2, <1>3, <1>4 DEF Resolving

(* requestComplete tells the client as the query ends, and only then.      *)
LEMMA QueryKeptByAnswer ==
  ASSUME QuestionAssumption, LookupIsAsked, PendingHasClient, OneInPlace, SocketsFollow,
         NameIsKnown, QueryEnds, NEW t \in Type, RequestComplete(t)
  PROVE  QueryEnds' /\ NameIsKnown'
<1> DEFINE ans == Heard(t)
           names == Put(ans)
           known == ans.name \in DOMAIN names
           got == IF known THEN Get(names[ans.name], asking.prefs) ELSE [found |-> <<>>]
           word == [found |-> got.found, timeout |-> FALSE]
<1>1. UNCHANGED <<asking, step, todo, again, told>> /\ step \in {"idle", "unlocked"}
  BY DEF RequestComplete, resolveVars, CanComplete, LockFree
<1>2. readers[t].reply \in Reply
  BY DEF RequestComplete, CanComplete, SocketsFollow
<1>3. /\ Knows(names) /\ (known => ans.name = Dotted[asking.name])
  BY <1>2, PutAdds DEF NameIsKnown
<1>4. /\ got.found \in Seq(Seq(0 .. 255))
      /\ known => Knows(Emplace(names, ans.name, got.names))
  <2>1. CASE known
    BY <1>3, <2>1, GetIsFound DEF LookupIsAsked
  <2>2. CASE ~known
    <3>1. got.found = <<>>
      BY <2>2
    <3> QED BY <2>2, <3>1
  <2> QED BY <2>1, <2>2
<1>5. CASE ~pending
  <2>1. UNCHANGED <<byName, pending, clients, timer, telling>>
    BY <1>5 DEF RequestComplete, queryVars
  <2> QED BY <1>1, <2>1 DEF QueryEnds, NameIsKnown, Knows
<1>6. CASE pending
  <2>1. /\ clients' = clients - 1
        /\ IF clients > 1
           THEN byName' = names /\ UNCHANGED <<pending, timer, telling>>
           ELSE /\ pending' = FALSE
                /\ timer' = IF timer = "set" THEN "off" ELSE timer
                /\ telling' = telling \cup {word}
                /\ byName' = IF known THEN Emplace(names, ans.name, got.names) ELSE names
    BY <1>6, Zenon DEF RequestComplete
  <2> HIDE DEF ans, names, got, known
  <2>2. step = "unlocked"
    BY <1>1, <1>6 DEF PendingHasClient
  <2>3. Knows(byName')
    BY <1>3, <1>4, <2>1
  <2>4. NameIsKnown'
    BY <1>1, <2>2, <2>3 DEF NameIsKnown, Knows
  <2>5. clients' + Len(todo') <= 2 /\ clients' \in Nat
    <3>1. clients \in Nat /\ clients > 0 /\ Len(todo) \in Nat
      BY <1>6, <2>2, TodoLengths DEF PendingHasClient, OneInPlace
    <3>2. clients + Len(todo) <= 2 /\ clients' = clients - 1 /\ todo' = todo
      BY <1>1, <2>1 DEF QueryEnds
    <3> QED BY <3>1, <3>2
  <2>6. word \in Word /\ telling = {}
    BY <1>4, <1>6 DEF Word, QueryEnds
  <2> HIDE DEF word
  <2>7. CASE clients > 1
    BY <1>1, <1>6, <2>1, <2>2, <2>4, <2>5, <2>7 DEF QueryEnds
  <2>8. CASE ~(clients > 1)
    <3>1. pending' = FALSE /\ telling' = {word} /\ timer' \in {timer, "off"}
      BY <2>1, <2>6, <2>8
    <3> QED BY <1>1, <2>2, <2>4, <2>5, <2>6, <3>1 DEF QueryEnds
  <2> QED BY <2>7, <2>8
<1> QED BY <1>5, <1>6

(* What the others do to the query.                                        *)
LEMMA QueryKept ==
  ASSUME QuestionAssumption, LookupIsAsked, PendingHasClient, OneInPlace, SocketsFollow,
         NameIsKnown, QueryEnds, [Next]_vars
  PROVE  QueryEnds' /\ NameIsKnown'
<1>0. UNCHANGED asking
  BY AskedKept
<1>1. CASE Resolving
  <2>1. QueryEnds' /\ UNCHANGED <<byName, again, telling, told>>
    BY <1>1, QueryKeptByResolve
  <2>2. step' # "idle" \/ UNCHANGED step
    BY <1>1 DEF Resolving, Resolve, Create, Pop, Sent, WouldBlock, NotSent, ClientWaits,
                SetTimer
  <2> QED BY <1>0, <2>1, <2>2 DEF NameIsKnown, Knows
<1>2. ASSUME ~Resolving
      PROVE  UNCHANGED <<step, todo>>
  BY <1>2, OthersSendNothing
<1>3. CASE ~Resolving /\ (Drain \/ UNCHANGED vars \/ \E t \in Type : Answer(t) \/ Receive(t) \/ Disconnect(t))
  <2>1. UNCHANGED <<byName, again, telling, told, pending, clients, timer>>
    BY <1>3 DEF Drain, vars, Answer, Receive, Disconnect, queryVars, clientVars
  <2> QED BY <1>0, <1>2, <1>3, <2>1 DEF QueryEnds, NameIsKnown, Knows
<1>4. CASE ~Resolving /\ \E t \in Type : RequestComplete(t)
  BY <1>4, QueryKeptByAnswer
<1>5. CASE ~Resolving /\ Tell
  <2>1. PICK word \in telling :
          /\ telling' = telling \ {word}
          /\ told' = [told EXCEPT !["first"] = Append(@, word)]
          /\ UNCHANGED <<byName, again, pending, clients, timer>>
    BY <1>5 DEF Tell, queryVars
  <2>2. told' \in [Client -> Seq(Word)]
    <3>1. told["first"] \in Seq(Word) /\ word \in Word
      BY DEF QueryEnds, Client
    <3>2. Append(told["first"], word) \in Seq(Word)
      BY <3>1
    <3> QED BY <2>1, <3>2 DEF QueryEnds
  <2> QED BY <1>0, <1>2, <1>5, <2>1, <2>2 DEF QueryEnds, NameIsKnown, Knows
<1>6. CASE ~Resolving /\ Expire
  <2>1. /\ timer = "set" /\ timer' = "expired"
        /\ UNCHANGED <<byName, again, telling, told, pending, clients>>
    BY <1>6 DEF Expire, clientVars
  <2> QED BY <1>0, <1>2, <1>6, <2>1 DEF QueryEnds, NameIsKnown, Knows
<1>7. CASE ~Resolving /\ QueryTimedout
  <2> DEFINE word == [found |-> <<>>, timeout |-> TRUE]
  <2>1. /\ timer' = "off" /\ pending' = FALSE /\ timer = "expired"
        /\ telling' = IF pending THEN telling \cup {word} ELSE telling
        /\ UNCHANGED <<byName, again, told, clients>>
    BY <1>7 DEF QueryTimedout
  <2>2. word \in Word
    BY DEF Word
  <2> HIDE DEF word
  <2>3. /\ telling' \subseteq Word /\ \A v, w \in telling' : v = w
    BY <2>1, <2>2 DEF QueryEnds
  <2>4. step = "unlocked"
    BY <2>1 DEF QueryEnds
  <2> QED BY <1>0, <1>2, <1>7, <2>1, <2>3, <2>4 DEF QueryEnds, NameIsKnown, Knows
<1>8. CASE ~Resolving /\ ResolveAgain
  <2> DEFINE dotted == Dotted[asking.name]
             got(prefs) == Get(byName[dotted], prefs)
  <2>1. PICK prefs \in Prefs :
          /\ again' = prefs /\ dotted \in DOMAIN byName
          /\ byName' = Emplace(byName, dotted, got(prefs).names)
          /\ told' = [told EXCEPT !["again"] =
                        Append(@, [found |-> got(prefs).found, timeout |-> FALSE])]
          /\ UNCHANGED <<telling, pending, clients, timer>>
    BY <1>8, Zenon DEF ResolveAgain, queryVars
  <2>2. Knows(Emplace(byName, dotted, got(prefs).names)) /\ got(prefs).found \in Seq(Seq(0 .. 255))
    BY <2>1, GetIsFound DEF NameIsKnown
  <2> HIDE DEF got
  <2>3. told' \in [Client -> Seq(Word)]
    <3> DEFINE word == [found |-> got(prefs).found, timeout |-> FALSE]
    <3>1. word \in Word
      BY <2>2 DEF Word
    <3> HIDE DEF word
    <3>2. told["again"] \in Seq(Word)
      BY DEF QueryEnds, Client
    <3>3. Append(told["again"], word) \in Seq(Word)
      BY <3>1, <3>2
    <3> QED BY <2>1, <3>3 DEF QueryEnds, word
  <2>4. step # "idle"
    BY <2>1 DEF NameIsKnown
  <2> QED BY <1>0, <1>2, <1>8, <2>1, <2>2, <2>3, <2>4 DEF QueryEnds, NameIsKnown, Knows
<1> QED BY <1>1, <1>3, <1>4, <1>5, <1>6, <1>7, <1>8 DEF Next

-----------------------------------------------------------------------------

IInv ==
  /\ LookupIsAsked
  /\ PendingHasClient
  /\ OneInPlace
  /\ SentAtMostOnce
  /\ SocketsFollow
  /\ NameIsKnown
  /\ QueryEnds

(* Init sets the inductive invariant up.                                   *)
LEMMA InitHolds == QuestionAssumption /\ Init => IInv
<1> SUFFICES ASSUME QuestionAssumption, Init PROVE IInv
  OBVIOUS
<1>1. LookupIsAsked
  BY DEF Init, LookupIsAsked
<1>2. /\ step = "idle" /\ todo = <<>> /\ writeQueue = <<>> /\ hand = <<>>
      /\ registered = {} /\ pending = FALSE /\ clients = 0 /\ timer = "unset"
      /\ readers = <<>> /\ byName = <<>> /\ again = "" /\ telling = {}
  BY DEF Init
<1>3. sent = [t \in Type |-> 0] /\ inbox = [t \in Type |-> <<>>]
  BY DEF Init
<1>4. told \in [Client -> Seq(Word)]
  <2>1. told = [c \in Client |-> <<>>]
    BY DEF Init
  <2>2. <<>> \in Seq(Word)
    OBVIOUS
  <2> QED BY <2>1, <2>2
<1>5. room \in BOOLEAN /\ trapped \in BOOLEAN
  BY Zenon DEF Init
<1>6. PendingHasClient
  BY <1>2 DEF PendingHasClient
<1>7. OneInPlace /\ SentAtMostOnce
  <2>1. OneInPlace
    BY <1>2 DEF OneInPlace
  <2>2. asking.prefs \in Prefs
    BY <1>1 DEF LookupIsAsked
  <2>3. SentAtMostOnce
    <3>1. sent \in [Type -> 0 .. 1] /\ \A t \in Type : sent[t] = 0
      BY <1>3
    <3>2. step = "idle" /\ writeQueue = <<>> /\ hand = <<>>
      BY <1>2
    <3> QED BY <2>2, <3>1, <3>2 DEF SentAtMostOnce
  <2> QED BY <2>1, <2>3
<1>8. DOMAIN <<>> = {} /\ Len(<<>>) = 0
  OBVIOUS
<1>9. SocketsFollow
  <2>1. <<>> \in Seq(Reply)
    OBVIOUS
  <2>2. inbox \in [Type -> Seq(Reply)]
    BY <1>3, <2>1
  <2> QED BY <1>1, <1>2, <1>3, <1>5, <1>8, <2>2 DEF SocketsFollow, LookupIsAsked
<1>10. NameIsKnown
  BY <1>2, <1>8 DEF NameIsKnown, Knows
<1>11. QueryEnds
  <2>1. clients + Len(todo) = 0 + 0
    BY <1>2, <1>8, Zenon
  <2>2. clients + Len(todo) <= 2
    BY <2>1
  <2> QED BY <1>2, <1>4, <2>2, Zenon DEF QueryEnds
<1> QED BY <1>1, <1>6, <1>7, <1>9, <1>10, <1>11 DEF IInv

(* Every step keeps it.                                                    *)
LEMMA StepKept == QuestionAssumption /\ IInv /\ [Next]_vars => IInv'
<1> SUFFICES ASSUME QuestionAssumption, IInv, [Next]_vars PROVE IInv'
  OBVIOUS
<1>1. LookupIsAsked'
  BY AskedKept DEF IInv
<1>2. PendingHasClient'
  BY ClientKept DEF IInv
<1>3. OneInPlace' /\ SentAtMostOnce'
  BY SendingKept DEF IInv
<1>4. SocketsFollow'
  BY SocketsKept DEF IInv
<1>5. QueryEnds' /\ NameIsKnown'
  BY QueryKept DEF IInv
<1> QED BY <1>1, <1>2, <1>3, <1>4, <1>5 DEF IInv

(* The inductive invariant of the lookup, for any names and any first      *)
(* number.                                                                 *)
THEOREM Invariance == Spec => []IInv
<1>1. Init => IInv
  BY InitHolds, QuestionAssumption
<1>2. IInv /\ [Next]_vars => IInv'
  BY StepKept, QuestionAssumption
<1> QED BY <1>1, <1>2, PTL DEF Spec

(* Types, for any names.                                                   *)
THEOREM TypeCorrect == Spec => []TypeOK
<1>1. ASSUME IInv
      PROVE  TypeOK
  <2>1. Range(todo) \cup Range(writeQueue) \cup Range(hand) \subseteq Type
    <3>1. /\ Range(<<>>) = {} /\ Range(<<"A">>) = {"A"} /\ Range(<<"AAAA", "A">>) = {"AAAA", "A"}
          /\ Range(<<"AAAA">>) = {"AAAA"}
          /\ Head(<<"A">>) = "A" /\ Head(<<"AAAA", "A">>) = "AAAA"
      BY DEF Range
    <3> QED BY <1>1, <3>1 DEF IInv, OneInPlace, Type
  <2>2. clients \in 0 .. 2
    <3>1. clients \in Nat /\ clients + Len(todo) <= 2
      BY <1>1 DEF IInv, QueryEnds, PendingHasClient
    <3>2. Len(todo) \in Nat
      BY <1>1, TodoLengths DEF IInv, OneInPlace
    <3> QED BY <3>1, <3>2
  <2> QED BY <1>1, <2>1, <2>2, Zenon
      DEF TypeOK, IInv, SocketsFollow, QueryEnds, SentAtMostOnce, PendingHasClient
<1> QED BY <1>1, Invariance, PTL

(* An answer that comes while resolve is still at work waits for           *)
(* ResolverImpl::lock and so finds a client in clients: back() is never    *)
(* called on none (resolverimpl.cpp:170-179).                              *)
THEOREM ClientsAreFound == Spec => []AnswerFindsClient
<1>1. IInv => AnswerFindsClient
  BY DEF IInv, PendingHasClient, AnswerFindsClient, CanComplete, LockFree
<1> QED BY <1>1, Invariance, PTL

(* However often the kernel has no room and doWrite puts a question back,  *)
(* it goes out once at most (udpsocket.cpp:66-102).                        *)
THEOREM QuestionsAreSentOnce == Spec => [](sent \in [Type -> 0 .. 1])
<1>1. IInv => sent \in [Type -> 0 .. 1]
  BY DEF IInv, SentAtMostOnce
<1> QED BY <1>1, Invariance, PTL
-----------------------------------------------------------------------------

(* Resolver's instance has the library's operators by other names.         *)
LEMMA SameOperators ==
  /\ \A S : R!Cardinality(S) = Cardinality(S)
  /\ \A S : R!IsFiniteSet(S) <=> IsFiniteSet(S)
  /\ \A f, S : R!Restrict(f, S) = Restrict(f, S)
<1>1. \A S : R!Cardinality(S) = Cardinality(S)
  BY DEF R!Cardinality, Cardinality
<1>2. \A S : R!IsFiniteSet(S) <=> IsFiniteSet(S)
  BY DEF R!IsFiniteSet, IsFiniteSet
<1>3. \A f, S : R!Restrict(f, S) = Restrict(f, S)
  BY DEF R!Restrict, Restrict
<1> QED BY <1>1, <1>2, <1>3

(* What Resolver calls by other names.                                     *)
LEMMA ResolverTypes ==
  ASSUME QuestionAssumption
  PROVE  /\ Cardinality(Client) = 2 /\ IsFiniteSet(Client)
         /\ R!Request = {0, 1} /\ R!Family = Type
         /\ R!ResolverAssumption
         /\ \A prefs \in Prefs :
              /\ R!Types(prefs) = Range(TypesInOrder(prefs))
              /\ Cardinality(R!Types(prefs)) = Len(TypesInOrder(prefs))
<1>1. IsFiniteSet({"first"}) /\ Cardinality({"first"}) = 1
  BY FS_Singleton
<1>2. IsFiniteSet({"first"} \cup {"again"}) /\ Cardinality({"first"} \cup {"again"}) = 1 + 1
  BY <1>1, FS_AddElement
<1>3. Client = {"first"} \cup {"again"}
  BY DEF Client
<1>4. IsFiniteSet(Client) /\ Cardinality(Client) = 2
  BY <1>2, <1>3
<1>5. R!Request = {0, 1}
  <2>1. R!Cardinality(Client) = 2
    BY <1>4, SameOperators
  <2> QED BY <2>1 DEF R!Request
<1>6. R!Family = Type
  BY DEF R!Family, Type
<1>7. IsFiniteSet({"A"}) /\ Cardinality({"A"}) = 1
  BY FS_Singleton
<1>8. IsFiniteSet({"A"} \cup {"AAAA"}) /\ Cardinality({"A"} \cup {"AAAA"}) = 1 + 1
  BY <1>7, FS_AddElement
<1>9. ASSUME NEW prefs \in Prefs
      PROVE  /\ R!Types(prefs) = Range(TypesInOrder(prefs))
             /\ Cardinality(R!Types(prefs)) = Len(TypesInOrder(prefs))
  <2>1. Range(<<"A">>) = {"A"} /\ Range(<<"AAAA", "A">>) = {"A"} \cup {"AAAA"}
    BY DEF Range
  <2>2. CASE prefs = "any"
    <3>1. R!Types(prefs) = {"A"} \cup {"AAAA"} /\ TypesInOrder(prefs) = <<"AAAA", "A">>
      BY <2>2 DEF R!Types, R!Family, TypesInOrder
    <3>2. 1 + 1 = 2
      OBVIOUS
    <3> QED BY <1>8, <2>1, <3>1, <3>2, TodoLengths, Zenon
  <2>3. CASE prefs # "any"
    <3>1. R!Types(prefs) = {"A"} /\ TypesInOrder(prefs) = <<"A">>
      BY <2>3 DEF R!Types, TypesInOrder
    <3> QED BY <1>7, <2>1, <3>1, TodoLengths, Zenon
  <2> QED BY <2>2, <2>3
<1>10. R!ResolverAssumption
  BY <1>4, SameOperators DEF R!ResolverAssumption, QuestionAssumption
<1> QED BY <1>4, <1>5, <1>6, <1>9, <1>10

(* What Resolver sees of a step that leaves the clients, what is known and *)
(* what is heard alone.                                                    *)
LEMMA SeenUnchanged ==
  ASSUME UNCHANGED <<asking, again, byName, telling, told, readers>>, Begun' = Begun
  PROVE  UNCHANGED <<Asks, Requests, Received, Families, Telling, Results>>
<1>1. UNCHANGED Asks
  BY DEF Asks
<1>2. UNCHANGED Requests
  BY DEF Requests
<1>3. UNCHANGED Received
  BY DEF Received, Heard, Kind
<1>4. UNCHANGED Families
  BY DEF Families
<1>5. UNCHANGED <<Telling, Results>>
  BY DEF Telling, Results, Outcome
<1> QED BY <1>1, <1>2, <1>3, <1>4, <1>5

(* ResolverImpl::resolve, its first step: that of all of it.               *)
LEMMA ResolveIsResolve ==
  ASSUME QuestionAssumption, IInv, ~trapped, Resolve
  PROVE  R!Resolve("first")
<1> DEFINE name == asking.name
           prefs == asking.prefs
<1>1. /\ step = "idle" /\ step' = "create" /\ todo = <<>> /\ todo' = TypesInOrder(prefs)
      /\ UNCHANGED <<asking, registered, clients, timer, readers, byName, again, telling, told,
                     trapped>>
  BY DEF Resolve, engineVars, clientVars, IInv, OneInPlace
<1>2. pending' = TRUE /\ pending = FALSE
  BY <1>1, Zenon DEF Resolve, IInv, PendingHasClient, QueryEnds
<1>3. /\ clients = 0 /\ timer = "unset" /\ registered = {} /\ DOMAIN byName = {}
      /\ name \in Asked /\ prefs \in Prefs
  BY <1>1 DEF IInv, QueryEnds, SocketsFollow, NameIsKnown, LookupIsAsked
<1>4. ~Begun /\ Begun'
  BY <1>1 DEF Begun
<1>5. Asks["first"] = {} /\ Asks' = [Asks EXCEPT !["first"] = {[name |-> name, prefs |-> prefs]}]
  BY <1>1, <1>4 DEF Asks, Client, If
<1>6. Families[name] = {}
  BY <1>3 DEF Families
<1>7. Requests = 0 /\ Requests' = 0 + 1
  BY <1>4 DEF Requests
<1>8. Queries' = R!Emplace(Queries, Requests, R!NewQuery("first", name, prefs))
  <2>1. clients' + Len(todo') = Cardinality(R!Types(prefs))
    <3>1. Len(todo') = Cardinality(R!Types(prefs)) /\ clients' = 0
      BY <1>1, <1>3, ResolverTypes
    <3>2. Len(todo') = 1 \/ Len(todo') = 2
      BY <1>1, TodoLengths, Zenon
    <3>3. 0 + 1 = 1 /\ 0 + 2 = 2
      OBVIOUS
    <3> QED BY <3>1, <3>2, <3>3, Zenon
  <2>2. Queries' = [k \in {0} |-> R!NewQuery("first", name, prefs)]
    BY <1>1, <1>2, <2>1, SameOperators DEF Queries, If, R!NewQuery
  <2>3. DOMAIN Queries = {}
    BY <1>2 DEF Queries, If
  <2> QED BY <1>7, <2>2, <2>3, Zenon DEF R!Emplace
<1>9. \E unsent \in R!Unsent(R!Opened(Requests, prefs)) :
        Sockets' = Sockets \cup (R!Opened(Requests, prefs) \ unsent)
  <2> DEFINE unsent == {<<0, f>> : f \in R!Types(prefs) \cap asking.fails}
  <2>1. R!Opened(Requests, prefs) = {<<0, f>> : f \in R!Types(prefs)}
    BY <1>7 DEF R!Opened
  <2>2. Sockets = {}
    <3>1. Range(<<>>) = {}
      BY DEF Range
    <3> QED BY <1>1, <1>3, <3>1 DEF Sockets, Upcoming
  <2>3. Sockets' = {0} \X (R!Types(prefs) \ asking.fails)
    <3>1. Upcoming' = Range(todo')
      BY <1>1 DEF Upcoming
    <3>2. Range(todo') = R!Types(prefs)
      BY <1>1, <1>3, ResolverTypes
    <3> QED BY <1>1, <1>3, <3>1, <3>2 DEF Sockets
  <2>4. unsent \in R!Unsent(R!Opened(Requests, prefs))
    BY <2>1 DEF R!Unsent
  <2>5. Sockets' = Sockets \cup (R!Opened(Requests, prefs) \ unsent)
    BY <2>1, <2>2, <2>3
  <2> QED BY <2>4, <2>5
<1>10. Timeouts' = Timeouts \cup {Requests}
  BY <1>1, <1>3, <1>4, <1>7 DEF Timeouts, If
<1>11. UNCHANGED <<Expired, Received, Families, Telling, Results, trapped>>
  <2>1. UNCHANGED <<Expired, Telling, Results, trapped>>
    BY <1>1 DEF Expired, If, Telling, Results, Outcome
  <2>2. UNCHANGED <<Received, Families>>
    BY <1>1 DEF Received, Heard, Kind, Families
  <2> QED BY <2>1, <2>2
<1>12. R!ResolveUnknown("first", name, prefs)
  BY <1>6, <1>7, <1>8, <1>9, <1>10, <1>11 DEF R!ResolveUnknown
<1> QED BY <1>3, <1>5, <1>11, <1>12, Zenon DEF R!Resolve, Client

(* The rest of resolve, and what the network does, Resolver does not see.  *)
LEMMA SendingIsUnseen ==
  ASSUME QuestionAssumption, IInv, ~trapped, Resolving, ~Resolve
  PROVE  UNCHANGED R!vars
<1>1. /\ UNCHANGED <<asking, readers, byName, again, telling, told, pending>>
      /\ step # "idle" /\ step' # "idle"
  BY DEF Resolving, Create, Pop, Sent, WouldBlock, NotSent, ClientWaits, SetTimer, queryVars,
         clientVars, IInv, OneInPlace
<1>2. UNCHANGED <<Asks, Requests, Received, Families, Telling, Results>>
  BY <1>1, SeenUnchanged DEF Begun
<1>3. /\ Range(<<>>) = {} /\ Range(<<"A">>) = {"A"} /\ Range(<<"AAAA", "A">>) = {"AAAA", "A"}
      /\ Head(<<"A">>) = "A" /\ Head(<<"AAAA", "A">>) = "AAAA"
      /\ Tail(<<"A">>) = <<>> /\ Tail(<<"AAAA", "A">>) = <<"A">>
      /\ <<"A">> # <<>> /\ <<"AAAA", "A">> # <<>>
  BY DEF Range
<1>4. UNCHANGED trapped
  <2>1. CASE NotSent
    <3>1. Head(hand) \in registered
      <4>1. /\ step = "write" /\ hand = <<Head(todo)>>
        BY <2>1 DEF NotSent, IInv, OneInPlace
      <4>2. Head(<<Head(todo)>>) = Head(todo) /\ hand # <<>>
        BY <2>1 DEF NotSent
      <4> QED BY <4>1, <4>2 DEF IInv, SocketsFollow
    <3>2. trapped' = FALSE
      BY <2>1, <3>1, Zenon DEF NotSent, DoRemove
    <3>3. trapped = FALSE
      BY Zenon DEF IInv, SocketsFollow
    <3> QED BY <3>2, <3>3
  <2>2. CASE ~NotSent
    BY <2>2 DEF Resolving, Create, Pop, Sent, WouldBlock, ClientWaits, SetTimer, engineVars
  <2> QED BY <2>1, <2>2
<1>5. UNCHANGED Queries
  <2>1. clients' + Len(todo') = clients + Len(todo)
    <3>1. CASE ClientWaits
      <4>1. clients \in Nat /\ clients' = clients + 1 /\ todo' = Tail(todo) /\ todo # <<>>
        BY <3>1 DEF ClientWaits, IInv, PendingHasClient, OneInPlace
      <4>2. \/ Len(todo) = 1 /\ Len(todo') = 0
            \/ Len(todo) = 2 /\ Len(todo') = 1
        <5>1. CASE todo = <<"A">>
          BY <4>1, <5>1, TodoLengths, Zenon
        <5>2. CASE todo = <<"AAAA", "A">>
          BY <4>1, <5>2, TodoLengths, Zenon
        <5> QED BY <4>1, <5>1, <5>2 DEF IInv, OneInPlace
      <4>3. \A n \in Nat : n + 1 + 0 = n + 1 /\ n + 1 + 1 = n + 2
        OBVIOUS
      <4> QED BY <4>1, <4>2, <4>3, Zenon
    <3>2. CASE ~ClientWaits
      <4>1. UNCHANGED <<clients, todo>>
        BY <3>2 DEF Resolving, Create, Pop, Sent, WouldBlock, NotSent, SetTimer, queryVars
      <4> QED BY <4>1
    <3> QED BY <3>1, <3>2
  <2> QED BY <1>1, <2>1, Zenon DEF Queries
<1>6. UNCHANGED <<Timeouts, Expired>>
  <2>1. CASE SetTimer
    BY <1>1, <2>1 DEF SetTimer, Timeouts, Expired, If, Begun, IInv, QueryEnds
  <2>2. CASE ~SetTimer
    <3>1. UNCHANGED timer /\ step \in {"create", "write"} /\ step' \in {"create", "write", "timer"}
      BY <1>1, <2>2 DEF Resolving, Create, Pop, Sent, WouldBlock, NotSent, ClientWaits, queryVars,
                        IInv, OneInPlace
    <3> QED BY <3>1 DEF Timeouts, Expired, If, Begun
  <2> QED BY <2>1, <2>2
<1>7. UNCHANGED Sockets
  <2>1. CASE Create
    <3>1. /\ step = "create" /\ step' = "write" /\ todo' = todo /\ todo # <<>>
          /\ registered' = registered \cup {Head(todo)}
      BY <2>1 DEF Create, IInv, OneInPlace
    <3>2. {Head(todo)} \cup Range(Tail(todo)) = Range(todo)
      BY <1>3, <3>1 DEF IInv, OneInPlace
    <3>3. registered' \cup Upcoming' = registered \cup Upcoming
      BY <3>1, <3>2 DEF Upcoming
    <3> QED BY <1>1, <3>3, Zenon DEF Sockets
  <2>2. CASE Pop \/ Sent \/ WouldBlock
    <3>1. UNCHANGED <<step, todo, registered>>
      BY <2>2 DEF Pop, Sent, WouldBlock, engineVars
    <3> QED BY <1>1, <3>1 DEF Sockets, Upcoming
  <2>3. CASE NotSent
    <3>1. UNCHANGED <<step, todo>> /\ registered' = registered \ {Head(hand)}
          /\ Head(hand) \in asking.fails
      BY <2>3 DEF NotSent, DoRemove
    <3>2. UNCHANGED Upcoming
      BY <3>1 DEF Upcoming
    <3>3. (registered' \cup Upcoming) \ asking.fails = (registered \cup Upcoming) \ asking.fails
      BY <3>1
    <3> QED BY <1>1, <3>2, <3>3 DEF Sockets
  <2>4. CASE ClientWaits
    <3>1. /\ step = "write" /\ todo' = Tail(todo) /\ todo # <<>> /\ UNCHANGED registered
          /\ step' = IF todo' = <<>> THEN "timer" ELSE "create"
      BY <2>4 DEF ClientWaits, engineVars, IInv, OneInPlace
    <3>2. UNCHANGED Upcoming
      BY <1>3, <3>1 DEF Upcoming
    <3> QED BY <1>1, <3>1, <3>2 DEF Sockets
  <2>5. CASE SetTimer
    <3>1. todo = <<>> /\ UNCHANGED <<todo, registered>>
      BY <2>5 DEF SetTimer, engineVars, IInv, OneInPlace
    <3>2. UNCHANGED Upcoming
      BY <3>1 DEF Upcoming
    <3> QED BY <1>1, <3>1, <3>2 DEF Sockets
  <2> QED BY <2>1, <2>2, <2>3, <2>4, <2>5 DEF Resolving
<1> QED BY <1>2, <1>4, <1>5, <1>6, <1>7
    DEF R!vars, R!askVars, R!timeoutVars

(* The network and the kernel's room change nothing the abstract lookup    *)
(* sees.                                                                   *)
LEMMA NetworkIsUnseen ==
  ASSUME Drain \/ (\E t \in Type : Answer(t)) \/ UNCHANGED vars
  PROVE  UNCHANGED R!vars
<1>1. UNCHANGED <<asking, step, todo, registered, trapped, pending, clients, timer, readers,
                  byName, again, telling, told>>
  BY DEF Drain, Answer, vars, resolveVars, engineVars, queryVars, clientVars
<1>2. UNCHANGED <<Asks, Requests, Received, Families, Telling, Results>>
  BY <1>1, SeenUnchanged DEF Begun
<1>3. UNCHANGED <<Queries, Timeouts, Expired, Sockets>>
  BY <1>1 DEF Queries, Timeouts, Expired, Sockets, Upcoming, Begun
<1> QED BY <1>1, <1>2, <1>3 DEF R!vars, R!askVars, R!timeoutVars

(* An answer is what the bytes of it are heard as.                         *)
LEMMA ReceiveIsReceive ==
  ASSUME QuestionAssumption, IInv, NEW t \in Type, Receive(t)
  PROVE  R!Receive(<<0, t>>)
<1> DEFINE busy == [reply |-> Head(inbox[t]), removed |-> FALSE]
           s == <<0, t>>
           a == Kind(Decoded[asking.name][t][Head(inbox[t])])
<1>1. /\ t \in registered /\ t \notin DOMAIN readers /\ inbox[t] # <<>>
      /\ readers' = Emplace(readers, t, busy)
      /\ UNCHANGED <<asking, step, todo, registered, trapped, pending, clients, timer, byName,
                     again, telling, told>>
  BY DEF Receive, resolveVars, engineVars, queryVars, clientVars
<1>2. s \in Sockets
  <2>1. t \notin asking.fails
    BY <1>1 DEF IInv, SocketsFollow
  <2> QED BY <1>1, <2>1 DEF Sockets
<1>3. s \notin DOMAIN Received
  BY <1>1 DEF Received
<1>4. Received' = R!Emplace(Received, s, [answer |-> a, removed |-> FALSE])
  <2>1. /\ DOMAIN readers' = DOMAIN readers \cup {t} /\ readers'[t] = busy
        /\ \A u \in DOMAIN readers : readers'[u] = readers[u]
    BY <1>1 DEF Emplace
  <2>2. Heard(t)' = Decoded[asking.name][t][Head(inbox[t])]
    BY <1>1, <2>1 DEF Heard
  <2>3. \A u \in DOMAIN readers : Heard(u)' = Heard(u)
    BY <1>1, <2>1 DEF Heard
  <2>4. DOMAIN Received' = DOMAIN Received \cup {s}
    BY <2>1 DEF Received
  <2>5. Received'[s] = [answer |-> a, removed |-> FALSE]
    <3>1. Received'[s] = [removed |-> readers'[t].removed, answer |-> Kind(Heard(t))']
      BY <2>1 DEF Received
    <3>2. Kind(Heard(t))' = a
      BY <1>1, <2>2 DEF Kind
    <3> QED BY <2>1, <3>1, <3>2
  <2>6. \A r \in DOMAIN Received : Received'[r] = Received[r]
    <3> TAKE r \in DOMAIN Received
    <3>1. PICK u \in DOMAIN readers : r = <<0, u>>
      BY DEF Received
    <3>2. Received[r] = [removed |-> readers[u].removed, answer |-> Kind(Heard(u))]
      BY <3>1 DEF Received
    <3>3. Received'[r] = [removed |-> readers'[u].removed, answer |-> Kind(Heard(u))']
      BY <2>1, <3>1 DEF Received
    <3>4. Kind(Heard(u))' = Kind(Heard(u))
      BY <1>1, <2>3 DEF Kind
    <3> QED BY <2>1, <3>2, <3>3, <3>4
  <2>7. Received' = [r \in DOMAIN Received' |-> Received'[r]]
    BY DEF Received
  <2> QED BY <1>3, <2>4, <2>5, <2>6, <2>7 DEF R!Emplace
<1>5. a \in R!Answer
  BY DEF Kind, R!Answer
<1>6. UNCHANGED <<Asks, Requests, Families, Telling, Results>>
  BY <1>1 DEF Asks, Requests, Families, Telling, Results, Outcome, Begun
<1>7. UNCHANGED <<Queries, Timeouts, Expired, Sockets, trapped>>
  BY <1>1 DEF Queries, Timeouts, Expired, Sockets, Upcoming, Begun
<1> QED BY <1>2, <1>3, <1>4, <1>5, <1>6, <1>7 DEF R!Receive, R!askVars, R!timeoutVars

(* UdpSocket::disconnect: once the answer is there, resolve has moved on.  *)
LEMMA DisconnectIsDisconnect ==
  ASSUME QuestionAssumption, IInv, ~trapped, NEW t \in Type, Disconnect(t)
  PROVE  R!Disconnect(<<0, t>>)
<1> DEFINE s == <<0, t>>
<1>1. /\ t \in DOMAIN readers /\ ~readers[t].removed /\ registered' = registered \ {t}
      /\ readers' = IF t \in registered THEN [readers EXCEPT ![t].removed = TRUE] ELSE readers
      /\ UNCHANGED <<asking, step, todo, pending, clients, timer, byName, again, telling, told>>
  BY DEF Disconnect, DoRemove, resolveVars, queryVars, clientVars
<1>2. trapped' = (t \notin registered)
  BY Zenon DEF Disconnect, DoRemove
<1>3. sent[t] = 1 /\ t \notin asking.fails
  BY <1>1 DEF IInv, SocketsFollow
<1>4. t \notin Upcoming
  <2>1. CASE todo = <<>>
    BY <2>1 DEF Upcoming, Range
  <2>2. CASE todo # <<>>
    <3>1. step \in {"create", "write"} /\ todo \in {<<"A">>, <<"AAAA", "A">>}
      BY <2>2 DEF IInv, OneInPlace
    <3>2. CASE step = "create"
      BY <1>3, <2>2, <3>1, <3>2 DEF IInv, SentAtMostOnce, Upcoming, Range
    <3>3. CASE step = "write"
      <4>1. Tail(<<"A">>) = <<>> /\ Tail(<<"AAAA", "A">>) = <<"A">>
        BY TodoLengths
      <4>2. Range(<<>>) = {} /\ Range(<<"A">>) = {"A"}
        BY DEF Range
      <4>3. Upcoming = Range(Tail(todo))
        BY <2>2, <3>3 DEF Upcoming
      <4>4. CASE todo = <<"A">>
        BY <4>1, <4>2, <4>3, <4>4
      <4>5. CASE todo = <<"AAAA", "A">>
        <5>1. Upcoming = {"A"}
          BY <4>1, <4>2, <4>3, <4>5, Zenon
        <5>2. 2 \in DOMAIN <<"AAAA", "A">> /\ <<"AAAA", "A">>[2] = "A"
          OBVIOUS
        <5>3. sent["A"] = 0
          BY <3>3, <4>5, <5>2 DEF IInv, SentAtMostOnce
        <5> QED BY <1>3, <5>1, <5>3
      <4> QED BY <3>1, <4>4, <4>5
    <3> QED BY <3>1, <3>2, <3>3
  <2> QED BY <2>1, <2>2
<1>5. s \in Sockets <=> t \in registered
  BY <1>3, <1>4 DEF Sockets
<1>6. Sockets' = Sockets \ {s}
  BY <1>1, <1>3, <1>4 DEF Sockets, Upcoming
<1>7. s \in DOMAIN Received /\ ~Received[s].removed
  BY <1>1 DEF Received
<1>8. UNCHANGED <<Asks, Requests, Families, Telling, Results>>
  BY <1>1 DEF Asks, Requests, Families, Telling, Results, Outcome, Begun
<1>9. UNCHANGED <<Queries, Timeouts, Expired>>
  BY <1>1 DEF Queries, Timeouts, Expired, Begun
<1>10. CASE t \in registered
  <2>1. readers' = [readers EXCEPT ![t].removed = TRUE]
    BY <1>1, <1>10
  <2>2. /\ DOMAIN readers' = DOMAIN readers
        /\ \A u \in DOMAIN readers : /\ readers'[u].reply = readers[u].reply
                                     /\ u # t => readers'[u] = readers[u]
        /\ readers'[t].removed = TRUE
    BY <1>1, <2>1 DEF IInv, SocketsFollow
  <2>3. \A u \in DOMAIN readers : Kind(Heard(u))' = Kind(Heard(u))
    BY <1>1, <2>2 DEF Heard, Kind
  <2>4. Received' = [Received EXCEPT ![s].removed = TRUE]
    <3>1. DOMAIN Received' = DOMAIN Received
      BY <2>2 DEF Received
    <3>2. \A r \in DOMAIN Received :
            /\ Received[r] = [removed |-> Received[r].removed, answer |-> Received[r].answer]
            /\ Received'[r] = [removed |-> Received'[r].removed, answer |-> Received[r].answer]
            /\ Received'[r].removed = IF r = s THEN TRUE ELSE Received[r].removed
      <4> TAKE r \in DOMAIN Received
      <4>1. PICK u \in DOMAIN readers : r = <<0, u>>
        BY DEF Received
      <4>2. Received[r] = [removed |-> readers[u].removed, answer |-> Kind(Heard(u))]
        BY <4>1 DEF Received
      <4>3. Received'[r] = [removed |-> readers'[u].removed, answer |-> Kind(Heard(u))']
        BY <2>2, <4>1 DEF Received
      <4>4. r = s <=> u = t
        BY <4>1
      <4>5. Received[r].removed = readers[u].removed /\ Received[r].answer = Kind(Heard(u))
        BY <4>2
      <4>6. Received'[r].removed = readers'[u].removed
        BY <4>3
      <4>7. CASE u = t
        BY <2>2, <2>3, <4>2, <4>3, <4>4, <4>5, <4>6, <4>7
      <4>8. CASE u # t
        BY <2>2, <2>3, <4>2, <4>3, <4>4, <4>5, <4>6, <4>8
      <4> QED BY <4>7, <4>8
    <3>3. Received' = [r \in DOMAIN Received' |-> Received'[r]]
      BY DEF Received
    <3>4. Received = [r \in DOMAIN Received |-> Received[r]]
      BY DEF Received
    <3> DEFINE new == [Received EXCEPT ![s].removed = TRUE]
    <3>5. DOMAIN new = DOMAIN Received /\ new = [r \in DOMAIN Received |-> new[r]]
      BY <3>4
    <3>6. \A r \in DOMAIN Received : new[r] = Received'[r]
      <4> TAKE r \in DOMAIN Received
      <4>1. CASE r = s
        <5>1. new[r] = [Received[r] EXCEPT !.removed = TRUE]
          BY <4>1
        <5> QED BY <3>2, <4>1, <5>1
      <4>2. CASE r # s
        <5>1. new[r] = Received[r]
          BY <4>2
        <5> QED BY <3>2, <4>2, <5>1
      <4> QED BY <4>1, <4>2
    <3> HIDE DEF new
    <3>7. Received' = new
      BY <3>1, <3>3, <3>5, <3>6
    <3> QED BY <3>7 DEF new
  <2>5. trapped' = trapped
    <3>1. trapped' = FALSE
      BY <1>2, <1>10, Zenon
    <3>2. trapped = FALSE
      BY Zenon DEF IInv, SocketsFollow
    <3> QED BY <3>1, <3>2
  <2> QED BY <1>5, <1>6, <1>7, <1>8, <1>9, <1>10, <2>4, <2>5, Zenon
      DEF R!Disconnect, R!askVars, R!timeoutVars
<1>11. CASE t \notin registered
  <2>1. UNCHANGED Received
    BY <1>1, <1>11 DEF Received, Heard, Kind
  <2>2. UNCHANGED Sockets
    BY <1>5, <1>6, <1>11
  <2>3. trapped' = TRUE
    BY <1>2, <1>11, Zenon
  <2> QED BY <1>5, <1>7, <1>8, <1>9, <1>11, <2>1, <2>2, <2>3, Zenon
      DEF R!Disconnect, R!askVars, R!timeoutVars
<1> QED BY <1>10, <1>11

(* Who is told one word more, Resolver sees hear it.                       *)
LEMMA ToldIsHeard ==
  ASSUME told \in [Client -> Seq(Word)], NEW c \in Client, NEW word \in Word,
         told' = [told EXCEPT ![c] = Append(@, word)]
  PROVE  Results' = [Results EXCEPT ![c] = Append(@, Outcome(word))]
<1>1. told[c] \in Seq(Word)
  OBVIOUS
<1>2. /\ told'[c] = Append(told[c], word)
      /\ \A d \in Client : d # c => told'[d] = told[d]
  OBVIOUS
<1> DEFINE old == [i \in DOMAIN told[c] |-> Outcome(told[c][i])]
           new == [i \in DOMAIN told'[c] |-> Outcome(told'[c][i])]
           n == Len(told[c])
           Outcomes == {Outcome(w) : w \in Word}
<1>3. /\ Results[c] = old /\ Results'[c] = new
      /\ \A d \in Client : d # c => Results'[d] = Results[d]
  BY <1>2 DEF Results, Outcome
<1>4. new = Append(old, Outcome(word))
  <2>1. n \in Nat /\ DOMAIN told[c] = 1 .. n
    BY <1>1
  <2>2. /\ DOMAIN told'[c] = 1 .. n + 1
        /\ told'[c][n + 1] = word
        /\ \A i \in 1 .. n : told'[c][i] = told[c][i]
    BY <1>1, <1>2
  <2>3. \A i \in 1 .. n : told[c][i] \in Word
    BY <1>1
  <2>4. /\ old \in Seq(Outcomes) /\ Len(old) = n
        /\ \A i \in 1 .. n : old[i] = Outcome(told[c][i])
    BY <2>1, <2>3
  <2>5. new = [i \in 1 .. n + 1 |-> IF i <= n THEN old[i] ELSE Outcome(word)]
    BY <2>1, <2>2, <2>4
  <2>6. Outcome(word) \in Outcomes
    OBVIOUS
  <2> HIDE DEF old, new, Outcomes, n
  <2> DEFINE app == Append(old, Outcome(word))
  <2>7. /\ app \in Seq(Outcomes) /\ Len(app) = n + 1 /\ app[n + 1] = Outcome(word)
        /\ \A i \in 1 .. n : app[i] = old[i]
    BY <2>1, <2>4, <2>6
  <2> HIDE DEF app
  <2>8. app = [i \in 1 .. n + 1 |-> app[i]]
    BY <2>7
  <2>9. \A i \in 1 .. n + 1 : app[i] = IF i <= n THEN old[i] ELSE Outcome(word)
    <3>1. \A i \in 1 .. n + 1 : (i \in 1 .. n /\ i <= n) \/ (i = n + 1 /\ ~(i <= n))
      BY <2>1
    <3> QED BY <2>7, <3>1
  <2>10. app = new
    BY <2>5, <2>8, <2>9
  <2> QED BY <2>10 DEF app
<1> HIDE DEF old, new
<1>5. Results = [d \in Client |-> Results[d]] /\ Results' = [d \in Client |-> Results'[d]]
  BY DEF Results
<1>6. \A d \in Client : Results'[d] = IF d = c THEN Append(Results[c], Outcome(word))
                                      ELSE Results[d]
  BY <1>3, <1>4
<1> QED BY <1>5, <1>6

(* The client hears.                                                       *)
LEMMA TellIsTell ==
  ASSUME QuestionAssumption, IInv, Tell
  PROVE  R!Tell
<1>1. PICK word \in telling :
        /\ telling' = telling \ {word}
        /\ told' = [told EXCEPT !["first"] = Append(@, word)]
        /\ UNCHANGED <<asking, step, todo, registered, trapped, pending, clients, timer, readers,
                       byName, again>>
  BY DEF Tell, resolveVars, engineVars, queryVars
<1> DEFINE seen(w) == [client |-> "first", resolved |-> w.found # <<>>, timeout |-> w.timeout]
<1>2. telling = {word}
  BY <1>1 DEF IInv, QueryEnds
<1>3. Telling = {seen(word)} /\ Telling' = {}
  BY <1>1, <1>2 DEF Telling
<1>4. Results' = R!Hears(Results, seen(word))
  <2>1. told \in [Client -> Seq(Word)] /\ word \in Word /\ "first" \in Client
    BY <1>1 DEF IInv, QueryEnds, Client
  <2>2. Results' = [Results EXCEPT !["first"] = Append(@, Outcome(word))]
    BY <1>1, <2>1, ToldIsHeard
  <2>3. /\ seen(word).client = "first"
        /\ [resolved |-> seen(word).resolved, timeout |-> seen(word).timeout] = Outcome(word)
    BY DEF Outcome
  <2> HIDE DEF seen
  <2> QED BY <2>2, <2>3, Zenon DEF R!Hears
<1> HIDE DEF seen
<1>5. UNCHANGED <<Asks, Requests, Families, Received>>
  BY <1>1 DEF Asks, Requests, Families, Received, Heard, Kind, Begun
<1>6. UNCHANGED <<Queries, Timeouts, Expired, Sockets, trapped>>
  BY <1>1 DEF Queries, Timeouts, Expired, Sockets, Upcoming, Begun
<1>7. Telling' = Telling \ {seen(word)} /\ seen(word) \in Telling
  BY <1>3
<1> QED BY <1>4, <1>5, <1>6, <1>7, Zenon DEF R!Tell, R!askVars, R!timeoutVars

(* The timer of Query expires: the abstract lookup's timeout does.         *)
LEMMA ExpireIsExpire ==
  ASSUME QuestionAssumption, IInv, Expire
  PROVE  R!Expire(0)
<1>1. /\ timer = "set" /\ timer' = "expired"
      /\ UNCHANGED <<asking, step, todo, registered, trapped, pending, clients, readers, byName,
                     again, telling, told>>
  BY DEF Expire, resolveVars, engineVars, clientVars
<1>2. step = "unlocked"
  BY <1>1 DEF IInv, QueryEnds
<1>3. Timeouts = {0} /\ Timeouts' = {} /\ Expired = {} /\ Expired' = {0}
  BY <1>1, <1>2 DEF Timeouts, Expired, If, Begun
<1>4. UNCHANGED <<Asks, Requests, Families, Received, Telling, Results>>
  BY <1>1, SeenUnchanged DEF Begun
<1>5. UNCHANGED <<Queries, Sockets, trapped>>
  BY <1>1 DEF Queries, Sockets, Upcoming
<1> QED BY <1>3, <1>4, <1>5 DEF R!Expire, R!askVars

(* The timeout ends the query, and removes the A question's socket.        *)
LEMMA TimeoutIsTimeout ==
  ASSUME QuestionAssumption, IInv, ~trapped, QueryTimedout
  PROVE  R!QueryTimedout(0)
<1> DEFINE late == [found |-> <<>>, timeout |-> TRUE]
           word == [client |-> "first", timeout |-> TRUE, resolved |-> FALSE]
           s == <<0, "A">>
           old == {k \in {0} : R!Alive(<<k, "A">>)} \X {"A"}
<1>1. /\ timer = "expired" /\ timer' = "off"
      /\ telling' = IF pending THEN telling \cup {late} ELSE telling
      /\ UNCHANGED <<asking, step, todo, clients, readers, byName, again, told>>
  BY DEF QueryTimedout, resolveVars
<1>2. pending' = FALSE /\ pending \in BOOLEAN /\ trapped = FALSE
  BY Zenon DEF QueryTimedout, IInv, QueryEnds, SocketsFollow
<1>3. step = "unlocked" /\ todo = <<>>
  BY <1>1 DEF IInv, QueryEnds, OneInPlace
<1>4. Upcoming = {} /\ Upcoming' = {}
  BY <1>1, <1>3 DEF Upcoming, Range
<1>5. registered \cap asking.fails = {}
  BY <1>3 DEF IInv, SocketsFollow
<1>6. Expired = {0} /\ Expired' = {} /\ Timeouts = {} /\ Timeouts' = {}
  BY <1>1, <1>3 DEF Expired, Timeouts, If, Begun
<1>7. DOMAIN Queries = (IF pending THEN {0} ELSE {}) /\ Queries' = [k \in {} |-> Queries[k]]
  BY <1>1, <1>2 DEF Queries, If
<1>8. UNCHANGED <<Asks, Requests, Families, Received, Results>>
  BY <1>1 DEF Asks, Requests, Families, Received, Results, Heard, Kind, Begun, Outcome
<1>9. s \in Sockets <=> "A" \in registered
  BY <1>4, <1>5 DEF Sockets
<1>10. s \in DOMAIN Received <=> "A" \in DOMAIN readers
  BY DEF Received
<1>11. CASE pending
  <2>1. 0 \in DOMAIN Queries /\ Queries[0].client = "first" /\ DOMAIN Queries \ {0} = {}
    BY <1>7, <1>11 DEF Queries, If
  <2>2. Queries' = R!Restrict(Queries, DOMAIN Queries \ {0})
    BY <1>7, <2>1 DEF R!Restrict
  <2>3. Telling' = Telling \cup {word}
    <3> DEFINE seen(w) == [client |-> "first", resolved |-> w.found # <<>>, timeout |-> w.timeout]
    <3>1. Telling = {seen(w) : w \in telling} /\ Telling' = {seen(w) : w \in telling'}
      BY DEF Telling
    <3>2. seen(late) = word
      <4>1. late.found = <<>> /\ late.timeout = TRUE
        BY Zenon
      <4>2. (late.found # <<>>) = FALSE
        BY <4>1, Zenon
      <4> QED BY <4>1, <4>2, Zenon
    <3> HIDE DEF seen
    <3>3. telling' = telling \cup {late}
      BY <1>1, <1>11
    <3> HIDE DEF late, word
    <3> QED BY <3>1, <3>2, <3>3
  <2>4. Sockets' = Sockets \ old /\ trapped' = ~(old \subseteq Sockets)
    <3>1. CASE "A" \in registered \cup DOMAIN readers
      <4>1. registered' = registered \ {"A"}
        BY <1>11, <3>1 DEF QueryTimedout, DoRemove
      <4>2. trapped' = ("A" \notin registered)
        BY <1>11, <3>1, Zenon DEF QueryTimedout, DoRemove
      <4>3. R!Alive(s)
        BY <1>9, <1>10, <3>1 DEF R!Alive
      <4>4. old = {s}
        BY <4>3
      <4>5. Sockets' = Sockets \ {s}
        BY <1>1, <1>4, <1>5, <4>1 DEF Sockets
      <4>6. ~(old \subseteq Sockets) <=> "A" \notin registered
        BY <1>9, <4>4
      <4>7. trapped' = ~(old \subseteq Sockets)
        BY <4>2, <4>6, Zenon
      <4> QED BY <4>4, <4>5, <4>7
    <3>2. CASE "A" \notin registered \cup DOMAIN readers
      <4>1. UNCHANGED registered
        BY <1>11, <3>2 DEF QueryTimedout
      <4>2. trapped' = FALSE
        BY <1>2, <1>11, <3>2, Zenon DEF QueryTimedout
      <4>3. ~R!Alive(s)
        BY <1>9, <1>10, <3>2 DEF R!Alive
      <4>4. old = {}
        BY <4>3
      <4>5. Sockets' = Sockets
        BY <1>1, <1>4, <4>1 DEF Sockets
      <4>6. trapped' = ~(old \subseteq Sockets)
        BY <4>2, <4>4, Zenon
      <4> QED BY <4>4, <4>5, <4>6
    <3> QED BY <3>1, <3>2
  <2> HIDE DEF old
  <2>5. R!Sweep({0}, 0)
    BY <2>1, <2>2, <2>3, <2>4, Zenon DEF R!Sweep, old
  <2>6. \E rest \in SUBSET (DOMAIN Queries \ {0}) :
          \E last \in IF rest = {} THEN {0} ELSE rest : R!Sweep(rest \cup {0}, last)
    <3>1. {} \cup {0} = {0} /\ {} \in SUBSET (DOMAIN Queries \ {0})
      OBVIOUS
    <3>2. 0 \in IF {} = {} THEN {0} ELSE {}
      OBVIOUS
    <3> QED BY <2>5, <3>1, <3>2, Zenon
  <2> QED BY <1>6, <1>8, <2>1, <2>6, Zenon DEF R!QueryTimedout, R!askVars
<1>12. CASE ~pending
  <2>1. 0 \notin DOMAIN Queries /\ Queries' = Queries
    BY <1>1, <1>2, <1>7, <1>12 DEF Queries, If
  <2>2. UNCHANGED registered
    BY <1>12 DEF QueryTimedout
  <2>3. trapped' = trapped
    BY <1>12, Zenon DEF QueryTimedout
  <2>4. UNCHANGED Sockets
    BY <1>1, <1>4, <2>2 DEF Sockets
  <2>5. UNCHANGED Telling
    BY <1>1, <1>12 DEF Telling
  <2> QED BY <1>6, <1>8, <2>1, <2>3, <2>4, <2>5, Zenon DEF R!QueryTimedout, R!askVars
<1> QED BY <1>11, <1>12

(* OneNameIsKnown after a step.                                            *)
LEMMA OneNameIsKnownNext ==
  (QuestionAssumption /\ LookupIsAsked /\ Knows(byName))'
    => (Families = [name \in Asked |->
                      IF name = asking.name THEN FamiliesIn(byName) ELSE {}])'
<1>1. QuestionAssumption /\ LookupIsAsked /\ Knows(byName)
        => Families = [name \in Asked |->
                         IF name = asking.name THEN FamiliesIn(byName) ELSE {}]
  BY OneNameIsKnown
<1> QED BY <1>1, PTL

(* The second client finds the name known.                                 *)
LEMMA AgainIsResolve ==
  ASSUME QuestionAssumption, IInv, ResolveAgain
  PROVE  R!Resolve("again")
<1> DEFINE name == asking.name
           dotted == Dotted[name]
           got(prefs) == Get(byName[dotted], prefs)
           word(prefs) == [found |-> got(prefs).found, timeout |-> FALSE]
<1>1. PICK prefs \in Prefs :
        /\ again' = prefs /\ dotted \in DOMAIN byName /\ again = ""
        /\ byName' = Emplace(byName, dotted, got(prefs).names)
        /\ told' = [told EXCEPT !["again"] = Append(@, word(prefs))]
        /\ UNCHANGED <<asking, step, todo, telling, pending, clients, timer, registered, trapped,
                       readers>>
  BY Zenon DEF ResolveAgain, queryVars, resolveVars, engineVars
<1>2. /\ Knows(byName) /\ name \in Asked /\ told \in [Client -> Seq(Word)]
      /\ \A p \in Prefs : p # ""
  BY DEF IInv, NameIsKnown, LookupIsAsked, QueryEnds, QuestionAssumption
<1>3. /\ Knows(byName') /\ FamiliesIn(byName') = FamiliesIn(byName)
      /\ got(prefs).found \in Seq(Seq(0 .. 255))
      /\ got(prefs).found # <<>> <=> FamiliesIn(byName) \cap R!Types(prefs) # {}
      /\ FamiliesIn(byName) # {}
  <2>1. LookupIsAsked
    BY DEF IInv
  <2> QED BY <1>1, <1>2, <2>1, GetIsFound
<1> HIDE DEF got
<1>4. UNCHANGED Families /\ Families[name] = FamiliesIn(byName)
  <2>1. LookupIsAsked /\ LookupIsAsked'
    BY <1>1 DEF IInv, LookupIsAsked
  <2>2. Families = [n \in Asked |-> IF n = name THEN FamiliesIn(byName) ELSE {}]
    BY <1>2, <2>1, OneNameIsKnown
  <2>3. Knows(byName)' /\ FamiliesIn(byName)' = FamiliesIn(byName')
    BY <1>1, <1>3 DEF Knows, FamiliesIn
  <2>4. Families' = [n \in Asked |-> IF n = asking'.name THEN FamiliesIn(byName') ELSE {}]
    BY <2>1, <2>3, OneNameIsKnownNext
  <2> QED BY <1>1, <1>2, <1>3, <2>2, <2>4
<1>5. Asks["again"] = {} /\ Asks' = [Asks EXCEPT !["again"] = {[name |-> name, prefs |-> prefs]}]
  BY <1>1, <1>2 DEF Asks, Client, If, Begun
<1> DEFINE heard == [client |-> "again", timeout |-> FALSE,
                     resolved |-> R!Found(Families, name, prefs)]
<1>6. Results' = R!Hears(Results, heard)
  <2>1. word(prefs) \in Word /\ "again" \in Client
    BY <1>3 DEF Word, Client
  <2>2. Results' = [Results EXCEPT !["again"] = Append(@, Outcome(word(prefs)))]
    BY <1>1, <1>2, <2>1, ToldIsHeard
  <2>3. R!Found(Families, name, prefs) = (got(prefs).found # <<>>)
    <3>1. R!Found(Families, name, prefs) <=> got(prefs).found # <<>>
      BY <1>3, <1>4 DEF R!Found
    <3> QED BY <3>1, Zenon DEF R!Found
  <2>4. [resolved |-> heard.resolved, timeout |-> heard.timeout] = Outcome(word(prefs))
    <3>1. heard.resolved = (word(prefs).found # <<>>) /\ heard.timeout = word(prefs).timeout
      BY <2>3, Zenon
    <3> QED BY <3>1, Zenon DEF Outcome
  <2>5. heard.client = "again"
    OBVIOUS
  <2> HIDE DEF heard, word
  <2> QED BY <2>2, <2>4, <2>5, Zenon DEF R!Hears
<1>7. UNCHANGED <<Requests, Received, Telling>>
  BY <1>1 DEF Requests, Received, Telling, Heard, Kind, Begun
<1>8. UNCHANGED <<Queries, Timeouts, Expired, Sockets, trapped>>
  BY <1>1 DEF Queries, Timeouts, Expired, Sockets, Upcoming, Begun
<1>9. R!ResolveKnown("again", name, prefs)
  <2> HIDE DEF heard
  <2>1. Families[name] # {}
    BY <1>3, <1>4
  <2> QED BY <1>6, <1>7, <1>8, <2>1, Zenon DEF R!ResolveKnown, R!timeoutVars, heard
<1> QED BY <1>2, <1>4, <1>5, <1>7, <1>8, <1>9, Zenon DEF R!Resolve

(* The worker is done with an answer; Resolver sees the others as before.  *)
LEMMA AnswerIsDropped ==
  ASSUME IInv, NEW t \in Type, t \in DOMAIN readers, UNCHANGED asking,
         readers' = Restrict(readers, DOMAIN readers \ {t})
  PROVE  Received' = R!Restrict(Received, DOMAIN Received \ {<<0, t>>})
<1> DEFINE s == <<0, t>>
<1>1. /\ DOMAIN readers' = DOMAIN readers \ {t}
      /\ \A u \in DOMAIN readers' : readers'[u] = readers[u]
  BY DEF Restrict
<1>2. \A u \in DOMAIN readers' : Kind(Heard(u))' = Kind(Heard(u))
  BY <1>1 DEF Kind, Heard
<1>3. DOMAIN Received' = DOMAIN Received \ {s}
  BY <1>1 DEF Received
<1>4. \A r \in DOMAIN Received' : Received'[r] = Received[r]
  <2> TAKE r \in DOMAIN Received'
  <2>1. PICK u \in DOMAIN readers' : r = <<0, u>>
    BY DEF Received
  <2>2. Received'[r] = [removed |-> readers'[u].removed, answer |-> Kind(Heard(u))']
    BY <2>1 DEF Received
  <2>3. Received[r] = [removed |-> readers[u].removed, answer |-> Kind(Heard(u))]
    BY <1>1, <2>1 DEF Received
  <2> QED BY <1>1, <1>2, <2>2, <2>3
<1>5. Received' = [r \in DOMAIN Received' |-> Received'[r]]
  BY DEF Received
<1>6. Received' = [r \in DOMAIN Received \ {s} |-> Received[r]]
  BY <1>3, <1>4, <1>5
<1> QED BY <1>6 DEF R!Restrict

(* requestComplete, for each of the answers and for one that comes late.   *)
LEMMA CompleteIsComplete ==
  ASSUME QuestionAssumption, IInv, NEW t \in Type, RequestComplete(t)
  PROVE  R!RequestComplete(<<0, t>>)
<1> DEFINE s == <<0, t>>
           name == asking.name
           dotted == Dotted[name]
           ans == Heard(t)
           answer == Kind(ans)
           names == Put(ans)
           known == ans.name \in DOMAIN names
           got == IF known THEN Get(names[ans.name], asking.prefs) ELSE [found |-> <<>>]
           word == [found |-> got.found, timeout |-> FALSE]
<1>1. /\ UNCHANGED <<asking, step, todo, registered, trapped, again, told>>
      /\ step \in {"idle", "unlocked"}
      /\ t \in DOMAIN readers /\ readers[t].removed /\ readers[t].reply \in Reply
      /\ readers' = Restrict(readers, DOMAIN readers \ {t})
  BY DEF RequestComplete, CanComplete, LockFree, resolveVars, engineVars, IInv, SocketsFollow
<1>2. LookupIsAsked /\ name \in Asked /\ asking.prefs \in Prefs /\ Knows(byName)
      /\ pending \in BOOLEAN /\ (step = "idle" => ~pending)
  BY DEF IInv, LookupIsAsked, NameIsKnown, QueryEnds, PendingHasClient
<1>3. s \in DOMAIN Received /\ Received[s] = [removed |-> readers[t].removed, answer |-> answer]
  BY <1>1 DEF Received
<1>4. Received' = R!Restrict(Received, DOMAIN Received \ {s})
  BY <1>1, AnswerIsDropped
<1>5. UNCHANGED <<Asks, Requests, Results>>
  BY <1>1 DEF Asks, Requests, Results, Outcome, Begun
<1>6. UNCHANGED <<Sockets, trapped>>
  BY <1>1 DEF Sockets, Upcoming
<1>7. /\ Knows(names) /\ (known => ans.name = dotted)
      /\ ans.addr = <<>> => names = byName
      /\ ans.addr # <<>> => /\ ans.name = dotted /\ known
                            /\ FamiliesIn(names) = FamiliesIn(byName) \cup {t}
  BY <1>1, <1>2, PutAdds
<1>8. /\ answer = "addresses" <=> ans.addr # <<>>
      /\ answer = "nameless" <=> ans.name # dotted
  BY <1>7 DEF Kind
<1>9. known => /\ Knows(Emplace(names, ans.name, got.names))
               /\ FamiliesIn(Emplace(names, ans.name, got.names)) = FamiliesIn(names)
               /\ got.found # <<>> <=> FamiliesIn(names) \cap R!Types(asking.prefs) # {}
  BY <1>2, <1>7, GetIsFound, ZenonT(60)
<1>10. s[1] = 0 /\ s[2] = t
  OBVIOUS
<1>11. /\ R!Complete(0, answer) /\ 0 \in DOMAIN Queries
       /\ Families' = IF answer = "addresses"
                      THEN [Families EXCEPT ![Queries[0].name] = @ \cup {t}] ELSE Families
       /\ UNCHANGED Expired
       => R!RequestComplete(s)
  <2> HIDE DEF answer, s
  <2> QED BY <1>1, <1>3, <1>4, <1>5, <1>6, <1>10 DEF R!RequestComplete, R!askVars
<1>12. CASE ~pending
  <2>1. UNCHANGED <<byName, pending, clients, timer, telling>>
    BY <1>12 DEF RequestComplete, queryVars
  <2>2. 0 \notin DOMAIN Queries
    BY <1>12 DEF Queries, If
  <2>3. UNCHANGED <<Families, Telling>>
    BY <1>1, <2>1 DEF Families, Telling
  <2>4. UNCHANGED <<Queries, Timeouts, Expired>>
    BY <1>1, <2>1 DEF Queries, Timeouts, Expired, Begun
  <2>5. s \in DOMAIN Received /\ Received[s].removed
    <3> HIDE DEF answer, s
    <3> QED BY <1>1, <1>3
  <2>6. s[1] \notin DOMAIN Queries
    BY <1>10, <2>2
  <2>7. UNCHANGED <<Families, Queries, Timeouts, Telling>>
    BY <2>3, <2>4
  <2>8. UNCHANGED <<R!askVars, Expired, Sockets, Results, trapped>>
    BY <1>5, <1>6, <2>4 DEF R!askVars
  <2> HIDE DEF answer, s
  <2>9. R!RequestComplete(s)
    BY <1>4, <2>5, <2>6, <2>7, <2>8 DEF R!RequestComplete
  <2> QED BY <2>9 DEF s
<1>13. CASE pending
  <2>1. /\ clients' = clients - 1
        /\ IF clients > 1
           THEN byName' = names /\ UNCHANGED <<pending, timer, telling>>
           ELSE /\ pending' = FALSE
                /\ timer' = IF timer = "set" THEN "off" ELSE timer
                /\ telling' = telling \cup {word}
                /\ byName' = IF known THEN Emplace(names, ans.name, got.names) ELSE names
    BY <1>13, Zenon DEF RequestComplete
  <2>2. step = "unlocked" /\ clients \in Nat /\ clients > 0 /\ todo = <<>>
    BY <1>1, <1>2, <1>13 DEF IInv, PendingHasClient, OneInPlace
  <2> DEFINE query == [name |-> name, prefs |-> asking.prefs, client |-> "first",
                       waiting |-> clients]
  <2>3. Queries = [k \in {0} |-> query] /\ 0 \in DOMAIN Queries /\ Queries[0] = query
    <3>1. clients + Len(todo) = clients
      <4>1. Len(todo) = 0
        BY <2>2, TodoLengths
      <4> QED BY <2>2, <4>1
    <3> QED BY <1>13, <3>1, Zenon DEF Queries, If
  <2>4. Knows(byName') /\ FamiliesIn(byName') = FamiliesIn(names)
    <3> HIDE DEF names, ans, got, known, word
    <3> QED BY <1>7, <1>9, <2>1
  <2>5. Families = [n \in Asked |-> IF n = name THEN FamiliesIn(byName) ELSE {}]
    BY <1>2, OneNameIsKnown
  <2>6. Families' = [n \in Asked |-> IF n = name THEN FamiliesIn(names) ELSE {}]
    <3>1. LookupIsAsked' /\ Knows(byName)' /\ FamiliesIn(byName)' = FamiliesIn(byName')
      BY <1>1, <1>2, <2>4 DEF LookupIsAsked, Knows, FamiliesIn
    <3> HIDE DEF names
    <3>2. Families' = [n \in Asked |-> IF n = asking'.name THEN FamiliesIn(byName)' ELSE {}]
      BY <3>1, OneNameIsKnownNext
    <3> QED BY <1>1, <2>4, <3>1, <3>2
  <2>7. Families' = IF answer = "addresses"
                    THEN [Families EXCEPT ![Queries[0].name] = @ \cup {t}] ELSE Families
    <3>1. Queries[0].name = name
      BY <2>3
    <3> HIDE DEF names, ans, answer, known, query
    <3> QED BY <1>2, <1>7, <1>8, <2>5, <2>6, <3>1
  <2>8. timer' = IF clients > 1 THEN timer ELSE IF timer = "set" THEN "off" ELSE timer
    BY <2>1
  <2>9. UNCHANGED Expired
    BY <2>8 DEF Expired, If
  <2>10. R!Complete(0, answer)
    <3>1. Queries[0].waiting = clients /\ Queries[0].client = "first"
          /\ Queries[0].name = name /\ Queries[0].prefs = asking.prefs
      BY <2>3
    <3>2. CASE clients > 1
      <4>1. clients' + Len(todo') = clients - 1
        <5>1. Len(todo') = 0 /\ clients' = clients - 1 /\ clients - 1 \in Nat
          BY <1>1, <2>1, <2>2, TodoLengths
        <5> QED BY <5>1
      <4>2. Queries' = [k \in {0} |-> [name |-> name, prefs |-> asking.prefs,
                                       client |-> "first", waiting |-> clients - 1]]
        BY <1>1, <1>13, <2>1, <3>2, <4>1, Zenon DEF Queries, If
      <4>3. Queries' = [Queries EXCEPT ![0].waiting = @ - 1]
        BY <2>3, <4>2
      <4>4. UNCHANGED <<Timeouts, Telling>>
        BY <1>1, <2>1, <3>2 DEF Timeouts, Telling, Begun
      <4> QED BY <3>1, <3>2, <4>3, <4>4 DEF R!Complete
    <3>3. CASE ~(clients > 1)
      <4>1. Timeouts' = Timeouts \ {0}
        <5>1. /\ Timeouts = IF timer = "set" THEN {0} ELSE {}
              /\ Timeouts' = IF timer' = "set" THEN {0} ELSE {}
          BY <1>1, <2>2 DEF Timeouts, If, Begun
        <5> QED BY <2>8, <3>3, <5>1
      <4>2. pending' = FALSE
        BY <2>1, <3>3
      <4>3. Queries' = R!Restrict(Queries, DOMAIN Queries \ {0})
        <5>1. DOMAIN Queries \ {0} = {} /\ DOMAIN Queries' = {} /\ Queries' = [k \in {} |-> Queries[k]]
          BY <2>3, <4>2 DEF Queries, If
        <5> QED BY <5>1 DEF R!Restrict
      <4> DEFINE heard == [client |-> "first", timeout |-> FALSE,
                           resolved |-> R!FoundByAnswer(Queries[0], answer)]
      <4>4. R!FoundByAnswer(Queries[0], answer) <=> got.found # <<>>
        <5>1. R!FoundByAnswer(Queries[0], answer)
                <=> ans.name = dotted /\ FamiliesIn(names) \cap R!Types(asking.prefs) # {}
          <6>1. Families'[name] = FamiliesIn(names)
            BY <1>2, <2>6
          <6> HIDE DEF names, answer, ans
          <6> QED BY <1>8, <3>1, <6>1 DEF R!FoundByAnswer, R!Found
        <5>2. CASE known
          <6> HIDE DEF names, ans, got
          <6> QED BY <1>7, <1>9, <5>1, <5>2
        <5>3. CASE ~known
          <6>1. got.found = <<>>
            BY <5>3
          <6>2. ans.name = dotted => FamiliesIn(names) = {}
            BY <5>3 DEF FamiliesIn
          <6> HIDE DEF names, ans, got
          <6> QED BY <5>1, <6>1, <6>2
        <5> QED BY <5>2, <5>3
      <4>5. heard = [client |-> "first", resolved |-> word.found # <<>>, timeout |-> word.timeout]
        <5>1. R!FoundByAnswer(Queries[0], answer) = (got.found # <<>>)
          BY <4>4, Zenon DEF R!FoundByAnswer
        <5>2. word.found = got.found /\ word.timeout = FALSE
          BY Zenon
        <5> HIDE DEF word, got, answer
        <5> QED BY <5>1, <5>2, Zenon
      <4>6. Telling' = Telling \cup {heard}
        <5> DEFINE seen(w) == [client |-> "first", resolved |-> w.found # <<>>,
                               timeout |-> w.timeout]
        <5>1. Telling = {seen(w) : w \in telling} /\ Telling' = {seen(w) : w \in telling'}
          BY DEF Telling
        <5>2. telling' = telling \cup {word}
          BY <2>1, <3>3
        <5>3. heard = seen(word)
          BY <4>5
        <5> HIDE DEF seen, word, heard
        <5> QED BY <5>1, <5>2, <5>3
      <4> HIDE DEF answer
      <4> QED BY <3>1, <3>3, <4>1, <4>3, <4>6, Zenon DEF R!Complete
    <3> QED BY <3>2, <3>3
  <2> HIDE DEF answer
  <2> QED BY <1>11, <2>3, <2>7, <2>9, <2>10
<1> QED BY <1>2, <1>12, <1>13

(* Init maps to the abstract lookup's Init.                                *)
LEMMA InitIsInit ==
  ASSUME QuestionAssumption, Init
  PROVE  R!Init
<1>1. /\ step = "idle" /\ todo = <<>> /\ registered = {} /\ clients = 0 /\ timer = "unset"
      /\ readers = <<>> /\ byName = <<>> /\ again = "" /\ telling = {} /\ asking.name \in Asked
      /\ told = [c \in Client |-> <<>>]
  BY DEF Init
<1>2. pending = FALSE /\ trapped = FALSE
  BY Zenon DEF Init
<1>3. DOMAIN <<>> = {} /\ Range(<<>>) = {}
  BY DEF Range
<1>4. Asks = [c \in Client |-> {}] /\ Requests = 0
  BY <1>1 DEF Asks, If, Begun, Requests
<1>5. Queries = <<>>
  <2>1. DOMAIN Queries = {} /\ Queries = [k \in DOMAIN Queries |-> Queries[k]]
    BY <1>2 DEF Queries, If
  <2> QED BY <2>1
<1>6. Timeouts = {} /\ Expired = {}
  BY <1>1 DEF Timeouts, Expired, If, Begun
<1>7. Sockets = {}
  BY <1>1, <1>3 DEF Sockets, Upcoming
<1>8. Received = <<>>
  <2>1. DOMAIN Received = {} /\ Received = [k \in DOMAIN Received |-> Received[k]]
    BY <1>1, <1>3 DEF Received
  <2> QED BY <2>1
<1>9. Families = [n \in Asked |-> {}] /\ Telling = {}
  BY <1>1, <1>3 DEF Families, Telling
<1>10. Results = [c \in Client |-> <<>>]
  <2>1. \A c \in Client : DOMAIN told[c] = {}
    BY <1>1, <1>3
  <2>2. \A c \in Client : Results[c] = [i \in {} |-> Outcome(told[c][i])]
    BY <2>1 DEF Results
  <2>3. \A c \in Client : Results[c] = <<>>
    BY <2>2
  <2> QED BY <2>3 DEF Results
<1> QED BY <1>2, <1>4, <1>5, <1>6, <1>7, <1>8, <1>9, <1>10, Zenon DEF R!Init

(* Every step maps to an abstract step or to none.                         *)
LEMMA StepIsStep ==
  QuestionAssumption /\ IInv /\ [Next]_vars => [R!Next]_(R!vars)
<1> SUFFICES ASSUME QuestionAssumption, IInv, [Next]_vars
             PROVE  [R!Next]_(R!vars)
  OBVIOUS
<1>1. \A t \in Type : <<0, t>> \in R!Socket
  BY ResolverTypes DEF R!Socket
<1>2. 0 \in R!Request /\ "first" \in Client /\ "again" \in Client
  BY ResolverTypes DEF Client
<1>3. CASE ~trapped /\ Resolving
  <2>1. CASE Resolve
    BY <1>2, <1>3, <2>1, ResolveIsResolve DEF R!Next
  <2>2. CASE ~Resolve
    BY <1>3, <2>2, SendingIsUnseen
  <2> QED BY <2>1, <2>2
<1>4. CASE ~trapped /\ ResolveAgain
  BY <1>2, <1>4, AgainIsResolve DEF R!Next
<1>5. CASE Drain \/ (\E t \in Type : Answer(t)) \/ UNCHANGED vars
  BY <1>5, NetworkIsUnseen
<1>6. CASE ~trapped /\ \E t \in Type : Receive(t)
  BY <1>1, <1>6, ReceiveIsReceive DEF R!Next
<1>7. CASE ~trapped /\ \E t \in Type : Disconnect(t) \/ RequestComplete(t)
  BY <1>1, <1>7, DisconnectIsDisconnect, CompleteIsComplete DEF R!Next, R!Worker
<1>8. CASE ~trapped /\ Tell
  BY <1>8, TellIsTell DEF R!Next, R!Worker
<1>9. CASE ~trapped /\ Expire
  BY <1>2, <1>9, ExpireIsExpire DEF R!Next
<1>10. CASE ~trapped /\ QueryTimedout
  BY <1>2, <1>10, TimeoutIsTimeout DEF R!Next
<1> QED BY <1>3, <1>4, <1>5, <1>6, <1>7, <1>8, <1>9, <1>10 DEF Next

(* However its steps, the other workers', the network's and the second     *)
(* client's interleave, and whatever of the datagrams arrives, the lookup  *)
(* does what Resolver says of one: to the others ResolverImpl::resolve is  *)
(* one step, as ResolverImpl::lock is meant to make it                     *)
(* (resolverimpl.cpp:80-130).                                              *)
THEOREM LookupIsOneStep == Spec => ImplementsResolver
<1>1. Init => R!Init
  BY InitIsInit, QuestionAssumption
<1>2. IInv /\ [Next]_vars => [R!Next]_(R!vars)
  BY StepIsStep, QuestionAssumption
<1> QED BY <1>1, <1>2, Invariance, PTL DEF Spec, R!Spec, ImplementsResolver

(* The name and the first address of each answer are heard, in every       *)
(* state, for every name that may be asked for (query.cpp:273-361).        *)
THEOREM AnswersAreHeard == Spec => []HeardAsAnswered
<1>1. ASSUME IInv
      PROVE  HeardAsAnswered
  <2>1. asking.name \in Asked /\ \A t \in DOMAIN readers : t \in Type /\ readers[t].reply \in Reply
    BY <1>1 DEF IInv, LookupIsAsked, SocketsFollow
  <2> SUFFICES ASSUME NEW t \in DOMAIN readers
               PROVE  LET reply == readers[t].reply
                          i == SelectInSeq(reply[2], LAMBDA kind : kind = "address")
                          ans == Heard(t)
                      IN  /\ ans.name = IF reply[1] = "error" THEN <<>> ELSE Dotted[asking.name]
                          /\ ans.addr = IF i = 0 THEN <<>> ELSE <<Address(t, i)>>
    BY DEF HeardAsAnswered
  <2> QED BY <2>1, AnswerIsHeard, QuestionAssumption DEF Heard
<1> QED BY <1>1, Invariance, PTL

(* Every question sent about a name of two labels or more is the datagram  *)
(* a nameserver takes for that name and type, whatever the labels are      *)
(* (query.cpp:198-236).                                                    *)
THEOREM QuestionsAreUnderstood == Spec => []UnderstoodAsAsked
<1>1. ASSUME IInv
      PROVE  UnderstoodAsAsked
  <2>1. asking.name \in Asked
    BY <1>1 DEF IInv, LookupIsAsked
  <2> SUFFICES ASSUME NEW t \in Type, Len(asking.name) > 1
               PROVE  asking.name \in Understood[t]
    BY DEF UnderstoodAsAsked
  <2> QED BY <2>1, NameIsUnderstood, QuestionAssumption
<1>2. IInv => UnderstoodAsAsked
  BY <1>1
<1> QED BY <1>2, Invariance, PTL
=============================================================================
