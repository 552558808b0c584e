------------------------------ MODULE Question ------------------------------
(***************************************************************************)
(* One lookup in the steps its code takes: ResolverImpl::resolve with      *)
(* ResolverImpl::lock held while UdpSocket sends the questions, a worker   *)
(* for each answer, the timeout, and a client that asks for the same name  *)
(* again.  Resolver has all of resolve in one step and knows only what an  *)
(* answer turns out to be; here the bytes are those of Query.              *)
(*                                                                         *)
(* A socket's datagram is named by the record type it asks for.  The       *)
(* nameserver answers what RFC 1035 lets it understand and nothing else;   *)
(* datagrams are lost and duplicated.                                      *)
(***************************************************************************)
EXTENDS Naturals, Sequences, SequencesExt, FiniteSets, Functions

CONSTANTS
  Asked,          \* the names a lookup may be for, split at the dots into labels
  Prefs,          \* the preferences in use, as in Resolver
  FirstRequest    \* ResolverImpl::request as the lookup begins

Q == INSTANCE Query

(* What lies between two dots: no dot, and in text no zero byte.           *)
Letter == (1 .. 255) \ {Q!Dot}

ASSUME QuestionAssumption ==
  /\ Asked \subseteq Seq(Seq(Letter))
  /\ \A name \in Asked : name # <<>> /\ \A i \in DOMAIN name : Len(name[i]) \in 1 .. 63
  /\ Prefs \subseteq {"any", "v4"}
  /\ FirstRequest \in 0 .. 2 ^ 16 - 1

VARIABLES
  asking,      \* the lookup: name, prefs, and which of its sends will fail
  step,        \* where resolve is; it holds the lock unless idle or unlocked
  todo,        \* the record types it has yet to ask for
  writeQueue,  \* writeQueue of the socket it writes to
  hand,        \* the datagram handleWrite has taken from it
  room,        \* whether the kernel takes a datagram
  registered,  \* the sockets in eventHash
  pending,     \* whether resQueries has the query
  clients,     \* the length of its clients
  timer,       \* its timeout: "unset", "set", "expired" (in eventQueue), "off"
  sent,        \* sent[t]: how often t's datagram went out
  inbox,       \* inbox[t]: the answers that wait in t's socket
  readers,     \* the answer each UdpResolver::received is busy with
  byName,      \* the addresses of each name, and Names::lastAccessIndex
  again,       \* the preference of the second client once it asked, or ""
  telling,     \* what the first client is to be told with the lock released
  told,        \* told[c]: what c was told
  trapped      \* whether Engine::doRemove's assertion failed

resolveVars == <<step, todo, writeQueue, hand>>
engineVars == <<registered, trapped>>
queryVars == <<pending, clients, timer>>
netVars == <<room, sent, inbox>>
clientVars == <<again, telling, told>>
vars ==
  <<asking, resolveVars, engineVars, queryVars, netVars, readers, byName, clientVars>>

Type == {"AAAA", "A"}
Client == {"first", "again"}

(* AAAA before A, and A only for Ipv4Only.                                 *)
TypesInOrder(prefs) == IF prefs = "any" THEN <<"AAAA", "A">> ELSE <<"A">>

(* A name as the program has it: a string with dots.                       *)
Dotted ==
  [name \in Asked |-> Tail(FlattenSeq([i \in DOMAIN name |-> <<Q!Dot>> \o name[i]]))]

(* UdpResolver::connected: what it has Query::resolve make.                *)
Datagram(name, t) == Q!Resolve(FirstRequest, Dotted[name], t)

LockFree == step \in {"idle", "unlocked"}

(* As in Resolver: readers and byName get an entry, or a new one.          *)
Emplace(f, key, value) ==
  [k \in DOMAIN f \cup {key} |-> IF k = key THEN value ELSE f[k]]

Init ==
  /\ asking \in [name : Asked, prefs : Prefs, fails : SUBSET Type]
  /\ asking.fails \subseteq Range(TypesInOrder(asking.prefs))
  /\ step = "idle"
  /\ todo = <<>>
  /\ writeQueue = <<>>
  /\ hand = <<>>
  /\ room \in BOOLEAN
  /\ registered = {}
  /\ pending = FALSE
  /\ clients = 0
  /\ timer = "unset"
  /\ sent = [t \in Type |-> 0]
  /\ inbox = [t \in Type |-> <<>>]
  /\ readers = <<>>
  /\ byName = <<>>
  /\ again = ""
  /\ telling = {}
  /\ told = [c \in Client |-> <<>>]
  /\ trapped = FALSE
-----------------------------------------------------------------------------
(* The nameserver: an error, without a question section, or an answer and  *)
(* its records in order.                                                   *)

Reply == {<<"error", <<>>>>, <<"answer", <<>>>>,
          <<"answer", <<"address">>>>,
          <<"answer", <<"alias", "address">>>>,
          <<"answer", <<"address", "address">>>>}

(* RFC 1035, 4.1: each label with its length, then the empty one.          *)
NameOnWire(name) ==
  FlattenSeq([i \in DOMAIN name |-> <<Len(name[i])>> \o name[i]]) \o <<0>>

QuestionOnWire(name, t) ==
  NameOnWire(name) \o <<0, Q!Qtype[t], 0, Q!Internet>>

Id == <<FirstRequest \div 256, FirstRequest % 256>>

(* The names whose question is that of RFC 1035, a recursive query.        *)
Understood ==
  [t \in Type |->
     {name \in Asked : Datagram(name, t) =
        Id \o <<1, 0, 0, 1, 0, 0, 0, 0, 0, 0>> \o QuestionOnWire(name, t)}]

(* The i-th record's address.                                              *)
Address(t, i) ==
  IF t = "A" THEN <<10, 0, 0, i>>
  ELSE <<32, 1, 13, 184, 0, 0, 0, 0, 0, 0, 0, 0, 0, 0, 1, i>>

(* The name is a pointer to the question's, the time to live one minute;   *)
(* an alias is www and that pointer.                                       *)
Record(t, kind, i) ==
  LET rdata == IF kind = "alias" THEN <<3, 119, 119, 119, 192, 12>> ELSE Address(t, i)
      qtype == IF kind = "alias" THEN "CNAME" ELSE t
  IN  <<192, 12, 0, Q!Qtype[qtype], 0, 1, 0, 0, 0, 60, 0, Len(rdata)>> \o rdata

OnWire(name, t, reply) ==
  LET kinds == reply[2] IN
  Id \o
  IF reply[1] = "error" THEN <<129, 129, 0, 0, 0, 0, 0, 0, 0, 0>>
  ELSE <<129, 128, 0, 1, 0, Len(kinds), 0, 0, 0, 0>> \o QuestionOnWire(name, t)
       \o FlattenSeq([i \in DOMAIN kinds |-> Record(t, kinds[i], i)])

(* It answers a question it understands; the network may bring a copy.     *)
Answer(t) ==
  /\ sent[t] > 0 /\ t \in registered /\ inbox[t] = <<>> /\ asking.name \in Understood[t]
  /\ \E reply \in Reply, copies \in 1 .. 2 :
       inbox' = [inbox EXCEPT ![t] = [i \in 1 .. copies |-> reply]]
  /\ UNCHANGED <<asking, resolveVars, engineVars, queryVars, room, sent, readers,
                 byName, clientVars>>

(* The kernel has room again.                                              *)
Drain ==
  /\ ~room
  /\ room' = TRUE
  /\ UNCHANGED <<asking, resolveVars, engineVars, queryVars, sent, inbox, readers,
                 byName, clientVars>>
-----------------------------------------------------------------------------
(* ResolverImpl::resolve of a name not in byName: it takes the lock.       *)

Resolve ==
  /\ step = "idle"
  /\ step' = "create"
  /\ todo' = TypesInOrder(asking.prefs)
  /\ pending' = TRUE
  /\ UNCHANGED <<asking, writeQueue, hand, engineVars, clients, timer, netVars,
                 readers, byName, clientVars>>

(* UdpSocket::create, connectAndAdd, and queueWrite up to handleWrite.     *)
Create ==
  /\ step = "create"
  /\ registered' = registered \cup {Head(todo)}
  /\ writeQueue' = Append(writeQueue, Head(todo))
  /\ step' = "write"
  /\ UNCHANGED <<asking, todo, hand, trapped, queryVars, netVars, readers, byName,
                 clientVars>>

PopKeeping ==    \* mutant: pop_front forgotten
  /\ step = "write" /\ hand = <<>> /\ writeQueue # <<>>
  /\ hand' = <<Head(writeQueue)>>
  /\ UNCHANGED <<asking, step, todo, writeQueue, engineVars, queryVars, netVars,
                 readers, byName, clientVars>>

(* UdpSocket::handleWrite takes the first datagram; doWrite sends it.      *)
Pop ==
  /\ step = "write" /\ hand = <<>> /\ writeQueue # <<>>
  /\ hand' = <<Head(writeQueue)>>
  /\ writeQueue' = Tail(writeQueue)
  /\ UNCHANGED <<asking, step, todo, engineVars, queryVars, netVars, readers, byName,
                 clientVars>>

Sent ==
  /\ hand # <<>> /\ room /\ Head(hand) \notin asking.fails
  /\ sent' = [sent EXCEPT ![Head(hand)] = @ + 1]
  /\ hand' = <<>>
  /\ UNCHANGED <<asking, step, todo, writeQueue, engineVars, queryVars, room, inbox,
                 readers, byName, clientVars>>

(* EAGAIN or EWOULDBLOCK: doWrite puts it back, behind the others.         *)
WouldBlock ==
  /\ hand # <<>> /\ ~room
  /\ writeQueue' = Append(writeQueue, Head(hand))
  /\ hand' = <<>>
  /\ UNCHANGED <<asking, step, todo, engineVars, queryVars, netVars, readers, byName,
                 clientVars>>

(* Engine::doRemove, with its assertion *)
DoRemove(t) ==
  /\ registered' = registered \ {t}
  /\ trapped' = (t \notin registered)

NotSentRetried ==    \* mutant: every error is taken for EAGAIN
  /\ hand # <<>> /\ Head(hand) \in asking.fails
  /\ writeQueue' = Append(writeQueue, Head(hand))
  /\ hand' = <<>>
  /\ UNCHANGED <<asking, step, todo, engineVars, queryVars, netVars, readers, byName,
                 clientVars>>

(* UdpResolver::notSent: disconnect; requestError does nothing.            *)
NotSent ==
  /\ hand # <<>> /\ Head(hand) \in asking.fails
  /\ DoRemove(Head(hand))
  /\ hand' = <<>>
  /\ UNCHANGED <<asking, step, todo, writeQueue, queryVars, netVars, readers, byName,
                 clientVars>>

(* The queue is empty: queueWrite returns, and clients.push_back.          *)
ClientWaits ==
  /\ step = "write" /\ hand = <<>> /\ writeQueue = <<>>
  /\ clients' = clients + 1
  /\ todo' = Tail(todo)
  /\ step' = IF todo' = <<>> THEN "timer" ELSE "create"
  /\ UNCHANGED <<asking, writeQueue, hand, engineVars, pending, timer, netVars,
                 readers, byName, clientVars>>

(* Engine::setTimer, request++, and the lock is released.                  *)
SetTimer ==
  /\ step = "timer"
  /\ timer' = "set"
  /\ step' = "unlocked"
  /\ UNCHANGED <<asking, todo, writeQueue, hand, engineVars, pending, clients,
                 netVars, readers, byName, clientVars>>

Resolving ==
  Resolve \/ Create \/ Pop \/ Sent \/ WouldBlock \/ NotSent \/ ClientWaits \/ SetTimer
-----------------------------------------------------------------------------
(* A worker: UdpSocket::handleRead, UdpResolver::received                  *)

Receive(t) ==
  /\ t \in registered /\ t \notin DOMAIN readers /\ inbox[t] # <<>>
  /\ readers' = Emplace(readers, t, [reply |-> Head(inbox[t]), removed |-> FALSE])
  /\ inbox' = [inbox EXCEPT ![t] = Tail(@)]
  /\ UNCHANGED <<asking, resolveVars, engineVars, queryVars, room, sent, byName,
                 clientVars>>

Disconnect(t) ==
  /\ t \in DOMAIN readers /\ ~readers[t].removed
  /\ DoRemove(t)
  /\ readers' = IF t \in registered THEN [readers EXCEPT ![t].removed = TRUE]
                ELSE readers
  /\ UNCHANGED <<asking, resolveVars, queryVars, netVars, byName, clientVars>>

(* Query::decode of what is received                                       *)
Decoded ==
  [name \in Asked |-> [t \in Type |-> [reply \in Reply |->
     Q!Decode(OnWire(name, t, reply))]]]

Heard(t) == Decoded[asking.name][t][readers[t].reply]

IsIpv4(addr) == Len(addr) = 4

(* Names::get: the first address that suits after lastAccessIndex, round   *)
(* to that one, which becomes lastAccessIndex, or <<>>.                    *)
Suits(prefs, addr) == prefs = "any" \/ IsIpv4(addr)

Get(names, prefs) ==
  LET num == Len(names.addrs)
      turn == [i \in 1 .. num |-> (names.lastAccessIndex + i) % num]
      good == {i \in DOMAIN turn : Suits(prefs, names.addrs[turn[i] + 1])}
  IN  IF good = {} THEN [found |-> <<>>, names |-> names]
      ELSE LET i == turn[Min(good)]
           IN  [found |-> <<names.addrs[i + 1]>>,
                names |-> [names EXCEPT !.lastAccessIndex = i]]

PutAlways(ans) ==    \* mutant: a name without an address becomes known
  LET old == IF ans.name \in DOMAIN byName THEN byName[ans.name]
             ELSE [addrs |-> <<>>, lastAccessIndex |-> 0]
  IN  Emplace(byName, ans.name, [old EXCEPT !.addrs = @ \o ans.addr])

(* Names::put, if the answer has an address.                               *)
Put(ans) ==
  LET old == IF ans.name \in DOMAIN byName THEN byName[ans.name]
             ELSE [addrs |-> <<>>, lastAccessIndex |-> 0]
  IN  IF ans.addr = <<>> THEN byName
      ELSE Emplace(byName, ans.name, [old EXCEPT !.addrs = @ \o ans.addr])

CanCompleteUnlocked(t) ==    \* mutant: requestComplete without the lock
  t \in DOMAIN readers /\ readers[t].removed

(* requestComplete takes the lock.                                         *)
CanComplete(t) ==
  t \in DOMAIN readers /\ readers[t].removed /\ LockFree

(* ResolverImpl::requestComplete up to the lock's release                  *)
RequestComplete(t) ==
  /\ CanComplete(t)
  /\ readers' = Restrict(readers, DOMAIN readers \ {t})
  /\ IF ~pending THEN UNCHANGED <<byName, queryVars, telling>>
     ELSE LET ans == Heard(t)
              names == Put(ans)
              known == ans.name \in DOMAIN names
              got == IF known THEN Get(names[ans.name], asking.prefs)
                     ELSE [found |-> <<>>]
          IN  /\ clients' = clients - 1
              /\ IF clients > 1
                 THEN byName' = names /\ UNCHANGED <<pending, timer, telling>>
                 ELSE /\ pending' = FALSE
                      /\ timer' = IF timer = "set" THEN "off" ELSE timer
                      /\ telling' = telling \cup
                                      {[found |-> got.found, timeout |-> FALSE]}
                      /\ byName' = IF known THEN Emplace(names, ans.name, got.names)
                                   ELSE names
  /\ UNCHANGED <<asking, resolveVars, engineVars, netVars, again, told>>

(* client->resolved or client->notResolved                                 *)
Tell ==
  \E word \in telling :
    /\ telling' = telling \ {word}
    /\ told' = [told EXCEPT !["first"] = Append(@, word)]
    /\ UNCHANGED <<asking, resolveVars, engineVars, queryVars, netVars, readers,
                   byName, again>>

Expire ==
  /\ timer = "set"
  /\ timer' = "expired"
  /\ UNCHANGED <<asking, resolveVars, engineVars, pending, clients, netVars, readers,
                 byName, clientVars>>

(* ResolverImpl::queryTimedout: resolvers.back() is the A question's.      *)
QueryTimedout ==
  /\ timer = "expired" /\ LockFree
  /\ timer' = "off"
  /\ pending' = FALSE
  /\ IF pending /\ "A" \in registered \cup DOMAIN readers
     THEN DoRemove("A") ELSE UNCHANGED <<registered, trapped>>
  /\ telling' = IF pending THEN telling \cup {[found |-> <<>>, timeout |-> TRUE]}
                ELSE telling
  /\ UNCHANGED <<asking, resolveVars, clients, netVars, readers, byName, again, told>>

(* ResolverImpl::resolve of a name that is known by now, by a client that  *)
(* hears of it at once.                                                    *)
ResolveAgain ==
  /\ LockFree /\ again = "" /\ Dotted[asking.name] \in DOMAIN byName
  /\ \E prefs \in Prefs :
       LET got == Get(byName[Dotted[asking.name]], prefs) IN
       /\ again' = prefs
       /\ byName' = Emplace(byName, Dotted[asking.name], got.names)
       /\ told' = [told EXCEPT !["again"] =
                     Append(@, [found |-> got.found, timeout |-> FALSE])]
  /\ UNCHANGED <<asking, resolveVars, engineVars, queryVars, netVars, readers, telling>>

-----------------------------------------------------------------------------
Next ==
  /\ ~trapped
  /\ \/ Resolving \/ ResolveAgain \/ Drain
     \/ \E t \in Type : Answer(t) \/ Receive(t) \/ Disconnect(t) \/ RequestComplete(t)
     \/ Tell \/ Expire \/ QueryTimedout

Spec == Init /\ [][Next]_vars

(* The thread that resolves runs on, and the kernel does not stay full.    *)
FairSpec ==
  /\ Spec
  /\ WF_vars(~trapped /\ Resolving)
  /\ WF_vars(~trapped /\ Drain)

-----------------------------------------------------------------------------
Word == [found : Seq(Seq(0 .. 255)), timeout : BOOLEAN]

TypeOK ==
  /\ step \in {"idle", "create", "write", "timer", "unlocked"}
  /\ Range(todo) \cup Range(writeQueue) \cup Range(hand) \subseteq Type
  /\ room \in BOOLEAN /\ pending \in BOOLEAN /\ trapped \in BOOLEAN
  /\ registered \subseteq Type
  /\ clients \in 0 .. 2
  /\ timer \in {"unset", "set", "expired", "off"}
  /\ sent \in [Type -> 0 .. 1]
  /\ inbox \in [Type -> Seq(Reply)]
  /\ DOMAIN readers \subseteq Type
  /\ \A t \in DOMAIN readers : readers[t] \in [reply : Reply, removed : BOOLEAN]
  /\ again \in Prefs \cup {""}
  /\ telling \subseteq Word
  /\ told \in [Client -> Seq(Word)]

(* The nameserver understands what is sent, for every name of two labels   *)
(* or more: encodeName finds each label's length although it counts the    *)
(* dots by position and 0 stands for none.                                 *)
UnderstoodAsAsked ==
  \A t \in Type : sent[t] > 0 /\ Len(asking.name) > 1 => asking.name \in Understood[t]

(* Of what the nameserver answers, decode finds the name that was asked    *)
(* (none in an error) and the first address, behind an alias or not; for   *)
(* what is behind that address it looks in the wrong place.                *)
HeardAsAnswered ==
  \A t \in DOMAIN readers :
    LET reply == readers[t].reply
        i == SelectInSeq(reply[2], LAMBDA kind : kind = "address")
        ans == Heard(t)
    IN  /\ ans.name = IF reply[1] = "error" THEN <<>> ELSE Dotted[asking.name]
        /\ ans.addr = IF i = 0 THEN <<>> ELSE <<Address(t, i)>>

(* An answer that comes while resolve is still at work waits for the lock  *)
(* and so finds a client in clients: back() is never called on none.       *)
AnswerFindsClient ==
  \A t \in Type : CanComplete(t) /\ pending => clients > 0

(* resolve returns, and by then each datagram was given to the kernel once *)
(* or is known not to have been sent: the loop that puts a datagram back   *)
(* and takes it again ends when the kernel has room, and loses none.       *)
ResolveReturns ==
  step # "idle" ~>
    /\ step = "unlocked"
    /\ \A t \in Range(TypesInOrder(asking.prefs)) \ asking.fails : sent[t] = 1

(* What Resolver sees of the lookup: all of resolve once it has begun, so  *)
(* the sockets and the clients that are still to come, and its timeout.    *)
Begun == step # "idle"
Upcoming == IF step = "create" \/ todo = <<>> THEN Range(todo) ELSE Range(Tail(todo))
If(holds, value) == IF holds THEN {value} ELSE {}

Asks ==
  [c \in Client |->
     IF c = "first" THEN If(Begun, [name |-> asking.name, prefs |-> asking.prefs])
     ELSE If(again # "", [name |-> asking.name, prefs |-> again])]
Requests == IF Begun THEN 1 ELSE 0
Queries ==
  [k \in If(pending, 0) |-> [name |-> asking.name, prefs |-> asking.prefs,
                             client |-> "first", waiting |-> clients + Len(todo)]]
Timeouts == If(timer = "set" \/ (Begun /\ step # "unlocked"), 0)
Expired == If(timer = "expired", 0)
Sockets == {0} \X ((registered \cup Upcoming) \ asking.fails)

Kind(ans) ==
  IF ans.name # Dotted[asking.name] THEN "nameless"
  ELSE IF ans.addr = <<>> THEN "nothing" ELSE "addresses"
Received ==
  [s \in {0} \X DOMAIN readers |->
     [removed |-> readers[s[2]].removed, answer |-> Kind(Heard(s[2]))]]

Family(addr) == IF IsIpv4(addr) THEN "A" ELSE "AAAA"
Families ==
  [name \in Asked |->
     IF Dotted[name] \notin DOMAIN byName THEN {}
     ELSE {Family(addr) : addr \in Range(byName[Dotted[name]].addrs)}]

Outcome(word) == [resolved |-> word.found # <<>>, timeout |-> word.timeout]
Telling ==
  {[client |-> "first", resolved |-> word.found # <<>>, timeout |-> word.timeout] :
     word \in telling}
Results == [c \in Client |-> [i \in DOMAIN told[c] |-> Outcome(told[c][i])]]

R == INSTANCE Resolver WITH
  Name <- Asked, asked <- Asks, request <- Requests, queries <- Queries,
  timers <- Timeouts, expired <- Expired, sockets <- Sockets, received <- Received,
  byName <- Families, telling <- Telling, result <- Results

(* A lookup in its many steps, with the bytes it sends and hears, does     *)
(* what Resolver says of it: to others resolve is one step, although       *)
(* answers come and their sockets are removed while it is at work.         *)
ImplementsResolver == R!Spec
=============================================================================
