------------------------------ MODULE Resolver ------------------------------
(***************************************************************************)
(* Sb::ResolverImpl (resolverimpl.cpp), the UdpResolver and UdpSocket of   *)
(* each question it sends (udpsocket.cpp) and the clients it answers       *)
(* (tcpconn.cpp).                                                          *)
(*                                                                         *)
(* resolve, requestComplete and queryTimedout hold ResolverImpl::lock, so  *)
(* each is one step up to the lock's release; the client hears after it.   *)
(* A worker that received an answer first removes its socket from the      *)
(* engine, without the lock.  The engine's own work is one step here: the  *)
(* timers expire as Timers has it, and answers reach a worker as Dispatch  *)
(* has it.  Ipv6Only is left out: with it resolvers.back() of an empty     *)
(* vector is undefined.                                                    *)
(***************************************************************************)
EXTENDS Naturals, Sequences, FiniteSets, Functions

CONSTANTS
  Client,   \* the objects that ask, once each
  Name,     \* the names they ask for
  Prefs     \* the preferences in use: "any" for AnyAddr, "v4" for Ipv4Only

ASSUME ResolverAssumption ==
  /\ IsFiniteSet(Client)
  /\ Prefs \subseteq {"any", "v4"}

VARIABLES
  asked,     \* asked[c]: empty, or what c asked for
  request,   \* ResolverImpl::request
  queries,   \* resQueries: a function from the request numbers pending
  timers,    \* the requests whose timeout is set
  expired,   \* those whose timeout is in eventQueue
  sockets,   \* the UDP sockets in eventHash, by request and record type
  received,  \* the answer each UdpResolver::received is busy with
  byName,    \* byName[n]: the families of its addresses, empty if not there
  telling,   \* clients to be told once the lock is released, and what
  result,    \* result[c]: what c was told
  trapped    \* whether Engine::doRemove's assertion failed

askVars == <<asked, request>>
timeoutVars == <<timers, expired>>
vars == <<askVars, queries, timeoutVars, sockets, received, byName, telling,
          result, trapped>>

(* Bound: each client asks once, so request stays far below 2^16.          *)
Request == 0 .. Cardinality(Client) - 1

Family == {"A", "AAAA"}
Socket == Request \X Family

(* What a datagram decodes to: addresses for the name asked, the name and  *)
(* no address, or no question section and so no name.                      *)
Answer == {"addresses", "nothing", "nameless"}

(* The record types resolve asks for.                                      *)
Types(prefs) == IF prefs = "any" THEN Family ELSE {"A"}

(* Names::get: whether it finds an address of a family that is wanted.     *)
Found(names, name, prefs) == names[name] \cap Types(prefs) # {}

(* The client, whether it is given an address, and whether time ran out.   *)
Word == [client : Client, resolved : BOOLEAN, timeout : BOOLEAN]

Init ==
  /\ asked = [c \in Client |-> {}]
  /\ request = 0
  /\ queries = <<>>
  /\ timers = {}
  /\ expired = {}
  /\ sockets = {}
  /\ received = <<>>
  /\ byName = [n \in Name |-> {}]
  /\ telling = {}
  /\ result = [c \in Client |-> <<>>]
  /\ trapped = FALSE

(* resQueries[request] = {...}, and the like for received.                 *)
Emplace(f, key, value) ==
  [k \in DOMAIN f \cup {key} |-> IF k = key THEN value ELSE f[k]]

(* weak_ptr<UdpSocketIf>::lock: the engine or a worker still has it.       *)
Alive(s) == s \in sockets \/ s \in DOMAIN received

Hears(results, word) ==
  [results EXCEPT ![word.client] = Append(@, [resolved |-> word.resolved,
                                              timeout |-> word.timeout])]
-----------------------------------------------------------------------------
(* ResolverImpl::resolve *)

(* ... of a name that is known: the client hears at once.                  *)
ResolveKnown(c, name, prefs) ==
  /\ byName[name] # {}
  /\ result' = Hears(result, [client |-> c, timeout |-> FALSE,
                              resolved |-> Found(byName, name, prefs)])
  /\ UNCHANGED <<request, queries, timeoutVars, sockets>>

NewQueryOnce(c, name, prefs) ==    \* mutant: clients.push_back once
  [name |-> name, prefs |-> prefs, client |-> c, waiting |-> 1]

(* clients.push_back for each question.                                    *)
NewQuery(c, name, prefs) ==
  [name |-> name, prefs |-> prefs, client |-> c,
   waiting |-> Cardinality(Types(prefs))]

(* UdpSocket::create: a socket for each question.                          *)
Opened(k, prefs) == {<<k, f>> : f \in Types(prefs)}

(* UdpResolver::connected, UdpSocket::queueWrite: if the question cannot   *)
(* be sent, notSent removes the socket, and requestError does nothing.     *)
Unsent(opened) == SUBSET opened

(* ... of one that is not.                                                 *)
ResolveUnknown(c, name, prefs) ==
  /\ byName[name] = {}
  /\ queries' = Emplace(queries, request, NewQuery(c, name, prefs))
  /\ LET opened == Opened(request, prefs)
     IN  \E unsent \in Unsent(opened) : sockets' = sockets \cup (opened \ unsent)
  /\ timers' = timers \cup {request}
  /\ request' = request + 1
  /\ UNCHANGED <<expired, result>>

Resolve(c) ==
  /\ asked[c] = {}
  /\ \E name \in Name, prefs \in Prefs :
       /\ asked' = [asked EXCEPT ![c] = {[name |-> name, prefs |-> prefs]}]
       /\ ResolveKnown(c, name, prefs) \/ ResolveUnknown(c, name, prefs)
  /\ UNCHANGED <<received, byName, telling, trapped>>

-----------------------------------------------------------------------------
(* UdpSocket::handleRead on a worker: the answer, then in                  *)
(* UdpResolver::received disconnect, requestComplete and the client.       *)

Receive(s) ==
  /\ s \in sockets \ DOMAIN received
  /\ \E a \in Answer :
       received' = Emplace(received, s, [answer |-> a, removed |-> FALSE])
  /\ UNCHANGED <<askVars, queries, timeoutVars, sockets, byName, telling,
                 result, trapped>>

(* The nameserver's host refused the datagram: UdpSocket::handleError only *)
(* logs, and Engine::run does not arm the socket again.  Nothing changes   *)
(* but that no answer will come, which is as if none ever did.             *)

(* UdpSocket::disconnect, Engine::doRemove *)
Disconnect(s) ==
  /\ s \in DOMAIN received /\ ~received[s].removed
  /\ IF s \in sockets
     THEN /\ sockets' = sockets \ {s}
          /\ received' = [received EXCEPT ![s].removed = TRUE]
          /\ UNCHANGED trapped
     ELSE /\ trapped' = TRUE
          /\ UNCHANGED <<sockets, received>>
  /\ UNCHANGED <<askVars, queries, timeoutVars, byName, telling, result>>

FoundByAnswerAny(query, answer) ==    \* mutant: prefs is not looked at
  /\ answer # "nameless"
  /\ Found(byName', query.name, "any")

(* requestComplete looks ans.name up, the name the datagram carried.       *)
FoundByAnswer(query, answer) ==
  /\ answer # "nameless"
  /\ Found(byName', query.name, query.prefs)

CompleteKeeping(k, answer) ==    \* mutant: resQueries.erase(it) forgotten
  LET query == queries[k] IN
  /\ queries' = [queries EXCEPT ![k].waiting = @ - 1]
  /\ IF query.waiting > 1
     THEN UNCHANGED <<timers, telling>>
     ELSE /\ timers' = timers \ {k}
          /\ telling' = telling \cup {[client |-> query.client, timeout |-> FALSE,
                                       resolved |-> FoundByAnswer(query, answer)]}

CompleteCancels(k, answer) ==    \* mutant: any answer cancels the timeout
  LET query == queries[k] IN
  /\ timers' = timers \ {k}
  /\ IF query.waiting > 1
     THEN /\ queries' = [queries EXCEPT ![k].waiting = @ - 1]
          /\ UNCHANGED telling
     ELSE /\ queries' = Restrict(queries, DOMAIN queries \ {k})
          /\ telling' = telling \cup {[client |-> query.client, timeout |-> FALSE,
                                       resolved |-> FoundByAnswer(query, answer)]}

CompleteQuietly(k, answer) ==    \* mutant: an error is not told
  LET query == queries[k] IN
  IF query.waiting > 1
  THEN /\ queries' = [queries EXCEPT ![k].waiting = @ - 1]
       /\ UNCHANGED <<timers, telling>>
  ELSE /\ timers' = timers \ {k}
       /\ queries' = Restrict(queries, DOMAIN queries \ {k})
       /\ telling' = telling \cup
            {word \in {[client |-> query.client, timeout |-> FALSE,
                        resolved |-> FoundByAnswer(query, answer)]} : word.resolved}

(* One client fewer waits; with none left, the query is over.              *)
Complete(k, answer) ==
  LET query == queries[k] IN
  IF query.waiting > 1
  THEN /\ queries' = [queries EXCEPT ![k].waiting = @ - 1]
       /\ UNCHANGED <<timers, telling>>
  ELSE /\ timers' = timers \ {k}
       /\ queries' = Restrict(queries, DOMAIN queries \ {k})
       /\ telling' = telling \cup {[client |-> query.client, timeout |-> FALSE,
                                    resolved |-> FoundByAnswer(query, answer)]}

RequestComplete(s) ==
  /\ s \in DOMAIN received /\ received[s].removed
  /\ LET k == s[1]
         answer == received[s].answer
     IN  IF k \in DOMAIN queries
         THEN /\ byName' = IF answer = "addresses"
                           THEN [byName EXCEPT ![queries[k].name] = @ \cup {s[2]}]
                           ELSE byName
              /\ Complete(k, answer)
         ELSE UNCHANGED <<byName, queries, timers, telling>>
  /\ received' = Restrict(received, DOMAIN received \ {s})
  /\ UNCHANGED <<askVars, expired, sockets, result, trapped>>

(* client->resolved or client->notResolved, with the lock released.        *)
Tell ==
  \E word \in telling :
    /\ telling' = telling \ {word}
    /\ result' = Hears(result, word)
    /\ UNCHANGED <<askVars, queries, timeoutVars, sockets, received, byName,
                   trapped>>

-----------------------------------------------------------------------------
(* The timeout *)

Expire(k) ==
  /\ k \in timers
  /\ timers' = timers \ {k}
  /\ expired' = expired \cup {k}
  /\ UNCHANGED <<askVars, queries, sockets, received, byName, telling, result,
                 trapped>>

SweepLeaving(swept, last) ==    \* mutant: the sockets are not disconnected
  /\ queries' = Restrict(queries, DOMAIN queries \ swept)
  /\ UNCHANGED <<sockets, trapped>>
  /\ telling' = telling \cup {[client |-> queries[last].client,
                               timeout |-> TRUE, resolved |-> FALSE]}

(* For each query the loop visits: disconnect of resolvers.back(), which is *)
(* the A question's, then erase.  Only the last one's client is told.      *)
Sweep(swept, last) ==
  LET old == {k \in swept : Alive(<<k, "A">>)} \X {"A"} IN
  /\ queries' = Restrict(queries, DOMAIN queries \ swept)
  /\ sockets' = sockets \ old
  /\ trapped' = ~(old \subseteq sockets)
  /\ telling' = telling \cup {[client |-> queries[last].client,
                               timeout |-> TRUE, resolved |-> FALSE]}

(* The loop goes on from the query to resQueries.end(): in an unordered    *)
(* map, over any others.                                                   *)
QueryTimedout(k) ==
  /\ k \in expired
  /\ expired' = expired \ {k}
  /\ IF k \in DOMAIN queries
     THEN \E rest \in SUBSET (DOMAIN queries \ {k}) :
            \E last \in IF rest = {} THEN {k} ELSE rest : Sweep(rest \cup {k}, last)
     ELSE UNCHANGED <<queries, sockets, trapped, telling>>
  /\ UNCHANGED <<askVars, timers, received, byName, result>>

-----------------------------------------------------------------------------
Worker == Tell \/ \E s \in Socket : Disconnect(s) \/ RequestComplete(s)

Next ==
  /\ ~trapped
  /\ \/ \E c \in Client : Resolve(c)
     \/ \E s \in Socket : Receive(s)
     \/ Worker
     \/ \E k \in Request : Expire(k) \/ QueryTimedout(k)

Spec == Init /\ [][Next]_vars

(* Workers run what is queued, and timers that are set expire; no answer   *)
(* need ever come.                                                         *)
FairSpec ==
  /\ Spec
  /\ WF_vars(~trapped /\ Tell)
  /\ \A s \in Socket : WF_vars(~trapped /\ (Disconnect(s) \/ RequestComplete(s)))
  /\ \A k \in Request : WF_vars(~trapped /\ (Expire(k) \/ QueryTimedout(k)))

-----------------------------------------------------------------------------
Query == [name : Name, prefs : Prefs, client : Client, waiting : 1 .. 2]
Busy == [answer : Answer, removed : BOOLEAN]

(* Types; in particular a pending query has a client that waits, so        *)
(* clients.back() has something to return.                                 *)
TypeOK ==
  /\ asked \in [Client -> SUBSET [name : Name, prefs : Prefs]]
  /\ request \in 0 .. Cardinality(Client)
  /\ DOMAIN queries \subseteq 0 .. request - 1
  /\ \A k \in DOMAIN queries : queries[k] \in Query
  /\ timers \subseteq Request
  /\ expired \subseteq Request
  /\ sockets \subseteq Socket
  /\ DOMAIN received \subseteq Socket
  /\ \A s \in DOMAIN received : received[s] \in Busy
  /\ byName \in [Name -> SUBSET Family]
  /\ telling \subseteq Word
  /\ trapped \in BOOLEAN

(* A pending query has at least as many clients entries as it has          *)
(* questions still open or answers still to be handled: requestComplete    *)
(* never drops the query before its last answer.                           *)
AnswersAreAwaited ==
  \A k \in DOMAIN queries :
    Cardinality({f \in Family : Alive(<<k, f>>)}) <= queries[k].waiting

(* A pending query's timeout is set or in the queue: requestComplete       *)
(* cancels it only as it ends the query, whatever the order of answers,    *)
(* failed sends and other queries' timeouts.                               *)
NoStrandedQuery ==
  \A k \in DOMAIN queries : k \in timers \cup expired

(* The socket of an A question is in the engine only while its query is    *)
(* pending: an answer or the timeout removes it.  (queryTimedout knows     *)
(* nothing of the AAAA question's socket.)                                 *)
NoLeakedSocket ==
  ~trapped => \A k \in Request : <<k, "A">> \in sockets => k \in DOMAIN queries

(* Engine::doRemove's assertion "Not found for removal": an answer and the *)
(* timeout never both remove a socket.                                     *)
RemovedOnce == ~trapped

Service == INSTANCE LookupService WITH
  known <- byName,
  outcome <- [c \in Client |-> {r.resolved : r \in Range(result[c])}],
  Wanted <- [p \in Prefs |-> Types(p)]

(* A client hears at most once, only after it asked, and hears of an       *)
(* address only if an answer gave one that suits, however answers,         *)
(* timeouts and other queries interleave.                                  *)
ImplementsLookups ==
  Service!Spec /\ [][\A c \in Client : Len(result'[c]) <= 1]_vars

Told(c) == result[c] # <<>>

Pending(c) == \E k \in DOMAIN queries : queries[k].client = c
BeingTold(c) == \E word \in telling : word.client = c

(* Who asks hears, even if no question could be sent or no answer comes.   *)
(* The one way for a client's query to go without a word is a sweep        *)
(* (queryTimedout) that takes it along and tells another client.           *)
LookupEnds ==
  /\ \A c \in Client :
       asked[c] # {} ~> trapped \/ Told(c) \/ (~Pending(c) /\ ~BeingTold(c))
  /\ [][\A c \in Client :
          Pending(c) /\ ~Pending(c)' =>
            \/ BeingTold(c)'
            \/ \E word \in telling' \ telling : word.timeout /\ word.client # c]_vars
=============================================================================
