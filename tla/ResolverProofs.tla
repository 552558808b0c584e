--------------------------- MODULE ResolverProofs ---------------------------
(***************************************************************************)
(* Proofs about Resolver, for any clients, names and preferences.          *)
(*                                                                         *)
(* The invariant follows a client from resolve to the word it hears: it is *)
(* with one query, or with one word to be told, or it has heard.  That a   *)
(* query is not dropped before its last answer, and that its A question's  *)
(* socket goes with it, rest on the numbers of requests being fresh and on *)
(* each UdpResolver::received removing its socket first.                   *)
(***************************************************************************)
EXTENDS Resolver, TLAPS, FiniteSetTheorems

Askers == {c \in Client : asked[c] # {}}

(* request counts clients, so it stays among the numbers of requests.      *)
RequestsAreAsked == request <= Cardinality(Askers)

(* A request's sockets are made with it.                                   *)
SocketsAreNumbered == \A s \in sockets \cup DOMAIN received : s[1] < request

(* disconnect comes before requestComplete.                                *)
RemovedIsGone == \A s \in DOMAIN received : received[s].removed => s \notin sockets

(* AnswersAreAwaited, without a cardinality: no query with one entry in    *)
(* clients has two questions open.                                         *)
LastIsAlone ==
  \A k \in DOMAIN queries :
    queries[k].waiting = 1 => ~Alive(<<k, "A">>) \/ ~Alive(<<k, "AAAA">>)

Words == [resolved : BOOLEAN, timeout : BOOLEAN]

HeardAtMostOnce ==
  /\ result = [c \in Client |-> result[c]]
  /\ \A c \in Client : result[c] = <<>> \/ \E word \in Words : result[c] = <<word>>

(* A client waits in one query, or for one word, or has heard.             *)
TellsOnce ==
  /\ \A j, k \in DOMAIN queries : queries[j].client = queries[k].client => j = k
  /\ \A v, w \in telling : v.client = w.client => v = w
  /\ \A k \in DOMAIN queries, w \in telling : queries[k].client # w.client
  /\ \A k \in DOMAIN queries : result[queries[k].client] = <<>>
  /\ \A w \in telling : result[w.client] = <<>>

(* ... and only after it asked; a good word is about what it asked for.    *)
TellsWhatWasAsked ==
  /\ \A c \in Client : asked[c] = {} => result[c] = <<>>
  /\ \A k \in DOMAIN queries :
       asked[queries[k].client] = {[name |-> queries[k].name, prefs |-> queries[k].prefs]}
  /\ \A w \in telling : asked[w.client] # {}
  /\ \A w \in telling :
       w.resolved => \E a \in asked[w.client] : Found(byName, a.name, a.prefs)

IInv ==
  /\ TypeOK
  /\ RequestsAreAsked
  /\ SocketsAreNumbered
  /\ RemovedIsGone
  /\ LastIsAlone
  /\ NoStrandedQuery
  /\ NoLeakedSocket
  /\ HeardAtMostOnce
  /\ TellsOnce
  /\ TellsWhatWasAsked

-----------------------------------------------------------------------------

(* A query asks for A, for AAAA or for both.                               *)
LEMMA FamilyIsTwo == Cardinality(Family) = 2 /\ IsFiniteSet(Family)
<1>1. IsFiniteSet({"A"}) /\ Cardinality({"A"}) = 1
  BY FS_Singleton
<1>2. IsFiniteSet({"A"} \cup {"AAAA"}) /\ Cardinality({"A"} \cup {"AAAA"}) = 2
  BY <1>1, FS_AddElement
<1>3. {"A"} \cup {"AAAA"} = Family
  BY DEF Family
<1> QED BY <1>2, <1>3

(* One entry in clients for a question, two for two.                       *)
LEMMA QuestionsAsked ==
  ASSUME NEW prefs \in Prefs, ResolverAssumption
  PROVE  /\ Types(prefs) \subseteq Family
         /\ Cardinality(Types(prefs)) \in 1 .. 2
         /\ Cardinality(Types(prefs)) = 1 => Types(prefs) = {"A"}
         /\ "A" \in Types(prefs)
<1>1. CASE prefs = "any"
  <2>1. Types(prefs) = Family
    BY <1>1 DEF Types
  <2>2. Cardinality(Types(prefs)) = 2
    BY <2>1, FamilyIsTwo
  <2> QED BY <2>1, <2>2 DEF Family
<1>2. CASE prefs # "any"
  <2>1. Types(prefs) = {"A"}
    BY <1>2 DEF Types
  <2>2. Cardinality(Types(prefs)) = 1
    BY <2>1, FS_Singleton
  <2> QED BY <2>1, <2>2 DEF Family
<1> QED BY <1>1, <1>2

(* A client that asks is one more.                                         *)
LEMMA AskersGrow ==
  ASSUME ResolverAssumption, TypeOK, RequestsAreAsked, NEW c \in Client, asked[c] = {},
         NEW x, asked' = [asked EXCEPT ![c] = {x}]
  PROVE  /\ Cardinality(Askers') = Cardinality(Askers) + 1
         /\ Cardinality(Askers) \in Nat /\ Cardinality(Askers') <= Cardinality(Client)
         /\ request < Cardinality(Client)
         /\ Cardinality(Client) \in Nat
<1>1. Askers' = Askers \cup {c} /\ c \notin Askers
  BY DEF TypeOK, Askers
<1>2. IsFiniteSet(Askers) /\ IsFiniteSet(Askers') /\ Cardinality(Askers') <= Cardinality(Client)
  BY FS_Subset DEF Askers, ResolverAssumption
<1>3. Cardinality(Askers \cup {c}) = Cardinality(Askers) + 1
  BY <1>1, <1>2, FS_AddElement
<1>4. Cardinality(Askers) \in Nat /\ Cardinality(Client) \in Nat
  BY <1>2, FS_CardinalityType DEF ResolverAssumption
<1>5. Cardinality(Askers') = Cardinality(Askers) + 1
  BY <1>1, <1>3, Zenon
<1>6. request \in Nat /\ request <= Cardinality(Askers)
  BY <1>4 DEF TypeOK, RequestsAreAsked
<1> QED BY <1>2, <1>4, <1>5, <1>6

-----------------------------------------------------------------------------

(* ResolverImpl::resolve of a known name: the client hears at once         *)
(* (resolverimpl.cpp:104-110).                                             *)
LEMMA KnownKept ==
  ASSUME ResolverAssumption, IInv, NEW c \in Client, NEW name \in Name, NEW prefs \in Prefs,
         asked[c] = {}, asked' = [asked EXCEPT ![c] = {[name |-> name, prefs |-> prefs]}],
         ResolveKnown(c, name, prefs), UNCHANGED <<received, byName, telling, trapped>>
  PROVE  IInv'
<1> DEFINE word == [resolved |-> Found(byName, name, prefs), timeout |-> FALSE]
<1>1. /\ result' = [result EXCEPT ![c] = Append(@, word)]
      /\ UNCHANGED <<request, queries, timers, expired, sockets>>
  BY DEF ResolveKnown, Hears, timeoutVars
<1>2. word \in Words /\ result[c] = <<>> /\ Append(<<>>, word) = <<word>>
  BY DEF IInv, TellsWhatWasAsked, Words, Found
<1>3. \A d \in Client : d # c => asked'[d] = asked[d] /\ result'[d] = result[d]
  BY <1>1 DEF IInv, TypeOK
<1>4. /\ asked'[c] = {[name |-> name, prefs |-> prefs]}
      /\ result'[c] = <<word>> /\ result' = [d \in Client |-> result'[d]]
  <2>1. asked'[c] = {[name |-> name, prefs |-> prefs]}
    BY DEF IInv, TypeOK
  <2>2. result' = [result EXCEPT ![c] = <<word>>]
    BY <1>1, <1>2
  <2> QED BY <2>1, <2>2 DEF IInv, HeardAtMostOnce
<1>5. TypeOK'
  BY <1>1 DEF IInv, TypeOK
<1>6. RequestsAreAsked'
  <2>1. Cardinality(Askers') = Cardinality(Askers) + 1 /\ Cardinality(Askers) \in Nat
    BY AskersGrow DEF IInv
  <2> QED BY <1>1, <2>1 DEF IInv, RequestsAreAsked, TypeOK
<1>7. SocketsAreNumbered' /\ RemovedIsGone' /\ LastIsAlone' /\ NoStrandedQuery' /\ NoLeakedSocket'
  BY <1>1 DEF IInv, SocketsAreNumbered, RemovedIsGone, LastIsAlone, NoStrandedQuery,
              NoLeakedSocket, Alive
<1>8. HeardAtMostOnce'
  BY <1>2, <1>3, <1>4 DEF IInv, HeardAtMostOnce
<1>9. /\ \A k \in DOMAIN queries : queries[k].client # c /\ queries[k].client \in Client
      /\ \A w \in telling : w.client # c /\ w.client \in Client
  BY DEF IInv, TellsWhatWasAsked, TypeOK, Query, Word
<1>10. TellsOnce'
  BY <1>1, <1>3, <1>9 DEF IInv, TellsOnce
<1>11. TellsWhatWasAsked'
  BY <1>1, <1>3, <1>4, <1>9 DEF IInv, TellsWhatWasAsked
<1> QED
  BY <1>5, <1>6, <1>7, <1>8, <1>10, <1>11 DEF IInv

(* ... and of one that is not: a query with a fresh number, its sockets    *)
(* and its timeout (resolverimpl.cpp:111-129).                             *)
LEMMA UnknownKept ==
  ASSUME ResolverAssumption, IInv, NEW c \in Client, NEW name \in Name, NEW prefs \in Prefs,
         asked[c] = {}, asked' = [asked EXCEPT ![c] = {[name |-> name, prefs |-> prefs]}],
         ResolveUnknown(c, name, prefs), UNCHANGED <<received, byName, telling, trapped>>
  PROVE  IInv'
<1> DEFINE query == NewQuery(c, name, prefs)
<1>1. /\ DOMAIN queries' = DOMAIN queries \cup {request}
      /\ queries'[request] = query
      /\ \A k \in DOMAIN queries : k # request => queries'[k] = queries[k]
  BY DEF ResolveUnknown, Emplace
<1>2. PICK open \in SUBSET Opened(request, prefs) : sockets' = sockets \cup open
  BY DEF ResolveUnknown
<1>3. /\ timers' = timers \cup {request} /\ request' = request + 1
      /\ UNCHANGED <<expired, result>>
  BY DEF ResolveUnknown
<1>4. /\ request \in Nat /\ request < Cardinality(Client) /\ Cardinality(Client) \in Nat
      /\ Cardinality(Askers') = Cardinality(Askers) + 1 /\ Cardinality(Askers) \in Nat
  <2>1. /\ request < Cardinality(Client) /\ Cardinality(Client) \in Nat
        /\ Cardinality(Askers') = Cardinality(Askers) + 1 /\ Cardinality(Askers) \in Nat
    BY AskersGrow DEF IInv
  <2> QED BY <2>1 DEF IInv, TypeOK
<1>5. request \notin DOMAIN queries /\ request \in Request
  BY <1>4 DEF IInv, TypeOK, Request
<1>6. /\ query \in Query /\ query.client = c
      /\ query.name = name /\ query.prefs = prefs
      /\ query.waiting = 1 => Types(prefs) = {"A"}
  BY QuestionsAsked DEF NewQuery, Query
<1>7. open \subseteq Socket /\ \A s \in open : s[1] = request /\ s[2] \in Types(prefs)
  <2>1. Types(prefs) \subseteq Family
    BY QuestionsAsked
  <2>2. \A s \in open : \E f \in Types(prefs) : s = <<request, f>>
    BY <1>2 DEF Opened
  <2> QED BY <1>5, <2>1, <2>2 DEF Socket
<1>8. \A d \in Client : d # c => asked'[d] = asked[d]
  BY DEF IInv, TypeOK
<1>9. asked'[c] = {[name |-> name, prefs |-> prefs]}
  BY DEF IInv, TypeOK
<1>10. TypeOK'
  <2>1. asked' \in [Client -> SUBSET [name : Name, prefs : Prefs]]
    BY DEF IInv, TypeOK
  <2>2. request' \in 0 .. Cardinality(Client) /\ DOMAIN queries' \subseteq 0 .. request' - 1
    BY <1>1, <1>3, <1>4 DEF IInv, TypeOK
  <2>3. \A k \in DOMAIN queries' : queries'[k] \in Query
    BY <1>1, <1>5, <1>6 DEF IInv, TypeOK
  <2> QED BY <1>2, <1>3, <1>5, <1>7, <2>1, <2>2, <2>3 DEF IInv, TypeOK
<1>11. RequestsAreAsked'
  BY <1>3, <1>4 DEF IInv, RequestsAreAsked
<1>12. SocketsAreNumbered'
  BY <1>2, <1>3, <1>4, <1>7 DEF IInv, SocketsAreNumbered, TypeOK, Socket, Request
<1>13. RemovedIsGone'
  <2>1. \A s \in DOMAIN received : s \notin open
    BY <1>4, <1>7 DEF IInv, SocketsAreNumbered
  <2> QED BY <1>2, <2>1 DEF IInv, RemovedIsGone
<1>14. LastIsAlone'
  <2> SUFFICES ASSUME NEW k \in DOMAIN queries', queries'[k].waiting = 1
               PROVE  ~Alive(<<k, "A">>)' \/ ~Alive(<<k, "AAAA">>)'
    BY DEF LastIsAlone
  <2>1. CASE k = request
    <3>1. <<k, "AAAA">> \notin sockets /\ <<k, "AAAA">> \notin DOMAIN received
      BY <1>4, <2>1 DEF IInv, SocketsAreNumbered
    <3>2. <<k, "AAAA">> \notin open
      BY <1>1, <1>6, <1>7, <2>1
    <3> QED BY <1>2, <3>1, <3>2 DEF Alive
  <2>2. CASE k # request
    <3>1. k \in DOMAIN queries /\ queries[k].waiting = 1
      BY <1>1, <2>2
    <3>2. <<k, "A">> \notin open /\ <<k, "AAAA">> \notin open
      BY <1>7, <2>2
    <3> QED BY <1>2, <3>1, <3>2 DEF IInv, LastIsAlone, Alive
  <2> QED BY <2>1, <2>2
<1>15. NoStrandedQuery'
  BY <1>1, <1>3 DEF IInv, NoStrandedQuery
<1>16. NoLeakedSocket'
  BY <1>1, <1>2, <1>7 DEF IInv, NoLeakedSocket
<1>17. HeardAtMostOnce'
  BY <1>3 DEF IInv, HeardAtMostOnce
<1>18. /\ \A k \in DOMAIN queries : queries[k].client # c /\ queries[k].client \in Client
       /\ \A w \in telling : w.client # c /\ w.client \in Client
       /\ result[c] = <<>>
  BY DEF IInv, TellsWhatWasAsked, TypeOK, Query, Word
<1>19. TellsOnce'
  BY <1>1, <1>3, <1>5, <1>6, <1>18 DEF IInv, TellsOnce
<1>20. TellsWhatWasAsked'
  BY <1>1, <1>3, <1>5, <1>6, <1>8, <1>9, <1>18 DEF IInv, TellsWhatWasAsked
<1> QED BY <1>10, <1>11, <1>12, <1>13, <1>14, <1>15, <1>16, <1>17, <1>19, <1>20 DEF IInv
-----------------------------------------------------------------------------

(* UdpSocket::handleRead: the answer is a worker's (udpsocket.cpp:40-51).  *)
LEMMA ReceiveKept ==
  ASSUME ResolverAssumption, IInv, NEW s \in Socket, Receive(s)
  PROVE  IInv'
<1>1. /\ s \in sockets /\ s \notin DOMAIN received
      /\ UNCHANGED <<asked, request, queries, timers, expired, sockets, byName, telling,
                     result, trapped>>
  BY DEF Receive, askVars, timeoutVars
<1>2. PICK a \in Answer : received' = Emplace(received, s, [answer |-> a, removed |-> FALSE])
  BY DEF Receive
<1>3. /\ DOMAIN received' = DOMAIN received \cup {s}
      /\ received'[s] = [answer |-> a, removed |-> FALSE]
      /\ \A t \in DOMAIN received : t # s => received'[t] = received[t]
  BY <1>2 DEF Emplace
<1>4. TypeOK'
  <2>1. [answer |-> a, removed |-> FALSE] \in Busy
    BY DEF Busy
  <2>2. DOMAIN received' \subseteq Socket /\ \A t \in DOMAIN received' : received'[t] \in Busy
    BY <1>3, <2>1 DEF IInv, TypeOK
  <2> QED BY <1>1, <2>2 DEF IInv, TypeOK
<1>5. RequestsAreAsked'
  BY <1>1 DEF IInv, RequestsAreAsked, Askers
<1>6. SocketsAreNumbered'
  BY <1>1, <1>3 DEF IInv, SocketsAreNumbered
<1>7. RemovedIsGone'
  BY <1>1, <1>3 DEF IInv, RemovedIsGone
<1>8. LastIsAlone'
  BY <1>1, <1>3 DEF IInv, LastIsAlone, Alive
<1>9. NoStrandedQuery' /\ NoLeakedSocket' /\ HeardAtMostOnce'
  BY <1>1 DEF IInv, NoStrandedQuery, NoLeakedSocket, HeardAtMostOnce
<1>10. TellsOnce' /\ TellsWhatWasAsked'
  BY <1>1 DEF IInv, TellsOnce, TellsWhatWasAsked
<1> QED BY <1>4, <1>5, <1>6, <1>7, <1>8, <1>9, <1>10 DEF IInv

(* UdpSocket::disconnect: the worker that has the answer still holds the   *)
(* socket that the engine forgets.                                         *)
LEMMA DisconnectKept ==
  ASSUME ResolverAssumption, IInv, NEW s \in Socket, Disconnect(s)
  PROVE  IInv'
<1>1. /\ s \in DOMAIN received
      /\ UNCHANGED <<asked, request, queries, timers, expired, byName, telling, result>>
  BY DEF Disconnect, askVars, timeoutVars
<1>2. /\ sockets' = sockets \ {s}
      /\ DOMAIN received' = DOMAIN received
      /\ \A t \in DOMAIN received : t # s => received'[t] = received[t]
      /\ received'[s] \in Busy
      /\ trapped' \in BOOLEAN /\ (~trapped' => ~trapped)
  <2>1. CASE s \in sockets
    <3>1. sockets' = sockets \ {s} /\ received' = [received EXCEPT ![s].removed = TRUE]
      BY <2>1 DEF Disconnect
    <3>2. received[s] \in [answer : Answer, removed : BOOLEAN]
      BY <1>1 DEF IInv, TypeOK, Busy
    <3>3. received'[s] = [received[s] EXCEPT !.removed = TRUE]
      BY <1>1, <3>1
    <3>4. received'[s] \in Busy
      BY <3>2, <3>3 DEF Busy
    <3>5. trapped' = trapped
      BY <2>1 DEF Disconnect
    <3>6. trapped' \in BOOLEAN /\ (~trapped' => ~trapped)
      BY <3>5, Zenon DEF IInv, TypeOK
    <3> QED BY <1>1, <3>1, <3>4, <3>6
  <2>2. CASE s \notin sockets
    <3>1. sockets' = sockets /\ received' = received
      BY <2>2 DEF Disconnect
    <3>2. trapped' = TRUE
      BY <2>2 DEF Disconnect
    <3>3. received[s] \in Busy
      BY <1>1 DEF IInv, TypeOK
    <3> QED BY <1>1, <2>2, <3>1, <3>2, <3>3
  <2> QED BY <2>1, <2>2
<1>3. TypeOK'
  BY <1>1, <1>2 DEF IInv, TypeOK
<1>4. RequestsAreAsked'
  BY <1>1 DEF IInv, RequestsAreAsked, Askers
<1>5. SocketsAreNumbered'
  BY <1>1, <1>2 DEF IInv, SocketsAreNumbered
<1>6. RemovedIsGone'
  BY <1>1, <1>2 DEF IInv, RemovedIsGone
<1>7. LastIsAlone'
  BY <1>1, <1>2 DEF IInv, LastIsAlone, Alive
<1>8. NoLeakedSocket'
  BY <1>1, <1>2 DEF IInv, NoLeakedSocket
<1>9. NoStrandedQuery' /\ HeardAtMostOnce'
  BY <1>1 DEF IInv, NoStrandedQuery, HeardAtMostOnce
<1>10. TellsOnce' /\ TellsWhatWasAsked'
  BY <1>1 DEF IInv, TellsOnce, TellsWhatWasAsked
<1> QED BY <1>3, <1>4, <1>5, <1>6, <1>7, <1>8, <1>9, <1>10 DEF IInv

(* A word about the query, which an answer or the timeout ended, takes its *)
(* place: the client waits for it and for nothing else.                    *)
LEMMA WordForQuery ==
  ASSUME IInv, NEW k \in DOMAIN queries, NEW resolved \in BOOLEAN, NEW late \in BOOLEAN,
         NEW word, word = [client |-> queries[k].client, resolved |-> resolved,
                           timeout |-> late],
         telling' = telling \cup {word}, DOMAIN queries' \subseteq DOMAIN queries \ {k},
         \A j \in DOMAIN queries' : queries'[j] = queries[j],
         UNCHANGED <<asked, result>>, byName' \in [Name -> SUBSET Family],
         \A n \in Name : byName[n] \subseteq byName'[n],
         resolved => Found(byName', queries[k].name, queries[k].prefs)
  PROVE  telling' \subseteq Word /\ TellsOnce' /\ TellsWhatWasAsked'
<1>1. queries[k] \in Query
  BY DEF IInv, TypeOK
<1>2. /\ word.client = queries[k].client /\ word.resolved = resolved
      /\ word.client \in Client
  BY <1>1 DEF Query
<1>3. word \in Word
  BY <1>1 DEF Query, Word
<1>4. telling' \subseteq Word
  BY <1>3 DEF IInv, TypeOK
<1>5. TellsOnce'
  BY <1>2 DEF IInv, TellsOnce
<1>6. TellsWhatWasAsked'
  <2>1. /\ \A c \in Client : asked'[c] = {} => result'[c] = <<>>
        /\ \A j \in DOMAIN queries' : asked'[queries'[j].client]
                = {[name |-> queries'[j].name, prefs |-> queries'[j].prefs]}
    BY DEF IInv, TellsWhatWasAsked
  <2>2. asked[queries[k].client] = {[name |-> queries[k].name, prefs |-> queries[k].prefs]}
    BY DEF IInv, TellsWhatWasAsked
  <2>3. \A w \in telling' : asked'[w.client] # {}
    BY <1>2, <2>2 DEF IInv, TellsWhatWasAsked
  <2>4. ASSUME resolved
        PROVE  \E a \in asked[word.client] : Found(byName', a.name, a.prefs)
    <3> DEFINE a == [name |-> queries[k].name, prefs |-> queries[k].prefs]
    <3>1. a \in asked[word.client]
      BY <1>2, <2>2
    <3>2. a.name = queries[k].name /\ a.prefs = queries[k].prefs
      OBVIOUS
    <3>3. Found(byName', a.name, a.prefs)
      BY <2>4, <3>2, Zenon
    <3> QED BY <3>1, <3>3
  <2>5. \A p : \A n \in Name : Found(byName, n, p) => Found(byName', n, p)
    BY DEF Found
  <2>6. ASSUME NEW w \in telling, w.resolved
        PROVE  \E a \in asked'[w.client] : Found(byName', a.name, a.prefs)
    <3>1. PICK a \in asked[w.client] : Found(byName, a.name, a.prefs)
      BY <2>6 DEF IInv, TellsWhatWasAsked
    <3>2. w.client \in Client
      BY DEF IInv, TypeOK, Word
    <3>3. a.name \in Name
      BY <3>2 DEF IInv, TypeOK
    <3> QED BY <2>5, <3>1, <3>3
  <2>7. \A w \in telling' :
          w.resolved => \E a \in asked'[w.client] : Found(byName', a.name, a.prefs)
    BY <1>2, <2>4, <2>6
  <2> QED BY <2>1, <2>3, <2>7 DEF TellsWhatWasAsked
<1> QED BY <1>4, <1>5, <1>6

(* ResolverImpl::requestComplete (resolverimpl.cpp:162-220): the socket    *)
(* that answered is gone, so one question fewer is open, and one entry     *)
(* fewer is in clients.                                                    *)
LEMMA CompleteKept ==
  ASSUME ResolverAssumption, IInv, NEW s \in Socket, RequestComplete(s)
  PROVE  IInv'
<1> DEFINE k == s[1]
           answer == received[s].answer
<1>1. /\ s \in DOMAIN received /\ s \notin sockets /\ k \in Request
      /\ UNCHANGED <<asked, request, expired, sockets, result, trapped>>
  BY DEF RequestComplete, askVars, IInv, RemovedIsGone, Socket
<1>2. /\ DOMAIN received' = DOMAIN received \ {s}
      /\ \A t \in DOMAIN received' : received'[t] = received[t]
  BY DEF RequestComplete, Restrict
<1>3. \A t : Alive(t)' => Alive(t) /\ t # s
  BY <1>1, <1>2 DEF Alive
<1>4. RequestsAreAsked' /\ SocketsAreNumbered' /\ RemovedIsGone' /\ HeardAtMostOnce'
  BY <1>1, <1>2 DEF IInv, RequestsAreAsked, Askers, SocketsAreNumbered, RemovedIsGone,
                    HeardAtMostOnce
<1>5. CASE k \notin DOMAIN queries
  <2>1. UNCHANGED <<byName, queries, timers, telling>>
    BY <1>5 DEF RequestComplete
  <2>2. TypeOK'
    BY <1>1, <1>2, <2>1 DEF IInv, TypeOK
  <2>3. LastIsAlone'
    BY <1>3, <2>1 DEF IInv, LastIsAlone
  <2>4. NoStrandedQuery' /\ NoLeakedSocket'
    BY <1>1, <2>1 DEF IInv, NoStrandedQuery, NoLeakedSocket
  <2>5. TellsOnce' /\ TellsWhatWasAsked'
    BY <1>1, <2>1 DEF IInv, TellsOnce, TellsWhatWasAsked
  <2> QED BY <1>4, <2>2, <2>3, <2>4, <2>5 DEF IInv
<1>6. ASSUME k \in DOMAIN queries
      PROVE  /\ byName' \in [Name -> SUBSET Family]
             /\ \A n \in Name : byName[n] \subseteq byName'[n]
             /\ queries[k] \in Query
  <2>1. byName' = IF answer = "addresses"
                  THEN [byName EXCEPT ![queries[k].name] = @ \cup {s[2]}]
                  ELSE byName
    BY <1>6 DEF RequestComplete
  <2>2. s[2] \in Family /\ queries[k] \in Query /\ byName \in [Name -> SUBSET Family]
    BY <1>6 DEF IInv, TypeOK, Socket
  <2> QED BY <2>1, <2>2 DEF Query
<1>7. CASE k \in DOMAIN queries /\ queries[k].waiting > 1
  <2>1. Complete(k, answer)
    BY <1>7 DEF RequestComplete
  <2>2. /\ queries' = [queries EXCEPT ![k].waiting = @ - 1]
        /\ UNCHANGED <<timers, telling>>
    BY <1>7, <2>1 DEF Complete
  <2>3. queries[k] \in [name : Name, prefs : Prefs, client : Client, waiting : 1 .. 2]
    BY <1>6, <1>7 DEF Query
  <2>4. queries'[k] = [queries[k] EXCEPT !.waiting = @ - 1]
    BY <1>7, <2>2
  <2>5. /\ DOMAIN queries' = DOMAIN queries
        /\ \A j \in DOMAIN queries : j # k => queries'[j] = queries[j]
    BY <2>2
  <2>6. /\ queries'[k] \in Query /\ queries'[k].client = queries[k].client
        /\ queries'[k].name = queries[k].name /\ queries'[k].prefs = queries[k].prefs
    BY <1>7, <2>3, <2>4 DEF Query
  <2>7. TypeOK'
    BY <1>1, <1>2, <1>6, <1>7, <2>2, <2>5, <2>6 DEF IInv, TypeOK
  <2>8. LastIsAlone'
    <3>1. s = <<k, "A">> \/ s = <<k, "AAAA">>
      BY DEF Socket, Family
    <3> QED BY <1>3, <2>5, <3>1 DEF IInv, LastIsAlone
  <2>9. NoStrandedQuery' /\ NoLeakedSocket'
    BY <1>1, <2>2, <2>5 DEF IInv, NoStrandedQuery, NoLeakedSocket
  <2>10. /\ \A j \in DOMAIN queries' : /\ queries'[j].client = queries[j].client
                                       /\ queries'[j].name = queries[j].name
                                       /\ queries'[j].prefs = queries[j].prefs
    BY <2>5, <2>6
  <2>11. TellsOnce'
    BY <1>1, <2>2, <2>5, <2>10 DEF IInv, TellsOnce
  <2>12. \A p : \A n \in Name : Found(byName, n, p) => Found(byName', n, p)
    BY <1>6, <1>7 DEF Found
  <2>13. TellsWhatWasAsked'
    <3>1. /\ \A c \in Client : asked'[c] = {} => result'[c] = <<>>
          /\ \A j \in DOMAIN queries' : asked'[queries'[j].client]
                  = {[name |-> queries'[j].name, prefs |-> queries'[j].prefs]}
          /\ \A w \in telling' : asked'[w.client] # {}
      BY <1>1, <2>2, <2>5, <2>10 DEF IInv, TellsWhatWasAsked
    <3>2. ASSUME NEW w \in telling, w.resolved
          PROVE  \E a \in asked[w.client] : Found(byName', a.name, a.prefs)
      <4>1. PICK a \in asked[w.client] : Found(byName, a.name, a.prefs)
        BY <3>2 DEF IInv, TellsWhatWasAsked
      <4>2. w.client \in Client
        BY DEF IInv, TypeOK, Word
      <4>3. a.name \in Name
        BY <4>2 DEF IInv, TypeOK
      <4> QED BY <2>12, <4>1, <4>3
    <3> QED BY <1>1, <2>2, <3>1, <3>2 DEF TellsWhatWasAsked
  <2> QED BY <1>4, <2>7, <2>8, <2>9, <2>11, <2>13 DEF IInv
<1>8. CASE k \in DOMAIN queries /\ ~(queries[k].waiting > 1)
  <2> DEFINE good == FoundByAnswer(queries[k], answer)
             word == [client |-> queries[k].client, resolved |-> good, timeout |-> FALSE]
  <2>1. Complete(k, answer)
    BY <1>8 DEF RequestComplete
  <2>2. /\ timers' = timers \ {k}
        /\ queries' = Restrict(queries, DOMAIN queries \ {k})
        /\ telling' = telling \cup
              {[client |-> queries[k].client, timeout |-> FALSE, resolved |-> good]}
    BY <1>8, <2>1 DEF Complete
  <2>3. /\ DOMAIN queries' = DOMAIN queries \ {k}
        /\ \A j \in DOMAIN queries' : queries'[j] = queries[j]
    BY <2>2 DEF Restrict
  <2>4. telling' = telling \cup {word}
    BY <2>2
  <2>5. good \in BOOLEAN /\ (good => Found(byName', queries[k].name, queries[k].prefs))
    BY DEF FoundByAnswer
  <2>6. telling' \subseteq Word /\ TellsOnce' /\ TellsWhatWasAsked'
    <3> HIDE DEF good
    <3> QED BY <1>1, <1>6, <1>8, <2>3, <2>4, <2>5, WordForQuery
  <2>7. TypeOK'
    BY <1>1, <1>2, <1>6, <1>8, <2>2, <2>3, <2>6 DEF IInv, TypeOK
  <2>8. LastIsAlone'
    BY <1>3, <2>3 DEF IInv, LastIsAlone
  <2>9. NoStrandedQuery'
    BY <1>1, <2>2, <2>3 DEF IInv, NoStrandedQuery
  <2>10. NoLeakedSocket'
    <3>1. queries[k].waiting = 1
      BY <1>6, <1>8 DEF Query
    <3>2. s = <<k, "A">> \/ s = <<k, "AAAA">>
      BY DEF Socket, Family
    <3>3. <<k, "A">> \notin sockets
      BY <1>1, <1>8, <3>1, <3>2 DEF IInv, LastIsAlone, Alive
    <3> QED BY <1>1, <2>3, <3>3 DEF IInv, NoLeakedSocket
  <2> QED BY <1>4, <2>6, <2>7, <2>8, <2>9, <2>10 DEF IInv
<1> QED BY <1>5, <1>7, <1>8

(* client->resolved or client->notResolved, with the lock released         *)
(* (resolverimpl.cpp:208-216).                                             *)
LEMMA TellKept ==
  ASSUME ResolverAssumption, IInv, Tell
  PROVE  IInv'
<1>1. PICK word \in telling : telling' = telling \ {word} /\ result' = Hears(result, word)
  BY DEF Tell
<1>2. UNCHANGED <<asked, request, queries, timers, expired, sockets, received, byName, trapped>>
  BY DEF Tell, askVars, timeoutVars
<1> DEFINE heard == [resolved |-> word.resolved, timeout |-> word.timeout]
<1>3. /\ word.client \in Client /\ heard \in Words
      /\ result[word.client] = <<>> /\ Append(<<>>, heard) = <<heard>>
  BY DEF IInv, TypeOK, Word, Words, TellsOnce
<1>4. /\ result'[word.client] = <<heard>>
      /\ \A d \in Client : d # word.client => result'[d] = result[d]
      /\ result' = [d \in Client |-> result'[d]]
  <2>1. result' = [result EXCEPT ![word.client] = <<heard>>]
    BY <1>1, <1>3 DEF Hears
  <2> QED BY <1>3, <2>1 DEF IInv, HeardAtMostOnce
<1>5. TypeOK'
  BY <1>1, <1>2 DEF IInv, TypeOK
<1>6. RequestsAreAsked' /\ SocketsAreNumbered' /\ RemovedIsGone'
  BY <1>2 DEF IInv, RequestsAreAsked, Askers, SocketsAreNumbered, RemovedIsGone
<1>7. LastIsAlone' /\ NoStrandedQuery' /\ NoLeakedSocket'
  BY <1>2 DEF IInv, LastIsAlone, Alive, NoStrandedQuery, NoLeakedSocket
<1>8. HeardAtMostOnce'
  BY <1>3, <1>4 DEF IInv, HeardAtMostOnce
<1>9. /\ \A k \in DOMAIN queries : queries[k].client # word.client
      /\ \A w \in telling' : w.client # word.client
      /\ \A k \in DOMAIN queries : queries[k].client \in Client
      /\ \A w \in telling : w.client \in Client
  BY <1>1 DEF IInv, TypeOK, Query, Word, TellsOnce
<1>10. TellsOnce'
  BY <1>1, <1>2, <1>4, <1>9 DEF IInv, TellsOnce
<1>11. asked[word.client] # {}
  BY DEF IInv, TellsWhatWasAsked
<1>12. TellsWhatWasAsked'
  BY <1>1, <1>2, <1>4, <1>11 DEF IInv, TellsWhatWasAsked
<1> QED BY <1>5, <1>6, <1>7, <1>8, <1>10, <1>12 DEF IInv

(* The timeout goes from timers to eventQueue.                             *)
LEMMA ExpireKept ==
  ASSUME ResolverAssumption, IInv, NEW k \in Request, Expire(k)
  PROVE  IInv'
<1>1. /\ timers' = timers \ {k} /\ expired' = expired \cup {k}
      /\ UNCHANGED <<asked, request, queries, sockets, received, byName, telling, result,
                     trapped>>
  BY DEF Expire, askVars
<1>2. TypeOK'
  BY <1>1 DEF IInv, TypeOK
<1>3. RequestsAreAsked' /\ SocketsAreNumbered' /\ RemovedIsGone'
  BY <1>1 DEF IInv, RequestsAreAsked, Askers, SocketsAreNumbered, RemovedIsGone
<1>4. LastIsAlone' /\ NoStrandedQuery' /\ NoLeakedSocket' /\ HeardAtMostOnce'
  BY <1>1 DEF IInv, LastIsAlone, Alive, NoStrandedQuery, NoLeakedSocket, HeardAtMostOnce
<1>5. TellsOnce' /\ TellsWhatWasAsked'
  BY <1>1 DEF IInv, TellsOnce, TellsWhatWasAsked
<1> QED BY <1>2, <1>3, <1>4, <1>5 DEF IInv

(* ResolverImpl::queryTimedout (resolverimpl.cpp:136-157): a query that is *)
(* swept away takes its A question's socket with it.                       *)
LEMMA TimeoutKept ==
  ASSUME ResolverAssumption, IInv, NEW k \in Request, ~trapped, QueryTimedout(k)
  PROVE  IInv'
<1>1. /\ expired' = expired \ {k}
      /\ UNCHANGED <<asked, request, timers, received, byName, result>>
  BY DEF QueryTimedout, askVars
<1>2. CASE k \notin DOMAIN queries
  <2>1. UNCHANGED <<queries, sockets, trapped, telling>>
    BY <1>2 DEF QueryTimedout
  <2>2. TypeOK'
    BY <1>1, <2>1 DEF IInv, TypeOK
  <2>3. RequestsAreAsked' /\ SocketsAreNumbered' /\ RemovedIsGone'
    BY <1>1, <2>1 DEF IInv, RequestsAreAsked, Askers, SocketsAreNumbered, RemovedIsGone
  <2>4. LastIsAlone' /\ NoStrandedQuery' /\ NoLeakedSocket' /\ HeardAtMostOnce'
    BY <1>1, <1>2, <2>1 DEF IInv, LastIsAlone, Alive, NoStrandedQuery, NoLeakedSocket,
                            HeardAtMostOnce
  <2>5. TellsOnce' /\ TellsWhatWasAsked'
    BY <1>1, <2>1 DEF IInv, TellsOnce, TellsWhatWasAsked
  <2> QED BY <2>2, <2>3, <2>4, <2>5 DEF IInv
<1>3. CASE k \in DOMAIN queries
  <2>1. PICK rest \in SUBSET (DOMAIN queries \ {k}) :
          \E last \in IF rest = {} THEN {k} ELSE rest : Sweep(rest \cup {k}, last)
    BY <1>3 DEF QueryTimedout
  <2>2. PICK last \in IF rest = {} THEN {k} ELSE rest : Sweep(rest \cup {k}, last)
    BY <2>1
  <2> DEFINE swept == rest \cup {k}
             old == {j \in swept : Alive(<<j, "A">>)} \X {"A"}
             word == [client |-> queries[last].client, resolved |-> FALSE, timeout |-> TRUE]
  <2>3. last \in swept /\ k \in swept /\ swept \subseteq DOMAIN queries
    BY <1>3, <2>1, <2>2
  <2>4. /\ queries' = Restrict(queries, DOMAIN queries \ swept)
        /\ sockets' = sockets \ old
        /\ telling' = telling \cup {word}
    BY <2>2 DEF Sweep
  <2>5. trapped' \in BOOLEAN
    BY <2>2 DEF Sweep
  <2>6. /\ DOMAIN queries' = DOMAIN queries \ swept
        /\ \A j \in DOMAIN queries' : queries'[j] = queries[j]
    BY <2>4 DEF Restrict
  <2>7. \A n \in Name : byName[n] \subseteq byName'[n]
    BY <1>1
  <2>8. byName' \in [Name -> SUBSET Family]
    BY <1>1 DEF IInv, TypeOK
  <2>9. telling' \subseteq Word /\ TellsOnce' /\ TellsWhatWasAsked'
    <3>1. DOMAIN queries' \subseteq DOMAIN queries \ {last}
      BY <2>3, <2>6
    <3> QED BY <1>1, <2>3, <2>4, <2>6, <2>7, <2>8, <3>1, WordForQuery
  <2>10. TypeOK'
    BY <1>1, <2>4, <2>5, <2>6, <2>9 DEF IInv, TypeOK
  <2>11. RequestsAreAsked' /\ SocketsAreNumbered' /\ RemovedIsGone'
    BY <1>1, <2>4 DEF IInv, RequestsAreAsked, Askers, SocketsAreNumbered, RemovedIsGone
  <2>12. LastIsAlone'
    BY <1>1, <2>4, <2>6 DEF IInv, LastIsAlone, Alive
  <2>13. NoStrandedQuery'
    BY <1>1, <2>3, <2>6 DEF IInv, NoStrandedQuery
  <2>14. NoLeakedSocket'
    <3> SUFFICES ASSUME NEW j \in Request, <<j, "A">> \in sockets'
                 PROVE  j \in DOMAIN queries'
      BY DEF NoLeakedSocket
    <3>1. <<j, "A">> \in sockets /\ <<j, "A">> \notin old
      BY <2>4
    <3>2. j \in DOMAIN queries
      BY <3>1 DEF IInv, NoLeakedSocket
    <3>3. j \notin swept
      BY <3>1 DEF Alive
    <3> QED BY <2>6, <3>2, <3>3
  <2>15. HeardAtMostOnce'
    BY <1>1 DEF IInv, HeardAtMostOnce
  <2> QED BY <2>9, <2>10, <2>11, <2>12, <2>13, <2>14, <2>15 DEF IInv
<1> QED BY <1>2, <1>3

-----------------------------------------------------------------------------

(* The invariant holds at first, ...                                       *)
LEMMA InitHolds == ResolverAssumption /\ Init => IInv
<1> SUFFICES ASSUME ResolverAssumption, Init PROVE IInv
  OBVIOUS
<1> USE DEF Init
<1>1. Cardinality(Client) \in Nat
  BY FS_CardinalityType DEF ResolverAssumption
<1>2. DOMAIN queries = {} /\ DOMAIN received = {}
  OBVIOUS
<1>3. TypeOK
  <2>1. asked \in [Client -> SUBSET [name : Name, prefs : Prefs]]
    OBVIOUS
  <2>2. byName \in [Name -> SUBSET Family]
    OBVIOUS
  <2>3. trapped \in BOOLEAN
    BY Zenon
  <2>4. request \in 0 .. Cardinality(Client) /\ DOMAIN queries \subseteq 0 .. request - 1
    BY <1>1, <1>2
  <2> HIDE DEF Init
  <2>5. timers = {} /\ expired = {} /\ sockets = {} /\ telling = {}
    BY DEF Init
  <2> QED BY <1>2, <2>1, <2>2, <2>3, <2>4, <2>5 DEF TypeOK
<1>4. RequestsAreAsked
  <2>1. Askers = {}
    BY DEF Askers
  <2>2. Cardinality(Askers) = 0
    BY <2>1, FS_EmptySet
  <2> QED BY <2>2 DEF RequestsAreAsked
<1>5. SocketsAreNumbered /\ RemovedIsGone /\ LastIsAlone /\ NoStrandedQuery /\ NoLeakedSocket
  BY <1>2 DEF SocketsAreNumbered, RemovedIsGone, LastIsAlone, NoStrandedQuery, NoLeakedSocket
<1>6. HeardAtMostOnce
  BY DEF HeardAtMostOnce
<1>7. TellsOnce /\ TellsWhatWasAsked
  BY <1>2 DEF TellsOnce, TellsWhatWasAsked
<1> QED BY <1>3, <1>4, <1>5, <1>6, <1>7 DEF IInv

(* resolve, either way.                                                    *)
LEMMA ResolveKept ==
  ASSUME ResolverAssumption, IInv, NEW c \in Client, Resolve(c)
  PROVE  IInv'
<1>1. asked[c] = {} /\ UNCHANGED <<received, byName, telling, trapped>>
  BY DEF Resolve
<1>2. PICK name \in Name, prefs \in Prefs :
        /\ asked' = [asked EXCEPT ![c] = {[name |-> name, prefs |-> prefs]}]
        /\ ResolveKnown(c, name, prefs) \/ ResolveUnknown(c, name, prefs)
  BY DEF Resolve
<1>3. CASE ResolveKnown(c, name, prefs)
  BY <1>1, <1>2, <1>3, KnownKept
<1>4. CASE ResolveUnknown(c, name, prefs)
  BY <1>1, <1>2, <1>4, UnknownKept
<1> QED BY <1>2, <1>3, <1>4

(* ... and every step keeps it.                                            *)
LEMMA StepKept ==
  ASSUME ResolverAssumption, IInv, [Next]_vars
  PROVE  IInv'
<1>1. CASE UNCHANGED vars
  <2> USE <1>1 DEF vars, askVars, timeoutVars
  <2>1. TypeOK' /\ RequestsAreAsked' /\ SocketsAreNumbered' /\ RemovedIsGone'
    BY DEF IInv, TypeOK, RequestsAreAsked, Askers, SocketsAreNumbered, RemovedIsGone
  <2>2. LastIsAlone' /\ NoStrandedQuery' /\ NoLeakedSocket' /\ HeardAtMostOnce'
    BY DEF IInv, LastIsAlone, Alive, NoStrandedQuery, NoLeakedSocket, HeardAtMostOnce
  <2>3. TellsOnce' /\ TellsWhatWasAsked'
    BY DEF IInv, TellsOnce, TellsWhatWasAsked
  <2> QED BY <2>1, <2>2, <2>3 DEF IInv
<1>2. CASE \E c \in Client : Resolve(c)
  BY <1>2, ResolveKept
<1>3. CASE \E s \in Socket : Receive(s)
  BY <1>3, ReceiveKept
<1>4. CASE Worker
  BY <1>4, TellKept, DisconnectKept, CompleteKept DEF Worker
<1>5. CASE ~trapped /\ \E k \in Request : Expire(k) \/ QueryTimedout(k)
  BY <1>5, ExpireKept, TimeoutKept
<1> QED BY <1>1, <1>2, <1>3, <1>4, <1>5 DEF Next

(* IInv is an invariant: the properties follow from it.                    *)
THEOREM Invariance == Spec => []IInv
<1>1. Init => IInv
  BY InitHolds, ResolverAssumption
<1>2. IInv /\ [Next]_vars => IInv'
  BY StepKept, ResolverAssumption
<1> QED BY <1>1, <1>2, PTL DEF Spec

-----------------------------------------------------------------------------

(* The variables keep their types; a pending query has a client that waits. *)
THEOREM TypeCorrect == Spec => []TypeOK
<1>1. IInv => TypeOK
  BY DEF IInv
<1> QED BY <1>1, Invariance, PTL

(* A pending query has at least as many clients entries as it has questions *)
(* open: its last answer, and no other, ends it (resolverimpl.cpp:177-206). *)
THEOREM QueriesLast == Spec => []AnswersAreAwaited
<1>1. IInv => AnswersAreAwaited
  <2> SUFFICES ASSUME IInv, NEW k \in DOMAIN queries
               PROVE  Cardinality({f \in Family : Alive(<<k, f>>)}) <= queries[k].waiting
    BY DEF AnswersAreAwaited
  <2> DEFINE open == {f \in Family : Alive(<<k, f>>)}
  <2>1. queries[k].waiting \in 1 .. 2
    BY DEF IInv, TypeOK, Query
  <2>2. CASE queries[k].waiting = 2
    <3>1. Cardinality(open) <= Cardinality(Family)
      BY FamilyIsTwo, FS_Subset
    <3> QED BY <2>2, <3>1, FamilyIsTwo
  <2>3. CASE queries[k].waiting = 1
    <3>1. PICK g : open \subseteq {g}
      BY <2>3 DEF IInv, LastIsAlone, Family
    <3>2. IsFiniteSet({g}) /\ Cardinality({g}) = 1
      BY FS_Singleton
    <3>3. Cardinality(open) <= Cardinality({g})
      BY <3>1, <3>2, FS_Subset
    <3> QED BY <2>3, <3>2, <3>3
  <2> QED BY <2>1, <2>2, <2>3
<1> QED BY <1>1, Invariance, PTL

(* A pending query's timeout is set or in the queue (resolverimpl.cpp:126, *)
(* 131-150, 178): no order of answers, failed sends and other queries'     *)
(* timeouts cancels it before the query ends.                              *)
THEOREM QueriesTimeOut == Spec => []NoStrandedQuery
<1>1. IInv => NoStrandedQuery
  BY DEF IInv
<1> QED BY <1>1, Invariance, PTL

(* The socket of an A question goes before its query does, or with it.     *)
THEOREM SocketsGoWithQueries == Spec => []NoLeakedSocket
<1>1. IInv => NoLeakedSocket
  BY DEF IInv
<1> QED BY <1>1, Invariance, PTL

-----------------------------------------------------------------------------
(* Resolver implements LookupService.                                      *)

Outcome == [c \in Client |-> {r.resolved : r \in Range(result[c])}]

(* Hears, in the service's terms.                                          *)
LEMMA OutcomeHeard ==
  ASSUME IInv, NEW c \in Client, NEW resolved \in BOOLEAN, NEW late \in BOOLEAN,
         result[c] = <<>>,
         result' = Hears(result, [client |-> c, resolved |-> resolved, timeout |-> late])
  PROVE  Outcome[c] = {} /\ Outcome' = [Outcome EXCEPT ![c] = {resolved}]
<1> DEFINE heard == [resolved |-> resolved, timeout |-> late]
           good(seq) == {r.resolved : r \in Range(seq)}
<1>1. Append(<<>>, heard) = <<heard>>
  OBVIOUS
<1>2. result' = [result EXCEPT ![c] = <<heard>>]
  BY <1>1 DEF Hears
<1>3. result'[c] = <<heard>> /\ \A d \in Client : d # c => result'[d] = result[d]
  BY <1>2 DEF IInv, HeardAtMostOnce
<1>4. good(<<heard>>) = {resolved} /\ good(<<>>) = {}
  BY DEF Range
<1> HIDE DEF good
<1>5. Outcome = [d \in Client |-> good(result[d])]
  BY DEF Outcome, good
<1>6. Outcome' = [d \in Client |-> good(result'[d])]
  BY DEF Outcome, good
<1> QED BY <1>3, <1>4, <1>5, <1>6

(* Steps that tell no client anything change no outcome.                   *)
LEMMA OutcomeKept == UNCHANGED result => UNCHANGED Outcome
  BY DEF Outcome

(* At first nobody has asked.                                              *)
LEMMA ServiceInit == Init => Service!Init
<1> SUFFICES ASSUME Init PROVE Service!Init
  OBVIOUS
<1>1. Range(<<>>) = {}
  BY DEF Range
<1>2. \A c \in Client : result[c] = <<>>
  BY DEF Init
<1> QED BY <1>1, <1>2 DEF Service!Init, Init

(* resolve is an Ask; of a known name, an Ask and a Hear at once.          *)
LEMMA ResolveIsAsk ==
  ASSUME IInv, NEW c \in Client, Resolve(c)
  PROVE  Service!Next
<1>1. asked[c] = {} /\ UNCHANGED byName
  BY DEF Resolve
<1>2. PICK name \in Name, prefs \in Prefs :
        /\ asked' = [asked EXCEPT ![c] = {[name |-> name, prefs |-> prefs]}]
        /\ ResolveKnown(c, name, prefs) \/ ResolveUnknown(c, name, prefs)
  BY DEF Resolve
<1>3. Service!Ask(c)
  BY <1>1, <1>2 DEF Service!Ask
<1>4. CASE ResolveKnown(c, name, prefs)
  <2> DEFINE good == Found(byName, name, prefs)
  <2>1. good \in BOOLEAN /\ result[c] = <<>>
    BY <1>1 DEF Found, IInv, TellsWhatWasAsked
  <2>2. result' = Hears(result, [client |-> c, resolved |-> good, timeout |-> FALSE])
    BY <1>4 DEF ResolveKnown
  <2>3. Outcome[c] = {} /\ Outcome' = [Outcome EXCEPT ![c] = {good}]
    <3> HIDE DEF good
    <3> QED BY <2>1, <2>2, OutcomeHeard
  <2>4. ASSUME good PROVE Service!Suits(c)
    <3> DEFINE a == [name |-> name, prefs |-> prefs]
    <3>1. a \in asked'[c] /\ a.name = name /\ a.prefs = prefs
      BY <1>2 DEF IInv, TypeOK
    <3>2. byName'[name] \cap Types(prefs) # {}
      BY <1>1, <2>4 DEF Found
    <3> QED BY <3>1, <3>2 DEF Service!Suits
  <2>5. Service!Hear(c)
    BY <2>1, <2>3, <2>4 DEF Service!Hear, Outcome
  <2> QED BY <1>3, <2>5 DEF Service!Next
<1>5. CASE ResolveUnknown(c, name, prefs)
  <2>1. UNCHANGED Outcome
    BY <1>5, OutcomeKept DEF ResolveUnknown
  <2> QED BY <1>3, <2>1 DEF Service!Next, Outcome
<1> QED BY <1>2, <1>4, <1>5

(* The word that is told is a Hear.                                        *)
LEMMA TellIsHear ==
  ASSUME IInv, Tell
  PROVE  Service!Next
<1>1. PICK word \in telling : result' = Hears(result, word)
  BY DEF Tell
<1>2. UNCHANGED <<asked, byName>>
  BY DEF Tell, askVars
<1> DEFINE c == word.client
<1>3. c \in Client /\ word.resolved \in BOOLEAN /\ word.timeout \in BOOLEAN
  BY DEF IInv, TypeOK, Word
<1>4. result[c] = <<>> /\ asked[c] # {}
  BY DEF IInv, TellsOnce, TellsWhatWasAsked
<1>5. word = [client |-> c, resolved |-> word.resolved, timeout |-> word.timeout]
  BY DEF IInv, TypeOK, Word
<1>6. Outcome[c] = {} /\ Outcome' = [Outcome EXCEPT ![c] = {word.resolved}]
  BY <1>1, <1>3, <1>4, <1>5, OutcomeHeard
<1>7. ASSUME word.resolved PROVE Service!Suits(c)
  <2>1. PICK a \in asked[c] : Found(byName, a.name, a.prefs)
    BY <1>7 DEF IInv, TellsWhatWasAsked
  <2>2. a \in [name : Name, prefs : Prefs]
    BY <1>3 DEF IInv, TypeOK
  <2> QED BY <1>2, <2>1, <2>2 DEF Service!Suits, Found
<1>8. Service!Hear(c)
  BY <1>3, <1>6, <1>7 DEF Service!Hear, Outcome
<1> QED BY <1>2, <1>3, <1>4, <1>8 DEF Service!Next

(* An answer with an address is a Learn; other answers are no step.        *)
LEMMA CompleteIsLearn ==
  ASSUME IInv, NEW s \in Socket, RequestComplete(s)
  PROVE  Service!Next \/ UNCHANGED Service!vars
<1>1. UNCHANGED <<asked, result>>
  BY DEF RequestComplete, askVars
<1>2. UNCHANGED Outcome
  BY <1>1, OutcomeKept
<1>3. CASE UNCHANGED byName
  BY <1>1, <1>2, <1>3 DEF Service!vars, Outcome
<1>4. CASE ~UNCHANGED byName
  <2>1. /\ s[1] \in DOMAIN queries
        /\ byName' = [byName EXCEPT ![queries[s[1]].name] = @ \cup {s[2]}]
    BY <1>4 DEF RequestComplete
  <2>2. queries[s[1]].name \in Name /\ s[2] \in Family
    BY <2>1 DEF IInv, TypeOK, Query, Socket
  <2> QED BY <1>1, <1>2, <2>1, <2>2 DEF Service!Next, Service!Learn, Outcome
<1> QED BY <1>3, <1>4

(* A step of the resolver asks, learns, tells a client, or is none of the  *)
(* service.                                                                *)
LEMMA ServiceStep ==
  ASSUME IInv, [Next]_vars
  PROVE  [Service!Next]_(Service!vars)
<1>1. CASE UNCHANGED <<asked, byName, result>>
  <2>1. UNCHANGED Outcome
    BY <1>1, OutcomeKept
  <2> QED BY <1>1, <2>1 DEF Service!vars, Outcome
<1>2. CASE \E c \in Client : Resolve(c)
  BY <1>2, ResolveIsAsk
<1>3. CASE \E s \in Socket : Receive(s)
  BY <1>1, <1>3 DEF Receive, askVars
<1>4. CASE Tell
  BY <1>4, TellIsHear
<1>5. CASE \E s \in Socket : Disconnect(s)
  BY <1>1, <1>5 DEF Disconnect, askVars
<1>6. CASE \E s \in Socket : RequestComplete(s)
  BY <1>6, CompleteIsLearn
<1>7. CASE \E k \in Request : Expire(k) \/ QueryTimedout(k)
  BY <1>1, <1>7 DEF Expire, QueryTimedout, askVars
<1>8. CASE UNCHANGED vars
  BY <1>1, <1>8 DEF vars, askVars
<1> QED BY <1>2, <1>3, <1>4, <1>5, <1>6, <1>7, <1>8 DEF Next, Worker

(* A client hears at most once, only after it asked, and hears of an       *)
(* address only if an answer gave one that suits (resolverimpl.cpp,        *)
(* resolve, requestComplete and queryTimedout).                            *)
THEOREM LookupsAreServed == Spec => ImplementsLookups
<1>1. Init => Service!Init
  BY ServiceInit
<1>2. IInv /\ [Next]_vars => [Service!Next]_(Service!vars)
  BY ServiceStep
<1>3. IInv' => \A c \in Client : Len(result'[c]) <= 1
  <2>1. Len(<<>>) = 0 /\ \A word : Len(<<word>>) = 1
    OBVIOUS
  <2>2. 0 <= 1 /\ 1 <= 1
    OBVIOUS
  <2> QED BY <2>1, <2>2 DEF IInv, HeardAtMostOnce
<1> QED BY <1>1, <1>2, <1>3, Invariance, PTL DEF Spec, Service!Spec, ImplementsLookups
=============================================================================
