# A verification of epoller

`epoller` is a small C++ network engine (`src/src`): one thread waits in
`epoll_wait`, a pool of workers runs what it reports, and on top of it there are
timers, TCP and UDP sockets, a DNS resolver and, in `main.cpp`, an HTTP proxy. This
directory holds TLA+ modules that model it, the TLC configurations that check them
on small instances, and TLAPS proofs of its safety properties for every number of
timers, sockets, workers, bytes, clients and names.

The repository has no documentation and no tests. What the code claims of itself it
claims in its assertions (`assert` in `utils.hpp` traps) and in a few names; the
findings below quote those.

## The system

| part | state it keeps | operations | talks to |
|---|---|---|---|
| `Timers` (`timers.cpp`) | `timesByDate` (a map, one entry a date), `timersByOwner` | `setTimer`, `cancelTimer`, `cancelAllTimers`, `handleTimerExpired`, `clear` | `Engine::setTimerTrigger`, under `timerLock` |
| `Engine`, dispatch (`engine.cpp`, `semaphore.cpp`, `event.cpp`) | `eventHash`, `eventQueue` and its semaphore, `timerEvent`, the one-shot registrations in the kernel | `doEpoll`, `newEvent`, `worker`, `run`, `doAdd`, `doRemove`, `doRunAsync`, `doTriggerWrites`, `handleTimerExpired` | every socket's `handleRead`, `handleWrite`, `handleError`, `waitingOutEvent` |
| `Engine`, start and stop | `stopping`, `activeCount`, `slaves` with `Worker::exited` | `doInit`, `startWorkers`, `doStop`, `doSignalHandler`, `stopWorkers` | signals, all threads |
| `TcpStream` (`tcpstream.cpp`) | `writeQueue`, `connected`, `once`, `blocked`, `writeTriggered`, `disconnecting`, two timers | `create` (twice), `handleWrite`, `handleRead`, `handleError`, `queueWrite`, `disconnect`, `asyncEgress`, `asyncDisconnect`, `asyncWriteComplete` | the engine below, its `TcpStreamIf` client above |
| `ResolverImpl`, `UdpResolver` (`resolverimpl.cpp`), `UdpSocket` (`udpsocket.cpp`) | `resQueries`, `byName`, `request`, one timeout a query, one UDP socket a question | `resolve`, `requestComplete`, `queryTimedout` | the engine, `ResolverIf` clients |
| `TcpConn` (`tcpconn.cpp`) | its client, itself | `create`, `resolved`, `notResolved`, destructor | the resolver, `TcpStream::create` |
| `TcpListener` (`tcplistener.cpp`) | the client factory | `handleRead` | `TcpStream::create` |
| `HttpProxy`, `Remote` (`main.cpp`) | `header`, `ep`, `disconnectWhenCompleted`; `initWrite` | `received`, `doWrite`, `writeComplete`, `disconnect` | two `TcpStream`s, `TcpConn` |
| `Query` (`query.cpp`, `endians.hpp`) | none | `resolve` makes a question's datagram, `decode` reads an answer's | `UdpResolver` |
| `Socket`, `Logger`, `Counters`, utilities | file descriptors, statistics | wrappers | |
| TLS (`tls*.cpp`, `enc_ocb.cpp`) | none: every line is commented out | | |

What is hard about it: every client callback, timer and socket handler may run on any
worker; a registration is `EPOLLONESHOT`, so one path that forgets to re-arm it makes a
socket deaf; reports, timer expiries and callbacks meet in one queue and may be run
after the thing they are about is gone; the locks are many and short, and some reads
are made outside them on purpose or by accident; the stop runs partly in a signal
handler. `PROJECT.json` lists these places one by one under `hazards`, each at its
line, with the properties that cover it or the reason why none does.

## Modules

| module | models | kind |
|---|---|---|
| `TimerService` | what `Engine::setTimer` promises: one-shot timers | abstract |
| `Timers` | `timers.cpp` and the timerfd part of `engine.cpp`; implements `TimerService` | detailed |
| `TimersProofs` | theorems about `Timers` | proofs |
| `Dispatch` | the engine's event loop, queue, semaphore, workers and one-shot registrations | detailed |
| `DispatchProofs` | theorems about `Dispatch` | proofs |
| `Lifecycle` | start, idle test, stop, signals, `stopWorkers` | detailed |
| `LifecycleProofs` | theorems about `Lifecycle` | proofs |
| `BytePipe` | what `queueWrite` promises: a prefix of the bytes, in order, each once | abstract |
| `TcpStream` | one stream and what of the engine drives it; implements `BytePipe` | detailed |
| `TcpStreamProofs` | theorems about `TcpStream` | proofs |
| `LookupService` | what a resolver promises a client | abstract |
| `Resolver` | `resolverimpl.cpp` with the UDP sockets and the clients; implements `LookupService` | detailed |
| `ResolverProofs` | theorems about `Resolver` | proofs |
| `Query` | `query.cpp`: the bytes of a question, and what is read from those of an answer | operators |
| `QueryProofs` | lemmas about `Query`, for any name and every answer | proofs |
| `Question` | one lookup in the steps of its code, byte by byte; implements `Resolver` | detailed |
| `QuestionProofs` | theorems about `Question` | proofs |
| `Relay` | the proxy: `HttpProxy`, its `Remote`s and their way to a stream | detailed |
| `RelayProofs` | theorems about `Relay` and about the search in `HttpHeader` | proofs |
| `HttpHeader` | how the proxy reads a request's header | operators |
| `MC...` | the instances TLC checks | |

Each detailed module cuts the others off at an interface another module has as its
subject. `Dispatch` and `TcpStream` see a timer only as an event that may come (what
`Timers` guarantees); `Lifecycle` has one step for what an event does (`Dispatch` has
the rest); `Resolver` has answers reach a worker and timers expire, and `resolve` is one
step of it, which `Question` shows to be sound; `Relay` sees of a `TcpStream` that what
is queued is written and that `writeComplete` follows.

### Timers

A timer is a member of `Timer`, with the `Owner` whose lifetime its event follows and
the `Timeout` it is always set for. `timesByDate` and `timersByOwner` are sets of
entries; `Emplace` keeps the map's one entry a date, `DatesWithout` and `OwnedWithout`
are the two halves of `removeTimer`. `timerEvent`, `fdExpiry`, `fdReadable`,
`fdInterest` and `epollReported` are the engine's armed event and the kernel's timerfd
with its one-shot registration. `SetTrigger` is `setTrigger` with `setTimerTrigger`;
`SetTriggerOnWorker` adds the window on a worker between draining the timerfd and
setting it, in which the old setting may go off and be reported. A failed assertion
makes `phase` "trapped". The times are numbers: `Horizon` bounds when timers may be
set, `MaxTime` the clock; at `MaxTime` everything that is armed goes off.

### Dispatch

`pc`, `event`, `needOut` and `resume` are each thread's program counter and locals;
`eventQueue.push_back` and `sem.signal()` are two steps, `waitingOutEvent()` and
`EPOLL_CTL_MOD` are two steps, `read` and the client's callback are one each round of
`handleRead`'s loop. `armed` and `out` are the kernel's view of the registrations.
`HandleWrite` and `HandleReadChunk` have of `TcpStream` what the engine's steps depend
on; that includes the write that fails, which loses its chunk and leaves the rest queued with
neither `writeTriggered` nor `blocked`. `unsent` counts the chunks. `ClientCall` is a client that may write, disconnect, open another stream or do
nothing when it is called back.

### Lifecycle

The epoll thread, the workers and the signal that one sends to the other, step by
step, with the lock `evHashLock` that the signal handler takes (`hashLocked`, `stuck`),
the three unlocked reads of the idle test (`IdleHash`, `IdleTimer`, `IdleCount`) and
the rounds of `stopWorkers`. The semaphore counts up to `MaxSem` and no further, which is
more than the queue's `MaxQueue` events ever give permits for: only the rounds of
`stopWorkers`, which give permits without events, reach it. `Garbage` is what the uninitialised `Worker::exited` may
hold: an undefined read is a choice.

### TcpStream

The bytes a client queues are numbered, so that order and duplicates show.
`HandleWriteConnected` is one pass of `handleWrite`, which ends because all was
written, the buffer was full, the rate was exceeded or the socket failed.
`create` is cut where another thread may see the stream: after `client->tcpStream`
is set, and before `Engine::add`. A stream that was accepted is `limited` (it has an
egress rate), one that connects is not.

### Resolver

`queries`, `byName`, `timers`, `expired` and `sockets` are `resQueries`, the names, the
timeouts set, the timeouts that wait in the queue, and the UDP sockets in `eventHash`.
A worker that received an answer first disconnects the socket without the lock, then
does `requestComplete` under it, then tells the client: three steps. `QueryTimedout`
has the loop that goes on to the end of the map: it sweeps away any other queries and
tells one client. `Ipv6Only` is left out: it makes `resolvers.back()` undefined. What an
answer holds is one of three: no name that was asked, no address, or addresses.

### Query and Question

`Query` translates `Query::resolve` and `Query::decode` with all they call. A datagram
is a sequence of bytes; past its end zeros are read, as from the vector that
`handleRead` cuts to what it received. It keeps the oddities of the code: `getLen`
takes a dot position of 0 for no dot yet, and `decode` moves over the data of an address
twice.

`Question` is one lookup on top of it. `resolve` holds `ResolverImpl::lock` while it
makes a socket for each record type (`Create`), sends the question (`Pop`, `Sent`,
`WouldBlock`, `NotSent` are the loop of `UdpSocket::handleWrite` with `doWrite`), pushes
a client (`ClientWaits`) and, after the last, sets the timeout (`SetTimer`).
Meanwhile the nameserver answers what was sent, and a worker receives the answer and
removes the socket; only `requestComplete` and `queryTimedout` wait for the lock. The
nameserver is written from RFC 1035 and understands exactly the datagrams that document
prescribes (`Understood`). `ResolveAgain` is a second client that asks for a name
known by then, so that `Names::get` and `lastAccessIndex` are shared by two.

`ImplementsResolver` maps this to `Resolver`: what `resolve` still has to do is counted as
done when it takes the lock. So a query, its sockets, its clients and its timer may be
taken to appear at once, although answers come before they are all there.

### Relay

The client's input is a series of chunks; what a chunk makes of the header (too short,
no blank line, GET, CONNECT) is a choice. `HttpHeader` is how the code makes it, with
`findFirstPattern`, the loop over the lines and the port; `MCRelay` brings the two
together. `doWrite` is
two steps under `Remote::lock`: looking for the stream, which another worker sets
without that lock, and writing or inserting. `HttpProxy::disconnect` is two steps
without a lock. `place[r]` says how far a `Remote` is: resolving, given a stream,
connected, ended, or dropped because its lookup failed. `given` is a history variable.

## What is checked

| run | instance | shows |
|---|---|---|
| `timers_service` | three timers of two owners, times to 9 | `TablesAgree`, `ArmedIsEarliest`, `NoLostExpiry`, `NeverLate`, refinement of `TimerService`, and `OverdueFires` |
| `timers_trap` | as above, times to 6 | violated: `NeverTrapped` |
| `timers_early` | one timer | violated: `NeverEarly` |
| `dispatch` | two sockets that may fail, two workers, any number of events per `epoll_wait` | `PermitPerEvent`, `NoLostReadiness`, `TriggerNotLost`, `InputHandled`, `FailedRemoved` |
| `lifecycle_stop` | one socket, two workers, `exited` starts as false | `ExitMeansStop`, `StoppedWorkersHaveExited`, `StopCompletes` |
| `lifecycle_garbage` | `exited` starts as anything | violated: `StoppedWorkersHaveExited` |
| `stream_safety` | two workers, limited or not, two bytes, a send buffer of one | `AssertionsHold`, `PacedWrites`, `QueuedIsRemembered`, refinement of `BytePipe` |
| `stream_stall` | two workers, a stream that connects | violated: `NoSilentStall` |
| `resolver_lookups` | two clients, one name, either preference | `AnswersAreAwaited`, `NoStrandedQuery`, `NoLeakedSocket`, refinement of `LookupService`, `LookupEnds` |
| `resolver_twice` | two clients, two names | violated: `RemovedOnce` |
| `question_answered` | one lookup, three names, five replies, two clients | `UnderstoodAsAsked`, `HeardAsAnswered`, `AnswerFindsClient`, `ResolveReturns`, refinement of `Resolver` |
| `relay_proxy` | four chunks, two Remotes, one reply; small requests | `RelayedInOrder`, `NothingStranded`, `OneRemoteConnects`, `FailureDisconnects`, `WholeHeaderIsRead` |

Each module's type invariant is checked with its main run. Every property has a mutant
of a mapped definition, a plausible bug in that code, that makes it fail.

**Bounds.** Three timers are enough for a first, a last and one in between, and for the
first to change by setting, by cancelling and by expiry; their timeouts 1, 2 and 3
make two dates coincide and a timer set later come first. Two sockets let a report
about one be run while the other is removed, and two workers are what a race needs. The
clients make one call between them (`MaxCalls`), which writes, disconnects or opens a stream;
a write is of one or two chunks (`MaxChunks`), so that one that fails may leave another behind.
For more calls, chunks, sockets and workers there are the proofs of `DispatchProofs`. One
input chunk a socket is enough for a report after it was read. `EventsPerRun` is 128, the
code's `EPOLL_EVENTS_PER_RUN`: with fewer than there are sockets the choice `epoll_wait`
makes in the model could pass over one socket for ever, which the kernel, going round its
ready list, does not do. Two
bytes through a buffer of one give a complete write, a partial one and `EAGAIN`. Two
clients of the resolver are what one query's timeout needs to sweep another's; one
name is enough, since queries meet by request number and names only after an answer.
`Question` is about one query: names of one, two and three labels are a first, a last and
one in between, and their labels are one byte long and two; the request number 258 has
two different bytes that are not 0, so their order shows; an answer may hold no record,
an address, one behind an alias, or two; and the network may deliver it twice.
`MaxText` = 7 holds a blank line and what breaks one half read, before or after it;
the requests have a pattern within the request line, other lines before and after the
host line, and bodies with line ends of their own.
Two Remotes are a failed lookup and what comes after it; four chunks are one for each
header, one before and one after. `MaxWork` in `Lifecycle` bounds what events do and
not how many there are.

**Deadlock** is not checked: each of these systems may come to rest (timers at
`MaxTime`, an engine with nothing to do, a stream that was disconnected, an engine
that stopped or trapped).

**Symmetry** is used in safety runs only: on workers in `lifecycle_garbage` and
`stream_safety` and `stream_stall`, on clients and names in `resolver_twice`.

**Fairness.** Threads that can take a step take one (they are POSIX threads and hold
every lock for a bounded time), the clock goes on, the kernel delivers a timerfd that
went off, a signal that was sent and a readiness it owes. Nothing is assumed of peers:
no answer, no input and no error ever has to come. `TcpStream` has no fairness: its
properties are safety. In `Question` the thread in `resolve` runs on and
the kernel's send buffer for UDP does not stay full, since the device sends what is in it;
answers, timeouts and the workers owe nothing. In `Relay` the client's stream writes, which
before a Remote is connected is the one answer to a CONNECT on an empty send buffer.
Fairness of a worker is fairness of that worker and not of a socket or an event.

**What is left of a promise.** Twice the code does less than its text says, a run shows the
violation, and a weaker property, which does hold, says what is left. `NoSilentStall` (what a
stream asks `epoll` for is what it needs) fails with two workers, of which the program starts
several a core; `QueuedIsRemembered` has what holds for any number of them and for accepted
streams too: a write is on its way, or the egress timer will bring one, or there will be a run
that asks for `EPOLLOUT` again while the activity timer counts down. `StoppedWorkersHaveExited`
fails because of the uninitialised `Worker::exited`; it is checked where the flags start as
false, and `WaitsForEachWorker` in `LifecycleProofs` has what holds whatever they start as.

**What the properties except.** `StopCompletes` names two ways to hang: a signal that
arrives between the test of `stopping` and `epoll_wait`, and a handler that waits for
the `evHashLock` of the thread it interrupted. `QueuedIsRemembered` allows that an accepted
stream, which has an egress rate, meets a full send buffer: `waitingOutEvent` never asks for
`EPOLLOUT` then, and only the activity timer is left, which disconnects it. It excepts an
accepted stream whose first write came before `Engine::add`: nothing at all is left for
that one (`tcpstream.cpp:12`). `TriggerNotLost` excepts what a failed write left in the
queue; `FailedRemoved` says that such a socket is removed. `NoLeakedSocket` is about
the A question: nobody but an answer removes the AAAA question's socket. `LookupEnds`
excepts clients whose query was swept away as another client was told of the timeout.
`OneRemoteConnects` allows that after a failed lookup another Remote is made, even for a client
that was disconnected. `FailureDisconnects`
excepts a mark that is set too late (`main.cpp:331`). `UnderstoodAsAsked` is about names of two labels or
more: from a name of one label `getLen` takes a byte off (`query.cpp:151`), so the
nameserver does not understand the question and the lookup ends with its timeout.
`HeardAsAnswered` claims the name, what comes before the first address and that address:
behind it `decode` reads from the wrong place (`query.cpp:301`), so a second address is
lost. `FindsBlankLine` finds every blank line in texts where a CR comes only before an LF;
elsewhere `findFirstPattern` may miss one, as the character that breaks a match is not
tried as the first of the next. The loop over the lines reads one byte past a header
that ends with its blank line (`main.cpp:263`); that byte is taken not to be a line
feed, and any other value makes no difference to the host. Lines of a body count as
header lines, as in the code.

## Findings

Five assertions or names of the code are contradicted by what the code does
(`PROJECT.json`, `findings`): two timers with the same date fail the assertion of
`setTimer` (`timers_trap`); the first timer set again still fires at its old date
(`timers_early`); `Worker::exited` is read before it is written, so the assertion of
`stopWorkers` may pass with workers running (`lifecycle_garbage`); `needOut` is read before
`evHashLock` and may be another worker's past when `EPOLL_CTL_MOD` writes it, so a stream with
a full send buffer is left without `EPOLLOUT` (`stream_stall`); an answer and a
timeout may both remove one UDP socket, which fails the assertion of `doRemove`
(`resolver_twice`).

## What is proved

`TimersProofs` proves, for any set of timers, owners and timeouts and any bounds:
`TypeCorrect`, `TablesAlwaysAgree`, `ArmedIsAlwaysEarliest`, `ExpiryNeverLost`,
`NeverCountsPast`, and `Refinement`: `Timers` implements `TimerService`. Assumed are
the assumptions on the constants named in `Timers`. The inductive
invariant is the conjunction of `TypeOK`, `TablesAgree`, `ArmedIsEarliest`,
`NoLostExpiry` and `NeverLate`. They need each other: that skipping `setTrigger` is
harmless when the first timer is the same (`NeverLate`) needs the armed event to be
that timer's (`ArmedIsEarliest`), and that a removal by date removes that timer and no
other one needs the tables to agree and dates to be unique (`TablesAgree`), which holds
because a second timer with a date fails the assertion first. `TypeOK` has the tables
finite, so that the sizes the assertion compares mean something and a first date
exists.

`DispatchProofs` proves, for any sockets and any finite set of workers: `TypeCorrect`,
`EachEventHasItsPermit`, `ReadinessIsNeverLost`, `TriggerIsNeverLost`, assuming
`DispatchAssumption`. To `TypeOK` and the three properties the inductive invariant adds
that `epoll_wait` is called only with its last batch gone through (`BatchHandled`),
that only the epoll thread goes back to a batch after a signal (`WorkersResume`), and
that a stream never added has nothing queued (`Untouched`). `TriggerNotLost` includes the
write that fails: only a socket that has failed has output with neither `writeTriggered` nor
`blocked`. `PermitPerEvent` is a
counting argument: each step queues an event, takes one or leaves queue and semaphore
alone, and lemmas count the threads at a label when one of them moves.
`NoLostReadiness` follows a report from `epoll_wait` through the batch, the queue and a
worker to the start of its run (`CarriedStep`) and from there to `handleError` or
`EPOLL_CTL_MOD` (`RunStep`).

`LifecycleProofs` proves, for any sockets and any finite set of workers: `TypeCorrect`,
`NoWorkerLostEarly` (`ExitMeansStop`), `PermitsAreForEvents` and `StopWaitsForWorkers`
(`WaitsForEachWorker`): whatever the uninitialised flags hold, the engine is cleared only
after each worker has left whose `exited` is ever false. So nothing but that read
(`lifecycle_garbage`) lets `stopWorkers` pass too early. A flag that was once false is set
only by its worker's last step (`SaysSo`), and `stopWorkers` gets past its assertion only with
all of them set (`AllSet`).
`LifecycleAssumption` has the workers finite, since they are counted, and the bounds such
that the semaphore's is above the queue's. `TypeOK` is not inductive: nothing in it
says that `sem.wait()` was preceded by a `sem.signal()` with an event, or that
`activeCount--` undoes an `activeCount++`. So the invariant counts the workers by the
label they are at: `ActiveCounts` bounds `activeCount` by those that run an event and,
from above, those that an exception may have taken out of the loop without the
`activeCount--`; `PermitsHaveEvents` says that each permit, each worker about to pop and
the signal the epoll thread owes have an event of their own in the queue, until
`stopWorkers` gives permits for nothing. A worker's step moves that worker only
(`Moves`), so each count changes by at most one (`CountAfterMove`).

`TcpStreamProofs` proves, for any workers, any bytes and any send buffer:
`TypeCorrect`, `NoAssertionFails` (`AssertionsHold`), `LimitedIsPaced` (`PacedWrites`) and
`BytesAreSentInOrder`: `TcpStream` implements `BytePipe`. The invariant has two halves.
`BytesInOrder` (what was sent and then what is queued are the bytes in order) needs only
itself and the types, because `handleWrite` and `queueWrite` hold `writeLock`; that a
write may be complete, partial, stopped by the rate or failed is one lemma
(`WriteMoves`). `OneTrigger` is about a stream with a rate: among the egress timer, the
events in the queue and the workers about to write there is one thing at most that leads
to a write, and while there is, `writeTriggered` is set. It needs that such a stream
never asks for `EPOLLOUT` (`LimitedIsConnected`), that a worker has an event exactly while
it is not waiting (`EventIsHandled`), that only such streams have an egress timer
(`EgressIsLimited`) and that a stream is in `eventHash` from `add` to `disconnect`
(`AddedIsRegistered`). `NothingIsForgotten` (`QueuedIsRemembered`), for any workers
as well, needs a second invariant, `MemoryInv`. A stream that is registered will run again:
it is armed, or an event of it is queued or being run (`RunIsDue`), as no worker's `needOut`,
however old, keeps `EPOLLIN` from being asked for. What is queued has triggered a write unless
the stream is blocked or waits to be connected (`QueuedIsTriggered`), and a triggered write is
an event, a worker's or the egress timer's (`TriggeredIsDue`). The activity timer runs from
`connect` on and from the first byte sent (`ActivityIsPending`), and a limited stream that is
blocked has sent one (`BlockedHasSent`).

`ResolverProofs` proves, for any finite set of clients and any names: `TypeCorrect`,
`QueriesLast` (`AnswersAreAwaited`), `QueriesTimeOut` (`NoStrandedQuery`),
`SocketsGoWithQueries` (`NoLeakedSocket`) and `LookupsAreServed`: `Resolver` implements
`LookupService`. The invariant follows a client from `resolve` to the word it hears: it
is in one query, or in one word that is still to be told, or it has heard (`TellsOnce`),
and what it is told is about the name it asked for (`TellsWhatWasAsked`). That
`request` stays below the number of clients, so that a fresh query overwrites no other,
is a count of those that asked (`RequestsAreAsked`); that a query with one answer to come
has one question open (`LastIsAlone`) needs a socket to be removed before its answer is
counted (`RemovedIsGone`), as `UdpResolver::received` does.

`QueryProofs` has what `Query` does with the bytes, for any name of labels of 1 to 63
bytes, any request number and every answer the nameserver gives. `query.cpp` puts a name
in a datagram by one loop and takes it out by another, so each fact is an induction over
the bytes. The library's induction theorems take an operator, which the provers cannot
instantiate; `NumberInduction` takes a set of numbers instead, and is proved from the
least number not in it. `Laid` puts the bytes of a name, its text and, for each byte,
how much of its label is left side by side; `encodeName` and `decodeName` are then
compared with it one byte at a time (`NameIsEncoded`, `NameIsDecoded`). That `encodeName`
finds each label's length, although it counts the dots by position and 0 stands for no
dot yet, is `LengthIsFound` and, for the first label, `FirstLengthIsFound`, which needs a
second label. `NameIsUnderstood` puts header, name and footer together; `AnswerIsHeard` follows
`decode` through the question, up to two records and the place where it moves on too
far. `DottedIsInjective` says that the text of a name, which is the key of `byName`,
stands for that name only.

`QuestionProofs` proves, for any such names: `TypeCorrect`, `AnswersAreHeard`
(`HeardAsAnswered`), `QuestionsAreUnderstood` (`UnderstoodAsAsked`), `ClientsAreFound`
(`AnswerFindsClient`), `QuestionsAreSentOnce` and `LookupIsOneStep`
(`ImplementsResolver`): `Question` implements `Resolver`, step by step. The invariant
says where each question is: still in the loop of `resolve`, in `writeQueue`, in the
hands of `handleWrite`, or gone (`OneInPlace`, `SentAtMostOnce`); which sockets are in the
engine and what they have received (`SocketsFollow`); how many clients a query has each
time `ResolverImpl::lock` is released (`PendingHasClient`) and that it ends with its
last answer or its timeout (`QueryEnds`); and that a name in `byName` is the one that was
asked, with addresses (`NameIsKnown`). The refinement needs the bytes as well: what
`Resolver` takes as the content of an answer is what `decode` makes of the reply.

`RelayProofs` proves, for any numbers of chunks, Remotes and replies: `TypeCorrect`,
`RelaysInOrder` (`RelayedInOrder`), `NothingIsStranded` (`NothingStranded`) and
`OneRemoteHasStream` (`OneRemoteConnects`). `RelayedInOrder` is inductive once the sequences
are sequences; the lengths in `TypeOK` need that a Remote is given no more than was read,
and less while a chunk is on its way to it (`NoMoreThanTaken`). The other two need that the
Remote `ep` refers to is the only one that is alive (`EpIsTheLiveOne`), that a stream writes
only when it is connected (`OnceIsConnected`), and that a chunk about to be put in
`initWrite`, for want of a stream, has a `writeComplete` still to come (`FlushIsDue`):
that is what `Remote::lock` is for. Its last part is about `HttpHeader`:
`BlankLinesAreFound` is `FindsBlankLine` for texts of any length, by induction over the
text. What `findFirstPattern` has half read is what it read last (`Sound`); and where every CR
comes before an LF, a character that breaks a match begins none, so no blank line is
passed (`Complete`). That is the half of `WholeHeaderIsRead` that depends on no
particular request.

Each theorem assumes the assumptions on the constants named in its module and what it
states itself, nothing more. TLC finds each inductive invariant to hold
on the instances of the runs.

Only model-checked are: all liveness (`OverdueFires`, `InputHandled`, `FailedRemoved`,
`StopCompletes`, `LookupEnds`, `FailureDisconnects`, `ResolveReturns`), which needs fairness and
`ENABLED`; and, of `WholeHeaderIsRead`, what `HttpHeader` takes for the host, the port
and the bytes to write (`ParsesRequest`), which is about the requests it is given and
false of some others.

## What is not modelled

Bound UDP sockets and `EchoUdp`, which the program does not start; `Socket`, `Logger`,
`Counters` and the utilities, which wrap system calls or format text; TLS, which is
commented out; the destructor of `TcpStream`, which is never reached because the
stream's own events hold it, and with it `HttpProxy::disconnected` and
`Remote::disconnect` (`Timers` has an owner that dies all the same, since the engine
allows for one); the resolver after `Resolver::destroy`, which does not wait for workers
that are still in it (`engine.cpp:98`: `Lifecycle` has the order, and no text of the
repository claims another); `Ipv6Only` lookups; and the wrap of request numbers at 2^16,
which needs that many lookups pending at once.

## Plan

The order is by how much depends on a part.

1. `Timers`, `Dispatch`, with proofs; `Lifecycle`, `TcpStream`, `Resolver`, `Relay`
   model-checked. Done.
2. `Query`, `Question` and `HttpHeader`, the refinement of `Resolver` by `Question`.
   Done.
3. Proofs of the safety properties of `Lifecycle`, `TcpStream`, `Resolver` and `Relay`,
   of the refinements of `BytePipe` and `LookupService`, and of `AnswerFindsClient` for
   `Question`. Done.
4. Lemmas about the bytes of `Query`, and from them `TypeOK`, `UnderstoodAsAsked` and
   `HeardAsAnswered` of `Question` and its refinement of `Resolver`. Done.
5. The search for a blank line in `HttpHeader`, in a text of any length. Done. What is
   left is the loop over the header's lines, for any request whose other lines have no
   `host:` in them.
