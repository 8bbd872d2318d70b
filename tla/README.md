# A TLA+ model of BlackSwan

BlackSwan is a game-server framework in C++: a client, a gate, a login server, a
game server, two stubs (world and database server) and a network library on
Boost.Asio coroutines that all of them share. This directory holds TLA+ modules
for the parts with behaviour of their own, the TLC configurations that check
them, and TLAPS proofs of their safety properties.

Paths below are relative to `src/src/`.

## 1. Inventory

### How the programs fit together

    client --(9527)--> gate --(8601)--> login server --queues--> account-check threads
                         \----(8321)--> game server

Every program has a main thread, which loops `while (isGameRunning())`, and a
pool of `io_context`s with one thread each (`ioContextPool.h`). A `Server`
accepts on one of them and runs all of its sessions on another (`listener`
calls `getNext` once); a `Connector` and its session have one. So the callbacks
of one server's sessions never overlap, while listener, sessions, connectors and
main thread run in parallel. Only the login server hands packets over to the
main thread; the others handle them in the callback.

A client's packet has a header of id and 16-bit size; between servers the
header also has a `transID`, the number by which the gate knows the player, and
a 32-bit size. Heartbeats are ordinary packets, answered inside the parsers.

### Components

| component | state | operations | hard part | correct when |
|---|---|---|---|---|
| `networkEx/connector.h` | session_, connected_, auto_reconnect_, attempt number, two timers, retry delay | asyncConnect, stop, three completion handlers, reconnect, loss of the session | time-out, connect and stop race; handlers that are ready cannot be cancelled any more | an attempt is reported once and not twice, leaves no socket behind, and exactly one thing moves the connector on |
| `networkEx/session.h` | send queue, three coroutines, stopped_, socket | send, deliver, the loops, stop | wake-up of the writer, stop from several places and threads | messages go out once and in order; stop is told once and ends the coroutines |
| heartbeat of `session.h` | two whole-second time stamps, a timer | look, ping, pong, stop | two hosts' clocks whose seconds begin at different moments, delays, rounding | no live peer is dropped, a dead one is noticed in time |
| `networkEx/packet.cpp`, the parsers' loops | receive buffer | encode, decode, read, take packets out | TCP cuts the stream; 16-bit lengths | messages arrive once, in order, all of them |
| `networkEx/server.h`, `ioContextPool.h` | sessions_, acceptor, threads | listen, add, delete, stop, destroy | connections that arrive during stop; sessions that break during closeAll | in the end every session is stopped and its owner told |
| gate: sessions and players | session_map_, playerIdMap_ | accept, disconnect, packets, answers, closeAll at shutdown | packets behind one that closed the session; the main thread stopping a session during a read; late messages for players that have gone | tables linked; nothing reaches a stranger |
| login server: queues, players, account check | packet list, playerMap_, pTIDMap_, worker queues, result list | login, logoff, results in any order, kick, stop | one platform id logged in twice; late and doubled results; shutdown with work under way | tables agree; one answer per request; shutdown ends |
| game server | three player tables | message, echo, connect, disconnect | two gates with the same transID | answers go back the way they came |
| client | the running flag | start, run, stop, signal, connect, disconnect | flag written by three threads | a signal stops it |
| the five server programs (`main.cpp`, `service.cpp`) | g_stop_flag_, pool, server, signal set | start step by step, run, stop, destruction | a start that fails half-way; a signal during start; threads that outlive what they use | a program that ran stops everything and ends |
| world and db server | - | accept, heartbeat | none of their own | (stubs, see the programs) |
| gate and login server together | two message streams over a connection that is made again and again | request, answer, kick-off, reconnect, restart | answers and kick-offs of repeated logins; what a broken connection loses | what the gate heard last is true |
| `share/network` (older library) | send list, bSending_, receive buffer | connect with time-out, send, completions, receive | two threads that send; partial writes; a buffer that is moved and grown | the stream is intact in both directions |

`PROJECT.json` lists the parts that are left out with the reasons, and under
`hazards` the lines at which the code could go wrong in ways a test hardly
reaches, each with the properties that cover it or a note.

## 2. Modules

| module | models | written for |
|---|---|---|
| `LoginServer` | the login server: main loop, packet queue, players, account check, gates, shutdown | TLC and proof |
| `LoginDirectory` | what the login server promises (abstract): one holder per platform id, one decision per request | refinement, composition |
| `LoginRefinement` | the mapping under which `LoginServer` implements `LoginDirectory` | TLC and proof |
| `GateServer` | the gate's clients, players and forwarding | part of `LoginFlow` |
| `LoginFlow` | gate and login server together: `GateServer` and `LoginDirectory` with the connection between them | TLC and proof |
| `Connector` | one connector | TLC and proof |
| `Session` | one session: reader, writer, heartbeat, send, stop, the end of its io_context | TLC and proof |
| `Heartbeat` | the heartbeats of the two ends of a connection, with time | TLC and proof |
| `MessageChannel` | what the packet layer promises (abstract) | refinement |
| `Framing` | packets over a byte stream; implements `MessageChannel` | TLC and proof |
| `Server` | listener, session table and stop sequence | part of `Service` |
| `Service` | the five server programs from start to end, over `Server` | TLC and proof |
| `GameServer` | the game server's players and echo | TLC and proof |
| `ClientService` | the client's life and its running flag | TLC |
| `TcpConnector`, `TcpSession` | a connection of the older network library, from its connect to its end | TLC and proof |
| `XProofs` | theorems about `X` (section 5); `LoginServerProofs` is also about `LoginRefinement`, `LoginFlowProofs` about `GateServer`, `ServiceProofs` about `Server`; `LinkProofs` is about `Framing` and `Heartbeat` | TLAPS |

**Composition.** `LoginFlow` extends `GateServer` and instantiates
`LoginDirectory`: the gate's steps that concern the login server (`RecvLogin`,
`LoginMessage`, `LoginLink`) are taken together with what they do to the
connection, the others leave the connection alone. Because `LoginServer`
implements `LoginDirectory` (run `login_live`), the composition does not need the
login server's threads and queues; it adds what the login server sends and where
to: through the connection a request came by, kick-off before answer. That a
request waits in `message_list_` when its connection breaks is the per-connection
queue `toLogin`, of which a break keeps any prefix. In the same way `Service`
extends `Server`, and `TcpSession` extends `TcpConnector`.

An `MC...` module instantiates the module of its name for TLC; the `.cfg` files
give the constants. Names are those of the source without the trailing
underscore. A definition named `X_Something` after a comment "Mutant:" is a
wrong version of `X`, used to see that a property would notice the mistake; no
specification refers to one. Every module has a `TypeOK`, which says what the
variables hold; where there are proofs, it or its part that matters is in the
inductive invariant.

**Steps.** What one thread does between two points at which another can see or
change its state is one action; a critical section is one action. In
`LoginServer` a whole handler of the main thread is one step, because what other
threads do meanwhile commutes with it: they append to queues it does not read,
or remove a gate's connection, which has the effect it would have just before or
after. In `Session` the io thread can be interrupted by a foreign `stop()` at
the one place where it matters (between the writer's test and its wait), and the
foreign `stop()` takes three steps. In `Connector` the main thread's `stop()` may
come between a handler's test of `auto_reconnect_` and what follows (`passed`). In
`Server` the listener takes one step for
each of the tables it changes, since the main thread runs beside it.

In `GateServer` a packet is one step, and the main thread's `closeAll` may stop the
session between two packets of one read. `Accept` is enabled after `Server::stop` has
begun, for what the listener has in hand then; how many that can be, and who stops
them, is `Server`'s matter. The connector to the game server has no state in
`GateServer`: it is up or down when start returns, and its messages come or do not.

**Asynchronous operations** (`Connector`): an operation that ends puts its
handler into `ready`; cancelling acts only on operations that have not ended.
Handlers that are ready run in any order, which includes every order Asio's queue
can produce. The owners' connected callbacks begin with `session->remote_ep()`
(`gateserver/service.cpp:72` and `:97`, `client/service.cpp:49`), which throws when
`stop()` has closed the socket or the peer has reset the connection; nothing catches
it, so `std::terminate` ends the process. `HandleConnected` has this as an outcome
(`ConnectedCallback`, `crashed`), the client's own life has it in `ConnectedThrows`.
`reported` counts the calls of both callbacks.

**Time** (`Heartbeat`): time passes in ticks, and each end has its own clock, whose
seconds begin at ticks of its own (`phase`). What the code stores are whole seconds of
that clock, so an age is the number of seconds that have begun there. The two ends
start their heartbeats less than an interval apart. The clocks run evenly: that one of
them is set, or drifts, while a session lasts is not modelled.

**Data.** Bodies are what the parser makes of them (a request that parses, one
that does not, ...). In `Framing` bytes are numbers, a header is two bytes and
`Width` stands for 2^16: what matters is that a size and the `len` of
`decode_packet` are reduced modulo `Width`. `PtidOf` in `LoginServer` is any
function: in the runs it maps two long names to one platform id, as the buffer
of 64 bytes does. The account service is compiled out of the source (`#if 0` in
`apMgrHandler.cpp`); the constant `WebCheck` says whether one answers, so both
the code as it is (FALSE) and the code as it is meant to be run (TRUE) are
covered. `checkApLoginData` puts no AuthenID entry into the AuthInfo, so with
WebCheck a success logs in only the empty name; the model keeps this.

## 3. Runs

All runs have `CHECK_DEADLOCK FALSE`: the programs may come to rest when nobody
connects or sends, the bounded environment has done its share, or the server has
stopped. That work which is due is done is stated by the liveness properties.

| run | question | answer |
|---|---|---|
| `login` | local test with an account service that also answers, two gates, three names of which two share a platform id, three messages in any order: do the player tables agree, is a request answered once? | yes |
| `login_live` | clients logged in by the account service: does a result ever disturb an online player; does a signal always end the server, a failed check always lead to an answer; do the tables change only as `LoginDirectory` allows? | no; yes; yes; yes |
| `connector` | five faults in any order, `stop` at any time: one report per attempt and never two, no stray socket, one way on, no attempt after stop but one that was being started, connected in the end once faults cease? | yes, unless a callback throws and ends the process |
| `session` | three messages, `stop` from every coroutine and from another thread: no lost wake-up, order, one disconnect, everything written unless stopped, every coroutine of a stopped session ended or freed? | yes |
| `heartbeat` | every offset of the two timers and of the seconds of the two clocks, delays up to the assumed maximum: false alarms, late detection? | none |
| `framing` | four packets, heartbeats between them, cut in every way: a message channel, bounded buffer, every ping answered? | yes, for bodies up to `Width - ReadSize - MsgHeaderSize` |
| `framing_limit` | bodies up to the size `Player::send` allows: do they arrive? | **no** (finding 1) |
| `service` | each of the five programs, three connections around start and stop, a failing start, a signal at any time: is every session stopped and forgotten, are the threads joined before what they use goes, does the process end? | yes, for a program whose start succeeded; the process ends in any case |
| `login_flow` | two clients, two packets, two connections to the login server, three requests, other gates, a restart of the login server, a shutdown of the gate's listener: gate tables linked, nothing to strangers, requests under the own id, the last word true, no `PlayerSession` missing but behind a stop by the parser or by `closeAll`, no answer without a request? | yes |
| `tcp_session` | the older library: connect against time-out, two threads that send, partial writes, packets over a growing buffer: order, every message written, data intact and delivered, every attempt reported? | yes, for packets the buffer can grow to hold; an attempt may be reported twice |
| `game` | two gates with the same ids: do answers go to the asker? | yes |
| `client_signal` | does a signal end the client? | **no** (finding 2) |

**Bounds, and why they are enough.** Each bound is a named constant. Login: three
messages give a login, a second login that kicks it and a third event (a logoff,
another login, an old client) between or after; two gates, so that the kicked
player's gate can be gone while the new one's is there; two workers, so that
results overtake each other. `login_live` needs no second gate: two messages are a
login and the one that replaces it. That the two runs look at one configuration
each is made up for by the theorems, which hold for all. Connector: five faults are enough for the delay to
reach its maximum and for a failure, a time-out and a lost session in any order,
with an older handler still pending. Session: three messages are one being
written, one queued, one posted. Heartbeat: interval and time-out keep the
code's proportion of 1 to 3; half-second ticks show the rounding to whole
seconds; `Delay` is the largest the assumption allows, the time-out less two intervals and
a second, and a tick; one tick more does raise a false alarm, so the bound is exact in
this instance. With the defaults (10 s, 30 s), pings may take up to 9 s: a ping may
come just under two intervals after the one before, and the end that waits may count
most of a second more than has passed. Framing: a packet takes one to four
reads and a read may end one packet and begin another; body bytes are chosen to
look like headers from every offset. Service: one session that has gone, one
that is being closed and one that arrives, around every step of start and stop. LoginFlow:
two packets are one behind one that stops the session, or a login and its
repetition; three requests at the login server let a platform id be taken over
and taken back, by the same gate or another; two platform ids, so that words about
different logins of a player meet; two connections, so that requests, answers and
players of the first meet the second. TcpSession: messages of none and of several
bytes, from two threads, and a buffer that has to be moved and grown once.

**Fairness.** `LoginServer`: the main thread and each worker keep running if they
can (weak fairness of each thread); nothing is assumed about gates or signals.
`Connector`: the io thread runs handlers that are ready, the operating system
ends every connect and every wait; no fairness for faults, which are bounded, as
is the number of attempts with them. `Session`: io thread, pending I/O, timers,
and a thread inside `stop()` go on. `Framing`: bytes that have been sent are
read. `Service`: the main thread, the listener and the sessions' thread run; *that* a
signal comes is not assumed. `Session` also: a thread that stopped the session from
outside is the main thread in its shutdown, which goes on to stop and destroy the
pool. `TcpSession`: strong fairness for the handlers of the io thread, since Asio's
queue is first in, first out and a handler that is queued is not overtaken for
ever. `ClientService`: the main thread runs, which includes that its user
types: `std::cin >>` blocks, and a client whose user types nothing does not stop
either.

## 4. Findings

Each is the counterexample of a run that is expected to fail.

1. `framing_limit`: `decode_packet` takes `uint16_t len`, so with 65536 or more
   bytes in the buffer the length wraps and the packet at its head is taken for
   incomplete. `Player::send` of the client lets bodies up to 65535 through
   ("over size limit" is above that). Such a message is stuck and everything behind it too.
   Bodies of up to 65536 - 4096 - 6 bytes are safe (`framing`).
2. `client_signal`: a connect clears `g_stop_flag_`, also when a signal had set it.

Others can be read off the models without a run. "ignore this req!" in
`LoginLsState::handleLoginReq` (`gateserver/playerState.cpp:43`) depends on `handled_`,
which nobody sets: every repeated login request is forwarded (`handleLoginReq` in
`GateServer`; `login_flow` shows that the gate is still told the truth). A program
whose start() fails, or is overtaken by a signal, after the pool was started
destroys joinable threads (`ProcessEnds` in `Service`; `DestroyedAlone` is about
programs that ran, and not about what connectors' callbacks throw). A connection that
is gone before the connected callback runs ends the program (`ConnectedCallback` in
`Connector`). A listener that meets such a connection accepts nobody any more
(`ListenerThrows` in `Server`), and a signal that comes while the gate starts is lost
when `enableGameRunning` clears its flag (`Register` in `Service`); `FlagEndsProcess`
claims nothing about either. A gate that starts before its servers runs without handlers
for good (`StartReturns` in `GateServer`). `findPlayer(clientId,
gate_fd)` of the game server reads a table `addPlayer` does not fill, so the
branch "first login" is taken for every message (`findPlayer` and `addPlayer` in
`GameServer`). And `ClientService::start` registers the client's handlers under
`!isGameRunning()`, which is false in a normal start (`mustRegister` in
`ClientService`).

## 5. Proofs

Eight modules hold theorems. Each is about one specification (`LinkProofs` about
two, the packets and the heartbeats of a connection), for every value of the
constants that satisfies the assumptions named there: any number of gates, clients, messages, connections, sessions, any sizes, intervals and delays. The
runs look at one instance of each; a theorem that names a property of a run says
the same of all.

| module | theorem | property |
|---|---|---|
| `LoginServerProofs` | `TypeCorrect` | `TypeOK` |
| | `PtidMapCorrect` | `PtidMapAgrees`: the two player tables agree |
| | `AnswersCorrect` | `AnswerDiscipline`: one answer per request, a kick only after a success, nothing after a failure or a kick |
| | `ApResultsCorrect` | `ApResultSparesOnline` (action property) |
| | `DirectoryImplemented` | `ImplementsDirectory`: refinement of `LoginDirectory` |
| `LoginFlowProofs` | `TablesLinked`, `OwnerReached`, `LostBehindStop` | `SessionsLinked`, `ReachesOwner`, `LostOnlyBehindStop` of the gate |
| | `RequestsLive` | `RequestFromLive` (action property) |
| | `LastWord`, `AnswersAsked` | `LastWordTrue`, `HeardIsAsked` of gate and login server together |
| `SessionProofs` | `NoWakeupLost`, `InOrder`, `ToldOnce` | `NoLostWakeup`, `WrittenInOrder`, `DisconnectOnce` |
| `ConnectorProofs` | `SocketsCorrect`, `ReportsCorrect`, `OneWayCorrect` | `NoStraySocket`, `ReportedOnce`, `OneWayOn` |
| | `StopCorrect` | `NoAttemptAfterStop` (action property) |
| `LinkProofs` | `NoAlarm`, `Noticed` | `NoFalseAlarm`, `SilenceNoticed` of the heartbeats |
| | `HeartbeatsAnswered`, `BufferIsBounded` | `PingsAnswered`, `BufferBounded` of the packets, for sizes that fit (`Fits`) |
| | `ChannelSteps` | the safety part of `ImplementsChannel`: refinement of `MessageChannel` up to its fairness |
| `ServiceProofs` | `SessionsReachable`, `SessionsForgotten`, `EndsClean`, `EndsAlone` | `LiveIsListed`, `GoneIsForgotten`, `AllStoppedAtEnd`, `DestroyedAlone` |
| `TcpSessionProofs` | `StreamIntact`, `SentInOrder` | `UnreadIntact`, `WrittenInOrder` |
| `GameServerProofs` | `EchoCorrect` | `EchoToAsker` |

`TypeCorrect` of the connector, the heartbeat and the game server are by-products:
their `TypeOK` holds bounds that are no matter of course (the attempts never
outnumber the faults by more than one; ages and timers stay in their ranges).

**How they are built.** Every specification has an inductive invariant, `IInv` if not
said otherwise, a conjunction of named parts each of which says something about the code; TLC has
checked each of them on the constants of the run before it was proved (the
packets' in another form, see below). One
lemma per action (or group of actions with one argument) shows that the action
keeps `IInv`; a lemma `Inductive` (`InitIInv` and `NextIInv` for the login server)
puts them together; a theorem is what `IInv` implies.

**Login server** (`ConstantsAssumption`, `NoPlayerAssumption`: the switches are
Booleans, there is a worker, the empty name is a name, every name has a platform
id, the "absent" values are outside of their sets). `IInv` adds to the properties:

* a player in Login has no platform id and nothing was sent for it, so that a
  success is the first thing it is sent and releasing it touches no entry of
  `pTIDMap`; one online was sent a success, or its gate was already down, so that
  a kick can only follow a success (`SAnswers`);
* a gate that a player or a packet came from has been connected, and a gate that
  is down never comes up again: otherwise a kick could be delivered where the
  success was not (`SAnswers`, `PacketGates`);
* ids above `player_idx` are unused (`Fresh`), so that a new player starts
  unanswered;
* there is an id left for each packet to be processed (`Enough`), which ties the
  bound on messages to the bound on ids: it is what makes `TypeOK` inductive.

The code's operations on players are operators on a record of the two tables
and what was sent, and the lemmas follow the calls: `SendFacts`, `ReleaseKeeps`,
`KickKeeps`, `LogInKeeps` show that an operation preserves `SInv` of the record it
is applied to. Kicking frees the platform id before it is taken over, which is
why the code's order (kick, `setPTID`, answer) matters: `emplace` would keep the
old entry, and releasing the old player afterwards would erase the new one's.

The refinement uses the same invariant. Only a packet and a result of the
account check change the players; `PacketStep` and `ResultStep` follow the
handler to its ends, and each end is one step of the directory or none (`AsAsk`,
`AsRefuse`, `AsLogIn`, `AsLogoff`, `AsNothing`). That a request is decided once is `Taken`: it is the
next one or one that waits in Login, and a late result finds its player no
longer in Login. All other steps leave players and platform ids alone.

**Gate and login server** (`GateAssumption`, `FlowAssumption`: bounds are positive
numbers). `GateInv` is about the gate alone: clients are accepted in order, a
player's session is the one it was made for or none, handlers are registered
when start has returned, and nothing is left of the last read of a client whose
connection was lost (`InOrder`), so that a packet without a `PlayerSession` can only
belong to a session that the parser or `closeAll` has stopped. `IInv` adds the stream between the two. `LastWordTrue`
speaks only of moments when nothing is under way; to be inductive it has to say
what the words under way amount to (`Said`): for every player and platform id,
the last word about them in the stream, or, if there is none, the last one heard,
says whether the login server has that player online. A take-over sends the
kick-off before the answer; `Kicking`, `Telling` and `LoggedInKeeps` show that the two
leave the last word right even when old and new holder are the same player. `HeardIsAsked`
becomes a balance (`Owes`): what a player is owed covers its answers under way,
its requests under way and those that wait at the login server, counted
separately for the connection that is in use. Counting is by `Cardinality`; the
lemmas say what appending, taking the head and cutting a stream do to a count.

**Session** (no assumption). `NoLostWakeup` and `WrittenInOrder` need each other and
that `deliver` appends and wakes in one step; between the end of a write and
`pop_front` the head of the queue is written already, so order is stated for the
tail there. `DisconnectOnce` needs `TellerKnown`: the thread that won `stopped_` is
the one still to tell.

**Connector** (`BoundAssumption`, `DelayAssumption`). `HandlersOf` says which
handlers can be ready in which state of a socket, `DecidedFirst` that an attempt is
reported when it is decided and not before, which makes the count of its reports at
most one; `WhileOn` splits the time with
reconnecting on into an attempt that is undecided, with its session in place and
nothing waiting, and one that is decided, with either a wait or a connection.
That no two steps to the next attempt are under way together (`OneWait`) is what
makes `OneWayOn` hold; `Budget` ties the attempts to the faults.

**Heartbeat** (`HeartbeatAssumption`: `Delay` is at most the time-out less two
intervals and a second, and a tick). The proof is the argument one would make on
paper: an end sends at the latest when its timer runs out the second time
(`SendsInTime`), so an end has heard the last message of its peer (`Heard`), or one is
under way that comes in time (`UnderWay`), or nothing was sent yet since the session
began and the peer will ping in time (`WillPing`). Ages are in whole seconds;
`RecvTicks` and `SendTicks` convert each with the phase of its own clock. Two clocks
that count one stretch of time differ by less than a second, and this is the second
in `Heard` and in the assumption; the lemmas `AgeTick` and `Bounds` hold the arithmetic.

**Packets** (`FramingAssumption`, and `Fits` as a hypothesis: a body that may be sent,
its header and one read are at most `Width` long). `Fits` is not an assumption of
`Framing` because the code does not guarantee it; `framing_limit` is what happens
without it, and the theorems say that it is the only thing that is missing.
`BufferIsBounded` also asks for a message as long as a heartbeat, since its bound is
in terms of messages. Both hold for the constants of `framing`.

The invariant `FramingInv` says that the bytes in the buffer and those under way,
in a row, are a stream of whole packets (`StreamWhole`), whose messages are
those sent and not delivered and whose heartbeat requests are those not answered,
and that the buffer has not all of its first packet (`ParsedOut`). "A stream of whole
packets" is the least set that has the empty stream and is closed under a packet
before it (`Carrying`); "least" is what allows induction over packets without an
operator parameter: a closed part of the set is all of it (`CarryingLeast`). The
set quantifies over sets of sequences, which TLC cannot enumerate; TLC checked
the same invariant with the stream decoded by a function. What the recursive
function `Parse` returns is its defining equation, proved in `ParseIs`: for the
buffers up to each length there is exactly one function that satisfies it, by
the shortest counterexample (`LeastNumber`). `ParseCarried` is the heart: run on any
beginning of a stream of whole packets whose length is not changed by narrowing,
the parser takes the packets that are complete and leaves a stream of whole packets.
`LessThanPacket` and `ReadFits` show that a buffer with one read behind it is of that
length; this is where `Fits` is needed.

**Programs** (`ServerAssumption`, `ServiceAssumption`). `Tracked` is the heart: a
session that is not stopped is in `sessions_`, in the copy `closeAll` works through,
or still in the listener's hand. `StopOrder` follows a session through `stop()`,
`ThreadsEnd` and `LastClosed` follow the program through its end.

**Receive buffer** (`TcpAssumption`). `Holds` says that what is between the two
positions are the bytes behind a place of the stream; `WriteFacts`, `AdjustFacts`,
`GrownFacts` and `ConsumeFacts` say what each operation of `ox_buffer.h` does to it,
and `RecvKeeps` chains them as `onRecvCompleted` does. That the callback consumes no
more than there is (`DataCbFacts`) needs the largest of a bounded set of numbers,
which comes from the library's theorem that the numbers are well-founded.

**Send queue** (`TcpAssumption`). `SendInv` says that the bytes on the wire and those
still queued, in a row, are the bytes of all messages in the order in which
they were queued (`NothingLost`), and that only one write is under way, of what is at
the front of the queue (`OneWrite`): a `trySend` from another thread while a write
runs leaves the queue alone. The bytes of the queue are `FlattenSeq` of it. The
lemmas from `JoinsExists` to `FlattenConcat` derive from its recursive definition,
again by the shortest counterexample, that it is a sequence of bytes and that the
bytes of two lists in a row are the bytes of the one and then of the other;
`AdjustDrops` says that `adjustSendBuffer` drops from the queue exactly the bytes that went
out, also when a write ends inside a message.

**Game server** (`GameAssumption`: ids fit their width; `handleMessage` narrows the
64-bit transID to 32 bits, and the gate counts its players up from 1). `playerFdMap` is
never filled, so that as the code stands the result is about one message at a time. A table holds under the key
of a client and a gate that client's player of that gate (`Keyed`).

**Only model-checked.** Liveness (`ShutdownCompletes`, `FailureAnswered`,
`ReconnectsEventually`, `SentIsWritten`, `StopEnds`, `StopIsTold`, `FlagEndsProcess`,
`AttemptReported`, `QueuedIsWritten`, `StreamIsDelivered`) needs fairness and
ENABLED, which the proof system does not handle; for the same reason the fairness of
`ImplementsChannel` (every message arrives in the end) is TLC's, and `ChannelSteps`
covers the rest of it. Every invariant and every action property that a passing
run checks is also proved.

## 6. What is not modelled

* Data races on `std::unordered_map`, `shared_ptr` and raw pointers
  (`session_map_` and `playerIdMap_` of the gate, `session_` of the connector,
  `GateSession*` of the login server): the affected look-ups are atomic in the
  models, as they would be under a lock. The hazards name the lines. So a `PlayerSession`
  that the main thread's `closeAll` deletes between the parser's look-up and its use is
  not in `GateServer`; that it is gone before the look-up is.
* Memory ownership: the prototypes in `MessageData` and `CmdMessage` are deleted
  by the temporary they are copied from (`common/message.h:18`). Parsing is success
  or failure in the models.
* `stop()` of a connector is one step: that it reads `session_` while the io thread
  assigns it is a data race without defined outcomes. A success handler that is
  ready when `stop()` runs sets `connected_` again with no session behind it; the
  model has this, and `OneWayOn` speaks of a connector whose reconnecting is on.
* What no code reaches: the gate's states after LoginLs, its forwarding to the game
  server (it needs the state InGame), `delPlayer` and `releasePlayer` of the gate,
  the client's player table, `channel.h`.
* The acceptor and the thread pool of the older library: an accept loop and a
  round-robin choice under one mutex. The library is used by the examples
  `net_server` and `net_client` only, whose lines in the CMake file are commented out.
* Logging, the contents of configuration files, the other examples.
* Generated and vendored code (`share/proto`, `thirdparty`). Of the tree's 270,000
  lines the program's own are about 7,400 with the examples; everything else is headers of
  protobuf, abseil, spdlog and toml++, of which the program's behaviour depends on
  the documented interface only.

## 7. Plan

Done: login server; connector; session with the end of its io_context; heartbeat;
framing with its abstract channel; server and the five programs; game server;
client; the older library; the login directory and the refinement; gate and login
server composed. Proved: all safety properties of these. Liveness stays with TLC.

What a later change of the code would touch first: a wider length in
`decode_packet` makes `Fits` a matter of course and turns `framing_limit` into a passing
run; a gate that reaches InGame needs its forwarding modelled in `GateServer` and
composed with `GameServer`.
