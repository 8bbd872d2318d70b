----------------------------- MODULE GateServer -----------------------------
(***************************************************************************)
(* The gate server: clients connect and are given a session and a player   *)
(* (PlayerSessionMgr, PlayerMgr), their packets are parsed in the batches  *)
(* in which they were read (PacketParser), login requests go on to the     *)
(* login server, and what the game server sends goes back.  LoginFlow      *)
(* composes this module with the login server.                             *)
(*                                                                         *)
(* Every player is and stays in the state LoginLs: nothing in the code     *)
(* takes it further (handleLoginAck is empty), so what later states would  *)
(* do has no action.  A client is named by the fd of its session; a player *)
(* by its id, which is also the transID of its messages.                   *)
(*                                                                         *)
(* The connector to the game server comes and goes at any time (module     *)
(* Connector).  Its state is not kept: whether it is up matters once, when *)
(* GateService::start returns, and otherwise shows in the messages that    *)
(* come.  Server::stop is here as far as it stops sessions; the listener   *)
(* and its table are in the module Server.                                 *)
(***************************************************************************)
EXTENDS Naturals, Sequences, FiniteSets

CONSTANTS
  MaxClients,   \* bound: clients that ever connect
  MaxPackets,   \* bound: packets ever read
  MaxBatch      \* bound: packets that one read completes

ASSUME GateAssumption == {MaxClients, MaxPackets, MaxBatch} \subseteq Nat \ {0}

Clients == 1..MaxClients
PlayerIDs == 1..MaxClients
None == 0

\* What a packet is to the parser: a heartbeat, an id outside of the clients'
\* range, a login request whose body parses or does not, or another message.
Kinds == {"HeartBeat", "OutOfRange", "Login", "BadLogin", "Other"}

VARIABLES
  link,         \* per client: "new", "open" or, once Session::stopped_ is set,
                \* how it was stopped: "lost", "cut" by the parser, or
                \* "closed" with the server
  batch,        \* per client: the packets of its last read not yet handled
  packets,      \* packets read so far
  sessionMap,   \* session_map_: client -> the player of its PlayerSession
  players,      \* playerIdMap_: id -> the client of player_session_, or None
  player_idx,   \* player_idx_
  owner,        \* history: id -> the client it was made for
  starting,     \* GateService::start has not returned yet
  closing,      \* Server::stop has begun
  loginUp,      \* login_connector_->isConnected()
  registered,   \* the packet handlers' init() has run
  requests,     \* history: id -> login requests sent for it
  toClients,    \* history: <<id, client>> for what the game server sent
  crashed       \* the client whose missing PlayerSession was used, or None

conns == <<link, batch, packets>>
tables == <<sessionMap, players, player_idx, owner>>
service == <<starting, closing, loginUp, registered>>
traffic == <<requests, toClients>>
gateVars == <<conns, tables, service, traffic, crashed>>

\* The process has not crashed.
Running == crashed = None

Without(f, x) == [y \in DOMAIN f \ {x} |-> f[y]]
With(f, x, v) == [y \in DOMAIN f \union {x} |-> IF y = x THEN v ELSE f[y]]

-----------------------------------------------------------------------------
(* Connections.                                                            *)

\* Mutant: the id of a player that has no session is given out again.
fetchPlayer_Reuses ==
  IF \E p \in DOMAIN players : players[p] = None
  THEN CHOOSE p \in DOMAIN players : players[p] = None
  ELSE player_idx + 1

\* PlayerMgr::fetchPlayer: the id of the new player.
fetchPlayer == player_idx + 1

\* Mutant: the session is not entered.
addSession_NoEntry(c) ==
  LET p == fetchPlayer
  IN  /\ player_idx' = p
      /\ players' = With(players, p, c)
      /\ owner' = With(owner, p, c)
      /\ UNCHANGED sessionMap

\* PlayerSessionMgr::addSession: a new player and its session, linked.
addSession(c) ==
  LET p == fetchPlayer
  IN  /\ player_idx' = p
      /\ players' = With(players, p, c)
      /\ sessionMap' = With(sessionMap, c, p)
      /\ owner' = With(owner, p, c)

\* Mutant: the player keeps its link to the session.
delSession_KeepsLink(c) ==
  /\ sessionMap' = Without(sessionMap, c)
  /\ UNCHANGED players

\* Mutant: the session stays in the table.
delSession_KeepsEntry(c) ==
  /\ players' = IF c \in DOMAIN sessionMap
                THEN [players EXCEPT ![sessionMap[c]] = None] ELSE players
  /\ UNCHANGED sessionMap

\* PlayerSessionMgr::delSession: the player stays, without a session.
delSession(c) ==
  /\ players' = IF c \in DOMAIN sessionMap
                THEN [players EXCEPT ![sessionMap[c]] = None] ELSE players
  /\ sessionMap' = Without(sessionMap, c)

\* Session::stop and the disconnect handler that it calls.
stop(c, how) ==
  IF link[c] = "open"
  THEN link' = [link EXCEPT ![c] = how] /\ delSession(c)
  ELSE UNCHANGED <<link, players, sessionMap>>

\* The accept handler, also for what the listener has in hand when Server::stop
\* closes the acceptor.
Accept(c) ==
  /\ Running
  /\ link[c] = "new" /\ \A d \in Clients : d < c => link[d] # "new"
  /\ link' = [link EXCEPT ![c] = "open"]
  /\ addSession(c)
  /\ UNCHANGED <<batch, packets, service, traffic, crashed>>

\* The connection is lost or times out: found by the thread that also reads.
Disconnect(c) ==
  /\ Running
  /\ link[c] = "open" /\ batch[c] = <<>>
  /\ stop(c, "lost")
  /\ UNCHANGED <<batch, packets, player_idx, owner, service, traffic, crashed>>

\* GateService::stop, on the main thread, comes to Server::stop.
ServerStop ==
  /\ Running
  /\ ~starting /\ ~closing
  /\ closing' = TRUE
  /\ UNCHANGED <<conns, tables, starting, loginUp, registered, traffic, crashed>>

\* Server::closeAll, on the main thread, stops a session: the session's own
\* thread may be in the middle of a read.
CloseAll(c) ==
  /\ Running
  /\ closing /\ link[c] = "open"
  /\ stop(c, "closed")
  /\ UNCHANGED <<batch, packets, player_idx, owner, service, traffic, crashed>>

\* A read completes some packets.
ReadPackets(c, n) ==
  /\ Running
  /\ link[c] = "open" /\ batch[c] = <<>>
  /\ packets + n <= MaxPackets
  /\ \E b \in [1..n -> Kinds] : batch' = [batch EXCEPT ![c] = b]
  /\ packets' = packets + n
  /\ UNCHANGED <<link, tables, service, traffic, crashed>>

-----------------------------------------------------------------------------
(* PacketParser::onRecvClientData and onRecvClientPacket.  The loop goes   *)
(* on with the packets behind one that stopped the session.                *)

Current(c, kind) == batch[c] # <<>> /\ Head(batch[c]) = kind
Consume(c) == batch' = [batch EXCEPT ![c] = Tail(@)] /\ UNCHANGED packets

\* The session's PlayerSession is there.  (The code tests for it, and uses it
\* all the same when it is not: see LostSession.)
Found(c) == c \in DOMAIN sessionMap

RecvHeartBeat(c) ==
  /\ Running
  /\ Current(c, "HeartBeat")
  /\ Consume(c)
  /\ UNCHANGED <<link, tables, service, traffic, crashed>>

RecvOutOfRange(c) ==
  /\ Running
  /\ Current(c, "OutOfRange")
  /\ Consume(c)
  /\ stop(c, "cut")
  /\ UNCHANGED <<player_idx, owner, service, traffic, crashed>>

\* pPlayerSession->Close() through a null pointer: the process ends.
LostSession(c) ==
  /\ Running
  /\ batch[c] # <<>> /\ Head(batch[c]) \in {"Login", "BadLogin", "Other"}
  /\ ~Found(c)
  /\ crashed' = c
  /\ UNCHANGED <<conns, tables, service, traffic>>

\* Anything but a login request closes the session of a player in LoginLs.
RecvOther(c) ==
  /\ Running
  /\ Current(c, "Other") /\ Found(c)
  /\ Consume(c)
  /\ stop(c, "cut")
  /\ UNCHANGED <<player_idx, owner, service, traffic, crashed>>

\* A request that does not parse is dropped.
RecvBadLogin(c) ==
  /\ Running
  /\ Current(c, "BadLogin") /\ Found(c)
  /\ Consume(c)
  /\ UNCHANGED <<link, tables, service, traffic, crashed>>

\* LoginLsState::handleLoginReq: forward2Login, which a connector that is not
\* connected drops.  handled_ is tested before and set by nobody.
handleLoginReq(c) ==
  LET p == sessionMap[c]
  IN  IF loginUp
      THEN requests' = [requests EXCEPT ![p] = @ + 1]
      ELSE UNCHANGED requests

\* Before init() has run no message has a handler.
RecvLogin(c) ==
  /\ Running
  /\ Current(c, "Login") /\ Found(c)
  /\ Consume(c)
  /\ IF registered THEN handleLoginReq(c) ELSE UNCHANGED requests
  /\ UNCHANGED <<link, tables, service, toClients, crashed>>

\* getClientIp throws when the peer is gone: readerLoop stops the session, and
\* the rest of what was read is never handled.
RecvLoginThrows(c) ==
  /\ Running
  /\ Current(c, "Login") /\ Found(c) /\ registered
  /\ batch' = [batch EXCEPT ![c] = <<>>]
  /\ stop(c, "lost")
  /\ UNCHANGED <<packets, player_idx, owner, service, traffic, crashed>>

-----------------------------------------------------------------------------
(* The other servers.                                                      *)

\* LoginPacketHandler::processLoginMessage: the player is found by its id,
\* whether its client is still there or not; before init() has run no message
\* has a handler.
Hears(p) == registered /\ p \in DOMAIN players

\* An answer or a kick-off for a player: handleLoginAck is empty, and
\* LoginLsState::onEvent has no case for a kick-off.
LoginMessage ==
  /\ Running
  /\ loginUp
  /\ UNCHANGED <<conns, tables, service, traffic, crashed>>

\* GSPacketHandler::onGsToClient and Player::forward2Client: dropped when the
\* player has no session any more.
onGsToClient(p) == {<<p, c>> : c \in {players[p]} \ {None}}

\* Any message of the game server, for any id, known or not.
GsMessage(p) ==
  /\ Running
  /\ registered
  /\ toClients' = IF p \in DOMAIN players THEN toClients \union onGsToClient(p)
                  ELSE toClients
  /\ UNCHANGED <<conns, tables, service, requests, crashed>>

\* The connector to the login server comes and goes.
LoginLink ==
  /\ Running
  /\ loginUp' = ~loginUp
  /\ UNCHANGED <<conns, tables, starting, closing, registered, traffic, crashed>>

\* The end of GateService::start: the handlers are registered if both servers
\* are connected at this moment (the game server is, or is not), and never again.
StartReturns ==
  /\ Running
  /\ starting
  /\ starting' = FALSE
  /\ registered' \in {loginUp, FALSE}
  /\ UNCHANGED <<conns, tables, closing, loginUp, traffic, crashed>>

-----------------------------------------------------------------------------

GateInit ==
  /\ link = [c \in Clients |-> "new"] /\ batch = [c \in Clients |-> <<>>] /\ packets = 0
  /\ sessionMap = <<>> /\ players = <<>> /\ player_idx = 0 /\ owner = <<>>
  /\ starting = TRUE /\ closing = FALSE /\ loginUp = FALSE /\ registered = FALSE
  /\ requests = [p \in PlayerIDs |-> 0] /\ toClients = {}
  /\ crashed = None

ClientPacket(c) ==
  \/ RecvHeartBeat(c) \/ RecvOutOfRange(c) \/ LostSession(c) \/ RecvOther(c)
  \/ RecvBadLogin(c) \/ RecvLoginThrows(c)

\* The steps that the login server has no part in.  LoginFlow adds the others:
\* RecvLogin, LoginMessage and LoginLink.
GateStep ==
  \/ \E c \in Clients : Accept(c) \/ Disconnect(c) \/ CloseAll(c) \/ ClientPacket(c)
  \/ \E c \in Clients, n \in 1..MaxBatch : ReadPackets(c, n)
  \/ \E p \in PlayerIDs : GsMessage(p)
  \/ StartReturns \/ ServerStop

-----------------------------------------------------------------------------
(* Properties.                                                             *)

\* Every variable has its type: in particular ids are never given out twice.
GateTypeOK ==
  /\ link \in [Clients -> {"new", "open", "lost", "cut", "closed"}]
  /\ \A c \in Clients : Len(batch[c]) <= MaxBatch /\ batch[c] \in Seq(Kinds)
  /\ packets \in 0..MaxPackets
  /\ DOMAIN sessionMap \subseteq Clients /\ DOMAIN players = 1..player_idx
  /\ \A c \in DOMAIN sessionMap : sessionMap[c] \in 1..player_idx
  /\ \A p \in DOMAIN players : players[p] \in Clients \union {None}
  /\ DOMAIN owner = DOMAIN players
  /\ {starting, closing, loginUp, registered} \subseteq BOOLEAN
  /\ requests \in [PlayerIDs -> Nat]
  /\ toClients \subseteq PlayerIDs \X Clients
  /\ crashed \in Clients \union {None}

\* The table of sessions and the table of players point at each other, for
\* exactly the clients that are connected.
SessionsLinked ==
  /\ DOMAIN sessionMap = {c \in Clients : link[c] = "open"}
  /\ \A c \in DOMAIN sessionMap : players[sessionMap[c]] = c
  /\ \A p \in DOMAIN players :
       players[p] # None => players[p] \in DOMAIN sessionMap /\ sessionMap[players[p]] = p

\* What the game server sends for a player reaches the client the player was
\* made for, or nobody: never one that connected later.
ReachesOwner == \A d \in toClients : owner[d[1]] = d[2]

\* A login request goes out only for the connected client that made it, under
\* the id of that client's own player.
RequestFromLive ==
  [][\A p \in PlayerIDs :
       requests'[p] # requests[p] =>
         \E c \in Clients : /\ link[c] = "open" /\ owner[p] = c
                            /\ Current(c, "Login")]_gateVars

\* A packet finds no PlayerSession only when it was read together with one for
\* which the parser stopped the session, or when closeAll stopped the session
\* during the read at shutdown.  A connection that is lost, times out or whose
\* address cannot be had any more never leads there.
LostOnlyBehindStop == crashed # None => link[crashed] \in {"cut", "closed"}
=============================================================================
