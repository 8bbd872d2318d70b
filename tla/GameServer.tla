----------------------------- MODULE GameServer -----------------------------
(***************************************************************************)
(* The game server: gates connect, and each message of a client, which its *)
(* gate passes on under a transID, finds or makes a player (PlayerCtrl)    *)
(* and is handled by it; the one handler there is echoes it.               *)
(* All gate sessions share one io thread, so a message is handled whole.   *)
(*                                                                         *)
(* findPlayer reads a table that nothing fills, so in effect every message *)
(* builds a player of its own.  The transIDs are a gate's player ids,      *)
(* which count up from 1 in 64 bits: that they stay below 2^32, so that    *)
(* handleMessage's narrowing loses nothing, is an assumption.              *)
(***************************************************************************)
EXTENDS Naturals, FiniteSets

CONSTANTS
  Gates,        \* the fds of the gates' connections, each used once
  TransIDs,     \* the transIDs in messages
  IdWidth,      \* 2^32: handleMessage takes the transID as a uint32_t
  MaxMessages   \* bound: messages handled

ASSUME GameAssumption ==
  /\ TransIDs \subseteq Nat /\ IdWidth \in Nat \ {0} /\ MaxMessages \in Nat
  /\ \A t \in TransIDs : t < IdWidth

VARIABLES
  link,           \* per gate: "new", "open", "stopped"
  session_map,    \* GateSessionMgr's table
  ready,          \* PacketParser::Init has run
  playerIdMap,    \* key -> player
  playerNameMap,  \* name -> player; every name is ""
  playerFdMap,    \* key -> player
  handled,        \* messages handled
  logins,         \* history: per client and gate, how often a player was made
  echoes          \* history: who asked, and the client and gate answered

vars == <<link, session_map, ready, playerIdMap, playerNameMap, playerFdMap,
          handled, logins, echoes>>

\* A player is known by its client_fd_ and its gateSession_.
Player(client, gate) == [client_fd |-> client, gate |-> gate]

Emplace(map, key, player) ==
  IF key \in DOMAIN map THEN map
  ELSE [k \in DOMAIN map \union {key} |-> IF k = key THEN player ELSE map[k]]

HeldBy(map) == {map[k] : k \in DOMAIN map}

Lookup(map, key) == {map[k] : k \in DOMAIN map \cap {key}}

makeKey(client, gate) == <<client, gate>>

\* Mutant: the player is looked up by its name.
findPlayer_ByName(client, gate) == Lookup(playerNameMap, "")

\* The player of a client, if there is one: at most one element.
findPlayer(client, gate) == Lookup(playerFdMap, makeKey(client, gate))

\* addPlayer fills two of the three tables.
addPlayer(client, gate) ==
  /\ playerIdMap' = Emplace(playerIdMap, makeKey(client, gate), Player(client, gate))
  /\ playerNameMap' = Emplace(playerNameMap, "", Player(client, gate))
  /\ UNCHANGED playerFdMap

\* The answer goes to the player's client by way of the player's own gate.
HandleEchoReq(asker, p) == echoes' = echoes \union {[asker |-> asker, to |-> p]}

\* Player::recv: an echo request has a handler once Init has run, no other
\* message ever has.
recv(asker, p, isEcho) ==
  IF ready /\ isEcho THEN HandleEchoReq(asker, p) ELSE UNCHANGED echoes

\* handleMessage: find the player, or make one ("first login"), and let it
\* receive the message.
handleMessage(g, t, isEcho) ==
  LET client == t % IdWidth
      found  == findPlayer(client, g)
  IN  /\ link[g] = "open" /\ handled < MaxMessages
      /\ handled' = handled + 1
      /\ IF found = {}
         THEN /\ addPlayer(client, g)
              /\ logins' = [logins EXCEPT ![<<t, g>>] = @ + 1]
              /\ recv(Player(t, g), Player(client, g), isEcho)
         ELSE /\ UNCHANGED <<playerIdMap, playerNameMap, playerFdMap, logins>>
              /\ \A p \in found : recv(Player(t, g), p, isEcho)
      /\ UNCHANGED <<link, session_map, ready>>

\* The accept handler and GateSessionMgr::addSession.
GateConnects(g) ==
  /\ link[g] = "new"
  /\ link' = [link EXCEPT ![g] = "open"]
  /\ session_map' = session_map \union {g}
  /\ UNCHANGED <<ready, playerIdMap, playerNameMap, playerFdMap, handled, logins, echoes>>

\* GateSessionMgr::delSession.  The gate's players stay.
GateDisconnects(g) ==
  /\ link[g] = "open"
  /\ link' = [link EXCEPT ![g] = "stopped"]
  /\ session_map' = session_map \ {g}
  /\ UNCHANGED <<ready, playerIdMap, playerNameMap, playerFdMap, handled, logins, echoes>>

\* The end of GameService::start: after the server has begun to accept.
InitHandlers ==
  /\ ~ready
  /\ ready' = TRUE
  /\ UNCHANGED <<link, session_map, playerIdMap, playerNameMap, playerFdMap,
                 handled, logins, echoes>>

Init ==
  /\ link = [g \in Gates |-> "new"] /\ session_map = {} /\ ready = FALSE
  /\ playerIdMap = <<>> /\ playerNameMap = <<>> /\ playerFdMap = <<>>
  /\ handled = 0 /\ echoes = {}
  /\ logins = [k \in TransIDs \X Gates |-> 0]

Next ==
  \/ \E g \in Gates : GateConnects(g) \/ GateDisconnects(g)
  \/ \E g \in Gates, t \in TransIDs, isEcho \in BOOLEAN : handleMessage(g, t, isEcho)
  \/ InitHandlers

Spec == Init /\ [][Next]_vars

-----------------------------------------------------------------------------
(* Properties.                                                             *)

\* The tables hold players; the gates in the table are the connected ones.
TypeOK ==
  /\ link \in [Gates -> {"new", "open", "stopped"}]
  /\ session_map = {g \in Gates : link[g] = "open"}
  /\ UNION {HeldBy(playerIdMap), HeldBy(playerNameMap), HeldBy(playerFdMap)}
       \subseteq [client_fd : 0..(IdWidth - 1), gate : Gates]
  /\ ready \in BOOLEAN /\ handled \in 0..MaxMessages

\* An answer goes to the client and the gate that asked, also when two gates
\* use the same transID, or a gate comes back under a new connection.  (Since
\* playerFdMap stays empty this rests on the one message; it is what would have
\* to stay true of a table that is filled.)
EchoToAsker == \A e \in echoes : e.to = e.asker

=============================================================================
