-------------------------- MODULE GameServerProofs --------------------------
(***************************************************************************)
(* Proofs about the game server: its table of gates is the connected ones, *)
(* and an answer goes to the client that asked, for any number of gates,   *)
(* transIDs and messages.                                                  *)
(***************************************************************************)
EXTENDS GameServer, TLAPS

USE GameAssumption
-----------------------------------------------------------------------------
(* The inductive invariant.                                                *)

\* What a table holds under a key is the player of that client and gate.  For
\* playerFdMap, which nothing fills, the proof needs no more than this: it
\* would hold as well if addPlayer filled it under its key.
Keyed(map) == \A client, gate : <<client, gate>> \in DOMAIN map =>
                map[<<client, gate>>] = Player(client, gate)

IInv == TypeOK /\ EchoToAsker /\ Keyed(playerFdMap)

-----------------------------------------------------------------------------

\* What is found under a key is the client's own player.
LEMMA FoundIsOwn ==
  ASSUME Keyed(playerFdMap), NEW client, NEW gate, NEW p \in findPlayer(client, gate)
  PROVE  p = Player(client, gate)
BY DEF findPlayer, Lookup, makeKey, Keyed

\* Entering a player adds that player at most.
LEMMA EmplaceHolds ==
  ASSUME NEW map, NEW key, NEW player
  PROVE  HeldBy(Emplace(map, key, player)) \subseteq HeldBy(map) \union {player}
<1>1. CASE key \in DOMAIN map
  BY <1>1 DEF Emplace
<1>2. CASE key \notin DOMAIN map
  BY <1>2 DEF Emplace, HeldBy
<1>3. QED
  BY <1>1, <1>2

\* A message is handled: by the player that is found, or by a new one.
LEMMA MessageKeeps ==
  ASSUME IInv, NEW g \in Gates, NEW t \in TransIDs, NEW isEcho \in BOOLEAN,
         handleMessage(g, t, isEcho)
  PROVE  IInv'
<1> DEFINE client == t % IdWidth
           found == findPlayer(client, g)
           P == [client_fd : 0..(IdWidth - 1), gate : Gates]
<1>1. client = t /\ client \in 0..(IdWidth - 1)
  BY DEF GameAssumption
<1>2. Player(client, g) \in P
  BY <1>1 DEF Player
<1>3. /\ handled < MaxMessages /\ handled' = handled + 1
      /\ UNCHANGED <<link, session_map, ready>>
      /\ found = {} => addPlayer(client, g)
                       /\ recv(Player(t, g), Player(client, g), isEcho)
      /\ found # {} => /\ UNCHANGED <<playerIdMap, playerNameMap, playerFdMap>>
                       /\ \A p \in found : recv(Player(t, g), p, isEcho)
  BY DEF handleMessage
<1> HIDE DEF client
<1>4. playerFdMap' = playerFdMap
  BY <1>3 DEF addPlayer
<1>5. EchoToAsker'
  <2>1. \A p : recv(Player(t, g), p, isEcho) =>
          echoes' = echoes \/ echoes' = echoes \union {[asker |-> Player(t, g), to |-> p]}
    BY DEF recv, HandleEchoReq
  <2>2. \A p \in found : p = Player(t, g)
    BY <1>1, FoundIsOwn DEF IInv
  <2>3. \/ echoes' = echoes
        \/ echoes' = echoes \union {[asker |-> Player(t, g), to |-> Player(t, g)]}
    <3>1. CASE found = {}
      BY <1>1, <1>3, <2>1, <3>1
    <3>2. CASE found # {}
      <4>1. PICK p \in found : TRUE
        BY <3>2
      <4>2. recv(Player(t, g), p, isEcho) /\ p = Player(t, g)
        BY <1>3, <2>2, <3>2, <4>1
      <4>3. QED
        BY <2>1, <4>2
    <3>3. QED
      BY <3>1, <3>2
  <2>4. QED
    BY <2>3 DEF IInv, EchoToAsker
<1>6. UNION {HeldBy(playerIdMap), HeldBy(playerNameMap), HeldBy(playerFdMap)}' \subseteq P
  <2>1. HeldBy(playerIdMap) \subseteq P /\ HeldBy(playerNameMap) \subseteq P
        /\ HeldBy(playerFdMap) \subseteq P
    BY DEF IInv, TypeOK
  <2>2. HeldBy(playerIdMap)' \subseteq P /\ HeldBy(playerNameMap)' \subseteq P
    <3>1. CASE found = {}
      <4>1. /\ playerIdMap' = Emplace(playerIdMap, makeKey(client, g), Player(client, g))
            /\ playerNameMap' = Emplace(playerNameMap, "", Player(client, g))
        BY <1>3, <3>1 DEF addPlayer
      <4>2. /\ HeldBy(playerIdMap') \subseteq HeldBy(playerIdMap) \union {Player(client, g)}
            /\ HeldBy(playerNameMap') \subseteq HeldBy(playerNameMap) \union {Player(client, g)}
        BY <4>1, EmplaceHolds
      <4>3. HeldBy(playerIdMap)' = HeldBy(playerIdMap')
            /\ HeldBy(playerNameMap)' = HeldBy(playerNameMap')
        BY DEF HeldBy
      <4> HIDE DEF P
      <4>4. QED
        BY <1>2, <2>1, <4>2, <4>3
    <3>2. CASE found # {}
      BY <1>3, <2>1, <3>2 DEF HeldBy
    <3>3. QED
      BY <3>1, <3>2
  <2>3. HeldBy(playerFdMap)' \subseteq P
    BY <1>4, <2>1 DEF HeldBy
  <2>4. QED
    BY <2>2, <2>3
<1>7. TypeOK'
  <2>1. ready' \in BOOLEAN
    BY <1>3 DEF IInv, TypeOK
  <2>2. handled' \in 0..MaxMessages
    BY <1>3 DEF IInv, TypeOK
  <2>3. QED
    BY <1>3, <1>6, <2>1, <2>2 DEF IInv, TypeOK
<1>8. QED
  BY <1>4, <1>5, <1>7 DEF IInv, Keyed

\* The invariant holds in every state.
LEMMA Inductive == Spec => []IInv
<1>1. Init => IInv
  <2> SUFFICES ASSUME Init PROVE IInv
    OBVIOUS
  <2>1. HeldBy(<<>>) = {} /\ Keyed(<<>>)
    BY DEF HeldBy, Keyed
  <2>2. ready \in BOOLEAN
    BY DEF Init
  <2>3. TypeOK
    BY <2>1, <2>2 DEF Init, TypeOK
  <2>4. QED
    BY <2>1, <2>3 DEF Init, IInv, EchoToAsker
<1>2. IInv /\ [Next]_vars => IInv'
  <2> SUFFICES ASSUME IInv, [Next]_vars PROVE IInv'
    OBVIOUS
  <2>1. ASSUME NEW g \in Gates, GateConnects(g) \/ GateDisconnects(g) PROVE IInv'
    <3>1. UNCHANGED <<ready, playerIdMap, playerNameMap, playerFdMap, handled, echoes>>
      BY <2>1 DEF GateConnects, GateDisconnects
    <3>2. /\ link' \in [Gates -> {"new", "open", "stopped"}]
          /\ session_map' = {h \in Gates : link'[h] = "open"}
      BY <2>1 DEF IInv, TypeOK, GateConnects, GateDisconnects
    <3>3. ready' \in BOOLEAN
      BY <3>1 DEF IInv, TypeOK
    <3>4. TypeOK'
      BY <3>1, <3>2, <3>3 DEF IInv, TypeOK, HeldBy
    <3>5. QED
      BY <3>1, <3>4 DEF IInv, EchoToAsker, Keyed
  <2>2. CASE InitHandlers
    <3>1. ready' \in BOOLEAN
      BY <2>2 DEF InitHandlers
    <3>2. TypeOK'
      BY <2>2, <3>1 DEF IInv, TypeOK, HeldBy, InitHandlers
    <3>3. QED
      BY <2>2, <3>2 DEF IInv, EchoToAsker, Keyed, InitHandlers
  <2>3. CASE UNCHANGED vars
    BY <2>3 DEF IInv, TypeOK, EchoToAsker, Keyed, HeldBy, vars
  <2>4. QED
    BY <2>1, <2>2, <2>3, MessageKeeps DEF Next
<1>3. QED
  BY <1>1, <1>2, PTL DEF Spec

\* The echo of a message goes to the client and by the gate it came from, also
\* when two gates use the same transID.
THEOREM EchoCorrect == Spec => []EchoToAsker
<1>1. IInv => EchoToAsker
  BY DEF IInv
<1>2. QED
  BY <1>1, Inductive, PTL

\* The gates in session_map_ are exactly the connected ones, and the tables of
\* players hold only clients' ids below 2^32 at gates that there are.
THEOREM TypeCorrect == Spec => []TypeOK
<1>1. IInv => TypeOK
  BY DEF IInv
<1>2. QED
  BY <1>1, Inductive, PTL

=============================================================================
