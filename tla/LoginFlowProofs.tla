-------------------------- MODULE LoginFlowProofs --------------------------
(***************************************************************************)
(* Proofs about the gate and about the gate and the login server together: *)
(* the gate's tables, whom it sends what to, and what it may conclude from *)
(* the words of the login server, for any number of clients, packets,      *)
(* requests, platform ids and connections.                                 *)
(***************************************************************************)
EXTENDS LoginFlow, FiniteSetTheorems, SequenceTheorems, TLAPS

USE GateAssumption, FlowAssumption
-----------------------------------------------------------------------------
(* The inductive invariant of the gate.                                    *)

LinkStates == {"new", "open", "lost", "cut", "closed"}
StoppedStates == {"lost", "cut", "closed"}

\* The types that the proofs need.
GateTypes ==
  /\ link \in [Clients -> LinkStates]
  /\ batch \in [Clients -> Seq(Kinds)]
  /\ player_idx \in 0..MaxClients
  /\ DOMAIN players = 1..player_idx /\ DOMAIN owner = 1..player_idx
  /\ requests \in [PlayerIDs -> Nat]
  /\ registered \in BOOLEAN /\ starting \in BOOLEAN /\ loginUp \in BOOLEAN

\* Clients are accepted in the order of their fds and read only then; nothing is
\* left of the last read of a client whose connection was lost.
InOrder ==
  \A c \in Clients : /\ link[c] # "new" <=> c <= player_idx
                     /\ link[c] \in {"new", "lost"} => batch[c] = <<>>

\* A player's session is the one it was made for, and what the game server
\* sent went there.
OwnersKeep ==
  /\ \A c \in DOMAIN sessionMap : sessionMap[c] \in DOMAIN players
  /\ \A p \in DOMAIN players : players[p] # None => players[p] = owner[p]
  /\ \A d \in toClients : d[1] \in DOMAIN players /\ owner[d[1]] = d[2]

\* The handlers are registered when start() returns, and not before.
RegisteredLate == registered => ~starting

GateInv ==
  /\ GateTypes /\ InOrder /\ SessionsLinked /\ OwnersKeep /\ RegisteredLate
  /\ LostOnlyBehindStop /\ crashed \in Clients \union {None}

-----------------------------------------------------------------------------
(* The inductive invariant of the two servers.                             *)

Asked == [player : PlayerIDs, ptid : PTIDs]
Words == [kind : {"succ", "fail", "kick"}, player : PlayerIDs, ptid : PTIDs]
Origins == [player : PlayerIDs \union {None}, link : Links \union {None},
            ptid : PTIDs \union {None}]

FlowTypes ==
  /\ linkNo \in 0..MaxLinks /\ lsUp \in BOOLEAN
  /\ toLogin \in [Links -> Seq(Asked)] /\ toGate \in Seq(Words)
  /\ status \in [Requests -> {"none", "pending", "online", "ended"}]
  /\ holder \in [PTIDs -> {0} \union Requests]
  /\ from \in [Requests -> Origins]
  /\ heard \in [PlayerIDs -> [PTIDs -> {"none", "succ", "kick"}]]
  /\ owed \in [PlayerIDs -> Int]

\* The login server holds only the gate's last connection, and nothing has come
\* by a connection that is not made yet.
LinksInOrder ==
  /\ lsUp => loginUp
  /\ loginUp => linkNo \in Links
  /\ \A k \in Links : k > linkNo => toLogin[k] = <<>>
  /\ \A i \in Requests : from[i].link <= linkNo

\* Requests and words are about players that the gate knows.
PlayersKnown ==
  /\ \A k \in Links : \A n \in 1..Len(toLogin[k]) : Hears(toLogin[k][n].player)
  /\ \A n \in 1..Len(toGate) : Hears(toGate[n].player)
  /\ \A i \in Requests :
       from[i].link # None => from[i].player \in PlayerIDs /\ Hears(from[i].player)

\* The holder of a platform id is online, under that id.
HoldersOnline ==
  /\ \A t \in PTIDs : holder[t] # 0 =>
       status[holder[t]] = "online" /\ from[holder[t]].ptid = t
  /\ \A i \in Requests : status[i] = "pending" => from[i].ptid \in PTIDs

\* Nothing is heard, owed or on its way without a connection.
DownIsQuiet ==
  ~loginUp => toGate = <<>> /\ heard = Unheard /\ owed = NoneOwed

\* A word that says whether the player p is online under t.
About(w, p, t) == w.player = p /\ w.ptid = t /\ w.kind # "fail"

\* The last word about p and t is v, in the words s or, if there is none in
\* them, the one heard before, h.
Says(s, h, p, t, v) ==
  /\ (\A k \in 1..Len(s) : ~About(s[k], p, t)) => h = v
  /\ \A k \in 1..Len(s) :
       About(s[k], p, t) /\ (\A j \in 1..Len(s) : About(s[j], p, t) => j <= k) =>
         s[k].kind = v

\* The player p is online under t, by a request over this connection.
Holds(p, t) ==
  holder[t] # 0 /\ from[holder[t]].player = p /\ from[holder[t]].link = linkNo

\* The last word that was sent is true, whether it has arrived or not.
Said ==
  lsUp => \A p \in PlayerIDs, t \in PTIDs : \E v \in {"none", "succ", "kick"} :
            Says(toGate, heard[p][t], p, t, v) /\ (v = "succ" <=> Holds(p, t))

\* How many elements of s are in S.
Count(s, S) == Cardinality({k \in 1..Len(s) : s[k] \in S})

AnswersTo(p) == {w \in Words : w.player = p /\ w.kind # "kick"}
RequestsOf(p) == {q \in Asked : q.player = p}
PendingOf(p) ==
  {i \in Requests : status[i] = "pending" /\ from[i].player = p /\ from[i].link = linkNo}

\* What is owed to a player covers the answers on their way and those that may
\* still be sent.
Owes ==
  \A p \in PlayerIDs :
    owed[p] >= Count(toGate, AnswersTo(p))
               + (IF lsUp THEN Count(toLogin[linkNo], RequestsOf(p)) + Cardinality(PendingOf(p))
                  ELSE 0)

IInv ==
  /\ GateInv /\ FlowTypes /\ LinksInOrder /\ PlayersKnown /\ HoldersOnline
  /\ DownIsQuiet /\ Said /\ Owes

-----------------------------------------------------------------------------
(* The gate.                                                               *)

\* Stopping a session keeps the tables linked, and disturbs no other client.
LEMMA StopKeeps ==
  ASSUME GateTypes, SessionsLinked, OwnersKeep, NEW c \in Clients,
         NEW how \in StoppedStates, stop(c, how),
         UNCHANGED <<player_idx, owner, toClients>>
  PROVE  /\ link' \in [Clients -> LinkStates]
         /\ DOMAIN players' = 1..player_idx'
         /\ SessionsLinked' /\ OwnersKeep'
         /\ \A d \in Clients : d # c \/ link[d] # "open" => link'[d] = link[d]
         /\ link[c] = "open" => link'[c] = how
<1>1. CASE link[c] # "open"
  BY <1>1 DEF stop, GateTypes, SessionsLinked, OwnersKeep
<1>2. CASE link[c] = "open"
  <2> DEFINE q == sessionMap[c]
  <2>1. c \in DOMAIN sessionMap /\ q \in DOMAIN players /\ players[q] = c
    BY <1>2 DEF SessionsLinked, OwnersKeep
  <2>2. /\ link' = [link EXCEPT ![c] = how]
        /\ players' = [players EXCEPT ![q] = None]
        /\ sessionMap' = Without(sessionMap, c)
    BY <1>2, <2>1 DEF stop, delSession
  <2>3. /\ DOMAIN players' = DOMAIN players
        /\ \A p \in DOMAIN players : players'[p] = IF p = q THEN None ELSE players[p]
    BY <2>2
  <2>4. /\ DOMAIN sessionMap' = DOMAIN sessionMap \ {c}
        /\ \A d \in DOMAIN sessionMap' : sessionMap'[d] = sessionMap[d]
    BY <2>2 DEF Without
  <2>5. /\ link' \in [Clients -> LinkStates] /\ how # "open"
        /\ \A d \in Clients : link'[d] = IF d = c THEN how ELSE link[d]
    BY <2>2 DEF GateTypes, LinkStates, StoppedStates
  <2> HIDE DEF q
  <2>6. SessionsLinked'
    <3>1. DOMAIN sessionMap' = {d \in Clients : link'[d] = "open"}
      BY <2>4, <2>5 DEF SessionsLinked
    <3>2. \A d \in DOMAIN sessionMap' : players'[sessionMap'[d]] = d
      BY <2>1, <2>3, <2>4 DEF SessionsLinked, OwnersKeep
    <3>3. \A p \in DOMAIN players' : players'[p] # None =>
            players'[p] \in DOMAIN sessionMap' /\ sessionMap'[players'[p]] = p
      BY <2>1, <2>3, <2>4 DEF SessionsLinked, q
    <3>4. QED
      BY <3>1, <3>2, <3>3 DEF SessionsLinked
  <2>7. OwnersKeep'
    BY <2>3, <2>4 DEF OwnersKeep
  <2>8. DOMAIN players' = 1..player_idx'
    BY <2>3 DEF GateTypes
  <2>9. QED
    BY <1>2, <2>5, <2>6, <2>7, <2>8
<1>3. QED
  BY <1>1, <1>2

\* A step that stops a session and does no more to the gate's tables keeps
\* the invariant.
LEMMA StoppingKeeps ==
  ASSUME GateInv, NEW c \in Clients, NEW how \in StoppedStates, stop(c, how),
         batch' \in [Clients -> Seq(Kinds)],
         batch[c] # <<>> \/ link[c] = "open",
         how = "lost" => batch'[c] = <<>>,
         \A d \in Clients : d # c => batch'[d] = batch[d],
         UNCHANGED <<player_idx, owner, service, traffic, crashed>>
  PROVE  GateInv'
<1> USE DEF GateInv
<1>1. /\ link' \in [Clients -> LinkStates]
      /\ DOMAIN players' = 1..player_idx'
      /\ SessionsLinked' /\ OwnersKeep'
      /\ \A d \in Clients : d # c \/ link[d] # "open" => link'[d] = link[d]
      /\ link[c] = "open" => link'[c] = how
  BY StopKeeps DEF traffic
<1>2. GateTypes' /\ RegisteredLate'
  BY <1>1 DEF GateTypes, RegisteredLate, service, traffic
<1>3. InOrder'
  <2>1. link[c] \notin {"new", "lost"}
    BY DEF InOrder
  <2>2. /\ link'[c] # "new"
        /\ link'[c] = "lost" => batch'[c] = <<>>
        /\ \A d \in Clients : d # c => link'[d] = link[d]
    BY <1>1, <2>1 DEF StoppedStates
  <2>3. QED
    BY <2>1, <2>2 DEF InOrder
<1>4. LostOnlyBehindStop'
  <2>1. crashed # None => crashed \in Clients /\ link[crashed] \in {"cut", "closed"}
    BY DEF LostOnlyBehindStop
  <2>2. QED
    BY <1>1, <2>1 DEF LostOnlyBehindStop
<1>5. QED
  BY <1>1, <1>2, <1>3, <1>4

\* A step that takes packets of a client that is connected, and does no more
\* to the gate's tables, keeps the invariant.
LEMMA PacketKeeps ==
  ASSUME GateInv, NEW c \in Clients, link[c] \notin {"new", "lost"},
         batch' \in [Clients -> Seq(Kinds)],
         \A d \in Clients : d # c => batch'[d] = batch[d],
         requests' \in [PlayerIDs -> Nat],
         UNCHANGED <<link, tables, service, toClients, crashed>>
  PROVE  GateInv'
<1> USE DEF GateInv, tables, service
<1>1. GateTypes'
  BY DEF GateTypes
<1>2. InOrder'
  BY DEF InOrder
<1>3. SessionsLinked' /\ OwnersKeep' /\ RegisteredLate' /\ LostOnlyBehindStop'
  BY DEF SessionsLinked, OwnersKeep, RegisteredLate, LostOnlyBehindStop
<1>4. QED
  BY <1>1, <1>2, <1>3

\* What is read and what is taken off a batch are packets.
LEMMA Batches ==
  ASSUME GateInv, NEW c \in Clients
  PROVE  /\ batch[c] # <<>> => link[c] \notin {"new", "lost"}
         /\ batch[c] # <<>> /\ Consume(c) =>
              /\ batch' \in [Clients -> Seq(Kinds)]
              /\ \A d \in Clients : d # c => batch'[d] = batch[d]
<1>1. batch \in [Clients -> Seq(Kinds)] /\ batch[c] \in Seq(Kinds)
  BY DEF GateInv, GateTypes
<1>2. batch[c] # <<>> => Tail(batch[c]) \in Seq(Kinds)
  BY <1>1, HeadTailProperties
<1>3. batch[c] # <<>> => link[c] \notin {"new", "lost"}
  BY DEF GateInv, InOrder
<1>4. QED
  BY <1>1, <1>2, <1>3 DEF Consume

\* Accepting a client keeps the invariant: the new player's id is new.
LEMMA AcceptKeeps ==
  ASSUME GateInv, NEW c \in Clients, Accept(c)
  PROVE  GateInv'
<1> USE DEF GateInv
<1>1. /\ link[c] = "new" /\ \A d \in Clients : d < c => link[d] # "new"
      /\ link' = [link EXCEPT ![c] = "open"]
      /\ player_idx' = player_idx + 1
      /\ players' = With(players, player_idx + 1, c)
      /\ sessionMap' = With(sessionMap, c, player_idx + 1)
      /\ owner' = With(owner, player_idx + 1, c)
      /\ UNCHANGED <<batch, packets, service, traffic, crashed>>
  BY DEF Accept, addSession, fetchPlayer
<1>2. player_idx \in 0..MaxClients /\ \A d \in Clients : link[d] # "new" <=> d <= player_idx
  BY DEF GateTypes, InOrder
<1> DEFINE p == player_idx + 1
<1>3. c = p /\ p \in 1..MaxClients /\ p \notin 1..player_idx
      /\ 1..p = (1..player_idx) \union {p}
  <2>1. c > player_idx /\ c \in 1..MaxClients
    BY <1>1, <1>2 DEF Clients
  <2>2. CASE c = 1
    BY <1>2, <2>1, <2>2
  <2>3. CASE c > 1
    <3>1. c - 1 \in Clients /\ c - 1 < c
      BY <2>1, <2>3 DEF Clients
    <3>2. c - 1 <= player_idx
      BY <1>1, <1>2, <3>1
    <3>3. QED
      BY <1>2, <2>1, <3>2
  <2>4. QED
    BY <2>1, <2>2, <2>3
<1>4. /\ DOMAIN players = 1..player_idx /\ DOMAIN owner = 1..player_idx
      /\ c \notin DOMAIN sessionMap
  BY <1>1 DEF GateTypes, SessionsLinked
<1>5. /\ DOMAIN players' = 1..p /\ players'[p] = c
      /\ \A x \in 1..player_idx : players'[x] = players[x]
  BY <1>1, <1>3, <1>4 DEF With
<1>6. /\ DOMAIN owner' = 1..p /\ owner'[p] = c
      /\ \A x \in 1..player_idx : owner'[x] = owner[x]
  BY <1>1, <1>3, <1>4 DEF With
<1>7. /\ DOMAIN sessionMap' = DOMAIN sessionMap \union {c} /\ sessionMap'[c] = p
      /\ \A d \in DOMAIN sessionMap : sessionMap'[d] = sessionMap[d]
  BY <1>1, <1>4 DEF With
<1>8. /\ link' \in [Clients -> LinkStates]
      /\ \A d \in Clients : link'[d] = IF d = c THEN "open" ELSE link[d]
  BY <1>1 DEF GateTypes, LinkStates
<1> HIDE DEF p
<1>9. GateTypes' /\ RegisteredLate'
  <2>1. player_idx' = p /\ player_idx' \in 0..MaxClients
    BY <1>1, <1>3 DEF p
  <2>2. QED
    BY <1>1, <1>5, <1>6, <1>8, <2>1 DEF GateTypes, RegisteredLate, service, traffic
<1>10. InOrder'
  <2>1. player_idx' = p /\ \A d \in Clients : d <= p <=> (d = c \/ d <= player_idx)
    BY <1>1, <1>2, <1>3 DEF p, Clients
  <2>2. QED
    BY <1>1, <1>2, <1>8, <2>1 DEF InOrder
<1>11. SessionsLinked'
  <2>1. DOMAIN sessionMap' = {d \in Clients : link'[d] = "open"}
    BY <1>7, <1>8 DEF SessionsLinked
  <2>2. \A d \in DOMAIN sessionMap : sessionMap[d] \in 1..player_idx
    BY <1>4 DEF OwnersKeep
  <2>3. \A d \in DOMAIN sessionMap' : players'[sessionMap'[d]] = d
    BY <1>4, <1>5, <1>7, <2>2 DEF SessionsLinked
  <2>4. \A x \in 1..player_idx : players[x] # None =>
          players[x] \in DOMAIN sessionMap /\ sessionMap[players[x]] = x
    BY <1>4 DEF SessionsLinked
  <2>5. \A x \in DOMAIN players' : players'[x] # None =>
          players'[x] \in DOMAIN sessionMap' /\ sessionMap'[players'[x]] = x
    BY <1>3, <1>5, <1>7, <2>4
  <2>6. QED
    BY <2>1, <2>3, <2>5 DEF SessionsLinked
<1>12. OwnersKeep'
  <2>1. \A d \in DOMAIN sessionMap' : sessionMap'[d] \in DOMAIN players'
    BY <1>3, <1>4, <1>5, <1>7 DEF OwnersKeep
  <2>2. \A x \in DOMAIN players' : players'[x] # None => players'[x] = owner'[x]
    BY <1>3, <1>4, <1>5, <1>6 DEF OwnersKeep
  <2>3. \A d \in toClients' : d[1] \in DOMAIN players' /\ owner'[d[1]] = d[2]
    BY <1>1, <1>3, <1>4, <1>5, <1>6 DEF OwnersKeep, traffic
  <2>4. QED
    BY <2>1, <2>2, <2>3 DEF OwnersKeep
<1>13. LostOnlyBehindStop' /\ crashed' \in Clients \union {None}
  BY <1>1, <1>8 DEF LostOnlyBehindStop
<1>14. QED
  BY <1>9, <1>10, <1>11, <1>12, <1>13

\* The player of a session is one of the players, and is the client's own.
LEMMA PlayerOfSession ==
  ASSUME GateInv, NEW c \in DOMAIN sessionMap
  PROVE  /\ sessionMap[c] \in PlayerIDs /\ sessionMap[c] \in DOMAIN players
         /\ owner[sessionMap[c]] = c /\ c \in Clients /\ link[c] = "open"
<1>1. /\ c \in Clients /\ link[c] = "open"
      /\ sessionMap[c] \in DOMAIN players /\ players[sessionMap[c]] = c
  BY DEF GateInv, SessionsLinked, OwnersKeep
<1>2. sessionMap[c] \in PlayerIDs
  BY <1>1 DEF GateInv, GateTypes, PlayerIDs
<1>3. c # None
  BY <1>1 DEF Clients, None
<1>4. QED
  BY <1>1, <1>2, <1>3 DEF GateInv, OwnersKeep

\* Every step of the gate keeps its invariant.
LEMMA GateKeeps ==
  ASSUME GateInv,
         \/ GateStep \/ (\E c \in Clients : RecvLogin(c)) \/ LoginLink
         \/ UNCHANGED gateVars
  PROVE  GateInv'
<1>1. ASSUME NEW c \in Clients, Accept(c) PROVE GateInv'
  BY <1>1, AcceptKeeps
<1>2. ASSUME NEW c \in Clients, Disconnect(c) \/ CloseAll(c) PROVE GateInv'
  <2>1. /\ batch' \in [Clients -> Seq(Kinds)] /\ \A d \in Clients : batch'[d] = batch[d]
        /\ link[c] = "open" /\ UNCHANGED <<player_idx, owner, service, traffic, crashed>>
    BY <1>2 DEF Disconnect, CloseAll, GateInv, GateTypes
  <2>2. PICK how \in StoppedStates : stop(c, how) /\ (how = "lost" => batch'[c] = <<>>)
    BY <1>2 DEF Disconnect, CloseAll, StoppedStates
  <2>3. QED
    BY <2>1, <2>2, StoppingKeeps
<1>3. ASSUME NEW c \in Clients, RecvOutOfRange(c) \/ RecvOther(c) PROVE GateInv'
  <2>1. batch[c] # <<>> /\ Consume(c) /\ stop(c, "cut") /\ "cut" \in StoppedStates
    BY <1>3 DEF RecvOutOfRange, RecvOther, Current, StoppedStates
  <2>2. batch' \in [Clients -> Seq(Kinds)] /\ \A d \in Clients : d # c => batch'[d] = batch[d]
    BY <2>1, Batches
  <2>3. QED
    BY <1>3, <2>1, <2>2, StoppingKeeps DEF RecvOutOfRange, RecvOther
<1>4. ASSUME NEW c \in Clients, RecvLoginThrows(c) PROVE GateInv'
  <2>1. <<>> \in Seq(Kinds)
    OBVIOUS
  <2>2. /\ batch[c] # <<>> /\ stop(c, "lost") /\ batch' = [batch EXCEPT ![c] = <<>>]
        /\ "lost" \in StoppedStates
    BY <1>4 DEF RecvLoginThrows, Current, StoppedStates
  <2>3. /\ batch' \in [Clients -> Seq(Kinds)] /\ batch'[c] = <<>>
        /\ \A d \in Clients : d # c => batch'[d] = batch[d]
    BY <2>1, <2>2 DEF GateInv, GateTypes
  <2>4. QED
    BY <1>4, <2>2, <2>3, StoppingKeeps DEF RecvLoginThrows
<1>5. ASSUME NEW c \in Clients, RecvHeartBeat(c) \/ RecvBadLogin(c) PROVE GateInv'
  <2>1. batch[c] # <<>> /\ Consume(c)
    BY <1>5 DEF RecvHeartBeat, RecvBadLogin, Current
  <2>2. /\ link[c] \notin {"new", "lost"} /\ batch' \in [Clients -> Seq(Kinds)]
        /\ \A d \in Clients : d # c => batch'[d] = batch[d]
    BY <2>1, Batches
  <2>3. /\ requests' \in [PlayerIDs -> Nat]
        /\ UNCHANGED <<link, tables, service, toClients, crashed>>
    BY <1>5 DEF RecvHeartBeat, RecvBadLogin, traffic, GateInv, GateTypes
  <2>4. QED
    BY <2>2, <2>3, PacketKeeps
<1>6. ASSUME NEW c \in Clients, RecvLogin(c) PROVE GateInv'
  <2>1. batch[c] # <<>> /\ Consume(c)
    BY <1>6 DEF RecvLogin, Current
  <2>2. /\ link[c] \notin {"new", "lost"} /\ batch' \in [Clients -> Seq(Kinds)]
        /\ \A d \in Clients : d # c => batch'[d] = batch[d]
    BY <2>1, Batches
  <2>3. requests' \in [PlayerIDs -> Nat]
    <3>1. sessionMap[c] \in PlayerIDs
      BY <1>6, PlayerOfSession DEF RecvLogin, Found
    <3>2. requests \in [PlayerIDs -> Nat]
      BY DEF GateInv, GateTypes
    <3>3. QED
      BY <1>6, <3>1, <3>2 DEF RecvLogin, handleLoginReq
  <2>4. QED
    BY <1>6, <2>2, <2>3, PacketKeeps DEF RecvLogin
<1>7. ASSUME NEW c \in Clients, NEW n \in 1..MaxBatch, ReadPackets(c, n) PROVE GateInv'
  <2>1. PICK b \in [1..n -> Kinds] : batch' = [batch EXCEPT ![c] = b]
    BY <1>7 DEF ReadPackets
  <2>2. b \in Seq(Kinds)
    BY <2>1, n \in Nat, SeqDef
  <2>3. /\ batch' \in [Clients -> Seq(Kinds)]
        /\ \A d \in Clients : d # c => batch'[d] = batch[d]
    BY <2>1, <2>2 DEF GateInv, GateTypes
  <2>4. /\ link[c] \notin {"new", "lost"} /\ requests' \in [PlayerIDs -> Nat]
        /\ UNCHANGED <<link, tables, service, toClients, crashed>>
    BY <1>7 DEF ReadPackets, traffic, GateInv, GateTypes
  <2>5. QED
    BY <2>3, <2>4, PacketKeeps
<1>8. ASSUME NEW c \in Clients, LostSession(c) PROVE GateInv'
  <2>1. link[c] \in {"cut", "closed"}
    BY <1>8 DEF LostSession, Found, GateInv, GateTypes, LinkStates, InOrder, SessionsLinked
  <2>2. GateTypes' /\ InOrder' /\ RegisteredLate'
    BY <1>8 DEF LostSession, GateInv, GateTypes, InOrder, RegisteredLate, conns, tables,
       service, traffic
  <2>3. SessionsLinked' /\ OwnersKeep'
    BY <1>8 DEF LostSession, GateInv, SessionsLinked, OwnersKeep, conns, tables, traffic
  <2>4. LostOnlyBehindStop' /\ crashed' \in Clients \union {None}
    BY <1>8, <2>1 DEF LostSession, LostOnlyBehindStop, conns
  <2>5. QED
    BY <2>2, <2>3, <2>4 DEF GateInv
<1>9. ASSUME NEW p \in PlayerIDs, GsMessage(p) PROVE GateInv'
  <2>1. UNCHANGED <<conns, tables, service, requests, crashed>>
    BY <1>9 DEF GsMessage
  <2>2. \A d \in toClients' : d \in toClients \/
          (p \in DOMAIN players /\ players[p] # None /\ d = <<p, players[p]>>)
    BY <1>9 DEF GsMessage, onGsToClient
  <2>3. OwnersKeep'
    BY <2>1, <2>2 DEF GateInv, OwnersKeep, tables
  <2>4. GateTypes' /\ InOrder' /\ RegisteredLate'
    BY <2>1 DEF GateInv, GateTypes, InOrder, RegisteredLate, conns, tables, service
  <2>5. SessionsLinked' /\ LostOnlyBehindStop' /\ crashed' \in Clients \union {None}
    BY <2>1 DEF GateInv, SessionsLinked, LostOnlyBehindStop, conns, tables
  <2>6. QED
    BY <2>3, <2>4, <2>5 DEF GateInv
<1>10. CASE LoginLink \/ StartReturns \/ ServerStop \/ UNCHANGED gateVars
  <2>1. UNCHANGED <<conns, tables, traffic, crashed>>
    BY <1>10 DEF LoginLink, StartReturns, ServerStop, gateVars
  <2>2. registered' \in BOOLEAN /\ starting' \in BOOLEAN /\ loginUp' \in BOOLEAN
    BY <1>10, Zenon DEF LoginLink, StartReturns, ServerStop, gateVars, service, GateInv,
       GateTypes
  <2>3. GateTypes' /\ InOrder'
    BY <2>1, <2>2 DEF GateInv, GateTypes, InOrder, conns, tables, traffic
  <2>4. RegisteredLate'
    BY <1>10 DEF LoginLink, StartReturns, ServerStop, gateVars, service, GateInv,
       RegisteredLate
  <2>5. SessionsLinked' /\ OwnersKeep' /\ LostOnlyBehindStop'
        /\ crashed' \in Clients \union {None}
    BY <2>1 DEF GateInv, SessionsLinked, OwnersKeep, LostOnlyBehindStop, conns, tables,
       traffic
  <2>6. QED
    BY <2>3, <2>4, <2>5 DEF GateInv
<1>11. QED
  BY <1>1, <1>2, <1>3, <1>4, <1>5, <1>6, <1>7, <1>8, <1>9, <1>10
     DEF GateStep, ClientPacket

\* What a step of the two servers is to the gate.
LEMMA GateSees ==
  ASSUME [Next]_vars
  PROVE  \/ GateStep \/ (\E c \in Clients : RecvLogin(c)) \/ LoginLink
         \/ UNCHANGED gateVars
<1>1. CASE GateStep
  BY <1>1
<1>2. ASSUME NEW c \in Clients, NEW t \in PTIDs, GateRecvLogin(c, t)
      PROVE  \E d \in Clients : RecvLogin(d)
  BY <1>2 DEF GateRecvLogin
<1>3. CASE GateRecvWord
  BY <1>3 DEF GateRecvWord, LoginMessage, gateVars
<1>4. CASE LinkUp \/ LinkDown
  BY <1>4 DEF LinkUp, LinkDown
<1>5. ASSUME NEW i \in Requests, NEW k \in Links, LoginTakes(i, k)
      PROVE  UNCHANGED gateVars
  BY <1>5 DEF LoginTakes
<1>6. ASSUME NEW i \in Requests, LoginDecides(i) PROVE UNCHANGED gateVars
  BY <1>6 DEF LoginDecides
<1>7. ASSUME NEW i \in Requests, NEW t \in PTIDs, OtherGate(i, t)
      PROVE  UNCHANGED gateVars
  BY <1>7 DEF OtherGate
<1>8. CASE LoginDrops \/ LoginRestarts
  BY <1>8 DEF LoginDrops, LoginRestarts
<1>9. CASE UNCHANGED vars
  BY <1>9 DEF vars
<1>10. QED
  BY <1>1, <1>2, <1>3, <1>4, <1>5, <1>6, <1>7, <1>8, <1>9 DEF Next

\* The gate's invariant holds in the beginning.
LEMMA GateInitially ==
  ASSUME Init
  PROVE  GateInv
<1>1. GateInit
  BY DEF Init
<1>2. DOMAIN sessionMap = {} /\ DOMAIN players = {} /\ DOMAIN owner = {} /\ 1..0 = {}
  BY <1>1 DEF GateInit
<1>3. GateTypes
  <2>1. batch \in [Clients -> Seq(Kinds)]
    BY <1>1 DEF GateInit
  <2>2. player_idx \in 0..MaxClients /\ requests \in [PlayerIDs -> Nat]
        /\ link \in [Clients -> LinkStates]
    BY <1>1 DEF GateInit, LinkStates
  <2>3. player_idx = 0
    BY <1>1 DEF GateInit
  <2>4. registered \in BOOLEAN /\ starting \in BOOLEAN /\ loginUp \in BOOLEAN
    BY <1>1, Zenon DEF GateInit
  <2>5. QED
    BY <1>2, <2>1, <2>2, <2>3, <2>4 DEF GateTypes
<1>4. InOrder
  BY <1>1 DEF GateInit, InOrder, Clients
<1>5. SessionsLinked /\ OwnersKeep /\ RegisteredLate /\ LostOnlyBehindStop
  BY <1>1, <1>2 DEF GateInit, SessionsLinked, OwnersKeep, RegisteredLate,
     LostOnlyBehindStop
<1>6. QED
  BY <1>1, <1>3, <1>4, <1>5 DEF GateInv, GateInit

\* The gate's invariant holds in every state.
LEMMA GateInductive == Spec => []GateInv
<1>1. Init => GateInv
  BY GateInitially
<1>2. GateInv /\ [Next]_vars => GateInv'
  BY GateSees, GateKeeps
<1>3. QED
  BY <1>1, <1>2, PTL DEF Spec

\* session_map_ and playerIdMap_ point at each other for exactly the clients
\* that are connected, whatever stops a session.
THEOREM TablesLinked == Spec => []SessionsLinked
<1>1. GateInv => SessionsLinked
  BY DEF GateInv
<1>2. QED
  BY <1>1, GateInductive, PTL

\* What the game server sends never reaches another client than the one its
\* player was made for.
THEOREM OwnerReached == Spec => []ReachesOwner
<1>1. GateInv => ReachesOwner
  BY DEF GateInv, OwnersKeep, ReachesOwner
<1>2. QED
  BY <1>1, GateInductive, PTL

\* A PlayerSession is missing only behind a packet for which the parser stopped
\* the session, or when closeAll stopped the session at shutdown.
THEOREM LostBehindStop == Spec => []LostOnlyBehindStop
<1>1. GateInv => LostOnlyBehindStop
  BY DEF GateInv
<1>2. QED
  BY <1>1, GateInductive, PTL

\* A login request goes out only for a connected client, under the id of that
\* client's own player.
THEOREM RequestsLive == Spec => RequestFromLive
<1> DEFINE A == \A p \in PlayerIDs :
                  requests'[p] # requests[p] =>
                    \E c \in Clients : /\ link[c] = "open" /\ owner[p] = c
                                       /\ Current(c, "Login")
<1>1. GateInv /\ [Next]_vars => A
  <2> SUFFICES ASSUME GateInv, [Next]_vars,
                      NEW p \in PlayerIDs, requests'[p] # requests[p]
               PROVE  \E c \in Clients : /\ link[c] = "open" /\ owner[p] = c
                                         /\ Current(c, "Login")
    OBVIOUS
  <2>1. CASE \E c \in Clients : RecvLogin(c)
    <3>1. PICK c \in Clients : RecvLogin(c)
      BY <2>1
    <3>2. /\ Current(c, "Login") /\ c \in DOMAIN sessionMap
          /\ requests' = requests \/ requests' = [requests EXCEPT ![sessionMap[c]] = @ + 1]
      BY <3>1 DEF RecvLogin, Found, handleLoginReq
    <3>3. p = sessionMap[c]
      BY <3>2 DEF GateInv, GateTypes
    <3>4. QED
      BY <3>2, <3>3, PlayerOfSession
  <2>2. CASE GateStep \/ LoginLink \/ UNCHANGED gateVars
    <3>1. requests' = requests
      BY <2>2 DEF GateStep, LoginLink, gateVars, traffic, Accept, Disconnect, CloseAll,
         ClientPacket, ReadPackets, GsMessage, StartReturns, ServerStop, RecvHeartBeat,
         RecvOutOfRange, LostSession, RecvOther, RecvBadLogin, RecvLoginThrows
    <3>2. QED
      BY <3>1
  <2>3. QED
    BY <2>1, <2>2, GateSees
<1>2. QED
  BY <1>1, GateInductive, PTL DEF Spec, RequestFromLive

-----------------------------------------------------------------------------
(* Words in a row: how many of a kind there are, and the last of them.     *)

\* The positions that Count counts are finitely many.
LEMMA CountType ==
  ASSUME NEW T, NEW s \in Seq(T), NEW S
  PROVE  /\ IsFiniteSet({k \in 1..Len(s) : s[k] \in S})
         /\ Count(s, S) \in Nat
<1>1. Len(s) \in Nat
  BY LenProperties
<1>2. IsFiniteSet(1..Len(s))
  BY <1>1, FS_Interval
<1>3. IsFiniteSet({k \in 1..Len(s) : s[k] \in S})
  BY <1>2, FS_Subset
<1>4. QED
  BY <1>3, FS_CardinalityType DEF Count

\* There is nothing in the empty sequence.
LEMMA CountEmpty == \A S : Count(<<>>, S) = 0
<1> SUFFICES ASSUME NEW S PROVE Count(<<>>, S) = 0
  OBVIOUS
<1>1. {k \in 1..Len(<<>>) : <<>>[k] \in S} = {}
  OBVIOUS
<1>2. QED
  BY <1>1, FS_EmptySet DEF Count

\* Appending an element counts it.
LEMMA CountAppend ==
  ASSUME NEW T, NEW s \in Seq(T), NEW e \in T, NEW S
  PROVE  Count(Append(s, e), S) = Count(s, S) + (IF e \in S THEN 1 ELSE 0)
<1> DEFINE a == Append(s, e)
           A == {k \in 1..Len(s) : s[k] \in S}
           B == {k \in 1..Len(a) : a[k] \in S}
           n == Len(s) + 1
<1>1. Len(s) \in Nat /\ Len(a) = n /\ a[n] = e /\ \A k \in 1..Len(s) : a[k] = s[k]
  BY AppendProperties, LenProperties
<1> HIDE DEF a
<1>2. B = IF e \in S THEN A \union {n} ELSE A
  <2>1. 1..n = (1..Len(s)) \union {n} /\ n \notin 1..Len(s)
    BY <1>1
  <2>2. QED
    BY <1>1, <2>1
<1>3. n \notin A
  BY <1>1
<1>4. IsFiniteSet(A) /\ Cardinality(A) \in Nat
  BY CountType DEF Count
<1> HIDE DEF A, B, n
<1>5. Cardinality(B) = Cardinality(A) + (IF e \in S THEN 1 ELSE 0)
  <2>1. Cardinality(A \union {n}) = Cardinality(A) + 1
    BY <1>3, <1>4, FS_AddElement
  <2>2. CASE e \in S
    BY <1>2, <2>1, <2>2
  <2>3. CASE e \notin S
    BY <1>2, <1>4, <2>3
  <2>4. QED
    BY <2>2, <2>3
<1>6. QED
  BY <1>5 DEF Count, A, B, a

\* Taking the first element off counts it no more.
LEMMA CountTail ==
  ASSUME NEW T, NEW s \in Seq(T), s # <<>>, NEW S
  PROVE  Count(s, S) = Count(Tail(s), S) + (IF Head(s) \in S THEN 1 ELSE 0)
<1> DEFINE r == Tail(s)
           A == {k \in 1..Len(s) : s[k] \in S}
           B == {k \in 1..Len(r) : r[k] \in S}
           C == {k \in 2..Len(s) : s[k] \in S}
           f == [k \in B |-> k + 1]
<1>1. /\ Len(s) \in Nat \ {0} /\ r \in Seq(T) /\ Len(r) = Len(s) - 1
      /\ \A k \in 1..Len(r) : r[k] = s[k + 1]
  BY HeadTailProperties, EmptySeq
<1>2. Head(s) = s[1]
  OBVIOUS
<1> HIDE DEF r
<1>3. f \in [B -> C]
  BY <1>1, SMTT(60)
<1>4. \A x, y \in B : f[x] = f[y] => x = y
  BY <1>1
<1>5. \A k \in C : \E x \in B : f[x] = k
  <2> SUFFICES ASSUME NEW k \in C PROVE \E x \in B : f[x] = k
    OBVIOUS
  <2>1. k - 1 \in 1..Len(r) /\ r[k - 1] = s[k]
    BY <1>1
  <2>2. k - 1 \in B /\ f[k - 1] = k
    BY <2>1
  <2>3. QED
    BY <2>2
<1>6. IsFiniteSet(B) /\ Cardinality(B) \in Nat
  BY <1>1, CountType DEF Count
<1> HIDE DEF f
<1>7. f \in Bijection(B, C)
  BY <1>3, <1>4, <1>5 DEF Bijection, Injection, IsInjective, Surjection
<1>8. IsFiniteSet(C) /\ Cardinality(C) = Cardinality(B)
  BY <1>6, <1>7, FS_Bijection DEF ExistsBijection
<1>9. 1 \notin C /\ A = IF Head(s) \in S THEN C \union {1} ELSE C
  <2>1. 1..Len(s) = {1} \union (2..Len(s))
    BY <1>1
  <2>2. QED
    BY <1>2, <2>1
<1> HIDE DEF A, B, C
<1>10. Cardinality(A) = Cardinality(B) + (IF Head(s) \in S THEN 1 ELSE 0)
  <2>1. Cardinality(C \union {1}) = Cardinality(C) + 1
    BY <1>8, <1>9, FS_AddElement
  <2>2. CASE Head(s) \in S
    BY <1>8, <1>9, <2>1, <2>2
  <2>3. CASE Head(s) \notin S
    BY <1>6, <1>8, <1>9, <2>3
  <2>4. QED
    BY <2>2, <2>3
<1>11. QED
  BY <1>10 DEF Count, A, B, r

\* A new word is the last one about those it is about.
LEMMA SaysAppend ==
  ASSUME NEW s \in Seq(Words), NEW w \in Words, NEW h, NEW p, NEW t, NEW v,
         Says(s, h, p, t, v)
  PROVE  Says(Append(s, w), h, p, t, IF About(w, p, t) THEN w.kind ELSE v)
<1> DEFINE a == Append(s, w)
           n == Len(s) + 1
<1>1. Len(s) \in Nat /\ Len(a) = n /\ a[n] = w /\ \A k \in 1..Len(s) : a[k] = s[k]
  BY AppendProperties, LenProperties
<1> HIDE DEF a
<1>2. 1..n = (1..Len(s)) \union {n} /\ \A k \in 1..Len(s) : ~(n <= k)
  BY <1>1
<1> HIDE DEF n
<1>3. CASE About(w, p, t)
  <2>1. \A k \in 1..n : (\A j \in 1..n : About(a[j], p, t) => j <= k) => k = n
    BY <1>1, <1>2, <1>3
  <2>2. QED
    BY <1>1, <1>2, <1>3, <2>1 DEF Says, a
<1>4. CASE ~About(w, p, t)
  <2>1. \A k \in 1..n : About(a[k], p, t) => k \in 1..Len(s) /\ About(s[k], p, t)
    BY <1>1, <1>2, <1>4
  <2>2. (\A k \in 1..n : ~About(a[k], p, t)) => h = v
    BY <1>1, <1>2 DEF Says
  <2>3. \A k \in 1..n :
          About(a[k], p, t) /\ (\A j \in 1..n : About(a[j], p, t) => j <= k) =>
            a[k].kind = v
    BY <1>1, <1>2, <2>1 DEF Says
  <2>4. QED
    BY <1>1, <1>4, <2>2, <2>3 DEF Says, a
<1>5. QED
  BY <1>3, <1>4

\* A word that comes out is the last one heard about those it is about, and
\* what is said in the end stays.
LEMMA SaysTail ==
  ASSUME NEW s \in Seq(Words), s # <<>>, NEW h, NEW p, NEW t, NEW v,
         Says(s, h, p, t, v)
  PROVE  Says(Tail(s), IF About(Head(s), p, t) THEN Head(s).kind ELSE h, p, t, v)
<1> DEFINE r == Tail(s)
           g == IF About(s[1], p, t) THEN s[1].kind ELSE h
<1>1. /\ Len(s) \in Nat \ {0} /\ Len(r) = Len(s) - 1
      /\ \A k \in 1..Len(r) : r[k] = s[k + 1]
  BY HeadTailProperties, EmptySeq
<1>2. Head(s) = s[1]
  OBVIOUS
<1> HIDE DEF r
<1>3. \A j \in 1..Len(s) : j = 1 \/ (j - 1 \in 1..Len(r) /\ r[j - 1] = s[j])
  BY <1>1
<1>4. \A k \in 1..Len(r) : k + 1 \in 1..Len(s)
  BY <1>1
<1>5. ASSUME \A k \in 1..Len(r) : ~About(r[k], p, t) PROVE g = v
  <2>1. \A j \in 1..Len(s) : About(s[j], p, t) => j = 1
    BY <1>3, <1>5
  <2>2. 1 \in 1..Len(s) /\ 1 <= 1
    BY <1>1
  <2>3. CASE About(s[1], p, t)
    BY <2>1, <2>2, <2>3 DEF Says
  <2>4. CASE ~About(s[1], p, t)
    BY <2>1, <2>4 DEF Says
  <2>5. QED
    BY <2>3, <2>4
<1>6. ASSUME NEW k \in 1..Len(r), About(r[k], p, t),
             \A j \in 1..Len(r) : About(r[j], p, t) => j <= k
      PROVE  r[k].kind = v
  <2>1. k + 1 \in 1..Len(s) /\ s[k + 1] = r[k]
    BY <1>1, <1>4
  <2>2. \A j \in 1..Len(s) : About(s[j], p, t) => j <= k + 1
    BY <1>1, <1>3, <1>6
  <2>3. QED
    BY <1>6, <2>1, <2>2 DEF Says
<1>7. Says(r, g, p, t, v)
  BY <1>5, <1>6 DEF Says
<1>8. QED
  BY <1>2, <1>7 DEF r

-----------------------------------------------------------------------------
(* What the login server sends.                                            *)

\* A kick-off and an answer are appended one after the other.
LEMMA ThreeParts ==
  \A S : \A a, b, c \in Seq(S) : (a \o b) \o c = a \o (b \o c)
BY ConcatAssociative

\* What is sent is words.
LEMMA TellType ==
  ASSUME NEW kind \in {"succ", "fail", "kick"}, NEW r,
         Reaches(r.link) => r.player \in PlayerIDs /\ r.ptid \in PTIDs
  PROVE  Tell(kind, r) \in Seq(Words)
<1>1. CASE Reaches(r.link)
  <2>1. Word(kind, r.player, r.ptid) \in Words
    BY <1>1 DEF Word, Words
  <2>2. QED
    BY <1>1, <2>1 DEF Tell
<1>2. CASE ~Reaches(r.link)
  BY <1>2 DEF Tell
<1>3. QED
  BY <1>1, <1>2

\* A word about a request is sent to the gate that asked, or nobody; it counts
\* if it is an answer, and it is the last word if it says something.
LEMMA Telling ==
  ASSUME NEW s \in Seq(Words), NEW kind \in {"succ", "fail", "kick"}, NEW r,
         Reaches(r.link) => r.player \in PlayerIDs /\ r.ptid \in PTIDs /\ Hears(r.player)
  PROVE  /\ s \o Tell(kind, r) \in Seq(Words)
         /\ \A p : Count(s \o Tell(kind, r), AnswersTo(p)) =
                     Count(s, AnswersTo(p))
                     + (IF Reaches(r.link) /\ r.player = p /\ kind # "kick" THEN 1 ELSE 0)
         /\ \A p, t, h, v :
              Says(s, h, p, t, v) =>
                Says(s \o Tell(kind, r), h, p, t,
                     IF Reaches(r.link) /\ r.player = p /\ r.ptid = t /\ kind # "fail"
                     THEN kind ELSE v)
         /\ (\A n \in 1..Len(s) : Hears(s[n].player)) =>
              \A n \in 1..Len(s \o Tell(kind, r)) : Hears((s \o Tell(kind, r))[n].player)
<1>1. CASE ~Reaches(r.link)
  <2>1. s \o Tell(kind, r) = s
    BY <1>1, ConcatEmptySeq DEF Tell
  <2>2. \A p : Count(s, AnswersTo(p)) \in Nat
    BY CountType
  <2>3. QED
    BY <1>1, <2>1, <2>2
<1>2. CASE Reaches(r.link)
  <2> DEFINE w == Word(kind, r.player, r.ptid)
  <2>1. /\ w \in Words /\ w.kind = kind /\ w.player = r.player /\ w.ptid = r.ptid
        /\ Hears(w.player)
    BY <1>2 DEF Words, Word
  <2>2. s \o Tell(kind, r) = Append(s, w)
    BY <1>2, <2>1, AppendIsConcat DEF Tell
  <2> HIDE DEF w
  <2>3. Append(s, w) \in Seq(Words)
    BY <2>1, AppendProperties
  <2>4. ASSUME NEW p
        PROVE  Count(Append(s, w), AnswersTo(p)) =
                 Count(s, AnswersTo(p))
                 + (IF Reaches(r.link) /\ r.player = p /\ kind # "kick" THEN 1 ELSE 0)
    <3>1. w \in AnswersTo(p) <=> r.player = p /\ kind # "kick"
      BY <2>1 DEF AnswersTo
    <3>2. Count(Append(s, w), AnswersTo(p)) =
            Count(s, AnswersTo(p)) + (IF w \in AnswersTo(p) THEN 1 ELSE 0)
      BY <2>1, CountAppend
    <3>3. QED
      BY <1>2, <3>1, <3>2
  <2>5. ASSUME NEW p, NEW t, NEW h, NEW v, Says(s, h, p, t, v)
        PROVE  Says(Append(s, w), h, p, t,
                    IF Reaches(r.link) /\ r.player = p /\ r.ptid = t /\ kind # "fail"
                    THEN kind ELSE v)
    <3>1. About(w, p, t) <=>
            Reaches(r.link) /\ r.player = p /\ r.ptid = t /\ kind # "fail"
      BY <1>2, <2>1 DEF About
    <3>2. Says(Append(s, w), h, p, t, IF About(w, p, t) THEN w.kind ELSE v)
      BY <2>1, <2>5, SaysAppend
    <3>3. (IF About(w, p, t) THEN w.kind ELSE v) =
            IF Reaches(r.link) /\ r.player = p /\ r.ptid = t /\ kind # "fail"
            THEN kind ELSE v
      BY <2>1, <3>1
    <3>4. QED
      BY <3>2, <3>3
  <2>6. ASSUME \A n \in 1..Len(s) : Hears(s[n].player)
        PROVE  \A n \in 1..Len(Append(s, w)) : Hears(Append(s, w)[n].player)
    <3>1. /\ Len(s) \in Nat /\ Len(Append(s, w)) = Len(s) + 1
          /\ Append(s, w)[Len(s) + 1] = w
          /\ \A n \in 1..Len(s) : Append(s, w)[n] = s[n]
      BY AppendProperties, LenProperties
    <3>2. \A n \in 1..(Len(s) + 1) : n = Len(s) + 1 \/ n \in 1..Len(s)
      BY <3>1
    <3>3. QED
      BY <2>1, <2>6, <3>1, <3>2
  <2>7. QED
    BY <2>2, <2>3, <2>4, <2>5, <2>6
<1>3. QED
  BY <1>1, <1>2

\* The request of a player that is online or waits, by this connection, is one
\* of a player that the gate knows.
LEMMA OriginKnown ==
  ASSUME LinksInOrder, PlayersKnown, NEW i \in Requests, Reaches(from[i].link)
  PROVE  from[i].player \in PlayerIDs /\ Hears(from[i].player)
<1>1. from[i].link \in Links
  BY DEF Reaches, LinksInOrder
<1>2. from[i].link # None
  BY <1>1 DEF Links, None
<1>3. QED
  BY <1>2 DEF PlayersKnown

\* A kick-off goes to the player that is online under the platform id, if it is
\* one of this connection: then it is the last word about the two.
LEMMA Kicking ==
  ASSUME FlowTypes, LinksInOrder, PlayersKnown, HoldersOnline, lsUp,
         NEW s \in Seq(Words), NEW t \in PTIDs
  PROVE  /\ s \o Kick(t) \in Seq(Words)
         /\ \A p : Count(s \o Kick(t), AnswersTo(p)) = Count(s, AnswersTo(p))
         /\ \A p, u, h, v :
              Says(s, h, p, u, v) =>
                Says(s \o Kick(t), h, p, u, IF u = t /\ Holds(p, t) THEN "kick" ELSE v)
         /\ (\A n \in 1..Len(s) : Hears(s[n].player)) =>
              \A n \in 1..Len(s \o Kick(t)) : Hears((s \o Kick(t))[n].player)
<1>0. \A p : Count(s, AnswersTo(p)) \in Nat
  BY CountType
<1>1. CASE holder[t] = 0
  <2>1. s \o Kick(t) = s
    BY <1>1, ConcatEmptySeq DEF Kick
  <2>2. \A p : ~Holds(p, t)
    BY <1>1 DEF Holds
  <2>3. QED
    BY <2>1, <2>2
<1>2. CASE holder[t] # 0
  <2> DEFINE r == from[holder[t]]
  <2>1. holder[t] \in Requests /\ r.ptid = t
    BY <1>2 DEF FlowTypes, HoldersOnline
  <2>2. Reaches(r.link) => r.player \in PlayerIDs /\ r.ptid \in PTIDs /\ Hears(r.player)
    BY <2>1, OriginKnown
  <2>3. Kick(t) = Tell("kick", r)
    BY <1>2 DEF Kick
  <2>4. \A p : Holds(p, t) <=> Reaches(r.link) /\ r.player = p
    BY <1>2 DEF Holds, Reaches
  <2> HIDE DEF r
  <2>5. /\ s \o Tell("kick", r) \in Seq(Words)
        /\ \A p : Count(s \o Tell("kick", r), AnswersTo(p)) =
                    Count(s, AnswersTo(p))
                    + (IF Reaches(r.link) /\ r.player = p /\ "kick" # "kick" THEN 1 ELSE 0)
        /\ \A p, u, h, v :
             Says(s, h, p, u, v) =>
               Says(s \o Tell("kick", r), h, p, u,
                    IF Reaches(r.link) /\ r.player = p /\ r.ptid = u /\ "kick" # "fail"
                    THEN "kick" ELSE v)
        /\ (\A n \in 1..Len(s) : Hears(s[n].player)) =>
             \A n \in 1..Len(s \o Tell("kick", r)) : Hears((s \o Tell("kick", r))[n].player)
    BY <2>2, Telling
  <2>6. \A p : Count(s \o Kick(t), AnswersTo(p)) = Count(s, AnswersTo(p))
    BY <1>0, <2>3, <2>5
  <2>7. ASSUME NEW p, NEW u, NEW h, NEW v, Says(s, h, p, u, v)
        PROVE  Says(s \o Kick(t), h, p, u, IF u = t /\ Holds(p, t) THEN "kick" ELSE v)
    <3>1. (IF Reaches(r.link) /\ r.player = p /\ r.ptid = u /\ "kick" # "fail"
           THEN "kick" ELSE v) = IF u = t /\ Holds(p, t) THEN "kick" ELSE v
      BY <2>1, <2>4
    <3>2. QED
      BY <2>3, <2>5, <2>7, <3>1
  <2>8. QED
    BY <2>3, <2>5, <2>6, <2>7
<1>3. QED
  BY <1>1, <1>2

-----------------------------------------------------------------------------
(* The steps of the login server.                                          *)

\* The login server handles the request i, which is r.
Serves(i, r) ==
  /\ from' = Remember([from EXCEPT ![i] = r])
  /\ UNCHANGED <<gateVars, linkNo, lsUp, history>>

\* r may be the request i: it came by a connection that was made, for a player
\* that the gate knows, or is another gate's.
MayBe(i, r) ==
  /\ r \in Origins /\ r.ptid \in PTIDs /\ r.link <= linkNo
  /\ r.link # None => r.player \in PlayerIDs /\ Hears(r.player)
  /\ status[i] = "pending" => r = from[i]

\* The part of the invariant that such a step has to keep; the rest is about
\* what the gate sends.
LoginPart ==
  /\ toGate \in Seq(Words)
  /\ status \in [Requests -> {"none", "pending", "online", "ended"}]
  /\ holder \in [PTIDs -> {0} \union Requests]
  /\ from \in [Requests -> Origins]
  /\ \A j \in Requests : from[j].link <= linkNo
  /\ \A n \in 1..Len(toGate) : Hears(toGate[n].player)
  /\ \A j \in Requests :
       from[j].link # None => from[j].player \in PlayerIDs /\ Hears(from[j].player)
  /\ HoldersOnline /\ DownIsQuiet /\ Said

\* What the login server owes a player of this connection: the answers on their
\* way, and those to the requests that wait.
Load(p) == Count(toGate, AnswersTo(p)) + Cardinality(PendingOf(p))

\* The requests that wait are finitely many.
LEMMA PendingFinite ==
  ASSUME NEW p
  PROVE  IsFiniteSet(PendingOf(p)) /\ Cardinality(PendingOf(p)) \in Nat
<1>1. IsFiniteSet(Requests)
  BY FS_Interval DEF Requests
<1>2. IsFiniteSet(PendingOf(p))
  BY <1>1, FS_Subset DEF PendingOf
<1>3. QED
  BY <1>2, FS_CardinalityType

\* Whom the requests are from after the step.
LEMMA ServedFrom ==
  ASSUME IInv, NEW i \in Requests, NEW r, Serves(i, r), MayBe(i, r)
  PROVE  /\ \A j \in Requests :
              from'[j] = IF status'[j] = "ended" THEN Nobody
                         ELSE IF j = i THEN r ELSE from[j]
         /\ from' \in [Requests -> Origins]
         /\ \A j \in Requests : from'[j].link <= linkNo'
         /\ (\A j \in Requests : from[j].link # None =>
               from[j].player \in PlayerIDs /\ Hears(from[j].player))'
         /\ \A p : Hears(p)' <=> Hears(p)
<1>1. /\ from \in [Requests -> Origins] /\ linkNo \in Nat /\ linkNo' = linkNo
      /\ \A j \in Requests : from[j].link <= linkNo
      /\ \A j \in Requests :
           from[j].link # None => from[j].player \in PlayerIDs /\ Hears(from[j].player)
  BY DEF IInv, FlowTypes, LinksInOrder, PlayersKnown, Serves
<1>2. \A j \in Requests :
        from'[j] = IF status'[j] = "ended" THEN Nobody
                   ELSE IF j = i THEN r ELSE from[j]
  BY <1>1 DEF Serves, Remember
<1>3. Nobody \in Origins /\ Nobody.link = None /\ Nobody.link <= linkNo
  BY <1>1 DEF Nobody, Origins, None
<1>4. from' \in [Requests -> Origins]
  BY <1>1, <1>3 DEF Serves, Remember, MayBe
<1>5. \A p : Hears(p)' <=> Hears(p)
  BY DEF Serves, Hears, gateVars, service, tables
<1>6. \A j \in Requests : from'[j].link <= linkNo'
  BY <1>1, <1>2, <1>3 DEF MayBe
<1>7. \A j \in Requests : from'[j].link # None =>
        from'[j].player \in PlayerIDs /\ Hears(from'[j].player)
  BY <1>1, <1>2, <1>3 DEF MayBe
<1>8. QED
  BY <1>2, <1>4, <1>5, <1>6, <1>7

\* The requests that wait after the step are those that waited, and i if it
\* does now.
LEMMA ServedPending ==
  ASSUME IInv, NEW i \in Requests, NEW r, Serves(i, r), MayBe(i, r), NEW p,
         \A j \in Requests : j # i /\ status'[j] = "pending" => status[j] = "pending"
  PROVE  /\ status'[i] # "pending" =>
              Cardinality(PendingOf(p)') <=
                Cardinality(PendingOf(p))
                - (IF status[i] = "pending" /\ r.player = p /\ r.link = linkNo
                   THEN 1 ELSE 0)
         /\ Cardinality(PendingOf(p)') <=
              Cardinality(PendingOf(p))
              + (IF r.player = p /\ r.link = linkNo THEN 1 ELSE 0)
         /\ Cardinality(PendingOf(p)') \in Nat
<1> DEFINE A == PendingOf(p)
           B == PendingOf(p)'
<1>1. IsFiniteSet(A) /\ Cardinality(A) \in Nat
  BY PendingFinite
<1>2. \A j \in Requests :
        from'[j] = IF status'[j] = "ended" THEN Nobody
                   ELSE IF j = i THEN r ELSE from[j]
  BY ServedFrom
<1>3. linkNo' = linkNo
  BY DEF Serves
<1>4. \A j \in B : j # i => j \in A
  BY <1>2, <1>3 DEF PendingOf
<1>5. i \in B => status'[i] = "pending" /\ r.player = p /\ r.link = linkNo
  BY <1>2, <1>3 DEF PendingOf
<1>6. status[i] = "pending" /\ r.player = p /\ r.link = linkNo => i \in A
  BY DEF PendingOf, MayBe
<1> HIDE DEF A, B
<1>7. /\ IsFiniteSet(A \ {i}) /\ Cardinality(A \ {i}) \in Nat
      /\ Cardinality(A \ {i}) = IF i \in A THEN Cardinality(A) - 1 ELSE Cardinality(A)
  BY <1>1, FS_RemoveElement, FS_CardinalityType
<1>8. /\ IsFiniteSet(A \union {i}) /\ Cardinality(A \union {i}) \in Nat
      /\ Cardinality(A \union {i}) <= Cardinality(A) + 1
  <2>1. CASE i \in A
    <3>1. A \union {i} = A
      BY <2>1
    <3>2. QED
      BY <1>1, <3>1
  <2>2. CASE i \notin A
    BY <1>1, <2>2, FS_AddElement
  <2>3. QED
    BY <2>1, <2>2
<1>9. i \notin B => /\ Cardinality(B) \in Nat
                    /\ Cardinality(B) <= Cardinality(A \ {i})
  <2>1. i \notin B => B \subseteq A \ {i}
    BY <1>4
  <2>2. QED
    BY <1>7, <2>1, FS_Subset, FS_CardinalityType
<1>10. Cardinality(B) \in Nat /\ Cardinality(B) <= Cardinality(A \union {i})
  <2>1. B \subseteq A \union {i}
    BY <1>4
  <2>2. QED
    BY <1>8, <2>1, FS_Subset, FS_CardinalityType
<1>11. CASE i \in B
  BY <1>1, <1>5, <1>8, <1>10, <1>11 DEF A, B
<1>12. CASE i \notin B
  <2>1. CASE i \in A
    BY <1>1, <1>7, <1>9, <1>12, <2>1 DEF A, B
  <2>2. CASE i \notin A
    BY <1>1, <1>6, <1>7, <1>9, <1>12, <2>2 DEF A, B
  <2>3. QED
    BY <2>1, <2>2
<1>13. QED
  BY <1>11, <1>12

\* A step for a request adds to what is owed to its player only if the request
\* is new; and nothing is sent that cannot arrive.
Loads(i, r) ==
  /\ \A p \in PlayerIDs :
       Load(p)' <= Load(p) + (IF status[i] # "pending" /\ r.player = p /\ r.link = linkNo
                              THEN 1 ELSE 0)
  /\ ~lsUp => toGate' = toGate

\* A request is taken.
LEMMA TakenKeeps ==
  ASSUME IInv, NEW i \in Requests, NEW r, Serves(i, r), MayBe(i, r), Taken(i, r),
         status[i] = "none"
  PROVE  LoginPart' /\ Loads(i, r)
<1>1. /\ status' = [status EXCEPT ![i] = "pending"] /\ holder' = holder /\ toGate' = toGate
      /\ UNCHANGED <<linkNo, lsUp, heard, owed, loginUp>>
  BY DEF Taken, Directory!Ask, Serves, history, gateVars, service
<1>2. /\ status \in [Requests -> {"none", "pending", "online", "ended"}]
      /\ holder \in [PTIDs -> {0} \union Requests] /\ toGate \in Seq(Words)
      /\ from \in [Requests -> Origins]
  BY DEF IInv, FlowTypes
<1>3. /\ \A j \in Requests : status'[j] = IF j = i THEN "pending" ELSE status[j]
      /\ status' \in [Requests -> {"none", "pending", "online", "ended"}]
  BY <1>1, <1>2
<1>4. /\ \A j \in Requests :
           from'[j] = IF status'[j] = "ended" THEN Nobody
                      ELSE IF j = i THEN r ELSE from[j]
      /\ from' \in [Requests -> Origins]
      /\ \A j \in Requests : from'[j].link <= linkNo'
      /\ (\A j \in Requests : from[j].link # None =>
            from[j].player \in PlayerIDs /\ Hears(from[j].player))'
      /\ \A p : Hears(p)' <=> Hears(p)
  BY ServedFrom
<1>5. \A t \in PTIDs : holder[t] # 0 =>
        /\ holder[t] \in Requests /\ holder[t] # i
        /\ status[holder[t]] = "online" /\ from[holder[t]].ptid = t
        /\ status'[holder[t]] = "online" /\ from'[holder[t]] = from[holder[t]]
  BY <1>2, <1>3, <1>4 DEF IInv, HoldersOnline
<1>6. HoldersOnline'
  <2>1. \A j \in Requests : status'[j] = "pending" => from'[j].ptid \in PTIDs
    BY <1>3, <1>4 DEF IInv, HoldersOnline, MayBe
  <2>2. QED
    BY <1>1, <1>5, <2>1 DEF HoldersOnline
<1>7. Said'
  <2>1. \A p \in PlayerIDs, t \in PTIDs : Holds(p, t)' <=> Holds(p, t)
    BY <1>1, <1>5 DEF Holds
  <2>2. QED
    BY <1>1, <2>1 DEF IInv, Said, Says
<1>8. DownIsQuiet' /\ \A n \in 1..Len(toGate') : Hears(toGate[n].player)
  BY <1>1 DEF IInv, DownIsQuiet, PlayersKnown
<1>9. LoginPart'
  BY <1>1, <1>2, <1>3, <1>4, <1>6, <1>7, <1>8 DEF LoginPart
<1>10. Loads(i, r)
  <2> SUFFICES ASSUME NEW p \in PlayerIDs
               PROVE  Load(p)' <= Load(p) + (IF r.player = p /\ r.link = linkNo
                                             THEN 1 ELSE 0)
    BY <1>1 DEF Loads
  <2>1. /\ Cardinality(PendingOf(p)') <=
             Cardinality(PendingOf(p)) + (IF r.player = p /\ r.link = linkNo THEN 1 ELSE 0)
        /\ Cardinality(PendingOf(p)') \in Nat
    BY <1>3, ServedPending
  <2>2. Cardinality(PendingOf(p)) \in Nat /\ Count(toGate, AnswersTo(p)) \in Nat
    BY <1>2, PendingFinite, CountType
  <2>3. Load(p)' = Count(toGate, AnswersTo(p)) + Cardinality(PendingOf(p)')
    BY <1>1 DEF Load, Count, AnswersTo
  <2>4. QED
    BY <2>1, <2>2, <2>3 DEF Load
<1>11. QED
  BY <1>9, <1>10

\* A request is refused.
LEMMA RefusedKeeps ==
  ASSUME IInv, NEW i \in Requests, NEW r, Serves(i, r), MayBe(i, r), Refused(i, r)
  PROVE  LoginPart' /\ Loads(i, r)
<1>1. /\ status' = [status EXCEPT ![i] = "ended"] /\ holder' = holder
      /\ toGate' = toGate \o Tell("fail", r) /\ status[i] \in {"none", "pending"}
      /\ UNCHANGED <<linkNo, lsUp, heard, owed, loginUp>>
  BY DEF Refused, Directory!Refuse, Directory!Open, Serves, history, gateVars, service
<1>2. /\ status \in [Requests -> {"none", "pending", "online", "ended"}]
      /\ holder \in [PTIDs -> {0} \union Requests] /\ toGate \in Seq(Words)
      /\ from \in [Requests -> Origins]
  BY DEF IInv, FlowTypes
<1>3. /\ \A j \in Requests : status'[j] = IF j = i THEN "ended" ELSE status[j]
      /\ status' \in [Requests -> {"none", "pending", "online", "ended"}]
  BY <1>1, <1>2
<1>4. /\ \A j \in Requests :
           from'[j] = IF status'[j] = "ended" THEN Nobody
                      ELSE IF j = i THEN r ELSE from[j]
      /\ from' \in [Requests -> Origins]
      /\ \A j \in Requests : from'[j].link <= linkNo'
      /\ (\A j \in Requests : from[j].link # None =>
            from[j].player \in PlayerIDs /\ Hears(from[j].player))'
      /\ \A p : Hears(p)' <=> Hears(p)
  BY ServedFrom
<1>5. \A t \in PTIDs : holder[t] # 0 =>
        /\ holder[t] \in Requests /\ holder[t] # i
        /\ status[holder[t]] = "online" /\ from[holder[t]].ptid = t
        /\ status'[holder[t]] = "online" /\ from'[holder[t]] = from[holder[t]]
  BY <1>1, <1>2, <1>3, <1>4 DEF IInv, HoldersOnline
<1>6. HoldersOnline'
  <2>1. \A j \in Requests : status'[j] = "pending" => from'[j].ptid \in PTIDs
    BY <1>3, <1>4 DEF IInv, HoldersOnline
  <2>2. QED
    BY <1>1, <1>5, <2>1 DEF HoldersOnline
<1>7. Reaches(r.link) => r.player \in PlayerIDs /\ r.ptid \in PTIDs /\ Hears(r.player)
  <2>1. Reaches(r.link) => r.link \in Links
    BY DEF Reaches, IInv, LinksInOrder
  <2>2. QED
    BY <2>1 DEF Links, None, MayBe
<1>8. /\ toGate' \in Seq(Words)
      /\ \A p : Count(toGate', AnswersTo(p)) =
                  Count(toGate, AnswersTo(p))
                  + (IF Reaches(r.link) /\ r.player = p THEN 1 ELSE 0)
      /\ \A p, t, h, v : Says(toGate, h, p, t, v) => Says(toGate', h, p, t, v)
      /\ \A n \in 1..Len(toGate') : Hears(toGate'[n].player)
  <2>1. \A n \in 1..Len(toGate) : Hears(toGate[n].player)
    BY DEF IInv, PlayersKnown
  <2>2. /\ toGate' \in Seq(Words)
        /\ \A p : Count(toGate', AnswersTo(p)) =
                    Count(toGate, AnswersTo(p))
                    + (IF Reaches(r.link) /\ r.player = p /\ "fail" # "kick" THEN 1 ELSE 0)
        /\ \A p, t, h, v :
             Says(toGate, h, p, t, v) =>
               Says(toGate', h, p, t,
                    IF Reaches(r.link) /\ r.player = p /\ r.ptid = t /\ "fail" # "fail"
                    THEN "fail" ELSE v)
        /\ \A n \in 1..Len(toGate') : Hears(toGate'[n].player)
    BY <1>1, <1>2, <1>7, <2>1, Telling, ZenonT(60)
  <2>3. \A p, t, h, v : Says(toGate, h, p, t, v) => Says(toGate', h, p, t, v)
    BY <2>2
  <2>4. QED
    BY <2>2, <2>3
<1>9. Said'
  <2>1. \A p \in PlayerIDs, t \in PTIDs : Holds(p, t)' <=> Holds(p, t)
    BY <1>1, <1>5 DEF Holds
  <2> SUFFICES ASSUME lsUp, NEW p \in PlayerIDs, NEW t \in PTIDs
               PROVE  \E v \in {"none", "succ", "kick"} :
                        /\ Says(toGate', heard'[p][t], p, t, v)
                        /\ v = "succ" <=> Holds(p, t)'
    BY <1>1 DEF Said, Says
  <2>2. PICK v \in {"none", "succ", "kick"} :
          Says(toGate, heard[p][t], p, t, v) /\ (v = "succ" <=> Holds(p, t))
    BY DEF IInv, Said
  <2>3. QED
    BY <1>1, <1>8, <2>1, <2>2
<1>10. DownIsQuiet' /\ (~lsUp => toGate' = toGate)
  <2>1. ~lsUp => toGate' = toGate
    BY <1>1, <1>2, ConcatEmptySeq DEF Tell, Reaches
  <2>2. ~loginUp => ~lsUp
    BY DEF IInv, LinksInOrder
  <2>3. QED
    BY <1>1, <2>1, <2>2 DEF IInv, DownIsQuiet
<1>11. LoginPart'
  BY <1>1, <1>2, <1>3, <1>4, <1>6, <1>8, <1>9, <1>10 DEF LoginPart
<1>12. Loads(i, r)
  <2> SUFFICES ASSUME NEW p \in PlayerIDs
               PROVE  Load(p)' <= Load(p) + (IF status[i] # "pending" /\ r.player = p
                                                /\ r.link = linkNo THEN 1 ELSE 0)
    BY <1>10 DEF Loads
  <2> DEFINE mine == r.player = p /\ r.link = linkNo
             a == Count(toGate, AnswersTo(p))
             b == Cardinality(PendingOf(p))
             c == Count(toGate', AnswersTo(p))
             d == Cardinality(PendingOf(p)')
  <2>1. d <= b - (IF status[i] = "pending" /\ mine THEN 1 ELSE 0) /\ d \in Nat
    BY <1>3, ServedPending
  <2>2. a \in Nat /\ b \in Nat
    BY <1>2, PendingFinite, CountType
  <2>3. c = a + (IF Reaches(r.link) /\ r.player = p THEN 1 ELSE 0)
    BY <1>8
  <2>4. Reaches(r.link) /\ r.player = p => mine
    BY DEF Reaches
  <2>5. Load(p)' = c + d /\ Load(p) = a + b
    BY DEF Load, Count, AnswersTo
  <2> HIDE DEF mine, a, b, c, d
  <2>6. c + d <= a + b + (IF status[i] # "pending" /\ mine THEN 1 ELSE 0)
    <3>1. CASE mine
      BY <2>1, <2>2, <2>3, <3>1
    <3>2. CASE ~mine
      BY <2>1, <2>2, <2>3, <2>4, <3>2
    <3>3. QED
      BY <3>1, <3>2
  <2>7. QED
    BY <2>5, <2>6 DEF mine
<1>13. QED
  BY <1>11, <1>12

\* A request is logged in: the holder of the platform id, if there is one, is
\* kicked off, and its player hears of it before the new one does.
LEMMA LoggedInKeeps ==
  ASSUME IInv, NEW i \in Requests, NEW r, Serves(i, r), MayBe(i, r), LoggedIn(i, r)
  PROVE  LoginPart' /\ Loads(i, r)
<1> DEFINE u == r.ptid
<1>1. /\ status' = [j \in Requests |-> IF j = i THEN "online"
                                       ELSE IF j = holder[u] THEN "ended" ELSE status[j]]
      /\ holder' = [holder EXCEPT ![u] = i]
      /\ toGate' = toGate \o Answer(r) /\ status[i] \in {"none", "pending"}
      /\ UNCHANGED <<linkNo, lsUp, heard, owed, loginUp>>
  BY DEF LoggedIn, Directory!LogIn, Directory!Open, Serves, history, gateVars, service
<1>2. /\ status \in [Requests -> {"none", "pending", "online", "ended"}]
      /\ holder \in [PTIDs -> {0} \union Requests] /\ toGate \in Seq(Words)
      /\ from \in [Requests -> Origins] /\ u \in PTIDs
  BY DEF IInv, FlowTypes, MayBe
<1>3. /\ \A j \in Requests : status'[j] = IF j = i THEN "online"
                                          ELSE IF j = holder[u] THEN "ended" ELSE status[j]
      /\ status' \in [Requests -> {"none", "pending", "online", "ended"}]
      /\ \A t \in PTIDs : holder'[t] = IF t = u THEN i ELSE holder[t]
      /\ holder' \in [PTIDs -> {0} \union Requests]
  BY <1>1, <1>2
<1>4. /\ \A j \in Requests :
           from'[j] = IF status'[j] = "ended" THEN Nobody
                      ELSE IF j = i THEN r ELSE from[j]
      /\ from' \in [Requests -> Origins]
      /\ \A j \in Requests : from'[j].link <= linkNo'
      /\ (\A j \in Requests : from[j].link # None =>
            from[j].player \in PlayerIDs /\ Hears(from[j].player))'
      /\ \A p : Hears(p)' <=> Hears(p)
  BY ServedFrom
<1> HIDE DEF u
<1>5. \A t \in PTIDs : holder[t] # 0 /\ t # u =>
        /\ holder[t] \in Requests /\ holder[t] # i /\ from[holder[t]].ptid = t
        /\ status'[holder[t]] = "online" /\ from'[holder[t]] = from[holder[t]]
  <2>1. \A t \in PTIDs : holder[t] # 0 =>
          /\ holder[t] \in Requests
          /\ status[holder[t]] = "online" /\ from[holder[t]].ptid = t
    BY <1>2 DEF IInv, HoldersOnline
  <2>2. QED
    BY <1>1, <1>2, <1>3, <1>4, <2>1
<1>6. status'[i] = "online" /\ from'[i] = r /\ i # 0
  BY <1>3, <1>4 DEF Requests
<1>7. HoldersOnline'
  <2>1. \A j \in Requests : status'[j] = "pending" => from'[j].ptid \in PTIDs
    BY <1>3, <1>4 DEF IInv, HoldersOnline
  <2>2. QED
    BY <1>3, <1>5, <1>6, <2>1 DEF HoldersOnline, u
<1>8. ~lsUp => toGate' = toGate
  <2>1. ~lsUp => Tell("succ", r) = <<>> /\ Kick(r.ptid) = <<>>
    BY DEF Tell, Kick, Reaches
  <2>2. <<>> \o <<>> = <<>>
    BY ConcatEmptySeq
  <2>3. QED
    BY <1>1, <1>2, <2>1, <2>2, ConcatEmptySeq DEF Answer
<1>9. DownIsQuiet'
  BY <1>1, <1>8 DEF IInv, DownIsQuiet, LinksInOrder
<1> DEFINE s == toGate \o Kick(u)
<1>10. ASSUME lsUp
       PROVE  /\ s \in Seq(Words)
              /\ \A p : Count(s, AnswersTo(p)) = Count(toGate, AnswersTo(p))
              /\ \A p, t, h, v :
                   Says(toGate, h, p, t, v) =>
                     Says(s, h, p, t, IF t = u /\ Holds(p, u) THEN "kick" ELSE v)
              /\ \A n \in 1..Len(s) : Hears(s[n].player)
  BY <1>2, <1>10, Kicking DEF IInv, PlayersKnown
<1>11. Reaches(r.link) => r.player \in PlayerIDs /\ r.ptid \in PTIDs /\ Hears(r.player)
  <2>1. Reaches(r.link) => r.link \in Links
    BY DEF Reaches, IInv, LinksInOrder
  <2>2. QED
    BY <2>1 DEF Links, None, MayBe
<1>12. lsUp => toGate' = s \o Tell("succ", r)
  <2>1. toGate' = toGate \o (Kick(u) \o Tell("succ", r))
    BY <1>1 DEF Answer, u
  <2>2. Tell("succ", r) \in Seq(Words)
    BY <1>11, TellType
  <2>3. lsUp => Kick(u) \in Seq(Words)
    <3>1. holder[u] # 0 => holder[u] \in Requests /\ from[holder[u]].ptid = u
      BY <1>2 DEF IInv, HoldersOnline
    <3>2. holder[u] # 0 /\ Reaches(from[holder[u]].link) =>
            from[holder[u]].player \in PlayerIDs
      BY <3>1, OriginKnown DEF IInv
    <3>3. holder[u] # 0 => Tell("kick", from[holder[u]]) \in Seq(Words)
      BY <1>2, <3>1, <3>2, TellType
    <3>4. QED
      BY <3>3 DEF Kick
  <2>4. lsUp => (toGate \o Kick(u)) \o Tell("succ", r) = toGate \o (Kick(u) \o Tell("succ", r))
    <3> SUFFICES ASSUME lsUp
                 PROVE  (toGate \o Kick(u)) \o Tell("succ", r)
                          = toGate \o (Kick(u) \o Tell("succ", r))
      OBVIOUS
    <3>1. toGate \in Seq(Words) /\ Kick(u) \in Seq(Words) /\ Tell("succ", r) \in Seq(Words)
      BY <1>2, <2>2, <2>3
    <3>2. QED
      BY <3>1, ThreeParts, SMTT(60)
  <2>5. QED
    BY <2>1, <2>4
<1> HIDE DEF s
<1>13. ASSUME lsUp
       PROVE  /\ toGate' \in Seq(Words)
              /\ \A p : Count(toGate', AnswersTo(p)) =
                          Count(s, AnswersTo(p))
                          + (IF Reaches(r.link) /\ r.player = p /\ "succ" # "kick"
                             THEN 1 ELSE 0)
              /\ \A p, t, h, v :
                   Says(s, h, p, t, v) =>
                     Says(toGate', h, p, t,
                          IF Reaches(r.link) /\ r.player = p /\ r.ptid = t /\ "succ" # "fail"
                          THEN "succ" ELSE v)
              /\ \A n \in 1..Len(toGate') : Hears(toGate'[n].player)
  <2>1. /\ s \in Seq(Words) /\ \A n \in 1..Len(s) : Hears(s[n].player)
        /\ toGate' = s \o Tell("succ", r)
    BY <1>10, <1>12, <1>13
  <2>2. QED
    BY <1>11, <2>1, Telling, ZenonT(60)
<1>14. Said'
  <2> SUFFICES ASSUME lsUp, NEW p \in PlayerIDs, NEW t \in PTIDs
               PROVE  \E v \in {"none", "succ", "kick"} :
                        /\ Says(toGate', heard'[p][t], p, t, v)
                        /\ v = "succ" <=> Holds(p, t)'
    BY <1>1 DEF Said, Says
  <2>1. PICK v \in {"none", "succ", "kick"} :
          Says(toGate, heard[p][t], p, t, v) /\ (v = "succ" <=> Holds(p, t))
    BY DEF IInv, Said
  <2> DEFINE x == IF t = u /\ Holds(p, u) THEN "kick" ELSE v
             y == IF Reaches(r.link) /\ r.player = p /\ r.ptid = t /\ "succ" # "fail"
                  THEN "succ" ELSE x
  <2>2. Says(s, heard[p][t], p, t, x)
    BY <1>10, <2>1
  <2>3. Says(toGate', heard[p][t], p, t, y)
    BY <1>13, <2>2
  <2>4. y = "succ" <=> Holds(p, t)'
    <3>1. CASE t = u
      <4>1. Holds(p, t)' <=> r.player = p /\ r.link = linkNo
        BY <1>1, <1>3, <1>6, <3>1 DEF Holds
      <4>2. x # "succ"
        BY <2>1, <3>1
      <4>3. y = "succ" <=> r.player = p /\ r.link = linkNo
        BY <3>1, <4>2 DEF Reaches, u
      <4>4. QED
        BY <4>1, <4>3
    <3>2. CASE t # u
      <4>1. Holds(p, t)' <=> Holds(p, t)
        BY <1>1, <1>3, <1>5, <3>2, ZenonT(60) DEF Holds
      <4>2. y = v
        BY <3>2 DEF u
      <4>3. QED
        BY <2>1, <4>1, <4>2
    <3>3. QED
      BY <3>1, <3>2
  <2>5. y \in {"none", "succ", "kick"}
    OBVIOUS
  <2> HIDE DEF x, y
  <2>6. QED
    BY <1>1, <2>3, <2>4, <2>5
<1>15. toGate' \in Seq(Words) /\ \A n \in 1..Len(toGate') : Hears(toGate'[n].player)
  BY <1>2, <1>8, <1>13 DEF IInv, PlayersKnown
<1>16. LoginPart'
  BY <1>3, <1>4, <1>7, <1>9, <1>14, <1>15 DEF LoginPart
<1>17. Loads(i, r)
  <2> SUFFICES ASSUME NEW p \in PlayerIDs
               PROVE  Load(p)' <= Load(p) + (IF status[i] # "pending" /\ r.player = p
                                                /\ r.link = linkNo THEN 1 ELSE 0)
    BY <1>8 DEF Loads
  <2> DEFINE mine == r.player = p /\ r.link = linkNo
             a == Count(toGate, AnswersTo(p))
             b == Cardinality(PendingOf(p))
             c == Count(toGate', AnswersTo(p))
             d == Cardinality(PendingOf(p)')
  <2>1. d <= b - (IF status[i] = "pending" /\ mine THEN 1 ELSE 0) /\ d \in Nat
    BY <1>3, ServedPending
  <2>2. a \in Nat /\ b \in Nat
    BY <1>2, PendingFinite, CountType
  <2>3. c = a \/ (c = a + 1 /\ mine)
    <3>1. CASE lsUp
      <4>1. c = a + (IF Reaches(r.link) /\ r.player = p /\ "succ" # "kick" THEN 1 ELSE 0)
        BY <1>10, <1>13, <3>1
      <4>2. Reaches(r.link) /\ r.player = p => mine
        BY DEF Reaches
      <4> HIDE DEF a, c, mine
      <4>3. QED
        BY <2>2, <4>1, <4>2
    <3>2. CASE ~lsUp
      BY <1>8, <3>2
    <3>3. QED
      BY <3>1, <3>2
  <2>4. Load(p)' = c + d /\ Load(p) = a + b
    BY DEF Load, Count, AnswersTo
  <2> HIDE DEF mine, a, b, c, d
  <2>5. c + d <= a + b + (IF status[i] # "pending" /\ mine THEN 1 ELSE 0)
    <3>1. CASE mine
      BY <2>1, <2>2, <2>3, <3>1
    <3>2. CASE ~mine
      BY <2>1, <2>2, <2>3, <3>2
    <3>3. QED
      BY <3>1, <3>2
  <2>6. QED
    BY <2>4, <2>5 DEF mine
<1>18. QED
  BY <1>16, <1>17

\* A step of the login server keeps the invariant if it keeps the login
\* server's part, the requests on their way are still from known players, and
\* enough is owed.
LEMMA ServedKeeps ==
  ASSUME IInv, NEW i, NEW r, Serves(i, r), LoginPart', Owes',
         toLogin' \in [Links -> Seq(Asked)],
         \A k \in Links : k > linkNo => toLogin'[k] = <<>>,
         \A k \in Links : \A n \in 1..Len(toLogin'[k]) : Hears(toLogin'[k][n].player)
  PROVE  IInv'
<1>1. UNCHANGED <<linkNo, lsUp, heard, owed, loginUp, registered, players>> /\ UNCHANGED gateVars
  BY DEF Serves, history, gateVars, service, tables
<1>2. GateInv'
  BY <1>1, GateKeeps DEF IInv
<1>3. FlowTypes'
  <2>1. /\ linkNo' \in 0..MaxLinks /\ lsUp' \in BOOLEAN
        /\ heard' \in [PlayerIDs -> [PTIDs -> {"none", "succ", "kick"}]]
        /\ owed' \in [PlayerIDs -> Int]
    BY <1>1 DEF IInv, FlowTypes
  <2>2. QED
    BY <2>1 DEF FlowTypes, LoginPart
<1>4. LinksInOrder'
  BY <1>1 DEF IInv, LinksInOrder, LoginPart
<1>5. PlayersKnown'
  <2>1. \A p : Hears(p)' <=> Hears(p)
    BY <1>1 DEF Hears
  <2>2. QED
    BY <2>1 DEF PlayersKnown, LoginPart
<1>6. HoldersOnline' /\ DownIsQuiet' /\ Said'
  BY DEF LoginPart
<1>7. QED
  BY <1>2, <1>3, <1>4, <1>5, <1>6 DEF IInv

\* What is owed, as a sum.
LEMMA OwesLoad ==
  ASSUME IInv, NEW p \in PlayerIDs
  PROVE  /\ Load(p) \in Nat /\ owed[p] \in Int
         /\ Count(toGate, AnswersTo(p)) \in Nat
         /\ owed[p] >= Count(toGate, AnswersTo(p))
         /\ lsUp => /\ linkNo \in Links
                    /\ Count(toLogin[linkNo], RequestsOf(p)) \in Nat
                    /\ owed[p] >= Load(p) + Count(toLogin[linkNo], RequestsOf(p))
<1>1. Count(toGate, AnswersTo(p)) \in Nat /\ Cardinality(PendingOf(p)) \in Nat
  BY CountType, PendingFinite DEF IInv, FlowTypes
<1>2. owed[p] \in Int
  BY DEF IInv, FlowTypes
<1>3. lsUp => linkNo \in Links
  BY DEF IInv, LinksInOrder
<1>4. lsUp => Count(toLogin[linkNo], RequestsOf(p)) \in Nat
  BY <1>3, CountType DEF IInv, FlowTypes
<1>5. owed[p] >= Count(toGate, AnswersTo(p))
                 + (IF lsUp THEN Count(toLogin[linkNo], RequestsOf(p)) + Cardinality(PendingOf(p))
                    ELSE 0)
  BY DEF IInv, Owes
<1>6. QED
  BY <1>1, <1>2, <1>3, <1>4, <1>5 DEF Load

\* The login server takes a request off a connection.
LEMMA TakesKeeps ==
  ASSUME IInv, NEW i \in Requests, NEW k \in Links, LoginTakes(i, k)
  PROVE  IInv'
<1> DEFINE q == Head(toLogin[k])
           r == [player |-> q.player, link |-> k, ptid |-> q.ptid]
<1>1. /\ toLogin[k] # <<>> /\ status[i] = "none"
      /\ Taken(i, r) \/ LoggedIn(i, r) \/ Refused(i, r)
      /\ toLogin' = [toLogin EXCEPT ![k] = Tail(@)]
  BY DEF LoginTakes
<1>2. Serves(i, r)
  BY DEF LoginTakes, Serves
<1>3. /\ toLogin \in [Links -> Seq(Asked)] /\ linkNo \in Nat
      /\ \A l \in Links : l > linkNo => toLogin[l] = <<>>
      /\ \A l \in Links : \A n \in 1..Len(toLogin[l]) : Hears(toLogin[l][n].player)
  BY DEF IInv, FlowTypes, LinksInOrder, PlayersKnown
<1>4. /\ q \in Asked /\ q = toLogin[k][1] /\ 1 \in 1..Len(toLogin[k])
      /\ Tail(toLogin[k]) \in Seq(Asked)
      /\ \A n \in 1..Len(Tail(toLogin[k])) :
           n + 1 \in 1..Len(toLogin[k]) /\ Tail(toLogin[k])[n] = toLogin[k][n + 1]
  <2>1. toLogin[k] \in Seq(Asked)
    BY <1>3
  <2>2. QED
    BY <1>1, <2>1, HeadTailProperties, EmptySeq, LenProperties
<1>5. /\ toLogin' \in [Links -> Seq(Asked)]
      /\ \A l \in Links : toLogin'[l] = IF l = k THEN Tail(toLogin[k]) ELSE toLogin[l]
  BY <1>1, <1>3, <1>4
<1>6. k <= linkNo
  BY <1>1, <1>3 DEF Links
<1>7. MayBe(i, r)
  <2>1. Hears(q.player) /\ q.player \in PlayerIDs /\ q.ptid \in PTIDs
    BY <1>3, <1>4 DEF Asked
  <2> HIDE DEF q
  <2>2. QED
    BY <1>1, <1>6, <2>1 DEF MayBe, Origins
<1>8. LoginPart' /\ Loads(i, r)
  <2> HIDE DEF r
  <2>1. QED
    BY <1>1, <1>2, <1>7, TakenKeeps, LoggedInKeeps, RefusedKeeps
<1>9. \A l \in Links : l > linkNo => toLogin'[l] = <<>>
  BY <1>3, <1>5, <1>6 DEF Links
<1>10. \A l \in Links : \A n \in 1..Len(toLogin'[l]) : Hears(toLogin'[l][n].player)
  <2>1. \A n \in 1..Len(Tail(toLogin[k])) : Hears(Tail(toLogin[k])[n].player)
    BY <1>3, <1>4
  <2>2. QED
    BY <1>3, <1>5, <2>1
<1>11. Owes'
  <2> SUFFICES ASSUME NEW p \in PlayerIDs
               PROVE  (owed[p] >= Count(toGate, AnswersTo(p))
                         + (IF lsUp THEN Count(toLogin[linkNo], RequestsOf(p))
                                         + Cardinality(PendingOf(p))
                            ELSE 0))'
    BY DEF Owes
  <2>1. UNCHANGED <<linkNo, lsUp, owed>>
    BY <1>2 DEF Serves, history
  <2>2. CASE ~lsUp
    <3>1. toGate' = toGate
      BY <1>8, <2>2 DEF Loads
    <3>2. (Count(toGate, AnswersTo(p)))' = Count(toGate, AnswersTo(p))
      BY <3>1 DEF Count, AnswersTo
    <3>3. /\ owed[p] \in Int /\ Count(toGate, AnswersTo(p)) \in Nat
          /\ owed[p] >= Count(toGate, AnswersTo(p))
      BY OwesLoad
    <3>4. QED
      BY <2>1, <2>2, <3>2, <3>3
  <2>3. CASE lsUp
    <3> DEFINE m == Count(toLogin[linkNo], RequestsOf(p))
               n == Count(toLogin'[linkNo], RequestsOf(p))
               a == Count(toGate', AnswersTo(p))
               d == Cardinality(PendingOf(p)')
    <3>1. Load(p) \in Nat /\ owed[p] \in Int /\ m \in Nat /\ owed[p] >= Load(p) + m
          /\ linkNo \in Links
      BY <2>3, OwesLoad
    <3>2. Load(p)' = a + d
      BY DEF Load, Count, AnswersTo
    <3>3. a \in Nat /\ d \in Nat
      <4>1. toGate' \in Seq(Words)
        BY <1>8 DEF LoginPart
      <4>2. a \in Nat
        BY <4>1, CountType
      <4>3. IsFiniteSet(Requests) /\ PendingOf(p)' \subseteq Requests
        BY FS_Interval DEF Requests, PendingOf
      <4>4. QED
        BY <4>2, <4>3, FS_Subset, FS_CardinalityType
    <3>4. Load(p)' <= Load(p) + (IF q.player = p /\ k = linkNo THEN 1 ELSE 0)
      BY <1>1, <1>8 DEF Loads
    <3>5. m = n + (IF q.player = p /\ k = linkNo THEN 1 ELSE 0)
      <4>1. CASE k = linkNo
        <5>1. Count(toLogin[k], RequestsOf(p)) =
                Count(Tail(toLogin[k]), RequestsOf(p))
                + (IF q \in RequestsOf(p) THEN 1 ELSE 0)
          BY <1>1, <1>3, CountTail
        <5>2. q \in RequestsOf(p) <=> q.player = p
          BY <1>4 DEF RequestsOf
        <5>3. toLogin'[linkNo] = Tail(toLogin[k])
          BY <1>5, <4>1
        <5> HIDE DEF q
        <5>4. QED
          BY <4>1, <5>1, <5>2, <5>3
      <4>2. CASE k # linkNo
        <5>1. toLogin'[linkNo] = toLogin[linkNo]
          BY <1>5, <3>1, <4>2
        <5>2. m = n
          BY <5>1
        <5> HIDE DEF m, n
        <5>3. QED
          BY <3>1, <4>2, <5>2
      <4>3. QED
        BY <4>1, <4>2
    <3>6. n \in Nat
      BY <1>5, <3>1, CountType
    <3>7. (Count(toLogin[linkNo], RequestsOf(p)))' = n
      BY <2>1 DEF Count, RequestsOf
    <3>8. owed[p] >= a + (n + d)
      <4> HIDE DEF m, n, a, d, q
      <4>1. CASE q.player = p /\ k = linkNo
        BY <3>1, <3>2, <3>3, <3>4, <3>5, <3>6, <4>1
      <4>2. CASE ~(q.player = p /\ k = linkNo)
        BY <3>1, <3>2, <3>3, <3>4, <3>5, <3>6, <4>2
      <4>3. QED
        BY <4>1, <4>2
    <3>9. QED
      BY <2>1, <2>3, <3>7, <3>8 DEF Count, AnswersTo
  <2>4. QED
    BY <2>2, <2>3
<1>12. QED
  BY <1>2, <1>5, <1>8, <1>9, <1>10, <1>11, ServedKeeps

\* A request that is decided without one being taken off a connection: one that
\* waited, or another gate's.
LEMMA DecidedKeeps ==
  ASSUME IInv, NEW i \in Requests, NEW r, Serves(i, r), LoginPart', Loads(i, r),
         toLogin' = toLogin, lsUp => status[i] = "pending" \/ r.link # linkNo
  PROVE  IInv'
<1>1. Owes'
  <2> SUFFICES ASSUME NEW p \in PlayerIDs
               PROVE  (owed[p] >= Count(toGate, AnswersTo(p))
                         + (IF lsUp THEN Count(toLogin[linkNo], RequestsOf(p))
                                         + Cardinality(PendingOf(p))
                            ELSE 0))'
    BY DEF Owes
  <2>1. UNCHANGED <<linkNo, lsUp, owed, toLogin>>
    BY DEF Serves, history
  <2>2. CASE ~lsUp
    <3>1. toGate' = toGate
      BY <2>2 DEF Loads
    <3>2. (Count(toGate, AnswersTo(p)))' = Count(toGate, AnswersTo(p))
      BY <3>1 DEF Count, AnswersTo
    <3>3. /\ owed[p] \in Int /\ Count(toGate, AnswersTo(p)) \in Nat
          /\ owed[p] >= Count(toGate, AnswersTo(p))
      BY OwesLoad
    <3>4. QED
      BY <2>1, <2>2, <3>2, <3>3
  <2>3. CASE lsUp
    <3> DEFINE m == Count(toLogin[linkNo], RequestsOf(p))
               a == Count(toGate', AnswersTo(p))
               d == Cardinality(PendingOf(p)')
    <3>1. Load(p) \in Nat /\ owed[p] \in Int /\ m \in Nat /\ owed[p] >= Load(p) + m
      BY <2>3, OwesLoad
    <3>2. Load(p)' = a + d
      BY DEF Load, Count, AnswersTo
    <3>3. a \in Nat /\ d \in Nat
      <4>1. toGate' \in Seq(Words)
        BY DEF LoginPart
      <4>2. a \in Nat
        BY <4>1, CountType
      <4>3. IsFiniteSet(Requests) /\ PendingOf(p)' \subseteq Requests
        BY FS_Interval DEF Requests, PendingOf
      <4>4. QED
        BY <4>2, <4>3, FS_Subset, FS_CardinalityType
    <3>4. Load(p)' <= Load(p)
      BY <2>3, <3>1 DEF Loads
    <3>5. (Count(toLogin[linkNo], RequestsOf(p)))' = m
      BY <2>1 DEF Count, RequestsOf
    <3>6. owed[p] >= a + (m + d)
      <4> HIDE DEF m, a, d
      <4>1. QED
        BY <3>1, <3>2, <3>3, <3>4
    <3>7. QED
      BY <2>1, <2>3, <3>5, <3>6 DEF Count, AnswersTo
  <2>4. QED
    BY <2>2, <2>3
<1>2. /\ toLogin' \in [Links -> Seq(Asked)]
      /\ \A k \in Links : k > linkNo => toLogin'[k] = <<>>
      /\ \A k \in Links : \A n \in 1..Len(toLogin'[k]) : Hears(toLogin'[k][n].player)
  BY DEF IInv, FlowTypes, LinksInOrder, PlayersKnown
<1>3. QED
  BY <1>1, <1>2, ServedKeeps

\* The account check decides a request that waits.
LEMMA DecidesKeeps ==
  ASSUME IInv, NEW i \in Requests, LoginDecides(i)
  PROVE  IInv'
<1> DEFINE r == from[i]
<1>1. /\ status[i] = "pending"
      /\ LoggedIn(i, r) \/ Refused(i, r)
      /\ from' = Remember(from)
      /\ UNCHANGED <<gateVars, linkNo, lsUp, toLogin, history>>
  BY DEF LoginDecides
<1>2. from \in [Requests -> Origins]
  BY DEF IInv, FlowTypes
<1>3. Serves(i, r)
  <2>1. [from EXCEPT ![i] = r] = from
    BY <1>2
  <2>2. QED
    BY <1>1, <2>1 DEF Serves
<1>4. MayBe(i, r)
  BY <1>1, <1>2 DEF MayBe, IInv, LinksInOrder, PlayersKnown, HoldersOnline
<1> HIDE DEF r
<1>5. LoginPart' /\ Loads(i, r)
  BY <1>1, <1>3, <1>4, LoggedInKeeps, RefusedKeeps
<1>6. QED
  BY <1>1, <1>3, <1>5, DecidedKeeps

\* A client of another gate logs in.
LEMMA OtherGateKeeps ==
  ASSUME IInv, NEW i \in Requests, NEW t \in PTIDs, OtherGate(i, t)
  PROVE  IInv'
<1> DEFINE r == [Nobody EXCEPT !.ptid = t]
<1>1. /\ status[i] = "none" /\ LoggedIn(i, r) /\ Serves(i, r) /\ toLogin' = toLogin
  BY DEF OtherGate, Serves
<1>2. r = [player |-> None, link |-> None, ptid |-> t]
  BY DEF Nobody
<1>3. MayBe(i, r)
  <2>1. linkNo \in Nat
    BY DEF IInv, FlowTypes
  <2>2. QED
    BY <1>1, <1>2, <2>1 DEF MayBe, Origins, None
<1>4. lsUp => r.link # linkNo
  BY <1>2 DEF IInv, LinksInOrder, Links, None
<1> HIDE DEF r
<1>5. LoginPart' /\ Loads(i, r)
  BY <1>1, <1>3, LoggedInKeeps
<1>6. QED
  BY <1>1, <1>4, <1>5, DecidedKeeps

-----------------------------------------------------------------------------
(* The steps of the gate and of the connection.                            *)

\* The gate never forgets a player, nor its handlers.
LEMMA HearsStays ==
  ASSUME GateInv, NEW p, Hears(p),
         \/ GateStep \/ (\E c \in Clients : RecvLogin(c)) \/ LoginLink
         \/ UNCHANGED gateVars
  PROVE  Hears(p)'
<1>1. registered'
  BY DEF Hears, GateInv, RegisteredLate, GateStep, LoginLink, gateVars, service, Accept,
     Disconnect, CloseAll, ClientPacket, ReadPackets, GsMessage, StartReturns, ServerStop,
     RecvHeartBeat, RecvOutOfRange, LostSession, RecvOther, RecvBadLogin,
     RecvLoginThrows, RecvLogin
<1>2. p \in DOMAIN players
  BY DEF Hears
<1>3. ASSUME NEW c \in Clients, NEW how, stop(c, how) PROVE p \in DOMAIN players'
  BY <1>2, <1>3 DEF stop, delSession
<1>4. ASSUME NEW c \in Clients, Accept(c) PROVE p \in DOMAIN players'
  BY <1>2, <1>4 DEF Accept, addSession, With
<1>5. p \in DOMAIN players'
  <2>1. ASSUME NEW c \in Clients, Disconnect(c) \/ CloseAll(c) \/ ClientPacket(c)
        PROVE  (\E how \in StoppedStates : stop(c, how)) \/ UNCHANGED players
    BY <2>1 DEF StoppedStates, Disconnect, CloseAll, ClientPacket, RecvHeartBeat,
       RecvOutOfRange, LostSession, RecvOther, RecvBadLogin, RecvLoginThrows, tables
  <2>2. \/ UNCHANGED players
        \/ \E c \in Clients : Accept(c) \/ Disconnect(c) \/ CloseAll(c) \/ ClientPacket(c)
    BY DEF GateStep, LoginLink, gateVars, tables, ReadPackets, GsMessage, StartReturns,
       ServerStop, RecvLogin
  <2>3. QED
    BY <1>2, <1>3, <1>4, <2>1, <2>2
<1>6. QED
  BY <1>1, <1>5 DEF Hears

\* A step of the gate that has no part in the logins keeps the invariant.
LEMMA QuietKeeps ==
  ASSUME IInv, GateInv', \A p : Hears(p) => Hears(p)',
         UNCHANGED <<channel, login, history, loginUp>>
  PROVE  IInv'
<1> USE DEF channel, login, history
<1>1. FlowTypes'
  BY DEF IInv, FlowTypes
<1>2. LinksInOrder' /\ HoldersOnline' /\ DownIsQuiet'
  BY DEF IInv, LinksInOrder, HoldersOnline, DownIsQuiet
<1>3. PlayersKnown'
  BY DEF IInv, PlayersKnown
<1>4. Said'
  BY DEF IInv, Said, Says, Holds
<1>5. Owes'
  BY DEF IInv, Owes, Count, AnswersTo, RequestsOf, PendingOf
<1>6. QED
  BY <1>1, <1>2, <1>3, <1>4, <1>5 DEF IInv

\* The gate passes a login request on: one more is owed.
LEMMA RecvLoginKeeps ==
  ASSUME IInv, NEW c \in Clients, NEW t \in PTIDs, GateRecvLogin(c, t)
  PROVE  IInv'
<1> DEFINE p == sessionMap[c]
           q == [player |-> p, ptid |-> t]
<1>1. RecvLogin(c) /\ UNCHANGED <<linkNo, lsUp, toGate, login, heard, loginUp>>
  BY DEF GateRecvLogin, RecvLogin, service
<1>2. GateInv' /\ \A x : Hears(x) => Hears(x)'
  BY <1>1, GateKeeps, HearsStays DEF IInv
<1>3. CASE requests' = requests
  <2>1. UNCHANGED <<toLogin, owed>>
    BY <1>3 DEF GateRecvLogin
  <2>2. QED
    BY <1>1, <1>2, <2>1, QuietKeeps DEF channel, history
<1>4. CASE requests' # requests
  <2>1. registered /\ loginUp /\ c \in DOMAIN sessionMap
    BY <1>1, <1>4 DEF RecvLogin, handleLoginReq, Found
  <2>2. p \in PlayerIDs /\ Hears(p)
    BY <2>1, PlayerOfSession DEF IInv, Hears
  <2>3. /\ owed' = [owed EXCEPT ![p] = @ + 1]
        /\ toLogin' = IF lsUp THEN [toLogin EXCEPT ![linkNo] = Append(@, q)] ELSE toLogin
    BY <1>4 DEF GateRecvLogin
  <2> HIDE DEF p
  <2>4. q \in Asked /\ q.player = p
    BY <2>2 DEF Asked
  <2> HIDE DEF q
  <2>5. toLogin \in [Links -> Seq(Asked)] /\ owed \in [PlayerIDs -> Int] /\ linkNo \in Links
    BY <2>1 DEF IInv, FlowTypes, LinksInOrder
  <2>6. Append(toLogin[linkNo], q) \in Seq(Asked)
    BY <2>4, <2>5, AppendProperties
  <2>7. /\ toLogin' \in [Links -> Seq(Asked)]
        /\ \A k \in Links : toLogin'[k] = IF lsUp /\ k = linkNo
                                          THEN Append(toLogin[linkNo], q) ELSE toLogin[k]
    BY <2>3, <2>5, <2>6
  <2>8. /\ owed' \in [PlayerIDs -> Int]
        /\ \A x \in PlayerIDs : owed'[x] = IF x = p THEN owed[x] + 1 ELSE owed[x]
    BY <2>2, <2>3, <2>5
  <2>9. FlowTypes' /\ HoldersOnline' /\ DownIsQuiet'
    BY <1>1, <2>1, <2>7, <2>8 DEF IInv, FlowTypes, HoldersOnline, DownIsQuiet, login
  <2>10. LinksInOrder'
    BY <1>1, <2>5, <2>7 DEF IInv, LinksInOrder, Links, login
  <2>11. PlayersKnown'
    <3>1. \A n \in 1..Len(Append(toLogin[linkNo], q)) :
            Hears(Append(toLogin[linkNo], q)[n].player)
      <4>1. \A n \in 1..Len(toLogin[linkNo]) : Hears(toLogin[linkNo][n].player)
        BY <2>5 DEF IInv, PlayersKnown
      <4>2. /\ Len(toLogin[linkNo]) \in Nat
            /\ Len(Append(toLogin[linkNo], q)) = Len(toLogin[linkNo]) + 1
            /\ Append(toLogin[linkNo], q)[Len(toLogin[linkNo]) + 1] = q
            /\ \A n \in 1..Len(toLogin[linkNo]) :
                 Append(toLogin[linkNo], q)[n] = toLogin[linkNo][n]
        BY <2>4, <2>5, AppendProperties, LenProperties
      <4>3. \A n \in 1..(Len(toLogin[linkNo]) + 1) :
              n = Len(toLogin[linkNo]) + 1 \/ n \in 1..Len(toLogin[linkNo])
        BY <4>2
      <4>4. QED
        BY <2>2, <2>4, <4>1, <4>2, <4>3
    <3>2. \A k \in Links : \A n \in 1..Len(toLogin'[k]) : Hears(toLogin'[k][n].player)
      BY <2>7, <3>1 DEF IInv, PlayersKnown
    <3>3. QED
      BY <1>1, <1>2, <3>2 DEF IInv, PlayersKnown, login
  <2>12. Said'
    BY <1>1 DEF IInv, Said, Says, Holds, login
  <2>13. Owes'
    <3> SUFFICES ASSUME NEW x \in PlayerIDs
                 PROVE  (owed[x] >= Count(toGate, AnswersTo(x))
                           + (IF lsUp THEN Count(toLogin[linkNo], RequestsOf(x))
                                           + Cardinality(PendingOf(x))
                              ELSE 0))'
      BY DEF Owes
    <3> DEFINE a == Count(toGate, AnswersTo(x))
               m == Count(toLogin[linkNo], RequestsOf(x))
               n == Count(toLogin'[linkNo], RequestsOf(x))
               d == Cardinality(PendingOf(x))
    <3>1. a' = a /\ d' = d /\ m' = n
      BY <1>1 DEF Count, AnswersTo, RequestsOf, PendingOf, login
    <3>2. a \in Nat /\ d \in Nat /\ m \in Nat /\ owed[x] \in Int
      BY <2>5, CountType, PendingFinite DEF IInv, FlowTypes
    <3>3. owed[x] >= a + (IF lsUp THEN m + d ELSE 0)
      BY DEF IInv, Owes
    <3>4. lsUp => n = m + (IF x = p THEN 1 ELSE 0)
      <4>1. Count(Append(toLogin[linkNo], q), RequestsOf(x)) =
              m + (IF q \in RequestsOf(x) THEN 1 ELSE 0)
        BY <2>4, <2>5, CountAppend
      <4>2. q \in RequestsOf(x) <=> x = p
        BY <2>4 DEF RequestsOf
      <4>3. lsUp => toLogin'[linkNo] = Append(toLogin[linkNo], q)
        BY <2>5, <2>7
      <4>4. QED
        BY <4>1, <4>2, <4>3
    <3> HIDE DEF a, m, n, d
    <3>5. owed'[x] >= a + (IF lsUp THEN n + d ELSE 0)
      <4>1. CASE lsUp
        BY <2>8, <3>2, <3>3, <3>4, <4>1
      <4>2. CASE ~lsUp
        BY <2>8, <3>2, <3>3, <4>2
      <4>3. QED
        BY <4>1, <4>2
    <3>6. QED
      BY <1>1, <3>1, <3>5 DEF a, m, n, d
  <2>14. QED
    BY <1>2, <2>9, <2>10, <2>11, <2>12, <2>13 DEF IInv
<1>5. QED
  BY <1>3, <1>4

\* The gate hears the next word.
LEMMA RecvWordKeeps ==
  ASSUME IInv, GateRecvWord
  PROVE  IInv'
<1> DEFINE w == Head(toGate)
<1>1. /\ toGate # <<>> /\ toGate' = Tail(toGate) /\ UNCHANGED gateVars
      /\ UNCHANGED <<linkNo, lsUp, toLogin, login, loginUp>> /\ loginUp
  BY DEF GateRecvWord, LoginMessage, gateVars, service
<1>2. GateInv' /\ \A x : Hears(x)' <=> Hears(x)
  BY <1>1, GateKeeps DEF IInv, Hears, gateVars, service, tables
<1>3. /\ toGate \in Seq(Words) /\ owed \in [PlayerIDs -> Int]
      /\ heard \in [PlayerIDs -> [PTIDs -> {"none", "succ", "kick"}]]
  BY DEF IInv, FlowTypes
<1>4. /\ w \in Words /\ w = toGate[1] /\ 1 \in 1..Len(toGate)
      /\ Tail(toGate) \in Seq(Words)
      /\ \A n \in 1..Len(Tail(toGate)) :
           n + 1 \in 1..Len(toGate) /\ Tail(toGate)[n] = toGate[n + 1]
  BY <1>1, <1>3, HeadTailProperties, EmptySeq, LenProperties
<1>5. /\ Hears(w.player)
      /\ \A n \in 1..Len(toGate') : Hears(toGate'[n].player)
  BY <1>1, <1>4 DEF IInv, PlayersKnown
<1>6. /\ owed' = [owed EXCEPT ![w.player] = IF w.kind = "kick" THEN @ ELSE @ - 1]
      /\ heard' = [heard EXCEPT ![w.player][w.ptid] = IF w.kind = "fail" THEN @ ELSE w.kind]
  BY <1>5 DEF GateRecvWord
<1> HIDE DEF w
<1>7. w.player \in PlayerIDs /\ w.ptid \in PTIDs /\ w.kind \in {"succ", "fail", "kick"}
  BY <1>4 DEF Words
<1>8. /\ owed' \in [PlayerIDs -> Int]
      /\ \A p \in PlayerIDs :
           owed'[p] = IF p = w.player /\ w.kind # "kick" THEN owed[p] - 1 ELSE owed[p]
  BY <1>3, <1>6, <1>7
<1>9. /\ heard' \in [PlayerIDs -> [PTIDs -> {"none", "succ", "kick"}]]
      /\ \A p \in PlayerIDs, t \in PTIDs :
           heard'[p][t] = IF About(w, p, t) THEN w.kind ELSE heard[p][t]
  BY <1>3, <1>6, <1>7 DEF About
<1>10. FlowTypes' /\ LinksInOrder' /\ HoldersOnline' /\ DownIsQuiet'
  BY <1>1, <1>4, <1>8, <1>9 DEF IInv, FlowTypes, LinksInOrder, HoldersOnline, DownIsQuiet,
     login
<1>11. PlayersKnown'
  BY <1>1, <1>2, <1>5 DEF IInv, PlayersKnown, login
<1>12. Said'
  <2> SUFFICES ASSUME lsUp, NEW p \in PlayerIDs, NEW t \in PTIDs
               PROVE  \E v \in {"none", "succ", "kick"} :
                        /\ Says(toGate', heard'[p][t], p, t, v)
                        /\ v = "succ" <=> Holds(p, t)'
    BY <1>1 DEF Said, Says
  <2>1. PICK v \in {"none", "succ", "kick"} :
          Says(toGate, heard[p][t], p, t, v) /\ (v = "succ" <=> Holds(p, t))
    BY DEF IInv, Said
  <2>2. Says(Tail(toGate), IF About(w, p, t) THEN w.kind ELSE heard[p][t], p, t, v)
    BY <1>1, <1>3, <2>1, SaysTail DEF w
  <2>3. Says(toGate', heard'[p][t], p, t, v)
    BY <1>1, <1>9, <2>2
  <2>4. Holds(p, t)' <=> Holds(p, t)
    BY <1>1 DEF Holds, login
  <2>5. QED
    BY <2>1, <2>3, <2>4
<1>13. Owes'
  <2> SUFFICES ASSUME NEW p \in PlayerIDs
               PROVE  (owed[p] >= Count(toGate, AnswersTo(p))
                         + (IF lsUp THEN Count(toLogin[linkNo], RequestsOf(p))
                                         + Cardinality(PendingOf(p))
                            ELSE 0))'
    BY DEF Owes
  <2> DEFINE a == Count(toGate, AnswersTo(p))
             b == Count(Tail(toGate), AnswersTo(p))
             x == IF lsUp THEN Count(toLogin[linkNo], RequestsOf(p)) + Cardinality(PendingOf(p))
                  ELSE 0
  <2>1. a' = b /\ x' = x
    BY <1>1 DEF Count, AnswersTo, RequestsOf, PendingOf, login
  <2>2. a = b + (IF p = w.player /\ w.kind # "kick" THEN 1 ELSE 0)
    <3>1. a = b + (IF w \in AnswersTo(p) THEN 1 ELSE 0)
      BY <1>1, <1>3, CountTail DEF w
    <3>2. w \in AnswersTo(p) <=> p = w.player /\ w.kind # "kick"
      BY <1>4 DEF AnswersTo
    <3>3. QED
      BY <3>1, <3>2
  <2>3. a \in Nat /\ b \in Nat /\ x \in Nat /\ owed[p] \in Int
    <3>1. lsUp => Count(toLogin[linkNo], RequestsOf(p)) \in Nat
      BY OwesLoad
    <3>2. a \in Nat /\ b \in Nat /\ Cardinality(PendingOf(p)) \in Nat
      BY <1>3, <1>4, CountType, PendingFinite
    <3>3. owed[p] \in Int
      BY <1>3
    <3> HIDE DEF a, b
    <3>4. QED
      BY <3>1, <3>2, <3>3
  <2>4. owed[p] >= a + x
    BY DEF IInv, Owes
  <2> HIDE DEF a, b, x
  <2>5. owed'[p] >= b + x
    BY <1>8, <2>2, <2>3, <2>4
  <2>6. QED
    BY <2>1, <2>5 DEF a, b, x
<1>14. QED
  BY <1>2, <1>10, <1>11, <1>12, <1>13 DEF IInv

\* What arrives before a connection breaks is what was sent first.
LEMMA CutKeeps ==
  ASSUME IInv, linkNo \in Links, Cut
  PROVE  /\ toLogin' \in [Links -> Seq(Asked)]
         /\ \A k \in Links : k > linkNo => toLogin'[k] = <<>>
         /\ \A k \in Links : \A n \in 1..Len(toLogin'[k]) : Hears(toLogin'[k][n].player)
<1>1. /\ toLogin \in [Links -> Seq(Asked)]
      /\ \A k \in Links : k > linkNo => toLogin[k] = <<>>
      /\ \A k \in Links : \A n \in 1..Len(toLogin[k]) : Hears(toLogin[k][n].player)
  BY DEF IInv, FlowTypes, LinksInOrder, PlayersKnown
<1> DEFINE s == toLogin[linkNo]
<1>2. PICK m \in 0..Len(s) : toLogin' = [toLogin EXCEPT ![linkNo] = SubSeq(s, 1, m)]
  BY DEF Cut
<1>3. s \in Seq(Asked) /\ Len(s) \in Nat
  BY <1>1, LenProperties
<1> HIDE DEF s
<1>4. /\ SubSeq(s, 1, m) \in Seq(Asked) /\ Len(SubSeq(s, 1, m)) = m
      /\ \A n \in 1..m : SubSeq(s, 1, m)[n] = s[n] /\ n \in 1..Len(s)
  <2>1. \A n \in 1..m : n \in 1..Len(s)
    BY <1>3
  <2>2. \A n \in 1..m : s[n] \in Asked
    BY <1>3, <2>1, ElementOfSeq
  <2>3. SubSeq(s, 1, m) = [n \in 1..m |-> s[n]]
    BY <1>3
  <2>4. SubSeq(s, 1, m) \in Seq(Asked) /\ Len(SubSeq(s, 1, m)) = m
    BY <1>3, <2>2, <2>3
  <2>5. QED
    BY <2>1, <2>3, <2>4
<1>5. /\ toLogin' \in [Links -> Seq(Asked)]
      /\ \A k \in Links : toLogin'[k] = IF k = linkNo THEN SubSeq(s, 1, m) ELSE toLogin[k]
  BY <1>1, <1>2, <1>4
<1>6. \A k \in Links : k > linkNo => toLogin'[k] = <<>>
  BY <1>1, <1>5 DEF Links
<1>7. \A n \in 1..Len(SubSeq(s, 1, m)) : Hears(SubSeq(s, 1, m)[n].player)
  BY <1>1, <1>4 DEF s
<1>8. QED
  BY <1>1, <1>5, <1>6, <1>7

\* A new connection is quiet, and nobody is online by it.
LEMMA LinkUpKeeps ==
  ASSUME IInv, LinkUp
  PROVE  IInv'
<1>1. /\ ~loginUp /\ loginUp' /\ LoginLink /\ linkNo < MaxLinks
      /\ linkNo' = linkNo + 1 /\ lsUp' = TRUE
      /\ UNCHANGED <<toLogin, toGate, login, history>>
  BY DEF LinkUp, LoginLink
<1>2. GateInv' /\ \A p : Hears(p) => Hears(p)'
  BY <1>1, GateKeeps, HearsStays DEF IInv
<1>3. /\ linkNo \in Nat /\ linkNo' \in Links /\ linkNo' > linkNo
      /\ linkNo' \in 0..MaxLinks
  BY <1>1 DEF IInv, FlowTypes, Links
<1>4. FlowTypes' /\ HoldersOnline' /\ DownIsQuiet'
  BY <1>1, <1>3 DEF IInv, FlowTypes, HoldersOnline, DownIsQuiet, login, history
<1>5. \A i \in Requests : from[i].link \in Nat /\ from[i].link < linkNo'
  BY <1>3 DEF IInv, FlowTypes, LinksInOrder, Origins, Links, None
<1>6. LinksInOrder'
  <2>1. \A k \in Links : k > linkNo' => k > linkNo
    BY <1>3 DEF Links
  <2>2. \A i \in Requests : from'[i].link <= linkNo'
    BY <1>1, <1>3, <1>5 DEF login
  <2>3. QED
    BY <1>1, <1>3, <2>1, <2>2 DEF IInv, LinksInOrder
<1>7. PlayersKnown'
  BY <1>1, <1>2 DEF IInv, PlayersKnown, login
<1>8. toGate' = <<>> /\ heard' = Unheard /\ owed' = NoneOwed /\ toLogin'[linkNo'] = <<>>
  BY <1>1, <1>3 DEF IInv, DownIsQuiet, LinksInOrder, history
<1>9. Said'
  <2> SUFFICES ASSUME NEW p \in PlayerIDs, NEW t \in PTIDs
               PROVE  Says(toGate', heard'[p][t], p, t, "none") /\ ~Holds(p, t)'
    BY DEF Said, Says
  <2>1. Says(toGate', heard'[p][t], p, t, "none")
    BY <1>8 DEF Says, Unheard
  <2>2. ~Holds(p, t)'
    <3>1. holder[t] # 0 => holder[t] \in Requests
      BY DEF IInv, FlowTypes
    <3>2. QED
      BY <1>1, <1>3, <1>5, <3>1 DEF Holds, login
  <2>3. QED
    BY <2>1, <2>2
<1>10. Owes'
  <2> SUFFICES ASSUME NEW p \in PlayerIDs
               PROVE  (owed[p] >= Count(toGate, AnswersTo(p))
                         + (IF lsUp THEN Count(toLogin[linkNo], RequestsOf(p))
                                         + Cardinality(PendingOf(p))
                            ELSE 0))'
    BY DEF Owes
  <2>1. owed'[p] = 0
    BY <1>8 DEF NoneOwed
  <2>2. (Count(toGate, AnswersTo(p)))' = 0 /\ (Count(toLogin[linkNo], RequestsOf(p)))' = 0
    <3>1. (Count(toGate, AnswersTo(p)))' = Count(<<>>, AnswersTo(p))
      BY <1>8 DEF Count, AnswersTo
    <3>2. (Count(toLogin[linkNo], RequestsOf(p)))' = Count(<<>>, RequestsOf(p))
      BY <1>8 DEF Count, RequestsOf
    <3>3. QED
      BY <3>1, <3>2, CountEmpty
  <2>3. Cardinality(PendingOf(p)') = 0
    <3>1. PendingOf(p)' = {}
      BY <1>1, <1>3, <1>5 DEF PendingOf, login
    <3>2. QED
      BY <3>1, FS_EmptySet
  <2>4. QED
    BY <2>1, <2>2, <2>3
<1>11. QED
  BY <1>2, <1>4, <1>6, <1>7, <1>9, <1>10 DEF IInv

\* Without the connection nothing is said or owed.
LEMMA LinkDownKeeps ==
  ASSUME IInv, LinkDown
  PROVE  IInv'
<1>1. /\ loginUp /\ ~loginUp' /\ LoginLink /\ lsUp' = FALSE
      /\ toGate' = <<>> /\ heard' = Unheard /\ owed' = NoneOwed
      /\ UNCHANGED <<linkNo, login>>
      /\ Cut \/ UNCHANGED toLogin
  BY DEF LinkDown, LoginLink
<1>2. GateInv' /\ \A p : Hears(p) => Hears(p)'
  BY <1>1, GateKeeps, HearsStays DEF IInv
<1>3. /\ toLogin' \in [Links -> Seq(Asked)]
      /\ \A k \in Links : k > linkNo => toLogin'[k] = <<>>
      /\ \A k \in Links : \A n \in 1..Len(toLogin'[k]) : Hears(toLogin'[k][n].player)
  <2>1. linkNo \in Links
    BY <1>1 DEF IInv, LinksInOrder
  <2>2. CASE Cut
    BY <2>1, <2>2, CutKeeps
  <2>3. CASE UNCHANGED toLogin
    BY <2>3 DEF IInv, FlowTypes, LinksInOrder, PlayersKnown
  <2>4. QED
    BY <1>1, <2>2, <2>3
<1>4. heard' \in [PlayerIDs -> [PTIDs -> {"none", "succ", "kick"}]] /\ owed' \in [PlayerIDs -> Int]
  BY <1>1 DEF Unheard, NoneOwed
<1>5. FlowTypes'
  <2>1. lsUp' \in BOOLEAN
    BY <1>1
  <2>2. toGate' \in Seq(Words)
    BY <1>1, EmptySeq
  <2>3. QED
    BY <1>1, <1>3, <1>4, <2>1, <2>2 DEF IInv, FlowTypes, login
<1>6. LinksInOrder' /\ HoldersOnline' /\ DownIsQuiet' /\ Said'
  BY <1>1, <1>3 DEF IInv, LinksInOrder, HoldersOnline, DownIsQuiet, Said, Unheard, NoneOwed,
     login
<1>7. PlayersKnown'
  BY <1>1, <1>2, <1>3 DEF IInv, PlayersKnown, login
<1>8. Owes'
  <2> SUFFICES ASSUME NEW p \in PlayerIDs
               PROVE  owed'[p] >= Count(toGate, AnswersTo(p))' + 0
    BY <1>1 DEF Owes
  <2>1. Count(toGate, AnswersTo(p))' = Count(<<>>, AnswersTo(p))
    BY <1>1 DEF Count, AnswersTo
  <2>2. QED
    BY <1>1, <2>1, CountEmpty DEF NoneOwed
<1>9. QED
  BY <1>2, <1>5, <1>6, <1>7, <1>8 DEF IInv

\* The login server drops the connection, or ends and is started again.
LEMMA LoginGoesKeeps ==
  ASSUME IInv, LoginDrops \/ LoginRestarts
  PROVE  IInv'
<1>1. lsUp' = FALSE /\ UNCHANGED gateVars /\ UNCHANGED <<linkNo, toGate, heard, owed, loginUp>>
  BY DEF LoginDrops, LoginRestarts, history, gateVars, service
<1>2. GateInv' /\ \A p : Hears(p)' <=> Hears(p)
  BY <1>1, GateKeeps DEF IInv, Hears, gateVars, service, tables
<1>3. /\ toLogin' \in [Links -> Seq(Asked)]
      /\ \A k \in Links : k > linkNo => toLogin'[k] = <<>>
      /\ \A k \in Links : \A n \in 1..Len(toLogin'[k]) : Hears(toLogin'[k][n].player)
  <2>1. CASE LoginDrops
    <3>1. linkNo \in Links /\ Cut
      BY <2>1 DEF IInv, LinksInOrder, LoginDrops
    <3>2. QED
      BY <3>1, CutKeeps
  <2>2. CASE LoginRestarts
    <3>1. toLogin' = [k \in Links |-> <<>>]
      BY <2>2 DEF LoginRestarts
    <3>2. QED
      BY <3>1
  <2>3. QED
    BY <2>1, <2>2
<1>4. /\ status' \in [Requests -> {"none", "pending", "online", "ended"}]
      /\ holder' \in [PTIDs -> {0} \union Requests]
      /\ from' \in [Requests -> Origins]
      /\ \A i \in Requests : from'[i].link = None \/ from'[i] = from[i]
      /\ HoldersOnline'
  <2>1. /\ status \in [Requests -> {"none", "pending", "online", "ended"}]
        /\ holder \in [PTIDs -> {0} \union Requests]
        /\ from \in [Requests -> Origins]
    BY DEF IInv, FlowTypes
  <2>2. CASE LoginDrops
    BY <2>1, <2>2 DEF IInv, LoginDrops, login, HoldersOnline
  <2>3. CASE LoginRestarts
    <3>1. /\ status' = [i \in Requests |-> IF status[i] = "none" THEN "none" ELSE "ended"]
          /\ holder' = [t \in PTIDs |-> 0] /\ from' = Remember(from)
      BY <2>3 DEF LoginRestarts
    <3>2. Nobody \in Origins /\ Nobody.link = None
      BY DEF Nobody, Origins
    <3>3. /\ from' \in [Requests -> Origins]
          /\ \A i \in Requests : from'[i].link = None \/ from'[i] = from[i]
      BY <2>1, <3>1, <3>2 DEF Remember
    <3>4. HoldersOnline'
      BY <3>1 DEF HoldersOnline
    <3>5. QED
      BY <2>1, <3>1, <3>3, <3>4
  <2>4. QED
    BY <2>2, <2>3
<1>5. FlowTypes'
  <2>1. lsUp' \in BOOLEAN
    BY <1>1
  <2>2. QED
    BY <1>1, <1>3, <1>4, <2>1 DEF IInv, FlowTypes
<1>6. LinksInOrder'
  <2>1. linkNo \in Nat
    BY DEF IInv, FlowTypes
  <2>2. QED
    BY <1>1, <1>3, <1>4, <2>1 DEF IInv, LinksInOrder, None
<1>7. DownIsQuiet' /\ Said'
  BY <1>1 DEF IInv, DownIsQuiet, Said, Unheard, NoneOwed
<1>8. PlayersKnown'
  BY <1>1, <1>2, <1>3, <1>4 DEF IInv, PlayersKnown
<1>9. Owes'
  <2> SUFFICES ASSUME NEW p \in PlayerIDs
               PROVE  owed'[p] >= Count(toGate, AnswersTo(p))' + 0
    BY <1>1 DEF Owes
  <2>1. Count(toGate, AnswersTo(p))' = Count(toGate, AnswersTo(p))
    BY <1>1 DEF Count, AnswersTo
  <2>2. QED
    BY <1>1, <2>1, OwesLoad
<1>10. QED
  BY <1>2, <1>4, <1>5, <1>6, <1>7, <1>8, <1>9 DEF IInv

-----------------------------------------------------------------------------
(* The theorems.                                                           *)

\* The invariant of the two servers holds in every state.
LEMMA Inductive == Spec => []IInv
<1>1. Init => IInv
  <2> SUFFICES ASSUME Init PROVE IInv
    OBVIOUS
  <2>1. GateInv
    BY GateInitially
  <2>2. /\ loginUp = FALSE /\ linkNo = 0 /\ lsUp = FALSE
        /\ toLogin = [k \in Links |-> <<>>] /\ toGate = <<>>
        /\ status = [i \in Requests |-> "none"] /\ holder = [t \in PTIDs |-> 0]
        /\ from = [i \in Requests |-> Nobody]
        /\ heard = Unheard /\ owed = NoneOwed
    BY DEF Init, GateInit, Directory!Init
  <2>3. Nobody \in Origins /\ Nobody.link = None
    BY DEF Nobody, Origins
  <2>4. FlowTypes
    <3>1. lsUp \in BOOLEAN
      BY <2>2
    <3>2. toGate \in Seq(Words) /\ toLogin \in [Links -> Seq(Asked)]
      BY <2>2, EmptySeq
    <3>3. /\ status \in [Requests -> {"none", "pending", "online", "ended"}]
          /\ holder \in [PTIDs -> {0} \union Requests]
          /\ from \in [Requests -> Origins] /\ linkNo \in 0..MaxLinks
      BY <2>2, <2>3
    <3>4. /\ heard \in [PlayerIDs -> [PTIDs -> {"none", "succ", "kick"}]]
          /\ owed \in [PlayerIDs -> Int]
      BY <2>2 DEF Unheard, NoneOwed
    <3>5. QED
      BY <3>1, <3>2, <3>3, <3>4 DEF FlowTypes
  <2>5. LinksInOrder /\ HoldersOnline /\ DownIsQuiet /\ Said
    BY <2>2, <2>3 DEF LinksInOrder, HoldersOnline, DownIsQuiet, Said, None
  <2>6. PlayersKnown
    BY <2>2, <2>3 DEF PlayersKnown
  <2>7. Owes
    <3> SUFFICES ASSUME NEW p \in PlayerIDs
                 PROVE  owed[p] >= Count(toGate, AnswersTo(p)) + 0
      BY <2>2 DEF Owes
    <3>1. QED
      BY <2>2, CountEmpty DEF NoneOwed
  <2>8. QED
    BY <2>1, <2>4, <2>5, <2>6, <2>7 DEF IInv
<1>2. IInv /\ [Next]_vars => IInv'
  <2> SUFFICES ASSUME IInv, [Next]_vars PROVE IInv'
    OBVIOUS
  <2>1. CASE GateStep /\ UNCHANGED <<channel, login, history>>
    <3>1. GateInv' /\ \A p : Hears(p) => Hears(p)'
      BY <2>1, GateKeeps, HearsStays DEF IInv
    <3>2. loginUp' = loginUp
      BY <2>1 DEF GateStep, service, Accept, Disconnect, CloseAll, ClientPacket,
         ReadPackets, GsMessage, StartReturns, ServerStop, RecvHeartBeat, RecvOutOfRange,
         LostSession, RecvOther, RecvBadLogin, RecvLoginThrows
    <3>3. QED
      BY <2>1, <3>1, <3>2, QuietKeeps
  <2>2. CASE UNCHANGED vars
    <3>1. UNCHANGED gateVars /\ UNCHANGED <<channel, login, history, loginUp>>
      BY <2>2 DEF vars, gateVars, service
    <3>2. GateInv' /\ \A p : Hears(p) => Hears(p)'
      BY <3>1, GateKeeps, HearsStays DEF IInv
    <3>3. QED
      BY <3>1, <3>2, QuietKeeps
  <2>3. CASE LoginDrops \/ LoginRestarts
    BY <2>3, LoginGoesKeeps
  <2>4. QED
    BY <2>1, <2>2, <2>3, RecvLoginKeeps, RecvWordKeeps, LinkUpKeeps, LinkDownKeeps,
       TakesKeeps, DecidesKeeps, OtherGateKeeps DEF Next
<1>3. QED
  BY <1>1, <1>2, PTL DEF Spec

\* A player is online under a platform id exactly when the last word that the
\* gate heard of the two over this connection was "succ", once nothing is on
\* its way: kick-offs and answers never overtake each other into a wrong end.
THEOREM LastWord == Spec => []LastWordTrue
<1>1. IInv => LastWordTrue
  <2> SUFFICES ASSUME IInv, lsUp, toGate = <<>>, NEW p \in PlayerIDs, NEW t \in PTIDs
               PROVE  heard[p][t] = "succ" <=> Holds(p, t)
    BY DEF LastWordTrue, Holds
  <2>1. PICK v \in {"none", "succ", "kick"} :
          Says(toGate, heard[p][t], p, t, v) /\ (v = "succ" <=> Holds(p, t))
    BY DEF IInv, Said
  <2>2. heard[p][t] = v
    BY <2>1 DEF Says
  <2>3. QED
    BY <2>1, <2>2
<1>2. QED
  BY <1>1, Inductive, PTL

\* Over a connection no player gets more answers than it has asked for.
THEOREM AnswersAsked == Spec => []HeardIsAsked
<1>1. IInv => HeardIsAsked
  <2> SUFFICES ASSUME IInv, NEW p \in PlayerIDs PROVE owed[p] >= 0
    BY DEF HeardIsAsked
  <2>1. QED
    BY OwesLoad
<1>2. QED
  BY <1>1, Inductive, PTL

=============================================================================
