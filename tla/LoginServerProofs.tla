------------------------- MODULE LoginServerProofs -------------------------
(***************************************************************************)
(* Proofs that LoginServer keeps its tables of players consistent, answers *)
(* a login request at most once and implements LoginDirectory, for every   *)
(* number of gates, names, workers and messages and every configuration.   *)
(***************************************************************************)
EXTENDS LoginRefinement, SequenceTheorems, TLAPS

-----------------------------------------------------------------------------
(* The inductive invariant.  The part about the players is stated on the   *)
(* record the operations of the module work on.                            *)

\* The record has the types of playerMap_, pTIDMap_ and what was sent.
STypes == [map : [PlayerIDs -> Player \cup {NoPlayer}],
           ptids : [PTIDs -> {0} \cup PlayerIDs],
           sent : [PlayerIDs -> Seq({"succ", "fail", "kick"})]]

\* PtidMapAgrees of the record.
SAgrees(s) ==
  /\ \A p \in PTIDs : s.ptids[p] # 0 =>
       /\ s.map[s.ptids[p]] # NoPlayer
       /\ s.map[s.ptids[p]].state = "Online"
       /\ s.map[s.ptids[p]].ptid = p
  /\ \A i \in PlayerIDs :
       s.map[i] # NoPlayer /\ s.map[i].state = "Online" =>
         /\ s.map[i].ptid \in PTIDs
         /\ s.ptids[s.map[i].ptid] = i

\* A player in Login has no platform id and has not been answered; one online
\* has had its success, unless its gate was lost before; the gate of a player
\* has been connected.
SAnswers(s) ==
  \A i \in PlayerIDs :
    /\ s.sent[i] \in {<<>>, <<"succ">>, <<"fail">>, <<"succ", "kick">>}
    /\ s.map[i] # NoPlayer => gateState[s.map[i].gate] # "new"
    /\ s.map[i] # NoPlayer /\ s.map[i].state = "Login" =>
         s.map[i].ptid = NoPTID /\ s.sent[i] = <<>>
    /\ s.map[i] # NoPlayer /\ s.map[i].state = "Online" =>
         \/ s.sent[i] = <<"succ">>
         \/ s.sent[i] = <<>> /\ gateState[s.map[i].gate] = "down"

GatesTyped == gateState \in [Gates -> {"new", "up", "down"}]

SInv(s) == GatesTyped /\ s \in STypes /\ SAgrees(s) /\ SAnswers(s)

\* Ids above player_idx_ are unused.
Fresh ==
  \A i \in PlayerIDs : i > player_idx => playerMap[i] = NoPlayer /\ sent[i] = <<>>

\* There is an id for every packet still to be processed.
Enough == player_idx + Len(message_list) + Len(current_list) <= received

\* A packet came from a gate that was connected.
PacketGates ==
  /\ \A k \in 1..Len(message_list) : gateState[message_list[k].gate] # "new"
  /\ \A k \in 1..Len(current_list) : gateState[current_list[k].gate] # "new"

IInv == TypeOK /\ SInv(Current) /\ Fresh /\ Enough /\ PacketGates

USE ConstantsAssumption, NoPlayerAssumption
-----------------------------------------------------------------------------

\* Appending to a sequence of one element makes the pair.
LEMMA AppendPair ==
  ASSUME NEW S, NEW a \in S, NEW b \in S
  PROVE  Append(<<a>>, b) = <<a, b>>
<1> DEFINE u == Append(<<a>>, b)
           v == <<a, b>>
<1>1. <<a>> \in Seq(S) /\ Len(<<a>>) = 1
  OBVIOUS
<1>2. Len(u) = 2 /\ u \in Seq(S) /\ u[1] = a /\ u[2] = b
  BY <1>1, AppendProperties
<1>3. v \in Seq(S) /\ Len(v) = 2 /\ v[1] = a /\ v[2] = b
  OBVIOUS
<1> HIDE DEF u, v
<1>4. \A k \in 1..Len(u) : u[k] = v[k]
  BY <1>2, <1>3
<1>5. u = v
  BY <1>2, <1>3, <1>4, SeqEqual
<1>6. QED
  BY <1>5 DEF u, v

-----------------------------------------------------------------------------
(* What each operation on the players does to the invariant.               *)

\* Sending for a live player appends to what was sent for it, or does nothing
\* when its gate is gone.
LEMMA SendFacts ==
  ASSUME NEW s \in STypes, NEW i \in PlayerIDs, NEW m \in {"succ", "fail", "kick"},
         s.map[i] # NoPlayer
  PROVE  /\ Send(s, i, m) \in STypes
         /\ Send(s, i, m).map = s.map
         /\ Send(s, i, m).ptids = s.ptids
         /\ \A j \in PlayerIDs : j # i => Send(s, i, m).sent[j] = s.sent[j]
         /\ Up(s.map[i].gate) => Send(s, i, m).sent[i] = Append(s.sent[i], m)
         /\ ~Up(s.map[i].gate) => Send(s, i, m).sent[i] = s.sent[i]
<1> DEFINE M == {"succ", "fail", "kick"}
<1>1. s.sent \in [PlayerIDs -> Seq(M)] /\ s.map \in [PlayerIDs -> Player \cup {NoPlayer}]
      /\ s.ptids \in [PTIDs -> {0} \cup PlayerIDs]
      /\ s = [map |-> s.map, ptids |-> s.ptids, sent |-> s.sent]
  BY DEF STypes
<1>2. Append(s.sent[i], m) \in Seq(M)
  BY <1>1
<1>3. CASE ~Up(s.map[i].gate)
  BY <1>3 DEF Send
<1>4. CASE Up(s.map[i].gate)
  <2> DEFINE t == [s.sent EXCEPT ![i] = Append(s.sent[i], m)]
  <2>1. t \in [PlayerIDs -> Seq(M)]
    BY <1>1, <1>2
  <2>2. Send(s, i, m) = [map |-> s.map, ptids |-> s.ptids, sent |-> t]
    BY <1>1, <1>4 DEF Send
  <2>3. QED
    BY <1>1, <1>4, <2>1, <2>2 DEF STypes
<1>5. QED
  BY <1>3, <1>4

\* Releasing a player removes it and the entry of its platform id, and
\* nothing else.
LEMMA ReleaseFacts ==
  ASSUME NEW s \in STypes, NEW i \in PlayerIDs, s.map[i] # NoPlayer
  PROVE  /\ releasePlayer(s, i) \in STypes
         /\ releasePlayer(s, i).sent = s.sent
         /\ releasePlayer(s, i).map = [s.map EXCEPT ![i] = NoPlayer]
         /\ \A p \in PTIDs :
              releasePlayer(s, i).ptids[p] = IF p = s.map[i].ptid THEN 0 ELSE s.ptids[p]
BY DEF releasePlayer, STypes

\* Releasing a live player keeps the tables consistent.
LEMMA ReleaseKeeps ==
  ASSUME NEW s, SInv(s), NEW i \in PlayerIDs, s.map[i] # NoPlayer
  PROVE  SInv(releasePlayer(s, i))
<1> DEFINE r == releasePlayer(s, i)
<1>0. s \in STypes /\ s.map[i] \in Player
  BY DEF SInv, STypes
<1>1. /\ r \in STypes /\ r.sent = s.sent
      /\ r.map = [s.map EXCEPT ![i] = NoPlayer]
      /\ \A p \in PTIDs : r.ptids[p] = IF p = s.map[i].ptid THEN 0 ELSE s.ptids[p]
  BY <1>0, ReleaseFacts
<1>2. /\ r.map[i] = NoPlayer
      /\ \A j \in PlayerIDs : j # i => r.map[j] = s.map[j]
  BY <1>0, <1>1 DEF STypes
<1> HIDE DEF r
<1>3. SAgrees(r)
  <2>1. \A p \in PTIDs : r.ptids[p] # 0 =>
          r.ptids[p] = s.ptids[p] /\ r.ptids[p] \in PlayerIDs /\ r.ptids[p] # i
    BY <1>0, <1>1 DEF SInv, SAgrees, STypes
  <2>2. \A j \in PlayerIDs : r.map[j] # NoPlayer /\ r.map[j].state = "Online" =>
          s.map[j].ptid # s.map[i].ptid \/ s.map[i].state # "Online"
    BY <1>0, <1>2 DEF SInv, SAgrees
  <2>3. s.map[i].state = "Online" \/ s.map[i].ptid = NoPTID
    BY <1>0 DEF SInv, SAnswers, Player
  <2>4. QED
    BY <1>0, <1>1, <1>2, <2>1, <2>2, <2>3 DEF SInv, SAgrees
<1>4. SAnswers(r)
  BY <1>0, <1>1, <1>2 DEF SInv, SAnswers
<1>5. QED
  BY <1>1, <1>3, <1>4 DEF SInv, r

\* Telling a live player's gate and releasing the player keeps the tables
\* consistent, when the message may follow what was sent before: this is how a
\* request fails and how a holder is kicked.
LEMMA TellAndReleaseKeeps ==
  ASSUME NEW s, SInv(s), NEW i \in PlayerIDs, s.map[i] # NoPlayer,
         NEW m \in {"fail", "kick"},
         (m = "fail" /\ s.map[i].state = "Login") \/ (m = "kick" /\ s.map[i].state = "Online")
  PROVE  LET r == changeState(Send(s, i, m), i, "Logout") IN
         /\ SInv(r)
         /\ r.map = [s.map EXCEPT ![i] = NoPlayer]
         /\ \A p \in PTIDs : r.ptids[p] = IF p = s.map[i].ptid THEN 0 ELSE s.ptids[p]
         /\ \A j \in PlayerIDs : j # i => r.sent[j] = s.sent[j]
         /\ Up(s.map[i].gate) => r.sent[i] = Append(s.sent[i], m)
<1> DEFINE t == Send(s, i, m)
           r == releasePlayer(t, i)
<1>0. s \in STypes /\ s.map[i] \in Player
  BY DEF SInv, STypes
<1>1. /\ t \in STypes /\ t.map = s.map /\ t.ptids = s.ptids
      /\ \A j \in PlayerIDs : j # i => t.sent[j] = s.sent[j]
      /\ Up(s.map[i].gate) => t.sent[i] = Append(s.sent[i], m)
      /\ ~Up(s.map[i].gate) => t.sent[i] = s.sent[i]
  BY <1>0, SendFacts
<1>2. changeState(t, i, "Logout") = r
  BY <1>0, <1>1 DEF changeState, Player
<1> HIDE DEF t
<1>3. /\ r \in STypes /\ r.sent = t.sent
      /\ r.map = [t.map EXCEPT ![i] = NoPlayer]
      /\ \A p \in PTIDs : r.ptids[p] = IF p = t.map[i].ptid THEN 0 ELSE t.ptids[p]
  BY <1>1, ReleaseFacts
<1>4. SInv(releasePlayer(s, i))
  BY ReleaseKeeps
<1> DEFINE q == releasePlayer(s, i)
<1>5. /\ q \in STypes /\ q.sent = s.sent
      /\ q.map = [s.map EXCEPT ![i] = NoPlayer]
      /\ \A p \in PTIDs : q.ptids[p] = IF p = s.map[i].ptid THEN 0 ELSE s.ptids[p]
  BY <1>0, ReleaseFacts
<1> HIDE DEF r, q
<1>6. r.map = q.map /\ \A p \in PTIDs : r.ptids[p] = q.ptids[p]
  BY <1>1, <1>3, <1>5
<1>7. r.ptids = q.ptids
  BY <1>3, <1>5, <1>6 DEF STypes
<1>8. SAgrees(r)
  BY <1>4, <1>6, <1>7 DEF SInv, SAgrees, q
<1>9. t.sent[i] \in {<<>>, <<"succ">>, <<"fail">>, <<"succ", "kick">>}
  <2>1. CASE ~Up(s.map[i].gate)
    BY <1>1, <2>1 DEF SInv, SAnswers
  <2>2. CASE Up(s.map[i].gate) /\ m = "fail"
    <3>1. s.sent[i] = <<>> /\ t.sent[i] = Append(s.sent[i], "fail")
      BY <1>1, <2>2 DEF SInv, SAnswers
    <3>2. QED
      BY <3>1
  <2>3. CASE Up(s.map[i].gate) /\ m = "kick"
    <3>1. s.sent[i] = <<"succ">> /\ t.sent[i] = Append(s.sent[i], "kick")
      BY <1>1, <2>3 DEF SInv, SAnswers, Up
    <3>2. Append(<<"succ">>, "kick") = <<"succ", "kick">>
      <4>1. "succ" \in {"succ", "kick"} /\ "kick" \in {"succ", "kick"}
        OBVIOUS
      <4>2. QED
        BY <4>1, AppendPair
    <3>3. QED
      BY <3>1, <3>2
  <2>4. QED
    BY <2>1, <2>2, <2>3
<1>10. SAnswers(r)
  <2>1. r.map[i] = NoPlayer /\ \A j \in PlayerIDs : j # i => r.map[j] = s.map[j]
    BY <1>0, <1>5, <1>6 DEF STypes
  <2>2. QED
    BY <2>1, <1>1, <1>3, <1>9 DEF SInv, SAnswers
<1>11. QED
  BY <1>1, <1>2, <1>3, <1>8, <1>10 DEF SInv, t

\* Kicking the holder of a platform id frees the id and changes no other player.
LEMMA KickKeeps ==
  ASSUME NEW s, SInv(s), NEW ptid \in PTIDs
  PROVE  LET k == kickOffPlayer(s, ptid) IN
         /\ SInv(k)
         /\ k.ptids[ptid] = 0
         /\ \A j \in PlayerIDs : j # s.ptids[ptid] =>
              k.map[j] = s.map[j] /\ k.sent[j] = s.sent[j]
         /\ \A j \in PlayerIDs : j = s.ptids[ptid] => k.map[j] = NoPlayer
         /\ \A p \in PTIDs : p # ptid => k.ptids[p] = s.ptids[p]
         /\ \A j \in PlayerIDs : j = s.ptids[ptid] /\ Up(s.map[j].gate) =>
              k.sent[j] = Append(s.sent[j], "kick")
<1> DEFINE old == s.ptids[ptid]
<1>0. s \in STypes /\ old \in {0} \cup PlayerIDs
  BY DEF SInv, STypes
<1>1. CASE old = 0
  BY <1>0, <1>1 DEF kickOffPlayer, PlayerIDs
<1>2. CASE old # 0
  <2>1. /\ old \in PlayerIDs /\ s.map[old] # NoPlayer
        /\ s.map[old].state = "Online" /\ s.map[old].ptid = ptid
    BY <1>0, <1>2 DEF SInv, SAgrees
  <2> DEFINE k == changeState(Send(s, old, "kick"), old, "Logout")
  <2>2. kickOffPlayer(s, ptid) = k
    BY <1>2, <2>1 DEF kickOffPlayer
  <2> HIDE DEF old
  <2>3. /\ SInv(k)
        /\ k.map = [s.map EXCEPT ![old] = NoPlayer]
        /\ \A p \in PTIDs : k.ptids[p] = IF p = s.map[old].ptid THEN 0 ELSE s.ptids[p]
        /\ \A j \in PlayerIDs : j # old => k.sent[j] = s.sent[j]
        /\ Up(s.map[old].gate) => k.sent[old] = Append(s.sent[old], "kick")
    BY <2>1, TellAndReleaseKeeps
  <2> HIDE DEF k
  <2>4. k.map[old] = NoPlayer /\ \A j \in PlayerIDs : j # old => k.map[j] = s.map[j]
    BY <1>0, <2>1, <2>3 DEF STypes
  <2>5. QED
    BY <2>1, <2>2, <2>3, <2>4 DEF old
<1>3. QED
  BY <1>1, <1>2

\* Logging in a player that is in Login keeps the tables consistent; only the
\* holder of the same platform id goes, and its gate is told.
LEMMA LogInKeeps ==
  ASSUME NEW s, SInv(s), NEW i \in PlayerIDs, s.map[i] # NoPlayer,
         s.map[i].state = "Login"
  PROVE  LET r == logIn(s, i)
             ptid == PtidOf[s.map[i].authen]
         IN  /\ SInv(r)
             /\ r.map[i] # NoPlayer /\ r.map[i].state = "Online"
             /\ r.ptids[ptid] = i
             /\ \A j \in PlayerIDs : j # i /\ j # s.ptids[ptid] =>
                  r.map[j] = s.map[j] /\ r.sent[j] = s.sent[j]
             /\ \A j \in PlayerIDs : j = s.ptids[ptid] => r.map[j] = NoPlayer
             /\ \A p \in PTIDs : p # ptid => r.ptids[p] = s.ptids[p]
             /\ \A j \in PlayerIDs : j = s.ptids[ptid] /\ Up(s.map[j].gate) =>
                  r.sent[j] = Append(s.sent[j], "kick")
<1> DEFINE ptid == PtidOf[s.map[i].authen]
           k == kickOffPlayer(s, ptid)
           u == setPTID(k, i, ptid)
           v == Send(u, i, "succ")
           r == changeState(v, i, "Online")
<1>0. s \in STypes /\ s.map[i] \in Player /\ ptid \in PTIDs
  BY DEF SInv, STypes, Player
<1>1. /\ SInv(k)
      /\ k.ptids[ptid] = 0
      /\ \A j \in PlayerIDs : j # s.ptids[ptid] =>
              k.map[j] = s.map[j] /\ k.sent[j] = s.sent[j]
      /\ \A j \in PlayerIDs : j = s.ptids[ptid] => k.map[j] = NoPlayer
      /\ \A p \in PTIDs : p # ptid => k.ptids[p] = s.ptids[p]
      /\ \A j \in PlayerIDs : j = s.ptids[ptid] /\ Up(s.map[j].gate) =>
              k.sent[j] = Append(s.sent[j], "kick")
  BY <1>0, KickKeeps
<1>2. s.ptids[ptid] # i
  BY <1>0 DEF SInv, SAgrees, PlayerIDs
<1> HIDE DEF k
<1>3. k \in STypes /\ k.map[i] = s.map[i] /\ k.sent[i] = s.sent[i] /\ s.sent[i] = <<>>
  BY <1>1, <1>2 DEF SInv, SAnswers
<1>4. /\ u \in STypes /\ u.sent = k.sent
      /\ u.map = [k.map EXCEPT ![i].ptid = ptid]
      /\ u.ptids = [k.ptids EXCEPT ![ptid] = i]
  <2> DEFINE um == [k.map EXCEPT ![i].ptid = ptid]
             up == [k.ptids EXCEPT ![ptid] = i]
  <2>1. um \in [PlayerIDs -> Player \cup {NoPlayer}]
    BY <1>0, <1>3 DEF STypes, Player
  <2>2. up \in [PTIDs -> {0} \cup PlayerIDs]
    BY <1>0, <1>3 DEF STypes
  <2>3. /\ k = [map |-> k.map, ptids |-> k.ptids, sent |-> k.sent]
        /\ k.sent \in [PlayerIDs -> Seq({"succ", "fail", "kick"})]
    BY <1>3 DEF STypes
  <2>4. u = [map |-> um, ptids |-> up, sent |-> k.sent]
    BY <1>1, <2>3 DEF setPTID
  <2> HIDE DEF um, up, u
  <2>5. u \in STypes /\ u.sent = k.sent /\ u.map = um /\ u.ptids = up
    BY <2>1, <2>2, <2>3, <2>4 DEF STypes
  <2>6. QED
    BY <2>5 DEF um, up
<1>5. /\ u.map[i] = [s.map[i] EXCEPT !.ptid = ptid]
      /\ \A j \in PlayerIDs : j # i => u.map[j] = k.map[j]
  BY <1>3, <1>4 DEF STypes
<1>6. u.map[i] \in Player /\ u.map[i].state = "Login"
  BY <1>0, <1>5 DEF Player
<1> HIDE DEF u, ptid
<1>7. /\ v \in STypes /\ v.map = u.map /\ v.ptids = u.ptids
      /\ \A j \in PlayerIDs : j # i => v.sent[j] = u.sent[j]
      /\ Up(u.map[i].gate) => v.sent[i] = Append(u.sent[i], "succ")
      /\ ~Up(u.map[i].gate) => v.sent[i] = u.sent[i]
  BY <1>4, <1>6, SendFacts, ZenonT(60)
<1> HIDE DEF v
<1>8. /\ r \in STypes /\ r.ptids = v.ptids /\ r.sent = v.sent
      /\ r.map = [v.map EXCEPT ![i].state = "Online"]
  <2> DEFINE rm == [v.map EXCEPT ![i].state = "Online"]
  <2>1. rm \in [PlayerIDs -> Player \cup {NoPlayer}]
    BY <1>6, <1>7 DEF STypes, Player
  <2>2. /\ v = [map |-> v.map, ptids |-> v.ptids, sent |-> v.sent]
        /\ v.ptids \in [PTIDs -> {0} \cup PlayerIDs]
        /\ v.sent \in [PlayerIDs -> Seq({"succ", "fail", "kick"})]
    BY <1>7 DEF STypes
  <2>3. r = [map |-> rm, ptids |-> v.ptids, sent |-> v.sent]
    BY <1>6, <1>7, <2>2 DEF changeState
  <2> HIDE DEF rm, r
  <2>4. r \in STypes /\ r.ptids = v.ptids /\ r.sent = v.sent /\ r.map = rm
    BY <2>1, <2>2, <2>3 DEF STypes
  <2>5. QED
    BY <2>4 DEF rm
<1> HIDE DEF r
<1>9. /\ r.map[i] \in Player /\ r.map[i].state = "Online"
      /\ r.map[i].ptid = ptid /\ r.map[i].gate = s.map[i].gate
      /\ \A j \in PlayerIDs : j # i => r.map[j] = k.map[j]
  <2>1. r.map[i] = [u.map[i] EXCEPT !.state = "Online"]
    BY <1>4, <1>7, <1>8 DEF STypes
  <2>2. \A j \in PlayerIDs : j # i => r.map[j] = k.map[j]
    BY <1>4, <1>5, <1>7, <1>8 DEF STypes
  <2>3. u.map[i].ptid = ptid /\ u.map[i].gate = s.map[i].gate
    BY <1>0, <1>5 DEF Player
  <2>4. /\ r.map[i] \in Player /\ r.map[i].state = "Online"
        /\ r.map[i].ptid = u.map[i].ptid /\ r.map[i].gate = u.map[i].gate
    BY <1>6, <2>1 DEF Player
  <2>5. QED
    BY <2>2, <2>3, <2>4
<1>10. r.ptids[ptid] = i /\ \A p \in PTIDs : p # ptid => r.ptids[p] = k.ptids[p]
  BY <1>0, <1>3, <1>4, <1>7, <1>8 DEF STypes
<1>11. r.sent[i] = IF Up(s.map[i].gate) THEN <<"succ">> ELSE <<>>
  <2>1. u.sent[i] = <<>> /\ u.map[i].gate = s.map[i].gate
    BY <1>0, <1>3, <1>4, <1>5 DEF Player
  <2>2. Append(<<>>, "succ") = <<"succ">>
    OBVIOUS
  <2>3. QED
    BY <1>7, <1>8, <2>1, <2>2
<1>12. \A j \in PlayerIDs : j # i => r.sent[j] = k.sent[j]
  BY <1>4, <1>7, <1>8
<1>13. SAgrees(r)
  <2>1. \A p \in PTIDs : p # ptid /\ k.ptids[p] # 0 => k.ptids[p] \in PlayerIDs /\ k.ptids[p] # i
    BY <1>1, <1>3 DEF SInv, SAgrees, STypes
  <2>2. \A p \in PTIDs : r.ptids[p] # 0 =>
       /\ r.map[r.ptids[p]] # NoPlayer
       /\ r.map[r.ptids[p]].state = "Online"
       /\ r.map[r.ptids[p]].ptid = p
    BY <1>1, <1>9, <1>10, <2>1 DEF SInv, SAgrees
  <2>3. \A j \in PlayerIDs :
       r.map[j] # NoPlayer /\ r.map[j].state = "Online" =>
         r.map[j].ptid \in PTIDs /\ r.ptids[r.map[j].ptid] = j
    BY <1>0, <1>1, <1>9, <1>10 DEF SInv, SAgrees, PlayerIDs
  <2>4. QED
    BY <2>2, <2>3 DEF SAgrees
<1>14. SAnswers(r)
  <2>1. ~Up(s.map[i].gate) => gateState[s.map[i].gate] # "new" /\ gateState[s.map[i].gate] # "up"
    BY DEF SInv, SAnswers, Up
  <2>2. gateState[s.map[i].gate] # "new"
    BY DEF SInv, SAnswers
  <2>3. ~Up(s.map[i].gate) => gateState[s.map[i].gate] = "down"
    BY <1>0, <2>1 DEF SInv, GatesTyped, Player
  <2>4. r.map[i] # NoPlayer
    BY <1>9
  <2>5. QED
    BY <1>1, <1>9, <1>11, <1>12, <2>2, <2>3, <2>4 DEF SInv, SAnswers
<1>15. logIn(s, i) = r
  BY DEF logIn, sendGateLoginSucc, r, v, u, k, ptid
<1>16. SInv(r) /\ r.map[i] # NoPlayer
  BY <1>8, <1>9, <1>13, <1>14 DEF SInv
<1>17. \A j \in PlayerIDs : j # i /\ j # s.ptids[ptid] =>
         r.map[j] = s.map[j] /\ r.sent[j] = s.sent[j]
  BY <1>1, <1>9, <1>12
<1>18. \A j \in PlayerIDs : j = s.ptids[ptid] /\ Up(s.map[j].gate) =>
         r.sent[j] = Append(s.sent[j], "kick")
  BY <1>1, <1>2, <1>12
<1>19. /\ \A j \in PlayerIDs : j = s.ptids[ptid] => r.map[j] = NoPlayer
       /\ \A p \in PTIDs : p # ptid => r.ptids[p] = s.ptids[p]
  BY <1>1, <1>2, <1>9, <1>10
<1>20. QED
  BY <1>9, <1>10, <1>15, <1>16, <1>17, <1>18, <1>19 DEF ptid

-----------------------------------------------------------------------------
(* The invariant holds initially and every step keeps it.                  *)

\* Installing a consistent record leaves the variables consistent.
LEMMA BecomesKeeps ==
  ASSUME NEW t, SInv(t), Becomes(t), gateState' = gateState
  PROVE  /\ SInv(Current)'
         /\ playerMap' \in [PlayerIDs -> Player \cup {NoPlayer}]
         /\ pTIDMap' \in [PTIDs -> {0} \cup PlayerIDs]
         /\ sent' \in [PlayerIDs -> Seq({"succ", "fail", "kick"})]
<1>1. /\ t \in STypes
      /\ t.map \in [PlayerIDs -> Player \cup {NoPlayer}]
      /\ t.ptids \in [PTIDs -> {0} \cup PlayerIDs]
      /\ t.sent \in [PlayerIDs -> Seq({"succ", "fail", "kick"})]
      /\ t = [map |-> t.map, ptids |-> t.ptids, sent |-> t.sent]
  BY DEF SInv, STypes
<1>2. Current' = t
  BY <1>1 DEF Becomes, Current
<1>3. Current' \in STypes /\ GatesTyped' /\ SAgrees(Current)' /\ SAnswers(Current)'
  BY <1>1, <1>2 DEF SInv, SAgrees, SAnswers, GatesTyped
<1>4. STypes' = STypes
  BY DEF STypes
<1>5. QED
  BY <1>1, <1>3, <1>4 DEF SInv, Becomes

\* The initial state.
LEMMA InitIInv == Init => IInv
<1> SUFFICES ASSUME Init PROVE IInv
  OBVIOUS
<1> USE DEF Init
<1>1. TypeOK
  <2>1. /\ gateState \in [Gates -> {"new", "up", "down"}]
        /\ playerMap \in [PlayerIDs -> Player \cup {NoPlayer}]
        /\ pTIDMap \in [PTIDs -> {0} \cup PlayerIDs]
        /\ sent \in [PlayerIDs -> Seq({"succ", "fail", "kick"})]
    OBVIOUS
  <2>2. /\ message_list \in Seq(Packet) /\ current_list \in Seq(Packet)
        /\ apg_list \in Seq(APMsg) /\ cur_list \in Seq(APMsg)
        /\ message_arr \in [WorkerIDs -> Seq(APMsg)]
        /\ worker_list \in [WorkerIDs -> Seq(APMsg)]
    OBVIOUS
  <2>3. /\ received \in 0..MaxMsg /\ player_idx \in 0..MaxMsg
        /\ auth_seed \in Nat /\ process_cnt \in WorkerIDs
    BY DEF WorkerIDs
  <2>4. /\ workerUp \subseteq WorkerIDs
        /\ apRunning \in BOOLEAN /\ stopFlag \in BOOLEAN
        /\ pc \in {"top", "packets", "apmsgs", "joining", "stopped"}
    OBVIOUS
  <2> HIDE DEF Init
  <2>5. QED
    BY <2>1, <2>2, <2>3, <2>4 DEF TypeOK
<1>2. Current \in STypes /\ GatesTyped
  BY DEF Current, STypes, GatesTyped
<1>3. SAgrees(Current) /\ SAnswers(Current)
  BY DEF Current, SAgrees, SAnswers
<1>4. Fresh /\ Enough /\ PacketGates
  BY DEF Fresh, Enough, PacketGates
<1>5. QED
  BY <1>1, <1>2, <1>3, <1>4 DEF IInv, SInv

\* Taking the next packet off the swapped list.
LEMMA PacketHead ==
  ASSUME IInv, current_list # <<>>
  PROVE  /\ Head(current_list).gate \in Gates
         /\ Head(current_list).msg \in Messages
         /\ gateState[Head(current_list).gate] # "new"
         /\ Tail(current_list) \in Seq(Packet)
         /\ Len(Tail(current_list)) = Len(current_list) - 1
         /\ \A k \in 1..Len(Tail(current_list)) : Tail(current_list)[k] = current_list[k + 1]
         /\ player_idx + 1 \in PlayerIDs
<1>1. /\ current_list \in Seq(Packet)
      /\ message_list \in Seq(Packet)
      /\ player_idx \in 0..MaxMsg /\ received \in 0..MaxMsg
  BY DEF IInv, TypeOK
<1>2. Len(current_list) \in Nat /\ Len(current_list) >= 1 /\ Head(current_list) = current_list[1]
  BY <1>1
<1>3. current_list[1] \in Packet
  BY <1>1, <1>2
<1>4. Len(message_list) \in Nat
  BY <1>1
<1>5. player_idx + 1 \in PlayerIDs
  BY <1>1, <1>2, <1>4 DEF IInv, Enough, PlayerIDs
<1>6. gateState[current_list[1].gate] # "new"
  BY <1>1, <1>2 DEF IInv, PacketGates
<1>7. QED
  BY <1>1, <1>2, <1>3, <1>5, <1>6, HeadTailProperties DEF Packet

\* The record with the player of a new request added is consistent.
LEMMA FetchKeeps ==
  ASSUME IInv, NEW g \in Gates, gateState[g] # "new",
         NEW m \in Messages, m.type = "Login", player_idx + 1 \in PlayerIDs
  PROVE  LET s == fetchPlayer(g, m)
             i == player_idx + 1
         IN  /\ SInv(s)
             /\ s.map[i] # NoPlayer /\ s.map[i].state = "Login"
             /\ s.sent[i] = <<>> /\ s.ptids = pTIDMap
             /\ \A j \in PlayerIDs : j # i => s.map[j] = playerMap[j]
             /\ \A j \in PlayerIDs : j > i => s.map[j] = NoPlayer /\ s.sent[j] = <<>>
<1> DEFINE i == player_idx + 1
           new == [state |-> "Login", gate |-> g, authen |-> m.authen,
                   ptid |-> NoPTID, auth |-> 0]
           s == fetchPlayer(g, m)
<1>1. m.authen \in AuthenIDs
  BY DEF Messages, LoginReq, LogoffNtf, BadMsg
<1>2. new \in Player
  BY <1>1 DEF Player
<1>3. /\ playerMap \in [PlayerIDs -> Player \cup {NoPlayer}]
      /\ pTIDMap \in [PTIDs -> {0} \cup PlayerIDs]
      /\ sent \in [PlayerIDs -> Seq({"succ", "fail", "kick"})]
      /\ player_idx \in Nat
  BY DEF IInv, TypeOK
<1>4. s = [map |-> [playerMap EXCEPT ![i] = new], ptids |-> pTIDMap, sent |-> sent]
  BY DEF fetchPlayer, Current
<1>5. playerMap[i] = NoPlayer /\ sent[i] = <<>>
  BY <1>3 DEF IInv, Fresh
<1> HIDE DEF s, new
<1>6. [playerMap EXCEPT ![i] = new] \in [PlayerIDs -> Player \cup {NoPlayer}]
  BY <1>2, <1>3
<1>7. s \in STypes /\ s.ptids = pTIDMap /\ s.sent = sent
      /\ s.map = [playerMap EXCEPT ![i] = new]
  BY <1>3, <1>4, <1>6 DEF STypes
<1>8. /\ s.map[i] = new
      /\ \A j \in PlayerIDs : j # i => s.map[j] = playerMap[j]
  BY <1>3, <1>7
<1>9. new.state = "Login" /\ new.ptid = NoPTID /\ new.gate = g /\ new # NoPlayer
  BY <1>2 DEF new
<1>10. SAgrees(s)
  <2>1. SAgrees(Current)
    BY DEF IInv, SInv
  <2>2. \A p \in PTIDs : pTIDMap[p] # 0 => pTIDMap[p] \in PlayerIDs /\ pTIDMap[p] # i
    BY <1>3, <1>5, <2>1 DEF SAgrees, Current
  <2>3. QED
    BY <1>7, <1>8, <1>9, <2>1, <2>2 DEF SAgrees, Current
<1>11. SAnswers(s)
  <2>1. SAnswers(Current)
    BY DEF IInv, SInv
  <2>2. QED
    BY <1>5, <1>7, <1>8, <1>9, <2>1 DEF SAnswers, Current
<1>12. \A j \in PlayerIDs : j > i => s.map[j] = NoPlayer /\ s.sent[j] = <<>>
  BY <1>3, <1>7, <1>8 DEF IInv, Fresh, PlayerIDs
<1>13. SInv(s)
  BY <1>7, <1>10, <1>11 DEF SInv, IInv
<1>14. QED
  BY <1>5, <1>7, <1>8, <1>9, <1>12, <1>13 DEF s

\* The id of the account check is no part of what the invariant says.
LEMMA SetAuthKeeps ==
  ASSUME NEW t, SInv(t), NEW i \in PlayerIDs, t.map[i] # NoPlayer, NEW a \in Nat
  PROVE  LET r == setAuthID(t, i, a) IN
         /\ SInv(r) /\ r.sent = t.sent /\ r.ptids = t.ptids
         /\ r.map[i] # NoPlayer /\ r.map[i].state = t.map[i].state
         /\ \A j \in PlayerIDs : j # i => r.map[j] = t.map[j]
<1> DEFINE r == setAuthID(t, i, a)
           rm == [t.map EXCEPT ![i].auth = a]
<1>1. /\ t.map \in [PlayerIDs -> Player \cup {NoPlayer}] /\ t.map[i] \in Player
      /\ t.ptids \in [PTIDs -> {0} \cup PlayerIDs]
      /\ t.sent \in [PlayerIDs -> Seq({"succ", "fail", "kick"})]
      /\ t = [map |-> t.map, ptids |-> t.ptids, sent |-> t.sent]
  BY DEF SInv, STypes
<1>2. r = [map |-> rm, ptids |-> t.ptids, sent |-> t.sent]
  BY DEF setAuthID
<1>3. rm \in [PlayerIDs -> Player \cup {NoPlayer}]
  BY <1>1 DEF Player
<1>4. /\ rm[i] \in Player /\ rm[i].state = t.map[i].state
      /\ rm[i].ptid = t.map[i].ptid /\ rm[i].gate = t.map[i].gate
      /\ \A j \in PlayerIDs : j # i => rm[j] = t.map[j]
  BY <1>1 DEF Player
<1> HIDE DEF rm, r
<1>5. r \in STypes /\ r.map = rm /\ r.ptids = t.ptids /\ r.sent = t.sent
  BY <1>1, <1>2, <1>3 DEF STypes
<1>6. \A p \in PTIDs : t.ptids[p] # 0 => t.ptids[p] \in PlayerIDs
  BY <1>1
<1>7. SAgrees(r)
  BY <1>4, <1>5, <1>6 DEF SInv, SAgrees
<1>8. SAnswers(r)
  BY <1>4, <1>5 DEF SInv, SAnswers
<1>9. QED
  BY <1>4, <1>5, <1>7, <1>8 DEF SInv, r

\* A logoff carries a platform id.
LEMMA LogoffPtid ==
  ASSUME NEW m \in Messages, m.type = "Logoff"
  PROVE  m.ptid \in PTIDs
BY DEF Messages, LoginReq, LogoffNtf, BadMsg

\* The parts of the invariant that are not about the players: what a packet
\* handler has to show once it has installed a consistent record.
LEMMA HandlerKeeps ==
  ASSUME IInv, pc = "packets", current_list # <<>>,
         NEW t, SInv(t), Becomes(t),
         current_list' = Tail(current_list),
         UNCHANGED <<netVars, message_list, apVars, stopFlag, pc>>,
         player_idx' \in {player_idx, player_idx + 1},
         \A j \in PlayerIDs : j > player_idx' => t.map[j] = NoPlayer /\ t.sent[j] = <<>>,
         auth_seed' \in Nat, process_cnt' \in WorkerIDs,
         message_arr' \in [WorkerIDs -> Seq(APMsg)],
         UNCHANGED <<worker_list, workerUp, apRunning>>
  PROVE  IInv'
<1>1. /\ SInv(Current)'
      /\ playerMap' \in [PlayerIDs -> Player \cup {NoPlayer}]
      /\ pTIDMap' \in [PTIDs -> {0} \cup PlayerIDs]
      /\ sent' \in [PlayerIDs -> Seq({"succ", "fail", "kick"})]
  BY BecomesKeeps DEF netVars
<1>2. /\ Tail(current_list) \in Seq(Packet)
      /\ Len(Tail(current_list)) = Len(current_list) - 1
      /\ \A k \in 1..Len(Tail(current_list)) : Tail(current_list)[k] = current_list[k + 1]
      /\ player_idx + 1 \in PlayerIDs
  BY PacketHead
<1>3. /\ current_list \in Seq(Packet) /\ message_list \in Seq(Packet)
      /\ player_idx \in 0..MaxMsg /\ received \in 0..MaxMsg
      /\ Len(current_list) \in Nat /\ Len(message_list) \in Nat
  BY DEF IInv, TypeOK
<1>4. player_idx' \in 0..MaxMsg
  BY <1>2, <1>3 DEF PlayerIDs
<1>5. TypeOK'
  BY <1>1, <1>2, <1>4 DEF IInv, TypeOK, netVars, apVars
<1>6. Fresh'
  BY DEF Fresh, Becomes
<1>7. Enough'
  BY <1>2, <1>3 DEF IInv, Enough, netVars
<1>8. PacketGates'
  BY <1>2, <1>3 DEF IInv, PacketGates, netVars
<1>9. QED
  BY <1>1, <1>5, <1>6, <1>7, <1>8 DEF IInv

\* A step of the main thread on a packet keeps the invariant.
LEMMA ProcessMsgKeeps == IInv /\ processMsg => IInv'
<1> SUFFICES ASSUME IInv, processMsg PROVE IInv'
  OBVIOUS
<1> DEFINE g == Head(current_list).gate
           m == Head(current_list).msg
           i == player_idx + 1
<1>0. /\ pc = "packets" /\ current_list # <<>>
      /\ current_list' = Tail(current_list)
      /\ UNCHANGED <<netVars, message_list, apVars, stopFlag, pc>>
  BY DEF processMsg
<1>1. g \in Gates /\ m \in Messages /\ gateState[g] # "new" /\ i \in PlayerIDs
  BY <1>0, PacketHead
<1>2. /\ player_idx \in Nat /\ auth_seed \in Nat /\ process_cnt \in WorkerIDs
      /\ message_arr \in [WorkerIDs -> Seq(APMsg)]
      /\ SInv(Current) /\ Current.map = playerMap /\ Current.sent = sent
      /\ Current.ptids = pTIDMap
  BY DEF IInv, TypeOK, Current
<1>3. CASE RecvOldClient(g, m)
  <2> DEFINE s == fetchPlayer(g, m)
             t == sendGateLoginFail(s, i)
  <2>1. /\ m.type = "Login" /\ Becomes(t) /\ player_idx' = i
        /\ UNCHANGED <<auth_seed, workVars>>
    BY <1>3 DEF RecvOldClient
  <2>2. /\ SInv(s) /\ s.map[i] # NoPlayer /\ s.map[i].state = "Login"
        /\ \A j \in PlayerIDs : j > i => s.map[j] = NoPlayer /\ s.sent[j] = <<>>
    BY <1>1, <2>1, FetchKeeps
  <2> HIDE DEF s
  <2>3. /\ SInv(t) /\ t.map = [s.map EXCEPT ![i] = NoPlayer]
        /\ \A j \in PlayerIDs : j # i => t.sent[j] = s.sent[j]
    BY <1>1, <2>2, TellAndReleaseKeeps DEF sendGateLoginFail
  <2> HIDE DEF t
  <2>4. \A j \in PlayerIDs : j > i => t.map[j] = NoPlayer /\ t.sent[j] = <<>>
    BY <1>1, <2>2, <2>3 DEF SInv, STypes, PlayerIDs
  <2>5. QED
    BY <1>0, <1>2, <2>1, <2>3, <2>4, HandlerKeeps DEF workVars
<1>4. CASE RecvLogin(g, m)
  <2> DEFINE s == fetchPlayer(g, m)
             t == IF IsLocalTest THEN logIn(s, i) ELSE s
             r == setAuthID(t, i, auth_seed)
  <2>1. m.type = "Login" /\ player_idx' = i /\ HandleAPLoginReq(s, i)
    BY <1>4 DEF RecvLogin
  <2>2. /\ SInv(s) /\ s.map[i] # NoPlayer /\ s.map[i].state = "Login"
        /\ \A j \in PlayerIDs : j > i => s.map[j] = NoPlayer /\ s.sent[j] = <<>>
    BY <1>1, <2>1, FetchKeeps
  <2> HIDE DEF s
  <2>3. /\ SInv(t) /\ t.map[i] # NoPlayer
        /\ \A j \in PlayerIDs : j > i => t.map[j] = NoPlayer /\ t.sent[j] = <<>>
    <3>1. CASE ~IsLocalTest
      BY <2>2, <3>1
    <3>2. CASE IsLocalTest
      <4> DEFINE p == PtidOf[s.map[i].authen]
      <4>1. p \in PTIDs
        BY <1>1, <2>2 DEF SInv, STypes, Player
      <4>2. \A j \in PlayerIDs : j > i => j # i /\ j # s.ptids[p]
        BY <1>1, <2>2, <4>1 DEF SInv, SAgrees, PlayerIDs
      <4>3. /\ SInv(logIn(s, i)) /\ logIn(s, i).map[i] # NoPlayer
            /\ \A j \in PlayerIDs : j # i /\ j # s.ptids[p] =>
                 logIn(s, i).map[j] = s.map[j] /\ logIn(s, i).sent[j] = s.sent[j]
        BY <1>1, <2>2, LogInKeeps
      <4> HIDE DEF p
      <4>4. QED
        BY <2>2, <3>2, <4>2, <4>3
    <3>3. QED
      BY <3>1, <3>2
  <2> HIDE DEF t
  <2>4. CASE OpenWhitePt
    <3>1. Becomes(t) /\ UNCHANGED <<auth_seed, workVars>>
      BY <2>1, <2>4 DEF HandleAPLoginReq, t
    <3>2. QED
      BY <1>0, <1>2, <2>1, <2>3, <3>1, HandlerKeeps DEF workVars
  <2>5. CASE ~OpenWhitePt
    <3>1. Becomes(r) /\ checkApLoginData(i)
      BY <2>1, <2>5 DEF HandleAPLoginReq, t
    <3>2. /\ SInv(r) /\ r.sent = t.sent
          /\ \A j \in PlayerIDs : j # i => r.map[j] = t.map[j]
      BY <1>1, <1>2, <2>3, SetAuthKeeps
    <3> HIDE DEF r
    <3>3. \A j \in PlayerIDs : j > i => r.map[j] = NoPlayer /\ r.sent[j] = <<>>
      BY <1>1, <2>3, <3>2 DEF PlayerIDs
    <3>4. /\ auth_seed' \in Nat /\ process_cnt' \in WorkerIDs
           /\ UNCHANGED <<worker_list, workerUp, apRunning>>
      BY <1>2, <3>1 DEF checkApLoginData, WorkerIDs
    <3>5. message_arr' \in [WorkerIDs -> Seq(APMsg)]
      <4> DEFINE a == [handle |-> i, auth |-> auth_seed, authen |-> NoAuthen]
                 am == [auth |-> a, result |-> "success"]
      <4>1. am \in APMsg
        BY <1>1, <1>2 DEF APMsg, AuthInfo
      <4>2. message_arr' = [message_arr EXCEPT ![process_cnt] = Append(message_arr[process_cnt], am)]
        BY <3>1 DEF checkApLoginData
      <4> HIDE DEF am
      <4>3. Append(message_arr[process_cnt], am) \in Seq(APMsg)
        BY <1>2, <4>1
      <4>4. QED
        BY <1>2, <4>2, <4>3
    <3>6. QED
      BY <1>0, <2>1, <3>1, <3>2, <3>3, <3>4, <3>5, HandlerKeeps
  <2>6. QED
    BY <2>4, <2>5
<1>5. CASE OnLogoffNtf(m)
  <2> DEFINE o == pTIDMap[m.ptid]
             t == IF o # 0 /\ playerMap[o] # NoPlayer
                  THEN changeState(Current, o, "Logout") ELSE Current
  <2>1. Becomes(t) /\ UNCHANGED <<player_idx, auth_seed, workVars>> /\ m.type = "Logoff"
    BY <1>5 DEF OnLogoffNtf
  <2>2. m.ptid \in PTIDs
    BY <1>1, <2>1, LogoffPtid
  <2>3. /\ SInv(t)
        /\ \A j \in PlayerIDs : j > player_idx => t.map[j] = NoPlayer /\ t.sent[j] = <<>>
    <3>1. CASE ~(o # 0 /\ playerMap[o] # NoPlayer)
      BY <1>2, <3>1 DEF IInv, Fresh
    <3>2. CASE o # 0 /\ playerMap[o] # NoPlayer
      <4>1. o \in PlayerIDs /\ playerMap[o] \in Player
        BY <2>2, <3>2 DEF IInv, TypeOK
      <4>2. t = releasePlayer(Current, o)
        BY <1>2, <3>2, <4>1 DEF changeState, Player
      <4> HIDE DEF o, t
      <4>3. SInv(t)
        BY <1>2, <3>2, <4>1, <4>2, ReleaseKeeps
      <4>4. t.sent = sent /\ t.map = [playerMap EXCEPT ![o] = NoPlayer]
        BY <1>2, <3>2, <4>1, <4>2, ReleaseFacts DEF SInv
      <4>5. \A j \in PlayerIDs : j > player_idx => t.map[j] = NoPlayer /\ t.sent[j] = <<>>
        BY <4>4 DEF IInv, Fresh, TypeOK
      <4>6. QED
        BY <4>3, <4>5
    <3>3. QED
      BY <3>1, <3>2
  <2> HIDE DEF t
  <2>4. QED
    BY <1>0, <1>2, <2>1, <2>3, HandlerKeeps DEF workVars
<1>6. CASE DropBadMsg(m)
  <2>1. Becomes(Current) /\ UNCHANGED <<player_idx, auth_seed, workVars>>
    BY <1>2, <1>6 DEF DropBadMsg, playerVars, Becomes
  <2>2. \A j \in PlayerIDs : j > player_idx => Current.map[j] = NoPlayer /\ Current.sent[j] = <<>>
    BY <1>2 DEF IInv, Fresh
  <2>3. QED
    BY <1>0, <1>2, <2>1, <2>2, HandlerKeeps DEF workVars
<1>7. QED
  BY <1>3, <1>4, <1>5, <1>6 DEF processMsg

\* What a result of the account check does to a consistent record: it stays
\* consistent, no unused id is used, and a player that was online is there
\* afterwards or has lost its platform id to another and was told.
LEMMA ApResultFacts ==
  ASSUME NEW s, SInv(s), NEW m \in APMsg
  PROVE  LET t == onAPAuthenResult(s, m) IN
         /\ SInv(t)
         /\ \A j \in PlayerIDs : s.map[j] = NoPlayer =>
              t.map[j] = NoPlayer /\ t.sent[j] = s.sent[j]
         /\ \A j \in PlayerIDs : s.map[j] # NoPlayer /\ s.map[j].state = "Online" =>
              \/ t.map[j] = s.map[j]
              \/ /\ t.ptids[s.map[j].ptid] \notin {0, j}
                 /\ Up(s.map[j].gate) => t.sent[j] = Append(s.sent[j], "kick")
<1> DEFINE i == m.auth.handle
           t == onAPAuthenResult(s, m)
<1>0. i \in PlayerIDs /\ s \in STypes
  BY DEF APMsg, AuthInfo, SInv
<1>1. CASE t = s
  BY <1>1
<1>2. CASE t # s
  <2>1. /\ s.map[i] # NoPlayer /\ s.map[i].state # "Online"
        /\ t = LoginStateOnEvent(s, i, m)
    BY <1>2 DEF onAPAuthenResult
  <2>2. s.map[i] \in Player /\ s.map[i].state = "Login"
    BY <1>0, <2>1 DEF STypes, Player
  <2>3. CASE m.result = "error"
    <3>1. t = changeState(Send(s, i, "fail"), i, "Logout")
      BY <2>1, <2>3 DEF LoginStateOnEvent, sendGateLoginFail
    <3> HIDE DEF t, i
    <3>2. /\ SInv(t) /\ t.map = [s.map EXCEPT ![i] = NoPlayer]
          /\ \A j \in PlayerIDs : j # i => t.sent[j] = s.sent[j]
      BY <1>0, <2>1, <2>2, <3>1, TellAndReleaseKeeps
    <3>3. \A j \in PlayerIDs : j # i => t.map[j] = s.map[j]
      BY <1>0, <3>2 DEF STypes
    <3>4. QED
      BY <2>1, <2>2, <3>2, <3>3 DEF t
  <2>4. CASE m.result # "error"
    <3> DEFINE p == PtidOf[s.map[i].authen]
    <3>1. t = logIn(s, i)
      BY <1>2, <2>1, <2>4 DEF LoginStateOnEvent
    <3> HIDE DEF t, i
    <3>2. /\ SInv(t) /\ t.ptids[p] = i
          /\ \A j \in PlayerIDs : j # i /\ j # s.ptids[p] =>
               t.map[j] = s.map[j] /\ t.sent[j] = s.sent[j]
          /\ \A j \in PlayerIDs : j = s.ptids[p] /\ Up(s.map[j].gate) =>
               t.sent[j] = Append(s.sent[j], "kick")
      BY <1>0, <2>1, <2>2, <3>1, LogInKeeps
    <3>3. p \in PTIDs
      BY <2>2 DEF Player
    <3> HIDE DEF p
    <3>4. \A j \in PlayerIDs : j = s.ptids[p] =>
            s.map[j] # NoPlayer /\ s.map[j].ptid = p /\ j # i
      BY <1>0, <2>1, <3>3 DEF SInv, SAgrees, PlayerIDs
    <3>5. \A j \in PlayerIDs : s.map[j] = NoPlayer =>
              t.map[j] = NoPlayer /\ t.sent[j] = s.sent[j]
      BY <2>1, <3>2, <3>4
    <3>6. ASSUME NEW j \in PlayerIDs, s.map[j] # NoPlayer, s.map[j].state = "Online"
          PROVE  \/ t.map[j] = s.map[j]
                 \/ /\ t.ptids[s.map[j].ptid] \notin {0, j}
                    /\ Up(s.map[j].gate) => t.sent[j] = Append(s.sent[j], "kick")
      <4>1. CASE j # s.ptids[p]
        BY <2>1, <3>2, <3>6, <4>1
      <4>2. CASE j = s.ptids[p]
        <5>1. s.map[j].ptid = p /\ j # i /\ i # 0
          BY <1>0, <3>4, <4>2 DEF PlayerIDs
        <5>2. t.ptids[s.map[j].ptid] \notin {0, j}
          BY <3>2, <5>1
        <5>3. Up(s.map[j].gate) => t.sent[j] = Append(s.sent[j], "kick")
          BY <3>2, <4>2
        <5>4. QED
          BY <5>2, <5>3
      <4>3. QED
        BY <4>1, <4>2
    <3>7. QED
      BY <3>2, <3>5, <3>6 DEF t
  <2>5. QED
    BY <2>3, <2>4
<1>3. QED
  BY <1>1, <1>2

\* A step of the main thread on a result of the account check.
LEMMA ProcessApMsgKeeps == ASSUME IInv, NEW late \in BOOLEAN, processApMsg(late) PROVE IInv'
<1> DEFINE m == Head(cur_list)
           t == onAPAuthenResult(Current, m)
<1>1. cur_list \in Seq(APMsg) /\ cur_list # <<>> /\ apg_list \in Seq(APMsg)
  BY DEF IInv, TypeOK, processApMsg
<1>2. m \in APMsg /\ Tail(cur_list) \in Seq(APMsg)
  BY <1>1, HeadTailProperties
<1>3. /\ Becomes(t) /\ cur_list' = Tail(cur_list)
      /\ UNCHANGED <<netVars, packetVars, player_idx, auth_seed, workVars, stopFlag, pc>>
  BY DEF processApMsg
<1>4. apg_list' \in Seq(APMsg)
  <2>1. [m EXCEPT !.result = "error"] \in APMsg
    BY <1>2 DEF APMsg
  <2>2. apg_list' = apg_list \/ apg_list' = Append(apg_list, [m EXCEPT !.result = "error"])
    BY DEF processApMsg
  <2> DEFINE e == [m EXCEPT !.result = "error"]
  <2> HIDE DEF m, e
  <2>3. e \in APMsg /\ (apg_list' = apg_list \/ apg_list' = Append(apg_list, e))
    BY <2>1, <2>2 DEF e
  <2>4. QED
    BY <1>1, <2>3
<1>5. SInv(Current) /\ Current.map = playerMap /\ Current.sent = sent
  BY DEF IInv, Current
<1> HIDE DEF m
<1>6. /\ SInv(t)
      /\ \A j \in PlayerIDs : playerMap[j] = NoPlayer =>
              t.map[j] = NoPlayer /\ t.sent[j] = sent[j]
  BY <1>2, <1>5, ApResultFacts
<1> HIDE DEF t
<1>7. /\ SInv(Current)'
      /\ playerMap' \in [PlayerIDs -> Player \cup {NoPlayer}]
      /\ pTIDMap' \in [PTIDs -> {0} \cup PlayerIDs]
      /\ sent' \in [PlayerIDs -> Seq({"succ", "fail", "kick"})]
  BY <1>3, <1>6, BecomesKeeps DEF netVars
<1>8. TypeOK'
  BY <1>2, <1>3, <1>4, <1>7 DEF IInv, TypeOK, netVars, packetVars, workVars
<1>9. Fresh'
  BY <1>3, <1>6 DEF IInv, Fresh, Becomes
<1>10. Enough' /\ PacketGates'
  BY <1>3 DEF IInv, Enough, PacketGates, netVars, packetVars
<1>11. QED
  BY <1>7, <1>8, <1>9, <1>10 DEF IInv

\* A step that changes neither the players nor the gates nor the packets.
LEMMA OtherKeeps ==
  ASSUME IInv, UNCHANGED <<netVars, packetVars, playerVars>>, TypeOK'
  PROVE  IInv'
<1>1. SInv(Current)'
  BY DEF IInv, SInv, STypes, SAgrees, SAnswers, GatesTyped, Current, netVars, playerVars
<1>2. Fresh' /\ Enough' /\ PacketGates'
  BY DEF IInv, Fresh, Enough, PacketGates, netVars, packetVars, playerVars
<1>3. QED
  BY <1>1, <1>2 DEF IInv

\* Every step keeps the invariant.
LEMMA NextIInv == IInv /\ [Next]_vars => IInv'
<1> SUFFICES ASSUME IInv, [Next]_vars PROVE IInv'
  OBVIOUS
<1>0. TypeOK /\ SInv(Current) /\ Fresh /\ Enough /\ PacketGates
  BY DEF IInv
<1>1. CASE PacketsSwap
  <2>1. TypeOK'
    BY <1>0, <1>1 DEF PacketsSwap, TypeOK, netVars, playerVars, workVars, apVars
  <2>2. SInv(Current)' /\ Fresh'
    BY <1>0, <1>1 DEF PacketsSwap, SInv, STypes, SAgrees, SAnswers, GatesTyped,
                      Current, Fresh, netVars, playerVars
  <2>3. Len(message_list) \in Nat /\ Len(current_list) \in Nat /\ Len(<<>>) = 0
    BY <1>0 DEF TypeOK
  <2>4. Enough' /\ PacketGates'
    BY <1>0, <1>1, <2>3 DEF PacketsSwap, Enough, PacketGates, TypeOK, netVars,
       playerVars
  <2>5. QED
    BY <2>1, <2>2, <2>4 DEF IInv
<1>2. CASE processMsg
  BY <1>2, ProcessMsgKeeps
<1>3. CASE ApSwap
  <2>1. TypeOK'
    BY <1>0, <1>3 DEF ApSwap, TypeOK, netVars, packetVars, playerVars, workVars
  <2>2. QED
    BY <1>3, <2>1, OtherKeeps DEF ApSwap
<1>4. ASSUME NEW late \in BOOLEAN, processApMsg(late) PROVE IInv'
  BY <1>4, ProcessApMsgKeeps
<1>5. CASE LoopEnd
  <2>1. TypeOK'
    BY <1>0, <1>5 DEF LoopEnd, TypeOK, netVars, packetVars, playerVars, workVars, apVars
  <2>2. QED
    BY <1>5, <2>1, OtherKeeps DEF LoopEnd
<1>6. CASE StopHandler
  <2>1. apRunning' \in BOOLEAN
    BY <1>6 DEF StopHandler
  <2>2. message_arr' \in [WorkerIDs -> Seq(APMsg)]
    <3>1. <<>> \in Seq(APMsg)
      OBVIOUS
    <3>2. QED
      BY <1>6, <3>1 DEF StopHandler
  <2>3. TypeOK'
    BY <1>0, <1>6, <2>1, <2>2 DEF StopHandler, TypeOK, netVars, packetVars,
       playerVars, apVars
  <2>4. QED
    BY <1>6, <2>3, OtherKeeps DEF StopHandler
<1>7. ASSUME NEW w \in WorkerIDs, WorkerThread(w) PROVE IInv'
  <2>1. CASE WorkerSwap(w)
    <3>1. TypeOK'
      BY <1>0, <2>1 DEF WorkerSwap, TypeOK, netVars, packetVars, playerVars, apVars
    <3>2. QED
      BY <2>1, <3>1, OtherKeeps DEF WorkerSwap
  <2>2. ASSUME NEW result \in {"success", "error"}, onProcApMsg(w, result) PROVE IInv'
    <3> DEFINE e == [Head(worker_list[w]) EXCEPT !.result = result]
    <3>1. worker_list[w] \in Seq(APMsg) /\ worker_list[w] # <<>> /\ apg_list \in Seq(APMsg)
      BY <1>0, <2>2 DEF onProcApMsg, TypeOK
    <3>2. Head(worker_list[w]) \in APMsg /\ Tail(worker_list[w]) \in Seq(APMsg)
      BY <3>1, HeadTailProperties
    <3>3. e \in APMsg
      BY <3>2 DEF APMsg
    <3>4. apg_list' = apg_list \/ apg_list' = Append(apg_list, e)
      BY <2>2 DEF onProcApMsg
    <3> HIDE DEF e
    <3>5. apg_list' \in Seq(APMsg)
      BY <3>1, <3>3, <3>4
    <3>6. worker_list' \in [WorkerIDs -> Seq(APMsg)]
      BY <1>0, <2>2, <3>2 DEF onProcApMsg, TypeOK
    <3>7. TypeOK'
      BY <1>0, <2>2, <3>5, <3>6 DEF onProcApMsg, TypeOK, netVars, packetVars, playerVars
    <3>8. QED
      BY <2>2, <3>7, OtherKeeps DEF onProcApMsg
  <2>3. CASE WorkerExit(w)
    <3>1. TypeOK'
      BY <1>0, <2>3 DEF WorkerExit, TypeOK, netVars, packetVars, playerVars, apVars
    <3>2. QED
      BY <2>3, <3>1, OtherKeeps DEF WorkerExit
  <2>4. QED
    BY <1>7, <2>1, <2>2, <2>3 DEF WorkerThread
<1>8. CASE Signal
  <2>1. stopFlag' \in BOOLEAN
    BY <1>8 DEF Signal
  <2>2. TypeOK'
    BY <1>0, <1>8, <2>1 DEF Signal, TypeOK, netVars, packetVars, playerVars, workVars,
       apVars
  <2>3. QED
    BY <1>8, <2>2, OtherKeeps DEF Signal
<1>9. ASSUME gateState' \in [Gates -> {"new", "up", "down"}],
             \A g \in Gates : gateState[g] # "new" => gateState'[g] # "new",
             \A g \in Gates : gateState[g] = "down" => gateState'[g] = "down",
             UNCHANGED <<received, packetVars, playerVars, auth_seed, workVars,
                         apVars, stopFlag>>,
             pc' \in {pc, "stopped"}
      PROVE  IInv'
  <2>1. TypeOK'
    BY <1>0, <1>9 DEF TypeOK, packetVars, playerVars, workVars, apVars
  <2>2. Current' = Current /\ Current.map = playerMap
    BY <1>9 DEF Current, playerVars
  <2>3. \A i \in PlayerIDs : playerMap[i] # NoPlayer => playerMap[i].gate \in Gates
    BY <1>0 DEF TypeOK, Player
  <2>4. SAnswers(Current)'
    BY <1>0, <1>9, <2>2, <2>3 DEF SInv, SAnswers
  <2>5. SInv(Current)'
    BY <1>0, <1>9, <2>2, <2>4 DEF SInv, STypes, SAgrees, GatesTyped
  <2>6. Fresh' /\ Enough'
    BY <1>0, <1>9 DEF Fresh, Enough, packetVars, playerVars
  <2>7. /\ \A k \in 1..Len(message_list) : message_list[k].gate \in Gates
        /\ \A k \in 1..Len(current_list) : current_list[k].gate \in Gates
    <3>1. message_list \in Seq(Packet) /\ current_list \in Seq(Packet)
      BY <1>0 DEF TypeOK
    <3>2. /\ \A k \in 1..Len(message_list) : message_list[k] \in Packet
          /\ \A k \in 1..Len(current_list) : current_list[k] \in Packet
      BY <3>1
    <3>3. QED
      BY <3>2 DEF Packet
  <2>8. PacketGates'
    BY <1>0, <1>9, <2>7 DEF PacketGates, packetVars
  <2>9. QED
    BY <2>1, <2>5, <2>6, <2>8 DEF IInv
<1>10. CASE StopServer
  <2>1. gateState' = [g \in Gates |-> "down"]
    BY <1>10 DEF StopServer
  <2>2. QED
    BY <1>9, <1>10, <2>1 DEF StopServer
<1>11. ASSUME NEW g \in Gates, GateConnect(g) PROVE IInv'
  BY <1>0, <1>9, <1>11 DEF GateConnect, TypeOK
<1>12. ASSUME NEW g \in Gates, GateDisconnect(g) PROVE IInv'
  BY <1>0, <1>9, <1>12 DEF GateDisconnect, TypeOK
<1>13. ASSUME NEW g \in Gates, NEW m \in Messages, onRecvData(g, m) PROVE IInv'
  <2> DEFINE e == [gate |-> g, msg |-> m]
  <2>1. /\ received < MaxMsg /\ received' = received + 1 /\ gateState[g] = "up"
        /\ message_list' = Append(message_list, e)
        /\ UNCHANGED <<gateState, current_list, playerVars, auth_seed, workVars,
                       apVars, stopFlag, pc>>
    BY <1>13 DEF onRecvData, Up
  <2>2. e \in Packet /\ e.gate = g
    BY DEF Packet
  <2> HIDE DEF e
  <2>3. message_list \in Seq(Packet) /\ received \in 0..MaxMsg
    BY <1>0 DEF TypeOK
  <2>4. /\ Append(message_list, e) \in Seq(Packet)
        /\ Len(Append(message_list, e)) = Len(message_list) + 1
        /\ \A k \in 1..Len(message_list) : Append(message_list, e)[k] = message_list[k]
        /\ Append(message_list, e)[Len(message_list) + 1] = e
    BY <2>2, <2>3, AppendProperties
  <2>5. TypeOK'
    BY <1>0, <2>1, <2>3, <2>4 DEF TypeOK, playerVars, workVars, apVars
  <2>6. SInv(Current)' /\ Fresh'
    BY <1>0, <2>1 DEF SInv, STypes, SAgrees, SAnswers, GatesTyped, Current, Fresh,
       playerVars
  <2>7. Enough'
    <3>1. /\ Len(message_list) \in Nat /\ Len(current_list) \in Nat
          /\ player_idx \in Nat /\ received \in Nat
      BY <1>0, <2>3 DEF TypeOK
    <3>2. QED
      BY <1>0, <2>1, <2>4, <3>1 DEF Enough, playerVars
  <2>8. PacketGates'
    <3>1. Len(message_list) \in Nat
      BY <2>3
    <3>2. QED
      BY <1>0, <2>1, <2>2, <2>4, <3>1 DEF PacketGates
  <2>9. QED
    BY <2>5, <2>6, <2>7, <2>8 DEF IInv
<1>14. CASE UNCHANGED vars
  <2>1. TypeOK'
    BY <1>0, <1>14 DEF vars, TypeOK, netVars, packetVars, playerVars, workVars, apVars
  <2>2. QED
    BY <1>14, <2>1, OtherKeeps DEF vars
<1>15. QED
  BY <1>1, <1>2, <1>3, <1>4, <1>5, <1>6, <1>7, <1>8, <1>10, <1>11, <1>12, <1>13, <1>14
     DEF Next, MainThread, Environment

\* The types of all variables are kept, for every value of the constants.
THEOREM TypeCorrect == Spec => []TypeOK
<1>1. IInv => TypeOK
  BY DEF IInv
<1>2. QED
  BY <1>1, InitIInv, NextIInv, PTL DEF Spec

\* The table of players and the index of platform ids always agree, so no
\* platform id is online twice and the handlers reach the player they mean.
THEOREM PtidMapCorrect == Spec => []PtidMapAgrees
<1>1. IInv => PtidMapAgrees
  BY DEF IInv, SInv, SAgrees, Current, PtidMapAgrees
<1>2. QED
  BY <1>1, InitIInv, NextIInv, PTL DEF Spec

\* A login request gets one answer at most, a kick only after a success, and
\* nothing after a failure or a kick.
THEOREM AnswersCorrect == Spec => []AnswerDiscipline
<1>1. IInv => AnswerDiscipline
  <2> SUFFICES ASSUME IInv, NEW i \in PlayerIDs
               PROVE  /\ sent[i] \in {<<>>, <<"succ">>, <<"fail">>, <<"succ", "kick">>}
                      /\ sent[i] \in {<<"fail">>, <<"succ", "kick">>} => playerMap[i] = NoPlayer
    BY DEF AnswerDiscipline
  <2>1. SAnswers(Current) /\ Current.sent = sent /\ Current.map = playerMap
    BY DEF IInv, SInv, Current
  <2>2. playerMap[i] = NoPlayer \/ playerMap[i].state \in {"Login", "Online"}
    BY DEF IInv, TypeOK, Player
  <2>3. sent[i] \in {<<>>, <<"succ">>, <<"fail">>, <<"succ", "kick">>}
    BY <2>1 DEF SAnswers
  <2>4. playerMap[i] # NoPlayer => sent[i] \in {<<>>, <<"succ">>}
    BY <2>1, <2>2 DEF SAnswers
  <2>5. <<"fail">> \notin {<<>>, <<"succ">>} /\ <<"succ", "kick">> \notin {<<>>, <<"succ">>}
    OBVIOUS
  <2>6. QED
    BY <2>3, <2>4, <2>5
<1>2. QED
  BY <1>1, InitIInv, NextIInv, PTL DEF Spec

\* No result of the account check, however late, logs out a player that is
\* online, unless another one takes over its platform id.
THEOREM ApResultsCorrect == Spec => ApResultSparesOnline
<1> DEFINE A == (\E late \in BOOLEAN : processApMsg(late)) =>
       \A i \in PlayerIDs :
         playerMap[i] # NoPlayer /\ playerMap[i].state = "Online" =>
           \/ playerMap'[i] = playerMap[i]
           \/ /\ pTIDMap'[playerMap[i].ptid] \notin {0, i}
              /\ Up(playerMap[i].gate) => sent'[i] = Append(sent[i], "kick")
<1>1. IInv /\ [Next]_vars => [A]_vars
  <2> SUFFICES ASSUME IInv, NEW late \in BOOLEAN, processApMsg(late)
               PROVE  A
    OBVIOUS
  <2> DEFINE t == onAPAuthenResult(Current, Head(cur_list))
  <2>1. cur_list \in Seq(APMsg) /\ cur_list # <<>> /\ Becomes(t)
    BY DEF IInv, TypeOK, processApMsg
  <2>2. Head(cur_list) \in APMsg
    BY <2>1, HeadTailProperties
  <2>3. /\ SInv(Current) /\ Current.map = playerMap /\ Current.sent = sent
        /\ Current.ptids = pTIDMap
    BY DEF IInv, Current
  <2>4. \A j \in PlayerIDs : playerMap[j] # NoPlayer /\ playerMap[j].state = "Online" =>
          \/ t.map[j] = playerMap[j]
          \/ /\ t.ptids[playerMap[j].ptid] \notin {0, j}
             /\ Up(playerMap[j].gate) => t.sent[j] = Append(sent[j], "kick")
    BY <2>2, <2>3, ApResultFacts
  <2> HIDE DEF t
  <2>5. QED
    BY <2>1, <2>4 DEF Becomes
<1>2. QED
  BY <1>1, InitIInv, NextIInv, PTL DEF Spec, ApResultSparesOnline

-----------------------------------------------------------------------------
(* The refinement: every step of the threads is one step of                *)
(* LoginDirectory, or none.  What a step does to the players, and which    *)
(* step of the directory that is.                                          *)

\* The request i is one the directory can decide: the next one to be taken, or
\* one that waits in Login.
Taken(i) ==
  \/ i = player_idx + 1 /\ player_idx' = i
  \/ /\ player_idx' = player_idx
     /\ playerMap[i] # NoPlayer /\ playerMap[i].state = "Login"

\* No player but i changes.
OthersStay(i) == \A j \in PlayerIDs : j # i => playerMap'[j] = playerMap[j]

\* A request that is taken is open, and taking it leaves the others as they were.
LEMMA TakenIsOpen ==
  ASSUME IInv, NEW i \in PlayerIDs, Taken(i)
  PROVE  /\ Directory!Open(i)
         /\ ~(i > player_idx')
         /\ \A j \in PlayerIDs : j # i => (j > player_idx' <=> j > player_idx)
<1>1. player_idx \in Nat /\ PlayerIDs \subseteq Nat
  BY DEF IInv, TypeOK, PlayerIDs
<1>2. CASE i = player_idx + 1 /\ player_idx' = i
  <2>1. StatusOf(i) = "none" /\ \A j \in PlayerIDs : j < i => StatusOf(j) # "none"
    BY <1>1, <1>2 DEF StatusOf
  <2>2. QED
    BY <1>1, <1>2, <2>1 DEF Directory!Open
<1>3. CASE /\ player_idx' = player_idx
           /\ playerMap[i] # NoPlayer /\ playerMap[i].state = "Login"
  <2>1. ~(i > player_idx)
    BY <1>3 DEF IInv, Fresh
  <2>2. StatusOf(i) = "pending"
    BY <1>3, <2>1 DEF StatusOf
  <2>3. QED
    BY <1>3, <2>1, <2>2 DEF Directory!Open
<1>4. QED
  BY <1>2, <1>3 DEF Taken

\* A player made in Login is a request that waits.
LEMMA AsAsk ==
  ASSUME IInv, NEW i \in PlayerIDs, Taken(i), OthersStay(i), pTIDMap' = pTIDMap,
         playerMap'[i] # NoPlayer, playerMap'[i].state = "Login"
  PROVE  Directory!Ask(i)
<1>1. \A j \in PlayerIDs : StatusOf(j)' = IF j = i THEN "pending" ELSE StatusOf(j)
  BY TakenIsOpen DEF StatusOf, OthersStay
<1>2. [j \in PlayerIDs |-> StatusOf(j)]'
        = [[j \in PlayerIDs |-> StatusOf(j)] EXCEPT ![i] = "pending"]
  BY <1>1
<1>3. QED
  BY <1>2, TakenIsOpen DEF Directory!Ask

\* A player that leaves from Login is a request that is turned down.
LEMMA AsRefuse ==
  ASSUME IInv, NEW i \in PlayerIDs, Taken(i), OthersStay(i), pTIDMap' = pTIDMap,
         playerMap'[i] = NoPlayer
  PROVE  Directory!Refuse(i)
<1>1. \A j \in PlayerIDs : StatusOf(j)' = IF j = i THEN "ended" ELSE StatusOf(j)
  BY TakenIsOpen DEF StatusOf, OthersStay
<1>2. [j \in PlayerIDs |-> StatusOf(j)]'
        = [[j \in PlayerIDs |-> StatusOf(j)] EXCEPT ![i] = "ended"]
  BY <1>1
<1>3. QED
  BY <1>2, TakenIsOpen DEF Directory!Refuse

\* A player that goes online while the holder of its platform id goes.
LEMMA AsLogIn ==
  ASSUME IInv, NEW i \in PlayerIDs, NEW p \in PTIDs, Taken(i),
         playerMap'[i] # NoPlayer, playerMap'[i].state = "Online",
         \A j \in PlayerIDs : j # i =>
           playerMap'[j] = IF j = pTIDMap[p] THEN NoPlayer ELSE playerMap[j],
         pTIDMap' = [pTIDMap EXCEPT ![p] = i]
  PROVE  Directory!LogIn(i, p)
<1>1. \A j \in PlayerIDs : j = pTIDMap[p] => ~(j > player_idx)
  BY DEF IInv, Fresh, SInv, SAgrees, Current, PlayerIDs
<1>2. \A j \in PlayerIDs : StatusOf(j)' =
        IF j = i THEN "online" ELSE IF j = pTIDMap[p] THEN "ended" ELSE StatusOf(j)
  BY <1>1, TakenIsOpen DEF StatusOf
<1>3. [j \in PlayerIDs |-> StatusOf(j)]' =
        [j \in PlayerIDs |->
           IF j = i THEN "online"
           ELSE IF j = pTIDMap[p] THEN "ended" ELSE [k \in PlayerIDs |-> StatusOf(k)][j]]
  BY <1>2
<1>4. QED
  BY <1>3, TakenIsOpen DEF Directory!LogIn

\* A holder that leaves.
LEMMA AsLogoff ==
  ASSUME IInv, NEW p \in PTIDs, pTIDMap[p] # 0, player_idx' = player_idx,
         playerMap' = [playerMap EXCEPT ![pTIDMap[p]] = NoPlayer],
         pTIDMap' = [pTIDMap EXCEPT ![p] = 0]
  PROVE  Directory!Logoff(p)
<1> DEFINE i == pTIDMap[p]
<1>1. i \in PlayerIDs /\ ~(i > player_idx)
  BY DEF IInv, TypeOK, Fresh, SInv, SAgrees, Current
<1>2. playerMap'[i] = NoPlayer /\ OthersStay(i)
  BY <1>1 DEF IInv, TypeOK, OthersStay
<1>3. \A j \in PlayerIDs : StatusOf(j)' = IF j = i THEN "ended" ELSE StatusOf(j)
  BY <1>1, <1>2 DEF StatusOf, OthersStay
<1>4. [j \in PlayerIDs |-> StatusOf(j)]'
        = [[j \in PlayerIDs |-> StatusOf(j)] EXCEPT ![i] = "ended"]
  BY <1>1, <1>3
<1>5. QED
  BY <1>4 DEF Directory!Logoff

\* A step that leaves the players alone is no step of the directory.
LEMMA AsNothing ==
  ASSUME player_idx' = player_idx, playerMap' = playerMap, pTIDMap' = pTIDMap
  PROVE  UNCHANGED Directory!vars
BY DEF Directory!vars, StatusOf

-----------------------------------------------------------------------------
(* The operations on the record of the players.                            *)

\* Failing a player that is in Login removes it and no platform id.
LEMMA FailDecides ==
  ASSUME NEW s, SInv(s), NEW i \in PlayerIDs, s.map[i] # NoPlayer,
         s.map[i].state = "Login"
  PROVE  LET r == sendGateLoginFail(s, i) IN
         /\ r.ptids = s.ptids /\ r.map[i] = NoPlayer
         /\ \A j \in PlayerIDs : j # i => r.map[j] = s.map[j]
<1> DEFINE r == sendGateLoginFail(s, i)
<1>1. /\ SInv(r) /\ r.map = [s.map EXCEPT ![i] = NoPlayer]
      /\ \A p \in PTIDs : r.ptids[p] = IF p = s.map[i].ptid THEN 0 ELSE s.ptids[p]
  BY TellAndReleaseKeeps DEF sendGateLoginFail
<1> HIDE DEF r
<1>2. s.map[i].ptid = NoPTID
  BY DEF SInv, SAnswers
<1>3. s.ptids \in [PTIDs -> {0} \cup PlayerIDs] /\ r.ptids \in [PTIDs -> {0} \cup PlayerIDs]
  BY <1>1 DEF SInv, STypes
<1>4. r.ptids = s.ptids
  BY <1>1, <1>2, <1>3
<1>5. r.map[i] = NoPlayer /\ \A j \in PlayerIDs : j # i => r.map[j] = s.map[j]
  BY <1>1 DEF SInv, STypes
<1>6. QED
  BY <1>4, <1>5 DEF r

\* Logging in a player that is in Login hands it the platform id and removes
\* the holder, and nobody else.
LEMMA LogInDecides ==
  ASSUME NEW s, SInv(s), NEW i \in PlayerIDs, s.map[i] # NoPlayer,
         s.map[i].state = "Login"
  PROVE  LET r == logIn(s, i)
             p == PtidOf[s.map[i].authen]
         IN  /\ p \in PTIDs /\ SInv(r)
             /\ r.map[i] # NoPlayer /\ r.map[i].state = "Online"
             /\ r.ptids = [s.ptids EXCEPT ![p] = i]
             /\ \A j \in PlayerIDs : j # i =>
                  r.map[j] = IF j = s.ptids[p] THEN NoPlayer ELSE s.map[j]
<1> DEFINE r == logIn(s, i)
           p == PtidOf[s.map[i].authen]
<1>0. p \in PTIDs
  BY DEF SInv, STypes, Player
<1>1. /\ SInv(r) /\ r.map[i] # NoPlayer /\ r.map[i].state = "Online"
      /\ r.ptids[p] = i
      /\ \A j \in PlayerIDs : j # i /\ j # s.ptids[p] => r.map[j] = s.map[j]
      /\ \A j \in PlayerIDs : j = s.ptids[p] => r.map[j] = NoPlayer
      /\ \A q \in PTIDs : q # p => r.ptids[q] = s.ptids[q]
  BY LogInKeeps
<1> HIDE DEF r, p
<1>2. s.ptids \in [PTIDs -> {0} \cup PlayerIDs] /\ r.ptids \in [PTIDs -> {0} \cup PlayerIDs]
  BY <1>1 DEF SInv, STypes
<1>3. r.ptids = [s.ptids EXCEPT ![p] = i]
  BY <1>0, <1>1, <1>2
<1>4. QED
  BY <1>0, <1>1, <1>3 DEF r, p

-----------------------------------------------------------------------------
(* The steps that change a player.                                         *)

\* Handling a packet is a step of the directory or none: an old client is
\* refused, a login is asked for or, in a local test, done, a logoff ends the
\* holder's stay, and nothing else happens.
LEMMA PacketStep ==
  ASSUME IInv, processMsg
  PROVE  Directory!Next \/ UNCHANGED Directory!vars
<1> DEFINE g == Head(current_list).gate
           m == Head(current_list).msg
           i == player_idx + 1
           s == fetchPlayer(g, m)
<1>1. g \in Gates /\ m \in Messages /\ gateState[g] # "new" /\ i \in PlayerIDs
  BY PacketHead DEF processMsg
<1>2. /\ SInv(Current) /\ Current.map = playerMap /\ Current.ptids = pTIDMap
      /\ playerMap \in [PlayerIDs -> Player \cup {NoPlayer}]
      /\ pTIDMap \in [PTIDs -> {0} \cup PlayerIDs] /\ auth_seed \in Nat
  BY DEF IInv, TypeOK, Current
<1>3. m.type = "Login" =>
        /\ SInv(s) /\ s.map[i] # NoPlayer /\ s.map[i].state = "Login" /\ s.ptids = pTIDMap
        /\ \A j \in PlayerIDs : j # i => s.map[j] = playerMap[j]
  BY <1>1, FetchKeeps
<1>4. CASE RecvOldClient(g, m)
  <2> DEFINE t == sendGateLoginFail(s, i)
  <2>1. m.type = "Login" /\ player_idx' = i /\ playerMap' = t.map /\ pTIDMap' = t.ptids
    BY <1>4 DEF RecvOldClient, Becomes
  <2> HIDE DEF s, m, g
  <2>2. /\ t.ptids = s.ptids /\ t.map[i] = NoPlayer
        /\ \A j \in PlayerIDs : j # i => t.map[j] = s.map[j]
    BY <1>1, <1>3, <2>1, FailDecides
  <2> HIDE DEF t
  <2>3. Taken(i) /\ OthersStay(i) /\ pTIDMap' = pTIDMap /\ playerMap'[i] = NoPlayer
    BY <1>3, <2>1, <2>2 DEF Taken, OthersStay
  <2>4. Directory!Refuse(i)
    BY <1>1, <2>3, AsRefuse
  <2>5. QED
    BY <1>1, <2>4 DEF Directory!Next
<1>5. CASE RecvLogin(g, m)
  <2> DEFINE t == IF IsLocalTest THEN logIn(s, i) ELSE s
             a == setAuthID(t, i, auth_seed)
  <2>1. m.type = "Login" /\ player_idx' = i /\ (Becomes(t) \/ Becomes(a))
    BY <1>5 DEF RecvLogin, HandleAPLoginReq
  <2> HIDE DEF s, m, g
  <2>2. SInv(t) /\ t.map[i] # NoPlayer
    BY <1>1, <1>3, <2>1, LogInDecides
  <2>3. /\ a.ptids = t.ptids /\ a.map[i] # NoPlayer /\ a.map[i].state = t.map[i].state
        /\ \A j \in PlayerIDs : j # i => a.map[j] = t.map[j]
    BY <1>1, <1>2, <2>2, SetAuthKeeps
  <2> HIDE DEF a, t
  <2>4. /\ playerMap'[i] # NoPlayer /\ playerMap'[i].state = t.map[i].state
        /\ pTIDMap' = t.ptids
        /\ \A j \in PlayerIDs : j # i => playerMap'[j] = t.map[j]
    BY <2>1, <2>2, <2>3 DEF Becomes
  <2>5. Taken(i)
    BY <2>1 DEF Taken
  <2>6. CASE ~IsLocalTest
    <3>1. t = s
      BY <2>6 DEF t
    <3>2. /\ OthersStay(i) /\ pTIDMap' = pTIDMap
          /\ playerMap'[i] # NoPlayer /\ playerMap'[i].state = "Login"
      BY <1>3, <2>1, <2>4, <3>1 DEF OthersStay
    <3>3. Directory!Ask(i)
      BY <1>1, <2>5, <3>2, AsAsk
    <3>4. QED
      BY <1>1, <3>3 DEF Directory!Next
  <2>7. CASE IsLocalTest
    <3> DEFINE p == PtidOf[s.map[i].authen]
    <3>1. t = logIn(s, i)
      BY <2>7 DEF t
    <3>2. /\ p \in PTIDs /\ t.map[i].state = "Online"
          /\ t.ptids = [s.ptids EXCEPT ![p] = i]
          /\ \A j \in PlayerIDs : j # i =>
               t.map[j] = IF j = s.ptids[p] THEN NoPlayer ELSE s.map[j]
      BY <1>1, <1>3, <2>1, <3>1, LogInDecides
    <3> HIDE DEF p
    <3>3. /\ playerMap'[i].state = "Online" /\ pTIDMap' = [pTIDMap EXCEPT ![p] = i]
          /\ \A j \in PlayerIDs : j # i =>
               playerMap'[j] = IF j = pTIDMap[p] THEN NoPlayer ELSE playerMap[j]
      BY <1>3, <2>1, <2>4, <3>2
    <3>4. Directory!LogIn(i, p)
      BY <1>1, <2>4, <2>5, <3>2, <3>3, AsLogIn
    <3>5. QED
      BY <1>1, <3>2, <3>4 DEF Directory!Next
  <2>8. QED
    BY <2>6, <2>7
<1>6. CASE OnLogoffNtf(m)
  <2> DEFINE p == m.ptid
             o == pTIDMap[p]
             r == releasePlayer(Current, o)
  <2>1. p \in PTIDs /\ player_idx' = player_idx
    BY <1>1, <1>6, LogoffPtid DEF OnLogoffNtf
  <2>2. CASE o = 0
    <3>1. playerMap' = playerMap /\ pTIDMap' = pTIDMap
      BY <1>2, <1>6, <2>2 DEF OnLogoffNtf, Becomes
    <3>2. QED
      BY <2>1, <3>1, AsNothing
  <2>3. CASE o # 0
    <3>1. /\ o \in PlayerIDs /\ playerMap[o] # NoPlayer
          /\ playerMap[o].state = "Online" /\ playerMap[o].ptid = p
      BY <1>2, <2>1, <2>3 DEF SInv, SAgrees
    <3>2. playerMap' = r.map /\ pTIDMap' = r.ptids
      BY <1>2, <1>6, <2>3, <3>1 DEF OnLogoffNtf, Becomes, changeState
    <3> HIDE DEF o
    <3>3. /\ r \in STypes /\ r.map = [playerMap EXCEPT ![o] = NoPlayer]
          /\ \A q \in PTIDs : r.ptids[q] = IF q = p THEN 0 ELSE pTIDMap[q]
      <4>1. Current \in STypes /\ Current.map[o] # NoPlayer
        BY <1>2, <3>1 DEF SInv
      <4>2. /\ r \in STypes /\ r.map = [Current.map EXCEPT ![o] = NoPlayer]
            /\ \A q \in PTIDs :
                 r.ptids[q] = IF q = Current.map[o].ptid THEN 0 ELSE Current.ptids[q]
        BY <3>1, <4>1, ReleaseFacts
      <4> HIDE DEF r
      <4>3. QED
        BY <1>2, <3>1, <4>2
    <3> HIDE DEF r, p
    <3>4. r.ptids = [pTIDMap EXCEPT ![p] = 0]
      BY <1>2, <2>1, <3>3 DEF STypes
    <3>5. Directory!Logoff(p)
      BY <2>1, <2>3, <3>2, <3>3, <3>4, AsLogoff DEF o
    <3>6. QED
      BY <2>1, <3>5 DEF Directory!Next
  <2>4. QED
    BY <2>2, <2>3
<1>7. CASE DropBadMsg(m)
  BY <1>7, AsNothing DEF DropBadMsg, playerVars
<1>8. QED
  BY <1>4, <1>5, <1>6, <1>7 DEF processMsg

\* So is handling a result of the account check, late and repeated ones
\* included: it decides a request that still waits, or changes nothing.
LEMMA ResultStep ==
  ASSUME IInv, NEW late \in BOOLEAN, processApMsg(late)
  PROVE  Directory!Next \/ UNCHANGED Directory!vars
<1> DEFINE m == Head(cur_list)
           i == m.auth.handle
           t == onAPAuthenResult(Current, m)
<1>1. m \in APMsg
  <2>1. cur_list \in Seq(APMsg) /\ cur_list # <<>>
    BY DEF IInv, TypeOK, processApMsg
  <2>2. QED
    BY <2>1, HeadTailProperties
<1>2. i \in PlayerIDs /\ player_idx' = player_idx /\ playerMap' = t.map /\ pTIDMap' = t.ptids
  BY <1>1 DEF processApMsg, Becomes, APMsg, AuthInfo
<1>3. /\ SInv(Current) /\ Current.map = playerMap /\ Current.ptids = pTIDMap
      /\ playerMap[i] \in Player \cup {NoPlayer}
  BY <1>2 DEF IInv, TypeOK, Current
<1>4. CASE t = Current
  BY <1>2, <1>3, <1>4, AsNothing
<1>5. CASE t # Current
  <2>1. /\ playerMap[i] # NoPlayer /\ playerMap[i].state # "Online"
        /\ t = LoginStateOnEvent(Current, i, m)
    BY <1>3, <1>5 DEF onAPAuthenResult
  <2>2. playerMap[i].state = "Login"
    BY <1>3, <2>1 DEF Player
  <2>3. Taken(i)
    BY <1>2, <2>1, <2>2 DEF Taken
  <2>4. CASE m.result = "error"
    <3>1. t = sendGateLoginFail(Current, i)
      BY <2>1, <2>4 DEF LoginStateOnEvent
    <3> HIDE DEF t, i
    <3>2. /\ t.ptids = pTIDMap /\ t.map[i] = NoPlayer
          /\ \A j \in PlayerIDs : j # i => t.map[j] = playerMap[j]
      BY <1>2, <1>3, <2>1, <2>2, <3>1, FailDecides
    <3>3. OthersStay(i) /\ pTIDMap' = pTIDMap /\ playerMap'[i] = NoPlayer
      BY <1>2, <3>2 DEF OthersStay
    <3>4. Directory!Refuse(i)
      BY <1>2, <2>3, <3>3, AsRefuse
    <3>5. QED
      BY <1>2, <3>4 DEF Directory!Next
  <2>5. CASE m.result # "error"
    <3> DEFINE p == PtidOf[playerMap[i].authen]
    <3>1. t = logIn(Current, i)
      BY <1>5, <2>1, <2>5 DEF LoginStateOnEvent
    <3> HIDE DEF t, i
    <3>2. /\ p \in PTIDs /\ t.map[i] # NoPlayer /\ t.map[i].state = "Online"
          /\ t.ptids = [pTIDMap EXCEPT ![p] = i]
          /\ \A j \in PlayerIDs : j # i =>
               t.map[j] = IF j = pTIDMap[p] THEN NoPlayer ELSE playerMap[j]
      BY <1>2, <1>3, <2>1, <2>2, <3>1, LogInDecides
    <3> HIDE DEF p
    <3>3. Directory!LogIn(i, p)
      BY <1>2, <2>3, <3>2, AsLogIn
    <3>4. QED
      BY <1>2, <3>2, <3>3 DEF Directory!Next
  <2>6. QED
    BY <2>4, <2>5
<1>6. QED
  BY <1>4, <1>5

-----------------------------------------------------------------------------

\* The login server implements the directory: whatever its main thread, its
\* workers, the gates and the account service do, the players and the index of
\* platform ids change only as LoginDirectory says.
THEOREM DirectoryImplemented == Spec => ImplementsDirectory
<1>1. Init => Directory!Init
  <2> SUFFICES ASSUME Init PROVE Directory!Init
    OBVIOUS
  <2>1. \A i \in PlayerIDs : StatusOf(i) = "none"
    BY DEF Init, StatusOf, PlayerIDs
  <2>2. QED
    BY <2>1 DEF Init, Directory!Init
<1>2. IInv /\ [Next]_vars => [Directory!Next]_(Directory!vars)
  <2> SUFFICES ASSUME IInv, [Next]_vars
               PROVE  Directory!Next \/ UNCHANGED Directory!vars
    OBVIOUS
  <2>1. CASE processMsg
    BY <2>1, PacketStep
  <2>2. ASSUME NEW late \in BOOLEAN, processApMsg(late)
        PROVE  Directory!Next \/ UNCHANGED Directory!vars
    BY <2>2, ResultStep
  <2>3. CASE \/ PacketsSwap \/ ApSwap \/ LoopEnd \/ StopHandler \/ StopServer
             \/ Environment \/ (\E w \in WorkerIDs : WorkerThread(w))
             \/ UNCHANGED vars
    <3>1. UNCHANGED playerVars
      BY <2>3 DEF PacketsSwap, ApSwap, LoopEnd, StopHandler, StopServer, Environment,
         GateConnect, GateDisconnect, onRecvData, Signal, WorkerThread, WorkerSwap,
         onProcApMsg, WorkerExit, vars
    <3>2. QED
      BY <3>1, AsNothing DEF playerVars
  <2>4. QED
    BY <2>1, <2>2, <2>3 DEF Next, MainThread
<1>3. Spec => []IInv
  BY InitIInv, NextIInv, PTL DEF Spec
<1>4. QED
  BY <1>1, <1>2, <1>3, PTL DEF Spec, ImplementsDirectory, Directory!Spec
=============================================================================
