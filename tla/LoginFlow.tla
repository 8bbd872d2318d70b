----------------------------- MODULE LoginFlow -----------------------------
(***************************************************************************)
(* The gate and the login server together: the login requests of clients   *)
(* on their way to the login server, its answers and kick-offs on their    *)
(* way back, over connections that break and are made again, and a login   *)
(* server that may be restarted.                                           *)
(*                                                                         *)
(* The gate is GateServer.  The login server is LoginDirectory, which      *)
(* LoginRefinement shows it to implement, with what it sends added: it     *)
(* answers through the connection the request came by (gate_session_fd_),  *)
(* under the id of the gate's player (trans_id_), and drops the answer     *)
(* when that connection is gone.                                           *)
(*                                                                         *)
(* The connection between the two is TCP: what one side sends arrives in   *)
(* order, or a tail of it is lost when the connection breaks.  A request   *)
(* that has arrived waits in message_list_ and outlives its connection.    *)
(* Connections are numbered, as Session numbers its fds.                   *)
(***************************************************************************)
EXTENDS GateServer, Integers

CONSTANTS
  PTIDs,        \* platform ids
  MaxRequests,  \* bound: requests the login server ever takes
  MaxLinks      \* bound: connections of the gate to the login server

ASSUME FlowAssumption == {MaxRequests, MaxLinks} \subseteq Nat \ {0}

Requests == 1..MaxRequests
Links == 1..MaxLinks

VARIABLES
  linkNo,     \* the number of the gate's last connection to the login server
  lsUp,       \* the login server holds that connection (session_map_)
  toLogin,    \* connection -> requests on their way, or in message_list_
  toGate,     \* answers and kick-offs on their way through the connection
  status,     \* LoginDirectory's status of each request, and ...
  holder,     \* ... holder of each platform id
  from,       \* request -> the player, connection and platform id it is for
  heard,      \* player, platform id -> the last the gate heard of it here
  owed        \* player -> its requests over this connection less the answers

Directory == INSTANCE LoginDirectory

channel == <<linkNo, lsUp, toLogin, toGate>>
login == <<status, holder, from>>
history == <<heard, owed>>
vars == <<gateVars, channel, login, history>>

\* The request of no player of this gate.
Nobody == [player |-> None, link |-> None, ptid |-> None]

Word(kind, p, t) == [kind |-> kind, player |-> p, ptid |-> t]

\* Nothing has been heard over a new connection.
Unheard == [p \in PlayerIDs |-> [t \in PTIDs |-> "none"]]
NoneOwed == [p \in PlayerIDs |-> 0]

-----------------------------------------------------------------------------
(* The gate's side.                                                        *)

\* RecvLogin, and what it sends: the request is for some account, and is lost
\* when the login server has dropped the connection already.
GateRecvLogin(c, t) ==
  /\ RecvLogin(c)
  /\ IF requests' = requests
     THEN UNCHANGED <<toLogin, owed>>
     ELSE LET p == sessionMap[c]
          IN  /\ owed' = [owed EXCEPT ![p] = @ + 1]
              /\ toLogin' = IF lsUp
                            THEN [toLogin EXCEPT ![linkNo] = Append(@, [player |-> p, ptid |-> t])]
                            ELSE toLogin
  /\ UNCHANGED <<linkNo, lsUp, toGate, login, heard>>

\* The next answer or kick-off comes out of the connection.
GateRecvWord ==
  /\ toGate # <<>>
  /\ LoginMessage
  /\ LET w == Head(toGate)
         p == w.player
     IN  IF ~Hears(p) THEN UNCHANGED history
         ELSE /\ owed' = [owed EXCEPT ![p] = IF w.kind = "kick" THEN @ ELSE @ - 1]
              /\ heard' = [heard EXCEPT ![p][w.ptid] =
                             IF w.kind = "fail" THEN @ ELSE w.kind]
  /\ toGate' = Tail(toGate)
  /\ UNCHANGED <<linkNo, lsUp, toLogin, login>>

\* The connector connects, again or for the first time.
LinkUp ==
  /\ ~loginUp /\ linkNo < MaxLinks
  /\ LoginLink
  /\ linkNo' = linkNo + 1
  /\ lsUp' = TRUE
  /\ UNCHANGED <<toLogin, toGate, login, history>>

\* A connection breaks: of the requests on their way some first ones arrive.
Cut ==
  \E n \in 0..Len(toLogin[linkNo]) :
    toLogin' = [toLogin EXCEPT ![linkNo] = SubSeq(@, 1, n)]

\* The gate's session stops; what was on its way to the gate is lost, and what
\* was heard over this connection says nothing about the next.
LinkDown ==
  /\ loginUp
  /\ LoginLink
  /\ lsUp' = FALSE
  /\ IF lsUp THEN Cut ELSE UNCHANGED toLogin
  /\ toGate' = <<>>
  /\ heard' = Unheard /\ owed' = NoneOwed
  /\ UNCHANGED <<linkNo, login>>

-----------------------------------------------------------------------------
(* The login server's side.                                                *)

\* The login server's session stops first (GateSessionMgr::delSession); what
\* it has sent is still on its way.
LoginDrops ==
  /\ lsUp
  /\ lsUp' = FALSE
  /\ Cut
  /\ UNCHANGED <<gateVars, linkNo, toGate, login, history>>

\* Mutant: the answer goes through whatever connection the gate has now.
Reaches_AnyLink(k) == lsUp

\* Player::send: the connection the request came by is still there.
Reaches(k) == lsUp /\ k = linkNo

\* What the gate gets of a word about the request r.
Tell(kind, r) ==
  IF Reaches(r.link) THEN <<Word(kind, r.player, r.ptid)>> ELSE <<>>

\* kickOffPlayer's notice to the holder of the platform id, if there is one.
Kick(t) == IF holder[t] = 0 THEN <<>> ELSE Tell("kick", from[holder[t]])

\* Mutant: the new player is answered before the old one is kicked.
Answer_BeforeKick(r) == Tell("succ", r) \o Kick(r.ptid)

\* HandleAPLoginReq and HandleAPSuccCallback: kick the holder, then answer.
Answer(r) == Kick(r.ptid) \o Tell("succ", r)

\* PlayerMgr::releasePlayer: a player that has ended is forgotten.
Remember(f) == [i \in Requests |-> IF status'[i] = "ended" THEN Nobody ELSE f[i]]

\* The request is taken and goes to the account check ...
Taken(i, r) == Directory!Ask(i) /\ UNCHANGED toGate

\* ... or is logged in at once, in a local test ...
LoggedIn(i, r) == Directory!LogIn(i, r.ptid) /\ toGate' = toGate \o Answer(r)

\* ... or is refused, from an old client.
Refused(i, r) == Directory!Refuse(i) /\ toGate' = toGate \o Tell("fail", r)

\* RecvGgLoginReq on the next request of a connection.
LoginTakes(i, k) ==
  /\ toLogin[k] # <<>> /\ status[i] = "none"
  /\ LET q == Head(toLogin[k])
         r == [player |-> q.player, link |-> k, ptid |-> q.ptid]
     IN  /\ Taken(i, r) \/ LoggedIn(i, r) \/ Refused(i, r)
         /\ from' = Remember([from EXCEPT ![i] = r])
  /\ toLogin' = [toLogin EXCEPT ![k] = Tail(@)]
  /\ UNCHANGED <<gateVars, linkNo, lsUp, history>>

\* A result of the account check for a request that waits.
LoginDecides(i) ==
  /\ status[i] = "pending"
  /\ LoggedIn(i, from[i]) \/ Refused(i, from[i])
  /\ from' = Remember(from)
  /\ UNCHANGED <<gateVars, linkNo, lsUp, toLogin, history>>

\* Another gate's client logs in under a platform id.
OtherGate(i, t) ==
  /\ status[i] = "none"
  /\ LET r == [Nobody EXCEPT !.ptid = t]
     IN  LoggedIn(i, r) /\ from' = Remember([from EXCEPT ![i] = r])
  /\ UNCHANGED <<gateVars, linkNo, lsUp, toLogin, history>>

\* The login server ends and is started again: its tables and queues were in
\* memory only.
LoginRestarts ==
  /\ status' = [i \in Requests |-> IF status[i] = "none" THEN "none" ELSE "ended"]
  /\ holder' = [t \in PTIDs |-> 0]
  /\ toLogin' = [k \in Links |-> <<>>]
  /\ lsUp' = FALSE
  /\ from' = Remember(from)
  /\ UNCHANGED <<gateVars, linkNo, toGate, history>>

-----------------------------------------------------------------------------

Init ==
  /\ GateInit /\ Directory!Init
  /\ linkNo = 0 /\ lsUp = FALSE
  /\ toLogin = [k \in Links |-> <<>>] /\ toGate = <<>>
  /\ from = [i \in Requests |-> Nobody]
  /\ heard = Unheard /\ owed = NoneOwed

Next ==
  \/ GateStep /\ UNCHANGED <<channel, login, history>>
  \/ \E c \in Clients, t \in PTIDs : GateRecvLogin(c, t)
  \/ GateRecvWord \/ LinkUp \/ LinkDown
  \/ \E i \in Requests, k \in Links : LoginTakes(i, k)
  \/ \E i \in Requests : LoginDecides(i)
  \/ \E i \in Requests, t \in PTIDs : OtherGate(i, t)
  \/ LoginDrops \/ LoginRestarts

Spec == Init /\ [][Next]_vars

-----------------------------------------------------------------------------
(* Properties.                                                             *)

\* Every variable has its type, the gate's included.
TypeOK ==
  /\ GateTypeOK
  /\ linkNo \in 0..MaxLinks /\ lsUp \in BOOLEAN
  /\ lsUp => loginUp
  /\ \A k \in Links : toLogin[k] \in Seq([player : PlayerIDs, ptid : PTIDs])
  /\ toGate \in Seq([kind : {"succ", "fail", "kick"}, player : PlayerIDs, ptid : PTIDs])
  /\ status \in [Requests -> {"none", "pending", "online", "ended"}]
  /\ holder \in [PTIDs -> {0} \union Requests]
  /\ heard \in [PlayerIDs -> [PTIDs -> {"none", "succ", "kick"}]]

\* What the gate heard last is true once nothing is on its way: a player is
\* online under a platform id exactly when the last word about the two was
\* "succ" - although players log in again, take each other's platform id over
\* and use other gates, and whatever earlier connections lost.
LastWordTrue ==
  lsUp /\ toGate = <<>> =>
    \A p \in PlayerIDs, t \in PTIDs :
      heard[p][t] = "succ" <=>
        holder[t] # 0 /\ from[holder[t]].player = p /\ from[holder[t]].link = linkNo

\* Over a connection no more answers come than requests went, for any player:
\* an answer to a request of an earlier connection, or of an earlier life of
\* the login server, is never taken for the answer to a later one.
HeardIsAsked == \A p \in PlayerIDs : owed[p] >= 0
=============================================================================
