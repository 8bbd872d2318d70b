---------------------------- MODULE LoginServer ----------------------------
(***************************************************************************)
(* The login server (src/loginserver): the main thread's loop              *)
(* (LoginService::run), the packet queue the io threads fill               *)
(* (PacketParser), the players and the index of their platform ids         *)
(* (PlayerMgr, Player, PlayerFSM), the account check (APMgr on the main    *)
(* thread, the worker threads of APMgrHandler), the table of gate          *)
(* connections (GateSessionMgr) and the shutdown of all of them.           *)
(*                                                                         *)
(* A queue protected by a mutex is a sequence and a critical section is    *)
(* one step.  A handler of the main thread is one step: what the other     *)
(* threads do meanwhile only appends to queues it does not read, or drops  *)
(* the connection of a gate, which has the same effect just before or      *)
(* just after the handler.                                                 *)
(***************************************************************************)
EXTENDS Naturals, Sequences

CONSTANTS
  Gates,        \* descriptors of the gate connections, each handed out once
  AuthenIDs,    \* the account names a client may send (authact)
  NoAuthen,     \* the empty account name
  PTIDs,        \* platform ids
  NoPTID,       \* the platform id of a player that has none yet
  NoPlayer,     \* stands for a player id that is not a key of playerMap_
  PtidOf,       \* the platform id built from an account name
  Workers,      \* WORK_THREAD_COUNT, the number of account-check threads
  IsLocalTest,  \* configuration: log in without waiting for the account check
  OpenWhitePt,  \* configuration: white list switched on
  WebCheck,     \* the account service is configured and answers
  MaxMsg        \* bound: messages the gates send in a behaviour

ASSUME ConstantsAssumption ==
  /\ MaxMsg \in Nat
  /\ Workers \in Nat \ {0}
  /\ NoAuthen \in AuthenIDs
  /\ PtidOf \in [AuthenIDs -> PTIDs]
  /\ NoPTID \notin PTIDs
  /\ {IsLocalTest, OpenWhitePt, WebCheck} \subseteq BOOLEAN

PlayerIDs == 1..MaxMsg
WorkerIDs == 0..(Workers - 1)

VARIABLES
  gateState,     \* GateSessionMgr::session_map_: "new", "up" or "down"
  received,      \* number of messages received from the gates (bound only)
  message_list,  \* PacketParser::message_list_
  current_list,  \* what the main thread swapped out of message_list_
  player_idx,    \* PlayerMgr::player_idx_, the last id handed out
  playerMap,     \* PlayerMgr::playerMap_
  pTIDMap,       \* PlayerMgr::pTIDMap_, 0 for a platform id it does not hold
  sent,          \* what each player sent through its gate's connection
  auth_seed,     \* AuthInfo::start_id
  process_cnt,   \* APMgrHandler::process_cnt_, reduced modulo Workers
  message_arr,   \* APMgrHandler::message_arr_, one queue per worker
  worker_list,   \* what each worker swapped out of its queue
  workerUp,      \* the worker threads that have not returned from run()
  apRunning,     \* APMgrHandler::running_
  apg_list,      \* APMgr::apg_list_
  cur_list,      \* what the main thread swapped out of apg_list_
  stopFlag,      \* g_stop_flag_
  pc             \* where the main thread is in LoginService::run and stop

netVars    == <<gateState, received>>
packetVars == <<message_list, current_list>>
playerVars == <<player_idx, playerMap, pTIDMap, sent>>
workVars   == <<process_cnt, message_arr, worker_list, workerUp, apRunning>>
apVars     == <<apg_list, cur_list>>
vars == <<netVars, packetVars, playerVars, auth_seed, workVars, apVars,
          stopFlag, pc>>

-----------------------------------------------------------------------------
(* The types of the records.                                               *)

LoginReq(authen, old) ==
  [type |-> "Login", authen |-> authen, old |-> old]
LogoffNtf(ptid) == [type |-> "Logoff", ptid |-> ptid]
BadMsg == [type |-> "Bad"]   \* an unregistered id, or a body that does not parse

\* The messages a gate may send.
Messages == {LoginReq(a, o) : a \in AuthenIDs, o \in BOOLEAN}
            \cup {LogoffNtf(p) : p \in PTIDs} \cup {BadMsg}

\* MessageParam: a message and the connection it came through.
Packet == [gate : Gates, msg : Messages]

Player == [state : {"Login", "Online"}, gate : Gates, authen : AuthenIDs,
           ptid : PTIDs \cup {NoPTID}, auth : Nat]

ASSUME NoPlayerAssumption == NoPlayer \notin Player

\* AuthInfo: the player it was made for, its own id and its AuthenID entry.
AuthInfo == [handle : PlayerIDs, auth : Nat, authen : AuthenIDs]
APMsg == [auth : AuthInfo, result : {"success", "error"}]

Up(g) == gateState[g] = "up"

-----------------------------------------------------------------------------
(* The operations of PlayerMgr, Player and PlayerFSM on the part of the    *)
(* state they change: s.map is playerMap_, s.ptids is pTIDMap_, s.sent is  *)
(* what was sent for each player.                                          *)

Current == [map |-> playerMap, ptids |-> pTIDMap, sent |-> sent]

\* Player::send: dropped when the gate's connection is gone.
Send(s, i, msg) ==
  IF Up(s.map[i].gate) THEN [s EXCEPT !.sent[i] = Append(@, msg)] ELSE s

\* Mutant: the index keeps the entry.
releasePlayer_KeepsPtid(s, i) == [s EXCEPT !.map[i] = NoPlayer]

\* PlayerMgr::releasePlayer: the entry of the player's platform id goes,
\* whichever player it names, and then the player.
releasePlayer(s, i) ==
  [s EXCEPT !.ptids = [p \in PTIDs |-> IF p = s.map[i].ptid THEN 0 ELSE @[p]],
            !.map[i] = NoPlayer]

\* PlayerFSM::changeState: leaving for Logout destroys the player.
changeState(s, i, state) ==
  IF s.map[i].state = state THEN s
  ELSE IF state = "Logout" THEN releasePlayer(s, i)
  ELSE [s EXCEPT !.map[i].state = state]

\* Mutant: the holder is told but not logged out.
kickOffPlayer_OnlyTells(s, ptid) ==
  LET old == s.ptids[ptid] IN
  IF old # 0 /\ s.map[old] # NoPlayer THEN Send(s, old, "kick") ELSE s

\* PlayerMgr::kickOffPlayer: the player that holds the platform id, if any,
\* is told and logged out.
kickOffPlayer(s, ptid) ==
  LET old == s.ptids[ptid] IN
  IF old # 0 /\ s.map[old] # NoPlayer
  THEN changeState(Send(s, old, "kick"), old, "Logout")
  ELSE s

\* Player::setPTID and PlayerMgr::addPtid2Map: emplace keeps an old entry.
setPTID(s, i, ptid) ==
  [map   |-> [s.map EXCEPT ![i].ptid = ptid],
   ptids |-> [s.ptids EXCEPT ![ptid] = IF @ = 0 THEN i ELSE @],
   sent  |-> s.sent]

\* Player::setAuthID
setAuthID(s, i, id) ==
  [map |-> [s.map EXCEPT ![i].auth = id], ptids |-> s.ptids, sent |-> s.sent]

\* Player::sendGateLoginFail
sendGateLoginFail(s, i) == changeState(Send(s, i, "fail"), i, "Logout")

\* Player::sendGateLoginSucc
sendGateLoginSucc(s, i) == changeState(Send(s, i, "succ"), i, "Online")

\* Mutant: the platform id is taken over before its holder is kicked.
logIn_TakesFirst(s, i) ==
  LET ptid == PtidOf[s.map[i].authen]
      t    == setPTID(s, i, ptid)
  IN  sendGateLoginSucc(IF s.ptids[ptid] = 0 THEN t ELSE kickOffPlayer(t, ptid), i)

\* The common tail of HandleAPLoginReq (local test) and HandleAPSuccCallback:
\* build the platform id, kick its holder, take it over, answer.
logIn(s, i) ==
  LET ptid == PtidOf[s.map[i].authen] IN
  sendGateLoginSucc(setPTID(kickOffPlayer(s, ptid), i, ptid), i)

\* Install the result of the operations.
Becomes(s) ==
  /\ playerMap' = s.map
  /\ pTIDMap' = s.ptids
  /\ sent' = s.sent

-----------------------------------------------------------------------------
(* The io threads: connections of gates, and packets that arrive.          *)

\* The accept handler: GateSessionMgr::addSession.
GateConnect(g) ==
  /\ pc # "stopped"
  /\ gateState[g] = "new"
  /\ gateState' = [gateState EXCEPT ![g] = "up"]
  /\ UNCHANGED <<received, packetVars, playerVars, auth_seed, workVars,
                 apVars, stopFlag, pc>>

\* The disconnect handler: GateSessionMgr::delSession.  The players that
\* came through the gate stay.
GateDisconnect(g) ==
  /\ Up(g)
  /\ gateState' = [gateState EXCEPT ![g] = "down"]
  /\ UNCHANGED <<received, packetVars, playerVars, auth_seed, workVars,
                 apVars, stopFlag, pc>>

\* PacketParser::onRecvData and pushMsg.
onRecvData(g, m) ==
  /\ Up(g)
  /\ received < MaxMsg
  /\ received' = received + 1
  /\ message_list' = Append(message_list, [gate |-> g, msg |-> m])
  /\ UNCHANGED <<gateState, current_list, playerVars, auth_seed, workVars,
                 apVars, stopFlag, pc>>

-----------------------------------------------------------------------------
(* The main thread.  PlayerMgr::onUpdate changes no player.                *)

\* The top of the loop: leave it, or swap the packets that have arrived.
PacketsSwap ==
  /\ pc = "top" /\ ~stopFlag
  /\ current_list' = message_list
  /\ message_list' = <<>>
  /\ pc' = "packets"
  /\ UNCHANGED <<netVars, playerVars, auth_seed, workVars, apVars, stopFlag>>

\* PlayerMgr::fetchPlayer and the setters of RecvGgLoginReq.
fetchPlayer(g, m) ==
  LET i == player_idx + 1
      new == [state |-> "Login", gate |-> g, authen |-> m.authen,
              ptid |-> NoPTID, auth |-> 0]
  IN  [Current EXCEPT !.map[i] = new]

\* RecvGgLoginReq, a client that is too old: the player made for it fails.
RecvOldClient(g, m) ==
  /\ m.type = "Login" /\ m.old
  /\ player_idx' = player_idx + 1
  /\ Becomes(sendGateLoginFail(fetchPlayer(g, m), player_idx + 1))
  /\ UNCHANGED <<auth_seed, workVars>>

\* Mutant: the worker is not taken modulo the number of workers.
checkApLoginData_NoModulo(i) ==
  LET a == [handle |-> i, auth |-> auth_seed, authen |-> NoAuthen] IN
  /\ auth_seed' = auth_seed + 1
  /\ process_cnt' = process_cnt + 1
  /\ message_arr' = [message_arr EXCEPT ![process_cnt] =
                       Append(@, [auth |-> a, result |-> "success"])]
  /\ UNCHANGED <<worker_list, workerUp, apRunning>>

\* APMgr::checkApLoginData and APMgrHandler::pushMsg: the AuthInfo of the
\* player goes to the next worker.  It has no AuthenID entry.
checkApLoginData(i) ==
  LET a == [handle |-> i, auth |-> auth_seed, authen |-> NoAuthen] IN
  /\ auth_seed' = auth_seed + 1
  /\ process_cnt' = (process_cnt + 1) % Workers
  /\ message_arr' = [message_arr EXCEPT ![process_cnt] =
                       Append(@, [auth |-> a, result |-> "success"])]
  /\ UNCHANGED <<worker_list, workerUp, apRunning>>

\* LoginState::HandleAPLoginReq.  In a local test the player is logged in at
\* once, and the account check goes on all the same.
HandleAPLoginReq(s, i) ==
  LET t == IF IsLocalTest THEN logIn(s, i) ELSE s IN
  IF OpenWhitePt
  THEN Becomes(t) /\ UNCHANGED <<auth_seed, workVars>>
  ELSE Becomes(setAuthID(t, i, auth_seed)) /\ checkApLoginData(i)

\* RecvGgLoginReq for a client of a good version.
RecvLogin(g, m) ==
  /\ m.type = "Login" /\ ~m.old
  /\ player_idx' = player_idx + 1
  /\ HandleAPLoginReq(fetchPlayer(g, m), player_idx + 1)

\* OnLogoffNtf and GlobalState::onEvent: whoever holds the platform id now
\* is logged out, whichever gate asks.
OnLogoffNtf(m) ==
  /\ m.type = "Logoff"
  /\ LET i == pTIDMap[m.ptid] IN
     Becomes(IF i # 0 /\ playerMap[i] # NoPlayer
             THEN changeState(Current, i, "Logout") ELSE Current)
  /\ UNCHANGED <<player_idx, auth_seed, workVars>>

\* A message with no handler, or that does not parse: logged and dropped.
DropBadMsg(m) ==
  /\ m.type = "Bad"
  /\ UNCHANGED <<playerVars, auth_seed, workVars>>

\* PacketParser::processMsg on the next packet of the swapped list.
processMsg ==
  /\ pc = "packets" /\ current_list # <<>>
  /\ LET e == Head(current_list) IN
     \/ RecvOldClient(e.gate, e.msg)
     \/ RecvLogin(e.gate, e.msg)
     \/ OnLogoffNtf(e.msg)
     \/ DropBadMsg(e.msg)
  /\ current_list' = Tail(current_list)
  /\ UNCHANGED <<netVars, message_list, apVars, stopFlag, pc>>

\* APMgr::onUpdate: swap the results of the account check.
ApSwap ==
  /\ pc = "packets" /\ current_list = <<>>
  /\ cur_list' = apg_list
  /\ apg_list' = <<>>
  /\ pc' = "apmsgs"
  /\ UNCHANGED <<netVars, packetVars, playerVars, auth_seed, workVars, stopFlag>>

\* LoginState::onEvent for a callback of the account check: a failure is
\* answered; a success counts only when AuthenID and AuthID are the player's.
LoginStateOnEvent(s, i, m) ==
  IF m.result = "error" THEN sendGateLoginFail(s, i)
  ELSE IF s.map[i].authen = m.auth.authen /\ s.map[i].auth = m.auth.auth
       THEN logIn(s, i)
       ELSE s

\* Mutant: the state of the player is not looked at.
onAPAuthenResult_AnyState(s, m) ==
  LET i == m.auth.handle IN
  IF s.map[i] = NoPlayer THEN s ELSE LoginStateOnEvent(s, i, m)

\* APMgr::onAPSucc and onAPError: find the player and pass the event to the
\* state it is in.  OnlineState::onEvent ignores it.
onAPAuthenResult(s, m) ==
  LET i == m.auth.handle IN
  IF s.map[i] = NoPlayer \/ s.map[i].state = "Online"
  THEN s ELSE LoginStateOnEvent(s, i, m)

\* Mutant: a result that waited too long is queued again instead of processed.
processApMsg_Requeues(late) ==
  /\ pc = "apmsgs" /\ cur_list # <<>>
  /\ LET m == Head(cur_list) IN
     IF late
     THEN /\ apg_list' = Append(apg_list, [m EXCEPT !.result = "error"])
          /\ UNCHANGED <<playerMap, pTIDMap, sent>>
     ELSE Becomes(onAPAuthenResult(Current, m)) /\ UNCHANGED apg_list
  /\ cur_list' = Tail(cur_list)
  /\ UNCHANGED <<netVars, packetVars, player_idx, auth_seed, workVars,
                 stopFlag, pc>>

\* APMgr::processApMsg on the next result.  One that waited too long also
\* queues a time-out result for the next round, and is still processed.
processApMsg(late) ==
  /\ pc = "apmsgs" /\ cur_list # <<>>
  /\ LET m == Head(cur_list) IN
     /\ apg_list' = IF late
                    THEN Append(apg_list, [m EXCEPT !.result = "error"])
                    ELSE apg_list
     /\ Becomes(onAPAuthenResult(Current, m))
  /\ cur_list' = Tail(cur_list)
  /\ UNCHANGED <<netVars, packetVars, player_idx, auth_seed, workVars,
                 stopFlag, pc>>

\* The end of the loop's body.
LoopEnd ==
  /\ pc = "apmsgs" /\ cur_list = <<>>
  /\ pc' = "top"
  /\ UNCHANGED <<netVars, packetVars, playerVars, auth_seed, workVars,
                 apVars, stopFlag>>

-----------------------------------------------------------------------------
(* The worker threads of APMgrHandler.                                     *)

\* run: swap the queue of the worker.
WorkerSwap(w) ==
  /\ w \in workerUp /\ ~stopFlag /\ apRunning
  /\ worker_list[w] = <<>> /\ message_arr[w] # <<>>
  /\ worker_list' = [worker_list EXCEPT ![w] = message_arr[w]]
  /\ message_arr' = [message_arr EXCEPT ![w] = <<>>]
  /\ UNCHANGED <<netVars, packetVars, playerVars, auth_seed, process_cnt,
                 workerUp, apRunning, apVars, stopFlag, pc>>

\* onProcApMsg, checkLoginTokent and APMgr::operateResult: the account
\* service answers, or without one the message ends here.
onProcApMsg(w, result) ==
  /\ w \in workerUp /\ worker_list[w] # <<>>
  /\ worker_list' = [worker_list EXCEPT ![w] = Tail(@)]
  /\ apg_list' = IF WebCheck
                 THEN Append(apg_list, [Head(worker_list[w]) EXCEPT !.result = result])
                 ELSE apg_list
  /\ UNCHANGED <<netVars, packetVars, playerVars, auth_seed, process_cnt,
                 message_arr, workerUp, apRunning, cur_list, stopFlag, pc>>

\* run returns when either flag says so, its list done.
WorkerExit(w) ==
  /\ w \in workerUp /\ worker_list[w] = <<>>
  /\ stopFlag \/ ~apRunning
  /\ workerUp' = workerUp \ {w}
  /\ UNCHANGED <<netVars, packetVars, playerVars, auth_seed, process_cnt,
                 message_arr, worker_list, apRunning, apVars, stopFlag, pc>>

-----------------------------------------------------------------------------
(* Shutdown.                                                               *)

\* The signal handler.
Signal ==
  /\ ~stopFlag
  /\ stopFlag' = TRUE
  /\ UNCHANGED <<netVars, packetVars, playerVars, auth_seed, workVars, apVars, pc>>

\* Mutant: waits for packets that nobody takes any more.
StopHandler_Drains ==
  /\ pc = "top" /\ stopFlag /\ message_list = <<>>
  /\ apRunning' = FALSE
  /\ message_arr' = [w \in WorkerIDs |-> <<>>]
  /\ pc' = "joining"
  /\ UNCHANGED <<netVars, packetVars, playerVars, auth_seed, process_cnt,
                 worker_list, workerUp, apVars, stopFlag>>

\* The main loop ends; APMgrHandler::stop clears the queues of the workers.
StopHandler ==
  /\ pc = "top" /\ stopFlag
  /\ apRunning' = FALSE
  /\ message_arr' = [w \in WorkerIDs |-> <<>>]
  /\ pc' = "joining"
  /\ UNCHANGED <<netVars, packetVars, playerVars, auth_seed, process_cnt,
                 worker_list, workerUp, apVars, stopFlag>>

\* The workers are joined; Server::stop closes every connection.
StopServer ==
  /\ pc = "joining" /\ workerUp = {}
  /\ gateState' = [g \in Gates |-> "down"]
  /\ pc' = "stopped"
  /\ UNCHANGED <<received, packetVars, playerVars, auth_seed, workVars,
                 apVars, stopFlag>>

-----------------------------------------------------------------------------

Init ==
  /\ gateState = [g \in Gates |-> "new"]
  /\ received = 0
  /\ message_list = <<>> /\ current_list = <<>>
  /\ player_idx = 0
  /\ playerMap = [i \in PlayerIDs |-> NoPlayer]
  /\ pTIDMap = [p \in PTIDs |-> 0]
  /\ sent = [i \in PlayerIDs |-> <<>>]
  /\ auth_seed = 0 /\ process_cnt = 0
  /\ message_arr = [w \in WorkerIDs |-> <<>>]
  /\ worker_list = [w \in WorkerIDs |-> <<>>]
  /\ workerUp = WorkerIDs
  /\ apRunning = TRUE
  /\ apg_list = <<>> /\ cur_list = <<>>
  /\ stopFlag = FALSE
  /\ pc = "top"

MainThread ==
  \/ PacketsSwap \/ processMsg \/ ApSwap
  \/ \E late \in BOOLEAN : processApMsg(late)
  \/ LoopEnd \/ StopHandler \/ StopServer

WorkerThread(w) ==
  \/ WorkerSwap(w)
  \/ \E result \in {"success", "error"} : onProcApMsg(w, result)
  \/ WorkerExit(w)

Environment ==
  \/ \E g \in Gates : GateConnect(g) \/ GateDisconnect(g)
  \/ \E g \in Gates, m \in Messages : onRecvData(g, m)
  \/ Signal

Next == MainThread \/ (\E w \in WorkerIDs : WorkerThread(w)) \/ Environment

\* The operating system runs every thread that can run.
Fairness == WF_vars(MainThread) /\ \A w \in WorkerIDs : WF_vars(WorkerThread(w))

Spec == Init /\ [][Next]_vars /\ Fairness

-----------------------------------------------------------------------------
(* Properties.                                                             *)

\* Every variable has the type of the field it stands for.
TypeOK ==
  /\ gateState \in [Gates -> {"new", "up", "down"}]
  /\ received \in 0..MaxMsg
  /\ message_list \in Seq(Packet)
  /\ current_list \in Seq(Packet)
  /\ player_idx \in 0..MaxMsg
  /\ playerMap \in [PlayerIDs -> Player \cup {NoPlayer}]
  /\ pTIDMap \in [PTIDs -> {0} \cup PlayerIDs]
  /\ sent \in [PlayerIDs -> Seq({"succ", "fail", "kick"})]
  /\ auth_seed \in Nat
  /\ process_cnt \in WorkerIDs
  /\ message_arr \in [WorkerIDs -> Seq(APMsg)]
  /\ worker_list \in [WorkerIDs -> Seq(APMsg)]
  /\ workerUp \subseteq WorkerIDs
  /\ apRunning \in BOOLEAN
  /\ apg_list \in Seq(APMsg)
  /\ cur_list \in Seq(APMsg)
  /\ stopFlag \in BOOLEAN
  /\ pc \in {"top", "packets", "apmsgs", "joining", "stopped"}

\* pTIDMap_ and playerMap_ agree: an entry names a live player that is online
\* under that platform id, and every online player is found under its own.
\* So kickOffPlayer and OnLogoffNtf always reach the player they mean, and no
\* platform id is online twice.
PtidMapAgrees ==
  /\ \A p \in PTIDs : pTIDMap[p] # 0 =>
       /\ playerMap[pTIDMap[p]] # NoPlayer
       /\ playerMap[pTIDMap[p]].state = "Online"
       /\ playerMap[pTIDMap[p]].ptid = p
  /\ \A i \in PlayerIDs :
       playerMap[i] # NoPlayer /\ playerMap[i].state = "Online" =>
         /\ playerMap[i].ptid \in PTIDs
         /\ pTIDMap[playerMap[i].ptid] = i

\* What the gate hears about one login request: one answer at most, a kick
\* only after a success, and nothing after a failure or a kick.  Late and
\* repeated results of the account check must not break this.
AnswerDiscipline ==
  \A i \in PlayerIDs :
    /\ sent[i] \in {<<>>, <<"succ">>, <<"fail">>, <<"succ", "kick">>}
    /\ sent[i] \in {<<"fail">>, <<"succ", "kick">>} => playerMap[i] = NoPlayer

\* A result of the account check, however late, never logs out a player that
\* is online, unless it logs in another one under the same platform id, and
\* then the old player's gate is told if it is still connected.
ApResultSparesOnline ==
  [][(\E late \in BOOLEAN : processApMsg(late)) =>
       \A i \in PlayerIDs :
         playerMap[i] # NoPlayer /\ playerMap[i].state = "Online" =>
           \/ playerMap'[i] = playerMap[i]
           \/ /\ pTIDMap'[playerMap[i].ptid] \notin {0, i}
              /\ Up(playerMap[i].gate) => sent'[i] = Append(sent[i], "kick")]_vars

\* Once the signal has come the server stops: the main thread leaves its loop,
\* every worker is joined and every connection is closed.
ShutdownCompletes == stopFlag ~> (pc = "stopped")

\* The player of a login request does not wait for ever once its account check
\* has failed or timed out: it leaves Login, unless the server is stopped.
FailureAnswered ==
  \A i \in PlayerIDs :
    (\E k \in 1..Len(apg_list) :
       apg_list[k].auth.handle = i /\ apg_list[k].result = "error")
    ~> (stopFlag \/ playerMap[i] = NoPlayer \/ playerMap[i].state = "Online")
=============================================================================
