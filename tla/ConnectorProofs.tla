-------------------------- MODULE ConnectorProofs --------------------------
(***************************************************************************)
(* Proofs that a connector leaves no socket behind, reports an attempt     *)
(* once, always has exactly one way on while reconnecting is on, and       *)
(* starts nothing after stop, for every number of faults and all delays.   *)
(***************************************************************************)
EXTENDS Connector, TLAPS

-----------------------------------------------------------------------------
(* The inductive invariant.                                                *)

\* auto_reconnect_ is on from asyncConnect to stop; nothing happens before.
OnOff ==
  /\ auto_reconnect <=> asked /\ ~stopCalled
  /\ asked <=> attempt # 0
  /\ ~asked => /\ session = 0 /\ passed = "no" /\ ready = {}
               /\ ~reconnectTimer /\ ~connected /\ connectTimer = 0

\* session_ is the last attempt's or none, and none while the next attempt is
\* being prepared.
SessionIsLast ==
  /\ session \in {0, attempt} /\ connectTimer \in {0, attempt}
  /\ passed # "no" => session = 0
  /\ passed = "start" => attempt \in completed

\* An attempt that has not begun has left no trace.
Untouched(a) ==
  /\ socket[a] = "none" /\ reported[a] = 0
  /\ a \notin completed /\ a \notin stopped /\ a \notin disconnectProc

\* A handler is ready only for an attempt that has begun, and the handler of an
\* async_connect only when it has ended.
HandlersOf(a) ==
  /\ Handler("timeout", a) \in ready => a <= attempt
  /\ Handler("connected", a) \in ready => socket[a] \in {"open", "closed"}
  /\ Handler("failed", a) \in ready => socket[a] = "closed"

\* An attempt is reported, and may get its disconnect handler, when it is
\* decided; one that is given up was decided or stopped.  Every attempt is
\* decided before the next one begins.
DecidedFirst(a) ==
  /\ a \in completed => reported[a] = 1
  /\ a \notin completed => reported[a] = 0 /\ a \notin disconnectProc
  /\ a < attempt => a \in completed
  /\ socket[a] = "aborting" => a \in completed \/ stopCalled

PerAttempt ==
  \A a \in Attempts :
    /\ a > attempt => Untouched(a)
    /\ HandlersOf(a) /\ DecidedFirst(a)

\* Only one of the steps to the next attempt is under way.
OneWait ==
  /\ reconnectTimer => Handler("reconnect", 0) \notin ready /\ passed = "no"
  /\ Handler("reconnect", 0) \in ready => passed = "no"

\* While reconnecting is on: what holds while the last attempt is undecided,
\* and once it is decided.
Undecidedness ==
  attempt \notin completed =>
    /\ session = attempt /\ attempt \notin stopped
    /\ ~connected /\ ~Waiting
    /\ Handler("connected", attempt) \in ready => socket[attempt] = "open"
Decidedness ==
  attempt \in completed =>
    \/ Waiting /\ session = 0 /\ ~connected
    \/ ~Waiting /\ session = attempt /\ connected /\ socket[attempt] = "open"
WhileOn == auto_reconnect => OneWait /\ Undecidedness /\ Decidedness

\* Every attempt but the first was preceded by a fault: this is what bounds
\* the attempts by MaxFaults.
Budget ==
  /\ attempt <= faults + 1
  /\ passed = "start" => attempt <= faults
  /\ auto_reconnect =>
       /\ Waiting => attempt <= faults
       /\ /\ attempt \notin completed
          /\ Handler("failed", attempt) \in ready \/ Handler("timeout", attempt) \in ready
          => attempt <= faults

IInv ==
  /\ TypeOK /\ OnOff /\ SessionIsLast /\ PerAttempt /\ NoStraySocket
  /\ WhileOn /\ Budget

USE BoundAssumption, DelayAssumption
-----------------------------------------------------------------------------
(* Small facts.                                                            *)

\* Handlers are told apart by their kind and attempt.
LEMMA HandlerEq ==
  \A k, l, a, b : Handler(k, a) = Handler(l, b) <=> k = l /\ a = b
BY DEF Handler

\* The handlers that the actions make ready are of the right type.
LEMMA HandlerType ==
  /\ \A k \in {"connected", "failed", "timeout"}, a \in Attempts : Handler(k, a) \in Handlers
  /\ Handler("reconnect", 0) \in Handlers
BY DEF Handler, Handlers

\* The numbers of the attempts.
LEMMA AttemptsFacts ==
  /\ \A a \in Attempts : a \in Nat /\ a # 0 /\ a <= MaxFaults + 1
  /\ \A n \in Nat : n < MaxFaults + 1 => n + 1 \in Attempts
  /\ MaxFaults \in Nat
BY DEF Attempts

\* The delay stays within its bounds when it is doubled.
LEMMA DelayFacts ==
  ASSUME NEW d \in InitialRetryDelay..MaxRetryDelay
  PROVE  Shorter(2 * d, MaxRetryDelay) \in InitialRetryDelay..MaxRetryDelay
BY DEF Shorter

-----------------------------------------------------------------------------
(* The inductive step, one action at a time.                               *)

\* asyncConnect() keeps the invariant: nothing has happened before it.
LEMMA AsyncConnectKeeps ==
  ASSUME IInv, asyncConnect
  PROVE  IInv'
<1> USE HandlerEq, HandlerType, AttemptsFacts DEF IInv
<1>1. TypeOK'
  <2>1. attempt = 0 /\ attempt + 1 \in Attempts
    BY DEF asyncConnect, OnOff
  <2>2. InitialRetryDelay \in InitialRetryDelay..MaxRetryDelay
    OBVIOUS
  <2>3. QED
    BY <2>1, <2>2 DEF TypeOK, asyncConnect, startConnect
<1>2. OnOff'
  BY DEF asyncConnect, startConnect, OnOff
<1>3. SessionIsLast'
  BY DEF asyncConnect, startConnect, SessionIsLast, OnOff
<1>4. PerAttempt'
  BY DEF asyncConnect, startConnect, PerAttempt, Untouched, HandlersOf,
     DecidedFirst, OnOff
<1>5. NoStraySocket'
  BY DEF asyncConnect, startConnect, NoStraySocket, PerAttempt, Untouched, OnOff
<1>6. WhileOn'
  BY DEF asyncConnect, startConnect, WhileOn, OneWait, Undecidedness, Decidedness,
     Waiting, PerAttempt, Untouched, OnOff
<1>7. Budget'
  BY DEF asyncConnect, startConnect, Budget, Waiting, OnOff, TypeOK
<1>8. QED
  BY <1>1, <1>2, <1>3, <1>4, <1>5, <1>6, <1>7

\* stop() keeps the invariant, whatever the connector was doing.
LEMMA StopKeeps ==
  ASSUME IInv, stop
  PROVE  IInv'
<1> USE HandlerEq, HandlerType, AttemptsFacts DEF IInv
<1>1. TypeOK'
  <2>1. socket' \in [Attempts -> {"none", "connecting", "aborting", "open", "closed"}]
        /\ stopped' \subseteq Attempts
    BY DEF TypeOK, stop
  <2>2. QED
    BY <2>1 DEF TypeOK, stop
<1>2. OnOff'
  BY DEF stop, OnOff
<1>3. SessionIsLast'
  BY DEF stop, SessionIsLast
<1>4. PerAttempt'
  BY DEF stop, PerAttempt, Untouched, HandlersOf, DecidedFirst, TypeOK,
     SessionIsLast
<1>5. NoStraySocket'
  BY DEF stop, NoStraySocket, TypeOK
<1>6. WhileOn'
  BY DEF stop, WhileOn
<1>7. Budget'
  BY DEF stop, Budget
<1>8. QED
  BY <1>1, <1>2, <1>3, <1>4, <1>5, <1>6, <1>7

\* The end of an async_connect keeps the invariant.
LEMMA ConnectEndsKeeps ==
  ASSUME IInv, NEW a \in Attempts, NEW ok \in BOOLEAN, ConnectEnds(a, ok)
  PROVE  IInv'
<1> USE HandlerEq, HandlerType, AttemptsFacts DEF IInv
<1>1. TypeOK'
  BY DEF TypeOK, ConnectEnds
<1>2. OnOff'
  BY DEF ConnectEnds, OnOff, PerAttempt, Untouched
<1>3. SessionIsLast'
  BY DEF ConnectEnds, SessionIsLast
<1>4. PerAttempt'
  BY DEF ConnectEnds, PerAttempt, Untouched, HandlersOf, DecidedFirst, TypeOK
<1>5. NoStraySocket'
  BY DEF ConnectEnds, NoStraySocket
<1>6. WhileOn'
  BY DEF ConnectEnds, WhileOn, OneWait, Undecidedness, Decidedness, Waiting, TypeOK
<1>7. Budget'
  BY DEF ConnectEnds, Budget, Waiting, PerAttempt, DecidedFirst, OnOff, TypeOK
<1>8. QED
  BY <1>1, <1>2, <1>3, <1>4, <1>5, <1>6, <1>7

\* An expired time-out keeps the invariant.
LEMMA ConnectTimerKeeps ==
  ASSUME IInv, ConnectTimerExpires
  PROVE  IInv'
<1> USE HandlerEq, HandlerType, AttemptsFacts DEF IInv
<1>1. TypeOK'
  BY DEF TypeOK, ConnectTimerExpires
<1>2. OnOff'
  BY DEF ConnectTimerExpires, OnOff
<1>3. SessionIsLast'
  BY DEF ConnectTimerExpires, SessionIsLast
<1>4. PerAttempt'
  BY DEF ConnectTimerExpires, PerAttempt, Untouched, HandlersOf, DecidedFirst,
     SessionIsLast
<1>5. NoStraySocket'
  BY DEF ConnectTimerExpires, NoStraySocket
<1>6. WhileOn'
  BY DEF ConnectTimerExpires, WhileOn, OneWait, Undecidedness, Decidedness, Waiting
<1>7. Budget'
  BY DEF ConnectTimerExpires, Budget, TypeOK
<1>8. QED
  BY <1>1, <1>2, <1>3, <1>4, <1>5, <1>6, <1>7

\* An expired wait keeps the invariant.
LEMMA ReconnectTimerKeeps ==
  ASSUME IInv, ReconnectTimerExpires
  PROVE  IInv'
<1> USE HandlerEq, HandlerType, AttemptsFacts DEF IInv
<1>1. TypeOK'
  BY DelayFacts, ZenonT(60) DEF TypeOK, ReconnectTimerExpires, OnOff, SessionIsLast, Budget
<1>2. OnOff'
  BY DEF ReconnectTimerExpires, OnOff
<1>3. SessionIsLast'
  BY DEF ReconnectTimerExpires, SessionIsLast
<1>4. PerAttempt'
  BY DEF ReconnectTimerExpires, PerAttempt, Untouched, HandlersOf, DecidedFirst
<1>5. NoStraySocket'
  BY DEF ReconnectTimerExpires, NoStraySocket
<1>6. WhileOn'
  BY DEF ReconnectTimerExpires, WhileOn, OneWait, Undecidedness, Decidedness,
     Waiting
<1>7. Budget'
  BY DEF ReconnectTimerExpires, Budget, Waiting
<1>8. QED
  BY <1>1, <1>2, <1>3, <1>4, <1>5, <1>6, <1>7

\* A handler that comes too late keeps the invariant.
LEMMA HandleLateKeeps ==
  ASSUME IInv, NEW a \in Attempts, NEW k \in {"connected", "failed", "timeout"}, HandleLate(k, a)
  PROVE  IInv'
<1> USE HandlerEq, HandlerType, AttemptsFacts DEF IInv
<1>1. TypeOK'
  BY DEF TypeOK, HandleLate, Take
<1>2. OnOff'
  BY DEF HandleLate, Take, OnOff
<1>3. SessionIsLast'
  BY DEF HandleLate, SessionIsLast
<1>4. PerAttempt'
  BY DEF HandleLate, Take, PerAttempt, Untouched, HandlersOf, DecidedFirst, TypeOK
<1>5. NoStraySocket'
  BY DEF HandleLate, NoStraySocket
<1>6. WhileOn'
  BY DEF HandleLate, Take, WhileOn, OneWait, Undecidedness, Decidedness, Waiting
<1>7. Budget'
  BY DEF HandleLate, Take, Budget, Waiting
<1>8. QED
  BY <1>1, <1>2, <1>3, <1>4, <1>5, <1>6, <1>7

\* The success handler keeps the invariant.
LEMMA HandleConnectedKeeps ==
  ASSUME IInv, NEW a \in Attempts, HandleConnected(a)
  PROVE  IInv'
<1> USE HandlerEq, HandlerType, AttemptsFacts DEF IInv
<1>1. TypeOK'
  <2>1. crashed' \in BOOLEAN
    BY Zenon DEF TypeOK, HandleConnected, ConnectedCallback
  <2>2. faults' \in 0..MaxFaults
    BY DEF TypeOK, HandleConnected, ConnectedCallback
  <2>3. QED
    BY <2>1, <2>2 DEF TypeOK, HandleConnected, Take
<1>2. OnOff'
  BY DEF HandleConnected, Undecided, OnOff
<1>3. SessionIsLast'
  BY DEF HandleConnected, SessionIsLast
<1>4. PerAttempt'
  BY DEF HandleConnected, Take, Undecided, PerAttempt, Untouched, HandlersOf,
     DecidedFirst, TypeOK
<1>5. NoStraySocket'
  BY DEF HandleConnected, NoStraySocket
<1>6. WhileOn'
  BY DEF HandleConnected, Take, Undecided, WhileOn, OneWait, Undecidedness,
     Decidedness, Waiting
<1>7. Budget'
  BY DEF HandleConnected, ConnectedCallback, Take, Budget, Waiting, TypeOK
<1>8. QED
  BY <1>1, <1>2, <1>3, <1>4, <1>5, <1>6, <1>7

\* The failure handler keeps the invariant.
LEMMA HandleFailedKeeps ==
  ASSUME IInv, NEW a \in Attempts, HandleFailed(a)
  PROVE  IInv'
<1> USE HandlerEq, HandlerType, AttemptsFacts DEF IInv
<1>1. TypeOK'
  <2>1. reported' \in [Attempts -> Nat]
        /\ passed' \in {"no", "start", "wait"} /\ ready' \subseteq Handlers
        /\ completed' \subseteq Attempts
    BY DEF TypeOK, HandleFailed, handleConnectFailure, Test, Take
  <2>2. QED
    BY <2>1 DEF TypeOK, HandleFailed, handleConnectFailure
<1>2. OnOff'
  BY DEF HandleFailed, Undecided, OnOff
<1>3. SessionIsLast'
  BY DEF HandleFailed, handleConnectFailure, Test, SessionIsLast
<1>4. PerAttempt'
  BY DEF HandleFailed, handleConnectFailure, Take, IoFree, Undecided, PerAttempt,
     Untouched, HandlersOf, DecidedFirst, TypeOK
<1>5. NoStraySocket'
  BY DEF HandleFailed, Take, Undecided, NoStraySocket, PerAttempt, HandlersOf,
     SessionIsLast
<1>6. WhileOn'
  BY DEF HandleFailed, handleConnectFailure, Test, Take, Undecided, WhileOn,
     OneWait, Undecidedness, Decidedness, Waiting
<1>7. Budget'
  BY DEF HandleFailed, handleConnectFailure, Test, Take, Undecided, Budget
<1>8. QED
  BY <1>1, <1>2, <1>3, <1>4, <1>5, <1>6, <1>7

\* The time-out handler keeps the invariant.
LEMMA HandleTimeoutKeeps ==
  ASSUME IInv, NEW a \in Attempts, HandleTimeout(a)
  PROVE  IInv'
<1> USE HandlerEq, HandlerType, AttemptsFacts DEF IInv
<1>1. TypeOK'
  <2>1. socket' \in [Attempts -> {"none", "connecting", "aborting", "open", "closed"}]
        /\ stopped' \subseteq Attempts /\ completed' \subseteq Attempts
    BY DEF TypeOK, HandleTimeout
  <2>2. reported' \in [Attempts -> Nat]
        /\ passed' \in {"no", "start", "wait"} /\ ready' \subseteq Handlers
    BY DEF TypeOK, HandleTimeout, handleConnectFailure, Test, Take
  <2>3. QED
    BY <2>1, <2>2 DEF TypeOK, HandleTimeout, handleConnectFailure
<1>2. OnOff'
  BY DEF HandleTimeout, Undecided, OnOff
<1>3. SessionIsLast'
  BY DEF HandleTimeout, handleConnectFailure, Test, SessionIsLast
<1>4. PerAttempt'
  BY DEF HandleTimeout, handleConnectFailure, Take, Undecided, PerAttempt,
     Untouched, HandlersOf, DecidedFirst, TypeOK
<1>5. NoStraySocket'
  BY DEF HandleTimeout, Undecided, NoStraySocket, SessionIsLast, TypeOK
<1>6. WhileOn'
  BY DEF HandleTimeout, handleConnectFailure, Test, Take, Undecided, WhileOn,
     OneWait, Undecidedness, Decidedness, Waiting
<1>7. Budget'
  BY DEF HandleTimeout, handleConnectFailure, Test, Take, Undecided, Budget
<1>8. QED
  BY <1>1, <1>2, <1>3, <1>4, <1>5, <1>6, <1>7

\* The handler of the wait keeps the invariant.
LEMMA HandleReconnectKeeps ==
  ASSUME IInv, HandleReconnect
  PROVE  IInv'
<1> USE HandlerEq, HandlerType, AttemptsFacts DEF IInv
<1>1. TypeOK'
  BY DEF TypeOK, HandleReconnect, Test, Take
<1>2. OnOff'
  BY DEF HandleReconnect, Take, OnOff
<1>3. SessionIsLast'
  BY DEF HandleReconnect, Test, Take, SessionIsLast, WhileOn, Undecidedness,
     Decidedness, Waiting
<1>4. PerAttempt'
  BY DEF HandleReconnect, Take, PerAttempt, Untouched, HandlersOf, DecidedFirst
<1>5. NoStraySocket'
  BY DEF HandleReconnect, NoStraySocket
<1>6. WhileOn'
  BY DEF HandleReconnect, Test, Take, WhileOn, OneWait, Undecidedness, Decidedness,
     Waiting
<1>7. Budget'
  BY DEF HandleReconnect, Test, Take, Budget, Waiting
<1>8. QED
  BY <1>1, <1>2, <1>3, <1>4, <1>5, <1>6, <1>7

\* The next attempt keeps the invariant, also when stop() has come in between.
LEMMA NextAttemptKeeps ==
  ASSUME IInv, NextAttempt
  PROVE  IInv'
<1> USE HandlerEq, HandlerType, AttemptsFacts DEF IInv
<1>1. TypeOK'
  <2>1. attempt + 1 \in Attempts
    BY DEF NextAttempt, Budget, TypeOK
  <2>2. QED
    BY <2>1 DEF TypeOK, NextAttempt, startConnect
<1>2. OnOff'
  BY DEF NextAttempt, startConnect, OnOff, TypeOK
<1>3. SessionIsLast'
  BY DEF NextAttempt, startConnect, SessionIsLast
<1>4. PerAttempt'
  BY DEF NextAttempt, startConnect, PerAttempt, Untouched, HandlersOf, DecidedFirst,
     SessionIsLast, TypeOK
<1>5. NoStraySocket'
  BY DEF NextAttempt, startConnect, NoStraySocket, PerAttempt, Untouched,
     SessionIsLast, TypeOK
<1>6. WhileOn'
  BY <1>1 DEF NextAttempt, startConnect, WhileOn, OneWait, Undecidedness,
     Decidedness, Waiting, PerAttempt, Untouched, HandlersOf, TypeOK
<1>7. Budget'
  BY DEF NextAttempt, startConnect, Budget, WhileOn, OneWait, Waiting, PerAttempt,
     Untouched, HandlersOf, TypeOK
<1>8. QED
  BY <1>1, <1>2, <1>3, <1>4, <1>5, <1>6, <1>7

\* scheduleReconnect keeps the invariant.
LEMMA ScheduleKeeps ==
  ASSUME IInv, scheduleReconnect
  PROVE  IInv'
<1> USE HandlerEq, HandlerType, AttemptsFacts DEF IInv
<1>1. TypeOK'
  BY DelayFacts DEF TypeOK, scheduleReconnect
<1>2. OnOff'
  BY DEF scheduleReconnect, OnOff
<1>3. SessionIsLast'
  BY DEF scheduleReconnect, SessionIsLast
<1>4. PerAttempt'
  BY DEF scheduleReconnect, PerAttempt, Untouched, HandlersOf, DecidedFirst
<1>5. NoStraySocket'
  BY DEF scheduleReconnect, NoStraySocket
<1>6. WhileOn'
  BY DEF scheduleReconnect, WhileOn, OneWait, Undecidedness, Decidedness, Waiting
<1>7. Budget'
  BY DEF scheduleReconnect, Budget, Waiting
<1>8. QED
  BY <1>1, <1>2, <1>3, <1>4, <1>5, <1>6, <1>7

\* A lost session keeps the invariant.
LEMMA SessionLostKeeps ==
  ASSUME IInv, NEW a \in Attempts, SessionLost(a)
  PROVE  IInv'
<1> USE HandlerEq, HandlerType, AttemptsFacts DEF IInv
<1>1. TypeOK'
  <2>1. connected' \in BOOLEAN
    BY Zenon DEF TypeOK, SessionLost
  <2>2. socket' \in [Attempts -> {"none", "connecting", "aborting", "open", "closed"}]
        /\ stopped' \subseteq Attempts /\ passed' \in {"no", "start", "wait"}
    BY DEF TypeOK, SessionLost, Test
  <2>3. QED
    BY <2>1, <2>2 DEF TypeOK, SessionLost
<1>2. OnOff'
  BY DEF SessionLost, OnOff
<1>3. SessionIsLast'
  BY DEF SessionLost, Test, IoFree, SessionIsLast
<1>4. PerAttempt'
  BY DEF SessionLost, PerAttempt, Untouched, HandlersOf, DecidedFirst
<1>5. NoStraySocket'
  BY DEF SessionLost, NoStraySocket, TypeOK
<1>6. WhileOn'
  BY DEF SessionLost, Test, WhileOn, OneWait, Undecidedness, Decidedness, Waiting,
     PerAttempt, DecidedFirst
<1>7. Budget'
  BY DEF SessionLost, Budget, TypeOK
<1>8. QED
  BY <1>1, <1>2, <1>3, <1>4, <1>5, <1>6, <1>7

\* IInv is an invariant of the specification.
LEMMA Inductive == Spec => []IInv
<1>1. Init => IInv
  <2> SUFFICES ASSUME Init PROVE IInv
    OBVIOUS
  <2> USE AttemptsFacts
  <2>1. TypeOK
    <3>1. retry_delay \in InitialRetryDelay..MaxRetryDelay /\ faults \in 0..MaxFaults
      BY DEF Init
    <3>2. QED
      BY <3>1 DEF Init, TypeOK
  <2>2. OnOff /\ SessionIsLast /\ Budget
    BY DEF Init, OnOff, SessionIsLast, Budget
  <2>3. PerAttempt /\ NoStraySocket
    BY DEF Init, PerAttempt, Untouched, HandlersOf, DecidedFirst, NoStraySocket
  <2>4. WhileOn
    BY DEF Init, WhileOn
  <2>5. QED
    BY <2>1, <2>2, <2>3, <2>4 DEF IInv
<1>2. IInv /\ [Next]_vars => IInv'
  <2> SUFFICES ASSUME IInv, [Next]_vars PROVE IInv'
    OBVIOUS
  <2>1. CASE asyncConnect \/ stop
    BY <2>1, AsyncConnectKeeps, StopKeeps
  <2>2. CASE SomeConnectEnds \/ SomeWaitEnds \/ ConnectTimerExpires
    BY <2>2, ConnectEndsKeeps, ConnectTimerKeeps, ReconnectTimerKeeps DEF
       SomeConnectEnds, SomeWaitEnds
  <2>3. CASE RunHandler
    BY <2>3, HandleLateKeeps, HandleConnectedKeeps, HandleFailedKeeps,
       HandleTimeoutKeeps, HandleReconnectKeeps, NextAttemptKeeps, ScheduleKeeps DEF
       RunHandler
  <2>4. ASSUME NEW a \in Attempts, SessionLost(a) PROVE IInv'
    BY <2>4, SessionLostKeeps
  <2>5. CASE UNCHANGED vars
    <3> USE <2>5 DEF vars, IInv
    <3>1. TypeOK'
      BY DEF TypeOK
    <3>2. OnOff' /\ SessionIsLast' /\ Budget'
      BY DEF OnOff, SessionIsLast, Budget, Waiting
    <3>3. PerAttempt' /\ NoStraySocket'
      BY DEF PerAttempt, Untouched, HandlersOf, DecidedFirst, NoStraySocket
    <3>4. WhileOn'
      BY DEF WhileOn, OneWait, Undecidedness, Decidedness, Waiting
    <3>5. QED
      BY <3>1, <3>2, <3>3, <3>4
  <2>6. QED
    BY <2>1, <2>2, <2>3, <2>4, <2>5 DEF Next
<1>3. QED
  BY <1>1, <1>2, PTL DEF Spec

-----------------------------------------------------------------------------
(* The theorems.                                                           *)

\* Every variable has its type: in particular the attempts never outnumber the
\* faults by more than one, and the delay stays within its bounds
\* (connector.h, scheduleReconnect).
THEOREM TypeCorrect == Spec => []TypeOK
BY Inductive, PTL DEF IInv

\* No attempt that timed out, failed or was stopped leaves a socket connecting
\* or open.
THEOREM SocketsCorrect == Spec => []NoStraySocket
BY Inductive, PTL DEF IInv

\* The connect, its failure and its time-out race for an attempt, and the owner
\* is told about it at most once, and exactly once before the next one begins.
THEOREM ReportsCorrect == Spec => []ReportedOnce
<1>1. IInv => ReportedOnce
  BY DEF IInv, TypeOK, PerAttempt, DecidedFirst, ReportedOnce
<1>2. QED
  BY <1>1, Inductive, PTL

\* While reconnecting is on exactly one of the wait, the attempt and the
\* connection moves the connector on.
THEOREM OneWayCorrect == Spec => []OneWayOn
<1>1. IInv => OneWayOn
  <2> SUFFICES ASSUME IInv, auto_reconnect PROVE
        /\ Waiting \/ Connecting \/ Established
        /\ ~(Waiting /\ Connecting) /\ ~(Waiting /\ Established) /\ ~(Connecting /\ Established)
        /\ connected => Established
    BY DEF OneWayOn
  <2>1. attempt # 0 /\ WhileOn
    BY DEF IInv, OnOff
  <2>2. CASE attempt \in completed
    BY <2>1, <2>2 DEF WhileOn, Decidedness, Connecting, Established
  <2>3. CASE attempt \notin completed
    BY <2>1, <2>3 DEF WhileOn, Undecidedness, Connecting, Established
  <2>4. QED
    BY <2>2, <2>3
<1>2. QED
  BY <1>1, Inductive, PTL

\* After stop no attempt is started, but for one that was past its test.
THEOREM StopCorrect == Spec => NoAttemptAfterStop
<1> DEFINE A == stopCalled /\ passed # "start" =>
                  passed' # "start" /\ attempt' = attempt /\ session' \in {0, session}
<1>1. IInv /\ [Next]_vars => [A]_vars
  <2> SUFFICES ASSUME IInv, Next, stopCalled, passed # "start"
               PROVE  passed' # "start" /\ attempt' = attempt /\ session' \in {0, session}
    OBVIOUS
  <2>1. ~auto_reconnect
    BY DEF IInv, OnOff
  <2>2. CASE asyncConnect \/ stop
    BY <2>2 DEF asyncConnect, stop
  <2>3. CASE SomeConnectEnds \/ SomeWaitEnds \/ ConnectTimerExpires
    BY <2>3 DEF SomeConnectEnds, SomeWaitEnds, ConnectEnds, ConnectTimerExpires,
       ReconnectTimerExpires
  <2>4. CASE RunHandler
    BY <2>1, <2>4 DEF RunHandler, HandleLate, HandleConnected, HandleFailed,
       HandleTimeout, HandleReconnect, NextAttempt, scheduleReconnect,
       handleConnectFailure, Test
  <2>5. CASE \E a \in Attempts : SessionLost(a)
    BY <2>5 DEF SessionLost, Test
  <2>6. QED
    BY <2>2, <2>3, <2>4, <2>5 DEF Next
<1>2. QED
  BY <1>1, Inductive, PTL DEF Spec, NoAttemptAfterStop
=============================================================================
