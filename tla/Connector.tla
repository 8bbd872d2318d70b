----------------------------- MODULE Connector -----------------------------
(***************************************************************************)
(* The reconnecting client side of a connection                            *)
(* (src/share/networkEx/connector.h), as the gate uses it towards the      *)
(* login and game servers and the client towards the gate.                 *)
(*                                                                         *)
(* All handlers run on the one thread of the connector's io_context.  A    *)
(* handler is one step, or two where it tests auto_reconnect_ first: then  *)
(* stop(), which the main thread calls, may come in between.  An           *)
(* asynchronous operation that ends puts its handler among the ready ones, *)
(* and from then on cancelling the operation has no effect: this is the    *)
(* race the code's "completed" flag is for.  Ready handlers run in any     *)
(* order.  The handler of a cancelled wait only returns, and is left out.  *)
(*                                                                         *)
(* A session is made for each attempt and is named by the attempt's number.*)
(***************************************************************************)
EXTENDS Naturals

CONSTANTS
  MaxFaults,         \* bound: failed attempts, expired time-outs, lost sessions
  InitialRetryDelay, \* initial_retry_delay_
  MaxRetryDelay      \* max_retry_delay_

ASSUME BoundAssumption == MaxFaults \in Nat
ASSUME DelayAssumption ==
  /\ InitialRetryDelay \in Nat \ {0}
  /\ MaxRetryDelay \in Nat
  /\ InitialRetryDelay <= MaxRetryDelay

Attempts == 1..(MaxFaults + 1)

VARIABLES
  asked,          \* asyncConnect has been called
  stopCalled,     \* stop has been called
  auto_reconnect, \* auto_reconnect_
  connected,      \* connected_
  session,        \* session_: the attempt it was made for, 0 for none
  attempt,        \* connect_attempt_
  retry_delay,    \* retry_delay_
  completed,      \* the attempts whose "completed" flag is set
  socket,         \* the socket of each session
  stopped,        \* the sessions with stopped_ set
  disconnectProc, \* the sessions that have onConnected's disconnect handler
  connectTimer,   \* the attempt connectTimer_ waits for, 0 when it is idle
  reconnectTimer, \* whether reconnectTimer_ waits
  ready,          \* the handlers that are ready to run
  passed,         \* the test of auto_reconnect_ that the io thread has just
                  \* passed: "start" or "wait", else "no"
  reported,       \* how often the owner was told about each attempt: calls of
                  \* connected_callback_ and failed_callback_
  crashed,        \* a callback has thrown: std::terminate ended the process
  faults          \* faults that have happened (bound only)

vars == <<asked, stopCalled, auto_reconnect, connected, session, attempt,
          retry_delay, completed, socket, stopped, disconnectProc,
          connectTimer, reconnectTimer, ready, passed, reported, crashed, faults>>

Handlers == [kind : {"connected", "failed", "timeout"}, attempt : Attempts]
            \cup [kind : {"reconnect"}, attempt : {0}]
Handler(k, a) == [kind |-> k, attempt |-> a]

\* std::min of two delays
Shorter(d, e) == IF d <= e THEN d ELSE e

-----------------------------------------------------------------------------

\* startConnect, past its test: a new session and its time-out.
startConnect ==
  /\ connected' = FALSE
  /\ attempt' = attempt + 1
  /\ session' = attempt + 1
  /\ socket' = [socket EXCEPT ![attempt + 1] = "connecting"]
  /\ connectTimer' = attempt + 1

\* The test at the head of startConnect and of scheduleReconnect.
Test(next) == passed' = IF auto_reconnect THEN next ELSE "no"

\* handleConnectFailure
handleConnectFailure(a) ==
  /\ connected' = FALSE
  /\ session' = 0
  /\ reported' = [reported EXCEPT ![a] = @ + 1]
  /\ Test("wait")

-----------------------------------------------------------------------------
(* What the owner calls.                                                   *)

\* asyncConnect: the programs call it once for a connector.
asyncConnect ==
  /\ ~asked /\ ~stopCalled
  /\ asked' = TRUE
  /\ retry_delay' = InitialRetryDelay
  /\ auto_reconnect' = TRUE
  /\ startConnect
  /\ UNCHANGED <<stopCalled, completed, stopped, disconnectProc,
                 reconnectTimer, ready, passed, reported, crashed, faults>>

\* Mutant: reconnecting is left on.
stop_KeepsReconnecting ==
  /\ ~stopCalled
  /\ stopCalled' = TRUE
  /\ connected' = FALSE
  /\ connectTimer' = 0
  /\ reconnectTimer' = FALSE
  /\ session' = 0
  /\ IF session # 0
     THEN /\ stopped' = stopped \cup {session}
          /\ socket' = [socket EXCEPT ![session] =
                          IF @ = "connecting" THEN "aborting" ELSE "closed"]
     ELSE UNCHANGED <<stopped, socket>>
  /\ UNCHANGED <<asked, auto_reconnect, attempt, retry_delay, completed,
                 disconnectProc, ready, passed, reported, crashed, faults>>

\* stop: no more attempts, timers cancelled, the session stopped.  Its
\* disconnect handler sees that session_ is another one and returns.
stop ==
  /\ ~stopCalled
  /\ stopCalled' = TRUE
  /\ auto_reconnect' = FALSE
  /\ connected' = FALSE
  /\ connectTimer' = 0
  /\ reconnectTimer' = FALSE
  /\ session' = 0
  /\ IF session # 0
     THEN /\ stopped' = stopped \cup {session}
          /\ socket' = [socket EXCEPT ![session] =
                          IF @ = "connecting" THEN "aborting" ELSE "closed"]
     ELSE UNCHANGED <<stopped, socket>>
  /\ UNCHANGED <<asked, attempt, retry_delay, completed, disconnectProc,
                 ready, passed, reported, crashed, faults>>

-----------------------------------------------------------------------------
(* Asynchronous operations that end.                                       *)

\* async_connect of an attempt succeeds, or fails (an aborted one only fails).
ConnectEnds(a, ok) ==
  /\ \/ socket[a] = "connecting" /\ (ok \/ faults < MaxFaults)
     \/ socket[a] = "aborting" /\ ~ok
  /\ faults' = IF ok \/ socket[a] = "aborting" THEN faults ELSE faults + 1
  /\ socket' = [socket EXCEPT ![a] = IF ok THEN "open" ELSE "closed"]
  /\ ready' = ready \cup {Handler(IF ok THEN "connected" ELSE "failed", a)}
  /\ UNCHANGED <<asked, stopCalled, auto_reconnect, connected, session,
                 attempt, retry_delay, completed, stopped, disconnectProc,
                 connectTimer, reconnectTimer, passed, reported, crashed>>

\* connectTimer_ expires.
ConnectTimerExpires ==
  /\ connectTimer # 0 /\ faults < MaxFaults
  /\ faults' = faults + 1
  /\ ready' = ready \cup {Handler("timeout", connectTimer)}
  /\ connectTimer' = 0
  /\ UNCHANGED <<asked, stopCalled, auto_reconnect, connected, session,
                 attempt, retry_delay, completed, socket, stopped,
                 disconnectProc, reconnectTimer, passed, reported, crashed>>

\* reconnectTimer_ expires.
ReconnectTimerExpires ==
  /\ reconnectTimer
  /\ reconnectTimer' = FALSE
  /\ ready' = ready \cup {Handler("reconnect", 0)}
  /\ UNCHANGED <<asked, stopCalled, auto_reconnect, connected, session,
                 attempt, retry_delay, completed, socket, stopped,
                 disconnectProc, connectTimer, passed, reported, crashed,
                 faults>>

-----------------------------------------------------------------------------
(* The handlers.                                                           *)

IoFree == passed = "no"
Take(h) == IoFree /\ h \in ready /\ ready' = ready \ {h}

\* The handler of an attempt that was decided before: the "completed" flag is
\* set, or the attempt is not the last one.
HandleLate(k, a) ==
  /\ Take(Handler(k, a))
  /\ a \in completed \/ a # attempt
  /\ completed' = completed \cup {a}
  /\ UNCHANGED <<asked, stopCalled, auto_reconnect, connected, session,
                 attempt, retry_delay, socket, stopped, disconnectProc,
                 connectTimer, reconnectTimer, passed, reported, crashed,
                 faults>>

\* Mutant: the flag is not looked at, only the number of the attempt.
Undecided_AttemptOnly(a) == a = attempt

\* completed->exchange(true) was false and the attempt is the last one.
Undecided(a) == a \notin completed /\ a = attempt

\* The owners' connected callbacks ask for the peer's address first thing
\* (Session::remote_ep), which throws when stop() has closed the socket or the
\* peer has reset the connection.  Nothing catches it.
ConnectedCallback(a) ==
  \/ socket[a] = "open" /\ UNCHANGED <<crashed, faults>>
  \/ socket[a] # "open" /\ crashed' = TRUE /\ UNCHANGED faults
  \/ /\ socket[a] = "open" /\ faults < MaxFaults
     /\ crashed' = TRUE /\ faults' = faults + 1

\* The success handler and onConnected.
HandleConnected(a) ==
  /\ Take(Handler("connected", a)) /\ Undecided(a)
  /\ completed' = completed \cup {a}
  /\ connectTimer' = 0
  /\ connected' = TRUE
  /\ retry_delay' = InitialRetryDelay
  /\ disconnectProc' = disconnectProc \cup {a}
  /\ reported' = [reported EXCEPT ![a] = @ + 1]
  /\ ConnectedCallback(a)
  /\ UNCHANGED <<asked, stopCalled, auto_reconnect, session, attempt, socket,
                 stopped, reconnectTimer, passed>>

\* The failure handler.
HandleFailed(a) ==
  /\ Take(Handler("failed", a)) /\ Undecided(a)
  /\ completed' = completed \cup {a}
  /\ connectTimer' = 0
  /\ handleConnectFailure(a)
  /\ UNCHANGED <<asked, stopCalled, auto_reconnect, attempt, retry_delay,
                 socket, stopped, disconnectProc, reconnectTimer, crashed,
                 faults>>

\* Mutant: the session is left to its own devices.
HandleTimeout_NoStop(a) ==
  /\ Take(Handler("timeout", a)) /\ Undecided(a)
  /\ completed' = completed \cup {a}
  /\ handleConnectFailure(a)
  /\ UNCHANGED <<asked, stopCalled, auto_reconnect, attempt, retry_delay,
                 socket, stopped, disconnectProc, connectTimer,
                 reconnectTimer, crashed, faults>>

\* The time-out handler stops the session and gives the attempt up.
HandleTimeout(a) ==
  /\ Take(Handler("timeout", a)) /\ Undecided(a)
  /\ completed' = completed \cup {a}
  /\ stopped' = stopped \cup {a}
  /\ socket' = [socket EXCEPT ![a] = IF @ = "connecting" THEN "aborting" ELSE "closed"]
  /\ handleConnectFailure(a)
  /\ UNCHANGED <<asked, stopCalled, auto_reconnect, attempt, retry_delay,
                 disconnectProc, connectTimer, reconnectTimer, crashed,
                 faults>>

\* The handler of reconnectTimer_ comes to startConnect.
HandleReconnect ==
  /\ Take(Handler("reconnect", 0))
  /\ Test("start")
  /\ UNCHANGED <<asked, stopCalled, auto_reconnect, connected, session,
                 attempt, retry_delay, completed, socket, stopped,
                 disconnectProc, connectTimer, reconnectTimer, reported,
                 crashed, faults>>

\* startConnect goes on.
NextAttempt ==
  /\ passed = "start"
  /\ passed' = "no"
  /\ startConnect
  /\ UNCHANGED <<asked, stopCalled, auto_reconnect, retry_delay, completed,
                 stopped, disconnectProc, reconnectTimer, ready, reported,
                 crashed, faults>>

\* Mutant: the delay grows but the wait is forgotten.
scheduleReconnect_NoWait ==
  /\ passed = "wait"
  /\ passed' = "no"
  /\ retry_delay' = Shorter(2 * retry_delay, MaxRetryDelay)
  /\ UNCHANGED <<asked, stopCalled, auto_reconnect, connected, session,
                 attempt, completed, socket, stopped, disconnectProc,
                 connectTimer, reconnectTimer, ready, reported, crashed,
                 faults>>

\* scheduleReconnect goes on: wait for the delay, and double it for next time.
scheduleReconnect ==
  /\ passed = "wait"
  /\ passed' = "no"
  /\ retry_delay' = Shorter(2 * retry_delay, MaxRetryDelay)
  /\ reconnectTimer' = TRUE
  /\ UNCHANGED <<asked, stopCalled, auto_reconnect, connected, session,
                 attempt, completed, socket, stopped, disconnectProc,
                 connectTimer, ready, reported, crashed, faults>>

\* A connected session is lost (a read or write error, a missed heartbeat):
\* Session::stop and the disconnect handler of onConnected.
SessionLost(a) ==
  /\ IoFree /\ faults < MaxFaults
  /\ faults' = faults + 1
  /\ socket[a] = "open" /\ a \in disconnectProc /\ a \notin stopped
  /\ stopped' = stopped \cup {a}
  /\ socket' = [socket EXCEPT ![a] = "closed"]
  /\ IF session = a
     THEN connected' = FALSE /\ session' = 0 /\ Test("wait")
     ELSE UNCHANGED <<connected, session, passed>>
  /\ UNCHANGED <<asked, stopCalled, auto_reconnect, attempt, retry_delay,
                 completed, disconnectProc, connectTimer, reconnectTimer,
                 ready, reported, crashed>>

-----------------------------------------------------------------------------

Init ==
  /\ asked = FALSE /\ stopCalled = FALSE
  /\ auto_reconnect = FALSE /\ connected = FALSE
  /\ session = 0 /\ attempt = 0
  /\ retry_delay = InitialRetryDelay
  /\ completed = {}
  /\ socket = [a \in Attempts |-> "none"]
  /\ stopped = {} /\ disconnectProc = {}
  /\ connectTimer = 0 /\ reconnectTimer = FALSE
  /\ ready = {} /\ passed = "no"
  /\ reported = [a \in Attempts |-> 0]
  /\ crashed = FALSE /\ faults = 0

RunHandler ==
  /\ ~crashed
  /\ \/ \E a \in Attempts :
          \/ \E k \in {"connected", "failed", "timeout"} : HandleLate(k, a)
          \/ HandleConnected(a) \/ HandleFailed(a) \/ HandleTimeout(a)
     \/ HandleReconnect \/ NextAttempt \/ scheduleReconnect

SomeConnectEnds == ~crashed /\ \E a \in Attempts, ok \in BOOLEAN : ConnectEnds(a, ok)
SomeWaitEnds == ~crashed /\ ReconnectTimerExpires

Next ==
  \/ ~crashed /\ (asyncConnect \/ stop)
  \/ SomeConnectEnds \/ SomeWaitEnds
  \/ ~crashed /\ ConnectTimerExpires
  \/ RunHandler
  \/ ~crashed /\ \E a \in Attempts : SessionLost(a)

\* The io thread runs what is ready, and the operating system ends every
\* connection attempt and every wait.  Nothing makes a session fail.
Fairness ==
  /\ WF_vars(RunHandler)
  /\ WF_vars(SomeConnectEnds)
  /\ WF_vars(SomeWaitEnds)

Spec == Init /\ [][Next]_vars /\ Fairness

-----------------------------------------------------------------------------
(* Properties.                                                             *)

\* Every variable has the type of the field it stands for.
TypeOK ==
  /\ asked \in BOOLEAN /\ stopCalled \in BOOLEAN /\ auto_reconnect \in BOOLEAN
  /\ connected \in BOOLEAN /\ reconnectTimer \in BOOLEAN
  /\ session \in {0} \cup Attempts
  /\ attempt \in {0} \cup Attempts
  /\ retry_delay \in InitialRetryDelay..MaxRetryDelay
  /\ completed \subseteq Attempts
  /\ socket \in [Attempts -> {"none", "connecting", "aborting", "open", "closed"}]
  /\ stopped \subseteq Attempts /\ disconnectProc \subseteq Attempts
  /\ connectTimer \in {0} \cup Attempts
  /\ ready \subseteq Handlers /\ passed \in {"no", "start", "wait"}
  /\ reported \in [Attempts -> Nat]
  /\ crashed \in BOOLEAN /\ faults \in 0..MaxFaults

\* A socket that is connecting or open belongs to the current session: no
\* attempt that timed out, failed or was stopped leaves a connection behind.
NoStraySocket ==
  \A a \in Attempts :
    socket[a] \in {"connecting", "open"} =>
      a = session /\ a \notin stopped

\* The owner is told about an attempt once: the connect, its failure and its
\* time-out race for the call of its callback, and one of them makes it.  No
\* attempt is told about twice, and none is given up for the next in silence.
ReportedOnce ==
  \A a \in Attempts :
    /\ reported[a] <= 1
    /\ a < attempt => reported[a] = 1

\* While reconnecting is on, exactly one thing will move the connector on: the
\* wait before the next attempt, an attempt that is not decided, or a session
\* that is connected.
Waiting == reconnectTimer \/ Handler("reconnect", 0) \in ready \/ passed # "no"
Connecting == session # 0 /\ session = attempt /\ session \notin completed
Established == connected /\ session # 0 /\ socket[session] = "open"
OneWayOn ==
  auto_reconnect =>
    /\ Waiting \/ Connecting \/ Established
    /\ ~(Waiting /\ Connecting) /\ ~(Waiting /\ Established) /\ ~(Connecting /\ Established)
    /\ connected => Established

\* After stop no attempt is started, whatever handlers were already ready: but
\* for the one whose startConnect was past its test of auto_reconnect_ when
\* stop came.  (The end of its io_context closes that one.)
NoAttemptAfterStop ==
  [][stopCalled /\ passed # "start" =>
       passed' # "start" /\ attempt' = attempt /\ session' \in {0, session}]_vars

\* When faults cease, a connector that was asked to connect and not stopped
\* becomes connected and stays so, unless a callback ends the process.
ReconnectsEventually == asked ~> (stopCalled \/ crashed \/ []Established)
=============================================================================
