--------------------------- MODULE ClientService ---------------------------
(***************************************************************************)
(* The client program's life: ClientService::start, run and stop on the    *)
(* main thread, the callbacks of its connector on an io thread, the signal *)
(* handler on another, and the one flag through which they speak           *)
(* (g_stop_flag_, utils/runningFlag.cpp).                                  *)
(***************************************************************************)
EXTENDS Naturals

CONSTANT MaxLosses    \* bound: how often the connection is lost

VARIABLES
  stop_flag,    \* g_stop_flag_
  connected,    \* connector_->isConnected()
  stopping,     \* connector_->stop() has been called
  armed,        \* the signal handler waits: it does so once
  signalled,    \* history: the handler has run and set the flag
  lost,         \* how often the connection was lost
  registered,   \* g_packetParser->Init() has run
  main          \* where the main thread is

vars == <<stop_flag, connected, stopping, armed, signalled, lost, registered, main>>

isGameRunning == ~stop_flag

-----------------------------------------------------------------------------
(* The main thread.                                                        *)

\* The signal handler is installed, after asyncConnect.
StartSignals ==
  /\ main = "connecting"
  /\ armed' = TRUE
  /\ main' = "starting"
  /\ UNCHANGED <<stop_flag, connected, stopping, signalled, lost, registered>>

\* The parser is initialised if the program is not running.
mustRegister == ~isGameRunning

StartRegisters ==
  /\ main = "starting"
  /\ registered' = mustRegister
  /\ main' = "started"
  /\ UNCHANGED <<stop_flag, connected, stopping, armed, signalled, lost>>

\* start() returns isGameRunning(): without it main() ends at once.
StartReturns ==
  /\ main = "started"
  /\ main' = IF isGameRunning THEN "loop" ELSE "ended"
  /\ UNCHANGED <<stop_flag, connected, stopping, armed, signalled, lost, registered>>

\* The head of the loop of run().
LoopHead ==
  /\ main = "loop"
  /\ main' = IF isGameRunning THEN "reading" ELSE "stop"
  /\ UNCHANGED <<stop_flag, connected, stopping, armed, signalled, lost, registered>>

\* A line is read: leave the loop, or send it.
ReadLine ==
  /\ main = "reading"
  /\ main' = IF ~isGameRunning \/ ~connected THEN "stop" ELSE "loop"
  /\ UNCHANGED <<stop_flag, connected, stopping, armed, signalled, lost, registered>>

\* The end of the input.
ReadEnd ==
  /\ main = "reading"
  /\ stop_flag' = TRUE
  /\ main' = "stop"
  /\ UNCHANGED <<connected, stopping, armed, signalled, lost, registered>>

\* stop(): the flag, the connector and the pool, whose threads end.
Stop ==
  /\ main = "stop"
  /\ stop_flag' = TRUE
  /\ stopping' = TRUE
  /\ connected' = FALSE
  /\ main' = "ended"
  /\ UNCHANGED <<armed, signalled, lost, registered>>

-----------------------------------------------------------------------------
(* The io threads.                                                         *)

\* The connector connects, or connects again: enableGameRunning.
Connected ==
  /\ ~connected /\ ~stopping /\ main # "ended"
  /\ connected' = TRUE
  /\ stop_flag' = FALSE
  /\ UNCHANGED <<stopping, armed, signalled, lost, registered, main>>

\* The callback asks for the peer's address first (Session::remote_ep), which
\* throws when the peer has gone already: std::terminate ends the process.
ConnectedThrows ==
  /\ ~connected /\ ~stopping /\ main # "ended"
  /\ main' = "ended"
  /\ UNCHANGED <<stop_flag, connected, stopping, armed, signalled, lost, registered>>

\* The connection is lost: disableGameRunning.
Disconnected ==
  /\ connected /\ lost < MaxLosses
  /\ connected' = FALSE
  /\ stop_flag' = TRUE
  /\ lost' = lost + 1
  /\ UNCHANGED <<stopping, armed, signalled, registered, main>>

\* The first signal; the handler does not wait again.
Signal ==
  /\ armed /\ main # "ended"
  /\ armed' = FALSE
  /\ signalled' = (signalled \/ ~stop_flag)
  /\ stop_flag' = TRUE
  /\ UNCHANGED <<connected, stopping, lost, registered, main>>

-----------------------------------------------------------------------------

Init ==
  /\ stop_flag = FALSE /\ connected = FALSE /\ stopping = FALSE
  /\ armed = FALSE /\ signalled = FALSE /\ lost = 0 /\ registered = FALSE
  /\ main = "connecting"

MainStep ==
  StartSignals \/ StartRegisters \/ StartReturns \/ LoopHead \/ ReadLine \/ Stop

Next == MainStep \/ ReadEnd \/ Connected \/ ConnectedThrows \/ Disconnected \/ Signal

\* The main thread runs, and its user types.
Spec == Init /\ [][Next]_vars /\ WF_vars(MainStep)

-----------------------------------------------------------------------------
(* Properties.                                                             *)

\* "received signal, stopping client": after the signal the client stops.
SignalStops == signalled ~> (main = "ended")
=============================================================================
