------------------------------ MODULE Service ------------------------------
(***************************************************************************)
(* The life of a server program (main.cpp and service.cpp of the gate, the *)
(* game, the login, the world and the database server): start() step by    *)
(* step, any of which may fail, the main loop on g_stop_flag_, stop(), and *)
(* the destruction of the service object, over the Server and the pool of  *)
(* io threads that they start.                                             *)
(*                                                                         *)
(* What the programs have besides is in other modules: the gate's          *)
(* connectors, stopped between the server and the pool, in Connector; the  *)
(* login server's workers, started behind the server and joined before it  *)
(* is stopped, in LoginServer.                                             *)
(***************************************************************************)
EXTENDS Server, Sequences

CONSTANT Programs   \* a subset of {"Gate", "Game", "Login", "World", "Db"}

ASSUME ServiceAssumption == Programs \subseteq {"Gate", "Game", "Login", "World", "Db"}

VARIABLES
  program,      \* which program this is
  step,         \* the steps of start() that are done
  stopFlag,     \* g_stop_flag_
  armed,        \* signals_ waits for a signal; it waits once
  registered,   \* the packet handlers are registered
  ran,          \* history: start() returned true
  ended         \* "no", "exited" (main returned), "aborted" (std::terminate)

serviceVars == <<program, step, stopFlag, armed, registered, ran, ended>>
vars == <<serverVars, serviceVars>>

\* The process is there.
Lives == ended = "no"

\* start(), in the order of the source.
Order(p) ==
  IF p \in {"Gate", "World", "Db"}
  THEN <<"config", "pool", "signals", "server", "register">>
  ELSE <<"config", "pool", "server", "signals", "register">>

\* The next step of start().
Doing(s) == Lives /\ main = "starting" /\ step < 5 /\ Order(program)[step + 1] = s
Done == step' = step + 1 /\ UNCHANGED <<program, ran, ended>>

-----------------------------------------------------------------------------
(* start().                                                                *)

\* g_Config->Init
InitConfig ==
  /\ Doing("config")
  /\ Done
  /\ UNCHANGED <<serverVars, stopFlag, armed, registered>>

StartPool ==
  /\ Doing("pool")
  /\ startPool
  /\ Done
  /\ UNCHANGED <<stopFlag, armed, registered>>

WaitForSignal ==
  /\ Doing("signals")
  /\ armed' = TRUE
  /\ Done
  /\ UNCHANGED <<serverVars, stopFlag, registered>>

StartServer ==
  /\ Doing("server")
  /\ startServer
  /\ Done
  /\ UNCHANGED <<stopFlag, armed, registered>>

\* The tail of start(): the game and the login server register their handlers
\* if nobody has stopped them; the gate if both its servers are connected, and
\* then it clears the flag as well; the others have none.
Register ==
  /\ Doing("register")
  /\ \/ program \in {"Game", "Login"} /\ registered' = ~stopFlag /\ UNCHANGED stopFlag
     \/ program = "Gate" /\ registered' = TRUE /\ stopFlag' = FALSE
     \/ program \in {"Gate", "World", "Db"} /\ UNCHANGED <<registered, stopFlag>>
  /\ Done
  /\ UNCHANGED <<serverVars, armed>>

\* The configuration is not there, or the port is taken and the constructor of
\* the server throws: start() returns false, main returns 0 without stop().
StartFails ==
  /\ Doing("config") \/ Doing("server")
  /\ main' = "abandoned"
  /\ stopFlag' = (stopFlag \/ (Doing("server") /\ program # "World"))
  /\ UNCHANGED <<made, listener, open, sessions, started, phase, stopper, owner,
                 curList, ioRuns, program, step, armed, registered, ran, ended>>

\* return isGameRunning(): a signal that came meanwhile is a failure.
StartReturns ==
  /\ Lives /\ main = "starting" /\ step = 5
  /\ main' = IF stopFlag THEN "abandoned" ELSE "running"
  /\ ran' = ~stopFlag
  /\ UNCHANGED <<made, listener, open, sessions, started, phase, stopper, owner, curList,
                 ioRuns, program, step, stopFlag, armed, registered, ended>>

-----------------------------------------------------------------------------
(* Running and ending.                                                     *)

\* The handler of signals_, on an io thread.
Signal ==
  /\ Lives /\ armed /\ ioRuns
  /\ armed' = FALSE
  /\ stopFlag' = TRUE
  /\ UNCHANGED <<serverVars, program, step, registered, ran, ended>>

\* run() returns and stop() begins; or ~Server begins, in the destructor of
\* the service.
Stop ==
  /\ Lives
  /\ main = "running" => stopFlag
  /\ CloseAcceptor
  /\ UNCHANGED serviceVars

\* The service object has gone: at last the pool, whose threads must have been
\* joined, or std::terminate is called.
ProcessEnds ==
  /\ Lives
  /\ main = "destroyed" \/ (main = "abandoned" /\ listener = "off")
  /\ ended' = IF ioRuns THEN "aborted" ELSE "exited"
  /\ UNCHANGED <<serverVars, program, step, stopFlag, armed, registered, ran>>

-----------------------------------------------------------------------------

Init ==
  /\ ServerInit
  /\ program \in Programs
  /\ step = 0 /\ stopFlag = FALSE /\ armed = FALSE /\ registered = FALSE
  /\ ran = FALSE /\ ended = "no"

StartStep ==
  InitConfig \/ StartPool \/ WaitForSignal \/ StartServer \/ Register \/ StartReturns
IoStep == Lives /\ (ListenerStep \/ StopStep) /\ UNCHANGED serviceVars
MainStep == (Lives /\ CloseStep /\ UNCHANGED serviceVars) \/ Stop \/ ProcessEnds

Next ==
  \/ StartStep \/ StartFails \/ Signal
  \/ /\ Lives
     /\ ConnectionArrives \/ ListenerThrows \/ (\E s \in Sessions : SessionBreaks(s))
     /\ UNCHANGED serviceVars
  \/ IoStep \/ MainStep

\* The threads run.
Fairness == WF_vars(StartStep) /\ WF_vars(IoStep) /\ WF_vars(MainStep)

Spec == Init /\ [][Next]_vars /\ Fairness

-----------------------------------------------------------------------------
(* Properties.                                                             *)

\* Every variable has its type.
TypeOK ==
  /\ ServerTypeOK
  /\ program \in Programs /\ step \in 0..5
  /\ stopFlag \in BOOLEAN /\ armed \in BOOLEAN
  /\ registered \in BOOLEAN /\ ran \in BOOLEAN
  /\ ended \in {"no", "exited", "aborted"}

\* When a program that ran ends, every session has been stopped and its owner
\* told, even one whose connection arrived while stop() was under way.
AllStoppedAtEnd ==
  ran /\ ~Lives => owner = {} /\ sessions = {} /\ \A s \in 1..made : phase[s] = "gone"

\* In a program that ran, no io thread is left and none is inside a handler when
\* the Server that the handlers use is destroyed, and the process ends without
\* std::terminate.  A program whose start() failed is not covered (ran), nor is
\* what the connectors' callbacks may throw, which is in the module Connector.
DestroyedAlone ==
  ran =>
    /\ main \in {"destroying", "closing again", "destroyed"} =>
         /\ ~ioRuns /\ listener \notin {"told", "added"}
         /\ \A s \in Sessions : stopper[s] # "io"
    /\ ended # "aborted"

\* Once the flag is set the process ends, wherever it was: in start(), in the
\* loop, or waiting for its threads.  Only the gate can take the flag back,
\* at the end of its start().
FlagEndsProcess == stopFlag ~> (~Lives \/ (program = "Gate" /\ ~stopFlag))
=============================================================================
