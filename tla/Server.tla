------------------------------- MODULE Server -------------------------------
(***************************************************************************)
(* Accepting and shutting down (networkEx/server.h, ioContextPool.h): the  *)
(* listener coroutine on one io thread, the sessions on another, and the   *)
(* main thread, which starts the pool and the server and later runs        *)
(* Server::stop, IoContextPool::stop and, when the service object dies,    *)
(* Server::stop once more from ~Server.  When it does so is up to the      *)
(* program: module Service.                                                *)
(***************************************************************************)
EXTENDS Naturals, FiniteSets

CONSTANT MaxSessions    \* bound: connections that arrive

ASSUME ServerAssumption == MaxSessions \in Nat \ {0}

Sessions == 1..MaxSessions

VARIABLES
  made,       \* sessions made so far
  listener,   \* where listener() is: "off" (no server yet), "accepting"
              \* (suspended), "ready" (a connection is there), "told",
              \* "added", "spinning", "done"
  open,       \* acceptor_ is open
  sessions,   \* sessions_
  started,    \* the sessions whose coroutines run
  phase,      \* per session, stop(): "live", "won" (stopped_ is set),
              \* "told" (disconnect_proc_ has run), "gone" (erased)
  stopper,    \* per session: the thread that is inside stop()
  owner,      \* the sessions the owner knows: its own table
  main,       \* where the main thread is
  curList,    \* closeAll's own copy of sessions_
  ioRuns      \* the io threads still take handlers

serverVars == <<made, listener, open, sessions, started, phase, stopper, owner,
                main, curList, ioRuns>>

-----------------------------------------------------------------------------
(* Starting, on the main thread.                                           *)

\* IoContextPool::start
startPool ==
  /\ ~ioRuns
  /\ ioRuns' = TRUE
  /\ UNCHANGED <<made, listener, open, sessions, started, phase, stopper, owner,
                 main, curList>>

\* The constructor, which binds the port, and Server::start.
startServer ==
  /\ listener = "off"
  /\ listener' = "accepting"
  /\ open' = TRUE
  /\ UNCHANGED <<made, sessions, started, phase, stopper, owner, main, curList, ioRuns>>

-----------------------------------------------------------------------------
(* The listener.  From "ready" on it runs to its next accept in one go,    *)
(* but other threads run meanwhile.                                        *)

\* async_accept completes.
ConnectionArrives ==
  /\ listener = "accepting" /\ open /\ made < MaxSessions
  /\ listener' = "ready"
  /\ UNCHANGED <<made, open, sessions, started, phase, stopper, owner, main,
                 curList, ioRuns>>

\* remote_endpoint() throws when the peer has gone already: the exception ends
\* the coroutine, and nothing is accepted any more.
ListenerThrows ==
  /\ listener = "ready" /\ ioRuns
  /\ listener' = "done"
  /\ UNCHANGED <<made, open, sessions, started, phase, stopper, owner, main,
                 curList, ioRuns>>

\* A session is made, and the owner's accept handler runs.
ListenerTells ==
  /\ listener = "ready" /\ ioRuns
  /\ made' = made + 1
  /\ owner' = owner \union {made + 1}
  /\ listener' = "told"
  /\ UNCHANGED <<open, sessions, started, phase, stopper, main, curList, ioRuns>>

addSession ==
  /\ listener = "told"
  /\ sessions' = sessions \union {made}
  /\ listener' = "added"
  /\ UNCHANGED <<made, open, started, phase, stopper, owner, main, curList, ioRuns>>

\* The session starts, and the listener accepts again: on a closed acceptor
\* that fails at once, and the loop goes round and round.
ListenerStarts ==
  /\ listener = "added"
  /\ started' = started \union {made}
  /\ listener' = IF open THEN "accepting" ELSE "spinning"
  /\ UNCHANGED <<made, open, sessions, phase, stopper, owner, main, curList, ioRuns>>

\* The pending accept ends with operation_aborted.
ListenerAborted ==
  /\ listener = "accepting" /\ ~open /\ ioRuns
  /\ listener' = "done"
  /\ UNCHANGED <<made, open, sessions, started, phase, stopper, owner, main,
                 curList, ioRuns>>

-----------------------------------------------------------------------------
(* Session::stop, as far as the server sees it.  The first caller wins.    *)

\* A started session breaks, or is stopped, on its own thread.
SessionBreaks(s) ==
  /\ s \in started /\ phase[s] = "live" /\ ioRuns
  /\ \A t \in Sessions : stopper[t] # "io"
  /\ phase' = [phase EXCEPT ![s] = "won"]
  /\ stopper' = [stopper EXCEPT ![s] = "io"]
  /\ UNCHANGED <<made, listener, open, sessions, started, owner, main, curList, ioRuns>>

\* The owner's disconnect handler ...
disconnectProc(s) ==
  /\ phase[s] = "won"
  /\ phase' = [phase EXCEPT ![s] = "told"]
  /\ owner' = owner \ {s}
  /\ UNCHANGED <<made, listener, open, sessions, started, stopper, main, curList, ioRuns>>

\* Mutant: the server keeps the session.
delSession_Keeps(s) ==
  /\ phase[s] = "told"
  /\ phase' = [phase EXCEPT ![s] = "gone"]
  /\ stopper' = [stopper EXCEPT ![s] = "nobody"]
  /\ UNCHANGED <<made, listener, open, sessions, started, owner, main, curList, ioRuns>>

\* ... then the server's own table.
delSession(s) ==
  /\ phase[s] = "told"
  /\ phase' = [phase EXCEPT ![s] = "gone"]
  /\ sessions' = sessions \ {s}
  /\ stopper' = [stopper EXCEPT ![s] = "nobody"]
  /\ UNCHANGED <<made, listener, open, started, owner, main, curList, ioRuns>>

-----------------------------------------------------------------------------
(* The main thread: stop(), the pool's stop(), ~Server.                    *)

\* Mutant: the table is cleared before it is copied.
takeAll_Clears == curList' = {} /\ sessions' = {}

\* closeAll moves the table out under its mutex.
takeAll == curList' = sessions /\ sessions' = {}

\* Mutant: ~Server does not stop the server again.
CloseAcceptor_Once ==
  /\ main \in {"running", "joined", "abandoned"} /\ listener # "off"
  /\ open' = FALSE
  /\ main' = IF main = "running" THEN "stopping" ELSE "destroyed"
  /\ UNCHANGED <<made, listener, sessions, started, phase, stopper, owner,
                 curList, ioRuns>>

\* cancel() and close(): first at stop(), again, without effect, in ~Server;
\* only in ~Server when start() has failed.
CloseAcceptor ==
  /\ main \in {"running", "joined", "abandoned"} /\ listener # "off"
  /\ open' = FALSE
  /\ main' = IF main = "running" THEN "stopping" ELSE "destroying"
  /\ UNCHANGED <<made, listener, sessions, started, phase, stopper, owner,
                 curList, ioRuns>>

closeAll ==
  /\ main \in {"stopping", "destroying"}
  /\ takeAll
  /\ main' = IF main = "stopping" THEN "closing" ELSE "closing again"
  /\ UNCHANGED <<made, listener, open, started, phase, stopper, owner, ioRuns>>

MainIdle == \A s \in Sessions : stopper[s] # "main"

\* One session of the copy: stopped here, or skipped as already stopped.
CloseOne(s) ==
  /\ main \in {"closing", "closing again"} /\ s \in curList /\ MainIdle
  /\ curList' = curList \ {s}
  /\ IF phase[s] = "live"
     THEN /\ phase' = [phase EXCEPT ![s] = "won"]
          /\ stopper' = [stopper EXCEPT ![s] = "main"]
     ELSE UNCHANGED <<phase, stopper>>
  /\ UNCHANGED <<made, listener, open, sessions, started, owner, main, ioRuns>>

\* closeAll is through: IoContextPool::stop, or the end of ~Server.
ClosedAll ==
  /\ main \in {"closing", "closing again"} /\ curList = {} /\ MainIdle
  /\ IF main = "closing"
     THEN main' = "joining" /\ ioRuns' = FALSE
     ELSE main' = "destroyed" /\ UNCHANGED ioRuns
  /\ UNCHANGED <<made, listener, open, sessions, started, phase, stopper, owner, curList>>

\* Mutant: the threads are joined without being told to stop.
Join_WhenIdle ==
  /\ main = "joining" /\ listener = "done"
  /\ main' = "joined"
  /\ UNCHANGED <<made, listener, open, sessions, started, phase, stopper, owner,
                 curList, ioRuns>>

\* Mutant: the threads are left to themselves.
Join_Detaches ==
  /\ main = "joining"
  /\ main' = "joined"
  /\ UNCHANGED <<made, listener, open, sessions, started, phase, stopper, owner,
                 curList, ioRuns>>

\* join() waits for the handlers that are running.
Join ==
  /\ main = "joining"
  /\ listener \notin {"told", "added"} /\ \A s \in Sessions : stopper[s] # "io"
  /\ main' = "joined"
  /\ UNCHANGED <<made, listener, open, sessions, started, phase, stopper, owner,
                 curList, ioRuns>>

-----------------------------------------------------------------------------

ServerInit ==
  /\ made = 0 /\ listener = "off" /\ open = FALSE
  /\ sessions = {} /\ started = {} /\ owner = {} /\ curList = {}
  /\ phase = [s \in Sessions |-> "live"] /\ stopper = [s \in Sessions |-> "nobody"]
  /\ main = "starting" /\ ioRuns = FALSE

ListenerStep == ListenerTells \/ addSession \/ ListenerStarts \/ ListenerAborted
StopStep == \E s \in Sessions : disconnectProc(s) \/ delSession(s)
CloseStep == closeAll \/ (\E s \in Sessions : CloseOne(s)) \/ ClosedAll \/ Join

-----------------------------------------------------------------------------
(* Properties.                                                             *)

\* Every variable of the server has its type.
ServerTypeOK ==
  /\ made \in 0..MaxSessions
  /\ listener \in {"off", "accepting", "ready", "told", "added", "spinning", "done"}
  /\ open \in BOOLEAN /\ ioRuns \in BOOLEAN
  /\ sessions \subseteq 1..made /\ started \subseteq 1..made
  /\ owner \subseteq 1..made /\ curList \subseteq 1..made
  /\ phase \in [Sessions -> {"live", "won", "told", "gone"}]
  /\ stopper \in [Sessions -> {"nobody", "io", "main"}]
  /\ main \in {"starting", "running", "stopping", "closing", "joining", "joined",
               "abandoned", "destroying", "closing again", "destroyed"}

\* A session that runs can be reached: by broadcast and closeAll through
\* sessions_, or by the closeAll that has it in hand.
LiveIsListed ==
  \A s \in started : phase[s] = "live" => s \in sessions \union curList

\* The server keeps no session that has gone, and neither does the owner.
GoneIsForgotten ==
  \A s \in Sessions : phase[s] = "gone" => s \notin sessions \union owner

=============================================================================
