---------------------------- MODULE TcpConnector ----------------------------
(***************************************************************************)
(* One attempt of AsioTcpConnector (share/network/connector.h): a timer    *)
(* and an asynchronous connect share a socket, and their two handlers run  *)
(* on one io thread in the order in which they become ready.  Cancelling a *)
(* timer whose handler is ready has no effect.                             *)
(***************************************************************************)
EXTENDS Naturals, Sequences

VARIABLES
  timer,      \* runAfter: "armed", "ready" (its handler is queued) or "done"
  connect,    \* async_connect: "pending", "ok" or "error" (queued), or "done"
  sock,       \* the shared socket: "opening", "open" or "closed"
  reports     \* the callbacks called, "success" and "failed", in order

attemptVars == <<timer, connect, sock, reports>>

AttemptInit ==
  /\ timer = "armed" /\ connect = "pending"
  /\ sock = "opening" /\ reports = <<>>

\* WrapperIoService::runAfter: the time is over.
TimerExpires ==
  /\ timer = "armed"
  /\ timer' = "ready"
  /\ UNCHANGED <<connect, sock, reports>>

\* The connect ends one way or the other; on a closed socket it was aborted.
ConnectEnds(result) ==
  /\ connect = "pending"
  /\ sock = "closed" => result = "error"
  /\ connect' = result
  /\ sock' = IF result = "ok" THEN "open" ELSE sock
  /\ UNCHANGED <<timer, reports>>

\* The timer's handler: close the socket and report a failure.
onTimeout ==
  /\ timer = "ready"
  /\ timer' = "done"
  /\ sock' = "closed"
  /\ reports' = Append(reports, "failed")
  /\ UNCHANGED connect

\* Mutant: a failed connect leaves the report to the timer it has cancelled.
onConnect_LeavesToTimer ==
  /\ connect \in {"ok", "error"}
  /\ connect' = "done"
  /\ timer' = IF timer = "armed" THEN "done" ELSE timer
  /\ reports' = IF connect = "ok" THEN Append(reports, "success") ELSE reports
  /\ UNCHANGED sock

\* The handler of the connect: cancel the timer and report.
onConnect ==
  /\ connect \in {"ok", "error"}
  /\ connect' = "done"
  /\ timer' = IF timer = "armed" THEN "done" ELSE timer
  /\ reports' = Append(reports, IF connect = "ok" THEN "success" ELSE "failed")
  /\ UNCHANGED sock

Handler == onTimeout \/ onConnect

AttemptNext ==
  TimerExpires \/ (\E r \in {"ok", "error"} : ConnectEnds(r)) \/ Handler
=============================================================================
