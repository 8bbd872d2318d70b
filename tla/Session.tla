------------------------------ MODULE Session ------------------------------
(***************************************************************************)
(* One network session (src/share/networkEx/session.h): its reader, writer *)
(* and heartbeat coroutines, send from any thread, and stop.               *)
(*                                                                         *)
(* The coroutines and the posted handlers run on the one thread of the     *)
(* session's io_context; what runs between two suspension points is one    *)
(* step.  stop() is called on that thread by the session itself, and at    *)
(* shutdown also by another thread (Server::closeAll, Connector::stop).    *)
(* Then it takes several steps, and may run between the writer's test of   *)
(* the socket and its wait: only there is the io thread interrupted        *)
(* ("checked").                                                            *)
(***************************************************************************)
EXTENDS Naturals, Sequences

CONSTANT Messages   \* the messages other threads send, each once

VARIABLES
  unsent,       \* the messages nobody has sent yet
  posted,       \* send's handlers in the queue of the io_context
  sendQueue,    \* sendQueue_
  accepted,     \* history: what deliver() put into sendQueue_
  wrote,        \* history: what was written to the socket
  writer,       \* where writerLoop is
  reader,       \* where readerLoop is
  heartbeat,    \* where heartbeatLoop is
  peerUp,       \* the other side and the network are alive
  socketOpen,   \* socket_.is_open()
  stopped,      \* stopped_
  foreign,      \* where the other thread is in stop()
  disconnects,  \* history: calls of disconnect_proc_
  context       \* its io_context: "running", "stopped" or "destroyed"

vars == <<unsent, posted, sendQueue, accepted, wrote, writer, reader,
          heartbeat, peerUp, socketOpen, stopped, foreign, disconnects, context>>

\* The io thread is free to run another handler.
IoFree == writer # "checked" /\ context = "running"

-----------------------------------------------------------------------------
(* stop().                                                                 *)

\* Mutant: the timer is not cancelled.
wakeWriter_Never(w) == w

\* writeTimer_.cancel() and cancel_one(): a waiting writer is to be resumed.
wakeWriter(w) == IF w = "waiting" THEN "woken" ELSE w

\* heartbeatTimer_.cancel(): the wait ends with an error and the loop returns.
cancelHeartbeat(h) == IF h = "waiting" THEN "done" ELSE h

\* Mutant: stopped_ is tested and set too late to keep a second caller out.
stopHere_NoExchange(w) ==
  /\ stopped' = TRUE
  /\ socketOpen' = FALSE
  /\ writer' = wakeWriter(w)
  /\ heartbeat' = cancelHeartbeat(heartbeat)
  /\ disconnects' = disconnects + 1

\* stop() on the io thread.  The writer goes to w unless it is woken.
stopHere(w) ==
  IF stopped
  THEN writer' = w /\ UNCHANGED <<stopped, socketOpen, heartbeat, disconnects>>
  ELSE /\ stopped' = TRUE
       /\ socketOpen' = FALSE
       /\ writer' = wakeWriter(w)
       /\ heartbeat' = cancelHeartbeat(heartbeat)
       /\ disconnects' = disconnects + 1

\* Another thread wins stopped_ and closes the socket ...
ForeignClose ==
  /\ foreign = "no" /\ ~stopped
  /\ stopped' = TRUE
  /\ socketOpen' = FALSE
  /\ foreign' = "closed"
  /\ UNCHANGED <<unsent, posted, sendQueue, accepted, wrote, writer, reader,
                 heartbeat, peerUp, disconnects, context>>

\* ... then cancels the timers ...
ForeignCancel ==
  /\ foreign = "closed"
  /\ writer' = wakeWriter(writer)
  /\ heartbeat' = cancelHeartbeat(heartbeat)
  /\ foreign' = "cancelled"
  /\ UNCHANGED <<unsent, posted, sendQueue, accepted, wrote, reader, peerUp,
                 socketOpen, stopped, disconnects, context>>

\* Mutant: only the session's own thread calls the handler.
ForeignNotify_Silent ==
  /\ foreign = "cancelled"
  /\ foreign' = "done"
  /\ UNCHANGED <<unsent, posted, sendQueue, accepted, wrote, writer, reader,
                 heartbeat, peerUp, socketOpen, stopped, disconnects, context>>

\* ... then calls the disconnect handler.
ForeignNotify ==
  /\ foreign = "cancelled"
  /\ disconnects' = disconnects + 1
  /\ foreign' = "done"
  /\ UNCHANGED <<unsent, posted, sendQueue, accepted, wrote, writer, reader,
                 heartbeat, peerUp, socketOpen, stopped, context>>

-----------------------------------------------------------------------------
(* send() and deliver().                                                   *)

\* send: post the message to the io thread.  (All threads that send are joined
\* before an io_context is destroyed.)
send(m) ==
  /\ m \in unsent /\ context # "destroyed"
  /\ unsent' = unsent \ {m}
  /\ posted' = Append(posted, m)
  /\ UNCHANGED <<sendQueue, accepted, wrote, writer, reader, heartbeat, peerUp,
                 socketOpen, stopped, foreign, disconnects, context>>

\* Mutant: the writer is not woken.
deliver_NoWake ==
  /\ IoFree /\ posted # <<>>
  /\ posted' = Tail(posted)
  /\ IF stopped
     THEN UNCHANGED <<sendQueue, accepted>>
     ELSE /\ sendQueue' = Append(sendQueue, Head(posted))
          /\ accepted' = Append(accepted, Head(posted))
  /\ UNCHANGED <<unsent, wrote, writer, reader, heartbeat, peerUp, socketOpen,
                 stopped, foreign, disconnects, context>>

\* deliver: dropped after stop, else queued and the writer woken.
deliver ==
  /\ IoFree /\ posted # <<>>
  /\ posted' = Tail(posted)
  /\ IF stopped
     THEN UNCHANGED <<sendQueue, accepted, writer>>
     ELSE /\ sendQueue' = Append(sendQueue, Head(posted))
          /\ accepted' = Append(accepted, Head(posted))
          /\ writer' = wakeWriter(writer)
  /\ UNCHANGED <<unsent, wrote, reader, heartbeat, peerUp, socketOpen, stopped,
                 foreign, disconnects, context>>

-----------------------------------------------------------------------------
(* writerLoop.  "start" and "woken": resumed; "checked": has found the     *)
(* socket open; "waiting": on the timer; "writing": async_write is on; *)
(* "written": async_write has ended.                                       *)

\* The head of the outer loop: while (socket_.is_open()).
LoopHead == IF socketOpen THEN "checked" ELSE "done"

WriterStart ==
  /\ IoFree /\ writer = "start"
  /\ writer' = LoopHead
  /\ UNCHANGED <<unsent, posted, sendQueue, accepted, wrote, reader, heartbeat,
                 peerUp, socketOpen, stopped, foreign, disconnects, context>>

\* An empty queue: wait on the timer that never expires; else write its front.
WriterWaitOrWrite ==
  /\ writer = "checked"
  /\ writer' = IF sendQueue = <<>> THEN "waiting" ELSE "writing"
  /\ UNCHANGED <<unsent, posted, sendQueue, accepted, wrote, reader, heartbeat,
                 peerUp, socketOpen, stopped, foreign, disconnects, context>>

\* The wait was cancelled.
WriterResumes ==
  /\ IoFree /\ writer = "woken"
  /\ writer' = IF sendQueue = <<>> THEN LoopHead ELSE "writing"
  /\ UNCHANGED <<unsent, posted, sendQueue, accepted, wrote, reader, heartbeat,
                 peerUp, socketOpen, stopped, foreign, disconnects, context>>

\* async_write ends: the front of the queue is out, the coroutine is to go on.
WriteEnds ==
  /\ IoFree /\ writer = "writing" /\ socketOpen /\ peerUp
  /\ wrote' = Append(wrote, Head(sendQueue))
  /\ writer' = "written"
  /\ UNCHANGED <<unsent, posted, sendQueue, accepted, reader, heartbeat, peerUp,
                 socketOpen, stopped, foreign, disconnects, context>>

\* Mutant: after a write the loop waits without another look at the queue.
WriterDropsFront_WaitsAtOnce ==
  /\ IoFree /\ writer = "written"
  /\ sendQueue' = Tail(sendQueue)
  /\ writer' = "waiting"
  /\ UNCHANGED <<unsent, posted, accepted, wrote, reader, heartbeat, peerUp,
                 socketOpen, stopped, foreign, disconnects, context>>

\* Mutant: what was queued while the write was on goes with the front.
WriterDropsFront_Clears ==
  /\ IoFree /\ writer = "written"
  /\ sendQueue' = <<>>
  /\ writer' = LoopHead
  /\ UNCHANGED <<unsent, posted, accepted, wrote, reader, heartbeat, peerUp,
                 socketOpen, stopped, foreign, disconnects, context>>

\* The coroutine goes on: drop the front, write the next one if there is one.
WriterDropsFront ==
  /\ IoFree /\ writer = "written"
  /\ sendQueue' = Tail(sendQueue)
  /\ writer' = IF Tail(sendQueue) = <<>> THEN LoopHead ELSE "writing"
  /\ UNCHANGED <<unsent, posted, accepted, wrote, reader, heartbeat, peerUp,
                 socketOpen, stopped, foreign, disconnects, context>>

\* handleSocketError: stop, unless the error is operation_aborted, which only a
\* read or write under way when the socket was closed ends with.
handleSocketError(w) ==
  \/ stopHere(w)
  \/ /\ ~socketOpen
     /\ writer' = w
     /\ UNCHANGED <<stopped, socketOpen, heartbeat, disconnects>>

\* async_write fails: the peer is gone, or the socket was closed.
WriteFails ==
  /\ IoFree /\ writer = "writing" /\ ~(socketOpen /\ peerUp)
  /\ handleSocketError("done")
  /\ UNCHANGED <<unsent, posted, sendQueue, accepted, wrote, reader, peerUp, foreign, context>>

-----------------------------------------------------------------------------
(* readerLoop and heartbeatLoop.                                           *)

\* A read fails.
ReadFails ==
  /\ IoFree /\ reader = "reading" /\ ~(socketOpen /\ peerUp)
  /\ reader' = "done"
  /\ handleSocketError(writer)
  /\ UNCHANGED <<unsent, posted, sendQueue, accepted, wrote, peerUp, foreign, context>>

\* Data has arrived and its handler stops the session (an illegal packet).
DataProcStops ==
  /\ IoFree /\ reader = "reading"
  /\ stopHere(writer)
  /\ UNCHANGED <<unsent, posted, sendQueue, accepted, wrote, reader, peerUp, foreign, context>>

\* The timer expires: after stop the loop returns; too long a silence stops
\* the session.  (A ping is an ordinary send.)
HeartbeatFires(silent) ==
  /\ stopped \/ silent
  /\ IoFree /\ heartbeat = "waiting"
  /\ IF stopped
     THEN heartbeat' = "done" /\ UNCHANGED <<writer, stopped, socketOpen, disconnects>>
     ELSE /\ stopped' = TRUE
          /\ socketOpen' = FALSE
          /\ writer' = wakeWriter(writer)
          /\ heartbeat' = "done"
          /\ disconnects' = disconnects + 1
  /\ UNCHANGED <<unsent, posted, sendQueue, accepted, wrote, reader, peerUp, foreign, context>>

\* The peer closes the connection, or the network fails.
PeerGoes ==
  /\ peerUp
  /\ peerUp' = FALSE
  /\ UNCHANGED <<unsent, posted, sendQueue, accepted, wrote, writer, reader,
                 heartbeat, socketOpen, stopped, foreign, disconnects, context>>

-----------------------------------------------------------------------------
(* The end of the io_context (IoContextPool::stop and its destruction).    *)
(* The main thread comes here when it has called stop() on every session,  *)
(* and found this one stopped or stopped it.                               *)

\* io_context::stop: the handler that runs ends, no other one starts.
PoolStops ==
  /\ context = "running"
  /\ stopped /\ foreign \in {"no", "done"}
  /\ context' = "stopped"
  /\ UNCHANGED <<unsent, posted, sendQueue, accepted, wrote, writer, reader,
                 heartbeat, peerUp, socketOpen, stopped, foreign, disconnects>>

\* Destroying what a coroutine waits for frees its frame.
free(loop) == IF loop = "done" THEN "done" ELSE "freed"

\* The thread is joined and the io_context destroyed, with all that is queued.
ContextDestroyed ==
  /\ context = "stopped" /\ writer # "checked"
  /\ context' = "destroyed"
  /\ writer' = free(writer) /\ reader' = free(reader) /\ heartbeat' = free(heartbeat)
  /\ posted' = <<>>
  /\ UNCHANGED <<unsent, sendQueue, accepted, wrote, peerUp, socketOpen, stopped,
                 foreign, disconnects>>

-----------------------------------------------------------------------------

\* After start() and startHeartbeat().
Init ==
  /\ unsent = Messages
  /\ posted = <<>> /\ sendQueue = <<>> /\ accepted = <<>> /\ wrote = <<>>
  /\ writer = "start" /\ reader = "reading" /\ heartbeat = "waiting"
  /\ peerUp = TRUE /\ socketOpen = TRUE
  /\ stopped = FALSE /\ foreign = "no" /\ disconnects = 0
  /\ context = "running"

WriterStep == WriterStart \/ WriterWaitOrWrite \/ WriterResumes \/ WriteEnds
              \/ WriterDropsFront \/ WriteFails
ForeignStep == ForeignCancel \/ ForeignNotify

Next ==
  \/ \E m \in Messages : send(m)
  \/ deliver
  \/ WriterStep
  \/ ReadFails \/ DataProcStops
  \/ \E silent \in BOOLEAN : HeartbeatFires(silent)
  \/ PeerGoes
  \/ ForeignClose \/ ForeignStep
  \/ PoolStops \/ ContextDestroyed

\* The io thread runs what is ready, a pending write or read ends when it can,
\* the heartbeat's timer expires, a thread inside stop() goes on.  Only the
\* shutdown calls stop() from another thread, and it goes on to the pool.
Fairness ==
  /\ WF_vars(deliver) /\ WF_vars(WriterStep) /\ WF_vars(ReadFails)
  /\ WF_vars(HeartbeatFires(FALSE)) /\ WF_vars(ForeignStep)
  /\ WF_vars(foreign = "done" /\ PoolStops) /\ WF_vars(ContextDestroyed)

Spec == Init /\ [][Next]_vars /\ Fairness

-----------------------------------------------------------------------------
(* Properties.                                                             *)

\* Every variable has the type of the field it stands for.
TypeOK ==
  /\ unsent \subseteq Messages
  /\ posted \in Seq(Messages) /\ sendQueue \in Seq(Messages)
  /\ accepted \in Seq(Messages) /\ wrote \in Seq(Messages)
  /\ writer \in {"start", "checked", "waiting", "woken", "writing",
                "written", "done", "freed"}
  /\ reader \in {"reading", "done", "freed"}
  /\ heartbeat \in {"waiting", "done", "freed"}
  /\ context \in {"running", "stopped", "destroyed"}
  /\ peerUp \in BOOLEAN /\ socketOpen \in BOOLEAN /\ stopped \in BOOLEAN
  /\ foreign \in {"no", "closed", "cancelled", "done"}
  /\ disconnects \in Nat

\* No lost wake-up: the writer never sleeps on a queue that holds a message,
\* and when it writes there is a message to write.
NoLostWakeup ==
  /\ writer = "waiting" => sendQueue = <<>>
  /\ writer \in {"writing", "written"} => sendQueue # <<>>

\* What has been written is what was accepted, in that order, less what is
\* still queued, as long as there is an io_context: no message is lost, doubled
\* or overtaken.
WrittenInOrder ==
  context # "destroyed" =>
    accepted = wrote \o (IF writer = "written" THEN Tail(sendQueue) ELSE sendQueue)

\* The disconnect handler runs once, after the socket is closed, however many
\* coroutines and threads find the session broken at the same time.
DisconnectOnce ==
  /\ disconnects <= 1
  /\ disconnects = 1 => stopped /\ ~socketOpen
  /\ stopped /\ disconnects = 0 => foreign \in {"closed", "cancelled"}

\* Every message that is sent is written, unless the session stops.
SentIsWritten ==
  \A m \in Messages :
    (m \notin unsent) ~> (stopped \/ \E k \in 1..Len(wrote) : wrote[k] = m)

\* A stopped session comes to its end: all three coroutines return and give up
\* their references to it, wherever each was; or, when another thread stopped
\* it, have their frames freed at the latest with the io_context.  (stop() may
\* cancel the writer's timer just before the writer waits on it.)
StopEnds ==
  stopped ~> {writer, reader, heartbeat} \subseteq {"done", "freed"}

\* A stopped session always tells its owner, whichever thread stopped it.
StopIsTold == stopped ~> (disconnects = 1)
=============================================================================
