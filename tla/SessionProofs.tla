--------------------------- MODULE SessionProofs ---------------------------
(***************************************************************************)
(* Proofs that a session never sleeps on a message, writes what it has     *)
(* accepted in order, and tells its owner once that it has stopped, for    *)
(* every set of messages.                                                  *)
(***************************************************************************)
EXTENDS Session, SequenceTheorems, TLAPS

-----------------------------------------------------------------------------
(* The inductive invariant.                                                *)

\* stopped_ is set and the socket closed in the same step.
ClosedIsStopped == socketOpen <=> ~stopped

\* Who is to tell the owner of a stop: the thread that won stopped_.
TellerKnown ==
  /\ ~stopped => foreign = "no" /\ disconnects = 0
  /\ stopped /\ foreign \in {"no", "done"} => disconnects = 1
  /\ foreign \in {"closed", "cancelled"} => disconnects = 0

\* The frame of the writer goes with its io_context.
WriterFreed == context = "destroyed" => writer \in {"done", "freed"}

Control == ClosedIsStopped /\ TellerKnown /\ WriterFreed
Queues == NoLostWakeup /\ WrittenInOrder
IInv == TypeOK /\ Control /\ Queues

-----------------------------------------------------------------------------
(* Sequences.                                                              *)

\* Moving the head of the right part to the end of the left one.
LEMMA MoveHead ==
  ASSUME NEW S, NEW w \in Seq(S), NEW q \in Seq(S), q # <<>>
  PROVE  w \o q = Append(w, Head(q)) \o Tail(q)
<1>1. Head(q) \in S /\ Tail(q) \in Seq(S) /\ Len(q) \in Nat \ {0}
  BY HeadTailProperties, EmptySeq
<1>2. q = <<q[1]>> \o Tail(q)
  <2>1. SubSeq(q, 1, Len(q)) = <<q[1]>> \o SubSeq(q, 2, Len(q))
    BY <1>1, SubSeqRecursiveFirst
  <2>2. QED
    BY <2>1, SubSeqFull, TailIsSubSeq
<1>3. q = <<Head(q)>> \o Tail(q) /\ <<Head(q)>> \in Seq(S)
  BY <1>1, <1>2
<1>4. w \o (<<Head(q)>> \o Tail(q)) = (w \o <<Head(q)>>) \o Tail(q)
  BY <1>1, <1>3, ConcatAssociative
<1>5. Append(w, Head(q)) = w \o <<Head(q)>>
  BY <1>1, AppendIsConcat
<1>6. QED
  BY <1>3, <1>4, <1>5

\* Appending to the right part is appending to the whole.
LEMMA AppendRight ==
  ASSUME NEW S, NEW w \in Seq(S), NEW q \in Seq(S), NEW m \in S
  PROVE  w \o Append(q, m) = Append(w \o q, m)
<1>1. <<m>> \in Seq(S) /\ w \o q \in Seq(S)
  BY ConcatProperties
<1>2. Append(q, m) = q \o <<m>> /\ Append(w \o q, m) = (w \o q) \o <<m>>
  BY <1>1, AppendIsConcat
<1>3. QED
  BY <1>1, <1>2, ConcatAssociative

-----------------------------------------------------------------------------
(* The inductive step, one action at a time.                               *)

\* What stop() does on the io thread, whoever calls it.
LEMMA StopHereKeeps ==
  ASSUME TypeOK, ClosedIsStopped, TellerKnown,
         NEW w \in {"start", "waiting", "woken", "writing", "written", "done", "freed"},
         stopHere(w) \/ handleSocketError(w), UNCHANGED foreign
  PROVE  /\ socketOpen' \in BOOLEAN /\ stopped' \in BOOLEAN /\ disconnects' \in Nat
         /\ heartbeat' \in {"waiting", "done", "freed"}
         /\ ClosedIsStopped' /\ TellerKnown'
         /\ writer' = w \/ (w = "waiting" /\ writer' = "woken")
<1>1. socketOpen' \in BOOLEAN /\ stopped' \in BOOLEAN
  BY Zenon DEF TypeOK, stopHere, handleSocketError
<1>2. heartbeat' \in {"waiting", "done", "freed"}
      /\ (writer' = w \/ (w = "waiting" /\ writer' = "woken"))
  BY DEF TypeOK, stopHere, handleSocketError, wakeWriter, cancelHeartbeat
<1>3. CASE UNCHANGED <<stopped, socketOpen, disconnects>>
  BY <1>1, <1>2, <1>3 DEF TypeOK, ClosedIsStopped, TellerKnown
<1>4. CASE ~stopped /\ stopped' = TRUE /\ socketOpen' = FALSE /\ disconnects' = disconnects + 1
  BY <1>1, <1>2, <1>4 DEF TypeOK, ClosedIsStopped, TellerKnown
<1>5. QED
  BY <1>3, <1>4 DEF stopHere, handleSocketError

\* A step that leaves the queues alone and moves the writer at most to a place
\* where it neither waits nor writes keeps what is said about the queues.
LEMMA QueuesKept ==
  ASSUME Queues,
         UNCHANGED <<sendQueue, accepted, wrote>>,
         context = "destroyed" => context' = "destroyed",
         writer' = writer \/ (writer # "written" /\ writer' \notin {"waiting", "writing", "written"})
                          \/ (writer' \in {"done", "freed"} /\ context' = "destroyed")
  PROVE  Queues'
BY DEF Queues, NoLostWakeup, WrittenInOrder

\* send(), which only posts, keeps the invariant.
LEMMA SendKeeps ==
  ASSUME IInv, NEW m \in Messages, send(m)
  PROVE  IInv'
<1> USE DEF IInv
<1>1. Append(posted, m) \in Seq(Messages)
  BY AppendProperties DEF TypeOK
<1>2. TypeOK'
  BY <1>1 DEF send, TypeOK
<1>3. Control'
  BY DEF send, Control, ClosedIsStopped, TellerKnown, WriterFreed
<1>4. Queues'
  BY DEF send, Queues, NoLostWakeup, WrittenInOrder
<1>5. QED
  BY <1>2, <1>3, <1>4

\* The posted deliver keeps it: the message goes to the end of the queue and a
\* writer that waits is woken, in one step.
LEMMA DeliverKeeps ==
  ASSUME IInv, deliver
  PROVE  IInv'
<1> USE DEF IInv
<1>1. Head(posted) \in Messages /\ Tail(posted) \in Seq(Messages)
  BY HeadTailProperties DEF deliver, TypeOK
<1>2. CASE stopped
  <2>1. TypeOK'
    BY <1>1, <1>2 DEF deliver, TypeOK
  <2>2. Control'
    BY <1>2 DEF deliver, Control, ClosedIsStopped, TellerKnown, WriterFreed
  <2>3. Queues'
    BY <1>2 DEF deliver, Queues, NoLostWakeup, WrittenInOrder
  <2>4. QED
    BY <2>1, <2>2, <2>3
<1>3. CASE ~stopped
  <2> DEFINE m == Head(posted)
  <2>1. /\ sendQueue' = Append(sendQueue, m) /\ accepted' = Append(accepted, m)
        /\ wrote' = wrote /\ context' = context /\ context = "running"
        /\ writer' = wakeWriter(writer)
    BY <1>3 DEF deliver, IoFree
  <2>2. sendQueue' \in Seq(Messages) /\ sendQueue' # <<>> /\ accepted' \in Seq(Messages)
    BY <1>1, <2>1, AppendProperties DEF TypeOK
  <2>3. writer' # "waiting" /\ (writer' = "written" <=> writer = "written")
    BY <2>1 DEF wakeWriter
  <2>4. TypeOK'
    BY <1>1, <2>1, <2>2 DEF deliver, TypeOK, wakeWriter
  <2>5. Control'
    BY <2>1 DEF deliver, Control, ClosedIsStopped, TellerKnown, WriterFreed
  <2>6. NoLostWakeup'
    BY <2>2, <2>3 DEF NoLostWakeup
  <2>7. WrittenInOrder'
    <3>1. CASE writer # "written"
      <4>1. accepted = wrote \o sendQueue
        BY <3>1, <2>1 DEF Queues, WrittenInOrder
      <4>2. wrote \o Append(sendQueue, m) = Append(wrote \o sendQueue, m)
        BY <1>1, AppendRight DEF TypeOK
      <4>3. QED
        BY <4>1, <4>2, <3>1, <2>1, <2>3 DEF WrittenInOrder
    <3>2. CASE writer = "written"
      <4>1. sendQueue # <<>> /\ accepted = wrote \o Tail(sendQueue)
        BY <3>2, <2>1 DEF Queues, WrittenInOrder, NoLostWakeup
      <4>2. Tail(sendQueue) \in Seq(Messages)
        BY <4>1, HeadTailProperties DEF TypeOK
      <4>3. wrote \o Append(Tail(sendQueue), m) = Append(wrote \o Tail(sendQueue), m)
        BY <1>1, <4>2, AppendRight DEF TypeOK
      <4>4. Tail(Append(sendQueue, m)) = Append(Tail(sendQueue), m)
        BY <4>1, HeadTailAppend DEF TypeOK
      <4>5. QED
        BY <4>1, <4>3, <4>4, <3>2, <2>1, <2>3 DEF WrittenInOrder
    <3>3. QED
      BY <3>1, <3>2
  <2>8. QED
    BY <2>4, <2>5, <2>6, <2>7 DEF Queues
<1>4. QED
  BY <1>2, <1>3

\* Every step of writerLoop keeps it: between the end of a write and pop_front
\* the front of the queue is written already, so that order is stated for its tail.
LEMMA WriterKeeps ==
  ASSUME IInv, WriterStep
  PROVE  IInv'
<1> USE DEF IInv
<1>1. CASE WriterStart
  <2>1. TypeOK'
    BY <1>1 DEF WriterStart, LoopHead, IoFree, TypeOK
  <2>2. Control'
    BY <1>1 DEF WriterStart, LoopHead, IoFree, TypeOK, Control, ClosedIsStopped,
       TellerKnown, WriterFreed
  <2>3. Queues'
    BY <1>1 DEF WriterStart, LoopHead, IoFree, Queues, NoLostWakeup, WrittenInOrder
  <2>4. QED
    BY <2>1, <2>2, <2>3
<1>2. CASE WriterWaitOrWrite
  <2>1. TypeOK'
    BY <1>2 DEF WriterWaitOrWrite, TypeOK
  <2>2. Control'
    BY <1>2 DEF WriterWaitOrWrite, TypeOK, Control, ClosedIsStopped, TellerKnown,
       WriterFreed
  <2>3. Queues'
    BY <1>2 DEF WriterWaitOrWrite, Queues, NoLostWakeup, WrittenInOrder
  <2>4. QED
    BY <2>1, <2>2, <2>3
<1>3. CASE WriterResumes
  <2>1. TypeOK'
    BY <1>3 DEF WriterResumes, LoopHead, IoFree, TypeOK
  <2>2. Control'
    BY <1>3 DEF WriterResumes, LoopHead, IoFree, TypeOK, Control, ClosedIsStopped,
       TellerKnown, WriterFreed
  <2>3. Queues'
    BY <1>3 DEF WriterResumes, LoopHead, IoFree, Queues, NoLostWakeup, WrittenInOrder
  <2>4. QED
    BY <2>1, <2>2, <2>3
<1>4. CASE WriteEnds
  <2>1. sendQueue # <<>> /\ accepted = wrote \o sendQueue
        /\ wrote' = Append(wrote, Head(sendQueue))
    BY <1>4 DEF WriteEnds, Queues, NoLostWakeup, WrittenInOrder, IoFree
  <2>2. wrote' \in Seq(Messages)
    BY <2>1, HeadTailProperties, AppendProperties DEF TypeOK
  <2>3. accepted = wrote' \o Tail(sendQueue)
    BY <2>1, MoveHead DEF TypeOK
  <2>4. TypeOK'
    BY <1>4, <2>2 DEF WriteEnds, TypeOK
  <2>5. Control'
    BY <1>4 DEF WriteEnds, IoFree, Control, ClosedIsStopped, TellerKnown, WriterFreed
  <2>6. Queues'
    BY <1>4, <2>1, <2>3 DEF WriteEnds, Queues, NoLostWakeup, WrittenInOrder
  <2>7. QED
    BY <2>4, <2>5, <2>6
<1>5. CASE WriterDropsFront
  <2>1. Tail(sendQueue) \in Seq(Messages)
    BY <1>5, HeadTailProperties DEF WriterDropsFront, TypeOK, Queues, NoLostWakeup
  <2>2. TypeOK'
    BY <1>5, <2>1 DEF WriterDropsFront, LoopHead, TypeOK
  <2>3. Control'
    BY <1>5 DEF WriterDropsFront, IoFree, Control, ClosedIsStopped, TellerKnown,
       WriterFreed
  <2>4. Queues'
    BY <1>5 DEF WriterDropsFront, LoopHead, IoFree, Queues, NoLostWakeup, WrittenInOrder
  <2>5. QED
    BY <2>2, <2>3, <2>4
<1>6. CASE WriteFails
  <2>1. /\ socketOpen' \in BOOLEAN /\ stopped' \in BOOLEAN /\ disconnects' \in Nat
        /\ heartbeat' \in {"waiting", "done", "freed"}
        /\ ClosedIsStopped' /\ TellerKnown' /\ writer' = "done"
    BY <1>6, StopHereKeeps DEF WriteFails, Control
  <2>2. Queues'
    BY <1>6, <2>1, QueuesKept DEF WriteFails, IoFree
  <2>3. TypeOK' /\ WriterFreed'
    BY <1>6, <2>1 DEF WriteFails, TypeOK, WriterFreed
  <2>4. QED
    BY <2>1, <2>2, <2>3 DEF Control
<1>7. QED
  BY <1>1, <1>2, <1>3, <1>4, <1>5, <1>6 DEF WriterStep

\* The two ends of the reader keep it.
LEMMA ReaderKeeps ==
  ASSUME IInv, ReadFails \/ DataProcStops
  PROVE  IInv'
<1> USE DEF IInv
<1>1. /\ socketOpen' \in BOOLEAN /\ stopped' \in BOOLEAN /\ disconnects' \in Nat
      /\ heartbeat' \in {"waiting", "done", "freed"}
      /\ ClosedIsStopped' /\ TellerKnown'
      /\ writer' = writer \/ (writer = "waiting" /\ writer' = "woken")
  BY StopHereKeeps DEF ReadFails, DataProcStops, TypeOK, IoFree, Control
<1>2. Queues'
  BY <1>1, QueuesKept DEF ReadFails, DataProcStops, IoFree
<1>3. TypeOK' /\ WriterFreed'
  BY <1>1 DEF ReadFails, DataProcStops, IoFree, TypeOK, WriterFreed
<1>4. QED
  BY <1>1, <1>2, <1>3 DEF Control

\* A look of the heartbeat, which stops a silent session, keeps it.
LEMMA HeartbeatKeeps ==
  ASSUME IInv, NEW silent \in BOOLEAN, HeartbeatFires(silent)
  PROVE  IInv'
<1> USE DEF IInv
<1>1. writer' = writer \/ (writer = "waiting" /\ writer' = "woken")
  BY DEF HeartbeatFires, wakeWriter
<1>2. Queues'
  BY <1>1, QueuesKept DEF HeartbeatFires, IoFree
<1>3. socketOpen' \in BOOLEAN /\ stopped' \in BOOLEAN
  BY Zenon DEF HeartbeatFires, TypeOK
<1>4. TypeOK' /\ WriterFreed'
  BY <1>1, <1>3 DEF HeartbeatFires, IoFree, TypeOK, WriterFreed
<1>5. ClosedIsStopped' /\ TellerKnown'
  BY <1>3 DEF HeartbeatFires, TypeOK, Control, ClosedIsStopped, TellerKnown
<1>6. QED
  BY <1>2, <1>4, <1>5 DEF Control

\* The three steps of a stop() from another thread keep it.
LEMMA ForeignKeeps ==
  ASSUME IInv, ForeignClose \/ ForeignStep
  PROVE  IInv'
<1> USE DEF IInv
<1>1. CASE ForeignClose
  <2>1. TypeOK'
    BY <1>1 DEF ForeignClose, TypeOK
  <2>2. Control'
    BY <1>1 DEF ForeignClose, TypeOK, Control, ClosedIsStopped, TellerKnown, WriterFreed
  <2>3. Queues'
    BY <1>1 DEF ForeignClose, Queues, NoLostWakeup, WrittenInOrder
  <2>4. QED
    BY <2>1, <2>2, <2>3
<1>2. CASE ForeignCancel
  <2>1. TypeOK'
    BY <1>2 DEF ForeignCancel, wakeWriter, cancelHeartbeat, TypeOK
  <2>2. Control'
    BY <1>2 DEF ForeignCancel, wakeWriter, cancelHeartbeat, TypeOK, Control,
       ClosedIsStopped, TellerKnown, WriterFreed
  <2>3. Queues'
    BY <1>2 DEF ForeignCancel, wakeWriter, cancelHeartbeat, Queues, NoLostWakeup,
       WrittenInOrder
  <2>4. QED
    BY <2>1, <2>2, <2>3
<1>3. CASE ForeignNotify
  <2>1. TypeOK'
    BY <1>3 DEF ForeignNotify, TypeOK
  <2>2. Control'
    BY <1>3 DEF ForeignNotify, TypeOK, Control, ClosedIsStopped, TellerKnown,
       WriterFreed
  <2>3. Queues'
    BY <1>3 DEF ForeignNotify, Queues, NoLostWakeup, WrittenInOrder
  <2>4. QED
    BY <2>1, <2>2, <2>3
<1>4. QED
  BY <1>1, <1>2, <1>3 DEF ForeignStep

\* The peer, the end of the pool and that of the io_context keep it.
LEMMA EndKeeps ==
  ASSUME IInv, PeerGoes \/ PoolStops \/ ContextDestroyed
  PROVE  IInv'
<1> USE DEF IInv
<1>1. CASE PeerGoes
  <2>1. TypeOK'
    BY <1>1, ZenonT(60) DEF PeerGoes, TypeOK
  <2>2. Control'
    BY <1>1 DEF PeerGoes, TypeOK, Control, ClosedIsStopped, TellerKnown, WriterFreed
  <2>3. Queues'
    BY <1>1 DEF PeerGoes, Queues, NoLostWakeup, WrittenInOrder
  <2>4. QED
    BY <2>1, <2>2, <2>3
<1>2. CASE PoolStops
  <2>1. TypeOK'
    BY <1>2 DEF PoolStops, TypeOK
  <2>2. Control'
    BY <1>2 DEF PoolStops, TypeOK, Control, ClosedIsStopped, TellerKnown, WriterFreed
  <2>3. Queues'
    BY <1>2 DEF PoolStops, Queues, NoLostWakeup, WrittenInOrder
  <2>4. QED
    BY <2>1, <2>2, <2>3
<1>3. CASE ContextDestroyed
  <2>1. TypeOK'
    BY <1>3 DEF ContextDestroyed, free, TypeOK
  <2>2. Control'
    BY <1>3 DEF ContextDestroyed, free, TypeOK, Control, ClosedIsStopped, TellerKnown,
       WriterFreed
  <2>3. Queues'
    BY <1>3 DEF ContextDestroyed, free, Queues, NoLostWakeup, WrittenInOrder
  <2>4. QED
    BY <2>1, <2>2, <2>3
<1>4. QED
  BY <1>1, <1>2, <1>3

\* IInv is an invariant of the specification.
LEMMA Inductive == Spec => []IInv
<1>1. Init => IInv
  <2>1. <<>> \in Seq(Messages) /\ <<>> = <<>> \o <<>>
    BY ConcatEmptySeq
  <2> SUFFICES ASSUME Init PROVE IInv
    OBVIOUS
  <2>2. TypeOK
    BY <2>1 DEF Init, TypeOK
  <2>3. Control
    BY DEF Init, Control, ClosedIsStopped, TellerKnown, WriterFreed
  <2>4. Queues
    BY <2>1 DEF Init, Queues, NoLostWakeup, WrittenInOrder
  <2>5. QED
    BY <2>2, <2>3, <2>4 DEF IInv
<1>2. IInv /\ [Next]_vars => IInv'
  <2> SUFFICES ASSUME IInv, [Next]_vars PROVE IInv'
    OBVIOUS
  <2>1. CASE UNCHANGED vars
    <3>1. TypeOK'
      BY <2>1 DEF vars, IInv, TypeOK
    <3>2. Control'
      BY <2>1 DEF vars, IInv, Control, ClosedIsStopped, TellerKnown, WriterFreed
    <3>3. Queues'
      BY <2>1 DEF vars, IInv, Queues, NoLostWakeup, WrittenInOrder
    <3>4. QED
      BY <3>1, <3>2, <3>3 DEF IInv
  <2>2. CASE Next
    BY <2>2, SendKeeps, DeliverKeeps, WriterKeeps, ReaderKeeps, HeartbeatKeeps,
       ForeignKeeps, EndKeeps DEF Next
  <2>3. QED
    BY <2>1, <2>2
<1>3. QED
  BY <1>1, <1>2, PTL DEF Spec

-----------------------------------------------------------------------------
(* The theorems.                                                           *)

\* The writer never sleeps on a queue that holds a message (session.h,
\* writerLoop against deliver and stop).
THEOREM NoWakeupLost == Spec => []NoLostWakeup
BY Inductive, PTL DEF IInv, Queues

\* What was accepted is written in order, none lost, doubled or overtaken, as
\* long as the io_context is there.
THEOREM InOrder == Spec => []WrittenInOrder
BY Inductive, PTL DEF IInv, Queues

\* The disconnect handler runs once, after the socket is closed.
THEOREM ToldOnce == Spec => []DisconnectOnce
<1>1. IInv => DisconnectOnce
  BY DEF IInv, TypeOK, Control, ClosedIsStopped, TellerKnown, DisconnectOnce
<1>2. QED
  BY <1>1, Inductive, PTL
=============================================================================
