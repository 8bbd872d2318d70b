----------------------------- MODULE TcpSession -----------------------------
(***************************************************************************)
(* A connection of the older library (share/network): the attempt of       *)
(* TcpConnector, and the AsioTcpSession made when it succeeds.  Several    *)
(* threads send: each queues its message under the lock and then, under    *)
(* the lock again, starts a write unless one is under way.  The io thread  *)
(* runs the completions, and receives into a buffer with a read and a      *)
(* write position (ox_buffer.h) that grows in steps.                       *)
(*                                                                         *)
(* A byte sent is the number of its message; a byte received is its place  *)
(* in the peer's stream.                                                   *)
(***************************************************************************)
EXTENDS TcpConnector, SequencesExt

CONSTANTS
  Threads,      \* the threads that send; IoThread is one of them
  IoThread,
  MsgSizes,     \* sizes of the messages
  MaxMsgs,      \* bound: messages sent
  MaxStream,    \* bound: bytes the peer sends
  FirstSize,    \* the 16 * 1024 bytes a buffer starts with at most
  GrowStep,     \* the 1024 bytes it grows by
  MaxRecvBuf    \* maxRecvBufSize_

ASSUME TcpAssumption ==
  /\ IoThread \in Threads
  /\ MsgSizes \subseteq Nat
  /\ {MaxMsgs, MaxStream} \subseteq Nat
  /\ {FirstSize, GrowStep, MaxRecvBuf} \subseteq Nat \ {0}

VARIABLES
  session,    \* the session exists
  pc,         \* per thread: "idle" or "queued" (before trySend)
  pushed,     \* history: the size of every message, in the order queued
  pending,    \* pendingSendMsg: of each message the bytes from sendPos on
  bSending,   \* bSending_
  inFlight,   \* the writes the socket was asked for: their bytes
  wire,       \* the bytes that have gone out
  reading,    \* the receive loop: "off", "on" or "ended"
  buf,        \* recvBuffers_: [size, read_pos, write_pos, data]
  ends,       \* the places of the stream at which a packet ends
  delivered   \* bytes the data callback has consumed

sendVars == <<pc, pushed, pending, bSending, inFlight, wire>>
recvVars == <<reading, buf, ends, delivered>>
vars == <<attemptVars, session, sendVars, recvVars>>

Min2(a, b) == IF a < b THEN a ELSE b

-----------------------------------------------------------------------------
(* The buffer.                                                             *)

\* ox_buffer_new
NewBuffer(n) ==
  [size |-> n, read_pos |-> 0, write_pos |-> 0, data |-> [i \in 0..n-1 |-> 0]]

getreadvalidcount(b) == b.write_pos - b.read_pos
getwritevalidcount(b) == b.size - b.write_pos

\* The socket's n bytes, or ox_buffer_write of the bytes src, at the write
\* position, which moves behind them.
Write(b, src) ==
  [b EXCEPT !.write_pos = @ + Len(src),
            !.data = [i \in 0..b.size-1 |->
                        IF i \in b.write_pos..(b.write_pos + Len(src) - 1)
                        THEN src[i - b.write_pos + 1] ELSE @[i]]]

\* The unread bytes.
Unread(b) == [i \in 1..getreadvalidcount(b) |-> b.data[b.read_pos + i - 1]]

\* Mutant: the bytes stay where they are.
adjustto_head_NoMove(b) ==
  [b EXCEPT !.read_pos = 0, !.write_pos = b.write_pos - b.read_pos]

\* ox_buffer_adjustto_head: the unread bytes move to the front.
adjustto_head(b) ==
  IF b.read_pos = 0 THEN b
  ELSE [b EXCEPT !.read_pos = 0, !.write_pos = getreadvalidcount(b),
                 !.data = [i \in 0..b.size-1 |->
                             IF i < getreadvalidcount(b) THEN b.data[b.read_pos + i]
                             ELSE @[i]]]

\* growRecvBuffer of a buffer that exists: one step, or nothing at the limit.
growRecvBuffer(b) ==
  IF b.size + GrowStep > MaxRecvBuf THEN b
  ELSE Write(NewBuffer(b.size + GrowStep), Unread(b))

\* The largest size it can reach.
Limit == IF MaxRecvBuf <= FirstSize THEN MaxRecvBuf
         ELSE FirstSize + GrowStep * ((MaxRecvBuf - FirstSize) \div GrowStep)

-----------------------------------------------------------------------------
(* The attempt; its success makes the session.  The constructor throws on  *)
(* a socket that the timer has closed.                                     *)

\* ConnectEnds, TimerExpires and onTimeout of the attempt.
AttemptStep ==
  /\ TimerExpires \/ (\E r \in {"ok", "error"} : ConnectEnds(r)) \/ onTimeout
  /\ pc[IoThread] = "idle"
  /\ UNCHANGED <<session, sendVars, recvVars>>

MakeSession ==
  /\ onConnect
  /\ session' = (connect = "ok" /\ sock = "open")
  /\ UNCHANGED <<sendVars, recvVars>>

\* The peer, or the network, breaks the connection.
PeerCloses ==
  /\ sock = "open" /\ session
  /\ sock' = "closed"
  /\ UNCHANGED <<timer, connect, reports, session, sendVars, recvVars>>

-----------------------------------------------------------------------------
(* Sending.                                                                *)

\* The message number id, of the given size.
Bytes(id, size) == [i \in 1..size |-> id]

\* send(), first half.
Push(t, size) ==
  /\ session /\ pc[t] = "idle" /\ Len(pushed) < MaxMsgs
  /\ pushed' = Append(pushed, size)
  /\ pending' = Append(pending, Bytes(Len(pushed) + 1, size))
  /\ pc' = [pc EXCEPT ![t] = "queued"]
  /\ UNCHANGED <<attemptVars, session, bSending, inFlight, wire, recvVars>>

\* trySend: all that is pending goes into one write.
trySend(t) ==
  /\ pc[t] = "queued"
  /\ pc' = [pc EXCEPT ![t] = "idle"]
  /\ IF bSending \/ pending = <<>> THEN UNCHANGED <<bSending, inFlight>>
     ELSE /\ inFlight' = Append(inFlight, FlattenSeq(pending))
          /\ bSending' = TRUE
  /\ UNCHANGED <<attemptVars, session, pushed, pending, wire, recvVars>>

\* The messages that a write of n bytes reaches into.
Reached(list, n) ==
  CHOOSE k \in 0..Len(list) :
    /\ Len(FlattenSeq(SubSeq(list, 1, k))) >= n
    /\ \A j \in 0..k-1 : Len(FlattenSeq(SubSeq(list, 1, j))) < n

\* Mutant: the message in which the write ended goes too.
adjustSendBuffer_DropsCut(list, n) == SubSeq(list, Reached(list, n) + 1, Len(list))

\* adjustSendBuffer: messages that are written go, the one in which the write
\* ended keeps the rest.  An empty message goes only with one behind it.
adjustSendBuffer(list, n) ==
  LET k    == Reached(list, n)
      left == Len(FlattenSeq(SubSeq(list, 1, k))) - n
      rest == SubSeq(list, k + 1, Len(list))
  IN  IF left = 0 THEN rest
      ELSE <<SubSeq(list[k], Len(list[k]) - left + 1, Len(list[k]))>> \o rest

\* Mutant: the flag is not cleared when the write was good.
onSendCompleted_KeepsFlag(n) ==
  /\ inFlight # <<>> /\ pc[IoThread] = "idle"
  /\ inFlight' = Tail(inFlight)
  /\ IF sock = "closed" THEN n = 0 /\ bSending' = FALSE /\ UNCHANGED <<pending, wire, pc>>
     ELSE /\ n >= Min2(1, Len(Head(inFlight)))
          /\ wire' = wire \o SubSeq(Head(inFlight), 1, n)
          /\ pending' = adjustSendBuffer(pending, n)
          /\ pc' = [pc EXCEPT ![IoThread] = "queued"]
          /\ UNCHANGED bSending
  /\ UNCHANGED <<attemptVars, session, pushed, recvVars>>

\* The write has ended with n bytes written, or with an error; trySend follows
\* a good one, with the lock given up between.
onSendCompleted(n) ==
  /\ inFlight # <<>> /\ pc[IoThread] = "idle"
  /\ inFlight' = Tail(inFlight)
  /\ bSending' = FALSE
  /\ IF sock = "closed" THEN n = 0 /\ UNCHANGED <<pending, wire, pc>>
     ELSE /\ n >= Min2(1, Len(Head(inFlight)))
          /\ wire' = wire \o SubSeq(Head(inFlight), 1, n)
          /\ pending' = adjustSendBuffer(pending, n)
          /\ pc' = [pc EXCEPT ![IoThread] = "queued"]
  /\ UNCHANGED <<attemptVars, session, pushed, recvVars>>

-----------------------------------------------------------------------------
(* Receiving.                                                              *)

\* startRecv, however often it is called.
startRecv ==
  /\ session /\ reading = "off"
  /\ reading' = "on"
  /\ UNCHANGED <<attemptVars, session, sendVars, buf, ends, delivered>>

\* The data callback, with the stream received up to place got: it consumes the
\* packets that are complete.
dataCb(got) ==
  CHOOSE e \in ends \union {delivered} :
    /\ delivered <= e /\ e <= got
    /\ \A f \in ends : f <= got => f <= e

\* A buffer that is full of unread bytes grows before the callback sees it.
Grown(b) == IF getreadvalidcount(b) = b.size THEN growRecvBuffer(b) ELSE b

\* Mutant: the room that is left is not looked at.
Tidy_WhenEmpty(b) == IF getreadvalidcount(b) = 0 THEN adjustto_head(b) ELSE b

\* The end of onRecvCompleted: make room at the end of the buffer.
Tidy(b) ==
  IF getwritevalidcount(b) = 0 \/ getreadvalidcount(b) = 0 THEN adjustto_head(b) ELSE b

\* n bytes have come, no more than there is room for; or an error, which ends
\* the loop.
onRecvCompleted(n) ==
  /\ reading = "on" /\ pc[IoThread] = "idle"
  /\ IF sock = "closed" THEN n = 0 /\ reading' = "ended" /\ UNCHANGED <<buf, delivered>>
     ELSE LET got == delivered + getreadvalidcount(buf)
          IN  /\ n <= MaxStream - got
              /\ n \in Min2(1, getwritevalidcount(buf))..getwritevalidcount(buf)
              /\ delivered' = dataCb(got + n)
              /\ buf' = Tidy([Grown(Write(buf, [i \in 1..n |-> got + i]))
                               EXCEPT !.read_pos = @ + (delivered' - delivered)])
              /\ UNCHANGED reading
  /\ UNCHANGED <<attemptVars, session, sendVars, ends>>

-----------------------------------------------------------------------------

Init ==
  /\ AttemptInit
  /\ session = FALSE /\ pc = [t \in Threads |-> "idle"]
  /\ pushed = <<>> /\ pending = <<>> /\ bSending = FALSE /\ inFlight = <<>> /\ wire = <<>>
  /\ reading = "off" /\ buf = NewBuffer(Min2(FirstSize, MaxRecvBuf)) /\ delivered = 0
  /\ ends \in {e \in SUBSET (1..MaxStream) :
                 \A i \in 0..MaxStream - 1 : \E p \in e : p \in i+1..i+Limit}

AttemptHandler == MakeSession \/ (onTimeout /\ AttemptStep)
SendDone ==
  /\ inFlight # <<>>
  /\ \E n \in 0..Len(Head(inFlight)) : onSendCompleted(n)
RecvDone == \E n \in 0..MaxStream : onRecvCompleted(n)

Next ==
  \/ AttemptStep \/ MakeSession \/ PeerCloses
  \/ \E t \in Threads, size \in MsgSizes : Push(t, size)
  \/ \E t \in Threads : trySend(t)
  \/ SendDone \/ startRecv \/ RecvDone

\* The threads run, the connect ends, and an open connection carries what is
\* sent either way.
Fairness ==
  /\ WF_vars(AttemptHandler) /\ WF_vars(\E r \in {"ok", "error"} : ConnectEnds(r) /\ AttemptStep)
  /\ \A t \in Threads : WF_vars(trySend(t))
  /\ SF_vars(SendDone) /\ SF_vars(RecvDone)

Spec == Init /\ [][Next]_vars /\ Fairness

-----------------------------------------------------------------------------
(* Properties.                                                             *)

\* Every variable has its type; in particular the positions of the buffer stay
\* in order and within it.
TypeOK ==
  /\ timer \in {"armed", "ready", "done"}
  /\ connect \in {"pending", "ok", "error", "done"}
  /\ sock \in {"opening", "open", "closed"}
  /\ reports \in Seq({"success", "failed"})
  /\ session \in BOOLEAN /\ pc \in [Threads -> {"idle", "queued"}]
  /\ pushed \in Seq(MsgSizes) /\ bSending \in BOOLEAN
  /\ pending \in Seq(Seq(1..MaxMsgs)) /\ wire \in Seq(1..MaxMsgs)
  /\ inFlight \in Seq(Seq(1..MaxMsgs))
  /\ reading \in {"off", "on", "ended"}
  /\ 0 <= buf.read_pos /\ buf.read_pos <= buf.write_pos /\ buf.write_pos <= buf.size
  /\ buf.size <= MaxRecvBuf /\ DOMAIN buf.data = 0..buf.size - 1
  /\ delivered \in 0..MaxStream

\* The bytes that go out are those of the messages in the order in which send()
\* queued them, none twice and none left out, wherever writes end.
WrittenInOrder ==
  IsPrefix(wire, FlattenSeq([id \in 1..Len(pushed) |-> Bytes(id, pushed[id])]))

\* The unread bytes of the buffer are the next ones of the stream, through
\* growing, moving and partial reads.
UnreadIntact ==
  \A i \in 1..getreadvalidcount(buf) : Unread(buf)[i] = delivered + i

\* Every attempt is reported.
AttemptReported == <>(reports # <<>>)

\* Every byte that is queued is written, unless the connection breaks: also
\* behind an empty message, for which the socket writes nothing.
QueuedIsWritten ==
  \A id \in 1..MaxMsgs :
    (Len(pushed) >= id) ~>
      \/ sock = "closed"
      \/ /\ Len(pushed) >= id
         /\ Cardinality({k \in 1..Len(wire) : wire[k] = id}) = pushed[id]

\* Every packet of the peer reaches the data callback, once the session reads,
\* as long as no packet is larger than the buffer may grow to be (Init).  Of a
\* larger one nothing is claimed: doRecv then reads into no room for ever.
StreamIsDelivered == (reading = "on") ~> (delivered = MaxStream \/ sock = "closed")
=============================================================================
