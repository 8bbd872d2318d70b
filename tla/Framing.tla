------------------------------ MODULE Framing ------------------------------
(***************************************************************************)
(* The packets of the client-gate link: encode_packet and decode_packet    *)
(* (networkEx/packet.cpp), the read loop that collects bytes               *)
(* (Session::readerLoop) and the loop that takes packets out of them       *)
(* (PacketParser::onRecvData; the gate's and the client's are alike).      *)
(*                                                                         *)
(* Bytes are numbers below Width.  The code's widths are scaled down: a    *)
(* header is one byte of id and one of size (4 and 2 in the code), a size, *)
(* and with it the len of decode_packet (uint16_t), is a number below      *)
(* Width (65536), and one read takes ReadSize bytes at most (4096).        *)
(*                                                                         *)
(* LinkProofs extends this module together with Heartbeat, hence the       *)
(* prefix of what both define.                                             *)
(***************************************************************************)
EXTENDS Naturals, Sequences

CONSTANTS
  Width,        \* 2^16: one more than the largest uint16_t
  ReadSize,     \* BUF_SIZE
  BodySizes,    \* the sizes of the bodies that are sent
  MaxPackets    \* bound: packets sent

ASSUME FramingAssumption ==
  /\ Width \in Nat /\ Width > 2
  /\ ReadSize \in Nat \ {0}
  /\ BodySizes \subseteq Nat
  /\ MaxPackets \in Nat

VARIABLES
  sent,         \* history: the messages sent
  net,          \* the bytes under way
  recvBuffer,   \* recvBuffer_
  delivered,    \* history: the messages handed to handleMessage
  pings,        \* heartbeat requests sent
  acks,         \* heartbeat answers sent, to requests of the other direction
  pongs         \* heartbeats answered

framingVars == <<sent, net, recvBuffer, delivered, pings, acks, pongs>>

MsgHeaderSize == 2

CS_HeartBeat_Req == 0
CS_HeartBeat_Ack == 1
MessageIds == {2}

\* A body of n bytes that looks like headers from every offset.
Body(n) == [k \in 1..n |-> k % 2]

Byte == 0 .. (Width - 1)
Packet == [id : Byte, data : Seq(Byte)]

-----------------------------------------------------------------------------
(* packet.cpp.                                                             *)

\* (Player::send casts the size to uint16_t, after a test that makes the cast
\* exact.)
encode_packet(p) == <<p.id, Len(p.data)>> \o p.data

\* Mutant: one byte too many is asked for.
decode_packet_OffByOne(data, len) ==
  /\ len % Width >= MsgHeaderSize
  /\ len % Width > MsgHeaderSize + data[2]

\* Whether a packet is complete.  The caller's size_t is narrowed to uint16_t.
decode_packet(data, len) ==
  /\ len % Width >= MsgHeaderSize
  /\ len % Width >= MsgHeaderSize + data[2]

\* What decode_packet returns in its Packet: the body is a view of the data.
packetOf(data) ==
  [id |-> data[1], data |-> SubSeq(data, MsgHeaderSize + 1, MsgHeaderSize + data[2])]

-----------------------------------------------------------------------------
(* PacketParser::onRecvData.                                               *)

\* Mutant: a heartbeat ends the loop.
Parse_StopsAtHeartbeat[buf \in Seq(Byte)] ==
  IF buf = <<>> \/ ~decode_packet(buf, Len(buf))
  THEN [rest |-> buf, msgs |-> <<>>, pongs |-> 0]
  ELSE LET pack == packetOf(buf)
           tail == SubSeq(buf, MsgHeaderSize + Len(pack.data) + 1, Len(buf))
           next == Parse_StopsAtHeartbeat[tail]
       IN  CASE pack.id = CS_HeartBeat_Req -> [rest |-> tail, msgs |-> <<>>, pongs |-> 0]
             [] pack.id = CS_HeartBeat_Ack -> next
             [] OTHER -> [next EXCEPT !.msgs = <<pack>> \o @]

\* The packets are taken out one by one; a heartbeat request is answered, a
\* heartbeat answer dropped, and what is left stays in the buffer.
Parse[buf \in Seq(Byte)] ==
  IF buf = <<>> \/ ~decode_packet(buf, Len(buf))
  THEN [rest |-> buf, msgs |-> <<>>, pongs |-> 0]
  ELSE LET pack == packetOf(buf)
           next == Parse[SubSeq(buf, MsgHeaderSize + Len(pack.data) + 1, Len(buf))]
       IN  CASE pack.id = CS_HeartBeat_Req -> [next EXCEPT !.pongs = @ + 1]
             [] pack.id = CS_HeartBeat_Ack -> next
             [] OTHER -> [next EXCEPT !.msgs = <<pack>> \o @]

onRecvData_StopsAtHeartbeat(buf) == Parse_StopsAtHeartbeat[buf]

onRecvData(buf) == Parse[buf]

-----------------------------------------------------------------------------

FramingInit ==
  /\ sent = <<>> /\ net = <<>> /\ recvBuffer = <<>> /\ delivered = <<>>
  /\ pings = 0 /\ acks = 0 /\ pongs = 0

\* Player::send: a body over the limit of uint16_t is not sent.
send(id, n) ==
  /\ Len(sent) + pings + acks < MaxPackets
  /\ n < Width
  /\ LET p == [id |-> id, data |-> Body(n)]
     IN  net' = net \o encode_packet(p) /\ sent' = Append(sent, p)
  /\ UNCHANGED <<recvBuffer, delivered, pings, acks, pongs>>

\* Session::sendPing and replyPing: packets like any other.
sendPing ==
  /\ Len(sent) + pings + acks < MaxPackets
  /\ net' = net \o encode_packet([id |-> CS_HeartBeat_Req, data |-> Body(2)])
  /\ pings' = pings + 1
  /\ UNCHANGED <<sent, recvBuffer, delivered, acks, pongs>>

replyPing ==
  /\ Len(sent) + pings + acks < MaxPackets
  /\ net' = net \o encode_packet([id |-> CS_HeartBeat_Ack, data |-> Body(2)])
  /\ acks' = acks + 1
  /\ UNCHANGED <<sent, recvBuffer, delivered, pings, pongs>>

\* Mutant: the buffer is emptied whatever the parser has left in it.
readerLoop_Clears(n) ==
  /\ n <= Len(net)
  /\ LET parsed == onRecvData(recvBuffer \o SubSeq(net, 1, n))
     IN  /\ recvBuffer' = <<>>
         /\ delivered' = delivered \o parsed.msgs
         /\ pongs' = pongs + parsed.pongs
  /\ net' = SubSeq(net, n + 1, Len(net))
  /\ UNCHANGED <<sent, pings, acks>>

\* One turn of readerLoop: async_read_some returns n bytes, the parser runs on
\* all that is buffered, and what it has used up is erased.
readerLoop(n) ==
  /\ n <= Len(net)
  /\ LET parsed == onRecvData(recvBuffer \o SubSeq(net, 1, n))
     IN  /\ recvBuffer' = parsed.rest
         /\ delivered' = delivered \o parsed.msgs
         /\ pongs' = pongs + parsed.pongs
  /\ net' = SubSeq(net, n + 1, Len(net))
  /\ UNCHANGED <<sent, pings, acks>>

Read == \E n \in 1..ReadSize : readerLoop(n)

FramingNext ==
  \/ \E id \in MessageIds, n \in BodySizes : send(id, n)
  \/ sendPing \/ replyPing
  \/ Read

FramingSpec == FramingInit /\ [][FramingNext]_framingVars /\ WF_framingVars(Read)

-----------------------------------------------------------------------------
(* Properties.                                                             *)

\* The buffers hold bytes: every size fits its field of the header.
FramingTypeOK ==
  /\ sent \in Seq(Packet) /\ delivered \in Seq(Packet)
  /\ net \in Seq(Byte) /\ recvBuffer \in Seq(Byte)
  /\ pings \in Nat /\ acks \in Nat /\ pongs \in Nat

\* Between two reads the buffer of Session is shorter than the largest packet:
\* it is bounded by what is sent, not by how the stream was cut.
BufferBounded == \E n \in BodySizes : n < Width /\ Len(recvBuffer) < MsgHeaderSize + n

\* Every heartbeat request is answered once the stream is read out, whatever
\* shares its bytes' reads: the peer's time-out rests on it.
PingsAnswered == pongs <= pings /\ (net = <<>> => pongs = pings)

\* The packet layer is a message channel, however TCP cuts the stream.
Channel ==
  INSTANCE MessageChannel
    WITH Message <- {[id |-> i, data |-> Body(n)] : i \in MessageIds,
                                                    n \in {k \in BodySizes : k < Width}}

ImplementsChannel == Channel!Spec

\* The size check of Player::send lets through only what the other side can
\* take: every message that is sent arrives.
SentArrives == \A k \in 1..MaxPackets : (Len(sent) >= k) ~> (Len(delivered) >= k)
=============================================================================
