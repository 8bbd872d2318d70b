----------------------------- MODULE LinkProofs -----------------------------
(***************************************************************************)
(* Proofs about one connection: its packets, then its heartbeats.          *)
(*                                                                         *)
(* Packets: however the stream is cut into reads, the parser hands over    *)
(* the messages in order, answers every heartbeat request, and leaves less *)
(* than a packet in the buffer, for every set of sizes that fits the 16    *)
(* bits of decode_packet's length.                                         *)
(*                                                                         *)
(* Heartbeats: a live peer is never taken for dead, and a dead one noticed *)
(* in time, for every interval, time-out, delay and resolution of the      *)
(* clock that HeartbeatAssumption allows.  The code's ages are whole       *)
(* seconds, and count the beginnings of seconds.  The proofs measure them  *)
(* in ticks since the beginning of the second in which they were reset,    *)
(* which grows by one with every tick.                                     *)
(***************************************************************************)
EXTENDS Framing, Heartbeat, SequenceTheorems, WellFoundedInduction, TLAPS

\* Numbers, ordered.
Less == {p \in Nat \X Nat : p[1] < p[2]}

\* A set of numbers that is not empty has a least one: induction over the length of
\* a buffer is an argument about the shortest counterexample.
LEMMA LeastNumber ==
  ASSUME NEW T, T \subseteq Nat, T # {}
  PROVE  \E x \in T : \A y \in T : x <= y
<1>1. IsWellFoundedOn(Less, Nat)
  BY NatLessThanWellFounded, Zenon DEF OpToRel, Less
<1>2. PICK x \in T : \A y \in T : ~(<<y, x>> \in Less)
  BY <1>1, WFMin
<1>3. \A y \in T : ~(y < x)
  BY <1>2 DEF Less
<1>4. QED
  BY <1>3

-----------------------------------------------------------------------------
(* What the recursive function Parse is.                                   *)

\* The buffer begins with a packet, and what is behind it.
Complete(b) == b # <<>> /\ decode_packet(b, Len(b))
Behind(b) == SubSeq(b, MsgHeaderSize + Len(packetOf(b).data) + 1, Len(b))

\* One turn of the parser's loop takes a packet; next is what the turns behind it do.
Taken(pack, next) ==
  CASE pack.id = CS_HeartBeat_Req -> [next EXCEPT !.pongs = @ + 1]
    [] pack.id = CS_HeartBeat_Ack -> next
    [] OTHER -> [next EXCEPT !.msgs = <<pack>> \o @]

\* The result of a run of the parser.
Parsed(r, m, n) == [rest |-> r, msgs |-> m, pongs |-> n]

\* The parser's loop from its first turn on, if f is the rest of it.
Turn(b, f) == IF Complete(b) THEN Taken(packetOf(b), f[Behind(b)]) ELSE Parsed(b, <<>>, 0)

\* The widths are numbers.
LEMMA WidthFacts == Width \in Nat /\ Width > 2 /\ ReadSize \in Nat
BY FramingAssumption

\* The recursive definition of Parse, in terms of a turn.
LEMMA ParseForm == Parse = CHOOSE f : f = [b \in Seq(Byte) |-> Turn(b, f)]
  BY Zenon DEF Parse, Turn, Complete, Parsed, Taken, Behind

\* A length below the width is not changed by narrowing it.
LEMMA NotNarrowed ==
  ASSUME NEW n \in Nat, n < Width
  PROVE  n % Width = n
BY WidthFacts

\* The header's second byte is the size of the body.
LEMMA PacketSize ==
  ASSUME NEW b \in Seq(Byte), Len(b) >= 2
  PROVE  b[2] \in Byte /\ b[2] \in Nat /\ Len(packetOf(b).data) = b[2]
<1>1. b[2] \in Byte
  BY WidthFacts
<1>2. b[2] \in Nat
  BY <1>1, WidthFacts DEF Byte
<1>3. packetOf(b).data = SubSeq(b, 2 + 1, 2 + b[2])
  BY Zenon DEF packetOf, MsgHeaderSize
<1>4. Len(SubSeq(b, 2 + 1, 2 + b[2])) = b[2]
  BY <1>2
<1>5. QED
  BY <1>1, <1>2, <1>3, <1>4

\* What is behind a packet is shorter.
LEMMA BehindShorter ==
  ASSUME NEW b \in Seq(Byte), Complete(b)
  PROVE  Behind(b) \in Seq(Byte) /\ Len(Behind(b)) < Len(b) /\ Len(b) >= 2
<1>1. Len(b) \in Nat /\ Len(b) % Width >= 2
  BY DEF Complete, decode_packet, MsgHeaderSize
<1>2. Len(b) >= 2
  <2>1. PICK n \in Nat : n = Len(b)
    BY <1>1
  <2>2. CASE n < Width
    <3>1. n % Width = n
      BY <2>2, NotNarrowed
    <3>2. QED
      BY <1>1, <2>1, <3>1
  <2>3. CASE ~(n < Width)
    BY <2>1, <2>3, WidthFacts
  <2>4. QED
    BY <2>2, <2>3
<1>3. PICK k \in Nat : k = b[2] /\ Len(packetOf(b).data) = k
  BY <1>2, PacketSize
<1>4. Behind(b) = SubSeq(b, (2 + k) + 1, Len(b))
  BY <1>3 DEF Behind, MsgHeaderSize
<1>5. /\ SubSeq(b, (2 + k) + 1, Len(b)) \in Seq(Byte)
      /\ Len(SubSeq(b, (2 + k) + 1, Len(b)))
           = IF (2 + k) + 1 <= Len(b) THEN Len(b) - ((2 + k) + 1) + 1 ELSE 0
  <2>1. \A i \in (2 + k) + 1..Len(b) : b[i] \in Byte
    OBVIOUS
  <2>2. (2 + k) + 1 \in Int /\ Len(b) \in Int
    BY <1>1
  <2>3. QED
    BY <2>1, <2>2, SubSeqProperties
<1>6. QED
  BY <1>1, <1>2, <1>4, <1>5

\* A turn depends on the turns behind it only.
LEMMA TurnAgrees ==
  ASSUME NEW b, NEW f, NEW g, Complete(b) => f[Behind(b)] = g[Behind(b)]
  PROVE  Turn(b, f) = Turn(b, g)
BY DEF Turn

\* The buffers up to a length, and the parser on them.
Upto(n) == {b \in Seq(Byte) : Len(b) <= n}
Parses(f, n) == f = [b \in Upto(n) |-> Turn(b, f)]

\* There is a parser for the buffers up to every length: a turn looks only at
\* shorter ones.
LEMMA ParsesExists ==
  ASSUME NEW n \in Nat
  PROVE  \E f : Parses(f, n)
<1> DEFINE T == {k \in Nat : ~\E f : Parses(f, k)}
<1>1. CASE T = {}
  BY <1>1
<1>2. CASE T # {}
  <2>1. PICK k \in T : \A y \in T : k <= y
    <3>1. T \subseteq Nat
      OBVIOUS
    <3> HIDE DEF T
    <3>2. QED
      BY <1>2, <3>1, LeastNumber
  <2>2. \E f : \A b \in Upto(k) : Complete(b) => f[Behind(b)] = Turn(Behind(b), f)
    <3>1. CASE k = 0
      <4>1. ASSUME NEW b \in Upto(k), Complete(b) PROVE FALSE
        BY <3>1, <4>1, BehindShorter DEF Upto
      <4>2. QED
        BY <4>1
    <3>2. CASE k # 0
      <4>1. k - 1 \in Nat /\ ~(k <= k - 1)
        BY <3>2
      <4>2. PICK f : Parses(f, k - 1)
        BY <2>1, <4>1
      <4>3. ASSUME NEW b \in Upto(k), Complete(b) PROVE f[Behind(b)] = Turn(Behind(b), f)
        <5>1. Behind(b) \in Upto(k - 1)
          BY <4>1, <4>3, BehindShorter DEF Upto
        <5>2. QED
          BY <4>2, <5>1 DEF Parses
      <4>4. QED
        BY <4>3
    <3>3. QED
      BY <3>1, <3>2
  <2>3. PICK f : \A b \in Upto(k) : Complete(b) => f[Behind(b)] = Turn(Behind(b), f)
    BY <2>2
  <2> DEFINE g == [b \in Upto(k) |-> Turn(b, f)]
  <2>4. ASSUME NEW b \in Upto(k) PROVE g[b] = Turn(b, g)
    <3>1. ASSUME Complete(b) PROVE g[Behind(b)] = f[Behind(b)]
      <4>1. Behind(b) \in Upto(k)
        BY <3>1, BehindShorter DEF Upto
      <4>2. QED
        BY <2>3, <3>1, <4>1
    <3>2. g[b] = Turn(b, f)
      OBVIOUS
    <3> HIDE DEF g
    <3>3. QED
      BY <3>1, <3>2, TurnAgrees
  <2>5. Parses(g, k)
    <3>1. [b \in Upto(k) |-> Turn(b, g)] = g
      <4>1. [b \in Upto(k) |-> Turn(b, g)] = [b \in Upto(k) |-> g[b]]
        BY <2>4
      <4>2. QED
        BY <4>1
    <3> HIDE DEF g
    <3>2. QED
      BY <3>1 DEF Parses
  <2>6. QED
    BY <2>5
<1>3. QED
  BY <1>1, <1>2

\* Two of them agree where both are defined.
LEMMA ParsesAgree ==
  ASSUME NEW n \in Nat, NEW m \in Nat, n <= m, NEW f, NEW g, Parses(f, n), Parses(g, m)
  PROVE  \A b \in Upto(n) : f[b] = g[b]
<1> DEFINE T == {k \in Nat : \E b \in Upto(n) : Len(b) = k /\ f[b] # g[b]}
<1>1. CASE T = {}
  <2>1. \A b \in Upto(n) : Len(b) \in Nat
    BY DEF Upto
  <2>2. QED
    BY <1>1, <2>1
<1>2. CASE T # {}
  <2>1. PICK k \in T : \A y \in T : k <= y
    <3>1. T \subseteq Nat
      OBVIOUS
    <3> HIDE DEF T
    <3>2. QED
      BY <1>2, <3>1, LeastNumber
  <2>2. PICK b \in Upto(n) : Len(b) = k /\ f[b] # g[b]
    OBVIOUS
  <2>3. b \in Upto(m) /\ b \in Seq(Byte)
    BY DEF Upto
  <2>4. f[b] = Turn(b, f) /\ g[b] = Turn(b, g)
    BY <2>3 DEF Parses
  <2>5. ASSUME Complete(b) PROVE f[Behind(b)] = g[Behind(b)]
    <3>1. Behind(b) \in Seq(Byte) /\ Len(Behind(b)) < k /\ Len(Behind(b)) \in Nat
      BY <2>2, <2>3, <2>5, BehindShorter
    <3>2. Behind(b) \in Upto(n) /\ ~(k <= Len(Behind(b)))
      BY <2>2, <3>1 DEF Upto
    <3>3. QED
      BY <2>1, <3>1, <3>2
  <2>6. QED
    BY <2>2, <2>4, <2>5, TurnAgrees
<1>3. QED
  BY <1>1, <1>2

\* The equation that defines Parse.
LEMMA ParseIs == ASSUME NEW b \in Seq(Byte) PROVE Parse[b] = Turn(b, Parse)
<1> DEFINE At(n) == CHOOSE f : Parses(f, n)
           F == [x \in Seq(Byte) |-> At(Len(x))[x]]
<1>1. ASSUME NEW n \in Nat PROVE Parses(At(n), n)
  BY ParsesExists
<1> HIDE DEF At
<1>2. ASSUME NEW x \in Seq(Byte) PROVE F[x] = Turn(x, F)
  <2>0. Len(x) \in Nat /\ x \in Upto(Len(x))
    BY DEF Upto
  <2>1. F[x] = Turn(x, At(Len(x)))
    <3>1. F[x] = At(Len(x))[x]
      OBVIOUS
    <3>2. QED
      BY <1>1, <2>0, <3>1 DEF Parses
  <2>2. ASSUME Complete(x) PROVE At(Len(x))[Behind(x)] = F[Behind(x)]
    <3>1. Behind(x) \in Seq(Byte) /\ Len(Behind(x)) <= Len(x) /\ Len(Behind(x)) \in Nat
          /\ Behind(x) \in Upto(Len(Behind(x)))
      BY <2>0, <2>2, BehindShorter DEF Upto
    <3>2. F[Behind(x)] = At(Len(Behind(x)))[Behind(x)]
      BY <3>1
    <3> HIDE DEF F
    <3>3. At(Len(Behind(x)))[Behind(x)] = At(Len(x))[Behind(x)]
      <4>1. Parses(At(Len(Behind(x))), Len(Behind(x))) /\ Parses(At(Len(x)), Len(x))
        BY <1>1, <2>0, <3>1
      <4>2. QED
        BY <2>0, <3>1, <4>1, ParsesAgree
    <3>4. QED
      BY <3>2, <3>3
  <2> HIDE DEF F
  <2>3. QED
    BY <2>1, <2>2, TurnAgrees
<1>3. F = [x \in Seq(Byte) |-> Turn(x, F)]
  <2>1. [x \in Seq(Byte) |-> F[x]] = [x \in Seq(Byte) |-> Turn(x, F)]
    BY <1>2
  <2>2. QED
    BY <2>1
<1> HIDE DEF F
<1>4. Parse = [x \in Seq(Byte) |-> Turn(x, Parse)]
  BY <1>3, ParseForm
<1>5. QED
  BY <1>4

-----------------------------------------------------------------------------
(* Packets and their bytes.                                                *)

\* The packets that are sent: what Player::send lets through, sendPing and replyPing.
Wire ==
  {[id |-> i, data |-> Body(n)] : i \in MessageIds, n \in {k \in BodySizes : k < Width}}
  \union {[id |-> i, data |-> Body(2)] : i \in {CS_HeartBeat_Req, CS_HeartBeat_Ack}}

\* The largest packet and one read fit the width of decode_packet's len.
Fits ==
  /\ \A n \in BodySizes : n < Width => n + ReadSize + MsgHeaderSize <= Width
  /\ 2 + ReadSize + MsgHeaderSize <= Width

\* The bytes of a body.
LEMMA BodyFacts ==
  ASSUME NEW n \in Nat
  PROVE  Body(n) \in Seq(Byte) /\ Len(Body(n)) = n
<1>1. \A k \in 1..n : k % 2 \in Byte
  BY WidthFacts DEF Byte
<1>2. QED
  BY <1>1 DEF Body

\* A packet that is sent.
LEMMA WireFacts ==
  ASSUME NEW p \in Wire
  PROVE  /\ p = [id |-> p.id, data |-> p.data]
         /\ p.id \in {0, 1, 2} /\ p.id \in Byte /\ p.data \in Seq(Byte)
         /\ Len(p.data) \in Byte /\ Len(p.data) \in Nat /\ p \in Packet
         /\ Len(p.data) = 2 \/ (Len(p.data) \in BodySizes /\ Len(p.data) < Width)
         /\ Fits => Len(p.data) + ReadSize + 2 <= Width
<1>1. PICK i, n : /\ p = [id |-> i, data |-> Body(n)] /\ i \in {0, 1, 2}
                  /\ n \in Nat /\ n < Width /\ (n = 2 \/ n \in BodySizes)
  <2>1. CASE p \in {[id |-> i, data |-> Body(n)] :
                      i \in MessageIds, n \in {k \in BodySizes : k < Width}}
    BY <2>1, FramingAssumption DEF MessageIds
  <2>2. CASE p \in {[id |-> i, data |-> Body(2)] : i \in {CS_HeartBeat_Req, CS_HeartBeat_Ack}}
    BY <2>2, WidthFacts DEF CS_HeartBeat_Req, CS_HeartBeat_Ack
  <2>3. QED
    BY <2>1, <2>2 DEF Wire
<1>2. Body(n) \in Seq(Byte) /\ Len(Body(n)) = n
  BY <1>1, BodyFacts
<1>3. p.id = i /\ p.data = Body(n)
  BY <1>1
<1>4. n \in Byte /\ i \in Byte
  BY <1>1, WidthFacts DEF Byte
<1>5. Fits => n + ReadSize + 2 <= Width
  BY <1>1, WidthFacts DEF Fits, MsgHeaderSize
<1>6. QED
  BY <1>1, <1>2, <1>3, <1>4, <1>5 DEF Packet

\* Its bytes.
LEMMA EncodeFacts ==
  ASSUME NEW p \in Wire
  PROVE  LET e == encode_packet(p) IN
         /\ e \in Seq(Byte) /\ Len(e) = 2 + Len(p.data)
         /\ e[1] = p.id /\ e[2] = Len(p.data)
         /\ \A j \in 1..Len(p.data) : e[2 + j] = p.data[j]
<1>1. PICK i, d : i = p.id /\ d = p.data /\ i \in Byte /\ d \in Seq(Byte) /\ Len(d) \in Byte
  BY WireFacts
<1>2. PICK n : n = Len(d) /\ n \in Byte /\ n \in Nat
  BY <1>1
<1>3. encode_packet(p) = <<i, n>> \o d
  BY <1>1, <1>2 DEF encode_packet
<1>4. LET e == <<i, n>> \o d IN
         /\ e \in Seq(Byte) /\ Len(e) = 2 + n
         /\ e[1] = i /\ e[2] = n
         /\ \A j \in 1..n : e[2 + j] = d[j]
  BY <1>1, <1>2
<1>5. QED
  BY <1>1, <1>2, <1>3, <1>4

\* A stream that begins with its bytes.
LEMMA FrontFacts ==
  ASSUME NEW p \in Wire, NEW u \in Seq(Byte)
  PROVE  LET b == encode_packet(p) \o u IN
         /\ b \in Seq(Byte) /\ Len(b) = (2 + Len(p.data)) + Len(u)
         /\ b[1] = p.id /\ b[2] = Len(p.data)
         /\ \A j \in 1..Len(p.data) : b[2 + j] = p.data[j]
         /\ \A j \in 1..Len(u) : b[(2 + Len(p.data)) + j] = u[j]
<1>1. PICK e, n : e = encode_packet(p) /\ n = Len(p.data) /\ n \in Nat
  BY WireFacts
<1>2. /\ e \in Seq(Byte) /\ Len(e) = 2 + n /\ e[1] = p.id /\ e[2] = n
      /\ \A j \in 1..n : e[2 + j] = p.data[j]
  BY <1>1, EncodeFacts
<1> DEFINE b == e \o u
<1>3. /\ b \in Seq(Byte) /\ Len(b) = Len(e) + Len(u)
      /\ \A i \in 1..Len(e) + Len(u) : b[i] = IF i <= Len(e) THEN e[i] ELSE u[i - Len(e)]
  BY <1>2, ConcatProperties
<1> HIDE DEF b
<1>a. Len(u) \in Nat
  OBVIOUS
<1>4. /\ b \in Seq(Byte) /\ Len(b) = (2 + n) + Len(u)
      /\ b[1] = p.id /\ b[2] = n
  <2>1. /\ 1 \in 1..Len(e) + Len(u) /\ 1 <= Len(e)
        /\ 2 \in 1..Len(e) + Len(u) /\ 2 <= Len(e)
    BY <1>1, <1>2, <1>a
  <2>2. b[1] = e[1] /\ b[2] = e[2]
    BY <1>3, <2>1
  <2>3. QED
    BY <1>2, <1>3, <2>2
<1>5. ASSUME NEW j \in 1..n PROVE b[2 + j] = p.data[j]
  <2>1. 2 + j \in 1..Len(e) + Len(u) /\ 2 + j <= Len(e)
    BY <1>1, <1>2, <1>a
  <2>2. b[2 + j] = e[2 + j]
    BY <1>3, <2>1
  <2>3. QED
    BY <1>2, <2>2
<1>6. ASSUME NEW j \in 1..Len(u) PROVE b[(2 + n) + j] = u[j]
  <2>1. (2 + n) + j \in 1..Len(e) + Len(u) /\ ~((2 + n) + j <= Len(e))
        /\ ((2 + n) + j) - Len(e) = j
    BY <1>1, <1>2, <1>a
  <2>2. QED
    BY <1>3, <2>1
<1>7. QED
  BY <1>1, <1>4, <1>5, <1>6, Zenon DEF b

\* A piece of a sequence.
LEMMA Piece ==
  ASSUME NEW S, NEW s \in Seq(S), NEW a \in Nat, NEW c \in Nat, a <= c, c <= Len(s)
  PROVE  /\ SubSeq(s, a + 1, c) \in Seq(S) /\ Len(SubSeq(s, a + 1, c)) = c - a
         /\ \A i \in 1..c - a : SubSeq(s, a + 1, c)[i] = s[a + i]
<1>1. \A i \in a + 1..c : s[i] \in S
  OBVIOUS
<1>2. SubSeq(s, a + 1, c) \in Seq(S)
  BY <1>1, SubSeqProperties
<1>3. QED
  BY <1>2

\* The parser takes that packet, when the width holds the buffer's length.
LEMMA DecodeFront ==
  ASSUME NEW p \in Wire, NEW u \in Seq(Byte), NEW b, b = encode_packet(p) \o u,
         Len(b) < Width
  PROVE  Complete(b) /\ packetOf(b) = p /\ Behind(b) = u
<1>1. PICK n : n = Len(p.data) /\ n \in Nat /\ p.data \in Seq(Byte)
               /\ p = [id |-> p.id, data |-> p.data]
  BY WireFacts
<1>2. /\ b \in Seq(Byte) /\ Len(b) = (2 + n) + Len(u) /\ b[1] = p.id /\ b[2] = n
      /\ \A j \in 1..n : b[2 + j] = p.data[j]
      /\ \A j \in 1..Len(u) : b[(2 + n) + j] = u[j]
  BY <1>1, FrontFacts
<1>3. Len(u) \in Nat /\ Len(b) \in Nat /\ Len(b) % Width = Len(b)
  <2>1. PICK m : m = Len(b) /\ m \in Nat /\ m < Width
    BY <1>1, <1>2
  <2>2. m % Width = m
    BY <2>1, NotNarrowed
  <2>3. QED
    BY <2>1, <2>2
<1>4. Complete(b)
  <2>1. b # <<>>
    BY <1>1, <1>2, <1>3
  <2>2. decode_packet(b, Len(b))
    BY <1>1, <1>2, <1>3 DEF decode_packet, MsgHeaderSize
  <2>3. QED
    BY <2>1, <2>2 DEF Complete
<1>5. SubSeq(b, 2 + 1, 2 + n) = p.data
  <2>1. 2 <= 2 + n /\ 2 + n <= Len(b) /\ 2 + n \in Nat /\ (2 + n) - 2 = n
    BY <1>1, <1>2, <1>3
  <2>2. /\ SubSeq(b, 2 + 1, 2 + n) \in Seq(Byte)
        /\ Len(SubSeq(b, 2 + 1, 2 + n)) = n
        /\ \A i \in 1..n : SubSeq(b, 2 + 1, 2 + n)[i] = b[2 + i]
    <3>1. PICK a, c : a = 2 /\ c = 2 + n
      OBVIOUS
    <3>2. /\ SubSeq(b, a + 1, c) \in Seq(Byte) /\ Len(SubSeq(b, a + 1, c)) = c - a
          /\ \A i \in 1..c - a : SubSeq(b, a + 1, c)[i] = b[a + i]
      <4>1. a \in Nat /\ c \in Nat /\ a <= c /\ c <= Len(b)
        BY <2>1, <3>1
      <4>2. QED
        BY <1>2, <4>1, Piece
    <3>3. QED
      BY <2>1, <3>1, <3>2
  <2>3. PICK x, d : x = SubSeq(b, 2 + 1, 2 + n) /\ d = p.data
    OBVIOUS
  <2>4. x \in Seq(Byte) /\ d \in Seq(Byte) /\ Len(x) = Len(d)
        /\ \A i \in 1..Len(x) : x[i] = d[i]
    BY <1>1, <1>2, <2>2, <2>3
  <2>5. x = d
    BY <2>4, SeqEqual
  <2>6. QED
    BY <2>3, <2>5
<1>6. packetOf(b) = p
  <2>1. packetOf(b) = [id |-> b[1], data |-> SubSeq(b, 2 + 1, 2 + b[2])]
    BY Zenon DEF packetOf, MsgHeaderSize
  <2>2. QED
    BY <1>1, <1>2, <1>5, <2>1
<1>7. Behind(b) = u
  <2>1. Behind(b) = SubSeq(b, (2 + n) + 1, Len(b))
    BY <1>1, <1>6 DEF Behind, MsgHeaderSize
  <2>2. /\ 2 + n \in Nat /\ Len(b) \in Nat /\ 2 + n <= Len(b)
        /\ Len(b) - (2 + n) = Len(u)
    BY <1>1, <1>2, <1>3
  <2>3. /\ SubSeq(b, (2 + n) + 1, Len(b)) \in Seq(Byte)
        /\ Len(SubSeq(b, (2 + n) + 1, Len(b))) = Len(u)
        /\ \A i \in 1..Len(u) : SubSeq(b, (2 + n) + 1, Len(b))[i] = b[(2 + n) + i]
    <3>1. PICK a, c : a = 2 + n /\ c = Len(b)
      OBVIOUS
    <3>2. /\ SubSeq(b, a + 1, c) \in Seq(Byte) /\ Len(SubSeq(b, a + 1, c)) = c - a
          /\ \A i \in 1..c - a : SubSeq(b, a + 1, c)[i] = b[a + i]
      <4>1. a \in Nat /\ c \in Nat /\ a <= c /\ c <= Len(b)
        BY <2>2, <3>1
      <4>2. QED
        BY <1>2, <4>1, Piece
    <3>3. QED
      BY <2>2, <3>1, <3>2
  <2>4. PICK x : x = SubSeq(b, (2 + n) + 1, Len(b))
    OBVIOUS
  <2>5. x \in Seq(Byte) /\ Len(x) = Len(u) /\ \A i \in 1..Len(x) : x[i] = u[i]
    <3>1. x \in Seq(Byte) /\ Len(x) = Len(u) /\ \A i \in 1..Len(u) : x[i] = b[(2 + n) + i]
      BY <2>3, <2>4, ZenonT(60)
    <3>2. \A i \in 1..Len(u) : b[(2 + n) + i] = u[i]
      BY <1>2
    <3>3. QED
      BY <3>1, <3>2, ZenonT(60)
  <2>6. x = u
    BY <2>5, SeqEqual
  <2>7. QED
    BY <2>1, <2>4, <2>6
<1>8. QED
  BY <1>4, <1>6, <1>7

\* Two sequences one behind the other, under a name of its own.
Cat(a, b) == a \o b

\* Joining two sequences, and an empty one with another.
LEMMA CatFacts ==
  ASSUME NEW S, NEW a \in Seq(S), NEW b \in Seq(S)
  PROVE  Cat(a, b) \in Seq(S) /\ Cat(a, <<>>) = a /\ Cat(<<>>, b) = b
BY ConcatProperties, ConcatEmptySeq DEF Cat

\* Joins may be regrouped.
LEMMA CatAssoc ==
  ASSUME NEW S, NEW a \in Seq(S), NEW b \in Seq(S), NEW c \in Seq(S)
  PROVE  Cat(Cat(a, b), c) = Cat(a, Cat(b, c))
BY ConcatAssociative DEF Cat

\* A common front may be dropped.
LEMMA CatCancel ==
  ASSUME NEW S, NEW a \in Seq(S), NEW b \in Seq(S), NEW c \in Seq(S), Cat(a, b) = Cat(a, c)
  PROVE  b = c
BY ConcatSimplifications DEF Cat

\* Two ways to cut the same stream: the longer first part begins with the other.
LEMMA SplitFront ==
  ASSUME NEW S, NEW x \in Seq(S), NEW y \in Seq(S), NEW z \in Seq(S), NEW w \in Seq(S),
         Cat(x, y) = Cat(z, w), Len(z) <= Len(x)
  PROVE  \E u \in Seq(S) : x = Cat(z, u) /\ w = Cat(u, y)
<1> DEFINE u == SubSeq(x, Len(z) + 1, Len(x))
           v == SubSeq(x, 1, Len(z))
<1>0. Len(x) \in Nat /\ Len(z) \in Nat /\ Len(y) \in Nat
  OBVIOUS
<1>1. u \in Seq(S) /\ v \in Seq(S) /\ Len(v) = Len(z)
      /\ \A i \in 1..Len(z) : v[i] = x[i]
  <2>1. \A i \in 1..Len(x) : x[i] \in S
    OBVIOUS
  <2>2. u \in Seq(S)
    BY <1>0, <2>1, SubSeqProperties
  <2>3. v \in Seq(S) /\ Len(v) = Len(z) /\ \A i \in 1..Len(z) : v[i] = x[i]
    BY <1>0, <2>1
  <2>4. QED
    BY <2>2, <2>3
<1>2. v \o u = x
  <2>1. 1 \in 1..Len(x) + 1 /\ Len(z) \in (1 - 1)..Len(x) /\ Len(x) \in Len(z)..Len(x)
    BY <1>0
  <2>2. v \o u = SubSeq(x, 1, Len(x))
    BY <2>1, ConcatAdjacentSubSeq
  <2>3. QED
    BY <2>2, SubSeqFull
<1> HIDE DEF u, v
<1>3. v = z
  <2>0. x \o y = z \o w
    BY DEF Cat
  <2>1. \A i \in 1..Len(z) : (x \o y)[i] = x[i] /\ (z \o w)[i] = z[i]
    BY <1>0
  <2>2. \A i \in 1..Len(z) : v[i] = z[i]
    BY <1>1, <2>0, <2>1
  <2>3. QED
    BY <1>1, <2>2, SeqEqual
<1>4. w = Cat(u, y)
  <2>1. Cat(Cat(z, u), y) = Cat(z, w)
    BY <1>2, <1>3 DEF Cat
  <2>2. Cat(Cat(z, u), y) = Cat(z, Cat(u, y)) /\ Cat(u, y) \in Seq(S)
    BY <1>1, CatAssoc, CatFacts
  <2>3. Cat(u, y) = w
    BY <2>1, <2>2, CatCancel
  <2>4. QED
    BY <2>3
<1>5. QED
  BY <1>1, <1>2, <1>3, <1>4 DEF Cat

-----------------------------------------------------------------------------
(* Streams of packets.                                                     *)

\* What the packet adds to the messages and to the heartbeat requests.
Msgs(p) == IF p.id \in MessageIds THEN <<p>> ELSE <<>>
Pings(p) == IF p.id = CS_HeartBeat_Req THEN 1 ELSE 0

\* A stream: its bytes, the messages in it and the number of heartbeat requests.
Streams == Seq(Byte) \X Seq(Packet) \X Nat

\* The empty stream, a stream with a packet more before it, or behind it.
Empty == <<<<>>, <<>>, 0>>
Cons(p, t) == <<Cat(encode_packet(p), t[1]), Cat(Msgs(p), t[2]), Pings(p) + t[3]>>
Snoc(t, p) == <<Cat(t[1], encode_packet(p)), Cat(t[2], Msgs(p)), t[3] + Pings(p)>>

\* The streams of whole packets: the least set that has the empty one and, with
\* a stream, the one with a packet more before it.
Closed(X) == Empty \in X /\ \A p \in Wire, t \in X : Cons(p, t) \in X
Carrying == {t \in Streams : \A X \in SUBSET Streams : Closed(X) => t \in X}

\* What a packet adds to the three parts of a stream.
LEMMA AddsFacts ==
  ASSUME NEW p \in Wire
  PROVE  Msgs(p) \in Seq(Packet) /\ Pings(p) \in Nat /\ encode_packet(p) \in Seq(Byte)
<1>1. p \in Packet
  BY WireFacts
<1>2. Msgs(p) \in Seq(Packet)
  BY <1>1 DEF Msgs
<1>3. QED
  BY <1>2, EncodeFacts DEF Pings

\* The parts of a stream.
LEMMA StreamParts ==
  ASSUME NEW t \in Streams
  PROVE  /\ t[1] \in Seq(Byte) /\ t[2] \in Seq(Packet) /\ t[3] \in Nat
         /\ t = <<t[1], t[2], t[3]>>
BY DEF Streams

\* With a packet more it is a stream again.
LEMMA ConsType ==
  ASSUME NEW p \in Wire, NEW t \in Streams
  PROVE  Cons(p, t) \in Streams /\ Snoc(t, p) \in Streams
<1>1. /\ t[1] \in Seq(Byte) /\ t[2] \in Seq(Packet) /\ t[3] \in Nat
      /\ Msgs(p) \in Seq(Packet) /\ Pings(p) \in Nat /\ encode_packet(p) \in Seq(Byte)
  BY StreamParts, AddsFacts
<1>2. /\ Cat(encode_packet(p), t[1]) \in Seq(Byte) /\ Cat(Msgs(p), t[2]) \in Seq(Packet)
      /\ Cat(t[1], encode_packet(p)) \in Seq(Byte) /\ Cat(t[2], Msgs(p)) \in Seq(Packet)
  BY <1>1, CatFacts
<1>3. Pings(p) + t[3] \in Nat /\ t[3] + Pings(p) \in Nat
  BY <1>1
<1>4. QED
  BY <1>2, <1>3, Zenon DEF Cons, Snoc, Streams

\* The empty stream is one.
LEMMA EmptyType == Empty \in Streams
<1>1. <<>> \in Seq(Byte) /\ <<>> \in Seq(Packet) /\ 0 \in Nat
  OBVIOUS
<1>2. QED
  BY <1>1, Zenon DEF Empty, Streams

\* The set is closed, and every closed part of it is the whole of it.
LEMMA CarryingClosed == Closed(Carrying)
<1>1. Empty \in Carrying
  BY EmptyType DEF Carrying, Closed
<1>2. ASSUME NEW p \in Wire, NEW t \in Carrying PROVE Cons(p, t) \in Carrying
  <2>1. t \in Streams
    BY DEF Carrying
  <2>2. Cons(p, t) \in Streams
    BY <2>1, ConsType
  <2>3. ASSUME NEW X \in SUBSET Streams, Closed(X) PROVE Cons(p, t) \in X
    <3>1. t \in X
      BY <2>3 DEF Carrying
    <3>2. QED
      BY <2>3, <3>1 DEF Closed
  <2>4. QED
    BY <2>2, <2>3 DEF Carrying
<1>3. QED
  BY <1>1, <1>2 DEF Closed

\* A closed part of the set is the whole of it: induction over the packets of a stream.
LEMMA CarryingLeast ==
  ASSUME NEW X, X \subseteq Carrying, Closed(X)
  PROVE  \A t \in Carrying : t \in X
BY DEF Carrying

\* A stream is empty or begins with a packet.
LEMMA CarryingFront ==
  ASSUME NEW t \in Carrying
  PROVE  t = Empty \/ \E p \in Wire, v \in Carrying : t = Cons(p, v)
<1> DEFINE X == {s \in Carrying : s = Empty \/ \E p \in Wire, v \in Carrying : s = Cons(p, v)}
<1>1. Closed(X)
  BY CarryingClosed, Zenon DEF Closed
<1>2. X \subseteq Carrying
  OBVIOUS
<1> HIDE DEF X
<1>3. t \in X
  BY <1>1, <1>2, CarryingLeast
<1>4. QED
  BY <1>3 DEF X

\* A packet may be put behind a stream.
LEMMA SnocCons ==
  ASSUME NEW p \in Wire, NEW q \in Wire, NEW t \in Streams
  PROVE  Snoc(Cons(q, t), p) = Cons(q, Snoc(t, p)) /\ Snoc(Empty, p) = Cons(p, Empty)
<1>1. PICK a, b, c : a = t[1] /\ b = t[2] /\ c = t[3]
  OBVIOUS
<1>2. a \in Seq(Byte) /\ b \in Seq(Packet) /\ c \in Nat
  BY <1>1, StreamParts
<1>3. PICK e, m, n : e = encode_packet(p) /\ m = Msgs(p) /\ n = Pings(p)
  OBVIOUS
<1>4. PICK f, k, l : f = encode_packet(q) /\ k = Msgs(q) /\ l = Pings(q)
  OBVIOUS
<1>5. /\ e \in Seq(Byte) /\ m \in Seq(Packet) /\ n \in Nat
      /\ f \in Seq(Byte) /\ k \in Seq(Packet) /\ l \in Nat
  BY <1>3, <1>4, AddsFacts
<1>6. Cons(q, t) = <<Cat(f, a), Cat(k, b), l + c>>
  BY <1>1, <1>4 DEF Cons
<1>7. Snoc(Cons(q, t), p) = <<Cat(Cat(f, a), e), Cat(Cat(k, b), m), (l + c) + n>>
  BY <1>3, <1>6 DEF Snoc
<1>8. Snoc(t, p) = <<Cat(a, e), Cat(b, m), c + n>>
  BY <1>1, <1>3 DEF Snoc
<1>9. Cons(q, Snoc(t, p)) = <<Cat(f, Cat(a, e)), Cat(k, Cat(b, m)), l + (c + n)>>
  BY <1>4, <1>8 DEF Cons
<1>10. Cat(Cat(f, a), e) = Cat(f, Cat(a, e)) /\ Cat(Cat(k, b), m) = Cat(k, Cat(b, m))
  BY <1>2, <1>5, CatAssoc
<1>11. (l + c) + n = l + (c + n)
  BY <1>2, <1>5
<1>12. Snoc(Empty, p) = Cons(p, Empty)
  <2>1. Snoc(Empty, p) = <<Cat(<<>>, e), Cat(<<>>, m), 0 + n>>
    BY <1>3 DEF Snoc, Empty
  <2>2. Cons(p, Empty) = <<Cat(e, <<>>), Cat(m, <<>>), n + 0>>
    BY <1>3 DEF Cons, Empty
  <2>3. /\ Cat(<<>>, e) = e /\ Cat(e, <<>>) = e
        /\ Cat(<<>>, m) = m /\ Cat(m, <<>>) = m
    BY <1>5, CatFacts
  <2>4. 0 + n = n + 0
    BY <1>5
  <2>5. QED
    BY <2>1, <2>2, <2>3, <2>4
<1>13. QED
  BY <1>7, <1>9, <1>10, <1>11, <1>12

\* A packet that is put behind a stream of whole packets leaves it one.
LEMMA CarryingBack ==
  ASSUME NEW t \in Carrying, NEW p \in Wire
  PROVE  Snoc(t, p) \in Carrying
<1> DEFINE X == {s \in Carrying : Snoc(s, p) \in Carrying}
<1>1. Empty \in X
  <2>1. Empty \in Carrying /\ Cons(p, Empty) \in Carrying
    BY CarryingClosed DEF Closed
  <2>2. Snoc(Empty, p) = Cons(p, Empty)
    BY EmptyType, SnocCons
  <2>3. QED
    BY <2>1, <2>2
<1>2. ASSUME NEW q \in Wire, NEW s \in X PROVE Cons(q, s) \in X
  <2>1. s \in Carrying /\ Snoc(s, p) \in Carrying /\ s \in Streams
    BY DEF Carrying
  <2>2. Cons(q, s) \in Carrying /\ Cons(q, Snoc(s, p)) \in Carrying
    BY <2>1, CarryingClosed DEF Closed
  <2>3. Snoc(Cons(q, s), p) = Cons(q, Snoc(s, p))
    BY <2>1, SnocCons
  <2>4. QED
    BY <2>2, <2>3
<1>3. Closed(X) /\ X \subseteq Carrying
  BY <1>1, <1>2 DEF Closed
<1> HIDE DEF X
<1>4. t \in X
  BY <1>3, CarryingLeast
<1>5. QED
  BY <1>4 DEF X

-----------------------------------------------------------------------------
(* What the parser makes of a stream.                                      *)

\* The buffer holds less than the packet it begins with.
Incomplete(b) == Len(b) < 2 \/ Len(b) < 2 + b[2]

\* decode_packet finds a packet exactly when the buffer holds all of it, as long as
\* narrowing does not change the buffer's length.
LEMMA CompleteIs ==
  ASSUME NEW b \in Seq(Byte), Len(b) < Width
  PROVE  Complete(b) <=> ~Incomplete(b)
<1>1. PICK n : n = Len(b) /\ n \in Nat /\ n % Width = n
  BY NotNarrowed
<1>2. CASE n < 2
  BY <1>1, <1>2 DEF Complete, Incomplete, decode_packet, MsgHeaderSize
<1>3. CASE ~(n < 2)
  <2>1. b[2] \in Nat /\ b # <<>>
    BY <1>1, <1>3, PacketSize
  <2>2. QED
    BY <1>1, <1>3, <2>1 DEF Complete, Incomplete, decode_packet, MsgHeaderSize
<1>4. QED
  BY <1>2, <1>3

\* The loop ends at a packet that is not complete.
LEMMA ParseStops ==
  ASSUME NEW b \in Seq(Byte), ~Complete(b)
  PROVE  Parse[b] = Parsed(b, <<>>, 0)
BY ParseIs DEF Turn

\* A heartbeat request is answered.
LEMMA TakenPing ==
  ASSUME NEW p, p.id = 0, NEW r, NEW m, NEW n \in Nat
  PROVE  Taken(p, Parsed(r, m, n)) = Parsed(r, m, n + 1)
<1>1. PICK next : next = Parsed(r, m, n)
  OBVIOUS
<1>2. next = [rest |-> r, msgs |-> m, pongs |-> n] /\ next.pongs = n /\ next.msgs = m
  BY <1>1 DEF Parsed
<1>3. Taken(p, next) = [next EXCEPT !.pongs = next.pongs + 1]
  BY DEF Taken, CS_HeartBeat_Req, CS_HeartBeat_Ack
<1>4. PICK k : k = n + 1
  OBVIOUS
<1>5. Taken(p, next) = [next EXCEPT !.pongs = k]
  BY <1>2, <1>3, <1>4
<1>6. [next EXCEPT !.pongs = k] = [rest |-> r, msgs |-> m, pongs |-> k]
  BY <1>2
<1>7. QED
  BY <1>1, <1>4, <1>5, <1>6 DEF Parsed

\* A heartbeat answer is dropped.
LEMMA TakenAck ==
  ASSUME NEW p, p.id = 1, NEW next
  PROVE  Taken(p, next) = next
BY DEF Taken, CS_HeartBeat_Req, CS_HeartBeat_Ack

\* A message is put before those behind it.
LEMMA TakenMessage ==
  ASSUME NEW p, p.id = 2, NEW r, NEW m, NEW n \in Nat
  PROVE  Taken(p, Parsed(r, m, n)) = Parsed(r, Cat(<<p>>, m), n)
<1>1. PICK next : next = Parsed(r, m, n)
  OBVIOUS
<1>2. next = [rest |-> r, msgs |-> m, pongs |-> n] /\ next.pongs = n /\ next.msgs = m
  BY <1>1 DEF Parsed
<1>3. Taken(p, next) = [next EXCEPT !.msgs = <<p>> \o next.msgs]
  BY DEF Taken, CS_HeartBeat_Req, CS_HeartBeat_Ack
<1>4. PICK k : k = Cat(<<p>>, m)
  OBVIOUS
<1>5. Taken(p, next) = [next EXCEPT !.msgs = k]
  BY <1>2, <1>3, <1>4 DEF Cat
<1>6. [next EXCEPT !.msgs = k] = [rest |-> r, msgs |-> k, pongs |-> n]
  BY <1>2
<1>7. QED
  BY <1>1, <1>4, <1>5, <1>6 DEF Parsed

\* The loop takes a packet that is complete and goes on behind it.
LEMMA ParseTakes ==
  ASSUME NEW p \in Wire, NEW u \in Seq(Byte), Len(Cat(encode_packet(p), u)) < Width,
         NEW r, NEW m \in Seq(Packet), NEW n \in Nat, Parse[u] = Parsed(r, m, n)
  PROVE  Parse[Cat(encode_packet(p), u)] = Parsed(r, Cat(Msgs(p), m), Pings(p) + n)
<1>1. PICK b : b = Cat(encode_packet(p), u)
  OBVIOUS
<1>2. b \in Seq(Byte)
  BY <1>1, AddsFacts, CatFacts
<1>3. Complete(b) /\ packetOf(b) = p /\ Behind(b) = u
  BY <1>1, DecodeFront DEF Cat
<1>4. Parse[b] = Taken(p, Parsed(r, m, n))
  BY <1>2, <1>3, ParseIs DEF Turn
<1>5. p.id \in {0, 1, 2}
  BY WireFacts
<1>6. CASE p.id = 0
  <2>1. Msgs(p) = <<>> /\ Pings(p) = 1
    BY <1>6 DEF Msgs, Pings, MessageIds, CS_HeartBeat_Req
  <2>2. Cat(<<>>, m) = m /\ 1 + n = n + 1
    BY CatFacts
  <2>3. Parse[b] = Parsed(r, m, n + 1)
    BY <1>4, <1>6, TakenPing
  <2>4. QED
    BY <1>1, <2>1, <2>2, <2>3
<1>7. CASE p.id = 1
  <2>1. Msgs(p) = <<>> /\ Pings(p) = 0
    BY <1>7 DEF Msgs, Pings, MessageIds, CS_HeartBeat_Req
  <2>2. Cat(<<>>, m) = m /\ 0 + n = n
    BY CatFacts
  <2>3. Parse[b] = Parsed(r, m, n)
    BY <1>4, <1>7, TakenAck
  <2>4. QED
    BY <1>1, <2>1, <2>2, <2>3
<1>8. CASE p.id = 2
  <2>1. Msgs(p) = <<p>> /\ Pings(p) = 0
    BY <1>8 DEF Msgs, Pings, MessageIds, CS_HeartBeat_Req
  <2>2. 0 + n = n
    OBVIOUS
  <2>3. Parse[b] = Parsed(r, Cat(<<p>>, m), n)
    BY <1>4, <1>8, TakenMessage
  <2>4. QED
    BY <1>1, <2>1, <2>2, <2>3
<1>9. QED
  BY <1>5, <1>6, <1>7, <1>8

\* The parser, run on the first part of a stream, takes packets off its front and
\* leaves a stream that begins with a packet it has not all of.
Good(t, buf, more) ==
  \E r \in Seq(Byte), m \in Seq(Packet), n \in Nat, v \in Carrying :
    /\ Parse[buf] = Parsed(r, m, n) /\ Incomplete(r)
    /\ v[1] = Cat(r, more) /\ t[2] = Cat(m, v[2]) /\ t[3] = n + v[3]

\* So it is when the buffer has not all of the first packet.
LEMMA StopIsGood ==
  ASSUME NEW t \in Carrying, NEW buf \in Seq(Byte), NEW more \in Seq(Byte),
         t[1] = Cat(buf, more), Len(buf) < Width, Incomplete(buf)
  PROVE  Good(t, buf, more)
<1>1. Parse[buf] = Parsed(buf, <<>>, 0)
  BY CompleteIs, ParseStops
<1>2. t[2] \in Seq(Packet) /\ t[3] \in Nat
  BY StreamParts DEF Carrying
<1>3. <<>> \in Seq(Packet) /\ t[2] = Cat(<<>>, t[2])
  BY <1>2, CatFacts
<1>4. t[3] = 0 + t[3] /\ 0 \in Nat
  BY <1>2
<1>5. QED
  BY <1>1, <1>3, <1>4 DEF Good

\* So it is with a packet more before the stream.
LEMMA TakeIsGood ==
  ASSUME NEW p \in Wire, NEW t \in Carrying, NEW u \in Seq(Byte), NEW more \in Seq(Byte),
         Len(Cat(encode_packet(p), u)) < Width, Good(t, u, more)
  PROVE  Good(Cons(p, t), Cat(encode_packet(p), u), more)
<1>1. PICK r \in Seq(Byte), m \in Seq(Packet), n \in Nat, v \in Carrying :
        /\ Parse[u] = Parsed(r, m, n) /\ Incomplete(r)
        /\ v[1] = Cat(r, more) /\ t[2] = Cat(m, v[2]) /\ t[3] = n + v[3]
  BY DEF Good
<1>2. v[2] \in Seq(Packet) /\ v[3] \in Nat
  BY StreamParts DEF Carrying
<1>3. Msgs(p) \in Seq(Packet) /\ Pings(p) \in Nat
  BY AddsFacts
<1>4. Parse[Cat(encode_packet(p), u)]
        = Parsed(r, Cat(Msgs(p), m), Pings(p) + n)
  BY <1>1, ParseTakes
<1>5. Cons(p, t)[2] = Cat(Msgs(p), t[2]) /\ Cons(p, t)[3] = Pings(p) + t[3]
  BY DEF Cons
<1>6. Cat(Msgs(p), t[2]) = Cat(Cat(Msgs(p), m), v[2]) /\ Cat(Msgs(p), m) \in Seq(Packet)
  <2>1. Cat(Cat(Msgs(p), m), v[2]) = Cat(Msgs(p), Cat(m, v[2]))
    BY <1>2, <1>3, CatAssoc
  <2>2. QED
    BY <1>1, <1>3, <2>1, CatFacts
<1>7. Pings(p) + t[3] = (Pings(p) + n) + v[3] /\ Pings(p) + n \in Nat
  <2>1. PICK i \in Nat, j \in Nat, k \in Nat : i = Pings(p) /\ j = v[3] /\ k = t[3]
    BY <1>1, <1>2, <1>3
  <2>2. k = n + j
    BY <1>1, <2>1
  <2>3. i + k = (i + n) + j /\ i + n \in Nat
    BY <2>2
  <2>4. QED
    BY <2>1, <2>3
<1>8. QED
  <2>1. PICK a, c, d, b : /\ a = Cat(Msgs(p), m) /\ c = Pings(p) + n /\ d = Cons(p, t)
                          /\ b = Cat(encode_packet(p), u)
    OBVIOUS
  <2>2. /\ a \in Seq(Packet) /\ c \in Nat
        /\ Parse[b] = Parsed(r, a, c)
        /\ d[2] = Cat(a, v[2]) /\ d[3] = c + v[3]
    BY <1>4, <1>5, <1>6, <1>7, <2>1
  <2>3. Good(d, b, more)
    BY <1>1, <2>2 DEF Good
  <2>4. QED
    BY <2>1, <2>3

\* A buffer of a stream that begins with e has the first bytes of e, or all.
LEMMA CutFront ==
  ASSUME NEW e \in Seq(Byte), NEW w \in Seq(Byte), NEW buf \in Seq(Byte),
         NEW more \in Seq(Byte), Cat(buf, more) = Cat(e, w), Len(e) >= 2
  PROVE  /\ Len(buf) < Len(e) => (~(Len(buf) < 2) => buf[2] = e[2])
         /\ ~(Len(buf) < Len(e)) /\ Len(buf) < Width =>
              \E u \in Seq(Byte) : buf = Cat(e, u) /\ w = Cat(u, more) /\ Len(u) < Width
<1>1. buf \o more = e \o w
  BY DEF Cat
<1>2. ASSUME ~(Len(buf) < 2) PROVE buf[2] = e[2]
  <2>1. (buf \o more)[2] = buf[2] /\ (e \o w)[2] = e[2]
    BY <1>2
  <2>2. QED
    BY <1>1, <2>1
<1>3. ASSUME ~(Len(buf) < Len(e)), Len(buf) < Width
      PROVE  \E u \in Seq(Byte) : buf = Cat(e, u) /\ w = Cat(u, more) /\ Len(u) < Width
  <2>1. Len(e) <= Len(buf)
    BY <1>3
  <2>2. PICK u \in Seq(Byte) : buf = Cat(e, u) /\ w = Cat(u, more)
    BY <2>1, SplitFront
  <2>3. Len(u) < Width
    <3>1. Len(Cat(e, u)) = Len(e) + Len(u)
      BY DEF Cat
    <3>2. QED
      BY <1>3, <2>2, <3>1, WidthFacts
  <2>4. QED
    BY <2>2, <2>3
<1>4. QED
  BY <1>2, <1>3

\* However the stream is cut, with a packet more before it.
LEMMA ConsIsGood ==
  ASSUME NEW p \in Wire, NEW s \in Carrying,
         \A b, c \in Seq(Byte) : s[1] = Cat(b, c) /\ Len(b) < Width => Good(s, b, c),
         NEW buf \in Seq(Byte), NEW more \in Seq(Byte),
         Cons(p, s)[1] = Cat(buf, more), Len(buf) < Width
  PROVE  Good(Cons(p, s), buf, more)
<1>1. PICK e, n, w : /\ e = encode_packet(p) /\ n = Len(p.data) /\ w = s[1]
                     /\ e \in Seq(Byte) /\ w \in Seq(Byte)
                     /\ n \in Nat /\ Len(e) = 2 + n /\ e[2] = n
  BY WireFacts, EncodeFacts, StreamParts DEF Carrying
<1>2. Cons(p, s) \in Carrying
  BY CarryingClosed DEF Closed
<1>3. Cat(buf, more) = Cat(e, w)
  BY <1>1 DEF Cons
<1>4. CASE Len(buf) < Len(e)
  <2>1. ~(Len(buf) < 2) => buf[2] = n
    BY <1>1, <1>3, <1>4, CutFront, SMTT(60)
  <2>2. Incomplete(buf)
    BY <1>1, <1>4, <2>1 DEF Incomplete
  <2>3. QED
    BY <1>2, <2>2, StopIsGood
<1>5. CASE ~(Len(buf) < Len(e))
  <2>1. PICK u \in Seq(Byte) : buf = Cat(e, u) /\ w = Cat(u, more) /\ Len(u) < Width
    <3>1. Len(e) >= 2
      BY <1>1
    <3>2. QED
      BY <1>1, <1>3, <1>5, <3>1, CutFront
  <2>2. Good(s, u, more)
    BY <1>1, <2>1
  <2>3. QED
    BY <1>1, <2>1, <2>2, TakeIsGood
<1>6. QED
  BY <1>4, <1>5

\* So it is for every stream and every way to cut it.
LEMMA ParseCarried ==
  ASSUME NEW t \in Carrying, NEW buf \in Seq(Byte), NEW more \in Seq(Byte),
         t[1] = Cat(buf, more), Len(buf) < Width
  PROVE  Good(t, buf, more)
<1> DEFINE X == {s \in Carrying : \A b, c \in Seq(Byte) :
                   s[1] = Cat(b, c) /\ Len(b) < Width => Good(s, b, c)}
<1>1. Empty \in X
  <2>1. Empty \in Carrying
    BY CarryingClosed DEF Closed
  <2>2. ASSUME NEW b \in Seq(Byte), NEW c \in Seq(Byte), Empty[1] = Cat(b, c),
               Len(b) < Width
        PROVE  Good(Empty, b, c)
    <3>1. b \o c = <<>>
      BY <2>2 DEF Empty, Cat
    <3>2. b = <<>>
      BY <3>1, ConcatEqualIffEmpty
    <3>3. Incomplete(b)
      BY <3>2 DEF Incomplete
    <3>4. QED
      BY <2>1, <2>2, <3>3, StopIsGood
  <2>3. QED
    BY <2>1, <2>2
<1>2. ASSUME NEW p \in Wire, NEW s \in X PROVE Cons(p, s) \in X
  <2>0. \A b, c \in Seq(Byte) : s[1] = Cat(b, c) /\ Len(b) < Width => Good(s, b, c)
    OBVIOUS
  <2>1. s \in Carrying /\ s \in Streams /\ s[1] \in Seq(Byte)
    BY StreamParts DEF Carrying
  <2> HIDE DEF X
  <2>2. Cons(p, s) \in Carrying
    BY <2>1, CarryingClosed DEF Closed
  <2>4. ASSUME NEW b \in Seq(Byte), NEW c \in Seq(Byte), Cons(p, s)[1] = Cat(b, c),
               Len(b) < Width
        PROVE  Good(Cons(p, s), b, c)
    BY <2>0, <2>1, <2>4, ConsIsGood
  <2>5. QED
    BY <2>2, <2>4 DEF X
<1>3. Closed(X) /\ X \subseteq Carrying
  BY <1>1, <1>2 DEF Closed
<1> HIDE DEF X
<1>4. t \in X
  BY <1>3, CarryingLeast
<1>5. QED
  BY <1>4 DEF X

-----------------------------------------------------------------------------
(* The inductive invariant.                                                *)

\* What is buffered and under way is a stream of whole packets, with the messages
\* that are not delivered and the heartbeat requests that are not answered.
StreamWhole ==
  \E t \in Carrying :
    /\ t[1] = Cat(recvBuffer, net)
    /\ sent = Cat(delivered, t[2])
    /\ pings = pongs + t[3]

\* The parser has taken what it could.
ParsedOut == Incomplete(recvBuffer)

\* The inductive invariant of the packet layer.
FramingInv == FramingTypeOK /\ StreamWhole /\ ParsedOut

\* The buffer holds less than the packet it begins with, which is one that was sent.
LEMMA LessThanPacket ==
  ASSUME FramingInv
  PROVE  Len(recvBuffer) < 2 \/ \E p \in Wire : Len(recvBuffer) < 2 + Len(p.data)
<1> SUFFICES ASSUME ~(Len(recvBuffer) < 2)
             PROVE  \E p \in Wire : Len(recvBuffer) < 2 + Len(p.data)
  OBVIOUS
<1>1. recvBuffer \in Seq(Byte) /\ net \in Seq(Byte)
  BY DEF FramingInv, FramingTypeOK
<1>2. PICK t \in Carrying : t[1] = Cat(recvBuffer, net)
  BY DEF FramingInv, StreamWhole
<1>3. CASE t = Empty
  <2>1. recvBuffer \o net = <<>>
    BY <1>2, <1>3 DEF Empty, Cat
  <2>2. recvBuffer = <<>>
    BY <1>1, <2>1, ConcatEqualIffEmpty
  <2>3. QED
    BY <2>2
<1>4. CASE t # Empty
  <2>1. PICK p \in Wire, v \in Carrying : t = Cons(p, v)
    BY <1>4, CarryingFront
  <2>2. PICK e, n, w : /\ e = encode_packet(p) /\ n = Len(p.data) /\ w = v[1]
                       /\ e \in Seq(Byte) /\ w \in Seq(Byte)
                       /\ n \in Nat /\ Len(e) = 2 + n /\ e[2] = n
    BY WireFacts, EncodeFacts, StreamParts DEF Carrying
  <2>3. Cat(recvBuffer, net) = Cat(e, w)
    BY <1>2, <2>1, <2>2 DEF Cons
  <2>4. recvBuffer[2] = n
    <3>1. (recvBuffer \o net)[2] = recvBuffer[2]
      BY <1>1
    <3>2. (e \o w)[2] = e[2]
      BY <2>2
    <3>3. QED
      BY <2>2, <2>3, <3>1, <3>2 DEF Cat
  <2>5. Len(recvBuffer) < 2 + n
    BY <2>4 DEF FramingInv, ParsedOut, Incomplete
  <2>6. QED
    BY <2>2, <2>5
<1>5. QED
  BY <1>3, <1>4

\* With one read behind it, its length is not changed by narrowing it.
LEMMA ReadFits ==
  ASSUME Fits, FramingInv, NEW n \in 1..ReadSize
  PROVE  Len(recvBuffer) + n < Width
<1>1. Len(recvBuffer) \in Nat
  BY DEF FramingInv, FramingTypeOK
<1>2. CASE Len(recvBuffer) < 2
  BY <1>1, <1>2, WidthFacts DEF Fits, MsgHeaderSize
<1>3. CASE \E p \in Wire : Len(recvBuffer) < 2 + Len(p.data)
  <2>1. PICK p \in Wire : Len(recvBuffer) < 2 + Len(p.data)
    BY <1>3
  <2>2. Len(p.data) \in Nat /\ Len(p.data) + ReadSize + 2 <= Width
    BY WireFacts
  <2>3. QED
    BY <1>1, <2>1, <2>2, WidthFacts
<1>4. QED
  BY <1>2, <1>3, LessThanPacket

\* A packet is sent: it goes to the end of the stream.
LEMMA SendsKeep ==
  ASSUME FramingInv, NEW p \in Wire,
         net' = Cat(net, encode_packet(p)), sent' = Cat(sent, Msgs(p)),
         pings' = pings + Pings(p), acks' \in Nat,
         recvBuffer' = recvBuffer, delivered' = delivered, pongs' = pongs
  PROVE  FramingInv'
<1>1. /\ recvBuffer \in Seq(Byte) /\ net \in Seq(Byte) /\ sent \in Seq(Packet)
      /\ delivered \in Seq(Packet) /\ pings \in Nat /\ pongs \in Nat
  BY DEF FramingInv, FramingTypeOK
<1>2. PICK t \in Carrying : /\ t[1] = Cat(recvBuffer, net)
                            /\ sent = Cat(delivered, t[2]) /\ pings = pongs + t[3]
  BY DEF FramingInv, StreamWhole
<1>3. t[1] \in Seq(Byte) /\ t[2] \in Seq(Packet) /\ t[3] \in Nat
  BY StreamParts DEF Carrying
<1>4. PICK e, m, k : /\ e = encode_packet(p) /\ m = Msgs(p) /\ k = Pings(p)
                     /\ e \in Seq(Byte) /\ m \in Seq(Packet) /\ k \in Nat
  BY AddsFacts
<1>5. FramingTypeOK'
  <2>1. Cat(net, e) \in Seq(Byte)
    BY <1>1, <1>4, CatFacts
  <2>2. Cat(sent, m) \in Seq(Packet)
    BY <1>1, <1>4, CatFacts
  <2>3. pings + k \in Nat
    BY <1>1, <1>4
  <2>4. QED
    BY <1>1, <1>4, <2>1, <2>2, <2>3 DEF FramingTypeOK
<1>6. PICK v : v = Snoc(t, p)
  OBVIOUS
<1>7. v \in Carrying /\ v[1] = Cat(t[1], e) /\ v[2] = Cat(t[2], m) /\ v[3] = t[3] + k
  BY <1>4, <1>6, CarryingBack DEF Snoc
<1>8. Cat(Cat(recvBuffer, net), e) = Cat(recvBuffer, Cat(net, e))
  BY <1>1, <1>4, CatAssoc
<1>9. Cat(Cat(delivered, t[2]), m) = Cat(delivered, Cat(t[2], m))
  BY <1>1, <1>3, <1>4, CatAssoc, SMTT(60)
<1>10. v[1] = Cat(recvBuffer', net') /\ sent' = Cat(delivered', v[2])
  BY <1>2, <1>4, <1>7, <1>8, <1>9
<1>11. pings' = pongs' + v[3]
  <2>1. PICK i \in Nat : i = t[3]
    BY <1>3
  <2>2. (pongs + i) + k = pongs + (i + k)
    <3>1. pongs \in Nat /\ i \in Nat /\ k \in Nat
      BY <1>1, <1>4
    <3>2. QED
      BY <3>1, SMTT(60)
  <2>3. pings' = (pongs + i) + k /\ v[3] = i + k /\ pongs' = pongs
    BY <1>2, <1>4, <1>7, <2>1
  <2>4. QED
    BY <2>2, <2>3
<1>12. StreamWhole'
  BY <1>7, <1>10, <1>11 DEF StreamWhole
<1>13. ParsedOut'
  BY DEF FramingInv, ParsedOut, Incomplete
<1>14. QED
  BY <1>5, <1>12, <1>13 DEF FramingInv

\* A message is sent.
LEMMA MessageKeeps ==
  ASSUME FramingInv, NEW id \in MessageIds, NEW n \in BodySizes, send(id, n)
  PROVE  FramingInv'
<1>1. PICK p : p = [id |-> id, data |-> Body(n)]
  OBVIOUS
<1>2. /\ n < Width /\ net' = net \o encode_packet(p) /\ sent' = Append(sent, p)
      /\ recvBuffer' = recvBuffer /\ delivered' = delivered /\ pongs' = pongs
      /\ pings' = pings /\ acks' = acks
  BY <1>1 DEF send
<1>3. p \in Wire
  BY <1>1, <1>2 DEF Wire
<1>4. p.id \in MessageIds /\ p.id # CS_HeartBeat_Req
  BY <1>1 DEF MessageIds, CS_HeartBeat_Req
<1>5. Msgs(p) = <<p>> /\ Pings(p) = 0
  BY <1>4 DEF Msgs, Pings
<1>6. sent \in Seq(Packet) /\ pings \in Nat /\ acks \in Nat /\ p \in Packet
  BY <1>3, WireFacts DEF FramingInv, FramingTypeOK
<1>7. Append(sent, p) = Cat(sent, <<p>>)
  BY <1>6, AppendIsConcat DEF Cat
<1>8. pings = pings + 0
  BY <1>6
<1>9. QED
  BY <1>2, <1>3, <1>5, <1>6, <1>7, <1>8, SendsKeep DEF Cat

\* A heartbeat request or an answer is sent.
LEMMA HeartbeatsKeep ==
  ASSUME FramingInv, sendPing \/ replyPing
  PROVE  FramingInv'
<1>1. sent \in Seq(Packet) /\ pings \in Nat /\ acks \in Nat /\ pings + 0 = pings
      /\ acks + 1 \in Nat
  BY DEF FramingInv, FramingTypeOK
<1>2. Cat(sent, <<>>) = sent
  BY <1>1, CatFacts
<1>3. CASE sendPing
  <2>1. PICK p : p = [id |-> CS_HeartBeat_Req, data |-> Body(2)]
    OBVIOUS
  <2>2. /\ net' = net \o encode_packet(p) /\ sent' = sent /\ pings' = pings + 1
        /\ acks' = acks /\ recvBuffer' = recvBuffer /\ delivered' = delivered
        /\ pongs' = pongs
    BY <1>3, <2>1 DEF sendPing
  <2>3. p \in Wire
    BY <2>1 DEF Wire
  <2>4. Msgs(p) = <<>> /\ Pings(p) = 1
    <3>1. p.id = 0
      BY <2>1 DEF CS_HeartBeat_Req
    <3>2. QED
      BY <3>1 DEF Msgs, Pings, MessageIds, CS_HeartBeat_Req
  <2>5. QED
    BY <1>1, <1>2, <2>2, <2>3, <2>4, SendsKeep DEF Cat
<1>4. CASE replyPing
  <2>1. PICK p : p = [id |-> CS_HeartBeat_Ack, data |-> Body(2)]
    OBVIOUS
  <2>2. /\ net' = net \o encode_packet(p) /\ sent' = sent /\ pings' = pings
        /\ acks' = acks + 1 /\ recvBuffer' = recvBuffer /\ delivered' = delivered
        /\ pongs' = pongs
    BY <1>4, <2>1 DEF replyPing
  <2>3. p \in Wire
    BY <2>1 DEF Wire
  <2>4. Msgs(p) = <<>> /\ Pings(p) = 0
    <3>1. p.id = 1
      BY <2>1 DEF CS_HeartBeat_Ack
    <3>2. QED
      BY <3>1 DEF Msgs, Pings, MessageIds, CS_HeartBeat_Req
  <2>5. QED
    BY <1>1, <1>2, <2>2, <2>3, <2>4, SendsKeep DEF Cat
<1>5. QED
  BY <1>3, <1>4

\* What one read does: the parser takes packets off the front of the stream.
LEMMA ReadTakes ==
  ASSUME Fits, FramingInv, Read
  PROVE  \E r \in Seq(Byte), m \in Seq(Packet), k \in Nat, v \in Carrying :
           /\ recvBuffer' = r /\ Incomplete(r) /\ net' \in Seq(Byte)
           /\ delivered' = Cat(delivered, m) /\ pongs' = pongs + k
           /\ v[1] = Cat(r, net') /\ v[2] \in Seq(Packet) /\ v[3] \in Nat
           /\ sent = Cat(Cat(delivered, m), v[2]) /\ pings = (pongs + k) + v[3]
           /\ sent' = sent /\ pings' = pings /\ acks' = acks
<1>1. PICK n \in 1..ReadSize : readerLoop(n)
  BY DEF Read
<1> DEFINE got  == SubSeq(net, 1, n)
           buf  == recvBuffer \o got
           more == SubSeq(net, n + 1, Len(net))
<1>2. /\ n <= Len(net) /\ recvBuffer' = Parse[buf].rest
      /\ delivered' = delivered \o Parse[buf].msgs /\ pongs' = pongs + Parse[buf].pongs
      /\ net' = more /\ sent' = sent /\ pings' = pings /\ acks' = acks
  BY <1>1 DEF readerLoop, onRecvData
<1>3. /\ recvBuffer \in Seq(Byte) /\ net \in Seq(Byte) /\ delivered \in Seq(Packet)
      /\ pongs \in Nat /\ n \in Nat /\ Len(net) \in Nat
  BY WidthFacts DEF FramingInv, FramingTypeOK
<1>4. got \in Seq(Byte) /\ more \in Seq(Byte) /\ Len(got) = n /\ got \o more = net
  <2>1. \A i \in 1..Len(net) : net[i] \in Byte
    BY <1>3
  <2>2. got \in Seq(Byte) /\ Len(got) = n
    BY <1>2, <1>3, <2>1
  <2>3. more \in Seq(Byte)
    BY <1>2, <1>3, <2>1, SubSeqProperties
  <2>4. 1 \in 1..Len(net) + 1 /\ n \in (1 - 1)..Len(net) /\ Len(net) \in n..Len(net)
    BY <1>2, <1>3
  <2>5. got \o more = SubSeq(net, 1, Len(net))
    BY <1>3, <2>4, ConcatAdjacentSubSeq
  <2>6. QED
    BY <1>3, <2>2, <2>3, <2>5, SubSeqFull
<1> HIDE DEF got, more
<1>5. buf \in Seq(Byte) /\ Len(buf) < Width
  <2>1. buf \in Seq(Byte) /\ Len(buf) = Len(recvBuffer) + n
    BY <1>3, <1>4, ConcatProperties
  <2>2. QED
    BY <2>1, ReadFits
<1>6. Cat(recvBuffer, net) = Cat(buf, more)
  <2>1. Cat(Cat(recvBuffer, got), more) = Cat(recvBuffer, Cat(got, more))
    BY <1>3, <1>4, CatAssoc
  <2>2. QED
    BY <1>4, <2>1 DEF Cat
<1> HIDE DEF buf
<1>7. PICK t \in Carrying : /\ t[1] = Cat(recvBuffer, net)
                            /\ sent = Cat(delivered, t[2]) /\ pings = pongs + t[3]
  BY DEF FramingInv, StreamWhole
<1>8. Good(t, buf, more)
  BY <1>4, <1>5, <1>6, <1>7, ParseCarried
<1>9. PICK r \in Seq(Byte), m \in Seq(Packet), k \in Nat, v \in Carrying :
        /\ Parse[buf] = Parsed(r, m, k) /\ Incomplete(r)
        /\ v[1] = Cat(r, more) /\ t[2] = Cat(m, v[2]) /\ t[3] = k + v[3]
  BY <1>8 DEF Good
<1>10. v[2] \in Seq(Packet) /\ v[3] \in Nat
  BY StreamParts DEF Carrying
<1>11. Parse[buf].rest = r /\ Parse[buf].msgs = m /\ Parse[buf].pongs = k
  BY <1>9 DEF Parsed
<1>12. recvBuffer' = r /\ delivered' = Cat(delivered, m) /\ pongs' = pongs + k
  BY <1>2, <1>11 DEF Cat
<1>13. sent = Cat(Cat(delivered, m), v[2])
  BY <1>3, <1>7, <1>9, <1>10, CatAssoc
<1>14. pings = (pongs + k) + v[3]
  BY <1>3, <1>7, <1>9, <1>10
<1>15. v[1] = Cat(r, net') /\ net' \in Seq(Byte)
  BY <1>2, <1>4, <1>9
<1>16. QED
  BY <1>2, <1>9, <1>10, <1>12, <1>13, <1>14, <1>15

\* A read keeps the invariant.
LEMMA ReadKeeps ==
  ASSUME Fits, FramingInv, Read
  PROVE  FramingInv'
<1>1. PICK r \in Seq(Byte), m \in Seq(Packet), k \in Nat, v \in Carrying :
           /\ recvBuffer' = r /\ Incomplete(r) /\ net' \in Seq(Byte)
           /\ delivered' = Cat(delivered, m) /\ pongs' = pongs + k
           /\ v[1] = Cat(r, net') /\ v[2] \in Seq(Packet) /\ v[3] \in Nat
           /\ sent = Cat(Cat(delivered, m), v[2]) /\ pings = (pongs + k) + v[3]
           /\ sent' = sent /\ pings' = pings /\ acks' = acks
  BY ReadTakes
<1>2. FramingTypeOK'
  <2>1. delivered \in Seq(Packet) /\ sent \in Seq(Packet) /\ pongs \in Nat /\ pings \in Nat
        /\ acks \in Nat
    BY DEF FramingInv, FramingTypeOK
  <2>2. Cat(delivered, m) \in Seq(Packet) /\ pongs + k \in Nat
    BY <2>1, CatFacts
  <2>3. QED
    BY <1>1, <2>1, <2>2 DEF FramingTypeOK
<1>3. StreamWhole'
  BY <1>1 DEF StreamWhole
<1>4. ParsedOut'
  BY <1>1 DEF ParsedOut, Incomplete
<1>5. QED
  BY <1>2, <1>3, <1>4 DEF FramingInv

\* The invariant holds at the start.
LEMMA FramingStarts == ASSUME FramingInit PROVE FramingInv
<1>1. FramingTypeOK
  BY DEF FramingInit, FramingTypeOK
<1>2. StreamWhole
  <2>1. Empty \in Carrying
    BY CarryingClosed DEF Closed
  <2>2. Cat(recvBuffer, net) = <<>> /\ sent = Cat(delivered, <<>>)
    BY DEF FramingInit, Cat
  <2>3. Empty[1] = <<>> /\ Empty[2] = <<>> /\ Empty[3] = 0
    BY DEF Empty
  <2>4. pings = pongs + 0
    BY DEF FramingInit
  <2>5. QED
    BY <2>1, <2>2, <2>3, <2>4 DEF StreamWhole
<1>3. ParsedOut
  BY DEF FramingInit, ParsedOut, Incomplete
<1>4. QED
  BY <1>1, <1>2, <1>3 DEF FramingInv

\* The invariant holds in every state.
LEMMA FramingInductive == Fits => (FramingSpec => []FramingInv)
<1> SUFFICES ASSUME Fits PROVE FramingSpec => []FramingInv
  OBVIOUS
<1>1. FramingInv /\ [FramingNext]_framingVars => FramingInv'
  <2> SUFFICES ASSUME FramingInv, [FramingNext]_framingVars PROVE FramingInv'
    OBVIOUS
  <2>1. CASE \E id \in MessageIds, n \in BodySizes : send(id, n)
    BY <2>1, MessageKeeps
  <2>2. CASE sendPing \/ replyPing
    BY <2>2, HeartbeatsKeep
  <2>3. CASE Read
    BY <2>3, ReadKeeps
  <2>4. CASE UNCHANGED framingVars
    BY <2>4 DEF framingVars, FramingInv, FramingTypeOK, StreamWhole, ParsedOut, Incomplete
  <2>5. QED
    BY <2>1, <2>2, <2>3, <2>4 DEF FramingNext
<1>2. QED
  BY <1>1, FramingStarts, PTL DEF FramingSpec

\* However TCP cuts the stream, PacketParser::onRecvData answers every heartbeat
\* request: none is answered twice, and none is left once the stream is read out.
THEOREM HeartbeatsAnswered == Fits => (FramingSpec => []PingsAnswered)
<1> SUFFICES ASSUME Fits PROVE FramingSpec => []PingsAnswered
  OBVIOUS
<1>1. FramingInv => PingsAnswered
  <2> SUFFICES ASSUME FramingInv PROVE PingsAnswered
    OBVIOUS
  <2>1. PICK t \in Carrying : t[1] = Cat(recvBuffer, net) /\ pings = pongs + t[3]
    BY DEF FramingInv, StreamWhole
  <2>2. pongs \in Nat /\ t[3] \in Nat /\ recvBuffer \in Seq(Byte)
    BY StreamParts DEF FramingInv, FramingTypeOK, Carrying
  <2>3. ASSUME net = <<>> PROVE t = Empty
    <3>1. SUFFICES ASSUME t # Empty PROVE FALSE
      OBVIOUS
    <3>2. PICK p \in Wire, v \in Carrying : t = Cons(p, v)
      BY <3>1, CarryingFront
    <3>3. v[1] \in Seq(Byte)
      BY StreamParts DEF Carrying
    <3>4. recvBuffer = Cat(encode_packet(p), v[1])
      <4>1. Cat(recvBuffer, <<>>) = recvBuffer
        BY <2>2, CatFacts
      <4>2. QED
        BY <2>1, <2>3, <3>2, <4>1 DEF Cons
    <3>5. PICK w \in Seq(Byte) : w = v[1]
      BY <3>3
    <3>6. recvBuffer = encode_packet(p) \o w
      BY <3>4, <3>5 DEF Cat
    <3>7. PICK n : n = Len(p.data) /\ n \in Nat
      BY WireFacts
    <3>8. Len(recvBuffer) = (2 + n) + Len(w) /\ recvBuffer[2] = n
      BY <3>6, <3>7, FrontFacts
    <3>9. PICK j \in Nat : j = Len(w)
      BY <3>5
    <3>10. Len(recvBuffer) = (2 + n) + j /\ Incomplete(recvBuffer)
      BY <3>8, <3>9 DEF FramingInv, ParsedOut
    <3>11. (2 + n) + j < 2 \/ (2 + n) + j < 2 + n
      BY <3>8, <3>10 DEF Incomplete
    <3>12. QED
      BY <3>7, <3>9, <3>11
  <2>4. Empty[3] = 0
    BY DEF Empty
  <2>5. QED
    BY <2>1, <2>2, <2>3, <2>4 DEF PingsAnswered
<1>2. QED
  BY <1>1, FramingInductive, PTL

\* Some message is as long as a heartbeat.
Longer == \E n \in BodySizes : 2 <= n /\ n < Width

\* What onRecvData leaves in the buffer of Session::readerLoop is always less than
\* the longest packet that Player::send lets through.
THEOREM BufferIsBounded == Fits /\ Longer => (FramingSpec => []BufferBounded)
<1> SUFFICES ASSUME Fits, Longer PROVE FramingSpec => []BufferBounded
  OBVIOUS
<1>1. FramingInv => BufferBounded
  <2> SUFFICES ASSUME FramingInv PROVE BufferBounded
    OBVIOUS
  <2>1. PICK k \in BodySizes : 2 <= k /\ k < Width /\ k \in Nat
    BY FramingAssumption DEF Longer
  <2>2. Len(recvBuffer) \in Nat
    BY DEF FramingInv, FramingTypeOK
  <2>3. CASE Len(recvBuffer) < 2 + k
    BY <2>1, <2>3 DEF BufferBounded, MsgHeaderSize
  <2>4. CASE ~(Len(recvBuffer) < 2 + k)
    <3>1. PICK p \in Wire : Len(recvBuffer) < 2 + Len(p.data)
      BY <2>1, <2>2, <2>4, LessThanPacket
    <3>2. PICK n : /\ n = Len(p.data) /\ n \in Nat
                   /\ (n = 2 \/ (n \in BodySizes /\ n < Width))
      BY WireFacts
    <3>3. PICK l \in Nat : l = Len(recvBuffer)
      BY <2>2
    <3>4. l < 2 + n /\ ~(l < 2 + k)
      BY <2>4, <3>1, <3>2, <3>3
    <3>5. ~(l < 4)
      BY <2>1, <3>3, <3>4
    <3>6. n # 2
      BY <3>4, <3>5
    <3>7. QED
      BY <3>2, <3>3, <3>4, <3>6 DEF BufferBounded, MsgHeaderSize
  <2>5. QED
    BY <2>3, <2>4
<1>2. QED
  BY <1>1, FramingInductive, PTL

\* Of a whole, a piece a that is longer than the piece d.
FurtherPiece(a, d, whole) == \E n \in Len(d) + 1..Len(whole) : a = SubSeq(whole, 1, n)

\* What is delivered so far and a bit more is a longer piece of the whole.
LEMMA HandedOver ==
  ASSUME NEW S, NEW d \in Seq(S), NEW m \in Seq(S), NEW b \in Seq(S), m # <<>>
  PROVE  FurtherPiece(Cat(d, m), d, Cat(Cat(d, m), b))
<1>1. PICK a \in Seq(S) : a = d \o m
  BY ConcatProperties
<1>2. Len(a) = Len(d) + Len(m) /\ Len(d) \in Nat /\ Len(m) \in Nat \ {0}
  BY <1>1
<1>3. Len(a \o b) = Len(a) + Len(b) /\ Len(a) \in Nat /\ Len(b) \in Nat
  OBVIOUS
<1>4. Len(a) \in Len(d) + 1..Len(a \o b)
  BY <1>2, <1>3
<1>5. a = SubSeq(a \o b, 1, Len(a))
  <2>1. SubSeq(a \o b, 1, Len(a)) \in Seq(S) /\ Len(SubSeq(a \o b, 1, Len(a))) = Len(a)
    BY <1>3
  <2>2. \A i \in 1..Len(a) : SubSeq(a \o b, 1, Len(a))[i] = a[i]
    BY <1>3
  <2>3. QED
    BY <2>1, <2>2, SeqEqual
<1>6. QED
  BY <1>1, <1>4, <1>5 DEF Cat, FurtherPiece

\* The packet layer takes only steps of a message channel: what handleMessage is
\* given is at all times the beginning of what Player::send was given, none lost,
\* doubled, reordered or invented.  (The safety part of ImplementsChannel.)
THEOREM ChannelSteps ==
  Fits => (FramingSpec => Channel!Init /\ [][Channel!Next]_(Channel!vars))
<1> SUFFICES ASSUME Fits PROVE FramingSpec => Channel!Init /\ [][Channel!Next]_(Channel!vars)
  OBVIOUS
<1>1. FramingInit => Channel!Init
  BY DEF FramingInit, Channel!Init
<1>2. FramingInv /\ [FramingNext]_framingVars => [Channel!Next]_(Channel!vars)
  <2> SUFFICES ASSUME FramingInv, [FramingNext]_framingVars PROVE [Channel!Next]_(Channel!vars)
    OBVIOUS
  <2>1. CASE \E id \in MessageIds, n \in BodySizes : send(id, n)
    BY <2>1 DEF send, Channel!Next, Channel!Send
  <2>2. CASE sendPing \/ replyPing \/ UNCHANGED framingVars
    BY <2>2 DEF sendPing, replyPing, framingVars, Channel!vars
  <2>3. CASE Read
    <3>1. PICK r \in Seq(Byte), m \in Seq(Packet), k \in Nat, v \in Carrying :
             /\ delivered' = Cat(delivered, m) /\ v[2] \in Seq(Packet)
             /\ sent = Cat(Cat(delivered, m), v[2]) /\ sent' = sent
      BY <2>3, ReadTakes
    <3>2. delivered \in Seq(Packet)
      BY DEF FramingInv, FramingTypeOK
    <3>3. CASE m = <<>>
      <4>1. delivered' = delivered
        BY <3>1, <3>2, <3>3, CatFacts
      <4>2. QED
        BY <3>1, <4>1 DEF Channel!vars
    <3>4. CASE m # <<>>
      <4>1. PICK b \in Seq(Packet) : b = v[2]
        BY <3>1
      <4>2. sent = Cat(Cat(delivered, m), b)
        BY <3>1, <4>1
      <4>3. FurtherPiece(Cat(delivered, m), delivered, sent)
        BY <3>2, <3>4, <4>2, HandedOver
      <4>4. QED
        BY <3>1, <4>3 DEF FurtherPiece, Channel!Next, Channel!Deliver
    <3>5. QED
      BY <3>3, <3>4
  <2>4. QED
    BY <2>1, <2>2, <2>3 DEF FramingNext
<1>3. QED
  BY <1>1, <1>2, FramingInductive, PTL DEF FramingSpec

-----------------------------------------------------------------------------
(* Heartbeats.                                                             *)

USE HeartbeatAssumption

\* An interval in ticks; an age in ticks, on a clock that is p ticks into its
\* second; and the longest age at which an end that is alive sends again, as
\* its peer counts it.
Beat == Interval * TicksPerSecond
InTicks(age, p) == age * TicksPerSecond + p
RecvTicks(e) == InTicks(recvAge[e], phase[e])
SendTicks(e) == InTicks(sendAge[e], phase[e])
Latest == 2 * Beat + TicksPerSecond - 2

-----------------------------------------------------------------------------
(* The inductive invariant.                                                *)

\* An end that is alive sends at the latest when its timer runs out for the
\* second time: at the first time something may just have been sent.
SendsInTime ==
  \A e \in Ends : Alive(e) => SendTicks(e) + timer[e] <= 2 * Beat - 1

\* The peer's last message has arrived, by a clock that may count most of a
\* second more than the peer's; or one of the peer's is under way and will
\* arrive in time; or nothing was sent yet, and the peer will ping in time
\* when its timer runs out.
Heard(e) == RecvTicks(e) <= SendTicks(Other(e)) + TicksPerSecond - 1
UnderWay(e) == \E m \in flight : m.to = e /\ RecvTicks(e) + m.left <= Latest + Delay
WillPing(e) == /\ Beat <= SendTicks(Other(e)) + timer[Other(e)]
               /\ RecvTicks(e) + timer[Other(e)] <= Latest
HeardInTime ==
  \A e \in Ends : Alive(e) /\ Alive(Other(e)) => Heard(e) \/ UnderWay(e) \/ WillPing(e)

\* What was under way to an end whose peer is silent is under way for the rest
\* of the delay only; the age of its last message grows with the silence; and
\* an end that has timed out has one timer to run out at most.
SilenceAges ==
  \A e \in Ends :
    /\ Other(e) \notin dead => silence[e] = 0
    /\ Alive(e) /\ Other(e) \in dead =>
         /\ \A m \in flight : m.to = e => m.left + silence[e] <= Delay
         /\ recvAge[e] < Timeout => silence[e] <= RecvTicks(e) + Delay
         /\ recvAge[e] >= Timeout =>
              silence[e] + timer[e] <= Timeout * TicksPerSecond + Delay + Beat

IInv == TypeOK /\ NoFalseAlarm /\ SendsInTime /\ HeardInTime /\ SilenceAges

-----------------------------------------------------------------------------
(* Arithmetic.                                                             *)

\* There are two ends.
LEMMA TwoEnds ==
  \A e \in Ends : /\ Other(e) \in Ends /\ Other(e) # e /\ Other(Other(e)) = e
                  /\ \A f \in Ends : f = e \/ f = Other(e)
BY DEF Ends, Other

\* The bounds in ticks are whole numbers, an interval is a second at least, and
\* a message that is sent at the latest age arrives before the time-out.
LEMMA Bounds ==
  /\ Beat \in Nat /\ Beat >= TicksPerSecond /\ TicksPerSecond \in Nat \ {0}
  /\ Timeout * TicksPerSecond \in Nat /\ Delay \in Nat /\ Latest \in Nat
  /\ Latest + Delay < Timeout * TicksPerSecond
  /\ (Timeout + Interval) * TicksPerSecond = Timeout * TicksPerSecond + Beat
  /\ CapSilence \in Nat /\ CapSilence = Timeout * TicksPerSecond + Beat + Delay + 1
<1>1. Beat \in Nat /\ Timeout * TicksPerSecond \in Nat /\ TicksPerSecond \in Nat \ {0}
  BY DEF Beat
<1>2. Beat >= TicksPerSecond
  <2>1. \A n \in Nat \ {0}, k \in Nat : n * k >= k
    OBVIOUS
  <2>2. QED
    BY <2>1 DEF Beat
<1>3. (Timeout + Interval) * TicksPerSecond = Timeout * TicksPerSecond + Beat
  BY DEF Beat
<1>4. (Timeout - 2 * Interval - 1) * TicksPerSecond
        = Timeout * TicksPerSecond - 2 * Beat - TicksPerSecond
  BY DEF Beat
<1>5. Delay \in Nat /\ Delay <= (Timeout - 2 * Interval - 1) * TicksPerSecond + 1
  OBVIOUS
<1> HIDE DEF Beat
<1>6. Latest \in Nat /\ Latest + Delay < Timeout * TicksPerSecond
  BY <1>1, <1>2, <1>4, <1>5 DEF Latest
<1>7. QED
  BY <1>1, <1>2, <1>3, <1>5, <1>6 DEF CapSilence

\* An age in ticks is a whole number, and below a number of seconds just when
\* the age in seconds is.
LEMMA AgeInTicks ==
  ASSUME NEW p \in 0..(TicksPerSecond - 1), NEW n \in Nat
  PROVE  /\ InTicks(n, p) \in Nat /\ InTicks(0, p) = p
         /\ \A k \in Nat : n < k => InTicks(n, p) <= k * TicksPerSecond - 1
         /\ \A k \in Nat : n >= k => InTicks(n, p) >= k * TicksPerSecond
<1>1. n * TicksPerSecond \in Nat /\ p \in Nat /\ p <= TicksPerSecond - 1
      /\ TicksPerSecond \in Nat
  OBVIOUS
<1>2. \A x, y \in Nat : x <= y => x * TicksPerSecond <= y * TicksPerSecond
  OBVIOUS
<1>3. \A k \in Nat : n < k => (n + 1) * TicksPerSecond <= k * TicksPerSecond
  BY <1>2
<1>4. (n + 1) * TicksPerSecond = n * TicksPerSecond + TicksPerSecond
  OBVIOUS
<1>5. \A k \in Nat : k * TicksPerSecond \in Nat
  OBVIOUS
<1>6. \A k \in Nat : n < k => InTicks(n, p) <= k * TicksPerSecond - 1
  BY <1>1, <1>3, <1>4, <1>5 DEF InTicks
<1>7. \A k \in Nat : n >= k => InTicks(n, p) >= k * TicksPerSecond
  BY <1>1, <1>2, <1>5 DEF InTicks
<1>8. QED
  BY <1>1, <1>6, <1>7 DEF InTicks

\* A tick takes a clock from p to q ticks into its second, and an age from n to m.
Ticked(p, q, n, m) ==
  /\ q = (p + 1) % TicksPerSecond
  /\ m = UpTo(n + Begun(p), CapAge)

\* The age is older by one tick, up to the cap.
Grown(p, q, n, m) ==
  /\ q \in 0..(TicksPerSecond - 1) /\ m \in 0..CapAge /\ n <= m
  /\ InTicks(m, q) <= InTicks(n, p) + 1
  /\ m < Timeout => InTicks(m, q) = InTicks(n, p) + 1

\* With a tick every age grows.
LEMMA AgeTick ==
  ASSUME NEW p \in 0..(TicksPerSecond - 1), NEW q, NEW n \in 0..CapAge, NEW m,
         Ticked(p, q, n, m)
  PROVE  Grown(p, q, n, m)
<1> USE DEF Grown
<1>1. /\ CapAge = Timeout /\ Timeout \in Nat \ {0} /\ TicksPerSecond \in Nat \ {0}
      /\ n \in Nat /\ n <= Timeout /\ p \in Nat /\ p <= TicksPerSecond - 1
  BY DEF CapAge
<1>2. PICK nt \in Nat : nt = n * TicksPerSecond
  BY <1>1
<1>3. InTicks(n, p) = nt + p
  BY <1>2 DEF InTicks
<1>4. CASE p + 1 = TicksPerSecond
  <2>1. q = 0 /\ 0 \in 0..(TicksPerSecond - 1)
    BY <1>1, <1>4 DEF Ticked
  <2>2. m = IF n + 1 > Timeout THEN Timeout ELSE n + 1
    BY <1>1, <1>4 DEF UpTo, Begun, Ticked
  <2>3. (n + 1) * TicksPerSecond = nt + TicksPerSecond
    BY <1>1, <1>2
  <2>4. CASE n + 1 > Timeout
    <3>1. n = Timeout /\ m = n
      BY <1>1, <2>2, <2>4
    <3>2. InTicks(m, q) = nt
      BY <1>2, <2>1, <3>1 DEF InTicks
    <3>3. QED
      BY <1>1, <1>3, <2>1, <3>1, <3>2
  <2>5. CASE ~(n + 1 > Timeout)
    <3>1. m = n + 1 /\ m \in 0..CapAge /\ n <= m
      BY <1>1, <2>2, <2>5
    <3>2. InTicks(m, q) = nt + TicksPerSecond
      BY <1>1, <2>1, <2>3, <3>1 DEF InTicks
    <3>3. QED
      BY <1>1, <1>3, <1>4, <2>1, <3>1, <3>2
  <2>6. QED
    BY <2>4, <2>5
<1>5. CASE p + 1 # TicksPerSecond
  <2>1. q = p + 1 /\ q \in 0..(TicksPerSecond - 1)
    <3>1. p + 1 \in Nat /\ p + 1 < TicksPerSecond
      BY <1>1, <1>5
    <3>2. \A x \in Nat, k \in Nat \ {0} : x < k => x % k = x
      OBVIOUS
    <3>3. QED
      BY <1>1, <3>1, <3>2 DEF Ticked
  <2>2. m = n
    BY <1>1, <1>5 DEF UpTo, Begun, Ticked
  <2>3. InTicks(m, q) = nt + q
    BY <1>2, <2>2 DEF InTicks
  <2>4. QED
    BY <1>1, <1>3, <2>1, <2>2, <2>3
<1>6. QED
  BY <1>4, <1>5

-----------------------------------------------------------------------------
(* The steps.                                                              *)

\* What the proofs take from the types.
LEMMA Types ==
  ASSUME TypeOK
  PROVE  /\ \A e \in Ends : /\ phase[e] \in 0..(TicksPerSecond - 1)
                            /\ recvAge[e] \in 0..CapAge /\ sendAge[e] \in 0..CapAge
                            /\ recvAge[e] \in Nat /\ sendAge[e] \in Nat
                            /\ timer[e] \in 0..Beat /\ silence[e] \in 0..CapSilence
         /\ \A m \in flight : m.to \in Ends /\ m.left \in 0..Delay
         /\ CapAge = Timeout
<1>1. CapAge = Timeout /\ CapAge \in Nat
  BY DEF CapAge
<1>2. QED
  BY <1>1 DEF TypeOK, Beat

\* The ages of an end, in ticks.
LEMMA Ages ==
  ASSUME TypeOK, NEW e \in Ends
  PROVE  /\ RecvTicks(e) \in Nat /\ SendTicks(e) \in Nat /\ timer[e] \in Nat
         /\ recvAge[e] < Timeout => RecvTicks(e) <= Timeout * TicksPerSecond - 1
         /\ recvAge[e] >= Timeout => RecvTicks(e) >= Timeout * TicksPerSecond
         /\ sendAge[e] < Interval => SendTicks(e) <= Beat - 1
         /\ recvAge[e] = 0 => RecvTicks(e) <= TicksPerSecond - 1
         /\ sendAge[e] = 0 => SendTicks(e) <= Beat - 1
<1>1. /\ phase[e] \in 0..(TicksPerSecond - 1) /\ recvAge[e] \in Nat /\ sendAge[e] \in Nat
      /\ Timeout \in Nat /\ Interval \in Nat /\ timer[e] \in 0..Beat
  BY Types
<1>2. Beat \in Nat /\ Beat >= TicksPerSecond /\ TicksPerSecond \in Nat
  BY Bounds
<1>3. /\ RecvTicks(e) \in Nat
      /\ recvAge[e] < Timeout => RecvTicks(e) <= Timeout * TicksPerSecond - 1
      /\ recvAge[e] >= Timeout => RecvTicks(e) >= Timeout * TicksPerSecond
      /\ recvAge[e] = 0 => RecvTicks(e) = phase[e]
  BY <1>1, AgeInTicks DEF RecvTicks
<1>4. /\ SendTicks(e) \in Nat
      /\ sendAge[e] < Interval => SendTicks(e) <= Interval * TicksPerSecond - 1
      /\ sendAge[e] = 0 => SendTicks(e) = phase[e]
  BY <1>1, AgeInTicks DEF SendTicks
<1>5. sendAge[e] < Interval => SendTicks(e) <= Beat - 1
  BY <1>4 DEF Beat
<1>6. QED
  BY <1>1, <1>2, <1>3, <1>4, <1>5

\* While both ends are alive, an end that waits for the other's next message has
\* waited for no longer than the latest age.
LEMMA InTime ==
  ASSUME IInv, NEW e \in Ends, Alive(Other(e)), Heard(e) \/ WillPing(e)
  PROVE  RecvTicks(e) <= Latest
<1> DEFINE o == Other(e)
<1>1. /\ RecvTicks(e) \in Nat /\ SendTicks(o) \in Nat /\ timer[o] \in Nat
      /\ SendTicks(o) + timer[o] <= 2 * Beat - 1
  BY TwoEnds, Ages DEF IInv, SendsInTime
<1>2. Beat \in Nat /\ TicksPerSecond \in Nat /\ Latest = 2 * Beat + TicksPerSecond - 2
  BY Bounds DEF Latest
<1> HIDE DEF o
<1>3. \/ RecvTicks(e) <= SendTicks(o) + TicksPerSecond - 1
      \/ RecvTicks(e) + timer[o] <= Latest
  BY DEF Heard, WillPing, o
<1>4. QED
  BY <1>1, <1>2, <1>3

\* At a moment at which both ends are alive, neither has timed out.
LEMMA NotTimedOut ==
  ASSUME IInv, NEW e \in Ends, Alive(e), Alive(Other(e))
  PROVE  recvAge[e] < Timeout
<1>1. /\ RecvTicks(e) \in Nat /\ recvAge[e] \in Nat /\ Timeout \in Nat
      /\ recvAge[e] >= Timeout => RecvTicks(e) >= Timeout * TicksPerSecond
  BY Ages, Types DEF IInv
<1>2. /\ Timeout * TicksPerSecond \in Nat /\ Delay \in Nat /\ Latest \in Nat
      /\ Latest + Delay < Timeout * TicksPerSecond
  BY Bounds
<1>3. CASE Heard(e) \/ WillPing(e)
  BY <1>1, <1>2, <1>3, InTime
<1>4. CASE UnderWay(e)
  <2>1. PICK m \in flight : m.to = e /\ RecvTicks(e) + m.left <= Latest + Delay
    BY <1>4 DEF UnderWay
  <2>2. m.left \in Nat
    BY Types DEF IInv
  <2>3. QED
    BY <1>1, <1>2, <2>1, <2>2
<1>5. QED
  BY <1>3, <1>4 DEF IInv, HeardInTime

\* The peer of an end that is alive is alive or silent.
LEMMA PeerAlive ==
  ASSUME IInv, NEW e \in Ends, Alive(e)
  PROVE  Alive(Other(e)) \/ Other(e) \in dead
BY TwoEnds DEF IInv, NoFalseAlarm, Alive

\* A tick.
LEMMA TickKeeps ==
  ASSUME IInv, Tick
  PROVE  IInv'
<1>1. /\ \A e \in Ends : Alive(e) => timer[e] > 0
      /\ \A m \in flight : m.left > 0
      /\ phase' = [e \in Ends |-> (phase[e] + 1) % TicksPerSecond]
      /\ recvAge' = [e \in Ends |-> UpTo(recvAge[e] + Begun(phase[e]), CapAge)]
      /\ sendAge' = [e \in Ends |-> UpTo(sendAge[e] + Begun(phase[e]), CapAge)]
      /\ timer' = [e \in Ends |-> IF Alive(e) THEN timer[e] - 1 ELSE timer[e]]
      /\ flight' = {[m EXCEPT !.left = @ - 1] : m \in flight}
      /\ silence' = [e \in Ends |-> IF Other(e) \in dead
                                    THEN UpTo(silence[e] + 1, CapSilence) ELSE 0]
      /\ up' = up /\ dead' = dead
  BY DEF Tick
<1>2. TypeOK
  BY DEF IInv
<1>3. \A e \in Ends : Alive(e)' <=> Alive(e)
  BY <1>1 DEF Alive
<1>4. ASSUME NEW e \in Ends
      PROVE  /\ phase'[e] \in 0..(TicksPerSecond - 1)
             /\ recvAge'[e] \in 0..CapAge /\ sendAge'[e] \in 0..CapAge
             /\ recvAge[e] <= recvAge'[e]
             /\ RecvTicks(e)' <= RecvTicks(e) + 1 /\ SendTicks(e)' <= SendTicks(e) + 1
             /\ recvAge'[e] < Timeout => RecvTicks(e)' = RecvTicks(e) + 1
             /\ sendAge'[e] < Timeout => SendTicks(e)' = SendTicks(e) + 1
  <2>1. /\ phase[e] \in 0..(TicksPerSecond - 1)
        /\ recvAge[e] \in 0..CapAge /\ sendAge[e] \in 0..CapAge
    BY <1>2, Types
  <2>2. /\ Ticked(phase[e], phase'[e], recvAge[e], recvAge'[e])
        /\ Ticked(phase[e], phase'[e], sendAge[e], sendAge'[e])
    BY <1>1 DEF Ticked
  <2>3. Grown(phase[e], phase'[e], recvAge[e], recvAge'[e])
    BY <2>1, <2>2, AgeTick
  <2>4. Grown(phase[e], phase'[e], sendAge[e], sendAge'[e])
    BY <2>1, <2>2, AgeTick
  <2>5. QED
    BY <2>3, <2>4 DEF Grown, RecvTicks, SendTicks
<1>5. /\ \A m \in flight' : \E n \in flight : m.to = n.to /\ m.left = n.left - 1
                                               /\ m.left \in 0..Delay
      /\ \A n \in flight : \E m \in flight' : m.to = n.to /\ m.left = n.left - 1
      /\ flight' \subseteq [to : Ends, kind : {"PING", "PONG", "DATA"}, left : 0..Delay]
  <2>1. flight \subseteq [to : Ends, kind : {"PING", "PONG", "DATA"}, left : 0..Delay]
    BY <1>2 DEF TypeOK
  <2>2. \A n \in flight :
          LET m == [n EXCEPT !.left = @ - 1]
          IN  /\ m \in [to : Ends, kind : {"PING", "PONG", "DATA"}, left : 0..Delay]
              /\ m.to = n.to /\ m.left = n.left - 1
    BY <1>1, <2>1
  <2>3. QED
    BY <1>1, <2>2, ZenonT(60)
<1>6. \A e \in Ends : /\ timer'[e] \in 0..Beat
                      /\ timer'[e] = IF Alive(e) THEN timer[e] - 1 ELSE timer[e]
                      /\ silence'[e] \in 0..CapSilence
                      /\ silence'[e] <= silence[e] + 1
                      /\ Other(e) \notin dead => silence'[e] = 0
  BY <1>1, <1>2, Types, Bounds DEF UpTo
<1>7. TypeOK'
  <2>1. recvAge' \in [Ends -> 0..CapAge] /\ sendAge' \in [Ends -> 0..CapAge]
        /\ phase' \in [Ends -> 0..(TicksPerSecond - 1)]
    BY <1>1, <1>4
  <2>2. timer' \in [Ends -> 0..Beat] /\ silence' \in [Ends -> 0..CapSilence]
    BY <1>1, <1>6
  <2>3. up' \in [Ends -> BOOLEAN] /\ dead' \subseteq Ends
    BY <1>1, <1>2, Zenon DEF TypeOK
  <2>4. QED
    BY <1>5, <2>1, <2>2, <2>3 DEF TypeOK, Beat
<1>8. NoFalseAlarm'
  BY <1>1 DEF IInv, NoFalseAlarm
<1>9. \A e \in Ends : /\ RecvTicks(e) \in Nat /\ SendTicks(e) \in Nat
                      /\ RecvTicks(e)' \in Nat /\ SendTicks(e)' \in Nat
                      /\ timer[e] \in Nat
  <2>1. ASSUME NEW e \in Ends PROVE RecvTicks(e)' \in Nat /\ SendTicks(e)' \in Nat
    <3>1. phase'[e] \in 0..(TicksPerSecond - 1) /\ recvAge'[e] \in Nat /\ sendAge'[e] \in Nat
      BY <1>4 DEF CapAge
    <3>2. QED
      BY <3>1, AgeInTicks DEF RecvTicks, SendTicks
  <2>2. QED
    BY <1>2, <2>1, Ages
<1>10. ASSUME NEW e \in Ends, Alive(e)
       PROVE  SendTicks(e)' + timer'[e] <= 2 * Beat - 1
  <2>1. SendTicks(e) + timer[e] <= 2 * Beat - 1 /\ timer'[e] = timer[e] - 1
    BY <1>6, <1>10 DEF IInv, SendsInTime
  <2>2. SendTicks(e)' <= SendTicks(e) + 1
    BY <1>4
  <2>3. QED
    BY <1>9, <2>1, <2>2, Bounds
<1>11. SendsInTime'
  BY <1>3, <1>10 DEF SendsInTime, Beat
<1>12. HeardInTime'
  <2> SUFFICES ASSUME NEW e \in Ends, Alive(e), Alive(Other(e))
               PROVE  (Heard(e) \/ UnderWay(e) \/ WillPing(e))'
    BY <1>3, TwoEnds DEF HeardInTime
  <2> DEFINE o == Other(e)
  <2>1. /\ o \in Ends /\ timer'[o] = timer[o] - 1
        /\ RecvTicks(e)' <= RecvTicks(e) + 1
    BY <1>4, <1>6, TwoEnds
  <2>2. SendTicks(o)' = SendTicks(o) + 1
    <3>1. sendAge'[o] >= Timeout => SendTicks(o)' >= Timeout * TicksPerSecond
      <4>1. phase'[o] \in 0..(TicksPerSecond - 1) /\ sendAge'[o] \in Nat /\ Timeout \in Nat
        BY <1>4, <2>1 DEF CapAge
      <4>2. QED
        BY <4>1, AgeInTicks DEF SendTicks
    <3>2. SendTicks(o)' <= 2 * Beat - 1
      <4>1. SendTicks(o)' + timer'[o] <= 2 * Beat - 1 /\ timer'[o] \in Nat
        BY <1>6, <1>10, <2>1, Bounds
      <4>2. QED
        BY <1>9, <2>1, <4>1, Bounds
    <3>3. 2 * Beat - 1 < Timeout * TicksPerSecond
      BY Bounds DEF Latest
    <3>4. sendAge'[o] < Timeout
      <4>1. sendAge'[o] \in Nat /\ Timeout \in Nat
        BY <1>4, <2>1 DEF CapAge
      <4>2. QED
        BY <1>9, <2>1, <3>1, <3>2, <3>3, <4>1, Bounds
    <3>5. QED
      BY <1>4, <2>1, <3>4
  <2>3. CASE Heard(e)
    <3>1. RecvTicks(e) <= SendTicks(o) + TicksPerSecond - 1
      BY <2>3 DEF Heard
    <3>2. RecvTicks(e)' <= SendTicks(o)' + TicksPerSecond - 1
      BY <1>9, <2>1, <2>2, <3>1, Bounds
    <3>3. QED
      BY <3>2 DEF Heard
  <2>4. CASE UnderWay(e)
    <3>1. PICK n \in flight : n.to = e /\ RecvTicks(e) + n.left <= Latest + Delay
      BY <2>4 DEF UnderWay
    <3>2. PICK m \in flight' : m.to = n.to /\ m.left = n.left - 1
      BY <1>5
    <3>3. n.left \in Nat
      BY <1>2, Types
    <3>4. RecvTicks(e)' + m.left <= Latest + Delay
      BY <1>9, <2>1, <3>1, <3>2, <3>3, Bounds
    <3>5. UnderWay(e)'
      BY <3>1, <3>2, <3>4 DEF UnderWay, Latest, Beat
    <3>6. QED
      BY <3>5
  <2>5. CASE WillPing(e)
    <3>1. Beat <= SendTicks(o) + timer[o] /\ RecvTicks(e) + timer[o] <= Latest
      BY <2>5 DEF WillPing
    <3>2. Beat <= SendTicks(o)' + timer'[o] /\ RecvTicks(e)' + timer'[o] <= Latest
      BY <1>9, <2>1, <2>2, <3>1, Bounds
    <3>3. WillPing(e)'
      BY <3>2 DEF WillPing, Latest, Beat
    <3>4. QED
      BY <3>3
  <2>6. QED
    BY <2>3, <2>4, <2>5 DEF IInv, HeardInTime
<1>13. SilenceAges'
  <2> SUFFICES ASSUME NEW e \in Ends, Alive(e), Other(e) \in dead
               PROVE  /\ \A m \in flight' : m.to = e => m.left + silence'[e] <= Delay
                      /\ recvAge'[e] < Timeout => silence'[e] <= RecvTicks(e)' + Delay
                      /\ recvAge'[e] >= Timeout =>
                           silence'[e] + timer'[e]
                             <= Timeout * TicksPerSecond + Delay + Beat
    BY <1>1, <1>3, <1>6 DEF SilenceAges, Beat
  <2>1. /\ \A m \in flight : m.to = e => m.left + silence[e] <= Delay
        /\ recvAge[e] < Timeout => silence[e] <= RecvTicks(e) + Delay
        /\ recvAge[e] >= Timeout =>
             silence[e] + timer[e] <= Timeout * TicksPerSecond + Delay + Beat
    BY DEF IInv, SilenceAges
  <2>2. /\ silence[e] \in Nat /\ silence'[e] \in Nat /\ silence'[e] <= silence[e] + 1
        /\ timer[e] \in 0..Beat /\ timer'[e] = timer[e] - 1 /\ timer[e] > 0
    BY <1>1, <1>2, <1>6, Types, Bounds
  <2>3. \A m \in flight' : m.to = e => m.left + silence'[e] <= Delay
    <3> SUFFICES ASSUME NEW m \in flight', m.to = e PROVE m.left + silence'[e] <= Delay
      OBVIOUS
    <3>1. PICK n \in flight : m.to = n.to /\ m.left = n.left - 1
      BY <1>5
    <3>2. n.left \in Nat /\ n.left + silence[e] <= Delay
      BY <1>2, <2>1, <3>1, Types
    <3>3. QED
      BY <2>2, <3>1, <3>2
  <2>4. /\ recvAge[e] \in Nat /\ recvAge'[e] \in Nat /\ RecvTicks(e) \in Nat
        /\ recvAge[e] <= recvAge'[e] /\ Timeout \in Nat
    BY <1>2, <1>4, <1>9, Types DEF CapAge
  <2>5. recvAge'[e] < Timeout => silence'[e] <= RecvTicks(e)' + Delay
    <3>1. recvAge'[e] < Timeout => recvAge[e] < Timeout
      BY <2>4
    <3>2. recvAge'[e] < Timeout => RecvTicks(e)' = RecvTicks(e) + 1
      BY <1>4
    <3>3. QED
      BY <2>1, <2>2, <2>4, <3>1, <3>2
  <2>6. recvAge'[e] >= Timeout =>
          silence'[e] + timer'[e] <= Timeout * TicksPerSecond + Delay + Beat
    <3>1. Timeout * TicksPerSecond \in Nat /\ Beat \in Nat /\ Delay \in Nat
      BY Bounds
    <3>2. recvAge[e] < Timeout => RecvTicks(e) <= Timeout * TicksPerSecond - 1
      BY <1>2, Ages
    <3>3. CASE recvAge[e] < Timeout
      BY <2>1, <2>2, <2>4, <3>1, <3>2, <3>3
    <3>4. CASE recvAge[e] >= Timeout
      BY <2>1, <2>2, <3>1, <3>4
    <3>5. QED
      BY <2>4, <3>3, <3>4
  <2>7. QED
    BY <2>3, <2>5, <2>6
<1>14. QED
  BY <1>7, <1>8, <1>11, <1>12, <1>13 DEF IInv

\* After an end has sent something, the other one will hear of it in time.
LEMMA SentInTime ==
  ASSUME IInv, NEW o \in Ends, Alive(o), Alive(Other(o)),
         NEW kind, Post(Other(o), kind) \in flight',
         \A n \in flight : n.to = Other(o) => n \in flight',
         RecvTicks(Other(o))' = RecvTicks(Other(o))
  PROVE  UnderWay(Other(o))'
<1> DEFINE e == Other(o)
           m == Post(e, kind)
<1>1. m \in flight' /\ m.to = e /\ m.left = Delay
  BY DEF Post
<1>2. e \in Ends /\ Other(e) = o
  BY TwoEnds
<1>3. RecvTicks(e) \in Nat /\ Delay \in Nat /\ Latest \in Nat
  BY <1>2, Ages, Bounds DEF IInv
<1>4. CASE Heard(e) \/ WillPing(e)
  <2>1. RecvTicks(e) + Delay <= Latest + Delay
    BY <1>2, <1>3, <1>4, InTime
  <2>2. QED
    BY <1>1, <2>1 DEF UnderWay, Latest, Beat
<1>5. CASE UnderWay(e)
  BY <1>5 DEF UnderWay, Latest, Beat
<1>6. QED
  BY <1>2, <1>4, <1>5 DEF IInv, HeardInTime

\* A message is under way to its end: what is posted has its type.
LEMMA PostType ==
  ASSUME NEW e \in Ends, NEW kind \in {"PING", "PONG", "DATA"}
  PROVE  /\ Post(Other(e), kind) \in [to : Ends, kind : {"PING", "PONG", "DATA"}, left : 0..Delay]
         /\ Post(Other(e), kind).to = Other(e)
BY TwoEnds DEF Post

\* Sending keeps the invariant, also together with setting the timer.
LEMMA SendingKeeps ==
  ASSUME IInv, NEW e \in Ends, Alive(e), NEW kind \in {"PING", "PONG", "DATA"},
         flight' = flight \union {Post(Other(e), kind)},
         sendAge' = [sendAge EXCEPT ![e] = 0],
         \/ timer' = timer
         \/ timer' = [timer EXCEPT ![e] = Beat] /\ recvAge[e] < Timeout,
         UNCHANGED <<phase, recvAge, up, dead, silence>>
  PROVE  IInv'
<1>1. TypeOK /\ Beat \in Nat
  BY Bounds DEF IInv
<1>2. /\ \A f \in Ends : sendAge'[f] = IF f = e THEN 0 ELSE sendAge[f]
      /\ \A f \in Ends : timer'[f] \in 0..Beat /\ (f # e => timer'[f] = timer[f])
      /\ timer'[e] = timer[e] \/ (timer'[e] = Beat /\ recvAge[e] < Timeout)
  BY <1>1 DEF TypeOK, Beat
<1>3. \A f \in Ends : Alive(f)' <=> Alive(f)
  BY DEF Alive
<1>4. \A m \in flight' : m \in flight \/ m.to = Other(e)
  BY PostType
<1>5. TypeOK'
  <2>1. flight' \subseteq [to : Ends, kind : {"PING", "PONG", "DATA"}, left : 0..Delay]
    BY <1>1, PostType DEF TypeOK
  <2>2. sendAge' \in [Ends -> 0..CapAge] /\ timer' \in [Ends -> 0..Beat]
    BY <1>1, <1>2 DEF TypeOK, CapAge, Beat
  <2>3. up' \in [Ends -> BOOLEAN] /\ dead' \subseteq Ends
    BY <1>1, Zenon DEF TypeOK
  <2>4. QED
    BY <1>1, <2>1, <2>2, <2>3 DEF TypeOK, Beat
<1>6. /\ \A f \in Ends : RecvTicks(f)' = RecvTicks(f)
      /\ \A f \in Ends : f # e => SendTicks(f)' = SendTicks(f)
      /\ SendTicks(e)' \in Nat /\ SendTicks(e)' <= Beat - 1
  <2>1. \A f \in Ends : RecvTicks(f)' = RecvTicks(f)
    BY DEF RecvTicks
  <2>2. \A f \in Ends : f # e => SendTicks(f)' = SendTicks(f)
    BY <1>2 DEF SendTicks
  <2>3. phase[e] \in 0..(TicksPerSecond - 1) /\ SendTicks(e)' = InTicks(0, phase[e])
    BY <1>1, <1>2, Types DEF SendTicks
  <2>4. QED
    BY <2>1, <2>2, <2>3, AgeInTicks, Bounds
<1>7. NoFalseAlarm'
  BY DEF IInv, NoFalseAlarm
<1>8. SendsInTime'
  <2> SUFFICES ASSUME NEW f \in Ends, Alive(f)
               PROVE  SendTicks(f)' + timer'[f] <= 2 * Beat - 1
    BY <1>3 DEF SendsInTime, Beat
  <2>1. CASE f = e
    BY <1>1, <1>2, <1>6, <2>1
  <2>2. CASE f # e
    BY <1>2, <1>6, <2>2 DEF IInv, SendsInTime
  <2>3. QED
    BY <2>1, <2>2
<1>9. HeardInTime'
  <2> SUFFICES ASSUME NEW f \in Ends, Alive(f), Alive(Other(f))
               PROVE  (Heard(f) \/ UnderWay(f) \/ WillPing(f))'
    BY <1>3, TwoEnds DEF HeardInTime
  <2>1. CASE f = Other(e)
    <3>1. UnderWay(Other(e))'
      BY <1>6, <2>1, TwoEnds, SentInTime
    <3>2. QED
      BY <2>1, <3>1
  <2>2. CASE f = e
    <3>1. /\ Other(f) \in Ends /\ SendTicks(Other(f))' = SendTicks(Other(f))
          /\ timer'[Other(f)] = timer[Other(f)] /\ RecvTicks(f)' = RecvTicks(f)
      BY <1>2, <1>6, <2>2, TwoEnds
    <3>2. /\ Heard(f) => Heard(f)'
          /\ UnderWay(f) => UnderWay(f)'
          /\ WillPing(f) => WillPing(f)'
      BY <3>1 DEF Heard, UnderWay, WillPing, Latest, Beat
    <3>3. QED
      BY <3>2 DEF IInv, HeardInTime
  <2>3. QED
    BY <2>1, <2>2, TwoEnds
<1>10. SilenceAges'
  <2> SUFFICES ASSUME NEW f \in Ends, Alive(f), Other(f) \in dead
               PROVE  /\ \A m \in flight' : m.to = f => m.left + silence[f] <= Delay
                      /\ recvAge[f] < Timeout => silence[f] <= RecvTicks(f) + Delay
                      /\ recvAge[f] >= Timeout =>
                           silence[f] + timer'[f] <= Timeout * TicksPerSecond + Delay + Beat
    BY <1>3, <1>6 DEF IInv, SilenceAges, Beat
  <2>1. f = e /\ f # Other(e)
    BY TwoEnds DEF Alive
  <2>2. /\ \A m \in flight : m.to = f => m.left + silence[f] <= Delay
        /\ recvAge[f] < Timeout => silence[f] <= RecvTicks(f) + Delay
        /\ recvAge[f] >= Timeout =>
             silence[f] + timer[f] <= Timeout * TicksPerSecond + Delay + Beat
    BY DEF IInv, SilenceAges
  <2>3. recvAge[f] \in Nat /\ Timeout \in Nat
    BY <1>1, Types
  <2>4. QED
    BY <1>2, <1>4, <2>1, <2>2, <2>3
<1>11. QED
  BY <1>5, <1>7, <1>8, <1>9, <1>10 DEF IInv

\* The timer of an end runs out.
LEMMA LoopKeeps ==
  ASSUME IInv, NEW e \in Ends, heartbeatLoop(e)
  PROVE  IInv'
<1>1. Alive(e) /\ timer[e] = 0 /\ UNCHANGED <<phase, recvAge, dead, silence>>
  BY DEF heartbeatLoop
<1>2. /\ TypeOK /\ Beat \in Nat /\ Beat = Interval * TicksPerSecond
      /\ recvAge[e] \in Nat /\ sendAge[e] \in Nat /\ Timeout \in Nat /\ Interval \in Nat
  BY Types, Bounds DEF IInv, Beat
<1>3. CASE timedOut(e)
  <2>1. up' = [up EXCEPT ![e] = FALSE] /\ UNCHANGED <<timer, flight, sendAge>>
    BY <1>3 DEF heartbeatLoop
  <2>2. Other(e) \in dead
    <3>1. ~Alive(Other(e))
      BY <1>1, <1>2, <1>3, NotTimedOut DEF timedOut
    <3>2. QED
      BY <1>1, <3>1, PeerAlive
  <2>3. /\ up' \in [Ends -> BOOLEAN] /\ \A f \in Ends : f # e => up'[f] = up[f]
        /\ dead' \subseteq Ends
    BY <1>1, <1>2, <2>1 DEF TypeOK
  <2>4. TypeOK'
    BY <1>1, <1>2, <2>1, <2>3 DEF TypeOK
  <2>5. NoFalseAlarm'
    BY <1>1, <2>2, <2>3 DEF IInv, NoFalseAlarm
  <2>6. \A f \in Ends : Alive(f)' => Alive(f) /\ f # e
    BY <1>1, <2>1, <2>3 DEF Alive, IInv, TypeOK
  <2>7. SendsInTime'
    BY <1>1, <2>1, <2>6 DEF IInv, SendsInTime, SendTicks, Beat
  <2>8. HeardInTime'
    BY <2>6, TwoEnds DEF HeardInTime
  <2>9. SilenceAges'
    BY <1>1, <2>1, <2>6 DEF IInv, SilenceAges, RecvTicks, Beat
  <2>10. QED
    BY <2>4, <2>5, <2>7, <2>8, <2>9 DEF IInv
<1>4. CASE ~timedOut(e) /\ mustPing(e)
  <2>1. /\ timer' = [timer EXCEPT ![e] = Beat] /\ recvAge[e] < Timeout
        /\ flight' = flight \union {Post(Other(e), "PING")}
        /\ sendAge' = [sendAge EXCEPT ![e] = 0] /\ up' = up
    BY <1>2, <1>4 DEF heartbeatLoop, timedOut
  <2>2. QED
    BY <1>1, <2>1, SendingKeeps
<1>5. CASE ~timedOut(e) /\ ~mustPing(e)
  <2>1. /\ timer' = [timer EXCEPT ![e] = Beat] /\ recvAge[e] < Timeout
        /\ sendAge[e] < Interval /\ UNCHANGED <<flight, sendAge, up>>
    BY <1>2, <1>5 DEF heartbeatLoop, timedOut, mustPing
  <2>2. \A f \in Ends : timer'[f] \in 0..Beat /\ timer'[f] = IF f = e THEN Beat ELSE timer[f]
    BY <1>2, <2>1 DEF TypeOK, Beat
  <2>3. \A f \in Ends : Alive(f)' <=> Alive(f)
    BY <1>1, <2>1 DEF Alive
  <2>4. TypeOK'
    <3>1. up' \in [Ends -> BOOLEAN] /\ dead' \subseteq Ends
      BY <1>1, <1>2, <2>1, Zenon DEF TypeOK
    <3>2. timer' \in [Ends -> 0..(Interval * TicksPerSecond)]
      BY <1>2, <2>1 DEF TypeOK
    <3>3. QED
      BY <1>1, <1>2, <2>1, <3>1, <3>2 DEF TypeOK
  <2>5. NoFalseAlarm'
    BY <1>1, <2>1 DEF IInv, NoFalseAlarm
  <2>6. SendsInTime'
    <3>1. SendTicks(e) \in Nat /\ SendTicks(e) <= Beat - 1
      BY <1>2, <2>1, Ages
    <3>2. \A f \in Ends : Alive(f) => SendTicks(f) + timer'[f] <= 2 * Beat - 1
      BY <1>2, <2>2, <3>1 DEF IInv, SendsInTime
    <3>3. QED
      BY <1>1, <2>1, <2>3, <3>2 DEF SendsInTime, SendTicks, Beat
  <2>7. HeardInTime'
    <3> SUFFICES ASSUME NEW f \in Ends, Alive(f), Alive(Other(f))
                 PROVE  (Heard(f) \/ UnderWay(f) \/ WillPing(f))'
      BY <2>3, TwoEnds DEF HeardInTime
    <3>1. /\ Other(f) \in Ends /\ SendTicks(Other(f))' = SendTicks(Other(f))
          /\ RecvTicks(f)' = RecvTicks(f)
      BY <1>1, <2>1, TwoEnds DEF RecvTicks, SendTicks
    <3>2. Heard(f) => Heard(f)'
      BY <3>1 DEF Heard
    <3>3. UnderWay(f) => UnderWay(f)'
      BY <2>1, <3>1 DEF UnderWay, Latest, Beat
    <3>4. WillPing(f) => WillPing(f)'
      <4>1. CASE Other(f) = e
        <5>1. SendTicks(e) \in Nat /\ SendTicks(e) <= Beat - 1
          BY <1>2, <2>1, Ages
        <5>2. ~WillPing(f)
          BY <1>1, <1>2, <4>1, <5>1 DEF WillPing
        <5>3. QED
          BY <5>2
      <4>2. CASE Other(f) # e
        BY <2>2, <3>1, <4>2 DEF WillPing, Latest, Beat
      <4>3. QED
        BY <4>1, <4>2
    <3>5. QED
      BY <3>2, <3>3, <3>4 DEF IInv, HeardInTime
  <2>8. SilenceAges'
    <3> SUFFICES ASSUME NEW f \in Ends, Alive(f), Other(f) \in dead
                 PROVE  recvAge[f] >= Timeout =>
                          silence[f] + timer'[f] <= Timeout * TicksPerSecond + Delay + Beat
      BY <1>1, <2>1, <2>3 DEF IInv, SilenceAges, RecvTicks, Beat
    <3>1. f = e
      BY <1>1, TwoEnds DEF Alive
    <3>2. QED
      BY <1>2, <2>1, <3>1
  <2>9. QED
    BY <2>4, <2>5, <2>6, <2>7, <2>8 DEF IInv
<1>6. QED
  BY <1>3, <1>4, <1>5

\* A message arrives, and a ping is answered.
LEMMA ReceiveKeeps ==
  ASSUME IInv, NEW m \in flight, receive(m)
  PROVE  IInv'
<1> DEFINE e == m.to
           o == Other(e)
<1>1. /\ TypeOK /\ Beat \in Nat /\ e \in Ends /\ o \in Ends /\ o # e /\ Other(o) = e
      /\ \A f \in Ends : f = e \/ f = o
  BY Types, TwoEnds, Bounds DEF IInv
<1>2. /\ Alive(e) /\ recvAge' = [recvAge EXCEPT ![e] = 0]
      /\ UNCHANGED <<phase, timer, up, dead, silence>>
      /\ \/ /\ flight' = (flight \ {m}) \union {Post(o, "PONG")}
            /\ sendAge' = [sendAge EXCEPT ![e] = 0]
         \/ flight' = flight \ {m} /\ sendAge' = sendAge
  BY DEF receive
<1> HIDE DEF e, o
<1>3. /\ \A f \in Ends : recvAge'[f] = IF f = e THEN 0 ELSE recvAge[f]
      /\ sendAge'[o] = sendAge[o] /\ sendAge'[e] \in {0, sendAge[e]}
      /\ recvAge' \in [Ends -> 0..CapAge] /\ sendAge' \in [Ends -> 0..CapAge]
  BY <1>1, <1>2 DEF TypeOK, CapAge
<1>4. \A f \in Ends : Alive(f)' <=> Alive(f)
  BY <1>2 DEF Alive
<1>5. /\ \A n \in flight' : n \in flight \/ n.to = o
      /\ \A n \in flight : n.to = o => n \in flight'
      /\ flight' \subseteq [to : Ends, kind : {"PING", "PONG", "DATA"}, left : 0..Delay]
  <2>1. /\ Post(o, "PONG") \in [to : Ends, kind : {"PING", "PONG", "DATA"}, left : 0..Delay]
        /\ Post(o, "PONG").to = o
    BY <1>1, PostType DEF o
  <2>2. QED
    BY <1>1, <1>2, <2>1 DEF TypeOK, e
<1>6. TypeOK'
  <2>1. up' \in [Ends -> BOOLEAN] /\ dead' \subseteq Ends
    BY <1>1, <1>2, Zenon DEF TypeOK
  <2>2. QED
    BY <1>1, <1>2, <1>3, <1>5, <2>1 DEF TypeOK
<1>7. NoFalseAlarm'
  BY <1>2 DEF IInv, NoFalseAlarm
<1>8. /\ RecvTicks(o)' = RecvTicks(o) /\ SendTicks(o)' = SendTicks(o)
      /\ sendAge'[e] = sendAge[e] => SendTicks(e)' = SendTicks(e)
      /\ SendTicks(e)' \in Nat
      /\ sendAge'[e] = 0 => SendTicks(e)' <= Beat - 1
      /\ RecvTicks(e)' \in Nat /\ RecvTicks(e)' <= TicksPerSecond - 1
      /\ SendTicks(o) \in Nat /\ timer[e] \in Nat /\ timer[e] <= Beat
  <2>1. RecvTicks(o)' = RecvTicks(o) /\ SendTicks(o)' = SendTicks(o)
    BY <1>1, <1>2, <1>3 DEF RecvTicks, SendTicks
  <2>2. sendAge'[e] = sendAge[e] => SendTicks(e)' = SendTicks(e)
    BY <1>2 DEF SendTicks
  <2>3. /\ phase[e] \in 0..(TicksPerSecond - 1) /\ phase' = phase
        /\ sendAge'[e] \in Nat /\ recvAge'[e] = 0
    BY <1>1, <1>2, <1>3, Types DEF CapAge
  <2>4. /\ SendTicks(e)' \in Nat
        /\ sendAge'[e] = 0 => SendTicks(e)' <= TicksPerSecond - 1
    BY <2>3, AgeInTicks DEF SendTicks
  <2>5. RecvTicks(e)' \in Nat /\ RecvTicks(e)' <= TicksPerSecond - 1
    BY <2>3, AgeInTicks DEF RecvTicks
  <2>6. SendTicks(o) \in Nat /\ timer[e] \in Nat /\ timer[e] <= Beat
    BY <1>1, Ages, Types
  <2>7. QED
    BY <2>1, <2>2, <2>4, <2>5, <2>6, Bounds
<1>9. SendsInTime' /\ HeardInTime'
  <2>1. ASSUME NEW f \in Ends, Alive(f)
        PROVE  SendTicks(f)' + timer[f] <= 2 * Beat - 1
    <3>1. CASE SendTicks(f)' = SendTicks(f)
      BY <2>1, <3>1 DEF IInv, SendsInTime
    <3>2. CASE f = e /\ sendAge'[e] = 0
      <4>1. /\ SendTicks(e)' \in Nat /\ SendTicks(e)' <= Beat - 1
            /\ timer[e] \in Nat /\ timer[e] <= Beat /\ Beat \in Nat
        BY <1>1, <1>8, <3>2
      <4>2. SendTicks(e)' + timer[e] <= 2 * Beat - 1
        BY <4>1
      <4>3. QED
        BY <3>2, <4>2
    <3>3. QED
      BY <1>1, <1>3, <1>8, <3>1, <3>2
  <2>2. ASSUME NEW f \in Ends, Alive(f), Alive(Other(f))
        PROVE  (Heard(f) \/ UnderWay(f) \/ WillPing(f))'
    <3>1. CASE f = e
      <4>1. RecvTicks(e)' <= SendTicks(o)' + TicksPerSecond - 1
        BY <1>8, Bounds
      <4>2. QED
        BY <3>1, <4>1 DEF Heard, o
    <3>2. CASE f = o /\ UnderWay(o)
      <4>1. UnderWay(o)'
        BY <1>5, <1>8, <3>2 DEF UnderWay, Latest, Beat
      <4>2. QED
        BY <3>2, <4>1
    <3>3. CASE f = o /\ sendAge'[e] = sendAge[e]
      <4>1. Heard(o) => Heard(o)'
        BY <1>1, <1>8, <3>3 DEF Heard
      <4>2. WillPing(o) => WillPing(o)'
        BY <1>1, <1>2, <1>8, <3>3 DEF WillPing, Latest, Beat
      <4>3. Alive(o) /\ Alive(Other(o))
        BY <2>2, <3>3
      <4>4. Heard(o) \/ UnderWay(o) \/ WillPing(o)
        BY <1>1, <4>3 DEF IInv, HeardInTime
      <4>5. QED
        BY <3>2, <3>3, <4>1, <4>2, <4>4
    <3>4. CASE f = o /\ sendAge'[e] # sendAge[e]
      <4>1. Post(o, "PONG") \in flight'
        BY <1>2, <3>4
      <4>2. Alive(e) /\ Alive(Other(e)) /\ Other(e) = o
        BY <1>1, <2>2, <3>4 DEF o
      <4>3. UnderWay(Other(e))'
        BY <1>1, <1>5, <1>8, <4>1, <4>2, SentInTime
      <4>4. QED
        BY <3>4, <4>2, <4>3
    <3>5. QED
      BY <1>1, <3>1, <3>3, <3>4
  <2>3. SendsInTime'
    BY <1>2, <1>4, <2>1 DEF SendsInTime, Beat
  <2>4. HeardInTime'
    BY <1>4, <2>2, TwoEnds DEF HeardInTime
  <2>5. QED
    BY <2>3, <2>4
<1>10. SilenceAges'
  <2> SUFFICES ASSUME NEW f \in Ends, Alive(f), Other(f) \in dead
               PROVE  /\ \A n \in flight' : n.to = f => n.left + silence[f] <= Delay
                      /\ silence[f] <= RecvTicks(f)' + Delay
                      /\ recvAge'[f] < Timeout
    <3>1. Timeout \in Nat /\ \A f \in Ends : recvAge'[f] \in Nat
      BY <1>3 DEF CapAge
    <3>2. QED
      BY <1>2, <1>4, <3>1 DEF IInv, SilenceAges, Beat
  <2>1. f = e
    BY <1>1, <1>2 DEF Alive
  <2>2. \A n \in flight : n.to = f => n.left + silence[f] <= Delay
    BY DEF IInv, SilenceAges
  <2>3. m.left + silence[f] <= Delay /\ m.left \in Nat /\ silence[f] \in Nat
    BY <1>1, <2>1, <2>2, Types, Bounds DEF e
  <2>4. RecvTicks(f)' \in Nat
    BY <1>8, <2>1
  <2>5. QED
    BY <1>1, <1>3, <1>5, <2>1, <2>2, <2>3, <2>4
<1>11. QED
  BY <1>6, <1>7, <1>9, <1>10 DEF IInv

\* A message to an end that is gone is lost.
LEMMA LoseKeeps ==
  ASSUME IInv, NEW m \in flight, Lose(m)
  PROVE  IInv'
<1>1. /\ ~Alive(m.to) /\ flight' = flight \ {m}
      /\ UNCHANGED <<phase, recvAge, sendAge, timer, up, dead, silence>>
  BY DEF Lose
<1>2. \A f \in Ends : Alive(f)' <=> Alive(f)
  BY <1>1 DEF Alive
<1>3. TypeOK'
  <2>1. up' \in [Ends -> BOOLEAN] /\ dead' \subseteq Ends
    BY <1>1, Zenon DEF IInv, TypeOK
  <2>2. QED
    BY <1>1, <2>1 DEF IInv, TypeOK
<1>4. NoFalseAlarm' /\ SendsInTime'
  BY <1>1, <1>2 DEF IInv, NoFalseAlarm, SendsInTime, SendTicks, Beat
<1>5. HeardInTime'
  <2> SUFFICES ASSUME NEW f \in Ends, Alive(f), Alive(Other(f))
               PROVE  (Heard(f) \/ UnderWay(f) \/ WillPing(f))'
    BY <1>2, TwoEnds DEF HeardInTime
  <2>1. Other(f) \in Ends /\ m.to # f
    BY <1>1, TwoEnds
  <2>2. SendTicks(Other(f))' = SendTicks(Other(f)) /\ RecvTicks(f)' = RecvTicks(f)
    BY <1>1 DEF RecvTicks, SendTicks
  <2>3. Heard(f) => Heard(f)'
    BY <2>2 DEF Heard
  <2>4. UnderWay(f) => UnderWay(f)'
    BY <1>1, <2>1, <2>2 DEF UnderWay, Latest, Beat
  <2>5. WillPing(f) => WillPing(f)'
    BY <1>1, <2>2 DEF WillPing, Latest, Beat
  <2>6. QED
    BY <2>3, <2>4, <2>5 DEF IInv, HeardInTime
<1>6. SilenceAges'
  BY <1>1, <1>2 DEF IInv, SilenceAges, RecvTicks, Beat
<1>7. QED
  BY <1>3, <1>4, <1>5, <1>6 DEF IInv

\* An end falls silent.
LEMMA DieKeeps ==
  ASSUME IInv, NEW e \in Ends, Die(e)
  PROVE  IInv'
<1>1. /\ Alive(e) /\ Alive(Other(e)) /\ dead' = dead \union {e}
      /\ UNCHANGED <<phase, recvAge, sendAge, timer, up, flight, silence>>
  BY DEF Die
<1>2. \A f \in Ends : Alive(f)' => Alive(f) /\ f # e
  BY <1>1 DEF Alive
<1>3. TypeOK'
  <2>1. up' \in [Ends -> BOOLEAN] /\ dead' \subseteq Ends
    BY <1>1, Zenon DEF IInv, TypeOK
  <2>2. QED
    BY <1>1, <2>1 DEF IInv, TypeOK
<1>4. NoFalseAlarm' /\ SendsInTime'
  BY <1>1, <1>2 DEF IInv, NoFalseAlarm, SendsInTime, SendTicks, Beat
<1>5. HeardInTime'
  <2>1. \A f \in Ends : ~(Alive(f)' /\ Alive(Other(f))')
    BY <1>2, TwoEnds
  <2>2. QED
    BY <2>1, TwoEnds DEF HeardInTime, Alive
<1>6. SilenceAges'
  <2>1. \A f \in Ends : Other(f) \notin dead' => silence'[f] = 0
    BY <1>1 DEF IInv, SilenceAges
  <2> SUFFICES ASSUME NEW f \in Ends, f = Other(e)
               PROVE  /\ \A m \in flight : m.to = f => m.left + silence[f] <= Delay
                      /\ silence[f] <= RecvTicks(f) + Delay
                      /\ silence[f] + timer[f] <= Timeout * TicksPerSecond + Delay + Beat
    BY <1>1, <1>2, <2>1, TwoEnds DEF SilenceAges, RecvTicks, Beat
  <2>2. silence[f] = 0
    BY <1>1, TwoEnds DEF IInv, SilenceAges, Alive
  <2>3. /\ \A m \in flight : m.left \in 0..Delay
        /\ timer[f] \in 0..Beat
    BY Types DEF IInv
  <2>4. RecvTicks(f) \in Nat
    BY Ages DEF IInv
  <2>5. Beat \in Nat /\ Delay \in Nat /\ Timeout * TicksPerSecond \in Nat
    BY Bounds
  <2>6. QED
    BY <2>2, <2>3, <2>4, <2>5
<1>7. QED
  BY <1>3, <1>4, <1>5, <1>6 DEF IInv

-----------------------------------------------------------------------------
(* The theorems.                                                           *)

\* The invariant holds in every state.
LEMMA Inductive == Spec => []IInv
<1>1. Init => IInv
  <2> SUFFICES ASSUME Init PROVE IInv
    OBVIOUS
  <2>1. /\ phase \in [Ends -> 0..(TicksPerSecond - 1)]
        /\ up = [e \in Ends |-> TRUE] /\ flight = {} /\ dead = {}
        /\ silence = [e \in Ends |-> 0]
    BY DEF Init
  <2>2. PICK skew \in 0..(Beat - 1), age \in 0..Interval :
          /\ age * TicksPerSecond + phase["b"] - skew \in 0..(TicksPerSecond - 1)
          /\ recvAge = [e \in Ends |-> IF e = "a" THEN 0 ELSE age]
          /\ sendAge = recvAge
          /\ timer = [e \in Ends |-> IF e = "a" THEN Beat ELSE Beat - skew]
    BY DEF Init, Beat
  <2>3. /\ Beat \in Nat /\ Beat >= TicksPerSecond /\ TicksPerSecond \in Nat \ {0}
        /\ Latest = 2 * Beat + TicksPerSecond - 2
    BY Bounds DEF Latest
  <2>4. {"a", "b"} = Ends /\ Other("a") = "b" /\ Other("b") = "a"
    BY DEF Ends, Other
  <2>5. Interval <= Timeout
    <3>1. (Timeout - 2 * Interval - 1) * TicksPerSecond >= 0 - 1 /\ TicksPerSecond \in Nat \ {0}
      OBVIOUS
    <3>2. \A x \in Int, k \in Nat \ {0} : x < 0 - 1 => x * k < 0 - 1
      OBVIOUS
    <3>3. Timeout - 2 * Interval - 1 \in Int /\ Timeout \in Nat /\ Interval \in Nat \ {0}
      OBVIOUS
    <3>4. QED
      BY <3>1, <3>2, <3>3
  <2>6. TypeOK
    <3>1. 0 \in 0..CapAge /\ 0 \in 0..CapSilence /\ age \in 0..CapAge
      BY <2>5, Bounds DEF CapAge
    <3>2. timer \in [Ends -> 0..Beat]
      BY <2>2, <2>3
    <3>3. up \in [Ends -> BOOLEAN]
      BY <2>1
    <3>4. QED
      BY <2>1, <2>2, <3>1, <3>2, <3>3 DEF TypeOK, Beat
  <2>7. NoFalseAlarm
    BY <2>1 DEF NoFalseAlarm
  <2>8. /\ RecvTicks("a") = phase["a"] /\ SendTicks("a") = phase["a"] /\ timer["a"] = Beat
        /\ SendTicks("b") = RecvTicks("b") /\ timer["b"] = Beat - skew
        /\ RecvTicks("b") - skew \in 0..(TicksPerSecond - 1)
        /\ phase["a"] \in 0..(TicksPerSecond - 1) /\ RecvTicks("b") \in Nat
    <3>1. recvAge["a"] = 0 /\ sendAge["a"] = 0 /\ recvAge["b"] = age /\ sendAge["b"] = age
          /\ timer["a"] = Beat /\ timer["b"] = Beat - skew
          /\ phase["a"] \in 0..(TicksPerSecond - 1) /\ phase["b"] \in 0..(TicksPerSecond - 1)
      BY <2>1, <2>2, <2>4
    <3>2. RecvTicks("a") = phase["a"] /\ SendTicks("a") = phase["a"]
      BY <3>1, AgeInTicks DEF RecvTicks, SendTicks
    <3>3. RecvTicks("b") = age * TicksPerSecond + phase["b"] /\ SendTicks("b") = RecvTicks("b")
      BY <3>1 DEF RecvTicks, SendTicks, InTicks
    <3>4. RecvTicks("b") \in Nat
      BY <2>4, <2>6, Ages
    <3>5. QED
      BY <2>2, <3>1, <3>2, <3>3, <3>4
  <2>9. SendsInTime
    <3>1. SendTicks("a") + timer["a"] <= 2 * Beat - 1
      BY <2>3, <2>8
    <3>2. SendTicks("b") + timer["b"] <= 2 * Beat - 1
      BY <2>3, <2>8
    <3>3. QED
      BY <2>4, <3>1, <3>2 DEF SendsInTime
  <2>10. HeardInTime
    <3>1. RecvTicks("a") <= SendTicks("b") + TicksPerSecond - 1
      BY <2>3, <2>8
    <3>2. Beat <= SendTicks("a") + timer["a"] /\ RecvTicks("b") + timer["a"] <= Latest
      BY <2>3, <2>8
    <3>3. Heard("a") /\ WillPing("b")
      BY <2>4, <3>1, <3>2 DEF Heard, WillPing
    <3>4. QED
      BY <2>4, <3>3 DEF HeardInTime
  <2>11. SilenceAges
    BY <2>1, TwoEnds DEF SilenceAges
  <2>12. QED
    BY <2>6, <2>7, <2>9, <2>10, <2>11 DEF IInv
<1>2. IInv /\ [Next]_vars => IInv'
  <2> SUFFICES ASSUME IInv, [Next]_vars PROVE IInv'
    OBVIOUS
  <2>1. ASSUME NEW e \in Ends, sendData(e) PROVE IInv'
    BY <2>1, SendingKeeps DEF sendData
  <2>2. CASE UNCHANGED vars
    <3>1. TypeOK'
      <4>1. up' \in [Ends -> BOOLEAN] /\ dead' \subseteq Ends
        BY <2>2, Zenon DEF IInv, TypeOK, vars
      <4>2. QED
        BY <2>2, <4>1 DEF IInv, TypeOK, vars
    <3>2. NoFalseAlarm' /\ SendsInTime' /\ HeardInTime' /\ SilenceAges'
      BY <2>2 DEF IInv, NoFalseAlarm, SendsInTime, HeardInTime, SilenceAges, Heard,
         UnderWay, WillPing, RecvTicks, SendTicks, Latest, Beat, Alive, vars
    <3>3. QED
      BY <3>1, <3>2 DEF IInv
  <2>3. QED
    BY <2>1, <2>2, TickKeeps, LoopKeeps, ReceiveKeeps, LoseKeeps, DieKeeps DEF Next
<1>3. QED
  BY <1>1, <1>2, PTL DEF Spec

\* A session is ended only when its peer is silent, whatever the offset of the
\* two clocks' seconds, as long as a message takes no longer than what the
\* time-out leaves after two intervals and a second (and a tick).
THEOREM NoAlarm == Spec => []NoFalseAlarm
<1>1. IInv => NoFalseAlarm
  BY DEF IInv
<1>2. QED
  BY <1>1, Inductive, PTL

\* A silent peer is noticed within the time-out, an interval and the delay.
THEOREM Noticed == Spec => []SilenceNoticed
<1>1. IInv => SilenceNoticed
  <2> SUFFICES ASSUME IInv, NEW e \in Ends, Alive(e), Other(e) \in dead
               PROVE  silence[e] <= Timeout * TicksPerSecond + Beat + Delay
    BY Bounds DEF SilenceNoticed
  <2>1. /\ recvAge[e] \in Nat /\ timer[e] \in 0..Beat /\ silence[e] \in Nat
        /\ Timeout \in Nat
    BY Types, Bounds DEF IInv
  <2>2. Beat \in Nat /\ Delay \in Nat /\ Timeout * TicksPerSecond \in Nat
    BY Bounds
  <2>3. /\ recvAge[e] < Timeout => silence[e] <= RecvTicks(e) + Delay
        /\ recvAge[e] >= Timeout =>
             silence[e] + timer[e] <= Timeout * TicksPerSecond + Delay + Beat
    BY DEF IInv, SilenceAges
  <2>4. /\ RecvTicks(e) \in Nat
        /\ recvAge[e] < Timeout => RecvTicks(e) <= Timeout * TicksPerSecond - 1
    BY Ages DEF IInv
  <2>5. QED
    BY <2>1, <2>2, <2>3, <2>4
<1>2. QED
  BY <1>1, Inductive, PTL

\* Ages, timers and silence stay within their bounds, and so does the delay of
\* what is under way.
THEOREM TypeCorrect == Spec => []TypeOK
<1>1. IInv => TypeOK
  BY DEF IInv
<1>2. QED
  BY <1>1, Inductive, PTL

=============================================================================
