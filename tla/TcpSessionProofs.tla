-------------------------- MODULE TcpSessionProofs --------------------------
(***************************************************************************)
(* Proofs that the receive buffer of a connection of the older library     *)
(* holds the bytes of the stream that come next, through every partial     *)
(* read, move and growth, and that the bytes of the messages go out in the *)
(* order in which the threads queued them, wherever the writes end.        *)
(***************************************************************************)
EXTENDS TcpSession, SequenceTheorems, WellFoundedInduction, TLAPS

\* The sizes and bounds are numbers.
LEMMA Sizes ==
  /\ MaxStream \in Nat /\ FirstSize \in Nat /\ GrowStep \in Nat /\ MaxRecvBuf \in Nat
BY TcpAssumption

-----------------------------------------------------------------------------
(* The inductive invariant.                                                *)

\* A buffer as ox_buffer.h keeps it: the two positions in order and within it.
IsBuffer(b) ==
  /\ b = [size |-> b.size, read_pos |-> b.read_pos, write_pos |-> b.write_pos,
          data |-> b.data]
  /\ b.size \in Nat /\ b.write_pos \in 0..b.size /\ b.read_pos \in 0..b.write_pos
  /\ b.data \in [0..b.size-1 -> Nat]

\* What is between the positions are the bytes behind place at of the stream.
Holds(b, at) ==
  \A j \in b.read_pos..b.write_pos - 1 : b.data[j] = at + (j - b.read_pos) + 1

\* The buffer, and how far the stream has come.
IInv ==
  /\ IsBuffer(buf) /\ buf.size <= MaxRecvBuf
  /\ Holds(buf, delivered)
  /\ ends \subseteq 1..MaxStream
  /\ delivered \in Nat /\ delivered + getreadvalidcount(buf) <= MaxStream

-----------------------------------------------------------------------------
(* The largest of some numbers.                                            *)

\* The order of the numbers as a relation.
Less == {p \in Nat \X Nat : p[1] < p[2]}

\* Numbers have a least one.
LEMMA LeastNumber ==
  ASSUME NEW T, T \subseteq Nat, T # {}
  PROVE  \E x \in T : \A y \in T : x <= y
<1>1. IsWellFoundedOn(Less, Nat)
  BY NatLessThanWellFounded, Zenon DEF OpToRel, Less
<1>2. PICK x \in T : \A y \in T : ~(<<y, x>> \in Less)
  BY <1>1, WFMin
<1>3. \A y \in T : ~(y < x)
  BY <1>2 DEF Less
<1>4. QED
  BY <1>3

\* Numbers up to a bound have a largest one.
LEMMA LargestNumber ==
  ASSUME NEW g \in Nat, NEW E, E \subseteq 0..g, E # {}
  PROVE  \E x \in E : \A y \in E : y <= x
<1> DEFINE T == {g - e : e \in E}
<1>1. T \subseteq Nat /\ T # {}
  <2>1. \A e \in E : g - e \in Nat
    OBVIOUS
  <2>2. QED
    BY <2>1
<1>2. PICK t \in T : \A y \in T : t <= y
  <2> HIDE DEF T
  <2>1. QED
    BY <1>1, LeastNumber
<1>3. PICK x \in E : t = g - x
  OBVIOUS
<1>4. \A y \in E : g - y \in T
  OBVIOUS
<1>5. ASSUME NEW y \in E PROVE y <= x
  <2>1. t <= g - y
    BY <1>2, <1>4
  <2>2. x \in 0..g /\ y \in 0..g
    OBVIOUS
  <2> HIDE DEF T
  <2>3. QED
    BY <2>1, <2>2, <1>3
<1>6. QED
  BY <1>5

\* The data callback consumes no more than there is, and never goes back.
LEMMA DataCbFacts ==
  ASSUME IInv, NEW got \in Nat, delivered <= got
  PROVE  dataCb(got) \in delivered..got
<1> DEFINE E == {e \in ends \union {delivered} : delivered <= e /\ e <= got}
<1>0. ends \subseteq Nat /\ delivered \in Nat
  BY Sizes DEF IInv
<1>1. E \subseteq 0..got /\ delivered \in E
  <2>1. \A e \in E : e \in 0..got
    BY <1>0
  <2>2. delivered <= delivered
    BY <1>0
  <2>3. QED
    BY <2>1, <2>2
<1>2. PICK x \in E : \A y \in E : y <= x
  <2> HIDE DEF E
  <2>1. QED
    BY <1>1, LargestNumber
<1>3. \E e \in ends \union {delivered} :
        /\ delivered <= e /\ e <= got
        /\ \A f \in ends : f <= got => f <= e
  <2>1. x \in ends \union {delivered} /\ delivered <= x /\ x <= got /\ x \in Nat
    BY <1>0
  <2>2. ASSUME NEW f \in ends, f <= got PROVE f <= x
    <3>1. f \in Nat /\ delivered \in Nat
      BY <1>0
    <3>2. CASE delivered <= f
      BY <3>2, <2>2, <1>2
    <3>3. CASE ~(delivered <= f)
      BY <3>1, <3>3, <2>1
    <3>4. QED
      BY <3>2, <3>3
  <2>3. QED
    BY <2>1, <2>2
<1>4. /\ dataCb(got) \in ends \union {delivered}
      /\ delivered <= dataCb(got) /\ dataCb(got) <= got
  BY <1>3 DEF dataCb
<1>5. QED
  <2>1. dataCb(got) \in Nat
    BY <1>0, <1>4
  <2>2. QED
    BY <1>0, <1>4, <2>1

-----------------------------------------------------------------------------
(* The operations of the buffer.                                           *)

\* A new buffer is one, and holds nothing.
LEMMA NewBufferFacts ==
  ASSUME NEW n \in Nat
  PROVE  IsBuffer(NewBuffer(n)) /\ NewBuffer(n).read_pos = 0
         /\ NewBuffer(n).write_pos = 0 /\ NewBuffer(n).size = n
BY DEF NewBuffer, IsBuffer

\* Setting one field of a record.
LEMMA SetData ==
  ASSUME NEW b, NEW s, NEW x, NEW y, NEW z, NEW d,
         b = [size |-> s, read_pos |-> x, write_pos |-> y, data |-> z]
  PROVE  [b EXCEPT !.data = d] = [size |-> s, read_pos |-> x, write_pos |-> y, data |-> d]
OBVIOUS

\* The record that Write makes.
LEMMA WriteForm ==
  ASSUME NEW b, IsBuffer(b), NEW src
  PROVE  Write(b, src) =
           [size |-> b.size, read_pos |-> b.read_pos,
            write_pos |-> b.write_pos + Len(src),
            data |-> [i \in 0..b.size-1 |->
                        IF i \in b.write_pos..(b.write_pos + Len(src) - 1)
                        THEN src[i - b.write_pos + 1] ELSE b.data[i]]]
<1>1. ASSUME NEW p, NEW d
      PROVE  [b EXCEPT !.write_pos = p, !.data = d]
               = [size |-> b.size, read_pos |-> b.read_pos, write_pos |-> p, data |-> d]
  <2>1. PICK s, x, y, z : b = [size |-> s, read_pos |-> x, write_pos |-> y, data |-> z]
    BY Zenon DEF IsBuffer
  <2>2. PICK c : c = [b EXCEPT !.write_pos = p]
    OBVIOUS
  <2>3. c = [size |-> s, read_pos |-> x, write_pos |-> p, data |-> z]
    BY <2>1, <2>2
  <2>4. [b EXCEPT !.write_pos = p, !.data = d] = [c EXCEPT !.data = d]
    BY <2>2
  <2>5. [c EXCEPT !.data = d] = [size |-> s, read_pos |-> x, write_pos |-> p, data |-> d]
    BY <2>3, SetData
  <2>6. QED
    BY <2>1, <2>4, <2>5
<1>2. QED
  BY <1>1, Zenon DEF Write

\* Writing n bytes behind the write position adds them to the unread ones.
LEMMA WriteFacts ==
  ASSUME NEW b, IsBuffer(b), NEW n \in Nat, n <= getwritevalidcount(b),
         NEW src \in [1..n -> Nat]
  PROVE  LET w == Write(b, src) IN
         /\ IsBuffer(w) /\ w.size = b.size /\ w.read_pos = b.read_pos
         /\ w.write_pos = b.write_pos + n
         /\ \A j \in 0..b.write_pos - 1 : w.data[j] = b.data[j]
         /\ \A j \in b.write_pos..w.write_pos - 1 : w.data[j] = src[j - b.write_pos + 1]
<1> DEFINE w == Write(b, src)
           d == [i \in 0..b.size-1 |-> IF i \in b.write_pos..(b.write_pos + Len(src) - 1)
                                       THEN src[i - b.write_pos + 1] ELSE b.data[i]]
<1>1. Len(src) = n
  OBVIOUS
<1>2. b.size \in Nat /\ b.write_pos \in 0..b.size /\ b.read_pos \in 0..b.write_pos
      /\ b.write_pos + n <= b.size /\ b.data \in [0..b.size-1 -> Nat]
  BY DEF IsBuffer, getwritevalidcount
<1>3. w = [size |-> b.size, read_pos |-> b.read_pos,
           write_pos |-> b.write_pos + Len(src), data |-> d]
  BY WriteForm, Zenon
<1>4. d \in [0..b.size-1 -> Nat]
  <2>1. \A i \in b.write_pos..b.write_pos + n - 1 : src[i - b.write_pos + 1] \in Nat
    BY <1>2, SMTT(60)
  <2>2. QED
    BY <1>1, <1>2, <2>1
<1>5. /\ \A j \in 0..b.write_pos - 1 : d[j] = b.data[j]
      /\ \A j \in b.write_pos..b.write_pos + n - 1 : d[j] = src[j - b.write_pos + 1]
  BY <1>1, <1>2, SMTT(60)
<1> HIDE DEF d, w
<1>6. /\ w.size = b.size /\ w.read_pos = b.read_pos /\ w.write_pos = b.write_pos + n
      /\ w.data = d
  BY <1>1, <1>3
<1>7. IsBuffer(w)
  BY <1>2, <1>3, <1>4, <1>6 DEF IsBuffer
<1>8. /\ \A j \in 0..b.write_pos - 1 : w.data[j] = b.data[j]
      /\ \A j \in b.write_pos..w.write_pos - 1 : w.data[j] = src[j - b.write_pos + 1]
  <2>0. w.write_pos = b.write_pos + n /\ b.write_pos \in Nat
    BY <1>2, <1>6
  <2>1. w.write_pos - 1 = b.write_pos + n - 1
    BY <2>0
  <2>2. QED
    BY <1>5, <1>6, <2>1, Zenon
<1>9. QED
  BY <1>6, <1>7, <1>8, Zenon DEF w

\* Moving the unread bytes to the front keeps them.
LEMMA AdjustFacts ==
  ASSUME NEW b, IsBuffer(b), NEW at \in Nat, Holds(b, at)
  PROVE  LET w == adjustto_head(b) IN
         /\ IsBuffer(w) /\ w.size = b.size
         /\ getreadvalidcount(w) = getreadvalidcount(b)
         /\ Holds(w, at)
<1>1. CASE b.read_pos = 0
  BY <1>1 DEF adjustto_head
<1>2. CASE b.read_pos # 0
  <2> DEFINE c == b.write_pos - b.read_pos
             d == [i \in 0..b.size-1 |-> IF i < c THEN b.data[b.read_pos + i]
                                         ELSE b.data[i]]
             w == adjustto_head(b)
  <2>1. b.size \in Nat /\ b.write_pos \in 0..b.size /\ b.read_pos \in 0..b.write_pos
        /\ b.data \in [0..b.size-1 -> Nat]
    BY DEF IsBuffer
  <2>2. w = [size |-> b.size, read_pos |-> 0, write_pos |-> c, data |-> d]
    BY <1>2 DEF IsBuffer, adjustto_head, getreadvalidcount
  <2>3. d \in [0..b.size-1 -> Nat] /\ c \in 0..b.size
    <3>1. c \in 0..b.size /\ \A i \in 0..c - 1 : b.read_pos + i \in 0..b.size-1
      BY <2>1, SMTT(60)
    <3>2. \A i \in 0..b.size-1 : i < c => i \in 0..c - 1
      BY <2>1
    <3> HIDE DEF c
    <3>3. QED
      BY <2>1, <3>1, <3>2
  <2>4. ASSUME NEW j \in 0..c - 1 PROVE d[j] = at + j + 1
    <3>1. b.read_pos + j \in b.read_pos..b.write_pos - 1 /\ j \in 0..b.size-1 /\ j < c
      BY <2>1
    <3>2. d[j] = b.data[b.read_pos + j]
      BY <3>1
    <3> HIDE DEF d
    <3>3. QED
      BY <2>1, <3>1, <3>2, SMTT(60) DEF Holds
  <2> HIDE DEF d, w
  <2>5. w.size = b.size /\ w.read_pos = 0 /\ w.write_pos = c /\ w.data = d
    BY <2>2
  <2>6. IsBuffer(w)
    BY <2>1, <2>2, <2>3, <2>5 DEF IsBuffer
  <2>7. Holds(w, at)
    BY <2>3, <2>4, <2>5 DEF Holds
  <2>8. getreadvalidcount(w) = getreadvalidcount(b)
    BY <2>1, <2>5 DEF getreadvalidcount
  <2>9. QED
    BY <2>5, <2>6, <2>7, <2>8 DEF w
<1>3. QED
  BY <1>1, <1>2

\* Growing keeps the unread bytes, and the limit.
LEMMA GrownFacts ==
  ASSUME NEW b, IsBuffer(b), b.size <= MaxRecvBuf, NEW at \in Nat, Holds(b, at)
  PROVE  LET w == Grown(b) IN
         /\ IsBuffer(w) /\ w.size <= MaxRecvBuf
         /\ getreadvalidcount(w) = getreadvalidcount(b)
         /\ Holds(w, at)
<1>1. CASE Grown(b) = b
  BY <1>1
<1>2. CASE Grown(b) # b
  <2> DEFINE c == b.write_pos - b.read_pos
             n == NewBuffer(b.size + GrowStep)
             u == [i \in 1..c |-> b.data[b.read_pos + i - 1]]
             w == Write(n, u)
  <2>1. b.size \in Nat /\ b.write_pos \in 0..b.size /\ b.read_pos \in 0..b.write_pos
        /\ b.data \in [0..b.size-1 -> Nat] /\ GrowStep \in Nat /\ MaxRecvBuf \in Nat
    BY Sizes DEF IsBuffer
  <2>2. b.size + GrowStep <= MaxRecvBuf /\ Grown(b) = w
    BY <1>2, <2>1 DEF Grown, growRecvBuffer, Unread, getreadvalidcount
  <2>3. c \in 0..b.size /\ u \in [1..c -> Nat]
    BY <2>1, SMTT(60)
  <2>4. ASSUME NEW j \in 0..c - 1 PROVE u[j + 1] = at + j + 1
    <3>1. b.read_pos + j \in b.read_pos..b.write_pos - 1 /\ j + 1 \in 1..c
      BY <2>1
    <3>2. u[j + 1] = b.data[b.read_pos + j]
      BY <2>1, <3>1
    <3> HIDE DEF u
    <3>3. QED
      BY <2>1, <3>1, <3>2, SMTT(60) DEF Holds
  <2>5. IsBuffer(n) /\ n.read_pos = 0 /\ n.write_pos = 0 /\ n.size = b.size + GrowStep
    BY <2>1, NewBufferFacts
  <2> HIDE DEF u, n, c
  <2>6. c \in Nat /\ c <= getwritevalidcount(n)
    BY <2>1, <2>3, <2>5 DEF getwritevalidcount
  <2>7. /\ IsBuffer(w) /\ w.size = n.size /\ w.read_pos = n.read_pos
        /\ w.write_pos = n.write_pos + c
        /\ \A j \in n.write_pos..w.write_pos - 1 : w.data[j] = u[j - n.write_pos + 1]
    BY <2>3, <2>5, <2>6, WriteFacts
  <2> HIDE DEF w
  <2>8. \A j \in 0..c - 1 : w.data[j] = u[j + 1]
    BY <2>5, <2>6, <2>7
  <2>9. Holds(w, at)
    BY <2>4, <2>5, <2>6, <2>7, <2>8 DEF Holds
  <2>10. getreadvalidcount(w) = getreadvalidcount(b)
    BY <2>5, <2>6, <2>7 DEF getreadvalidcount, c
  <2>11. QED
    BY <2>1, <2>2, <2>5, <2>7, <2>9, <2>10
<1>3. QED
  BY <1>1, <1>2

\* Consuming n of the unread bytes, and making room.
LEMMA ConsumeFacts ==
  ASSUME NEW b, IsBuffer(b), NEW at \in Nat, Holds(b, at),
         NEW n \in Nat, n <= getreadvalidcount(b)
  PROVE  LET w == Tidy([b EXCEPT !.read_pos = @ + n]) IN
         /\ IsBuffer(w) /\ w.size = b.size
         /\ getreadvalidcount(w) = getreadvalidcount(b) - n
         /\ Holds(w, at + n)
<1> DEFINE r == [b EXCEPT !.read_pos = @ + n]
<1>1. b.size \in Nat /\ b.write_pos \in 0..b.size /\ b.read_pos \in 0..b.write_pos
      /\ b.data \in [0..b.size-1 -> Nat] /\ b.read_pos + n <= b.write_pos
  BY DEF IsBuffer, getreadvalidcount
<1>2. r = [size |-> b.size, read_pos |-> b.read_pos + n, write_pos |-> b.write_pos,
           data |-> b.data]
  BY DEF IsBuffer
<1> HIDE DEF r
<1>3. /\ r.size = b.size /\ r.read_pos = b.read_pos + n /\ r.write_pos = b.write_pos
      /\ r.data = b.data
  BY <1>2
<1>4. IsBuffer(r)
  BY <1>1, <1>2, <1>3 DEF IsBuffer
<1>5. Holds(r, at + n)
  <2>1. ASSUME NEW j \in r.read_pos..r.write_pos - 1
        PROVE  r.data[j] = at + n + (j - r.read_pos) + 1
    <3>1. j \in b.read_pos..b.write_pos - 1
      BY <1>1, <1>3
    <3>2. b.data[j] = at + (j - b.read_pos) + 1
      BY <3>1 DEF Holds
    <3>3. QED
      BY <1>1, <1>3, <3>1, <3>2
  <2>2. QED
    BY <2>1 DEF Holds
<1>6. getreadvalidcount(r) = getreadvalidcount(b) - n
  BY <1>1, <1>3 DEF getreadvalidcount
<1>a. at + n \in Nat
  OBVIOUS
<1>7. CASE Tidy(r) = r
  BY <1>3, <1>4, <1>5, <1>6, <1>7 DEF r
<1>8. CASE Tidy(r) = adjustto_head(r)
  <2>1. /\ IsBuffer(Tidy(r)) /\ Tidy(r).size = r.size
        /\ getreadvalidcount(Tidy(r)) = getreadvalidcount(r)
        /\ Holds(Tidy(r), at + n)
    BY <1>4, <1>5, <1>8, <1>a, AdjustFacts
  <2>2. QED
    BY <1>3, <1>6, <2>1, Zenon DEF r
<1>9. QED
  BY <1>7, <1>8 DEF Tidy

-----------------------------------------------------------------------------
(* The inductive step and the theorem.                                     *)

\* A read that ends, with the callback, the growing and the tidying in it.
LEMMA RecvKeeps ==
  ASSUME IInv, NEW n \in 0..MaxStream, onRecvCompleted(n)
  PROVE  IInv'
<1>1. CASE sock = "closed"
  BY <1>1 DEF onRecvCompleted, IInv
<1>2. CASE sock # "closed"
  <2> DEFINE c   == getreadvalidcount(buf)
             got == delivered + c
             src == [i \in 1..n |-> got + i]
             w   == Write(buf, src)
             g   == Grown(w)
             e   == dataCb(got + n)
  <2>1. /\ n <= MaxStream - got /\ n <= getwritevalidcount(buf)
        /\ delivered' = e
        /\ buf' = Tidy([g EXCEPT !.read_pos = @ + (e - delivered)])
        /\ ends' = ends
    BY <1>2 DEF onRecvCompleted
  <2>2. /\ IsBuffer(buf) /\ buf.size <= MaxRecvBuf /\ Holds(buf, delivered)
        /\ delivered \in Nat /\ ends \subseteq 1..MaxStream
        /\ buf.size \in Nat /\ buf.write_pos \in 0..buf.size
        /\ buf.read_pos \in 0..buf.write_pos /\ n \in Nat
        /\ MaxStream \in Nat
    BY Sizes DEF IInv, IsBuffer
  <2>3. c = buf.write_pos - buf.read_pos /\ c \in Nat /\ got \in Nat
    BY <2>2 DEF getreadvalidcount
  <2> HIDE DEF c
  <2>4. src \in [1..n -> Nat] /\ \A i \in 1..n : src[i] = got + i
    BY <2>2, <2>3
  <2>5. e \in delivered..(got + n)
    BY <2>2, <2>3, DataCbFacts
  <2> HIDE DEF e, src
  <2>6. /\ IsBuffer(w) /\ w.size = buf.size /\ w.read_pos = buf.read_pos
        /\ w.write_pos = buf.write_pos + n
        /\ \A j \in 0..buf.write_pos - 1 : w.data[j] = buf.data[j]
        /\ \A j \in buf.write_pos..w.write_pos - 1 :
             w.data[j] = src[j - buf.write_pos + 1]
    BY <2>1, <2>2, <2>4, WriteFacts
  <2> HIDE DEF w
  <2>7. Holds(w, delivered)
    <3>1. ASSUME NEW j \in w.read_pos..w.write_pos - 1
          PROVE  w.data[j] = delivered + (j - w.read_pos) + 1
      <4>1. CASE j < buf.write_pos
        <5>1. j \in 0..buf.write_pos - 1 /\ j \in buf.read_pos..buf.write_pos - 1
          BY <2>2, <2>6, <4>1
        <5>2. buf.data[j] = delivered + (j - buf.read_pos) + 1
          BY <2>2, <5>1 DEF Holds
        <5>3. QED
          BY <2>6, <5>1, <5>2
      <4>2. CASE ~(j < buf.write_pos)
        <5>1. j \in buf.write_pos..w.write_pos - 1 /\ j - buf.write_pos + 1 \in 1..n
          BY <2>2, <2>6, <4>2
        <5>2. w.data[j] = got + (j - buf.write_pos + 1)
          BY <2>4, <2>6, <5>1
        <5>3. QED
          BY <2>2, <2>3, <2>6, <5>1, <5>2
      <4>3. QED
        BY <4>1, <4>2
    <3>2. QED
      BY <3>1 DEF Holds
  <2>8. getreadvalidcount(w) = c + n
    BY <2>2, <2>3, <2>6 DEF getreadvalidcount
  <2>9. /\ IsBuffer(g) /\ g.size <= MaxRecvBuf /\ Holds(g, delivered)
        /\ getreadvalidcount(g) = c + n
    BY <2>2, <2>6, <2>7, <2>8, GrownFacts
  <2> HIDE DEF g
  <2>10. e - delivered \in Nat /\ e - delivered <= c + n /\ e \in Nat
         /\ delivered + (e - delivered) = e
    BY <2>2, <2>3, <2>5
  <2>11. /\ IsBuffer(buf') /\ buf'.size = g.size
         /\ getreadvalidcount(buf') = (c + n) - (e - delivered)
         /\ Holds(buf', e)
    <3> DEFINE t == Tidy([g EXCEPT !.read_pos = @ + (e - delivered)])
    <3>1. /\ IsBuffer(t) /\ t.size = g.size
          /\ getreadvalidcount(t) = getreadvalidcount(g) - (e - delivered)
          /\ Holds(t, delivered + (e - delivered))
      BY <2>2, <2>9, <2>10, ConsumeFacts
    <3>2. buf' = t
      BY <2>1
    <3> HIDE DEF t
    <3>3. Holds(t, e)
      BY <2>10, <3>1, Zenon
    <3>4. QED
      BY <2>9, <3>1, <3>2, <3>3, Zenon
  <2>12. e + ((c + n) - (e - delivered)) <= MaxStream
    BY <2>1, <2>2, <2>3, <2>10
  <2>13. QED
    BY <2>1, <2>2, <2>9, <2>10, <2>11, <2>12 DEF IInv, getreadvalidcount
<1>3. QED
  BY <1>1, <1>2

\* IInv is an invariant of the specification.
LEMMA Inductive == Spec => []IInv
<1>1. Init => IInv
  <2> SUFFICES ASSUME Init PROVE IInv
    OBVIOUS
  <2> DEFINE n == Min2(FirstSize, MaxRecvBuf)
  <2>1. n \in Nat /\ n <= MaxRecvBuf
    BY Sizes DEF Min2
  <2> HIDE DEF n
  <2>2. IsBuffer(buf) /\ buf.read_pos = 0 /\ buf.write_pos = 0 /\ buf.size = n
    BY <2>1, NewBufferFacts DEF Init, n
  <2>3. Holds(buf, delivered) /\ getreadvalidcount(buf) = 0
    BY <2>2 DEF Holds, getreadvalidcount
  <2>4. QED
    BY <2>1, <2>2, <2>3, Sizes DEF Init, IInv
<1>2. IInv /\ [Next]_vars => IInv'
  <2> SUFFICES ASSUME IInv, [Next]_vars PROVE IInv'
    OBVIOUS
  <2>1. CASE RecvDone
    BY <2>1, RecvKeeps DEF RecvDone
  <2>2. CASE UNCHANGED <<buf, ends, delivered>>
    BY <2>2 DEF IInv
  <2>3. CASE AttemptStep \/ MakeSession \/ PeerCloses \/ startRecv \/ SendDone
    BY <2>2, <2>3 DEF AttemptStep, MakeSession, PeerCloses, startRecv, SendDone,
       onSendCompleted, recvVars
  <2>4. CASE \/ \E t \in Threads, size \in MsgSizes : Push(t, size)
             \/ \E t \in Threads : trySend(t)
             \/ UNCHANGED vars
    BY <2>2, <2>4 DEF Push, trySend, recvVars, vars
  <2>5. QED
    BY <2>1, <2>3, <2>4 DEF Next
<1>3. QED
  BY <1>1, <1>2, PTL DEF Spec

\* Whatever the data callback is shown are the bytes of the stream in their
\* order, none lost or doubled by a move (ox_buffer_adjustto_head), a growth
\* (growRecvBuffer) or a partial read (asiosession.cpp, onRecvCompleted).
THEOREM StreamIntact == Spec => []UnreadIntact
<1>1. IInv => UnreadIntact
  <2> SUFFICES ASSUME IInv, NEW i \in 1..getreadvalidcount(buf)
               PROVE  Unread(buf)[i] = delivered + i
    BY DEF UnreadIntact
  <2>1. /\ buf.write_pos \in Nat /\ buf.read_pos \in Nat /\ delivered \in Nat
        /\ i \in 1..(buf.write_pos - buf.read_pos)
    BY DEF IInv, IsBuffer, getreadvalidcount
  <2>2. buf.read_pos + i - 1 \in buf.read_pos..buf.write_pos - 1
    BY <2>1
  <2>3. Unread(buf)[i] = buf.data[buf.read_pos + i - 1]
    BY DEF Unread
  <2>4. buf.data[buf.read_pos + i - 1] = delivered + i
    BY <2>1, <2>2 DEF IInv, Holds
  <2>5. QED
    BY <2>3, <2>4
<1>2. QED
  BY <1>1, Inductive, PTL

-----------------------------------------------------------------------------
(* Sending: the inductive invariant.                                       *)

\* The messages as send() queued them.
Queued == [id \in 1..Len(pushed) |-> Bytes(id, pushed[id])]

SendTypes == pushed \in Seq(Nat) /\ pending \in Seq(Seq(Nat)) /\ wire \in Seq(Nat)

\* What has gone out and what is pending are all the bytes, in their order.
NothingLost == wire \o FlattenSeq(pending) = FlattenSeq(Queued)

\* The one write that is under way is of the first pending bytes.
OneWrite ==
  IF bSending
  THEN \E n \in 0..Len(FlattenSeq(pending)) :
         inFlight = <<SubSeq(FlattenSeq(pending), 1, n)>>
  ELSE inFlight = <<>>

SendInv == SendTypes /\ NothingLost /\ OneWrite

-----------------------------------------------------------------------------
(* Joining the messages of a list: FlattenSeq.                             *)

\* f joins the first parts of s, up to part n.
Joins(f, s, n) ==
  f = [i \in 1..n |-> IF i = 1 THEN s[i] ELSE f[i-1] \o s[i]]

\* Such a function exists for every sequence
LEMMA JoinsExists ==
  ASSUME NEW s, NEW n \in Nat
  PROVE  \E f : Joins(f, s, n)
<1> DEFINE T == {k \in Nat : ~\E f : Joins(f, s, k)}
<1>1. CASE T = {}
  BY <1>1
<1>2. CASE T # {}
  <2>1. PICK k \in T : \A y \in T : k <= y
    <3>1. T \subseteq Nat
      OBVIOUS
    <3> HIDE DEF T
    <3>2. QED
      BY <1>2, <3>1, LeastNumber
  <2>2. CASE k = 0
    <3>1. Joins(<<>>, s, 0)
      BY DEF Joins
    <3>2. QED
      BY <2>2, <3>1
  <2>3. CASE k # 0
    <3>1. k - 1 \in Nat /\ ~(k <= k - 1)
      BY <2>3
    <3>2. PICK f : Joins(f, s, k - 1)
      BY <2>1, <3>1
    <3> DEFINE g == [i \in 1..k |-> IF i = k THEN (IF i = 1 THEN s[i] ELSE f[i-1] \o s[i])
                                    ELSE f[i]]
    <3>3. \A i \in 1..k-1 : f[i] = IF i = 1 THEN s[i] ELSE f[i-1] \o s[i]
      BY <3>2 DEF Joins
    <3>4. \A i \in 1..k : i # k => i \in 1..k-1
      BY <3>1
    <3>5. \A i \in 1..k : i # 1 => i - 1 \in 1..k /\ i - 1 # k
      BY <3>1
    <3>6. \A i \in 1..k : g[i] = IF i = 1 THEN s[i] ELSE g[i-1] \o s[i]
      BY <3>3, <3>4, <3>5
    <3>7. Joins(g, s, k)
      BY <3>6 DEF Joins
    <3>8. QED
      BY <3>7
  <2>4. QED
    BY <2>2, <2>3
<1>3. QED
  BY <1>1, <1>2

\* and agrees with every other one, also for a longer sequence.
LEMMA JoinsAgree ==
  ASSUME NEW s, NEW t, NEW f, NEW g, NEW n \in Nat, NEW m \in Nat, n <= m,
         Joins(f, s, n), Joins(g, t, m), \A i \in 1..n : s[i] = t[i]
  PROVE  \A i \in 1..n : f[i] = g[i]
<1> DEFINE T == {i \in 1..n : f[i] # g[i]}
<1>1. CASE T = {}
  BY <1>1
<1>2. CASE T # {}
  <2>1. PICK k \in T : \A y \in T : k <= y
    <3>1. T \subseteq Nat
      OBVIOUS
    <3> HIDE DEF T
    <3>2. QED
      BY <1>2, <3>1, LeastNumber
  <2>2. f[k] = (IF k = 1 THEN s[k] ELSE f[k-1] \o s[k])
        /\ g[k] = (IF k = 1 THEN t[k] ELSE g[k-1] \o t[k])
    <3>1. k \in 1..n /\ k \in 1..m
      OBVIOUS
    <3>2. QED
      BY <3>1 DEF Joins
  <2>3. CASE k = 1
    BY <2>2, <2>3
  <2>4. CASE k # 1
    <3>1. k - 1 \in 1..n /\ ~(k <= k - 1)
      BY <2>4
    <3>2. f[k-1] = g[k-1]
      BY <2>1, <3>1
    <3>3. QED
      BY <2>2, <3>2
  <2>5. QED
    BY <2>3, <2>4
<1>3. QED
  BY <1>1, <1>2

\* FlattenSeq is the last value of such a function.
LEMMA FlattenIs ==
  ASSUME NEW s, Len(s) \in Nat, Len(s) # 0, NEW f, Joins(f, s, Len(s))
  PROVE  FlattenSeq(s) = f[Len(s)]
<1> DEFINE g == CHOOSE g : Joins(g, s, Len(s))
<1>1. Joins(g, s, Len(s))
  OBVIOUS
<1>2. FlattenSeq(s) = g[Len(s)]
  BY DEF FlattenSeq, Joins
<1> HIDE DEF g
<1>3. f[Len(s)] = g[Len(s)]
  <2>1. \A i \in 1..Len(s) : f[i] = g[i]
    BY <1>1, JoinsAgree
  <2>2. QED
    BY <2>1
<1>4. QED
  BY <1>2, <1>3

\* No parts.
LEMMA FlattenEmpty == FlattenSeq(<<>>) = <<>>
BY DEF FlattenSeq

\* The joined parts are sequences.
LEMMA FlattenType ==
  ASSUME NEW S, NEW s \in Seq(Seq(S))
  PROVE  FlattenSeq(s) \in Seq(S)
<1>0. Len(s) \in Nat
  OBVIOUS
<1>1. CASE Len(s) = 0
  <2>1. s = <<>>
    BY <1>1
  <2>2. <<>> \in Seq(S)
    OBVIOUS
  <2>3. QED
    BY <2>1, <2>2, FlattenEmpty
<1>2. CASE Len(s) # 0
  <2>1. PICK f : Joins(f, s, Len(s))
    BY <1>0, JoinsExists
  <2> DEFINE T == {i \in 1..Len(s) : f[i] \notin Seq(S)}
  <2>2. ASSUME T # {} PROVE FALSE
    <3>1. PICK k \in T : \A y \in T : k <= y
      <4>1. T \subseteq Nat
        OBVIOUS
      <4> HIDE DEF T
      <4>2. QED
        BY <2>2, <4>1, LeastNumber
    <3>2. f[k] = IF k = 1 THEN s[k] ELSE f[k-1] \o s[k]
      <4>1. k \in 1..Len(s)
        OBVIOUS
      <4>2. QED
        BY <2>1, <4>1 DEF Joins
    <3>3. s[k] \in Seq(S)
      OBVIOUS
    <3>4. CASE k = 1
      BY <3>2, <3>3, <3>4
    <3>5. CASE k # 1
      <4>1. k - 1 \in 1..Len(s) /\ ~(k <= k - 1)
        BY <3>5
      <4>2. f[k-1] \in Seq(S)
        BY <3>1, <4>1
      <4>3. f[k-1] \o s[k] \in Seq(S)
        BY <3>3, <4>2, ConcatProperties
      <4>4. QED
        BY <3>2, <3>5, <4>3
    <3>6. QED
      BY <3>4, <3>5
  <2>3. f[Len(s)] \in Seq(S)
    <3>1. Len(s) \in 1..Len(s)
      BY <1>2
    <3>2. QED
      BY <2>2, <3>1
  <2>4. QED
    BY <1>2, <2>1, <2>3, FlattenIs
<1>3. QED
  BY <1>1, <1>2

\* One part more.
LEMMA FlattenAppend ==
  ASSUME NEW S, NEW s \in Seq(Seq(S)), NEW x \in Seq(S)
  PROVE  FlattenSeq(Append(s, x)) = FlattenSeq(s) \o x
<1> DEFINE t == Append(s, x)
<1>1. /\ Len(t) = Len(s) + 1 /\ Len(s) \in Nat /\ t[Len(s) + 1] = x
      /\ \A i \in 1..Len(s) : s[i] = t[i]
  OBVIOUS
<1> HIDE DEF t
<1>a. Len(t) \in Nat /\ Len(t) # 0 /\ Len(s) <= Len(t)
  BY <1>1
<1>2. PICK g : Joins(g, t, Len(t))
  BY <1>a, JoinsExists
<1>3. FlattenSeq(t) = g[Len(t)]
  BY <1>a, <1>2, FlattenIs
<1>4. g[Len(t)] = IF Len(t) = 1 THEN t[Len(t)] ELSE g[Len(t)-1] \o t[Len(t)]
  <2>1. Len(t) \in 1..Len(t)
    BY <1>1
  <2>2. QED
    BY <1>2, <2>1 DEF Joins
<1>5. CASE Len(s) = 0
  <2>1. s = <<>>
    BY <1>5
  <2>2. FlattenSeq(s) = <<>>
    BY <2>1, FlattenEmpty
  <2>3. <<>> \o x = x
    OBVIOUS
  <2>4. FlattenSeq(t) = x
    BY <1>1, <1>3, <1>4, <1>5
  <2>5. QED
    BY <2>2, <2>3, <2>4 DEF t
<1>6. CASE Len(s) # 0
  <2>1. PICK f : Joins(f, s, Len(s))
    BY <1>1, JoinsExists
  <2>2. FlattenSeq(s) = f[Len(s)]
    BY <1>1, <1>6, <2>1, FlattenIs
  <2>3. \A i \in 1..Len(s) : f[i] = g[i]
    <3>1. \A i \in 1..Len(s) : s[i] = t[i]
      BY <1>1
    <3>2. Len(s) \in Nat /\ Len(t) \in Nat /\ Len(s) <= Len(t)
      BY <1>1, <1>a
    <3>3. QED
      <4>1. ASSUME NEW m, m = Len(t), NEW n, n = Len(s)
            PROVE  \A i \in 1..n : f[i] = g[i]
        <5>1. Joins(f, s, n) /\ Joins(g, t, m) /\ n \in Nat /\ m \in Nat /\ n <= m
              /\ \A i \in 1..n : s[i] = t[i]
          BY <1>2, <2>1, <3>1, <3>2, <4>1
        <5>2. QED
          BY ONLY <5>1, JoinsAgree
      <4>2. QED
        BY <4>1
  <2>4. f[Len(s)] = g[Len(s)]
    <3>1. Len(s) \in 1..Len(s)
      BY <1>1, <1>6
    <3>2. QED
      BY <2>3, <3>1
  <2>5. Len(t) - 1 = Len(s) /\ Len(t) # 1
    BY <1>1, <1>6
  <2>6. g[Len(t)] = g[Len(s)] \o x
    BY <1>1, <1>4, <2>5
  <2>7. QED
    BY <1>3, <2>2, <2>4, <2>6 DEF t
<1>7. QED
  BY <1>5, <1>6

\* Two sequences one behind the other, under a name of its own.
Behind(a, b) == a \o b

\* With the parts named: joining is associative.
LEMMA ConcatStep ==
  ASSUME NEW S, NEW a \in Seq(S), NEW b \in Seq(S), NEW c \in Seq(S),
         NEW p, NEW q, NEW r, p = Behind(a, b), q = Behind(b, c), r = Behind(p, c)
  PROVE  r = Behind(a, q)
BY ConcatAssociative DEF Behind

\* Two lists, when the second gets one part more.
LEMMA FlattenConcatStep ==
  ASSUME NEW S, NEW s \in Seq(Seq(S)), NEW v \in Seq(Seq(S)), NEW x \in Seq(S),
         FlattenSeq(s \o v) = FlattenSeq(s) \o FlattenSeq(v)
  PROVE  FlattenSeq(s \o Append(v, x)) = FlattenSeq(s) \o FlattenSeq(Append(v, x))
<1>1. s \o Append(v, x) = Append(s \o v, x)
  OBVIOUS
<1>2. s \o v \in Seq(Seq(S)) /\ FlattenSeq(v) \in Seq(S) /\ FlattenSeq(s) \in Seq(S)
  BY FlattenType, ConcatProperties
<1>3. PICK a, b, p, q, r : /\ a = FlattenSeq(s) /\ b = FlattenSeq(v)
                           /\ p = FlattenSeq(s \o v) /\ q = FlattenSeq(Append(v, x))
                           /\ r = FlattenSeq(s \o Append(v, x))
  OBVIOUS
<1>4. r = p \o x
  BY <1>1, <1>2, <1>3, FlattenAppend
<1>5. q = b \o x
  BY <1>3, FlattenAppend
<1>6. a \in Seq(S) /\ b \in Seq(S) /\ p = a \o b
  BY <1>2, <1>3
<1>7. p = Behind(a, b) /\ q = Behind(b, x) /\ r = Behind(p, x)
  BY <1>4, <1>5, <1>6 DEF Behind
<1>8. r = Behind(a, q)
  BY <1>6, <1>7, ConcatStep
<1>9. QED
  BY <1>3, <1>8 DEF Behind

\* Two lists.
LEMMA FlattenConcat ==
  ASSUME NEW S, NEW s \in Seq(Seq(S)), NEW t \in Seq(Seq(S))
  PROVE  FlattenSeq(s \o t) = FlattenSeq(s) \o FlattenSeq(t)
<1> DEFINE Splits(u) == FlattenSeq(s \o u) = FlattenSeq(s) \o FlattenSeq(u)
           T == {n \in Nat : \E u \in Seq(Seq(S)) : Len(u) = n /\ ~Splits(u)}
<1>0. FlattenSeq(s) \in Seq(S)
  BY FlattenType
<1>1. CASE T = {}
  <2>1. Len(t) \in Nat
    OBVIOUS
  <2> HIDE DEF Splits
  <2>2. Splits(t)
    BY <1>1, <2>1
  <2>3. QED
    BY <2>2 DEF Splits
<1>2. CASE T # {}
  <2>1. PICK k \in T : \A y \in T : k <= y
    <3>1. T \subseteq Nat
      OBVIOUS
    <3> HIDE DEF T
    <3>2. QED
      BY <1>2, <3>1, LeastNumber
  <2>2. PICK u \in Seq(Seq(S)) : Len(u) = k /\ ~Splits(u)
    OBVIOUS
  <2>3. CASE u = <<>>
    <3>1. s \o <<>> = s /\ FlattenSeq(s) \o <<>> = FlattenSeq(s)
      BY <1>0, ConcatEmptySeq
    <3>2. Splits(u)
      BY <2>3, <3>1, FlattenEmpty
    <3>3. QED
      BY <2>2, <3>2
  <2>4. CASE u # <<>>
    <3>1. PICK v \in Seq(Seq(S)), x \in Seq(S) : u = Append(v, x)
      BY <2>4, SequenceEmptyOrAppend
    <3>2. Len(v) \in Nat /\ ~(k <= Len(v))
      BY <2>2, <3>1
    <3>3. Splits(v)
      BY <2>1, <3>2
    <3>8. FlattenSeq(s \o u) = FlattenSeq(s) \o FlattenSeq(u)
      BY <3>1, <3>3, FlattenConcatStep
    <3>9. QED
      BY <2>2, <3>8
  <2>5. QED
    BY <2>3, <2>4
<1>3. QED
  BY <1>1, <1>2

\* A sequence without the first n elements, when they are of its first part.
LEMMA DropOfConcat ==
  ASSUME NEW S, NEW a \in Seq(S), NEW b \in Seq(S), NEW n \in 0..Len(a)
  PROVE  SubSeq(a \o b, n + 1, Len(a \o b)) = SubSeq(a, n + 1, Len(a)) \o b
<1> DEFINE l == SubSeq(a \o b, n + 1, Len(a \o b))
           r == SubSeq(a, n + 1, Len(a)) \o b
<1>1. /\ Len(a) \in Nat /\ Len(b) \in Nat /\ a \o b \in Seq(S)
      /\ Len(a \o b) = Len(a) + Len(b)
      /\ \A i \in 1..Len(a) + Len(b) :
           (a \o b)[i] = IF i <= Len(a) THEN a[i] ELSE b[i - Len(a)]
  BY ConcatProperties
<1>2. /\ l \in Seq(S) /\ Len(l) = (Len(a) + Len(b)) - n
      /\ \A i \in 1..(Len(a) + Len(b)) - n : l[i] = (a \o b)[n + i]
  <2>1. \A i \in n + 1..Len(a \o b) : (a \o b)[i] \in S
    BY <1>1
  <2>2. QED
    BY <1>1, <2>1, SubSeqProperties, SMTT(60)
<1>3. /\ SubSeq(a, n + 1, Len(a)) \in Seq(S) /\ Len(SubSeq(a, n + 1, Len(a))) = Len(a) - n
      /\ \A i \in 1..Len(a) - n : SubSeq(a, n + 1, Len(a))[i] = a[n + i]
  <2>1. \A i \in n + 1..Len(a) : a[i] \in S
    OBVIOUS
  <2>2. QED
    BY <1>1, <2>1, SubSeqProperties
<1>4. /\ r \in Seq(S) /\ Len(r) = (Len(a) - n) + Len(b)
      /\ \A i \in 1..(Len(a) - n) + Len(b) :
           r[i] = IF i <= Len(a) - n THEN a[n + i] ELSE b[i - (Len(a) - n)]
  <2>1. PICK c : c = SubSeq(a, n + 1, Len(a))
    OBVIOUS
  <2>2. /\ c \o b \in Seq(S) /\ Len(c \o b) = Len(c) + Len(b)
        /\ \A i \in 1..Len(c) + Len(b) :
             (c \o b)[i] = IF i <= Len(c) THEN c[i] ELSE b[i - Len(c)]
    BY <1>3, <2>1, ConcatProperties
  <2>3. ASSUME NEW i \in 1..(Len(a) - n) + Len(b), i <= Len(a) - n
        PROVE  i \in 1..Len(a) - n
    BY <1>1, <2>3
  <2>4. Len(c) = Len(a) - n /\ \A i \in 1..Len(a) - n : c[i] = a[n + i]
    BY <1>3, <2>1
  <2>5. r = c \o b
    BY <2>1
  <2> HIDE DEF r
  <2>6. QED
    BY <2>2, <2>3, <2>4, <2>5
<1> HIDE DEF l, r
<1>5. Len(l) = Len(r)
  BY <1>1, <1>2, <1>4
<1>6. ASSUME NEW i \in 1..Len(l) PROVE l[i] = r[i]
  <2>1. i \in 1..(Len(a) + Len(b)) - n /\ n + i \in 1..Len(a) + Len(b)
        /\ i \in 1..(Len(a) - n) + Len(b)
        /\ (n + i) - Len(a) = i - (Len(a) - n)
        /\ (n + i <= Len(a) <=> i <= Len(a) - n)
    BY <1>1, <1>2
  <2>2. l[i] = (a \o b)[n + i]
    BY <1>2, <2>1
  <2>3. (a \o b)[n + i] = IF n + i <= Len(a) THEN a[n + i] ELSE b[(n + i) - Len(a)]
    BY <1>1, <2>1
  <2>4. r[i] = IF i <= Len(a) - n THEN a[n + i] ELSE b[i - (Len(a) - n)]
    BY <1>4, <2>1
  <2>5. QED
    BY <2>1, <2>2, <2>3, <2>4
<1>7. l = r
  BY <1>2, <1>4, <1>5, <1>6, SeqEqual
<1>8. QED
  BY <1>7 DEF l, r

\* Of the second part only, when the first n elements are more than the first.
LEMMA DropInSecond ==
  ASSUME NEW S, NEW a \in Seq(S), NEW b \in Seq(S), NEW n \in Len(a)..Len(a) + Len(b)
  PROVE  SubSeq(a \o b, n + 1, Len(a \o b)) = SubSeq(b, n - Len(a) + 1, Len(b))
<1> DEFINE l == SubSeq(a \o b, n + 1, Len(a \o b))
           m == n - Len(a)
           r == SubSeq(b, m + 1, Len(b))
<1>1. /\ Len(a) \in Nat /\ Len(b) \in Nat /\ a \o b \in Seq(S)
      /\ Len(a \o b) = Len(a) + Len(b)
      /\ \A i \in 1..Len(a) + Len(b) :
           (a \o b)[i] = IF i <= Len(a) THEN a[i] ELSE b[i - Len(a)]
  BY ConcatProperties
<1>m. m \in 0..Len(b) /\ n = m + Len(a)
  BY <1>1
<1> HIDE DEF m
<1>2. /\ l \in Seq(S) /\ Len(l) = (Len(a) + Len(b)) - n
      /\ \A i \in 1..(Len(a) + Len(b)) - n : l[i] = (a \o b)[n + i]
  <2>1. \A i \in n + 1..Len(a \o b) : (a \o b)[i] \in S
    BY <1>1
  <2>2. QED
    BY <1>1, <2>1, SubSeqProperties
<1>3. /\ r \in Seq(S) /\ Len(r) = Len(b) - m
      /\ \A i \in 1..Len(b) - m : r[i] = b[m + i]
  <2>1. \A i \in m + 1..Len(b) : b[i] \in S
    BY <1>m
  <2>2. QED
    BY <1>1, <1>m, <2>1, SubSeqProperties
<1> HIDE DEF l, r
<1>5. Len(l) = Len(r)
  BY <1>1, <1>m, <1>2, <1>3
<1>6. ASSUME NEW i \in 1..Len(l) PROVE l[i] = r[i]
  <2>1. i \in 1..(Len(a) + Len(b)) - n /\ n + i \in 1..Len(a) + Len(b)
        /\ i \in 1..Len(b) - m /\ ~(n + i <= Len(a)) /\ (n + i) - Len(a) = m + i
    BY <1>1, <1>m, <1>2
  <2>2. l[i] = (a \o b)[n + i]
    BY <1>2, <2>1
  <2>3. (a \o b)[n + i] = b[m + i]
    BY <1>1, <2>1
  <2>4. QED
    BY <1>3, <2>1, <2>2, <2>3
<1>7. l = r
  BY <1>2, <1>3, <1>5, <1>6, SeqEqual
<1>8. QED
  BY <1>7 DEF l, r, m

\* The write ends in a message, or behind it.
LEMMA ReachedFacts ==
  ASSUME NEW S, NEW list \in Seq(Seq(S)), NEW n \in 0..Len(FlattenSeq(list))
  PROVE  LET k == Reached(list, n) IN
         /\ k \in 0..Len(list)
         /\ Len(FlattenSeq(SubSeq(list, 1, k))) >= n
         /\ \A j \in 0..k-1 : Len(FlattenSeq(SubSeq(list, 1, j))) < n
<1> DEFINE L(k) == Len(FlattenSeq(SubSeq(list, 1, k)))
           T == {k \in 0..Len(list) : L(k) >= n}
<1>0. Len(list) \in Nat /\ Len(FlattenSeq(list)) \in Nat
  BY FlattenType
<1>1. ASSUME NEW k \in 0..Len(list) PROVE L(k) \in Nat
  <2>1. \A i \in 1..k : list[i] \in Seq(S)
    BY <1>0
  <2>2. SubSeq(list, 1, k) \in Seq(Seq(S))
    BY <2>1, SubSeqProperties
  <2>3. FlattenSeq(SubSeq(list, 1, k)) \in Seq(S)
    BY <2>2, FlattenType
  <2>4. QED
    BY <2>3
<1>2. L(Len(list)) >= n
  <2>1. SubSeq(list, 1, Len(list)) = list
    BY SubSeqFull
  <2>2. L(Len(list)) = Len(FlattenSeq(list))
    BY <2>1, Zenon
  <2> HIDE DEF L
  <2>3. QED
    BY <1>0, <2>2
<1> HIDE DEF L
<1>3. PICK k \in T : \A y \in T : k <= y
  <2>1. T \subseteq Nat /\ Len(list) \in T
    BY <1>0, <1>2
  <2> HIDE DEF T
  <2>2. QED
    BY <2>1, LeastNumber
<1>4. \A j \in 0..k-1 : L(j) < n
  <2> SUFFICES ASSUME NEW j \in 0..k-1 PROVE L(j) < n
    OBVIOUS
  <2>1. j \in 0..Len(list) /\ ~(k <= j)
    BY <1>0
  <2>2. ~(L(j) >= n)
    BY <1>3, <2>1
  <2>3. QED
    BY <1>0, <1>1, <2>1, <2>2
<1>5. k \in 0..Len(list) /\ L(k) >= n
  OBVIOUS
<1> HIDE DEF T
<1>6. \E x \in 0..Len(list) : L(x) >= n /\ \A j \in 0..x-1 : L(j) < n
  BY <1>4, <1>5
<1>7. Reached(list, n) = CHOOSE x \in 0..Len(list) : L(x) >= n /\ \A j \in 0..x-1 : L(j) < n
  BY DEF Reached, L
<1>8. LET x == Reached(list, n) IN
        x \in 0..Len(list) /\ L(x) >= n /\ \A j \in 0..x-1 : L(j) < n
  BY <1>6, <1>7
<1>9. QED
  BY <1>8, Zenon DEF L

\* One message.
LEMMA FlattenOne ==
  ASSUME NEW S, NEW x \in Seq(S)
  PROVE  FlattenSeq(<<x>>) = x
<1>1. <<>> \in Seq(Seq(S)) /\ Append(<<>>, x) = <<x>>
  OBVIOUS
<1>2. FlattenSeq(Append(<<>>, x)) = FlattenSeq(<<>>) \o x
  BY <1>1, FlattenAppend
<1>3. <<>> \o x = x
  OBVIOUS
<1>4. QED
  BY <1>1, <1>2, <1>3, FlattenEmpty

\* adjustSendBuffer takes n bytes off the front of what is pending.
LEMMA AdjustDrops ==
  ASSUME NEW S, NEW list \in Seq(Seq(S)), NEW n \in 0..Len(FlattenSeq(list))
  PROVE  /\ adjustSendBuffer(list, n) \in Seq(Seq(S))
         /\ FlattenSeq(adjustSendBuffer(list, n))
              = SubSeq(FlattenSeq(list), n + 1, Len(FlattenSeq(list)))
<1> DEFINE k    == Reached(list, n)
           pre  == SubSeq(list, 1, k)
           rest == SubSeq(list, k + 1, Len(list))
           left == Len(FlattenSeq(pre)) - n
           cut  == SubSeq(list[k], Len(list[k]) - left + 1, Len(list[k]))
           adj  == adjustSendBuffer(list, n)
<1>0. /\ Len(list) \in Nat /\ k \in 0..Len(list) /\ Len(FlattenSeq(pre)) >= n
      /\ \A j \in 0..k-1 : Len(FlattenSeq(SubSeq(list, 1, j))) < n
  BY ReachedFacts, FlattenType
<1>1. adj = IF left = 0 THEN rest ELSE <<cut>> \o rest
  BY DEF adjustSendBuffer
<1> HIDE DEF k, adj
<1>2. pre \in Seq(Seq(S)) /\ rest \in Seq(Seq(S)) /\ pre \o rest = list
  <2>1. \A i \in 1..Len(list) : list[i] \in Seq(S)
    OBVIOUS
  <2>2. pre \in Seq(Seq(S)) /\ rest \in Seq(Seq(S))
    BY <1>0, <2>1, SubSeqProperties
  <2>3. pre \o rest = SubSeq(list, 1, Len(list))
    <3>1. 1 \in 1..Len(list) + 1 /\ k \in (1 - 1)..Len(list) /\ Len(list) \in k..Len(list)
      BY <1>0
    <3>2. QED
      BY <3>1, ConcatAdjacentSubSeq
  <2>4. QED
    BY <2>2, <2>3, SubSeqFull
<1>3. FlattenSeq(list) = FlattenSeq(pre) \o FlattenSeq(rest)
  BY <1>2, FlattenConcat
<1>4. FlattenSeq(pre) \in Seq(S) /\ FlattenSeq(rest) \in Seq(S)
  BY <1>2, FlattenType
<1> HIDE DEF rest
<1>5. SubSeq(FlattenSeq(list), n + 1, Len(FlattenSeq(list)))
        = SubSeq(FlattenSeq(pre), n + 1, Len(FlattenSeq(pre))) \o FlattenSeq(rest)
  <2> HIDE DEF pre
  <2>1. n \in 0..Len(FlattenSeq(pre))
    BY <1>0, <1>4
  <2>2. PICK a, b : a = FlattenSeq(pre) /\ b = FlattenSeq(rest)
    OBVIOUS
  <2>3. SubSeq(a \o b, n + 1, Len(a \o b)) = SubSeq(a, n + 1, Len(a)) \o b
    BY <1>4, <2>1, <2>2, DropOfConcat
  <2>4. QED
    BY <1>3, <2>2, <2>3
<1>6. CASE left = 0
  <2> HIDE DEF pre
  <2>1. Len(FlattenSeq(pre)) = n
    BY <1>0, <1>4, <1>6
  <2>2. SubSeq(FlattenSeq(pre), n + 1, Len(FlattenSeq(pre))) = <<>>
    BY <2>1, SubSeqEmpty
  <2>3. <<>> \o FlattenSeq(rest) = FlattenSeq(rest)
    BY <1>4, ConcatEmptySeq
  <2>4. adj = rest
    BY <1>1, <1>6
  <2>5. QED
    BY <1>2, <1>5, <2>2, <2>3, <2>4 DEF adj
<1>7. CASE left # 0
  <2> DEFINE front == SubSeq(list, 1, k - 1)
             y == list[k]
  <2>1. k # 0
    <3>1. ASSUME k = 0 PROVE FALSE
      <4>1. pre = <<>>
        BY <3>1, SubSeqEmpty
      <4>2. FlattenSeq(pre) = <<>>
        BY <4>1, FlattenEmpty
      <4>3. QED
        BY <1>0, <1>7, <4>2
    <3>2. QED
      BY <3>1
  <2>2. k \in 1..Len(list) /\ k - 1 \in 0..k-1 /\ y \in Seq(S)
    BY <1>0, <2>1
  <2>3. front \in Seq(Seq(S))
    <3>1. \A i \in 1..k-1 : list[i] \in Seq(S)
      BY <1>0
    <3>2. QED
      BY <1>0, <3>1, SubSeqProperties
  <2>4. pre = Append(front, y)
    <3>1. pre = front \o <<y>>
      BY <2>2, SubSeqRecursiveSecond
    <3>2. QED
      BY <2>2, <2>3, <3>1, AppendIsConcat
  <2>5. Len(FlattenSeq(front)) < n
    BY <1>0, <2>2
  <2>6. FlattenSeq(front) \in Seq(S)
    BY <2>3, FlattenType
  <2> HIDE DEF front, y
  <2>7. FlattenSeq(pre) = FlattenSeq(front) \o y
    BY <2>2, <2>3, <2>4, FlattenAppend
  <2> HIDE DEF pre
  <2>8. PICK a : a = FlattenSeq(front)
    OBVIOUS
  <2>9. /\ a \in Seq(S) /\ Len(a) \in Nat /\ Len(y) \in Nat /\ Len(a) < n
        /\ Len(a \o y) = Len(a) + Len(y) /\ left = (Len(a) + Len(y)) - n
        /\ n <= Len(a) + Len(y)
    BY <1>0, <1>4, <2>2, <2>5, <2>6, <2>7, <2>8
  <2>10. SubSeq(a \o y, n + 1, Len(a \o y)) = SubSeq(y, n - Len(a) + 1, Len(y))
    BY <2>2, <2>9, DropInSecond
  <2>11. n - Len(a) = Len(y) - left
    <3> HIDE DEF left
    <3>1. QED
      BY <2>9
  <2>12. cut = SubSeq(FlattenSeq(pre), n + 1, Len(FlattenSeq(pre)))
    BY <2>7, <2>8, <2>10, <2>11 DEF y
  <2>13. cut \in Seq(S)
    <3>1. \A i \in n + 1..Len(FlattenSeq(pre)) : FlattenSeq(pre)[i] \in S
      BY <1>0, <1>4
    <3>2. QED
      <4>1. n + 1 \in Int /\ Len(FlattenSeq(pre)) \in Int
        BY <1>4
      <4>2. SubSeq(FlattenSeq(pre), n + 1, Len(FlattenSeq(pre))) \in Seq(S)
        BY <3>1, <4>1, SubSeqProperties
      <4>3. QED
        BY <2>12, <4>2
  <2> HIDE DEF cut, left
  <2>14. <<cut>> \in Seq(Seq(S)) /\ FlattenSeq(<<cut>>) = cut
    BY <2>13, FlattenOne
  <2>15. adj = <<cut>> \o rest
    BY <1>1, <1>7
  <2>16. adj \in Seq(Seq(S)) /\ FlattenSeq(adj) = cut \o FlattenSeq(rest)
    BY <1>2, <2>14, <2>15, FlattenConcat, ConcatProperties
  <2>17. QED
    BY <1>5, <2>12, <2>16 DEF adj
<1>8. QED
  BY <1>6, <1>7

-----------------------------------------------------------------------------
(* Sending: the inductive step and the theorem.                            *)

\* The queued messages are sequences of numbers.
LEMMA QueuedType ==
  ASSUME SendTypes
  PROVE  Queued \in Seq(Seq(Nat)) /\ FlattenSeq(Queued) \in Seq(Nat)
<1>1. \A id \in 1..Len(pushed) : Bytes(id, pushed[id]) \in Seq(Nat)
  BY DEF SendTypes, Bytes
<1>2. Len(pushed) \in Nat
  BY DEF SendTypes
<1>3. Queued \in Seq(Seq(Nat))
  BY <1>1, <1>2 DEF Queued
<1>4. QED
  BY <1>3, FlattenType

\* A message is queued behind the others.
LEMMA PushKeeps ==
  ASSUME SendInv, NEW t \in Threads, NEW size \in MsgSizes, Push(t, size)
  PROVE  SendInv'
<1> DEFINE m == Bytes(Len(pushed) + 1, size)
           F == FlattenSeq(pending)
<1>1. /\ pushed' = Append(pushed, size) /\ pending' = Append(pending, m)
      /\ bSending' = bSending /\ inFlight' = inFlight /\ wire' = wire
  BY DEF Push
<1>2. /\ pushed \in Seq(Nat) /\ pending \in Seq(Seq(Nat)) /\ wire \in Seq(Nat)
      /\ size \in Nat /\ Len(pushed) \in Nat
  BY TcpAssumption DEF SendInv, SendTypes
<1>3. m \in Seq(Nat)
  BY <1>2 DEF Bytes
<1>4. Queued' = Append(Queued, m)
  <2>1. Len(pushed') = Len(pushed) + 1 /\ pushed'[Len(pushed) + 1] = size
        /\ \A id \in 1..Len(pushed) : pushed'[id] = pushed[id]
    BY <1>1, <1>2
  <2>2. Queued' = [id \in 1..Len(pushed) + 1 |-> Bytes(id, pushed'[id])]
    BY <2>1 DEF Queued
  <2>3. Queued \in Seq(Seq(Nat)) /\ Len(Queued) = Len(pushed)
    BY <1>2, QueuedType DEF Queued, SendInv
  <2>4. Append(Queued, m) = [id \in 1..Len(pushed) + 1 |->
                               IF id <= Len(pushed) THEN Bytes(id, pushed[id]) ELSE m]
    BY <1>2, <1>3, <2>3 DEF Queued
  <2>5. \A id \in 1..Len(pushed) + 1 :
          Bytes(id, pushed'[id]) = IF id <= Len(pushed) THEN Bytes(id, pushed[id]) ELSE m
    BY <1>2, <2>1
  <2> HIDE DEF m
  <2>6. QED
    BY <2>2, <2>4, <2>5
<1>5. Queued \in Seq(Seq(Nat)) /\ F \in Seq(Nat)
  BY <1>2, QueuedType, FlattenType DEF SendInv
<1> HIDE DEF m
<1>6. FlattenSeq(pending') = F \o m /\ FlattenSeq(Queued') = FlattenSeq(Queued) \o m
  BY <1>1, <1>2, <1>3, <1>4, <1>5, FlattenAppend
<1>7. SendTypes'
  BY <1>1, <1>2, <1>3 DEF SendTypes
<1> HIDE DEF F
<1>8. NothingLost'
  <2>1. PICK p, q, r : p = FlattenSeq(Queued) /\ q = F \o m /\ r = FlattenSeq(Queued')
    OBVIOUS
  <2>2. p = Behind(wire, F) /\ q = Behind(F, m) /\ r = Behind(p, m)
    BY <1>6, <2>1 DEF SendInv, NothingLost, F, Behind
  <2>3. r = Behind(wire, q)
    BY <1>2, <1>3, <1>5, <2>2, ConcatStep
  <2>4. QED
    BY <1>1, <1>6, <2>1, <2>3 DEF NothingLost, Behind
<1>9. OneWrite'
  <2>1. CASE ~bSending
    BY <1>1, <2>1 DEF SendInv, OneWrite
  <2>2. CASE bSending
    <3>1. PICK n \in 0..Len(F) : inFlight = <<SubSeq(F, 1, n)>>
      BY <2>2 DEF SendInv, OneWrite, F
    <3>2. n \in 0..Len(F \o m) /\ SubSeq(F \o m, 1, n) = SubSeq(F, 1, n)
      BY <1>3, <1>5
    <3>3. QED
      BY <1>1, <1>6, <2>2, <3>1, <3>2 DEF OneWrite
  <2>3. QED
    BY <2>1, <2>2
<1>10. QED
  BY <1>7, <1>8, <1>9 DEF SendInv

\* A write is started with all that is pending.
LEMMA TrySendKeeps ==
  ASSUME SendInv, NEW t \in Threads, trySend(t)
  PROVE  SendInv'
<1> DEFINE F == FlattenSeq(pending)
<1>1. pushed' = pushed /\ pending' = pending /\ wire' = wire
  BY DEF trySend
<1>2. SendTypes' /\ NothingLost'
  BY <1>1 DEF SendInv, SendTypes, NothingLost, Queued
<1>3. CASE bSending \/ pending = <<>>
  BY <1>1, <1>2, <1>3 DEF SendInv, OneWrite, trySend
<1>4. CASE ~(bSending \/ pending = <<>>)
  <2>1. inFlight' = Append(inFlight, F) /\ bSending' = TRUE /\ inFlight = <<>>
    BY <1>4 DEF SendInv, OneWrite, trySend
  <2>2. F \in Seq(Nat)
    BY FlattenType DEF SendInv, SendTypes
  <2> HIDE DEF F
  <2>3. Len(F) \in 0..Len(F) /\ SubSeq(F, 1, Len(F)) = F /\ inFlight' = <<F>>
    BY <2>1, <2>2
  <2>4. OneWrite'
    BY <1>1, <2>1, <2>3 DEF OneWrite, F
  <2>5. QED
    BY <1>2, <2>4 DEF SendInv
<1>5. QED
  BY <1>3, <1>4

\* A write ends: what it has written leaves the front of what is pending.
LEMMA SendDoneKeeps ==
  ASSUME SendInv, SendDone
  PROVE  SendInv'
<1> DEFINE F == FlattenSeq(pending)
<1>1. PICK n \in 0..Len(Head(inFlight)) : onSendCompleted(n)
  BY DEF SendDone
<1>2. inFlight # <<>> /\ inFlight' = Tail(inFlight) /\ bSending' = FALSE /\ pushed' = pushed
  BY <1>1 DEF onSendCompleted
<1>3. PICK m \in 0..Len(F) : inFlight = <<SubSeq(F, 1, m)>>
  BY <1>2 DEF SendInv, OneWrite
<1>4. F \in Seq(Nat) /\ pending \in Seq(Seq(Nat)) /\ wire \in Seq(Nat)
  BY FlattenType DEF SendInv, SendTypes
<1> HIDE DEF F
<1>5. OneWrite'
  BY <1>2, <1>3 DEF OneWrite
<1>6. CASE sock = "closed"
  BY <1>1, <1>2, <1>5, <1>6 DEF onSendCompleted, SendInv, SendTypes, NothingLost, Queued
<1>7. CASE sock # "closed"
  <2> DEFINE h == SubSeq(F, 1, m)
  <2>1. h \in Seq(Nat) /\ Len(h) = m /\ Head(inFlight) = h
    BY <1>3, <1>4
  <2>2. n \in 0..Len(F) /\ n \in 0..m
    BY <1>1, <1>4, <2>1
  <2>3. SubSeq(h, 1, n) = SubSeq(F, 1, n)
    BY <1>4, <2>2
  <2> HIDE DEF h
  <2>4. wire' = wire \o SubSeq(F, 1, n) /\ pending' = adjustSendBuffer(pending, n)
    BY <1>1, <1>7, <2>1, <2>3 DEF onSendCompleted
  <2>5. /\ pending' \in Seq(Seq(Nat))
        /\ FlattenSeq(pending') = SubSeq(F, n + 1, Len(F))
    BY <1>4, <2>2, <2>4, AdjustDrops DEF F
  <2>6. PICK a, b : a = SubSeq(F, 1, n) /\ b = SubSeq(F, n + 1, Len(F))
    OBVIOUS
  <2>7. a \in Seq(Nat) /\ b \in Seq(Nat) /\ a \o b = F
    <3>1. \A i \in 1..Len(F) : F[i] \in Nat
      BY <1>4
    <3>2. 1 \in 1..Len(F) + 1 /\ n \in (1 - 1)..Len(F) /\ Len(F) \in n..Len(F)
          /\ Len(F) \in Nat
      BY <1>4, <2>2
    <3>3. a \in Seq(Nat) /\ b \in Seq(Nat)
      BY <2>2, <2>6, <3>1, <3>2, SubSeqProperties
    <3>4. a \o b = SubSeq(F, 1, Len(F))
      BY <1>4, <2>6, <3>2, ConcatAdjacentSubSeq
    <3>5. QED
      BY <1>4, <3>3, <3>4, SubSeqFull
  <2>8. SendTypes'
    <3>1. wire \o a \in Seq(Nat)
      BY <1>4, <2>7, ConcatProperties
    <3>2. QED
      BY <1>2, <2>4, <2>5, <2>6, <3>1 DEF SendInv, SendTypes
  <2>9. (wire \o a) \o b = wire \o F
    <3>1. PICK p, r : p = Behind(wire, a) /\ r = Behind(p, b)
      OBVIOUS
    <3>2. F = Behind(a, b)
      BY <2>7 DEF Behind
    <3>3. r = Behind(wire, F)
      BY <1>4, <2>7, <3>1, <3>2, ConcatStep
    <3>4. QED
      BY <3>1, <3>3 DEF Behind
  <2>10. NothingLost'
    BY <1>2, <2>4, <2>5, <2>6, <2>9 DEF SendInv, NothingLost, Queued, F
  <2>11. QED
    BY <1>5, <2>8, <2>10 DEF SendInv
<1>8. QED
  BY <1>6, <1>7

\* SendInv is an invariant of the specification.
LEMMA SendInductive == Spec => []SendInv
<1>1. Init => SendInv
  <2> SUFFICES ASSUME Init PROVE SendInv
    OBVIOUS
  <2>1. pushed = <<>> /\ pending = <<>> /\ wire = <<>> /\ inFlight = <<>> /\ bSending = FALSE
    BY DEF Init
  <2>2. Queued = <<>>
    BY <2>1 DEF Queued
  <2>3. QED
    BY <2>1, <2>2, FlattenEmpty DEF SendInv, SendTypes, NothingLost, OneWrite
<1>2. SendInv /\ [Next]_vars => SendInv'
  <2> SUFFICES ASSUME SendInv, [Next]_vars PROVE SendInv'
    OBVIOUS
  <2>1. CASE UNCHANGED sendVars
    BY <2>1 DEF sendVars, SendInv, SendTypes, NothingLost, OneWrite, Queued
  <2>2. CASE \/ AttemptStep \/ MakeSession \/ PeerCloses \/ startRecv \/ RecvDone
             \/ UNCHANGED vars
    BY <2>1, <2>2 DEF AttemptStep, MakeSession, PeerCloses, startRecv, RecvDone,
       onRecvCompleted, vars
  <2>3. CASE SendDone
    BY <2>3, SendDoneKeeps
  <2>4. CASE \E t \in Threads, size \in MsgSizes : Push(t, size)
    BY <2>4, PushKeeps
  <2>5. CASE \E t \in Threads : trySend(t)
    BY <2>5, TrySendKeeps
  <2>6. QED
    BY <2>2, <2>3, <2>4, <2>5 DEF Next
<1>3. QED
  BY <1>1, <1>2, PTL DEF Spec

\* The bytes on the wire are those of the messages in the order in which send()
\* queued them, whoever queued them and wherever a write ended: what
\* adjustSendBuffer leaves of a half-written message is what goes out next, and
\* no two writes are ever under way (asiosession.cpp, trySend and
\* onSendCompleted).
THEOREM SentInOrder == Spec => []WrittenInOrder
<1>1. SendInv => WrittenInOrder
  <2> SUFFICES ASSUME SendInv PROVE WrittenInOrder
    OBVIOUS
  <2>1. wire \in Seq(Nat) /\ FlattenSeq(pending) \in Seq(Nat)
    BY FlattenType DEF SendInv, SendTypes
  <2>2. PICK p, q : p = FlattenSeq(pending) /\ q = FlattenSeq(Queued)
    OBVIOUS
  <2>3. q = wire \o p
    BY <2>2 DEF SendInv, NothingLost
  <2>4. IsPrefix(wire, q)
    BY <2>1, <2>2, <2>3 DEF IsPrefix
  <2>5. QED
    BY <2>2, <2>4 DEF WrittenInOrder, Queued
<1>2. QED
  BY <1>1, SendInductive, PTL
=============================================================================
