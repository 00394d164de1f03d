--------------------------- MODULE SendPathProofs ----------------------------
(* The packets QuicWritePkt coalesces, for every MSS, id length, frame size   *)
(* and number of buffers in tx_queue: a datagram is never larger than the MSS *)
(* (DatagramsFit), one with an Initial packet is padded to 1200 bytes         *)
(* (InitialsPadded), and a packet without credit takes no CRYPTO frame with   *)
(* it before early data was written (CryptoSurvives).                         *)
EXTENDS SendPath, NumberProofs, SequenceTheorems

\* What stands in the transmit queue.
Buffers == [type : Types, len : Nat, blocked : BOOLEAN, crypto : BOOLEAN, size : Int]

\* The length of the i-th packet of a queue, unpadded.
LenAt(q, i) == PacketLen(q[i].type, dcid_len, q[i].len)

\* The lengths are numbers.
LEMMA LenTypes ==
    ASSUME NEW type \in Types, NEW d \in Nat, NEW n \in Nat
    PROVE  /\ PacketLen(type, d, n) \in Nat
           /\ QBufPktComputeTotalLen(type, d, n) \in Nat
           /\ PacketLen(type, d, n) <= QBufPktComputeTotalLen(type, d, n)
           /\ type \in Long => PacketLen(type, d, n) = QBufPktComputeTotalLen(type, d, n)
<1>1. \A k \in Nat : VarLen(k) \in 1 .. 8
  BY DEF VarLen
<1>2. QuicLPacketGetTotalLen(type, d, n) \in Nat
  BY <1>1, SendPathAssumption DEF QuicLPacketGetTotalLen, QuicLPacketGetHeaderLen, QuicCidWriteLen,
     TagLen
<1>3. QuicSPacketGetTotalLen(d, n) \in Nat /\ QuicSPacketGetTotalLen(d, n) >= 1
  BY SendPathAssumption DEF QuicSPacketGetTotalLen, QuicCidWriteLen, TagLen
<1> QED BY <1>2, <1>3 DEF PacketLen, QBufPktComputeTotalLen

\* A sum can be taken over the packets of a queue, however long: the function
\* that adds one packet after the other exists.
LEMMA SumExists ==
    ASSUME NEW n \in Nat, NEW P \in [Nat -> Nat]
    PROVE  \E w \in [1 .. n + 1 -> Nat] :
             w = [j \in 1 .. n + 1 |-> IF j = 1 THEN 0 ELSE w[j - 1] + P[j - 1]]
<1> DEFINE f == [k \in 1 .. n |-> P[k]]
<1>1. PICK s : IsSum(s, f, n)
  <2>1. f \in [1 .. n -> Nat]
    OBVIOUS
  <2> HIDE DEF f
  <2> QED BY <2>1, IsSumExists
<1> DEFINE w == [j \in 1 .. n + 1 |-> s[j - 1]]
<1>2. s \in [0 .. n -> Nat] /\ s[0] = 0 /\ \A k \in 1 .. n : s[k] = s[k - 1] + P[k]
  BY <1>1 DEF IsSum
<1>3. w \in [1 .. n + 1 -> Nat]
  <2>1. \A j \in 1 .. n + 1 : j - 1 \in 0 .. n
    OBVIOUS
  <2> QED BY <1>2, <2>1
<1>4. ASSUME NEW j \in 1 .. n + 1
      PROVE  w[j] = IF j = 1 THEN 0 ELSE w[j - 1] + P[j - 1]
  <2>1. CASE j = 1
    BY <1>2, <2>1
  <2>2. CASE j # 1
    <3>1. j - 1 \in 1 .. n /\ j - 1 \in 1 .. n + 1
      BY <2>2
    <3> QED BY <1>2, <2>2, <3>1
  <2> QED BY <2>1, <2>2
<1>5. w = [j \in 1 .. n + 1 |-> IF j = 1 THEN 0 ELSE w[j - 1] + P[j - 1]]
  <2>1. w = [j \in 1 .. n + 1 |-> w[j]]
    OBVIOUS
  <2> HIDE DEF w
  <2> QED BY <1>4, <2>1
<1> HIDE DEF w
<1> QED BY <1>3, <1>5

\* The bytes before a packet are the bytes before its predecessor and the
\* predecessor.
LEMMA WrittenStep ==
    ASSUME NEW q \in Seq(Buffers), dcid_len \in Nat
    PROVE  /\ Written(q, 1) = 0
           /\ \A i \in 1 .. Len(q) + 1 : Written(q, i) \in Nat
           /\ \A i \in 1 .. Len(q) : Written(q, i + 1) = Written(q, i) + LenAt(q, i)
<1> DEFINE n == Len(q)
           P == [i \in Nat |-> IF i \in 1 .. n THEN LenAt(q, i) ELSE 0]
           w == CHOOSE f : f = [j \in 1 .. n + 1 |->
                    IF j = 1 THEN 0 ELSE f[j - 1] + PacketLen(q[j - 1].type, dcid_len, q[j - 1].len)]
<1>1. \A i \in 1 .. n + 1 : Written(q, i) = w[i]
  BY DEF Written
<1>2. n \in Nat
  OBVIOUS
<1>3. P \in [Nat -> Nat]
  <2>1. ASSUME NEW i \in 1 .. n PROVE LenAt(q, i) \in Nat
    <3>1. q[i] \in Buffers
      BY ElementOfSeq
    <3> QED BY <3>1, LenTypes DEF LenAt, Buffers
  <2> QED BY <2>1
<1> HIDE DEF n
<1>4. PICK u \in [1 .. n + 1 -> Nat] :
        u = [j \in 1 .. n + 1 |-> IF j = 1 THEN 0 ELSE u[j - 1] + P[j - 1]]
  <2> HIDE DEF P
  <2> QED BY <1>2, <1>3, SumExists
<1>5. u = [j \in 1 .. n + 1 |->
             IF j = 1 THEN 0 ELSE u[j - 1] + PacketLen(q[j - 1].type, dcid_len, q[j - 1].len)]
  <2>1. \A j \in 1 .. n + 1 : j # 1 =>
          j - 1 \in Nat /\ j - 1 \in 1 .. n
    BY <1>2
  <2>2. \A j \in 1 .. n + 1 : j # 1 => P[j - 1] = PacketLen(q[j - 1].type, dcid_len, q[j - 1].len)
    BY <2>1 DEF LenAt
  <2> HIDE DEF P
  <2> QED BY <1>4, <2>2
<1>6. w = [j \in 1 .. n + 1 |->
             IF j = 1 THEN 0 ELSE w[j - 1] + PacketLen(q[j - 1].type, dcid_len, q[j - 1].len)]
  BY <1>5
<1> HIDE DEF w
<1>7. w[1] = 0 /\ \A i \in 1 .. n : w[i + 1] = w[i] + LenAt(q, i)
  <2>1. 1 \in 1 .. n + 1
    BY <1>2
  <2>2. ASSUME NEW i \in 1 .. n PROVE w[i + 1] = w[i] + LenAt(q, i)
    <3>1. i + 1 \in 1 .. n + 1 /\ i + 1 # 1 /\ (i + 1) - 1 = i
      BY <1>2
    <3> QED BY <1>6, <3>1 DEF LenAt
  <2> QED BY <1>6, <2>1, <2>2
<1>8. \A i \in 1 .. n + 1 : w[i] \in Nat
  <2> DEFINE S == {i \in 1 .. n + 1 : w[i] \notin Nat}
  <2> SUFFICES ASSUME S # {} PROVE FALSE
    OBVIOUS
  <2>1. PICK i \in S : \A k \in S : i <= k
    <3>1. S \subseteq Nat
      BY <1>2
    <3> HIDE DEF S
    <3> QED BY <3>1, Least
  <2>2. i # 1
    BY <1>7
  <2>3. i - 1 \in 1 .. n /\ i - 1 \notin S /\ (i - 1) + 1 = i
    BY <1>2, <2>1, <2>2
  <2>4. w[i - 1] \in Nat /\ LenAt(q, i - 1) \in Nat
    <3>1. w[i - 1] \in Nat
      BY <1>2, <2>3
    <3>2. P[i - 1] \in Nat /\ P[i - 1] = LenAt(q, i - 1)
      BY <1>2, <1>3, <2>3
    <3> QED BY <3>1, <3>2
  <2>5. w[i] = w[i - 1] + LenAt(q, i - 1)
    BY <1>7, <2>3
  <2> QED BY <2>1, <2>4, <2>5
<1>9. \A i \in 1 .. n : i \in 1 .. n + 1 /\ i + 1 \in 1 .. n + 1
  BY <1>2
<1>10. 1 \in 1 .. n + 1
  BY <1>2
<1> QED BY <1>1, <1>7, <1>8, <1>9, <1>10 DEF n

\* Every datagram has a last packet, and none before it ends one.
LEMMA CountIsLeast ==
    ASSUME NEW q \in Seq(Buffers), q # <<>>
    PROVE  /\ Count(q) \in 1 .. Len(q)
           /\ End(q, Count(q)) \/ q[Count(q)].type = "1RTT"
           /\ \A j \in 1 .. (Count(q) - 1) : ~End(q, j)
<1> DEFINE S == {k \in 1 .. Len(q) : End(q, k) \/ q[k].type = "1RTT"}
<1>1. Len(q) \in Nat /\ Len(q) >= 1
  BY EmptySeq, LenProperties
<1>2. Len(q) \in S
  BY <1>1 DEF End
<1>3. PICK k \in S : \A j \in S : k <= j
  <2>1. S \subseteq Nat
    BY <1>1
  <2> HIDE DEF S
  <2> QED BY <1>2, <2>1, Least
<1>4. \A j \in 1 .. (k - 1) : j \in 1 .. Len(q) /\ ~(k <= j)
  BY <1>1, <1>3
<1>5. k \in 1 .. Len(q) /\ (End(q, k) \/ q[k].type = "1RTT")
  BY <1>3
<1>6. \A j \in 1 .. (k - 1) : ~End(q, j) /\ q[j].type # "1RTT"
  BY <1>3, <1>4
<1> HIDE DEF S
<1> QED BY <1>5, <1>6 DEF Count

-----------------------------------------------------------------------------
(* Lengths.                                                                   *)

\* The token of an Initial packet leaves room for a packet.
TokenSmall == TokenLen <= 1000

\* The variable-length encoding of a larger number is not shorter, and the sizes
\* around the smallest datagram are encoded in two bytes.
LEMMA VarLenGrows ==
    /\ \A m, n \in Nat : m <= n => VarLen(m) <= VarLen(n)
    /\ \A n \in Nat : VarLen(n) \in 1 .. 8
    /\ \A n \in Nat : n < 16384 => VarLen(n) <= 2
BY DEF VarLen

\* What the header of a long packet takes for ids of either length.
LEMMA HeaderLen ==
    ASSUME NEW type \in Types, NEW d \in Nat, NEW e \in Nat
    PROVE  /\ QuicLPacketGetHeaderLen(type, d) \in Nat
           /\ QuicLPacketGetHeaderLen(type, d) - d = QuicLPacketGetHeaderLen(type, e) - e
           /\ TokenSmall => QuicLPacketGetHeaderLen(type, d) <= d + 1035
<1>1. VarLen(TokenLen) \in 1 .. 8 /\ (TokenSmall => VarLen(TokenLen) <= 2)
  BY VarLenGrows, SendPathAssumption DEF TokenSmall
<1> QED BY <1>1, SendPathAssumption DEF QuicLPacketGetHeaderLen, QuicCidWriteLen, TokenSmall

\* A buffer that is made for the id in use takes only what makes a packet of mss
\* bytes.
LEMMA FullFits ==
    ASSUME NEW type \in Types, NEW d \in Nat, NEW n \in Nat,
           n <= QuicFrameGetBuffLen(type, d)
    PROVE  QBufPktComputeTotalLen(type, d, n) <= Mss
<1>1. CASE type \in Long
  <2> DEFINE h == QuicLPacketGetHeaderLen(type, d)
             x == TagLen + PnLen
  <2>1. h \in Nat /\ x \in Nat /\ Mss \in Nat
    BY HeaderLen, SendPathAssumption DEF TagLen
  <2>2. /\ QBufPktComputeTotalLen(type, d, n) = h + (n + x) + VarLen(n + x)
        /\ QBufPktComputeTotalLen(type, d, Mss) = h + (Mss + x) + VarLen(Mss + x)
    BY <1>1, SendPathAssumption DEF QBufPktComputeTotalLen, QuicLPacketGetTotalLen, TagLen
  <2>3. VarLen(n + x) \in Nat /\ VarLen(Mss + x) \in Nat
    BY <2>1, VarLenGrows
  <2> HIDE DEF h, x
  <2>4. n <= Mss - (h + x + VarLen(Mss + x))
    BY <2>1, <2>2, <2>3 DEF QuicFrameGetBuffLen
  <2>5. VarLen(n + x) <= VarLen(Mss + x)
    BY <2>1, <2>3, <2>4, VarLenGrows
  <2> QED BY <2>1, <2>2, <2>3, <2>4, <2>5
<1>2. CASE type \notin Long
  BY <1>2, SendPathAssumption DEF QBufPktComputeTotalLen, QuicSPacketGetTotalLen, TagLen,
     QuicCidWriteLen, QuicFrameGetBuffLen
<1> QED BY <1>1, <1>2

\* A short message fits whatever the id turns out to be.
LEMMA SmallFits ==
    ASSUME TokenSmall, NEW type \in Types, NEW d \in 0 .. 20, NEW n \in 1 .. 100
    PROVE  QBufPktComputeTotalLen(type, d, n) <= Mss
<1>1. CASE type \in Long
  <2> DEFINE h == QuicLPacketGetHeaderLen(type, d)
             len == n + TagLen + PnLen
  <2>1. h \in Nat /\ h <= d + 1035
    BY HeaderLen
  <2>2. len \in 0 .. 120
    BY SendPathAssumption DEF TagLen
  <2>3. VarLen(len) \in 1 .. 2
    BY <2>2, VarLenGrows
  <2>4. QBufPktComputeTotalLen(type, d, n) = h + len + VarLen(len)
    BY <1>1 DEF QBufPktComputeTotalLen, QuicLPacketGetTotalLen
  <2> HIDE DEF h, len
  <2> QED BY <2>1, <2>2, <2>3, <2>4, SendPathAssumption
<1>2. CASE type \notin Long
  BY <1>2, SendPathAssumption DEF QBufPktComputeTotalLen, QuicSPacketGetTotalLen, TagLen,
     QuicCidWriteLen
<1> QED BY <1>1, <1>2

\* The padding of a long packet that ends a datagram fits into a buffer that was
\* made for an id of e bytes, and the padded packet is at least 1200 bytes with
\* what is before it, and at most one more.
LEMMA PaddingFits ==
    ASSUME NEW type \in Long, NEW d \in 0 .. 20, NEW e \in 0 .. 20, e <= d + 8,
           NEW n \in Nat, NEW before \in Nat, NEW pad \in Nat,
           pad = DatagramMin - (QBufPktComputeTotalLen(type, d, n) + before)
    PROVE  /\ n + pad <= QuicFrameGetBuffLen(type, e)
           /\ before + PacketLen(type, d, n + pad) >= DatagramMin
           /\ before + PacketLen(type, d, n + pad) <= Mss
<1> DEFINE h == QuicLPacketGetHeaderLen(type, d)
           x == TagLen + PnLen
<1>1. /\ h \in Nat /\ QuicLPacketGetHeaderLen(type, e) = h + e - d /\ x \in 17 .. 20
      /\ Mss \in Nat /\ Mss > 1208 /\ type \in Types
  <2>1. type \in Types
    BY DEF Long, Types
  <2> QED BY <2>1, HeaderLen, SendPathAssumption DEF TagLen
<1> DEFINE v == VarLen(n + x)
           w == VarLen(n + pad + x)
           g == VarLen(Mss + x)
<1>2. /\ QBufPktComputeTotalLen(type, d, n) = h + (n + x) + v
      /\ PacketLen(type, d, n + pad) = h + (n + pad + x) + w
      /\ QBufPktComputeTotalLen(type, e, Mss) = (h + e - d) + (Mss + x) + g
  BY <1>1, SendPathAssumption DEF QBufPktComputeTotalLen, QuicLPacketGetTotalLen, TagLen, PacketLen
<1>3. v \in 1 .. 8 /\ w \in 1 .. 8 /\ g \in 1 .. 8 /\ v <= w
  <2>1. n + x \in Nat /\ n + pad + x \in Nat /\ n + x <= n + pad + x /\ Mss + x \in Nat
    BY <1>1
  <2> HIDE DEF x
  <2> QED BY <2>1, VarLenGrows
<1>4. pad \in Int /\ h + n + x + v + before + pad = 1200
  <2>1. pad = 1200 - ((h + (n + x) + v) + before)
    BY <1>2 DEF DatagramMin
  <2> HIDE DEF h, x, v
  <2> QED BY <1>1, <1>3, <2>1
<1>5. n + pad + x \in 0 .. 1200
  <2>1. h \in Nat /\ x \in Nat /\ v \in Nat
    BY <1>1, <1>3
  <2> HIDE DEF h, x, v
  <2>2. n + pad + x = 1200 - (h + v + before)
    BY <1>4, <2>1
  <2>3. n + pad + x \in Nat /\ h + v + before \in Nat
    BY <2>1
  <2> QED BY <2>2, <2>3
<1>6. w <= 2
  <2>1. n + pad + x \in Nat /\ n + pad + x < 16384
    BY <1>5
  <2> HIDE DEF x
  <2> QED BY <2>1, VarLenGrows
<1>7. Mss >= 1207 + g
  BY <1>1 DEF VarLen
<1> HIDE DEF h, x, v, w, g
<1>8. n + pad <= Mss - (((h + e - d) + (Mss + x) + g) - Mss)
  BY <1>1, <1>3, <1>4, <1>7
<1>9. n + pad <= QuicFrameGetBuffLen(type, e)
  BY <1>2, <1>8 DEF QuicFrameGetBuffLen
<1>10. before + (h + (n + pad + x) + w) >= 1200 /\ before + (h + (n + pad + x) + w) <= Mss
  BY <1>1, <1>3, <1>4, <1>6
<1> QED BY <1>2, <1>9, <1>10 DEF DatagramMin

-----------------------------------------------------------------------------
(* The queue.                                                                 *)

\* A buffer was made for the id in use, or it is a short answer made for the
\* first id, of 8 bytes.
BufferInv(b) ==
    /\ b \in Buffers /\ b.len <= b.size
    /\ \/ b.size = QuicFrameGetBuffLen(b.type, dcid_len)
       \/ b.size = QuicFrameGetBuffLen(b.type, 8) /\ b.len \in Small \cup Notices

SizeInv ==
    /\ dcid_len \in 0 .. 20
    /\ tx_queue \in Seq(Buffers)
    /\ \A i \in 1 .. Len(tx_queue) : BufferInv(tx_queue[i])

\* A packet of the queue fits into a datagram of its own.
LEMMA BufferFits ==
    ASSUME TokenSmall, dcid_len \in 0 .. 20, NEW b, BufferInv(b)
    PROVE  QBufPktComputeTotalLen(b.type, dcid_len, b.len) <= Mss
<1>1. b.type \in Types /\ b.len \in Nat /\ dcid_len \in Nat
  BY DEF BufferInv, Buffers
<1>2. CASE b.size = QuicFrameGetBuffLen(b.type, dcid_len)
  BY <1>1, <1>2, FullFits DEF BufferInv
<1>3. CASE b.len \in Small \cup Notices
  <2>1. b.len \in 1 .. 100
    <3>1. b.len \in Small \/ b.len \in Notices
      BY <1>3
    <3>2. b.len \in 3 .. 100 \/ b.len \in 2 .. 17
      BY <3>1, SendPathAssumption
    <3> HIDE DEF BufferInv
    <3> QED BY <3>2
  <2> QED BY <1>1, <2>1, SmallFits
<1> QED BY <1>2, <1>3 DEF BufferInv

\* Before padding, the packets of a datagram fit into it.
LEMMA PrefixFits ==
    ASSUME TokenSmall, SizeInv, tx_queue # <<>>, NEW i \in 1 .. Count(tx_queue)
    PROVE  Written(tx_queue, i)
             + QBufPktComputeTotalLen(tx_queue[i].type, dcid_len, tx_queue[i].len) <= Mss
<1> DEFINE q == tx_queue
           total(j) == QBufPktComputeTotalLen(q[j].type, dcid_len, q[j].len)
<1>1. /\ q \in Seq(Buffers) /\ Count(q) \in 1 .. Len(q) /\ Len(q) \in Nat
      /\ \A j \in 1 .. (Count(q) - 1) : ~End(q, j)
      /\ dcid_len \in Nat
  BY CountIsLeast DEF SizeInv
<1>2. i \in 1 .. Len(q) /\ BufferInv(q[i])
  BY <1>1 DEF SizeInv
<1>3. CASE i = 1
  <2>1. Written(q, 1) = 0 /\ total(1) \in Nat
    <3>1. q[1].type \in Types /\ q[1].len \in Nat
      BY <1>2, <1>3 DEF BufferInv, Buffers
    <3> QED BY <1>1, <3>1, WrittenStep, LenTypes
  <2>2. total(1) <= Mss
    BY <1>2, <1>3, BufferFits DEF SizeInv
  <2> QED BY <1>3, <2>1, <2>2
<1>4. CASE i # 1
  <2> DEFINE p == i - 1
  <2>1. p \in 1 .. Len(q) /\ p + 1 = i /\ p \in 1 .. (Count(q) - 1)
    BY <1>1, <1>2, <1>4
  <2> HIDE DEF p
  <2>2. total(p) + total(i) <= Mss - Written(q, p)
    <3>1. ~ (total(p) + total(i) > Mss - Written(q, p))
      BY <1>1, <2>1 DEF End
    <3>2. total(p) \in Nat /\ total(i) \in Nat
      <4>1. q[p] \in Buffers /\ q[i] \in Buffers
        BY <1>2, <2>1 DEF SizeInv, BufferInv
      <4> QED BY <1>1, <4>1, LenTypes DEF Buffers
    <3>3. Written(q, p) \in Nat
      BY <1>1, <2>1, WrittenStep
    <3> QED BY <3>1, <3>2, <3>3, SendPathAssumption
  <2>3. Written(q, i) = Written(q, p) + LenAt(q, p)
    BY <1>1, <2>1, WrittenStep
  <2>4. LenAt(q, p) <= total(p) /\ LenAt(q, p) \in Nat /\ total(p) \in Nat /\ total(i) \in Nat
    <3>1. q[p] \in Buffers /\ q[i] \in Buffers
      BY <1>2, <2>1 DEF SizeInv, BufferInv
    <3> QED BY <1>1, <3>1, LenTypes DEF Buffers, LenAt
  <2>5. Written(q, p) \in Nat
    BY <1>1, <2>1, WrittenStep
  <2> HIDE DEF total
  <2>6. Written(q, i) + total(i) <= Mss
    BY <2>2, <2>3, <2>4, <2>5, SendPathAssumption
  <2> QED BY <2>6 DEF total
<1> QED BY <1>3, <1>4

\* No packet of a datagram is refused for want of room.
LEMMA QueueFits ==
    ASSUME TokenSmall, SizeInv, tx_queue # <<>>, NEW i \in 1 .. Count(tx_queue)
    PROVE  Fits(tx_queue, i)
<1> DEFINE q == tx_queue
           b == q[i]
           total == QBufPktComputeTotalLen(b.type, dcid_len, b.len)
           before == Written(q, i)
<1>1. /\ q \in Seq(Buffers) /\ i \in 1 .. Len(q) /\ BufferInv(b)
      /\ dcid_len \in 0 .. 20
  BY CountIsLeast DEF SizeInv
<1>2. /\ b.type \in Types /\ b.len \in Nat /\ b.size \in Int /\ b.len <= b.size
  BY <1>1 DEF BufferInv, Buffers
<1>3. before \in Nat
  BY <1>1, WrittenStep
<1>4. /\ total \in Nat /\ PacketLen(b.type, dcid_len, b.len) \in Nat
      /\ PacketLen(b.type, dcid_len, b.len) <= total
  <2>1. dcid_len \in Nat
    BY <1>1
  <2> HIDE DEF b
  <2> QED BY <1>2, <2>1, LenTypes
<1>5. before + total <= Mss
  BY PrefixFits
<1>6. CASE b.type \in Long /\ End(q, i) /\ total + before < DatagramMin
  <2> DEFINE pad == DatagramMin - (total + before)
  <2>1. Padding(q, i) = pad
    BY <1>6 DEF Padding
  <2>2. pad \in Nat
    BY <1>3, <1>4, <1>6 DEF DatagramMin
  <2>3. PICK e \in 0 .. 20 : e <= dcid_len + 8 /\ b.size = QuicFrameGetBuffLen(b.type, e)
    <3>1. /\ dcid_len <= dcid_len + 8 /\ 8 \in 0 .. 20 /\ 8 <= dcid_len + 8
      BY <1>1
    <3> HIDE DEF b
    <3>2. \/ b.size = QuicFrameGetBuffLen(b.type, dcid_len)
          \/ b.size = QuicFrameGetBuffLen(b.type, 8)
      BY <1>1 DEF BufferInv
    <3> QED BY <1>1, <3>1, <3>2
  <2>4. /\ b.len + pad <= QuicFrameGetBuffLen(b.type, e)
        /\ before + PacketLen(b.type, dcid_len, b.len + pad) <= Mss
    <3> HIDE DEF b, total, before
    <3> QED BY <1>1, <1>2, <1>3, <1>6, <2>2, <2>3, PaddingFits DEF total
  <2> QED BY <2>1, <2>3, <2>4 DEF Fits
<1>7. CASE ~(b.type \in Long /\ End(q, i) /\ total + before < DatagramMin)
  <2>1. Padding(q, i) = 0
    BY <1>7 DEF Padding
  <2>2. b.len + 0 = b.len
    BY <1>2
  <2>3. before + PacketLen(b.type, dcid_len, b.len) <= Mss
    <3> HIDE DEF before, total, b
    <3> QED BY <1>3, <1>4, <1>5, SendPathAssumption
  <2> QED BY <1>2, <2>1, <2>2, <2>3 DEF Fits
<1> QED BY <1>6, <1>7

\* Three bytes of payload are enough for a sample.
LEMMA QueueSampled ==
    ASSUME SizeInv, tx_queue # <<>>, NEW i \in 1 .. Count(tx_queue)
    PROVE  i \in 1 .. Len(tx_queue) /\ (Sampled(tx_queue, i) \/ tx_queue[i].len < 3)
<1> DEFINE b == tx_queue[i]
           total == QBufPktComputeTotalLen(b.type, dcid_len, b.len)
<1>1. i \in 1 .. Len(tx_queue) /\ BufferInv(b) /\ dcid_len \in Nat /\ tx_queue \in Seq(Buffers)
  BY CountIsLeast DEF SizeInv
<1>2. b.type \in Types /\ b.len \in Nat
  BY <1>1 DEF BufferInv, Buffers
<1>3. Padding(tx_queue, i) \in Nat
  <2>1. Written(tx_queue, i) \in Nat
    BY <1>1, WrittenStep
  <2>2. total \in Nat
    <3> HIDE DEF b
    <3> QED BY <1>1, <1>2, LenTypes
  <2> QED BY <2>1, <2>2 DEF Padding, DatagramMin
<1> QED BY <1>1, <1>2, <1>3, SendPathAssumption DEF Sampled, SampleMin, TagLen

\* A frame buffer has room for a short message.
LEMMA RoomForSmall ==
    ASSUME TokenSmall, NEW type \in Types, NEW d \in 0 .. 20
    PROVE  QuicFrameGetBuffLen(type, d) \in Nat /\ QuicFrameGetBuffLen(type, d) >= 100
<1>1. CASE type \in Long
  <2> DEFINE h == QuicLPacketGetHeaderLen(type, d)
             x == TagLen + PnLen
  <2>1. h \in Nat /\ h <= d + 1035 /\ x \in 17 .. 20 /\ Mss \in Nat /\ Mss > 1208
    BY HeaderLen, SendPathAssumption DEF TagLen
  <2>2. QBufPktComputeTotalLen(type, d, Mss) = h + (Mss + x) + VarLen(Mss + x)
    BY <1>1, SendPathAssumption DEF QBufPktComputeTotalLen, QuicLPacketGetTotalLen, TagLen
  <2>3. VarLen(Mss + x) \in 1 .. 8
    BY <2>1, VarLenGrows
  <2> HIDE DEF h, x
  <2> QED BY <2>1, <2>2, <2>3 DEF QuicFrameGetBuffLen
<1>2. CASE type \notin Long
  BY <1>2, SendPathAssumption DEF QBufPktComputeTotalLen, QuicSPacketGetTotalLen, TagLen,
     QuicCidWriteLen, QuicFrameGetBuffLen
<1> QED BY <1>1, <1>2

\* What is left of a queue are packets of it, and so is what is put behind it.
LEMMA SuffixOf ==
    ASSUME NEW q \in Seq(Buffers), NEW m \in 1 .. Len(q) + 1
    PROVE  /\ SubSeq(q, m, Len(q)) \in Seq(Buffers)
           /\ \A i \in 1 .. Len(SubSeq(q, m, Len(q))) :
                \E j \in 1 .. Len(q) : SubSeq(q, m, Len(q))[i] = q[j]
<1>1. Len(q) \in Nat
  OBVIOUS
<1> DEFINE t == SubSeq(q, m, Len(q))
<1>2. /\ t \in Seq(Buffers)
      /\ Len(t) = IF m <= Len(q) THEN Len(q) - m + 1 ELSE 0
      /\ \A i \in 1 .. Len(q) - m + 1 : t[i] = q[m + i - 1]
  BY <1>1, SubSeqProperties
<1>3. ASSUME NEW i \in 1 .. Len(t) PROVE \E j \in 1 .. Len(q) : t[i] = q[j]
  <2>1. i \in 1 .. Len(q) - m + 1 /\ m + i - 1 \in 1 .. Len(q)
    BY <1>1, <1>2
  <2> QED BY <1>2, <2>1
<1> QED BY <1>2, <1>3

\* With a packet put behind what is left, there is nothing else in the queue.
LEMMA PutBehind ==
    ASSUME NEW q \in Seq(Buffers), NEW m \in 1 .. Len(q) + 1, NEW b \in Buffers
    PROVE  LET r == Append(SubSeq(q, m, Len(q)), b)
           IN  /\ r \in Seq(Buffers)
               /\ \A i \in 1 .. Len(r) : r[i] = b \/ \E j \in 1 .. Len(q) : r[i] = q[j]
<1> DEFINE t == SubSeq(q, m, Len(q))
           r == Append(t, b)
<1>1. t \in Seq(Buffers) /\ \A i \in 1 .. Len(t) : \E j \in 1 .. Len(q) : t[i] = q[j]
  BY SuffixOf
<1> HIDE DEF t
<1>2. /\ r \in Seq(Buffers) /\ Len(r) = Len(t) + 1
      /\ \A i \in 1 .. Len(t) + 1 : r[i] = IF i \in 1 .. Len(t) THEN t[i] ELSE b
  BY <1>1, AppendProperties
<1>3. r = Append(SubSeq(q, m, Len(q)), b)
  BY DEF t
<1> HIDE DEF r
<1>4. /\ r \in Seq(Buffers)
      /\ \A i \in 1 .. Len(r) : r[i] = b \/ \E j \in 1 .. Len(q) : r[i] = q[j]
  BY <1>1, <1>2
<1> QED BY <1>3, <1>4

\* What a step may do to the queue: let packets go from its head, put one of the
\* right size behind what is left, or give credit to those that are in it.  What is
\* too short for a sample is put behind a packet without credit only.
LEMMA QueueSteps ==
    ASSUME TokenSmall, SizeInv, [Next]_vars
    PROVE  \/ UNCHANGED tx_queue
           \/ \E b \in Buffers, m \in 1 .. Len(tx_queue) + 1 :
                /\ tx_queue' = Append(SubSeq(tx_queue, m, Len(tx_queue)), b)
                /\ b.len <= b.size /\ b.size = QuicFrameGetBuffLen(b.type, dcid_len)
                /\ b.crypto => ~over
                /\ b.blocked => over \/ early'
                /\ b.len < 3 => \E i \in 1 .. Len(tx_queue) : tx_queue[i].blocked
           \/ \E m \in 1 .. Len(tx_queue) + 1 :
                tx_queue' = SubSeq(tx_queue, m, Len(tx_queue))
           \/ tx_queue' = [i \in 1 .. Len(tx_queue) |-> [tx_queue[i] EXCEPT !.blocked = FALSE]]
<1> DEFINE Goal ==
           \/ UNCHANGED tx_queue
           \/ \E b \in Buffers, m \in 1 .. Len(tx_queue) + 1 :
                /\ tx_queue' = Append(SubSeq(tx_queue, m, Len(tx_queue)), b)
                /\ b.len <= b.size /\ b.size = QuicFrameGetBuffLen(b.type, dcid_len)
                /\ b.crypto => ~over
                /\ b.blocked => over \/ early'
                /\ b.len < 3 => \E i \in 1 .. Len(tx_queue) : tx_queue[i].blocked
           \/ \E m \in 1 .. Len(tx_queue) + 1 :
                tx_queue' = SubSeq(tx_queue, m, Len(tx_queue))
           \/ tx_queue' = [i \in 1 .. Len(tx_queue) |-> [tx_queue[i] EXCEPT !.blocked = FALSE]]
<1>1. /\ dcid_len \in 0 .. 20 /\ tx_queue \in Seq(Buffers)
      /\ Small \subseteq 3 .. 100 /\ Notices \subseteq 2 .. 17
  BY SendPathAssumption DEF SizeInv
<1>2. ASSUME NEW type \in Types, NEW blocked \in BOOLEAN, NEW crypto \in BOOLEAN,
             NEW len \in Nat, len <= QuicFrameGetBuffLen(type, dcid_len)
      PROVE  LET b == QBuffNew(type, len, blocked, crypto)
             IN  /\ b \in Buffers /\ b.len <= b.size
                 /\ b.size = QuicFrameGetBuffLen(b.type, dcid_len)
                 /\ b.crypto = crypto /\ b.blocked = blocked /\ b.len = len
  <2>1. QuicFrameGetBuffLen(type, dcid_len) \in Nat
    BY <1>1, RoomForSmall
  <2> QED BY <1>2, <2>1 DEF QBuffNew, Buffers
<1>10. tx_queue = SubSeq(tx_queue, 1, Len(tx_queue)) /\ 1 \in 1 .. Len(tx_queue) + 1
  <2>1. Len(tx_queue) \in Nat
    BY <1>1
  <2> QED BY <1>1, <2>1, SubSeqFull
<1>3. ASSUME NEW type \in Types, NEW blocked \in BOOLEAN,
             NEW len \in Small \cup {QuicFrameGetBuffLen(type, dcid_len)},
             QuicFrameAddQueue(type, len, blocked)
      PROVE  Goal
  <2>1. len \in Nat /\ ~(len < 3) /\ len <= QuicFrameGetBuffLen(type, dcid_len)
    <3>1. QuicFrameGetBuffLen(type, dcid_len) \in Nat /\ QuicFrameGetBuffLen(type, dcid_len) >= 100
      BY <1>1, RoomForSmall
    <3> QED BY <1>1, <3>1
  <2>2. /\ tx_queue' = Append(tx_queue, QBuffNew(type, len, blocked, ~over))
        /\ blocked => over
    BY <1>3 DEF QuicFrameAddQueue
  <2> DEFINE b == QBuffNew(type, len, blocked, ~over)
  <2>3. /\ b \in Buffers /\ b.len <= b.size /\ b.size = QuicFrameGetBuffLen(b.type, dcid_len)
        /\ b.crypto => ~over
        /\ b.blocked => over
        /\ ~(b.len < 3)
    <3>1. QuicFrameGetBuffLen(type, dcid_len) \in Nat
      BY <1>1, RoomForSmall
    <3>2. /\ b \in Buffers /\ b.len <= b.size /\ b.size = QuicFrameGetBuffLen(b.type, dcid_len)
          /\ b.len = len
      BY <2>1, <3>1 DEF QBuffNew, Buffers
    <3>3. b.crypto = ~over /\ b.blocked = blocked
      BY DEF QBuffNew
    <3> HIDE DEF b
    <3> QED BY <2>1, <2>2, <3>2, <3>3
  <2>4. tx_queue' = Append(SubSeq(tx_queue, 1, Len(tx_queue)), b)
    BY <1>10, <2>2
  <2> HIDE DEF b
  <2> QED BY <1>10, <2>3, <2>4
<1>4. ASSUME NEW blocked \in BOOLEAN, QuicStreamSendEarlyData(blocked) PROVE Goal
  <2>1. PICK len \in Small : tx_queue' = Append(tx_queue, QBuffNew("1RTT", len, blocked, FALSE))
    BY <1>4 DEF QuicStreamSendEarlyData
  <2>2. early'
    BY <1>4 DEF QuicStreamSendEarlyData
  <2>3. len \in Nat /\ ~(len < 3) /\ "1RTT" \in Types
        /\ len <= QuicFrameGetBuffLen("1RTT", dcid_len)
    <3>1. "1RTT" \in Types
      BY DEF Types
    <3>2. QuicFrameGetBuffLen("1RTT", dcid_len) \in Nat /\ QuicFrameGetBuffLen("1RTT", dcid_len) >= 100
      BY <1>1, <3>1, RoomForSmall
    <3> QED BY <1>1, <3>1, <3>2
  <2> DEFINE b == QBuffNew("1RTT", len, blocked, FALSE)
  <2>4. /\ b \in Buffers /\ b.len <= b.size /\ b.size = QuicFrameGetBuffLen(b.type, dcid_len)
        /\ ~b.crypto
        /\ ~(b.len < 3)
    BY <1>2, <2>3
  <2>5. tx_queue' = Append(SubSeq(tx_queue, 1, Len(tx_queue)), b)
    BY <1>10, <2>1
  <2> HIDE DEF b
  <2> QED BY <1>10, <2>2, <2>4, <2>5
<1>5. CASE Credit
  BY <1>5 DEF Credit
<1>6. CASE WriteRefused
  <2> DEFINE R == Refused(tx_queue)
  <2>1. R \subseteq 1 .. Len(tx_queue) /\ R # {} /\ tx_queue # <<>>
    BY <1>1, <1>6, CountIsLeast DEF WriteRefused, Refused
  <2>2. PICK i \in R : \A j \in R : i <= j
    <3>1. R \subseteq Nat
      BY <2>1
    <3> HIDE DEF R
    <3> QED BY <2>1, <3>1, Least
  <2> DEFINE h == CHOOSE j \in R : \A m \in R : j <= m
             kept == SubSeq(tx_queue, h, Len(tx_queue))
  <2>3. h \in R
    <3> HIDE DEF R
    <3> QED BY <2>2
  <2>4. \/ tx_queue' = kept
        \/ /\ tx_queue[h].blocked
           /\ \E len \in Notices : tx_queue' = Append(kept, QBuffNew("1RTT", len, FALSE, FALSE))
    BY <1>6 DEF WriteRefused
  <2>5. h \in 1 .. Len(tx_queue) /\ h \in 1 .. Len(tx_queue) + 1
    <3>1. h \in 1 .. Len(tx_queue) /\ Len(tx_queue) \in Nat
      <4> HIDE DEF R, h
      <4> QED BY <1>1, <2>1, <2>3
    <3> HIDE DEF h
    <3> QED BY <3>1
  <2> HIDE DEF R, h
  <2>6. ASSUME tx_queue[h].blocked, NEW len \in Notices,
               tx_queue' = Append(kept, QBuffNew("1RTT", len, FALSE, FALSE))
        PROVE  Goal
    <3> DEFINE b == QBuffNew("1RTT", len, FALSE, FALSE)
    <3>1. "1RTT" \in Types /\ len \in Nat /\ len <= 100
      BY <1>1 DEF Types
    <3>2. QuicFrameGetBuffLen("1RTT", dcid_len) \in Nat /\ QuicFrameGetBuffLen("1RTT", dcid_len) >= 100
      BY <1>1, <3>1, RoomForSmall
    <3>3. len <= QuicFrameGetBuffLen("1RTT", dcid_len)
      BY <3>1, <3>2
    <3>4. /\ b \in Buffers /\ b.len <= b.size /\ b.size = QuicFrameGetBuffLen(b.type, dcid_len)
          /\ ~b.crypto /\ ~b.blocked
      BY <1>2, <3>1, <3>3
    <3>5. tx_queue' = Append(kept, b)
      BY <2>6
    <3> HIDE DEF b
    <3> QED BY <2>5, <2>6, <3>4, <3>5
  <2> QED BY <2>4, <2>5, <2>6
<1>7. CASE QuicWritePkt \/ WriteBytesFails
  <2>1. tx_queue' = Left /\ tx_queue # <<>>
    BY <1>7 DEF QuicWritePkt, WriteBytesFails
  <2>2. Count(tx_queue) + 1 \in 1 .. Len(tx_queue) + 1
    BY <1>1, <2>1, CountIsLeast
  <2> QED BY <2>1, <2>2 DEF Left
<1>8. CASE \/ UNCHANGED vars \/ Enter \/ QuicStateMachineAct \/ QuicUpdateDcid \/ QuicDatagramRecv
           \/ StreamRecvReturns \/ QuicSendPacket \/ SendReturns
  BY <1>8 DEF vars, Enter, QuicStateMachineAct, QuicUpdateDcid, QuicDatagramRecv,
     StreamRecvReturns, QuicSendPacket, SendReturns
<1>9. CASE Build
  BY <1>3, <1>9 DEF Build
<1> QED BY <1>4, <1>5, <1>6, <1>7, <1>8, <1>9 DEF Next

-----------------------------------------------------------------------------
(* Sizes.                                                                     *)

\* The buffers stay within what they were made for: QuicUpdateDcid changes the
\* id only while short answers are queued.
LEMMA SizeStep ==
    ASSUME TokenSmall, SizeInv, [Next]_vars
    PROVE  SizeInv'
<1>1. tx_queue \in Seq(Buffers) /\ dcid_len \in 0 .. 20
  BY DEF SizeInv
<1>2. CASE QuicUpdateDcid
  <2>1. dcid_len = 8 /\ dcid_len' \in 0 .. 20 /\ tx_queue' = tx_queue
    BY <1>2, SendPathAssumption DEF QuicUpdateDcid
  <2>2. ASSUME NEW i \in 1 .. Len(tx_queue) PROVE BufferInv(tx_queue[i])'
    <3>1. BufferInv(tx_queue[i]) /\ tx_queue[i].len \in Small \cup Notices
      BY <1>2 DEF SizeInv, QuicUpdateDcid
    <3> QED BY <2>1, <3>1 DEF BufferInv
  <2> QED BY <1>1, <2>1, <2>2 DEF SizeInv
<1>3. ~QuicUpdateDcid => dcid_len' = dcid_len
  BY DEF Next, vars, Enter, QuicStateMachineAct, QuicStreamSendEarlyData, Build,
     QuicFrameAddQueue, QuicDatagramRecv, StreamRecvReturns, QuicSendPacket, Credit,
     WriteRefused, QuicWritePkt, WriteBytesFails, SendReturns
<1>4. CASE dcid_len' = dcid_len
  <2>0. \A b : BufferInv(b) <=> BufferInv(b)'
    BY <1>4 DEF BufferInv
  <2>1. CASE UNCHANGED tx_queue
    BY <1>4, <2>0, <2>1 DEF SizeInv
  <2>2. ASSUME NEW b \in Buffers, NEW m \in 1 .. Len(tx_queue) + 1,
               tx_queue' = Append(SubSeq(tx_queue, m, Len(tx_queue)), b), b.len <= b.size,
               b.size = QuicFrameGetBuffLen(b.type, dcid_len)
        PROVE  SizeInv'
    <3>1. BufferInv(b)
      BY <2>2 DEF BufferInv
    <3>2. /\ tx_queue' \in Seq(Buffers)
          /\ \A i \in 1 .. Len(tx_queue') :
               tx_queue'[i] = b \/ \E j \in 1 .. Len(tx_queue) : tx_queue'[i] = tx_queue[j]
      <4> DEFINE r == Append(SubSeq(tx_queue, m, Len(tx_queue)), b)
      <4>1. /\ r \in Seq(Buffers)
            /\ \A i \in 1 .. Len(r) : r[i] = b \/ \E j \in 1 .. Len(tx_queue) : r[i] = tx_queue[j]
        <5>1. tx_queue \in Seq(Buffers)
          BY <1>1
        <5> QED BY <5>1, PutBehind
      <4>2. tx_queue' = r
        BY <2>2
      <4> HIDE DEF r
      <4> QED BY <4>1, <4>2
    <3>3. \A i \in 1 .. Len(tx_queue') : BufferInv(tx_queue'[i])
      BY <3>1, <3>2 DEF SizeInv
    <3> QED BY <1>1, <1>4, <2>0, <3>2, <3>3 DEF SizeInv
  <2>3. ASSUME NEW m \in 1 .. Len(tx_queue) + 1,
               tx_queue' = SubSeq(tx_queue, m, Len(tx_queue))
        PROVE  SizeInv'
    <3>1. /\ tx_queue' \in Seq(Buffers)
          /\ \A i \in 1 .. Len(tx_queue') : \E j \in 1 .. Len(tx_queue) : tx_queue'[i] = tx_queue[j]
      BY <1>1, <2>3, SuffixOf
    <3> QED BY <1>1, <1>4, <2>0, <3>1 DEF SizeInv
  <2>4. CASE tx_queue' = [i \in 1 .. Len(tx_queue) |-> [tx_queue[i] EXCEPT !.blocked = FALSE]]
    <3>1. ASSUME NEW i \in 1 .. Len(tx_queue)
          PROVE  /\ [tx_queue[i] EXCEPT !.blocked = FALSE] \in Buffers
                 /\ BufferInv([tx_queue[i] EXCEPT !.blocked = FALSE])
      BY <3>1 DEF SizeInv, BufferInv, Buffers
    <3>2. Len(tx_queue) \in Nat
      BY <1>1
    <3>3. tx_queue' \in Seq(Buffers) /\ Len(tx_queue') = Len(tx_queue)
      BY <2>4, <3>1, <3>2, IsASeq
    <3>4. \A i \in 1 .. Len(tx_queue') : BufferInv(tx_queue'[i])
      BY <2>4, <3>1, <3>3
    <3> QED BY <1>1, <1>4, <2>0, <3>3, <3>4 DEF SizeInv
  <2> QED BY <2>1, <2>2, <2>3, <2>4, QueueSteps
<1> QED BY <1>2, <1>3, <1>4

\* Every buffer of tx_queue fits a datagram, in every behaviour.
LEMMA SizeInvariant == ASSUME TokenSmall PROVE Spec => []SizeInv
<1>1. Init => SizeInv
  BY DEF Init, SizeInv
<1>2. SizeInv /\ [Next]_vars => SizeInv'
  BY SizeStep
<1> QED BY <1>1, <1>2, PTL DEF Spec

-----------------------------------------------------------------------------
(* Datagrams.                                                                 *)

\* The datagram in the send buffer is the datagram of a queue with no refused
\* packet, or none.
LEMMA OutStep ==
    ASSUME [Next]_vars
    PROVE  \/ out' = out \/ out' = NoDatagram
           \/ tx_queue # <<>> /\ Refused(tx_queue) = {} /\ out' = Datagram(tx_queue)
BY DEF Next, vars, Enter, QuicStateMachineAct, QuicStreamSendEarlyData, Build,
   QuicFrameAddQueue, QuicUpdateDcid, QuicDatagramRecv, StreamRecvReturns, QuicSendPacket,
   Credit, WriteRefused, QuicWritePkt, WriteBytesFails, SendReturns

\* A datagram that no packet was refused for has at most mss bytes.
LEMMA DatagramLen ==
    ASSUME SizeInv, tx_queue # <<>>, Refused(tx_queue) = {}
    PROVE  Datagram(tx_queue).len <= Mss
<1>1. Count(tx_queue) \in 1 .. Count(tx_queue)
  BY CountIsLeast DEF SizeInv
<1>2. QBuffBuildPkt(tx_queue, Count(tx_queue))
  BY <1>1 DEF Refused
<1> QED BY <1>2 DEF QBuffBuildPkt, Fits, Datagram

\* QuicWritePkt, QuicLPacketBuild and QuicFrameGetBuffLen agree on lengths: every
\* packet of a datagram has, with its padding, the room it needs, although the
\* peer's id may have changed since the buffers were made, and QuicHPMaskGen
\* refuses nothing but a DATA_BLOCKED frame of two bytes.
THEOREM DatagramsFit ==
    ASSUME TokenSmall
    PROVE  Spec => []DatagramFits
<1> DEFINE OutFits == out.len <= Mss
<1>1. Init => OutFits
  BY SendPathAssumption DEF Init, NoDatagram
<1>2. SizeInv /\ OutFits /\ [Next]_vars => OutFits'
  BY OutStep, DatagramLen, SendPathAssumption DEF NoDatagram
<1>3. SizeInv /\ OutFits => DatagramFits
  BY QueueFits, QueueSampled DEF DatagramFits
<1> HIDE DEF OutFits
<1> QED BY <1>1, <1>2, <1>3, SizeInvariant, PTL DEF Spec

\* A datagram that no short header ends is padded: whatever packet comes last.
LEMMA DatagramPadded ==
    ASSUME TokenSmall, SizeInv, tx_queue # <<>>, ~Datagram(tx_queue).short
    PROVE  Datagram(tx_queue).len >= DatagramMin
<1> DEFINE q == tx_queue
           k == Count(q)
           b == q[k]
           total == QBufPktComputeTotalLen(b.type, dcid_len, b.len)
           before == Written(q, k)
<1>1. /\ q \in Seq(Buffers) /\ k \in 1 .. Len(q) /\ (End(q, k) \/ b.type = "1RTT")
      /\ dcid_len \in 0 .. 20
  BY CountIsLeast DEF SizeInv
<1>2. b.type \in Types /\ b.len \in Nat /\ BufferInv(b)
  BY <1>1 DEF SizeInv, BufferInv, Buffers
<1>3. b.type \in Long /\ End(q, k)
  BY <1>1, <1>2 DEF Datagram, Types, Long
<1>4. before \in Nat /\ total \in Nat /\ PacketLen(b.type, dcid_len, b.len) = total
  <2>1. before \in Nat
    BY <1>1, WrittenStep
  <2>2. dcid_len \in Nat
    BY <1>1
  <2> HIDE DEF b
  <2> QED BY <1>2, <1>3, <2>1, <2>2, LenTypes
<1>5. Datagram(q).len = before + PacketLen(b.type, dcid_len, b.len + Padding(q, k))
  BY DEF Datagram
<1>6. CASE total + before < DatagramMin
  <2> DEFINE pad == DatagramMin - (total + before)
  <2>1. Padding(q, k) = pad /\ pad \in Nat
    BY <1>3, <1>4, <1>6 DEF Padding, DatagramMin
  <2>2. before + PacketLen(b.type, dcid_len, b.len + pad) >= DatagramMin
    <3>1. dcid_len <= dcid_len + 8
      BY <1>1
    <3>2. pad = DatagramMin - (QBufPktComputeTotalLen(b.type, dcid_len, b.len) + before)
      OBVIOUS
    <3> HIDE DEF b, total, before, pad
    <3> QED BY <1>1, <1>2, <1>3, <1>4, <2>1, <3>1, <3>2, PaddingFits
  <2> QED BY <1>5, <2>1, <2>2
<1>7. CASE ~(total + before < DatagramMin)
  <2>1. Padding(q, k) = 0 /\ b.len + 0 = b.len
    BY <1>2, <1>7 DEF Padding
  <2>2. before + total >= DatagramMin
    <3> HIDE DEF b, total, before
    <3> QED BY <1>4, <1>7 DEF DatagramMin
  <2> QED BY <1>4, <1>5, <2>1, <2>2
<1> QED BY <1>6, <1>7

\* Every datagram with an Initial packet has 1200 bytes unless a short header
\* ends it, in whatever order the packets of the three spaces were queued.
THEOREM InitialsPadded ==
    ASSUME TokenSmall
    PROVE  Spec => []InitialPadded
<1>1. Init => InitialPadded
  BY DEF Init, InitialPadded, NoDatagram
<1>2. SizeInv /\ InitialPadded /\ [Next]_vars => InitialPadded'
  BY OutStep, DatagramPadded DEF InitialPadded, NoDatagram
<1> QED BY <1>1, <1>2, SizeInvariant, PTL DEF Spec

-----------------------------------------------------------------------------
(* Flights.                                                                   *)

\* A queue holds handshake data only while the handshake goes on, and nothing
\* that may be refused then; when a call has returned and is not to write again, the
\* queue is empty.
FlightInv ==
    /\ ~over /\ call = "idle" => tx_queue = <<>> \/ rwstate = "WRITING"
    /\ \A i \in 1 .. Len(tx_queue) :
         /\ over => ~tx_queue[i].crypto
         /\ tx_queue[i].blocked \/ tx_queue[i].len < 3 => over \/ early
    /\ lost => early

\* The handshake ends with an empty queue, so no step puts data without credit
\* behind a packet of the handshake.
LEMMA FlightStep ==
    ASSUME TokenSmall, SizeInv, FlightInv, [Next]_vars
    PROVE  FlightInv'
<1>1. /\ tx_queue \in Seq(Buffers)
      /\ \A i \in 1 .. Len(tx_queue) : tx_queue[i] \in Buffers
  BY DEF SizeInv, BufferInv
<1>2. ~over' /\ call' = "idle" => tx_queue' = <<>> \/ rwstate' = "WRITING"
  <2>1. CASE WriteRefused
    <3>1. rwstate' = "WRITING"
      BY <2>1 DEF WriteRefused
    <3> QED BY <3>1
  <2>2. CASE ~WriteRefused
    BY <2>2 DEF FlightInv, Next, vars, Enter, QuicStateMachineAct, QuicStreamSendEarlyData,
       Build, QuicFrameAddQueue, QuicUpdateDcid, QuicDatagramRecv, StreamRecvReturns,
       QuicSendPacket, Credit, QuicWritePkt, WriteBytesFails, SendReturns
  <2> QED BY <2>1, <2>2
<1>3. /\ early => early'
      /\ over => over'
      /\ over' # over => over' /\ UNCHANGED <<tx_queue, lost, early>> /\ tx_queue = <<>>
  <2>1. CASE QuicStateMachineAct
    BY <2>1 DEF FlightInv, QuicStateMachineAct
  <2>2. CASE ~QuicStateMachineAct
    <3>1. over' = over
      BY <2>2 DEF Next, vars, Enter, QuicStreamSendEarlyData, Build,
         QuicFrameAddQueue, QuicUpdateDcid, QuicDatagramRecv, StreamRecvReturns, QuicSendPacket,
         Credit, WriteRefused, QuicWritePkt, WriteBytesFails, SendReturns
    <3>2. early' = early \/ early' = TRUE
      BY <2>2 DEF Next, vars, Enter, QuicStreamSendEarlyData, Build,
         QuicFrameAddQueue, QuicUpdateDcid, QuicDatagramRecv, StreamRecvReturns, QuicSendPacket,
         Credit, WriteRefused, QuicWritePkt, WriteBytesFails, SendReturns
    <3> QED BY <3>1, <3>2
  <2> QED BY <2>1, <2>2
<1>4. lost' => early'
  <2>1. CASE WriteRefused
    <3> DEFINE R == Refused(tx_queue)
               i == CHOOSE j \in R : \A m \in R : j <= m
    <3>1. /\ R \subseteq 1 .. Count(tx_queue) /\ R # {} /\ tx_queue # <<>>
          /\ R \subseteq Nat
      BY <2>1 DEF WriteRefused, Refused
    <3>2. i \in R
      <4>1. PICK k \in R : \A j \in R : k <= j
        <5> HIDE DEF R
        <5> QED BY <3>1, Least
      <4> HIDE DEF R
      <4> QED BY <4>1
    <3>3. lost' => lost \/ \E j \in 1 .. (i - 1) : tx_queue[j].crypto
      BY <2>1 DEF WriteRefused
    <3>4. Count(tx_queue) \in 1 .. Len(tx_queue)
      BY <1>1, <3>1, CountIsLeast
    <3>5. tx_queue[i].blocked \/ tx_queue[i].len < 3
      BY <3>1, <3>2, QueueFits, QueueSampled DEF Refused, QBuffBuildPkt
    <3> HIDE DEF R, i
    <3>6. i \in 1 .. Len(tx_queue) /\ \A j \in 1 .. (i - 1) : j \in 1 .. Len(tx_queue)
      BY <1>1, <3>1, <3>2, <3>4
    <3>7. over \/ early
      BY <3>5, <3>6 DEF FlightInv
    <3>8. \A j \in 1 .. (i - 1) : over => ~tx_queue[j].crypto
      BY <3>6 DEF FlightInv
    <3> QED BY <1>3, <3>3, <3>7, <3>8 DEF FlightInv
  <2>2. ~WriteRefused => lost' = lost
    BY DEF Next, vars, Enter, QuicStateMachineAct, QuicStreamSendEarlyData, Build,
       QuicFrameAddQueue, QuicUpdateDcid, QuicDatagramRecv, StreamRecvReturns, QuicSendPacket,
       Credit, QuicWritePkt, WriteBytesFails, SendReturns
  <2> QED BY <1>3, <2>1, <2>2 DEF FlightInv
<1>5. ASSUME over' = over
      PROVE  \A i \in 1 .. Len(tx_queue') :
               /\ over' => ~tx_queue'[i].crypto
               /\ tx_queue'[i].blocked \/ tx_queue'[i].len < 3 => over' \/ early'
  <2>1. \A i \in 1 .. Len(tx_queue) :
          /\ over' => ~tx_queue[i].crypto
          /\ tx_queue[i].blocked \/ tx_queue[i].len < 3 => over' \/ early'
    BY <1>3, <1>5 DEF FlightInv
  <2>2. ASSUME NEW b \in Buffers, NEW m \in 1 .. Len(tx_queue) + 1,
               tx_queue' = Append(SubSeq(tx_queue, m, Len(tx_queue)), b),
               b.crypto => ~over, b.blocked => over \/ early',
               b.len < 3 => \E i \in 1 .. Len(tx_queue) : tx_queue[i].blocked
        PROVE  \A i \in 1 .. Len(tx_queue') :
                 /\ over' => ~tx_queue'[i].crypto
                 /\ tx_queue'[i].blocked \/ tx_queue'[i].len < 3 => over' \/ early'
    <3>1. \A i \in 1 .. Len(tx_queue') :
             tx_queue'[i] = b \/ \E j \in 1 .. Len(tx_queue) : tx_queue'[i] = tx_queue[j]
      <4> DEFINE r == Append(SubSeq(tx_queue, m, Len(tx_queue)), b)
      <4>1. /\ r \in Seq(Buffers)
            /\ \A i \in 1 .. Len(r) : r[i] = b \/ \E j \in 1 .. Len(tx_queue) : r[i] = tx_queue[j]
        BY <1>1, PutBehind
      <4>2. tx_queue' = r
        BY <2>2
      <4> HIDE DEF r
      <4> QED BY <4>1, <4>2
    <3>2. (over' => ~b.crypto) /\ (b.blocked \/ b.len < 3 => over' \/ early')
      BY <1>3, <1>5, <2>1, <2>2
    <3> QED BY <2>1, <3>1, <3>2
  <2>3. ASSUME NEW m \in 1 .. Len(tx_queue) + 1,
               tx_queue' = SubSeq(tx_queue, m, Len(tx_queue))
        PROVE  \A i \in 1 .. Len(tx_queue') :
                 /\ over' => ~tx_queue'[i].crypto
                 /\ tx_queue'[i].blocked \/ tx_queue'[i].len < 3 => over' \/ early'
    <3>1. \A i \in 1 .. Len(tx_queue') : \E j \in 1 .. Len(tx_queue) : tx_queue'[i] = tx_queue[j]
      BY <1>1, <2>3, SuffixOf
    <3> QED BY <2>1, <3>1
  <2>4. ASSUME tx_queue' = [i \in 1 .. Len(tx_queue) |-> [tx_queue[i] EXCEPT !.blocked = FALSE]]
        PROVE  \A i \in 1 .. Len(tx_queue') :
                 /\ over' => ~tx_queue'[i].crypto
                 /\ tx_queue'[i].blocked \/ tx_queue'[i].len < 3 => over' \/ early'
    <3>1. Len(tx_queue) \in Nat
      BY <1>1
    <3>2. ASSUME NEW i \in 1 .. Len(tx_queue)
          PROVE  /\ [tx_queue[i] EXCEPT !.blocked = FALSE] \in Buffers
                 /\ [tx_queue[i] EXCEPT !.blocked = FALSE].crypto = tx_queue[i].crypto
                 /\ [tx_queue[i] EXCEPT !.blocked = FALSE].blocked = FALSE
                 /\ [tx_queue[i] EXCEPT !.blocked = FALSE].len = tx_queue[i].len
      BY <1>1 DEF Buffers
    <3>3. Len(tx_queue') = Len(tx_queue)
      BY <2>4, <3>1, <3>2, IsASeq
    <3>4. \A i \in 1 .. Len(tx_queue) :
            /\ tx_queue'[i].crypto = tx_queue[i].crypto /\ tx_queue'[i].blocked = FALSE
            /\ tx_queue'[i].len = tx_queue[i].len
      BY <2>4, <3>2
    <3> QED BY <2>1, <3>3, <3>4
  <2> QED BY <2>1, <2>2, <2>3, <2>4, QueueSteps
<1>6. CASE over' = over
  BY <1>2, <1>4, <1>5, <1>6 DEF FlightInv
<1>7. CASE over' # over
  <2>1. tx_queue' = <<>>
    BY <1>3, <1>7
  <2> QED BY <1>2, <1>4, <2>1 DEF FlightInv
<1> QED BY <1>6, <1>7

\* QuicWritePkt forgets the packets before one without credit, but these are
\* never CRYPTO data, for every sequence of calls and every datagram: only
\* QuicStreamSendEarlyData breaks that.
THEOREM CryptoSurvives ==
    ASSUME TokenSmall
    PROVE  Spec => []BlockedLosesNoCrypto
<1>1. Init => FlightInv
  BY DEF Init, FlightInv
<1>2. SizeInv /\ FlightInv /\ [Next]_vars => FlightInv'
  BY FlightStep
<1>3. FlightInv => BlockedLosesNoCrypto
  BY DEF FlightInv, BlockedLosesNoCrypto
<1> QED BY <1>1, <1>2, <1>3, SizeInvariant, PTL DEF Spec
=============================================================================
