---------------------------- MODULE PacketProofs -----------------------------
(* Packet numbers and acknowledgement, for every field width, every loss and  *)
(* duplication, reordering by less than half a window, and every number of    *)
(* packets the comparison macros can tell apart: a number is decoded as it    *)
(* was given or as an earlier one with the same low bits (Decodes), only the  *)
(* buffer of such a number is freed (FreesTaken), and largest_acked neither   *)
(* shrinks (AckedGrows) nor overtakes pkt_num (EncodeAsserts).                *)
EXTENDS PacketSpace, NumberProofs

\* Half of the int range is a positive number, so twice it is the modulus of
\* the C conversions between uint64_t and int.
LEMMA HalfFacts == Half \in Nat /\ Half >= 1 /\ IntMod = 2 * Half
BY IntModAssumption DEF Half

\* A difference below INT_MAX + 1 survives the conversion to int that the
\* comparison macros make: QUIC_LT and its siblings then compare correctly.
LEMMA IntOfExact ==
    ASSUME NEW x \in Int, -Half <= x, x < Half
    PROVE  IntOf(x) = x
BY HalfFacts, CastExact DEF IntOf

\* The numbers of the connection and the window of the field lie within the
\* range the macros compare exactly: fields of 8, 16 and 24 bits and up to
\* 2^31 - 2^25 packets.
NumbersInRange == MaxPackets + 2 * PnWin < Half

\* A packet is overtaken by less than half a window of the decoder.
Reordering == MaxLag + 1 < PnHalfWin

\* No packet is given up because its number needs more octets than the field
\* has (bits).
NumbersFit == \A n \in 1 .. MaxPackets + 1 : NumBytes(MinBits(n)) \in 0 .. PnBits

-----------------------------------------------------------------------------
(* Encoding and decoding.                                                     *)

\* QuicPktNumberGetParam: half_win is half of win, as 1 << pn_nbits is even.
LEMMA WinEven == PnHalfWin \in Nat /\ PnHalfWin >= 1 /\ PnWin = 2 * PnHalfWin
<1> DEFINE P(k) == 2^k \div 2 \in Nat /\ 2^k \div 2 >= 1 /\ 2^k = 2 * (2^k \div 2)
<1>1. /\ P(1) /\ P(2) /\ P(3) /\ P(4) /\ P(5) /\ P(6) /\ P(7) /\ P(8)
      /\ P(9) /\ P(10) /\ P(11) /\ P(12) /\ P(13) /\ P(14) /\ P(15) /\ P(16)
      /\ P(17) /\ P(18) /\ P(19) /\ P(20) /\ P(21) /\ P(22) /\ P(23) /\ P(24)
      /\ P(25) /\ P(26) /\ P(27) /\ P(28) /\ P(29) /\ P(30) /\ P(31) /\ P(32)
  BY SMT
<1> HIDE DEF P
<1>2. P(PnBits)
  BY <1>1, PacketSpaceAssumption, SMT
<1> QED BY <1>2 DEF P, PnWin, PnHalfWin

\* The comparison with the size of the field only refuses a number when the
\* field is below 5 bits: NumbersFit holds of every field of the code.
LEMMA FieldFits ==
    ASSUME PnBits >= 5, MaxPackets < 2^31
    PROVE  NumbersFit
<1> SUFFICES ASSUME NEW n \in 1 .. MaxPackets + 1 PROVE NumBytes(MinBits(n)) \in 0 .. PnBits
  BY DEF NumbersFit
<1> DEFINE Q(i) == 2^i <= n /\ n < 2^(i + 1)
<1>1. \/ Q(0) \/ Q(1) \/ Q(2) \/ Q(3) \/ Q(4) \/ Q(5) \/ Q(6) \/ Q(7)
      \/ Q(8) \/ Q(9) \/ Q(10) \/ Q(11) \/ Q(12) \/ Q(13) \/ Q(14) \/ Q(15)
      \/ Q(16) \/ Q(17) \/ Q(18) \/ Q(19) \/ Q(20) \/ Q(21) \/ Q(22) \/ Q(23)
      \/ Q(24) \/ Q(25) \/ Q(26) \/ Q(27) \/ Q(28) \/ Q(29) \/ Q(30) \/ Q(31)
  BY PacketSpaceAssumption, SMT
<1>2. \E i \in 0 .. 31 : Q(i)
  <2> HIDE DEF Q
  <2> QED BY <1>1, SMT
<1>3. Log2(n) \in 0 .. 31
  BY <1>2, Zenon DEF Log2
<1>4. MinBits(n) \in 2 .. 33
  BY <1>3, SMT DEF MinBits
<1>5. NumBytes(MinBits(n)) <= 5
  BY <1>4, SMT DEF NumBytes
<1>6. NumBytes(MinBits(n)) \in Nat
  BY <1>4, SMT DEF NumBytes
<1> QED BY <1>5, <1>6, PacketSpaceAssumption, SMT

\* Quotient and remainder by the window.
LEMMA DivMod ==
    ASSUME NEW w \in Nat, w > 0, NEW a \in Nat
    PROVE  /\ a \div w \in Nat /\ a % w \in 0 .. w - 1
           /\ a = w * (a \div w) + (a % w)
OBVIOUS

\* Adding windows does not change the low bits.
LEMMA SameBits ==
    ASSUME NEW w \in Nat, w > 0, NEW r \in 0 .. w - 1, NEW k \in Int
    PROVE  (w * k + r) % w = r
<1>1. r % w = r
  OBVIOUS
<1>2. (r + w * k) % w = r % w
  OBVIOUS
<1>3. w * k + r = r + w * k
  <2>1. w * k \in Int
    OBVIOUS
  <2> QED BY <2>1
<1> QED BY <1>1, <1>2, <1>3

\* QuicPktNumberDecode puts the field into the window of the expected number: it
\* arrives at the packet's number, one window above it when the packet is of an earlier
\* window, or windows below it when the packet is of a later one.
LEMMA Candidate ==
    ASSUME NEW e \in Nat, NEW full \in Nat, full + PnHalfWin > e,
           NEW c, c = (e - (e % PnWin)) + (full % PnWin)
    PROVE  /\ c \in Nat /\ c % PnWin = full % PnWin
           /\ c >= PnWin => (c - PnWin) % PnWin = full % PnWin
           /\ full \div PnWin <= e \div PnWin => c \in {full, full + PnWin}
           /\ ~(full \div PnWin <= e \div PnWin) => c <= full
<1> DEFINE w == PnWin
           qe == e \div w
           qf == full \div w
<1>1. w \in Nat /\ w > 0 /\ PnHalfWin \in Nat /\ w = 2 * PnHalfWin /\ PnHalfWin < w
  BY WinEven
<1>2. /\ qe \in Nat /\ qf \in Nat
      /\ e % w \in 0 .. w - 1 /\ full % w \in 0 .. w - 1
      /\ e = w * qe + (e % w) /\ full = w * qf + (full % w)
  BY <1>1, DivMod
<1>3. c = (e - (e % w)) + (full % w)
  OBVIOUS
<1> HIDE DEF w, qe, qf
<1>4. w * qe \in Nat /\ w * qf \in Nat /\ w * (qe - 1) \in Int /\ w * (qe - 1) = w * qe - w
  BY <1>1, <1>2
<1>5. c = w * qe + (full % w)
  BY <1>2, <1>3, <1>4
<1>6. c \in Nat /\ c % w = full % w
  BY <1>1, <1>2, <1>4, <1>5, SameBits
<1>7. (c - w) % w = full % w
  <2>1. c - w = w * (qe - 1) + (full % w)
    BY <1>1, <1>2, <1>4, <1>5
  <2>2. qe - 1 \in Int
    BY <1>2
  <2>3. (w * (qe - 1) + (full % w)) % w = full % w
    BY <1>1, <1>2, <2>2, SameBits
  <2> QED BY <2>1, <2>3
<1>8. ASSUME qf <= qe PROVE c \in {full, full + w}
  <2>1. CASE qf = qe
    BY <1>1, <1>2, <1>4, <1>5, <2>1
  <2>2. CASE qf = qe - 1
    <3>1. w * qf = w * qe - w
      BY <1>4, <2>2
    <3> QED BY <1>1, <1>2, <1>4, <1>5, <3>1
  <2>3. CASE qe - qf >= 2
    <3>1. w * qe - w * qf = w * (qe - qf) /\ w * (qe - qf) >= 2 * w
      BY <1>1, <1>2, <2>3
    <3> QED BY <1>1, <1>2, <1>4, <3>1
  <2> QED BY <1>2, <1>8, <2>1, <2>2, <2>3
<1>9. ASSUME ~(qf <= qe) PROVE c <= full
  <2>1. w * qe <= w * qf
    BY <1>1, <1>2, <1>9
  <2> QED BY <1>1, <1>2, <1>4, <1>5, <2>1
<1> QED BY <1>6, <1>7, <1>8, <1>9 DEF w, qe, qf

\* QUIC_LT(candidate, (1L << 62) - win) is never true while the numbers are
\* small: the difference is cut to its low bits.
LEMMA LimitNotSeen ==
    ASSUME NEW c \in Nat, c + PnWin < Half
    PROVE  ~QUIC_LT(c, PnLimit - PnWin)
<1>1. PnWin \in Nat
  BY WinEven
<1>2. PICK k \in Int : PnLimit = IntMod * k
  BY HalfFacts, PacketSpaceAssumption, DivMod
<1>3. (c - (PnLimit - PnWin)) % IntMod = (c + PnWin) % IntMod
  <2>1. c - (PnLimit - PnWin) = (c + PnWin) + IntMod * (-k)
    BY <1>1, <1>2, HalfFacts
  <2> QED BY <1>1, <2>1, HalfFacts
<1>4. IntOf(c - (PnLimit - PnWin)) = IntOf(c + PnWin)
  BY <1>3 DEF IntOf
<1>5. IntOf(c + PnWin) = c + PnWin
  BY <1>1, HalfFacts, IntOfExact
<1> QED BY <1>1, <1>4, <1>5 DEF QUIC_LT

\* What QuicPktNumberDecode makes of a packet that is not too late: never a number above
\* the packet's, always one with its low bits, and its own in the window of the comment
\* unless it is of a later one.
LEMMA DecodeTaken ==
    ASSUME NEW largest \in Nat, NEW full \in Nat, full + 2 * PnWin < Half,
           largest + 2 * PnWin < Half, full + PnHalfWin > largest + 1,
           NEW pn, pn = QuicPktNumberDecode(largest, full % PnWin)
    PROVE  /\ pn \in Nat /\ TakenFor(pn, full)
           /\ /\ full <= largest + 1 + PnHalfWin
              /\ full \div PnWin <= (largest + 1) \div PnWin
              => pn = full
<1> DEFINE e == largest + 1
           c == (e - (e % PnWin)) + (full % PnWin)
<1>1. /\ PnWin \in Nat /\ PnHalfWin \in Nat /\ PnHalfWin >= 1 /\ PnWin = 2 * PnHalfWin
      /\ Half \in Nat
  BY WinEven, HalfFacts
<1>2. /\ c \in Nat /\ c % PnWin = full % PnWin
      /\ c >= PnWin => (c - PnWin) % PnWin = full % PnWin
      /\ full \div PnWin <= e \div PnWin => c \in {full, full + PnWin}
      /\ ~(full \div PnWin <= e \div PnWin) => c <= full
  BY Candidate
<1> HIDE DEF c
<1>3. ~QUIC_LT(c, PnLimit - PnWin)
  BY <1>1, <1>2, LimitNotSeen
<1>4. IntOf(c - (e + PnHalfWin)) = c - (e + PnHalfWin) /\ IntOf(c - PnWin) = c - PnWin
  BY <1>1, <1>2, IntOfExact
<1>5. pn = IF c > e + PnHalfWin /\ c >= PnWin THEN c - PnWin ELSE c
  <2>1. QUIC_GT(c, e + PnHalfWin) <=> c > e + PnHalfWin
    BY <1>1, <1>2, <1>4 DEF QUIC_GT
  <2>2. QUIC_GE(c, PnWin) <=> c >= PnWin
    BY <1>1, <1>2, <1>4 DEF QUIC_GE
  <2> QED BY <1>3, <2>1, <2>2 DEF QuicPktNumberDecode, c
<1>6. pn \in Nat /\ pn <= full
  BY <1>1, <1>2, <1>5
<1>7. pn % PnWin = full % PnWin
  BY <1>2, <1>5
<1>8. /\ full <= e + PnHalfWin /\ full \div PnWin <= e \div PnWin
      => pn = full
  BY <1>1, <1>2, <1>5
<1> QED BY <1>6, <1>7, <1>8 DEF TakenFor

-----------------------------------------------------------------------------
(* The inductive invariant.                                                   *)

\* Every packet on the network carries the low bits of its number.
WireInv ==
    /\ pkt_num \in 0 .. MaxPackets
    /\ \A p \in packets : p.full \in 1 .. pkt_num /\ p.code = p.full % PnWin

\* A packet arrived that may be taken for number n.
Taken(n) == \E m \in received : TakenFor(n, m)

\* The receiver's largest number, and those it acknowledges, are numbers that arrived or
\* may have been taken for one.
RecvInv ==
    /\ received \subseteq 1 .. pkt_num
    /\ largest_pn \in Nat /\ (largest_pn = 0 \/ Taken(largest_pn))
    /\ \A n \in acks : n \in Nat /\ (n = 0 \/ Taken(n))

\* The sender believes only in numbers that were sent.
SenderInv ==
    /\ sent_queue \subseteq 1 .. pkt_num
    /\ largest_acked \in 0 .. pkt_num
    /\ FreedWasTaken

PacketInv == WireInv /\ RecvInv /\ SenderInv

\* The bounds every step relies on.
InRange == NumbersInRange /\ Reordering /\ NumbersFit

\* A number that may have been taken was sent.
LEMMA TakenIsSent ==
    ASSUME WireInv, RecvInv, NEW n \in Nat, n = 0 \/ Taken(n)
    PROVE  n \in 0 .. pkt_num
BY DEF WireInv, RecvInv, Taken, TakenFor

\* A set of numbers up to N that is not empty has a greatest element.
LEMMA Greatest ==
    ASSUME NEW N \in Nat, NEW S, S \subseteq 1 .. N, S # {}
    PROVE  \E i \in S : \A j \in S : j <= i
<1> DEFINE T == {N - i : i \in S}
<1>1. T \subseteq Nat /\ T # {}
  <2>1. \A i \in S : N - i \in Nat
    OBVIOUS
  <2> QED BY <2>1
<1>2. PICK t \in T : \A u \in T : t <= u
  <2> HIDE DEF T
  <2> QED BY <1>1, Least
<1>3. PICK i \in S : t = N - i
  OBVIOUS
<1>4. ASSUME NEW j \in S PROVE j <= i
  <2>1. N - i <= N - j
    BY <1>2, <1>3
  <2> QED BY <2>1
<1> QED BY <1>4

\* largest_pn is never ahead of the newest arrival: a packet that is not too late for the
\* network is not too late for QuicPktNumberDecode.
LEMMA LargestIsOld ==
    ASSUME WireInv, RecvInv
    PROVE  Newest \in Nat /\ largest_pn <= Newest
<1>1. CASE received = {}
  BY <1>1 DEF RecvInv, Newest, Taken
<1>2. CASE received # {}
  <2>1. pkt_num \in Nat /\ received \subseteq 1 .. pkt_num
    BY PacketSpaceAssumption DEF WireInv, RecvInv
  <2>2. \E n \in received : \A m \in received : m <= n
    BY <1>2, <2>1, Greatest
  <2>3. Newest \in received /\ \A m \in received : m <= Newest
    BY <1>2, <2>2 DEF Newest
  <2> QED BY <2>1, <2>3 DEF RecvInv, Taken, TakenFor
<1> QED BY <1>1, <1>2

\* What the receiver makes of a packet it may get now.
LEMMA ArrivalTaken ==
    ASSUME InRange, PacketInv, NEW p \in packets, InTime(p.full),
           NEW pn, pn = QuicPktNumberDecode(largest_pn, p.code)
    PROVE  /\ pn \in 0 .. pkt_num /\ TakenFor(pn, p.full)
           /\ /\ p.full <= largest_pn + 1 + PnHalfWin
              /\ p.full \div PnWin <= (largest_pn + 1) \div PnWin
              => pn = p.full
<1>1. /\ pkt_num \in Nat /\ pkt_num <= MaxPackets /\ MaxPackets \in Nat
      /\ p.full \in 1 .. pkt_num /\ p.code = p.full % PnWin
      /\ largest_pn \in 0 .. pkt_num
  BY TakenIsSent, PacketSpaceAssumption DEF PacketInv, WireInv, RecvInv
<1>2. /\ PnWin \in Nat /\ PnHalfWin \in Nat /\ Half \in Nat
      /\ MaxPackets + 2 * PnWin < Half /\ MaxLag \in Nat /\ MaxLag + 1 < PnHalfWin
  BY WinEven, HalfFacts, PacketSpaceAssumption DEF InRange, NumbersInRange, Reordering
<1>3. p.full + PnHalfWin > largest_pn + 1
  BY <1>1, <1>2, LargestIsOld DEF PacketInv, InTime
<1>4. p.full + 2 * PnWin < Half /\ largest_pn + 2 * PnWin < Half
  BY <1>1, <1>2
<1>5. /\ pn \in Nat /\ TakenFor(pn, p.full)
      /\ /\ p.full <= largest_pn + 1 + PnHalfWin
         /\ p.full \div PnWin <= (largest_pn + 1) \div PnWin
         => pn = p.full
  BY <1>1, <1>3, <1>4, DecodeTaken
<1> QED BY <1>1, <1>5 DEF TakenFor

\* The next packet gets a number that fits its field.
LEMMA BuildStep ==
    ASSUME InRange, PacketInv, NEW eliciting \in BOOLEAN, QuicPacketBuild(eliciting)
    PROVE  PacketInv' /\ largest_acked <= largest_acked'
<1>1. /\ pkt_num \in Nat /\ pkt_num' = pkt_num + 1 /\ pkt_num' \in 1 .. MaxPackets
      /\ largest_acked \in 0 .. pkt_num
  BY PacketSpaceAssumption DEF QuicPacketBuild, PacketInv, WireInv, RecvInv, SenderInv
<1>2. QuicPktNumberEncode(pkt_num', largest_acked) = pkt_num' % PnWin
  <2>1. NumUnacked(pkt_num', largest_acked) \in 1 .. MaxPackets + 1
    BY <1>1, PacketSpaceAssumption DEF NumUnacked
  <2>2. ~TooNarrow(pkt_num', largest_acked)
    <3> DEFINE b == NumBytes(MinBits(NumUnacked(pkt_num', largest_acked)))
    <3>1. b \in 0 .. PnBits
      BY <2>1 DEF InRange, NumbersFit
    <3> QED BY <3>1, PacketSpaceAssumption DEF TooNarrow
  <2> QED BY <2>2 DEF QuicPktNumberEncode
<1>3. WireInv'
  <2>1. \A p \in packets' : p \in packets \/ (p.full = pkt_num' /\ p.code = pkt_num' % PnWin)
    BY <1>2 DEF QuicPacketBuild
  <2>2. ASSUME NEW p \in packets PROVE p.full \in 1 .. pkt_num' /\ p.code = p.full % PnWin
    BY <1>1, <2>2 DEF PacketInv, WireInv
  <2> QED BY <1>1, <2>1, <2>2 DEF WireInv
<1>4. RecvInv' /\ SenderInv' /\ largest_acked' = largest_acked
  <2>1. UNCHANGED <<received, largest_pn, largest_ack, acks, largest_acked>>
    BY DEF QuicPacketBuild
  <2>2. sent_queue' = sent_queue \cup {pkt_num'}
    BY DEF QuicPacketBuild
  <2>3. FreedWasTaken'
    BY <1>1, <2>1, <2>2 DEF PacketInv, SenderInv, FreedWasTaken
  <2>4. RecvInv'
    BY <1>1, <2>1 DEF PacketInv, RecvInv, Taken
  <2> QED BY <1>1, <2>1, <2>2, <2>3, <2>4 DEF PacketInv, SenderInv
<1> QED BY <1>1, <1>3, <1>4 DEF PacketInv

\* A packet that arrives makes largest_pn a number it may be taken for, or leaves it,
\* however late it is and however often it came before.
LEMMA DecryptStep ==
    ASSUME InRange, PacketInv, NEW p \in packets, NEW parsed \in BOOLEAN,
           QuicDecryptPacket(p, parsed)
    PROVE  PacketInv' /\ largest_acked <= largest_acked'
<1> DEFINE pn == QuicPktNumberDecode(largest_pn, p.code)
           now == IF QUIC_LT(largest_pn, pn) THEN pn ELSE largest_pn
<1>1. pkt_num \in Nat /\ p.full \in 1 .. pkt_num /\ largest_acked \in 0 .. pkt_num
  BY PacketSpaceAssumption DEF PacketInv, WireInv, SenderInv
<1>2. pn \in Nat /\ TakenFor(pn, p.full)
  BY ArrivalTaken DEF QuicDecryptPacket
<1>3. /\ largest_pn' = now
      /\ acks' = acks \cup {now} \/ acks' = acks
      /\ received' = received \cup {p.full}
      /\ UNCHANGED <<pkt_num, largest_acked, sent_queue, packets>>
  BY DEF QuicDecryptPacket, AckGen
<1> HIDE DEF pn
<1>4. now \in Nat /\ (now = 0 \/ now = pn \/ Taken(now))
  BY <1>2 DEF PacketInv, RecvInv
<1> HIDE DEF now
<1>5. \A n : Taken(n) \/ TakenFor(n, p.full) => \E m \in received' : TakenFor(n, m)
  BY <1>3 DEF Taken
<1>6. RecvInv'
  <2>1. received' \subseteq 1 .. pkt_num'
    BY <1>1, <1>3 DEF PacketInv, RecvInv
  <2>2. now = 0 \/ \E m \in received' : TakenFor(now, m)
    BY <1>2, <1>4, <1>5
  <2>3. \A n \in acks' : n \in Nat /\ (n = 0 \/ \E m \in received' : TakenFor(n, m))
    BY <1>3, <1>4, <1>5, <2>2 DEF PacketInv, RecvInv
  <2> QED BY <1>3, <1>4, <2>1, <2>2, <2>3 DEF RecvInv, Taken
<1>7. SenderInv'
  <2>1. FreedWasTaken'
    BY <1>3 DEF PacketInv, SenderInv, FreedWasTaken
  <2> QED BY <1>3, <2>1 DEF PacketInv, SenderInv
<1>8. WireInv'
  BY <1>3 DEF PacketInv, WireInv
<1> QED BY <1>1, <1>3, <1>6, <1>7, <1>8 DEF PacketInv

\* An ACK put in front of stream data names largest_pn.
LEMMA PiggybackStep ==
    ASSUME PacketInv, PiggybackAck
    PROVE  PacketInv' /\ largest_acked <= largest_acked'
<1>1. /\ acks' = acks \cup {largest_pn}
      /\ UNCHANGED <<pkt_num, largest_acked, sent_queue, largest_pn, packets, received>>
  BY DEF PiggybackAck, AckGen
<1>2. RecvInv'
  BY <1>1 DEF PacketInv, RecvInv, Taken
<1>3. WireInv' /\ SenderInv' /\ largest_acked \in Int
  BY <1>1 DEF PacketInv, WireInv, SenderInv, FreedWasTaken
<1> QED BY <1>1, <1>2, <1>3 DEF PacketInv

\* An ACK frees the packet it names and no other one, and largest_acked follows
\* the largest ACK, in whatever order they come.
LEMMA AckStep ==
    ASSUME InRange, PacketInv, NEW n \in acks, QuicFrameAckParser(n)
    PROVE  PacketInv' /\ largest_acked <= largest_acked'
<1>1. /\ pkt_num \in Nat /\ pkt_num < Half /\ n \in 0 .. pkt_num
      /\ sent_queue \subseteq 1 .. pkt_num /\ largest_acked \in 0 .. pkt_num
  BY TakenIsSent, PacketSpaceAssumption, WinEven, HalfFacts
  DEF InRange, NumbersInRange, PacketInv, WireInv, RecvInv, SenderInv
<1>2. \A a, b \in 0 .. pkt_num :
        /\ QUIC_GT(a, b) <=> a > b
        /\ QUIC_GE(a, b) <=> a >= b
  BY <1>1, HalfFacts, IntOfExact DEF QUIC_GT, QUIC_GE
<1>3. sent_queue' = sent_queue \ {n}
  <2>1. \A m \in sent_queue : QUIC_GT(m, n) \/ QUIC_GT(n, m) <=> m # n
    BY <1>1, <1>2
  <2> QED BY <2>1 DEF QuicFrameAckParser, AckSentPkt
<1>4. largest_acked' = IF n >= largest_acked THEN n ELSE largest_acked
  BY <1>1, <1>2 DEF QuicFrameAckParser
<1>5. UNCHANGED <<pkt_num, largest_pn, largest_ack, packets, acks, received>>
  BY DEF QuicFrameAckParser
<1>6. SenderInv'
  <2>1. n = 0 \/ \E m \in received : TakenFor(n, m)
    BY DEF PacketInv, RecvInv, Taken
  <2>2. \A k \in 1 .. pkt_num : k # n /\ k \notin sent_queue' => k \notin sent_queue
    BY <1>3
  <2>3. FreedWasTaken'
    BY <1>1, <1>5, <2>1, <2>2 DEF PacketInv, SenderInv, FreedWasTaken
  <2> QED BY <1>1, <1>3, <1>4, <1>5, <2>3 DEF SenderInv
<1>7. WireInv' /\ RecvInv'
  BY <1>5 DEF PacketInv, WireInv, RecvInv, Taken
<1> QED BY <1>1, <1>4, <1>6, <1>7 DEF PacketInv

\* Nothing was sent yet.
LEMMA PacketInit == Init => PacketInv
BY PacketSpaceAssumption DEF Init, PacketInv, WireInv, RecvInv, SenderInv, FreedWasTaken

\* The four steps of the two endpoints keep the invariant and never move
\* largest_acked back.
LEMMA PacketStep ==
    ASSUME InRange, PacketInv, [Next]_vars
    PROVE  PacketInv' /\ largest_acked <= largest_acked'
<1>1. CASE UNCHANGED vars
  <2>1. largest_acked \in Int
    BY DEF PacketInv, SenderInv
  <2> QED BY <1>1, <2>1 DEF vars, PacketInv, WireInv, RecvInv, Taken, SenderInv, FreedWasTaken
<1> QED BY <1>1, BuildStep, DecryptStep, PiggybackStep, AckStep DEF Next

\* PacketInv holds in every behaviour whose numbers are in range.
LEMMA PacketInvariant == ASSUME InRange PROVE Spec => []PacketInv
<1>1. PacketInv /\ [Next]_vars => PacketInv'
  BY PacketStep
<1> QED BY <1>1, PacketInit, PTL DEF Spec

\* QBufAckSentPkt releases a buffer only after a packet arrived that carried its truncated
\* number, for every interleaving of packets and ACKs that are lost, repeated, late or
\* made from misread numbers.
THEOREM FreesTaken ==
    ASSUME NumbersInRange, Reordering, NumbersFit
    PROVE  Spec => []FreedWasTaken
<1>1. PacketInv => FreedWasTaken
  BY DEF PacketInv, SenderInv
<1> QED BY <1>1, PacketInvariant, PTL DEF InRange

\* QuicPktNumberDecode never overtakes the sender, whatever was lost before, and returns
\* the number QuicPacketBuild gave to every packet of the window that is of no later one.
THEOREM Decodes ==
    ASSUME NumbersInRange, Reordering, NumbersFit
    PROVE  Spec => []DecodedIsFull
<1>1. InRange /\ PacketInv => DecodedIsFull
  BY ArrivalTaken DEF DecodedIsFull, InWindow
<1> QED BY <1>1, PacketInvariant, PTL DEF InRange

\* The assertion QUIC_GE(full_pn, largest_acked) of QuicPktNumberEncode holds
\* of every packet that is built: no ACK names a number that was not sent.
THEOREM EncodeAsserts ==
    ASSUME NumbersInRange, Reordering, NumbersFit
    PROVE  Spec => []EncodeAssert
<1>1. PacketInv => EncodeAssert
  <2> SUFFICES ASSUME PacketInv PROVE QUIC_GE(pkt_num + 1, largest_acked)
    BY DEF EncodeAssert
  <2>1. /\ pkt_num \in 0 .. MaxPackets /\ largest_acked \in 0 .. pkt_num
    BY DEF PacketInv, WireInv, RecvInv, SenderInv
  <2>2. pkt_num + 1 - largest_acked \in 1 .. Half - 1
    BY <2>1, PacketSpaceAssumption, WinEven, HalfFacts DEF NumbersInRange
  <2> QED BY <2>1, <2>2, HalfFacts, IntOfExact DEF QUIC_GE
<1> QED BY <1>1, PacketInvariant, PTL DEF InRange

\* QuicFrameAckParser never moves largest_acked backwards, whichever ACKs
\* overtake each other.
THEOREM AckedGrows ==
    ASSUME NumbersInRange, Reordering, NumbersFit
    PROVE  Spec => AckedNeverShrinks
<1>1. PacketInv /\ [Next]_vars => [largest_acked <= largest_acked']_vars
  BY PacketStep DEF InRange
<1> QED BY <1>1, PacketInvariant, PTL DEF InRange, AckedNeverShrinks, Spec
=============================================================================
