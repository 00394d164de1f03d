---------------------------- MODULE PacketSpace -----------------------------
(* One direction of a packet number space of tbquic: the sending half of one *)
(* endpoint's QUIC_CRYPTO (pkt_num, largest_acked, sent_queue) and the       *)
(* receiving half of the other's (largest_pn, largest_ack), joined by a      *)
(* network that loses, delays, reorders and duplicates packets and ACKs.     *)
(*                                                                           *)
(* Packet numbers travel truncated to PnBits bits (quic->pkt_num_len + 1     *)
(* bytes, one by default), and the receiver reconstructs them.  The runs     *)
(* scale the field and the C int (IntMod) down together; PnLimit, 2^62 in    *)
(* the code, is a multiple of IntMod as it is there.                         *)
EXTENDS Common, FiniteSets

CONSTANTS
    PnBits,         \* width of the packet number field
    PnLimit,        \* 1L << 62
    PureAcks,       \* packets that may hold nothing but an ACK
    MaxPackets,     \* packets sent in a behaviour
    MaxLag          \* how far behind the newest arrival a packet may arrive

ASSUME PacketSpaceAssumption ==
    /\ PnBits \in 1 .. 32
    /\ PnLimit \in Nat /\ PnLimit % IntMod = 0
    /\ PureAcks \subseteq Nat
    /\ MaxPackets \in Nat /\ MaxLag \in Nat

VARIABLES
    pkt_num, largest_acked, sent_queue,     \* the sender
    largest_pn, largest_ack,                \* the receiver
    packets, acks,                          \* everything put on the network
    received                                \* history: numbers that arrived

vars == <<pkt_num, largest_acked, sent_queue, largest_pn, largest_ack,
          packets, acks, received>>

PnWin == 2^PnBits
PnHalfWin == PnWin \div 2

-----------------------------------------------------------------------------
(* QuicPktNumberEncode and QuicPktNumberDecode.                              *)

\* The loop over the bits of num_unacked, and the octets it comes to.
Log2(n) == CHOOSE i \in 0 .. 31 : 2^i <= n /\ n < 2^(i + 1)
NumUnacked(full_pn, acked) == IF acked = 0 THEN full_pn + 1 ELSE full_pn - acked
MinBits(n) == IF n = 0 THEN 1 ELSE Log2(n) + 2
NumBytes(bits) == (bits \div 8) + (IF bits % 8 = 0 THEN 0 ELSE 1)

\* The number of octets is compared with the number of bits of the field.
TooNarrow(full_pn, acked) == NumBytes(MinBits(NumUnacked(full_pn, acked))) > PnBits

QuicPktNumberEncode(full_pn, acked) ==
    IF TooNarrow(full_pn, acked) THEN -1 ELSE full_pn % PnWin

\* Fault: a number below the expected one is taken for a wrapped one.
DecodeNoLate(largest, truncated) ==
    LET expected == largest + 1
        candidate == (expected - (expected % PnWin)) + truncated
    IN  IF QUIC_LT(candidate, expected) THEN candidate + PnWin ELSE candidate

\* Fault: a number above the window is kept.
DecodeNoSubtract(largest, truncated) ==
    LET expected == largest + 1
        candidate == (expected - (expected % PnWin)) + truncated
    IN  IF /\ QUIC_LE(candidate, expected - PnHalfWin)
           /\ QUIC_LT(candidate, PnLimit - PnWin)
        THEN candidate + PnWin
        ELSE candidate

QuicPktNumberDecode(largest, truncated) ==
    LET expected == largest + 1
        candidate == (expected - (expected % PnWin)) + truncated
    IN  IF /\ QUIC_LE(candidate, expected - PnHalfWin)
           /\ QUIC_LT(candidate, PnLimit - PnWin)
        THEN candidate + PnWin
        ELSE IF /\ QUIC_GT(candidate, expected + PnHalfWin)
                /\ QUIC_GE(candidate, PnWin)
        THEN candidate - PnWin
        ELSE candidate

-----------------------------------------------------------------------------
Init ==
    /\ pkt_num = 0 /\ largest_acked = 0 /\ sent_queue = {}
    /\ largest_pn = 0 /\ largest_ack = 0
    /\ packets = {} /\ acks = {}
    /\ received = {}

\* QuicPacketBuild, and QuicWritePkt keeping the buffer in sent_queue.  A
\* packet elicits an ACK unless it carries nothing but one.
QuicPacketBuild(eliciting) ==
    /\ pkt_num < MaxPackets
    /\ pkt_num' = pkt_num + 1
    /\ sent_queue' = sent_queue \cup {pkt_num'}
    /\ packets' = packets \cup {[full |-> pkt_num', eliciting |-> eliciting,
                         code |-> QuicPktNumberEncode(pkt_num', largest_acked)]}
    /\ UNCHANGED <<largest_acked, largest_pn, largest_ack, acks, received>>

Newest == IF received = {} THEN 0
          ELSE CHOOSE n \in received : \A m \in received : m <= n

\* QuicFrameAckGen: one range that holds largest_pn alone.
AckGen(pn) == acks' = acks \cup {pn} /\ largest_ack' = pn

\* The network loses any number of packets in a row, but delivers none once a packet has
\* arrived that was sent more than MaxLag after it.
InTime(full) == full + MaxLag >= Newest

\* QuicDecryptPacket and QuicFrameDoParser: duplicates and stale numbers are
\* processed like any other packet; QuicAckFrameBuild ends the handler unless
\* nothing in the packet elicits an ACK, a frame fails to parse (parsed), or
\* largest_pn was acknowledged before (QuicFrameAckSendCheck).  A number that is
\* misread does no harm to the decryption, which uses the truncated one.
QuicDecryptPacket(p, parsed) ==
    LET pn == QuicPktNumberDecode(largest_pn, p.code)
        now == IF QUIC_LT(largest_pn, pn) THEN pn ELSE largest_pn
    IN  /\ InTime(p.full)
        /\ largest_pn' = now
        /\ IF p.eliciting /\ parsed /\ largest_ack # now
           THEN AckGen(now) ELSE UNCHANGED <<acks, largest_ack>>
        /\ received' = received \cup {p.full}
        /\ UNCHANGED <<pkt_num, largest_acked, sent_queue, packets>>

\* QuicStreamFrameBuild puts an ACK in front of the data if one is due.
PiggybackAck ==
    /\ largest_ack # largest_pn
    /\ AckGen(largest_pn)
    /\ UNCHANGED <<pkt_num, largest_acked, sent_queue, largest_pn, packets,
                   received>>

\* Fault: everything up to the largest number is freed.
AckSentPktCumulative(smallest, largest) ==
    {n \in sent_queue : QUIC_GT(n, largest)}

\* QBufAckSentPkt for the range smallest .. largest.
AckSentPkt(smallest, largest) ==
    {n \in sent_queue : QUIC_GT(n, largest) \/ QUIC_GT(smallest, n)}

\* Fault: a late ACK overwrites largest_acked.
AckParserLastWins(largest) ==
    /\ largest_acked' = largest
    /\ sent_queue' = AckSentPkt(largest, largest)
    /\ UNCHANGED <<pkt_num, largest_pn, largest_ack, packets, acks, received>>

\* QuicFrameAckParser on the ACK frames this code builds (first_ack_range and
\* range_count are 0).
QuicFrameAckParser(largest) ==
    /\ largest_acked' = IF QUIC_GE(largest, largest_acked) THEN largest
                        ELSE largest_acked
    /\ sent_queue' = AckSentPkt(largest, largest)
    /\ UNCHANGED <<pkt_num, largest_pn, largest_ack, packets, acks, received>>

Next ==
    \/ \E eliciting \in BOOLEAN :
          (eliciting \/ pkt_num + 1 \in PureAcks) /\ QuicPacketBuild(eliciting)
    \/ \E p \in packets, parsed \in BOOLEAN : QuicDecryptPacket(p, parsed)
    \/ PiggybackAck
    \/ \E n \in acks : QuicFrameAckParser(n)

Spec == Init /\ [][Next]_vars

-----------------------------------------------------------------------------
\* Number n is what packet m may be taken for: m, or one before it that has the same
\* truncated number.
TakenFor(n, m) == n <= m /\ n % PnWin = m % PnWin

\* A buffer leaves sent_queue only after a packet arrived that carried its truncated
\* number, at the earliest its own: no ACK, late, repeated or made from a misread number,
\* frees what was sent after every packet that arrived, or another number's buffer.
FreedWasTaken == \A n \in (1 .. pkt_num) \ sent_queue : \E m \in received : TakenFor(n, m)

\* The window of the comment in QuicPktNumberDecode.
InWindow(n, expected) == expected - PnHalfWin < n /\ n <= expected + PnHalfWin

\* QuicPktNumberDecode never goes past the number QuicPacketBuild gave, so largest_pn is
\* never ahead of the sender; and it gives that very number to a packet whose number is in
\* the window, unless it crosses to the next multiple of PnWin before the expected one
\* does: such a packet is taken for one PnWin before it.
DecodedIsFull ==
    \A p \in packets : InTime(p.full) =>
        LET pn == QuicPktNumberDecode(largest_pn, p.code)
            expected == largest_pn + 1
        IN  /\ TakenFor(pn, p.full)
            /\ InWindow(p.full, expected) /\ p.full \div PnWin <= expected \div PnWin
               => pn = p.full

\* ACKs that overtake each other never move largest_acked backwards.
AckedNeverShrinks == [][largest_acked <= largest_acked']_vars

\* assert(QUIC_GE(full_pn, largest_acked)) in QuicPktNumberEncode, for the
\* next packet to be built.
EncodeAssert == largest_acked # 0 => QUIC_GE(pkt_num + 1, largest_acked)
=============================================================================
