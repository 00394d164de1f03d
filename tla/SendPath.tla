---- MODULE SendPath ----
(* The way out (core.c, q_buff.c, the builders of format.c, QuicSendPacket):    *)
(* frames fill buffers that are sized when they are made, buffers queue up, and *)
(* QuicWritePkt puts as many packets into a datagram as fit, pads and hands it  *)
(* to the socket.  All lengths are those of the code, in bytes.                 *)
EXTENDS Naturals, Sequences

CONSTANTS
  Mss,          \* mss of the connection
  ScidLen,      \* length of this end's connection id
  DcidLens,     \* lengths the peer's connection id may turn out to have
  TokenLen,     \* length of the token in Initial packets
  PnLen,        \* bytes of a packet number, pkt_num_len + 1
  Small,        \* payload lengths of acknowledgements, stream data, short messages
  Notices,      \* payload lengths of DATA_BLOCKED and STREAM_DATA_BLOCKED frames
  MaxPackets    \* bound: packets in the queue

(* Below 1209 bytes the padding may not fit: one byte for a longer length field, *)
(* eight for a first id that is longer than the one that replaces it.  The      *)
(* shortest payload but one is a STREAM frame: type, id and a byte.             *)
ASSUME SendPathAssumption ==
  /\ Mss \in Nat /\ Mss > 1208
  /\ DcidLens \subseteq 0..20 /\ ScidLen \in 0..20 /\ TokenLen \in Nat
  /\ PnLen \in 1..4 /\ MaxPackets \in Nat
  /\ Small \subseteq 3..100 /\ Notices \subseteq 2..17

VARIABLES
  dcid_len,     \* dcid.len
  tx_queue,     \* QBUFFs, oldest first
  out,          \* the send buffer: the datagram this call has written last
  rwstate,      \* "NOTHING", "READING", "WRITING", "FINISHED"
  fd_mode,      \* the socket is a file descriptor
  call,         \* what a call of the application does: "idle", "building", "sending"
  over,         \* QuicDoHandshake has returned without an error
  early,        \* QuicStreamSendEarlyData was used
  lost          \* history: CRYPTO data dropped because of a later packet

vars == <<dcid_len, tx_queue, out, rwstate, fd_mode, call, over, early, lost>>

Types == {"INITIAL", "HANDSHAKE", "1RTT"}
Long == {"INITIAL", "HANDSHAKE"}
DatagramMin == 1200     \* QUIC_INITIAL_PKT_DATAGRAM_SIZE_MIN
TagLen == 16            \* of every cipher suite the library knows
SampleMin == 4 + 16     \* QUIC_PACKET_NUM_MAX_LEN + QUIC_SAMPLE_LEN

-----------------------------------------------------------------------------
(* Lengths. *)

(* QuicVariableLengthEncode, as far as lengths go. *)
VarLen(n) ==
  IF n < 64 THEN 1 ELSE IF n < 16384 THEN 2 ELSE IF n < 1073741824 THEN 4 ELSE 8

QuicCidWriteLen(n) == 1 + n

QuicLPacketGetHeaderLen(type, dlen) ==
  1 + 4 + QuicCidWriteLen(dlen) + QuicCidWriteLen(ScidLen)
    + (IF type = "INITIAL" THEN VarLen(TokenLen) + TokenLen ELSE 0)

QuicLPacketGetTotalLen(type, dlen, data) ==
  LET len == data + TagLen + PnLen
  IN  QuicLPacketGetHeaderLen(type, dlen) + len + VarLen(len)

(* One byte more than QuicSHeaderGen writes, which puts no length before the id. *)
QuicSPacketGetTotalLen(dlen, data) == 1 + QuicCidWriteLen(dlen) + data + TagLen + PnLen

QBufPktComputeTotalLen(type, dlen, data) ==
  IF type \in Long THEN QuicLPacketGetTotalLen(type, dlen, data)
                   ELSE QuicSPacketGetTotalLen(dlen, data)

(* What QuicPacketBuild really writes. *)
PacketLen(type, dlen, data) ==
  IF type \in Long THEN QuicLPacketGetTotalLen(type, dlen, data)
                   ELSE QuicSPacketGetTotalLen(dlen, data) - 1

(* Fault: the authentication tag is forgotten. *)
FaultGetBuffLen(type, dlen) == Mss - (QBufPktComputeTotalLen(type, dlen, Mss) - Mss) + TagLen

(* The size of a frame buffer: a full one makes a packet of Mss bytes. *)
QuicFrameGetBuffLen(type, dlen) == Mss - (QBufPktComputeTotalLen(type, dlen, Mss) - Mss)

-----------------------------------------------------------------------------
(* A datagram: the first k packets of the queue. *)

(* Bytes before the i-th packet of the datagram; only the last one is padded. *)
Written(q, i) ==
  LET w[j \in 1..Len(q) + 1] ==
        IF j = 1 THEN 0 ELSE w[j - 1] + PacketLen(q[j - 1].type, dcid_len, q[j - 1].len)
  IN  w[i]

(* This packet ends the datagram: it is the last, or the next one with it does *)
(* not fit into what is left.                                                  *)
End(q, i) ==
  \/ i = Len(q)
  \/ QBufPktComputeTotalLen(q[i].type, dcid_len, q[i].len)
     + QBufPktComputeTotalLen(q[i + 1].type, dcid_len, q[i + 1].len) > Mss - Written(q, i)

Count(q) ==
  CHOOSE k \in 1..Len(q) :
    /\ End(q, k) \/ q[k].type = "1RTT"
    /\ \A j \in 1..(k - 1) : ~End(q, j) /\ q[j].type # "1RTT"

(* Fault: only a datagram that starts with an Initial packet is padded. *)
FaultPadding(q, i) ==
  LET total == QBufPktComputeTotalLen(q[i].type, dcid_len, q[i].len) + Written(q, i)
  IN  IF q[i].type = "INITIAL" /\ End(q, i) /\ total < DatagramMin
      THEN DatagramMin - total ELSE 0

(* QuicLPacketBuild pads a long packet that ends the datagram. *)
Padding(q, i) ==
  LET total == QBufPktComputeTotalLen(q[i].type, dcid_len, q[i].len) + Written(q, i)
  IN  IF q[i].type \in Long /\ End(q, i) /\ total < DatagramMin
      THEN DatagramMin - total ELSE 0

(* The padding fits into the buffer and the packet into the datagram. *)
Fits(q, i) ==
  LET pad == Padding(q, i)
  IN  /\ q[i].len + pad <= q[i].size
      /\ Written(q, i) + PacketLen(q[i].type, dcid_len, q[i].len + pad) <= Mss

(* QuicHPMaskGen wants a number of four bytes and a sample behind it. *)
Sampled(q, i) == PnLen + q[i].len + Padding(q, i) + TagLen >= SampleMin

QBuffBuildPkt(q, i) == Fits(q, i) /\ Sampled(q, i)

(* Packets that flow control or the builder refuses: `blocked' stands for data *)
(* without credit and, at a client whose handshake was ended by the peer, for  *)
(* a packet without keys.                                                      *)
Refused(q) == {i \in 1..Count(q) : q[i].blocked \/ ~QBuffBuildPkt(q, i)}

NoDatagram == [len |-> 0, initial |-> FALSE, short |-> FALSE]

(* The datagram as written: its length, and the packets that are looked at. *)
Datagram(q) ==
  LET k == Count(q)
  IN  [len |-> Written(q, k) + PacketLen(q[k].type, dcid_len, q[k].len + Padding(q, k)),
       initial |-> \E i \in 1..k : q[i].type = "INITIAL",
       short |-> q[k].type = "1RTT"]

-----------------------------------------------------------------------------
Init ==
  /\ dcid_len = 8
  /\ tx_queue = <<>> /\ out = NoDatagram
  /\ rwstate = "NOTHING" /\ fd_mode \in BOOLEAN
  /\ call = "idle" /\ over = FALSE /\ early = FALSE /\ lost = FALSE

(* The application calls QuicDoHandshake until that is over, then sends and    *)
(* reads streams.                                                              *)
Enter ==
  /\ call = "idle"
  /\ call' = "building" /\ out' = NoDatagram
  /\ UNCHANGED <<dcid_len, tx_queue, rwstate, fd_mode, over, early, lost>>

(* Fault: the handshake ends without a look at what is still queued. *)
FaultStateMachineAct ==
  /\ call = "idle" /\ ~over
  /\ over' = TRUE
  /\ UNCHANGED <<dcid_len, tx_queue, out, rwstate, fd_mode, call, early, lost>>

(* The loop ends in HANDSHAKE_DONE, and not while there is something to write. *)
QuicStateMachineAct ==
  /\ call = "idle" /\ ~over /\ rwstate = "FINISHED"
  /\ over' = TRUE
  /\ UNCHANGED <<dcid_len, tx_queue, out, rwstate, fd_mode, call, early, lost>>

(* The handshake neither reads nor builds before the last flight has left.     *)
Ready == over \/ rwstate # "WRITING"

QBuffNew(type, len, blocked, crypto) ==
  [type |-> type, len |-> len, blocked |-> blocked, crypto |-> crypto,
   size |-> QuicFrameGetBuffLen(type, dcid_len)]

(* A frame buffer is filled and queued: a short one, or a full one while a     *)
(* flight or a message is cut up.  After the handshake long headers carry      *)
(* acknowledgements only.  Stream data may be refused.                         *)
QuicFrameAddQueue(type, len, blocked) ==
  /\ call = "building" /\ Ready /\ Len(tx_queue) < MaxPackets
  /\ blocked => type = "1RTT" /\ over
  /\ over /\ type \in Long => len \in Small
  /\ len <= QuicFrameGetBuffLen(type, dcid_len)
  /\ tx_queue' = Append(tx_queue, QBuffNew(type, len, blocked, ~over))
  /\ UNCHANGED <<dcid_len, out, rwstate, fd_mode, call, over, early, lost>>

(* Right after a call of QuicDoHandshake, whatever it returned.                *)
QuicStreamSendEarlyData(blocked) ==
  /\ call = "idle" /\ ~over /\ ~early /\ Len(tx_queue) < MaxPackets
  /\ early' = TRUE /\ call' = "sending" /\ out' = NoDatagram
  /\ \E len \in Small :
       tx_queue' = Append(tx_queue, QBuffNew("1RTT", len, blocked, FALSE))
  /\ UNCHANGED <<dcid_len, rwstate, fd_mode, over, lost>>

(* QuicUpdateDcid comes after the frames of the packet were parsed, so the     *)
(* answers to that packet were sized for the old id.  They are short.          *)
QuicUpdateDcid ==
  /\ call = "building" /\ ~over /\ Ready /\ dcid_len = 8
  /\ \A i \in 1..Len(tx_queue) : tx_queue[i].len \in Small \cup Notices
  /\ dcid_len' \in DcidLens
  /\ UNCHANGED <<tx_queue, out, rwstate, fd_mode, call, over, early, lost>>

(* A datagram was read, or there is none. *)
QuicDatagramRecv ==
  /\ call = "building" /\ Ready
  /\ rwstate' \in {"READING", "FINISHED"}
  /\ UNCHANGED <<dcid_len, tx_queue, out, fd_mode, call, over, early, lost>>

(* A call that reads streams leaves the answers in the queue. *)
StreamRecvReturns ==
  /\ call = "building" /\ over
  /\ call' = "idle"
  /\ UNCHANGED <<dcid_len, tx_queue, out, rwstate, fd_mode, over, early, lost>>

QuicSendPacket ==
  /\ call = "building"
  /\ call' = "sending"
  /\ UNCHANGED <<dcid_len, tx_queue, out, rwstate, fd_mode, over, early, lost>>

(* The peer gives credit, or the keys come. *)
Credit ==
  /\ call = "idle" /\ \E i \in 1..Len(tx_queue) : tx_queue[i].blocked
  /\ tx_queue' = [i \in 1..Len(tx_queue) |-> [tx_queue[i] EXCEPT !.blocked = FALSE]]
  /\ UNCHANGED <<dcid_len, out, rwstate, fd_mode, call, over, early, lost>>

(* QuicWritePkt fails at packet i: those before it are already in their        *)
(* sent_queue, and the datagram with them is never written.  Flow control      *)
(* leaves a notice for the peer behind the queue, while the bound allows it.   *)
WriteRefused ==
  LET i == CHOOSE j \in Refused(tx_queue) : \A m \in Refused(tx_queue) : j <= m
      kept == SubSeq(tx_queue, i, Len(tx_queue))
  IN  /\ call = "sending" /\ tx_queue # <<>> /\ Refused(tx_queue) # {}
      /\ rwstate' = "WRITING" /\ call' = "idle"
      /\ lost' = (lost \/ \E j \in 1..(i - 1) : tx_queue[j].crypto)
      /\ \/ tx_queue' = kept
         \/ /\ tx_queue[i].blocked /\ Len(kept) < MaxPackets
            /\ \E len \in Notices :
                 tx_queue' = Append(kept, QBuffNew("1RTT", len, FALSE, FALSE))
      /\ UNCHANGED <<dcid_len, out, fd_mode, over, early>>

Left == SubSeq(tx_queue, Count(tx_queue) + 1, Len(tx_queue))

(* Fault: a call that has written is finished. *)
FaultWritePkt ==
  /\ call = "sending" /\ tx_queue # <<>> /\ Refused(tx_queue) = {}
  /\ out' = Datagram(tx_queue) /\ tx_queue' = Left
  /\ rwstate' = "FINISHED" /\ call' = "idle"
  /\ UNCHANGED <<dcid_len, fd_mode, over, early, lost>>

(* A datagram goes out.  Without a file descriptor the call returns after it.  *)
QuicWritePkt ==
  /\ call = "sending" /\ tx_queue # <<>> /\ Refused(tx_queue) = {}
  /\ out' = Datagram(tx_queue) /\ tx_queue' = Left
  /\ rwstate' = IF ~fd_mode /\ Left = <<>> THEN "FINISHED" ELSE "WRITING"
  /\ call' = IF fd_mode THEN "sending" ELSE "idle"
  /\ UNCHANGED <<dcid_len, fd_mode, over, early, lost>>

(* The socket refuses the datagram; its packets are gone from the queue. *)
WriteBytesFails ==
  /\ call = "sending" /\ tx_queue # <<>> /\ Refused(tx_queue) = {}
  /\ tx_queue' = Left
  /\ rwstate' = "WRITING" /\ call' = "idle"
  /\ UNCHANGED <<dcid_len, out, fd_mode, over, early, lost>>

SendReturns ==
  /\ call = "sending" /\ tx_queue = <<>>
  /\ rwstate' = IF rwstate = "WRITING" THEN "FINISHED" ELSE rwstate
  /\ call' = "idle"
  /\ UNCHANGED <<dcid_len, tx_queue, out, fd_mode, over, early, lost>>

(* What an application does on QUIC_ERROR_WANT_WRITE. *)
Retry == ~over /\ rwstate = "WRITING" /\ Enter

Build ==
  \E type \in Types, blocked \in BOOLEAN :
    \E len \in Small \cup {QuicFrameGetBuffLen(type, dcid_len)} :
      QuicFrameAddQueue(type, len, blocked)

Next ==
  \/ Enter \/ QuicStateMachineAct \/ \E b \in BOOLEAN : QuicStreamSendEarlyData(b)
  \/ Build \/ QuicUpdateDcid \/ QuicDatagramRecv \/ StreamRecvReturns
  \/ QuicSendPacket \/ Credit
  \/ WriteRefused \/ QuicWritePkt \/ WriteBytesFails \/ SendReturns

(* A call runs to its end, and an application that is told to write during the *)
(* handshake calls again.                                                      *)
Fairness ==
  /\ WF_vars(QuicSendPacket) /\ WF_vars(WriteRefused) /\ WF_vars(QuicWritePkt)
  /\ WF_vars(SendReturns) /\ WF_vars(Retry)

Spec == Init /\ [][Next]_vars
FairSpec == Spec /\ Fairness

-----------------------------------------------------------------------------
(* Properties. *)

(* No packet is refused for want of room, and only a DATA_BLOCKED frame for    *)
(* being too short: whatever stands in the queue, and although the peer's id   *)
(* may have changed since the buffers were made, the padding fits into the     *)
(* last buffer and the packets into mss bytes (the sizes QuicWritePkt,         *)
(* QuicLPacketBuild and QuicFrameGetBuffLen estimate agree).                   *)
DatagramFits ==
  /\ tx_queue # <<>> =>
       \A i \in 1..Count(tx_queue) :
         /\ Fits(tx_queue, i)
         /\ Sampled(tx_queue, i) \/ tx_queue[i].len < 3
  /\ out.len <= Mss

(* A datagram with an Initial packet has 1200 bytes, in whatever order packets *)
(* of the three spaces were queued, unless a short header ends it.             *)
InitialPadded == out.initial => out.len >= DatagramMin \/ out.short

(* A packet that cannot be sent never takes a piece of the handshake with it:  *)
(* QuicWritePkt forgets the packets in front of a refused one (core.c:80), and *)
(* only because QuicStateMachineAct does not end with a filled queue are these *)
(* never CRYPTO data.  QuicStreamSendEarlyData alone adds to a filled queue.   *)
BlockedLosesNoCrypto == lost => early

(* Every flight leaves in the end, one datagram for each call or all at once,  *)
(* if the application calls again when it is told to; unless early data has    *)
(* no credit, or the notice of that is too short for a packet.                 *)
FlightLeaves ==
  (~over /\ tx_queue # <<>>) ~>
    (tx_queue = <<>> \/ tx_queue[1].blocked \/ ~Sampled(tx_queue, 1))
====
