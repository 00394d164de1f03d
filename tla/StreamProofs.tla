---------------------------- MODULE StreamProofs ----------------------------
(* The type invariant of the stream layer holds in every behaviour: one lemma *)
(* per action, then the theorem TypeCorrect.  Then what the sending side      *)
(* promises: a new stream gets an id that was never used (OpensUnused), no    *)
(* frame is built beyond the bytes sent (NoGaps), and flow control holds as   *)
(* long as the comparison macros are exact (CreditRespected).  The second half *)
(* is what QuicStreamRecv and QuicStreamReadV promise a reader, for every     *)
(* table size, limit, frame and buffer length: the bytes come in order, each  *)
(* once (ReadsInOrder), a stream with readable data has a message, which is   *)
(* never for an unknown stream (WakeupsAreKept, MessagesFound), and the end   *)
(* of a stream comes after all its bytes (FinComesLast).  And what one step   *)
(* may never do: a stalled list moves no more (StalledListStays), and the     *)
(* states only move forward (StatesAdvance).  Last, that no byte is lost or   *)
(* counted twice on its way in (ReceivedIsCounted) and out (SentIsCounted).   *)
EXTENDS Stream, NumberProofs, SequenceTheorems

\* Half of the int range is a positive number, so twice it is the modulus of
\* the C conversions between uint64_t and int.
LEMMA HalfFacts == Half \in Nat /\ Half >= 1 /\ IntMod = 2 * Half
BY IntModAssumption DEF Half

\* A difference below INT_MAX + 1 survives the conversion to int that the
\* comparison macros make: QUIC_LT and its siblings then compare correctly.
LEMMA IntOfExact ==
    ASSUME NEW x \in Int, -Half <= x, x < Half
    PROVE  IntOf(x) = x
BY HalfFacts, CastExact DEF IntOf

\* The largest stream id a peer may open is an integer, whichever of the
\* initial limits QuicStreamIdGenInit takes it from.
LEMMA MaxIdValueInt == MaxIdValue \in Int
<1>1. \A n \in Nat, u, s \in BOOLEAN : ComputeMaxId(n, u, s) \in Int
  BY DEF ComputeMaxId, SetBit, Bit
<1>2. \A a, b \in Int : QUIC_MAX(a, b) \in Int
  BY DEF QUIC_MAX
<1>3. \A a, b \in Nat : QUIC_MAX(a, b) \in Nat
  BY DEF QUIC_MAX
<1> QED BY <1>1, <1>2, <1>3, StreamIdAssumption DEF MaxIdValue

\* Stream ids are natural numbers.
LEMMA IdsNat == Ids \subseteq Nat
BY MaxIdValueInt DEF Ids

\* What QuicStreamConfInit leaves is well typed.
LEMMA InitType == Init => TypeOK
<1> SUFFICES ASSUME Init PROVE TypeOK
  OBVIOUS
<1> USE StreamAssumption, StreamIdAssumption, IdsNat
<1>1. StateType /\ TableType BY DEF Init, StateType, TableType, RecvStates, SendStates
<1>2. InType /\ OutType BY DEF Init, InType, OutType
<1>3. CallType BY DEF Init, CallType, Pcs, ArgType, NoArg, Fetching, Reading
<1> QED BY <1>1, <1>2, <1>3 DEF TypeOK

\* Opening the receiving half of a stream keeps the array of states typed.
LEMMA RecvOpenedType ==
    ASSUME StateType, NEW id \in Nat
    PROVE  RecvOpened(id) \in [Ids -> RecvStates]
BY IdsNat DEF StateType, RecvOpened, RecvStates

\* QuicStreamGetInstance opens streams without leaving the state types.
LEMMA GetInstanceType ==
    ASSUME StateType, NEW id, GetInstance(id)
    PROVE  id \in Ids /\ max_id_opened' \in Nat /\ RecvOpened(id) \in [Ids -> RecvStates]
BY IdsNat, RecvOpenedType DEF GetInstance, Found, IdCheck, StateType

\* Leaving a public call puts the caller's state back to idle.
LEMMA ReturnType == ASSUME Return PROVE CallType'
BY DEF Return, CallType, NoArg, ArgType, Pcs, Reading, Fetching

\* QuicStreamOpen keeps the types.
LEMMA OpenType ==
    ASSUME TypeOK, NEW uni \in BOOLEAN, QuicStreamOpen(uni)
    PROVE  TypeOK'
<1> USE IdsNat, StreamAssumption, StreamIdAssumption DEF TypeOK, QuicStreamOpen
<1>1. StateType' BY DEF StateType, Allocate, CanOpen, RecvOpen, RecvStates, SendStates
<1>2. TableType' BY DEF TableType, Allocate
<1>3. OutType' BY DEF OutType, Allocate, CanOpen
<1>4. InType' BY DEF InType, inVars
<1>5. CallType' BY DEF CallType, callVars, inVars
<1> QED BY <1>1, <1>2, <1>3, <1>4, <1>5

\* Entering QuicStreamRecv keeps the types.
LEMMA RecvType ==
    ASSUME TypeOK, NEW id \in Ids, NEW len \in ReadLens, QuicStreamRecv(id, len)
    PROVE  TypeOK'
<1> USE IdsNat, StreamAssumption, StreamIdAssumption DEF TypeOK, QuicStreamRecv
<1>1. StateType' BY GetInstanceType DEF StateType
<1>2. TableType' BY DEF TableType, tableVars
<1>3. OutType' BY DEF OutType, outVars
<1>4. InType' BY DEF InType, inVars
<1>5. CallType' 
  <2>1. arg' \in ArgType /\ arg'.id = id /\ arg'.rlen = 0 /\ arg'.len \in Nat
    BY DEF NoArg, ArgType
  <2> QED BY <2>1 DEF CallType, Pcs, Reading
<1> QED BY <1>1, <1>2, <1>3, <1>4, <1>5

\* Entering QuicStreamReadV keeps the types.
LEMMA ReadVType ==
    ASSUME TypeOK, NEW len \in ReadLens, NEW n \in IovCounts, QuicStreamReadV(len, n)
    PROVE  TypeOK'
<1> USE IdsNat, StreamAssumption, StreamIdAssumption DEF TypeOK, QuicStreamReadV
<1>1. StateType' BY DEF StateType
<1>2. TableType' BY DEF TableType, tableVars
<1>3. OutType' BY DEF OutType, outVars
<1>4. InType' BY DEF InType, inVars
<1>5. CallType' 
  <2>1. arg' \in ArgType /\ arg'.rlen = 0
    BY DEF NoArg, ArgType
  <2>2. pc' \in {"readv", "readv_new"}
    OBVIOUS
  <2> QED BY <2>1, <2>2 DEF CallType, Pcs, Reading, Fetching
<1> QED BY <1>1, <1>2, <1>3, <1>4, <1>5

\* QuicStreamRecv returning what it read keeps the types.
LEMMA RecvNewDoneType ==
    ASSUME TypeOK, RecvNewDone
    PROVE  TypeOK'
<1> USE IdsNat, StreamAssumption, StreamIdAssumption DEF TypeOK, RecvNewDone
<1>1. StateType' BY DEF StateType
<1>2. TableType' BY DEF TableType, tableVars
<1>3. OutType' BY DEF OutType, outVars
<1>4. InType' BY DEF InType, inVars
<1>5. CallType' 
  <2>1. arg \in ArgType /\ arg.rlen = 0 /\ (pc = "recv_new" => arg.id \in Ids)
    BY DEF CallType, Fetching, Reading
  <2>2. arg.len \in Nat
    BY <2>1 DEF ArgType
  <2>3. (pc' = "reread" /\ pc = "recv_new") \/ pc' = "readv"
    BY DEF Fetching
  <2> QED BY <2>1, <2>2, <2>3 DEF CallType, Pcs, Reading, Fetching
<1> QED BY <1>1, <1>2, <1>3, <1>4, <1>5

\* QuicStreamRecv returning an error keeps the types.
LEMMA RecvNewFailType ==
    ASSUME TypeOK, RecvNewFail
    PROVE  TypeOK'
<1> USE IdsNat, StreamAssumption, StreamIdAssumption DEF TypeOK, RecvNewFail
<1>1. StateType' BY DEF StateType
<1>2. TableType' BY DEF TableType, tableVars
<1>3. OutType' BY DEF OutType, outVars
<1>4. InType' BY DEF InType, inVars
<1>5. CallType' BY ReturnType
<1> QED BY <1>1, <1>2, <1>3, <1>4, <1>5

\* A frame the parsers refuse keeps the types.
LEMMA RejectedType ==
    ASSUME TypeOK, NEW id \in Nat, FrameRejected(id)
    PROVE  TypeOK'
<1> USE IdsNat, StreamAssumption, StreamIdAssumption DEF TypeOK, FrameRejected
<1>1. StateType' BY GetInstanceType DEF StateType
<1>2. TableType' BY DEF TableType, tableVars
<1>3. OutType' BY DEF OutType, outVars
<1>4. InType' BY DEF InType, inVars
<1>5. CallType' BY ReturnType
<1> QED BY <1>1, <1>2, <1>3, <1>4, <1>5

\* QuicFrameResetStreamParser keeps the types.
LEMMA ResetType ==
    ASSUME TypeOK, NEW id \in Nat, QuicFrameResetStreamParser(id)
    PROVE  TypeOK'
<1> USE IdsNat, StreamAssumption, StreamIdAssumption DEF TypeOK, QuicFrameResetStreamParser
<1>1. StateType' BY GetInstanceType DEF StateType, RecvStates
<1>2. TableType' BY DEF TableType, tableVars
<1>3. OutType' BY DEF OutType, outVars
<1>4. InType' BY DEF InType, inVars
<1>5. CallType' BY DEF CallType, callVars, inVars
<1> QED BY <1>1, <1>2, <1>3, <1>4, <1>5

\* QuicFrameStopSendingParser keeps the types, whole or cut short.
LEMMA StopType ==
    ASSUME TypeOK, NEW id \in Nat, NEW whole \in BOOLEAN, QuicFrameStopSendingParser(id, whole)
    PROVE  TypeOK'
<1> USE IdsNat, StreamAssumption, StreamIdAssumption DEF TypeOK, QuicFrameStopSendingParser
<1>1. StateType' 
  <2>1. id \in Ids /\ max_id_opened' \in Nat /\ RecvOpened(id) \in [Ids -> RecvStates]
    BY GetInstanceType
  <2>2. RecvOpen(RecvOpened(id), id) \in [Ids -> RecvStates]
    BY <2>1 DEF RecvOpen, RecvStates
  <2>3. send_state' \in [Ids -> SendStates]
    BY DEF StateType, SendStates
  <2>4. recv_state' \in [Ids -> RecvStates]
    BY <2>1, <2>2
  <2> QED BY <2>1, <2>3, <2>4 DEF StateType
<1>2. TableType' BY DEF TableType, tableVars
<1>3. OutType' BY DEF OutType, outVars
<1>4. InType' BY DEF InType, inVars
<1>5. CallType' 
  <2>1. CASE UNCHANGED callVars
    BY <2>1 DEF CallType, callVars, inVars
  <2>2. CASE Return
    BY <2>2, ReturnType
  <2> QED BY <2>1, <2>2
<1> QED BY <1>1, <1>2, <1>3, <1>4, <1>5

\* QuicFrameStreamDataBlockedParser keeps the types.
LEMMA DataBlockedType ==
    ASSUME TypeOK, NEW id \in Nat, QuicFrameStreamDataBlockedParser(id)
    PROVE  TypeOK'
<1> USE IdsNat, StreamAssumption, StreamIdAssumption DEF TypeOK, QuicFrameStreamDataBlockedParser
<1>1. StateType' BY GetInstanceType DEF StateType, RecvOpen, RecvStates
<1>2. TableType' BY DEF TableType, tableVars
<1>3. OutType' BY DEF OutType, outVars
<1>4. InType' BY DEF InType, inVars
<1>5. CallType' BY DEF CallType, callVars, inVars
<1> QED BY <1>1, <1>2, <1>3, <1>4, <1>5

\* QuicFrameMaxStreamDataParser keeps the types.
LEMMA MaxStreamDataType ==
    ASSUME TypeOK, NEW id \in Nat, NEW v \in DataCredits, QuicFrameMaxStreamDataParser(id, v)
    PROVE  TypeOK'
<1> USE IdsNat, StreamAssumption, StreamIdAssumption DEF TypeOK, QuicFrameMaxStreamDataParser
<1>1. StateType' BY GetInstanceType DEF StateType
<1>2. TableType' BY DEF TableType, tableVars
<1>3. OutType' BY GetInstanceType DEF OutType
<1>4. InType' BY DEF InType, inVars
<1>5. CallType' BY DEF CallType, callVars, inVars
<1> QED BY <1>1, <1>2, <1>3, <1>4, <1>5

\* QuicFrameMaxDataParser keeps the types.
LEMMA MaxDataType ==
    ASSUME TypeOK, NEW v \in DataCredits, QuicFrameMaxDataParser(v)
    PROVE  TypeOK'
<1> USE IdsNat, StreamAssumption, StreamIdAssumption DEF TypeOK, QuicFrameMaxDataParser
<1>1. StateType' BY DEF StateType
<1>2. TableType' BY DEF TableType, tableVars
<1>3. OutType' BY DEF OutType, Raise
<1>4. InType' BY DEF InType, inVars
<1>5. CallType' BY DEF CallType, callVars, inVars
<1> QED BY <1>1, <1>2, <1>3, <1>4, <1>5

\* The MAX_STREAMS parsers keep the types.
LEMMA MaxStreamsType ==
    ASSUME TypeOK, NEW uni \in BOOLEAN, NEW v \in StreamCredits, QuicFrameMaxStreamsParser(uni, v)
    PROVE  TypeOK'
<1> USE IdsNat, StreamAssumption, StreamIdAssumption DEF TypeOK, QuicFrameMaxStreamsParser
<1>1. StateType' BY DEF StateType
<1>2. TableType' BY DEF TableType, Raise
<1>3. OutType' BY DEF OutType, outVars
<1>4. InType' BY DEF InType, inVars
<1>5. CallType' BY DEF CallType, callVars, inVars
<1> QED BY <1>1, <1>2, <1>3, <1>4, <1>5

\* QuicStreamSend refusing a stream keeps the types.
LEMMA SendRefusedType ==
    ASSUME TypeOK, NEW id \in Ids, QuicStreamSendRefused(id)
    PROVE  TypeOK'
<1> USE IdsNat, StreamAssumption, StreamIdAssumption DEF TypeOK, QuicStreamSendRefused
<1>1. StateType' BY GetInstanceType DEF StateType
<1>2. TableType' BY DEF TableType, tableVars
<1>3. OutType' BY DEF OutType, outVars
<1>4. InType' BY DEF InType, inVars
<1>5. CallType' BY DEF CallType, callVars, inVars
<1> QED BY <1>1, <1>2, <1>3, <1>4, <1>5

\* The next turn of the loop of QuicStreamReadV keeps the types.
LEMMA ReadVNextType ==
    ASSUME TypeOK, ReadVNext
    PROVE  TypeOK'
<1> USE IdsNat, StreamAssumption, StreamIdAssumption DEF TypeOK, ReadVNext
<1>1. StateType' BY GetInstanceType DEF StateType
<1>2. TableType' BY DEF TableType, tableVars
<1>3. OutType' BY DEF OutType, outVars
<1>4. InType' BY DEF InType, inVars
<1>5. CallType' 
  <2>1. msg_queue # <<>> /\ Head(msg_queue) \in Ids
    BY DEF InType
  <2>2. arg' \in ArgType /\ arg'.id = Head(msg_queue) /\ arg'.rlen = 0
            /\ arg'.left > 0 /\ arg'.len \in Nat
    BY <2>1 DEF CallType, ArgType, Reading
  <2> QED BY <2>1, <2>2 DEF CallType, Pcs, Reading, inVars
<1> QED BY <1>1, <1>2, <1>3, <1>4, <1>5

\* QuicStreamReadV returning keeps the types.
LEMMA ReadVDoneType ==
    ASSUME TypeOK, ReadVDone
    PROVE  TypeOK'
<1> USE IdsNat, StreamAssumption, StreamIdAssumption DEF TypeOK, ReadVDone
<1>1. StateType' BY DEF StateType
<1>2. TableType' BY DEF TableType, tableVars
<1>3. OutType' BY DEF OutType, outVars
<1>4. InType' BY DEF InType, inVars
<1>5. CallType' BY ReturnType
<1> QED BY <1>1, <1>2, <1>3, <1>4, <1>5

\* QuicStreamSend returning keeps the types.
LEMMA SendDoneType ==
    ASSUME TypeOK, QuicSendDone
    PROVE  TypeOK'
<1> USE IdsNat, StreamAssumption, StreamIdAssumption DEF TypeOK, QuicSendDone
<1>1. StateType' BY DEF StateType
<1>2. TableType' BY DEF TableType, tableVars
<1>3. OutType' BY DEF OutType, outVars
<1>4. InType' BY DEF InType, inVars
<1>5. CallType' BY ReturnType
<1> QED BY <1>1, <1>2, <1>3, <1>4, <1>5

\* The FIN handling of the STREAM frame parser leaves a receive state.
LEMMA AfterFinType ==
    ASSUME StateType, NEW id, GetInstance(id), NEW fin
    PROVE  AfterFin(id, fin) \in RecvStates
BY GetInstanceType DEF AfterFin, RecvStates

\* A STREAM frame cut short, whose FIN bit has counted, keeps the types.
LEMMA TruncatedType ==
    ASSUME TypeOK, NEW id \in Nat, NEW fin \in BOOLEAN, QuicFrameStreamTruncated(id, fin)
    PROVE  TypeOK'
<1> USE IdsNat, StreamAssumption DEF TypeOK, QuicFrameStreamTruncated
<1>1. StateType'
  BY GetInstanceType, AfterFinType DEF StateType, PeerStarted, SendStates
<1>2. TableType' BY DEF TableType, tableVars
<1>3. OutType' BY DEF OutType, outVars
<1>4. InType' BY GetInstanceType DEF InType
<1>5. CallType' BY ReturnType
<1> QED BY <1>1, <1>2, <1>3, <1>4, <1>5

\* The part of a frame that is queued is a segment: its bytes are named by
\* their positions, and cutting leaves at least one unless the frame is empty.
LEMMA FreshType ==
    ASSUME InType, NEW id \in Ids, NEW f \in Segments, ~Retransmitted(id, f)
    PROVE  /\ Fresh(id, f) \in SegmentType
           /\ Fresh(id, f).len \in Nat
           /\ Fresh(id, f).pos = Fresh(id, f).offset
           /\ Fresh(id, f).offset >= offset[id]
<1>1. offset[id] \in Nat /\ f.offset \in Nat /\ f.len \in Nat
  BY StreamAssumption DEF InType
<1>2. offset[id] < f.offset + f.len
  BY <1>1 DEF Retransmitted
<1> QED BY <1>1, <1>2 DEF Fresh, SegmentType

\* QuicStreamDataAdd queues a segment of the right shape.
LEMMA DataAddType ==
    ASSUME TypeOK, NEW id \in Ids, NEW f \in Segments, GetInstance(id),
           NEW r \in RecvStates, DataAdd(id, f, r)
    PROVE  /\ queue' \in [Ids -> Seq(SegmentType)]
           /\ recvd' \in [Ids -> Nat] /\ total_recvd' \in Nat
           /\ recv_state' \in [Ids -> RecvStates]
           /\ lost' \in SUBSET Ids
<1> USE DEF TypeOK
<1>1. CASE Accepted(id, f)
  <2>1. Fresh(id, f) \in SegmentType /\ Fresh(id, f).len \in Nat
    BY <1>1, FreshType DEF Accepted
  <2>2. queue' \in [Ids -> Seq(SegmentType)]
    <3>1. queue[id] \in Seq(SegmentType)
      BY DEF InType
    <3>2. Append(queue[id], Fresh(id, f)) \in Seq(SegmentType)
      BY <2>1, <3>1
    <3> QED BY <1>1, <3>2 DEF DataAdd, InType
  <2>3. recvd' \in [Ids -> Nat] /\ total_recvd' \in Nat
    BY <1>1, <2>1 DEF DataAdd, InType
  <2>4. recv_state' \in [Ids -> RecvStates]
    BY GetInstanceType DEF DataAdd, RecvStates
  <2>5. lost' \in SUBSET Ids
    BY DEF DataAdd, InType
  <2> QED BY <2>2, <2>3, <2>4, <2>5
<1>2. CASE ~Accepted(id, f)
  <2>1. recv_state' \in [Ids -> RecvStates]
    BY GetInstanceType DEF DataAdd, RecvStates
  <2>2. lost' \in SUBSET Ids
    BY DEF DataAdd, InType
  <2> QED BY <1>2, <2>1, <2>2 DEF DataAdd, InType
<1> QED BY <1>1, <1>2

\* QuicFrameStreamParser keeps the types.
LEMMA StreamFrameType ==
    ASSUME TypeOK, NEW id \in Nat, NEW f \in Segments, QuicFrameStreamParser(id, f)
    PROVE  TypeOK'
<1> DEFINE r == IF AfterFin(id, f.fin) = "START" THEN "RECV" ELSE AfterFin(id, f.fin)
<1> USE IdsNat, StreamAssumption DEF TypeOK
<1>0. /\ GetInstance(id) /\ id \in Ids /\ r \in RecvStates
      /\ max_id_opened' \in Nat /\ RecvOpened(id) \in [Ids -> RecvStates]
  BY GetInstanceType, AfterFinType DEF QuicFrameStreamParser, RecvStates
<1>1. send_state' \in [Ids -> SendStates]
  BY <1>0 DEF QuicFrameStreamParser, StateType, PeerStarted, SendStates
<1>2. TableType' BY DEF TableType, tableVars, QuicFrameStreamParser
<1>3. OutType' BY DEF OutType, outVars, QuicFrameStreamParser
<1>4. CASE DataAdd(id, f, r) /\ Notify(id)
  <2> HIDE DEF r
  <2>1. /\ queue' \in [Ids -> Seq(SegmentType)]
        /\ recvd' \in [Ids -> Nat] /\ total_recvd' \in Nat
        /\ recv_state' \in [Ids -> RecvStates]
        /\ lost' \in SUBSET Ids
    BY <1>0, <1>4, DataAddType
  <2>2. msg_queue' \in Seq(Ids) /\ notified' \in SUBSET Ids
    BY <1>0, <1>4 DEF Notify, InType
  <2>3. UNCHANGED <<offset, app, fin_told, callVars>> /\ pc \in Fetching
    BY DEF QuicFrameStreamParser
  <2>4. StateType' BY <1>0, <1>1, <2>1 DEF StateType
  <2>5. InType' BY <2>1, <2>2, <2>3 DEF InType
  <2>6. CallType' BY <2>3 DEF CallType, callVars, Fetching, Reading
  <2> QED BY <1>2, <1>3, <2>4, <2>5, <2>6
<1>5. CASE /\ recv_state' = RecvOpened(id)
           /\ UNCHANGED <<queue, recvd, total_recvd, msg_queue, notified, lost>>
  <2>1. UNCHANGED <<offset, app, fin_told, callVars>>
    BY DEF QuicFrameStreamParser
  <2>2. StateType' BY <1>0, <1>1, <1>5 DEF StateType
  <2>3. InType' BY <1>5, <2>1 DEF InType
  <2>4. CallType' BY <1>5, <2>1 DEF CallType, callVars
  <2> QED BY <1>2, <1>3, <2>2, <2>3, <2>4
<1> QED BY <1>4, <1>5 DEF QuicFrameStreamParser

\* What one iteration of QuicStreamReadData copies: some bytes of the segment,
\* no more than the buffer still holds, and at least one of a non-empty one.
LEMMA CopyBytesType ==
    ASSUME TypeOK, ReadSegment
    PROVE  /\ arg.id \in Ids /\ arg.rlen \in Nat /\ arg.len \in Nat
           /\ queue[arg.id] \in Seq(SegmentType) /\ queue[arg.id] # <<>>
           /\ Head(queue[arg.id]) \in SegmentType
           /\ Head(queue[arg.id]).offset = offset[arg.id]
           /\ CopyBytes(Head(queue[arg.id])) \in 0 .. Head(queue[arg.id]).len
           /\ arg.rlen + CopyBytes(Head(queue[arg.id])) <= arg.len
           /\ CopyBytes(Head(queue[arg.id])) = 0 => Head(queue[arg.id]).len = 0
<1> USE DEF TypeOK
<1>1. arg.id \in Ids /\ arg.rlen \in Nat /\ arg.len \in Nat /\ arg.rlen <= arg.len
  BY DEF ReadSegment, CallType, ArgType
<1>2. /\ queue[arg.id] \in Seq(SegmentType) /\ queue[arg.id] # <<>>
      /\ Head(queue[arg.id]).offset = offset[arg.id]
  BY <1>1 DEF ReadSegment, Readable, InType
<1>3. Head(queue[arg.id]) \in SegmentType
  BY <1>2
<1>4. Head(queue[arg.id]).len \in Nat
  BY <1>3 DEF SegmentType
<1>5. CopyBytes(Head(queue[arg.id])) > 0 \/ Head(queue[arg.id]).len = 0
  BY DEF ReadSegment
<1>6. /\ CopyBytes(Head(queue[arg.id])) \in 0 .. Head(queue[arg.id]).len
      /\ arg.rlen + CopyBytes(Head(queue[arg.id])) <= arg.len
  BY <1>1, <1>4 DEF CopyBytes
<1>7. CopyBytes(Head(queue[arg.id])) = 0 => Head(queue[arg.id]).len = 0
  BY <1>5, <1>6, <1>4
<1> QED BY <1>1, <1>2, <1>3, <1>6, <1>7

\* A segment that was read in part is still a segment; one read whole is gone.
LEMMA AfterCopyType ==
    ASSUME NEW q \in Seq(SegmentType), q # <<>>, NEW n \in 0 .. Head(q).len
    PROVE  AfterCopy(q, n) \in Seq(SegmentType)
<1>1. Head(q) \in SegmentType /\ Tail(q) \in Seq(SegmentType)
  OBVIOUS
<1>2. [Head(q) EXCEPT !.pos = @ + n, !.len = @ - n] \in SegmentType
  <2>1. PICK h \in SegmentType : h = Head(q)
    BY <1>1
  <2>2. h.pos + n \in Nat /\ h.len - n \in Nat
    BY <2>1 DEF SegmentType
  <2>3. \A a, b \in Nat : [h EXCEPT !.pos = a, !.len = b] \in SegmentType
    BY DEF SegmentType
  <2>4. [h EXCEPT !.pos = h.pos + n, !.len = h.len - n] \in SegmentType
    BY <2>2, <2>3
  <2> QED BY <2>1, <2>4
<1>3. <<[Head(q) EXCEPT !.pos = @ + n, !.len = @ - n]>> \in Seq(SegmentType)
  BY <1>2
<1> QED BY <1>1, <1>3 DEF AfterCopy

\* One iteration of the loop of QuicStreamReadData keeps the types.
LEMMA ReadSegmentType ==
    ASSUME TypeOK, ReadSegment
    PROVE  TypeOK'
<1> DEFINE id == arg.id
           sd == Head(queue[id])
           n == CopyBytes(sd)
<1> USE DEF TypeOK
<1>0. /\ id \in Ids /\ arg.rlen \in Nat /\ arg.len \in Nat
      /\ queue[id] \in Seq(SegmentType) /\ queue[id] # <<>>
      /\ sd \in SegmentType /\ n \in 0 .. sd.len /\ arg.rlen + n <= arg.len
  BY CopyBytesType
<1>1. sd.pos \in Nat /\ sd.len \in Nat /\ n \in Nat
  BY <1>0 DEF SegmentType
<1>2. StateType' BY DEF StateType, ReadSegment
<1>3. TableType' BY DEF TableType, tableVars, ReadSegment
<1>4. OutType' BY DEF OutType, outVars, ReadSegment
<1>5. queue' \in [Ids -> Seq(SegmentType)]
  <2>1. AfterCopy(queue[id], n) \in Seq(SegmentType)
    BY <1>0, AfterCopyType
  <2> QED BY <1>0, <2>1 DEF InType, ReadSegment
<1>6. app' \in [Ids -> Seq(Nat)]
  <2> HIDE DEF n
  <2>1. [i \in 1 .. n |-> sd.pos + i - 1] \in Seq(Nat)
    BY <1>1, IsASeq
  <2>2. app[id] \o [i \in 1 .. n |-> sd.pos + i - 1] \in Seq(Nat)
    BY <1>0, <2>1 DEF InType
  <2>3. app' = [app EXCEPT ![id] = @ \o [i \in 1 .. n |-> sd.pos + i - 1]]
    BY DEF ReadSegment, n
  <2> QED BY <1>0, <2>2, <2>3 DEF InType
<1>7. offset' \in [Ids -> Nat]
  BY <1>0, <1>1 DEF InType, ReadSegment
<1>8. InType'
  BY <1>5, <1>6, <1>7 DEF InType, ReadSegment
<1>9. CallType'
  <2> HIDE DEF n
  <2>1. arg' = [arg EXCEPT !.rlen = @ + n, !.brk = (arg.rlen + n = arg.len)]
    BY DEF ReadSegment, n
  <2>2. arg \in ArgType
    BY DEF CallType
  <2>3. arg' \in ArgType
    <3>1. \A a \in Nat, b \in BOOLEAN : [arg EXCEPT !.rlen = a, !.brk = b] \in ArgType
      BY <2>2 DEF ArgType
    <3>2. arg.rlen + n \in Nat
      BY <1>0, <1>1
    <3>3. PICK b \in BOOLEAN : b = (arg.rlen + n = arg.len)
      OBVIOUS
    <3>4. arg' = [arg EXCEPT !.rlen = arg.rlen + n, !.brk = b]
      BY <2>1, <3>3
    <3> QED BY <3>1, <3>2, <3>4
  <2>4. /\ arg'.id = arg.id /\ arg'.left = arg.left /\ arg'.len = arg.len
        /\ arg'.rlen = arg.rlen + n
    BY <2>1 DEF CallType, ArgType
  <2>5. UNCHANGED <<pc, msg_queue>> /\ pc \in Reading
    BY DEF ReadSegment
  <2> QED BY <1>0, <2>3, <2>4, <2>5 DEF CallType
<1> QED BY <1>2, <1>3, <1>4, <1>8, <1>9

\* Leaving the loop of QuicStreamReadData keeps the types.
LEMMA ReadEndType ==
    ASSUME TypeOK, ReadEnd
    PROVE  TypeOK'
<1> DEFINE finished == queue[arg.id] = <<>> /\ recv_state[arg.id] = "DATA_RECVD"
           flag == arg.fin \/ finished
           got == arg.rlen > 0
<1> USE DEF TypeOK
<1>0. arg \in ArgType /\ arg.id \in Ids /\ pc \in Reading
  BY DEF ReadEnd, ShortRead, CallType
<1>1. StateType' BY <1>0 DEF StateType, ReadEnd, RecvStates
<1>2. TableType' BY DEF TableType, tableVars, ReadEnd
<1>3. OutType' BY DEF OutType, outVars, ReadEnd
<1>4. notified' \in SUBSET Ids /\ fin_told' \in SUBSET Ids
  BY <1>0 DEF InType, ReadEnd
<1>5. CASE /\ pc = "read" /\ ~got /\ pc' = "recv_new" /\ UNCHANGED msg_queue
           /\ arg' = [arg EXCEPT !.fin = flag, !.brk = FALSE]
  <2>1. InType' BY <1>4, <1>5 DEF InType, ReadEnd
  <2>2. flag \in BOOLEAN BY <1>0 DEF ArgType
  <2> HIDE DEF flag
  <2>3. arg' \in ArgType /\ arg'.id = arg.id /\ arg'.rlen = arg.rlen
    BY <1>0, <1>5, <2>2 DEF ArgType
  <2>4. arg.rlen = 0
    BY <1>0, <1>5 DEF ArgType
  <2>5. CallType' BY <1>0, <1>5, <2>3, <2>4 DEF CallType, Pcs, Reading, Fetching
  <2> QED BY <1>1, <1>2, <1>3, <2>1, <2>5
<1>6. CASE Return /\ UNCHANGED msg_queue
  <2>1. InType' BY <1>4, <1>6 DEF InType, ReadEnd
  <2>2. CallType' BY <1>6, ReturnType
  <2> QED BY <1>1, <1>2, <1>3, <2>1, <2>2
<1>7. CASE /\ pc = "readv_read" /\ pc' = "readv"
           /\ arg' = [NoArg EXCEPT !.len = arg.len, !.fin = flag,
                         !.left = IF got THEN arg.left - 1 ELSE arg.left]
           /\ msg_queue' = IF ShortRead THEN Tail(msg_queue) ELSE msg_queue
  <2>1. msg_queue # <<>> /\ arg.left > 0
    BY <1>7 DEF CallType
  <2>2. msg_queue' \in Seq(Ids)
    BY <1>7, <2>1 DEF InType
  <2>3. InType' BY <1>4, <2>2 DEF InType, ReadEnd
  <2>4. flag \in BOOLEAN BY <1>0 DEF ArgType
  <2>5. (IF got THEN arg.left - 1 ELSE arg.left) \in Nat /\ arg.len \in Nat
    BY <1>0, <2>1 DEF ArgType
  <2> HIDE DEF flag, got
  <2>6. arg' \in ArgType /\ arg'.rlen = 0
    BY <1>7, <2>4, <2>5 DEF ArgType, NoArg
  <2>7. CallType' BY <1>7, <2>6 DEF CallType, Pcs, Reading, Fetching
  <2> QED BY <1>1, <1>2, <1>3, <2>3, <2>7
<1> QED BY <1>5, <1>6, <1>7 DEF ReadEnd

\* Every packet QuicFrameStreamWrite cuts carries a non-negative number of
\* bytes: the rounding in Chunks never makes a packet past the end of the data.
LEMMA ChunkLenType ==
    ASSUME NEW len \in Nat, NEW room \in 1 .. FrameCap,
           NEW k \in 1 .. Chunks(len, room)
    PROVE  ChunkLen(len, room, k) \in Nat
<1>0. FrameCap \in Nat /\ FrameCap > 0
  BY StreamAssumption
<1>1. CASE k = 1
  BY <1>0, <1>1 DEF ChunkLen
<1>2. CASE k # 1
  <2> DEFINE d == (len - room + FrameCap - 1) \div FrameCap
  <2>1. len > room /\ k - 2 \in Nat /\ k - 2 <= d - 1
    BY <1>0, <1>2 DEF Chunks
  <2>2. d \in Int /\ FrameCap * d <= len - room + FrameCap - 1
    BY <1>0, <2>1
  <2> HIDE DEF d
  <2>3. FrameCap * (k - 2) <= FrameCap * (d - 1)
    BY <1>0, <2>1, <2>2
  <2>4. FrameCap * (d - 1) = FrameCap * d - FrameCap
    BY <1>0, <2>2
  <2>5. FrameCap * (k - 2) \in Nat /\ FrameCap * (k - 2) <= len - room - 1
    BY <1>0, <2>1, <2>2, <2>3, <2>4
  <2>6. ASSUME NEW m \in Nat, m = FrameCap * (k - 2)
        PROVE  ChunkLen(len, room, k) \in Nat
    BY <1>0, <1>2, <2>5, <2>6 DEF ChunkLen
  <2> QED BY <2>5, <2>6
<1> QED BY <1>1, <1>2

\* QuicStreamFrameBuild makes a sequence of STREAM buffers of the given stream.
LEMMA FrameBuildType ==
    ASSUME OutType, NEW id \in Ids, NEW len \in Nat, NEW room \in 1 .. FrameCap
    PROVE  QuicStreamFrameBuild(id, len, room) \in Seq(BufferType)
<1>1. Chunks(len, room) \in Nat
  <2>0. FrameCap \in Nat /\ FrameCap > 0
    BY StreamAssumption
  <2>1. CASE len > room
    <3>1. (len - room + FrameCap - 1) \div FrameCap \in Nat
      BY <2>0, <2>1
    <3> QED BY <2>0, <2>1, <3>1 DEF Chunks
  <2> QED BY <2>0, <2>1 DEF Chunks
<1>2. ASSUME NEW k \in 1 .. Chunks(len, room)
      PROVE  [type |-> "STREAM", id |-> id, offset |-> sent[id],
              len |-> ChunkLen(len, room, k)] \in BufferType
  BY ChunkLenType, IdsNat DEF OutType, BufferType
<1> QED BY <1>1, <1>2, IsASeq DEF QuicStreamFrameBuild

\* QuicStreamSend queueing its frames keeps the types.
LEMMA SendType ==
    ASSUME TypeOK, NEW id \in Ids, NEW len \in SendLens, NEW room \in FirstRooms,
           QuicStreamSend(id, len, room)
    PROVE  TypeOK'
<1> USE IdsNat, StreamAssumption DEF TypeOK
<1>0. len \in Nat /\ room \in 1 .. FrameCap
  OBVIOUS
<1>1. StateType'
  BY GetInstanceType DEF StateType, QuicStreamSend, SendStates
<1>2. TableType' BY DEF TableType, tableVars, QuicStreamSend
<1>3. InType' BY DEF InType, inVars, QuicStreamSend
<1>4. OutType'
  <2>1. QuicStreamFrameBuild(id, len, room) \in Seq(BufferType)
    BY <1>0, FrameBuildType
  <2>2. tx_queue' \in Seq(BufferType)
    BY <2>1 DEF QuicStreamSend, OutType
  <2>3. written' \in [Ids -> Nat]
    BY <1>0 DEF QuicStreamSend, OutType
  <2> QED BY <2>2, <2>3 DEF QuicStreamSend, OutType
<1>5. CallType'
  BY DEF QuicStreamSend, CallType, NoArg, ArgType, Pcs, Reading, Fetching
<1> QED BY <1>1, <1>2, <1>3, <1>4, <1>5

\* QuicStreamSendEarlyData keeps the types.
LEMMA SendEarlyDataType ==
    ASSUME TypeOK, NEW uni \in BOOLEAN, NEW len \in SendLens, NEW room \in FirstRooms,
           QuicStreamSendEarlyData(uni, len, room)
    PROVE  TypeOK'
<1> USE IdsNat, StreamAssumption, StreamIdAssumption DEF TypeOK
<1>0. len \in Nat /\ room \in 1 .. FrameCap /\ NextId(uni) \in Ids
  BY DEF QuicStreamSendEarlyData, Allocate, CanOpen
<1>1. StateType'
  <2>1. RecvOpened(NextId(uni)) \in [Ids -> RecvStates]
    BY <1>0, RecvOpenedType
  <2>2. recv_state' \in [Ids -> RecvStates]
    BY <1>0, <2>1 DEF QuicStreamSendEarlyData, RecvOpen, RecvStates
  <2>3. send_state' \in [Ids -> SendStates] /\ max_id_opened' \in Nat
    BY <1>0 DEF QuicStreamSendEarlyData, StateType, SendStates
  <2> QED BY <2>2, <2>3 DEF StateType
<1>2. TableType' BY DEF TableType, QuicStreamSendEarlyData, Allocate
<1>3. InType' BY DEF InType, inVars, QuicStreamSendEarlyData
<1>4. OutType'
  <2>1. QuicStreamFrameBuild(NextId(uni), len, room) \in Seq(BufferType)
    BY <1>0, FrameBuildType
  <2>2. tx_queue' \in Seq(BufferType)
    BY <2>1 DEF QuicStreamSendEarlyData, OutType
  <2>3. written' = [written EXCEPT ![NextId(uni)] = @ + len]
    BY DEF QuicStreamSendEarlyData
  <2>4. written' \in [Ids -> Nat]
    <3>1. written \in [Ids -> Nat] BY DEF OutType
    <3>2. ASSUME NEW i \in Ids, NEW n \in Nat
          PROVE  [written EXCEPT ![i] = @ + n] \in [Ids -> Nat]
      BY <3>1
    <3> QED BY <1>0, <2>3, <3>2
  <2>5. max_stream_data' \in [Ids -> Nat]
    BY <1>0 DEF QuicStreamSendEarlyData, Allocate, OutType
  <2> QED BY <2>2, <2>4, <2>5 DEF QuicStreamSendEarlyData, OutType
<1>5. CallType'
  BY DEF QuicStreamSendEarlyData, CallType, NoArg, ArgType, Pcs, Reading, Fetching
<1> QED BY <1>1, <1>2, <1>3, <1>4, <1>5

\* What flow control lets go is counted in the types.
LEMMA FlowCtrlType ==
    ASSUME TypeOK, tx_queue # <<>>, SendFlowCtrl(Head(tx_queue)), UNCHANGED send_state
    PROVE  StateType' /\ sent' \in [Ids -> Nat] /\ total_sent' \in Nat
<1> DEFINE f == Head(tx_queue)
<1> USE DEF TypeOK
<1>1. f.len \in Nat
  <2>1. f \in BufferType
    BY DEF OutType
  <2> QED BY <2>1 DEF BufferType
<1>2. CASE /\ GetInstance(f.id) /\ recv_state' = RecvOpened(f.id)
           /\ sent' = [sent EXCEPT ![f.id] = @ + f.len]
           /\ total_sent' = total_sent + f.len
  <2>1. /\ f.id \in Ids /\ max_id_opened' \in Nat
        /\ RecvOpened(f.id) \in [Ids -> RecvStates]
    BY <1>2, GetInstanceType
  <2>2. StateType' BY <1>2, <2>1 DEF StateType
  <2>3. sent \in [Ids -> Nat] /\ total_sent \in Nat
    BY DEF OutType
  <2>4. ASSUME NEW i \in Ids, NEW n \in Nat
        PROVE  [sent EXCEPT ![i] = @ + n] \in [Ids -> Nat]
    BY <2>3
  <2> HIDE DEF f
  <2>5. sent' \in [Ids -> Nat]
    BY <1>1, <1>2, <2>1, <2>4
  <2>6. total_sent' \in Nat
    BY <1>1, <1>2, <2>3
  <2> QED BY <2>2, <2>5, <2>6
<1>3. CASE UNCHANGED <<max_id_opened, recv_state, sent, total_sent>>
  BY <1>3 DEF StateType, OutType
<1> QED BY <1>2, <1>3 DEF SendFlowCtrl

\* QuicWritePkt taking one buffer off the queue keeps the types.
LEMMA WritePktType ==
    ASSUME TypeOK, QuicWritePkt
    PROVE  TypeOK'
<1> USE DEF TypeOK
<1>0. tx_queue' \in Seq(BufferType)
  BY DEF QuicWritePkt, OutType
<1>1. StateType' /\ sent' \in [Ids -> Nat] /\ total_sent' \in Nat
  BY FlowCtrlType DEF QuicWritePkt
<1>2. TableType' BY DEF TableType, tableVars, QuicWritePkt
<1>3. InType' BY DEF InType, inVars, QuicWritePkt
<1>4. CallType'
  <2>1. CASE UNCHANGED callVars
    BY <2>1 DEF QuicWritePkt, CallType, callVars, inVars
  <2>2. CASE Return
    BY <2>2, ReturnType
  <2> QED BY <2>1, <2>2 DEF QuicWritePkt
<1>5. OutType' BY <1>0, <1>1 DEF OutType, QuicWritePkt
<1> QED BY <1>1, <1>2, <1>3, <1>4, <1>5

\* A buffer that is counted and cannot be built keeps the types.
LEMMA BuildFailsType ==
    ASSUME TypeOK, QuicBuildFails
    PROVE  TypeOK'
<1> DEFINE f == Head(tx_queue)
<1> USE DEF TypeOK
<1>1. StateType' /\ sent' \in [Ids -> Nat] /\ total_sent' \in Nat
  BY FlowCtrlType DEF QuicBuildFails
<1>2. TableType' BY DEF TableType, tableVars, QuicBuildFails
<1>3. InType' BY DEF InType, inVars, QuicBuildFails
<1>4. CallType' BY ReturnType DEF QuicBuildFails
<1>5. recounted' \in [Ids -> Nat]
  <2>1. recounted \in [Ids -> Nat] /\ recounted' = [recounted EXCEPT ![f.id] = @ + f.len]
    BY DEF OutType, QuicBuildFails
  <2>2. f.len \in Nat
    <3>1. f \in BufferType
      BY DEF OutType, QuicBuildFails
    <3> QED BY <3>1 DEF BufferType
  <2>3. ASSUME NEW i, NEW n \in Nat
        PROVE  [recounted EXCEPT ![i] = @ + n] \in [Ids -> Nat]
    <3>1. recounted \in [Ids -> Nat]
      BY <2>1
    <3>2. CASE i \in Ids
      BY <3>1, <3>2
    <3>3. CASE i \notin Ids
      <4>1. [recounted EXCEPT ![i] = @ + n] = recounted
        BY <3>1, <3>3
      <4> QED BY <3>1, <4>1
    <3> QED BY <3>2, <3>3
  <2> HIDE DEF f
  <2> QED BY <2>1, <2>2, <2>3
<1>6. OutType' BY <1>1, <1>5 DEF OutType, QuicBuildFails
<1> QED BY <1>1, <1>2, <1>3, <1>4, <1>6

\* QuicWritePkt held back by flow control keeps the types.
LEMMA WriteBlockedType ==
    ASSUME TypeOK, QuicWriteBlocked
    PROVE  TypeOK'
<1> DEFINE f == Head(tx_queue)
           blocked == IF StreamBlocked(f)
                      THEN [type |-> "STREAM_DATA_BLOCKED", id |-> f.id,
                            offset |-> sent[f.id], len |-> 0]
                      ELSE [type |-> "DATA_BLOCKED", id |-> f.id,
                            offset |-> total_sent, len |-> 0]
<1> USE IdsNat DEF TypeOK
<1>0. /\ f.id \in Ids /\ max_id_opened' \in Nat
      /\ RecvOpened(f.id) \in [Ids -> RecvStates]
  BY GetInstanceType DEF QuicWriteBlocked
<1>1. StateType'
  BY <1>0 DEF StateType, QuicWriteBlocked, SendStates
<1>2. TableType' BY DEF TableType, tableVars, QuicWriteBlocked
<1>3. InType' BY DEF InType, inVars, QuicWriteBlocked
<1>4. OutType'
  <2>1. blocked \in BufferType
    BY <1>0 DEF BufferType, OutType
  <2>2. tx_queue' = Append(tx_queue, blocked)
    BY DEF QuicWriteBlocked
  <2>3. tx_queue' \in Seq(BufferType)
    BY <2>1, <2>2 DEF OutType
  <2> QED BY <2>3 DEF OutType, QuicWriteBlocked
<1>5. CallType' BY ReturnType DEF QuicWriteBlocked
<1> QED BY <1>1, <1>2, <1>3, <1>4, <1>5


\* Every step of the endpoint keeps the types: one case per action.
LEMMA NextType == TypeOK /\ [Next]_vars => TypeOK'
<1> SUFFICES ASSUME TypeOK, [Next]_vars PROVE TypeOK'
  OBVIOUS
<1>1. CASE UNCHANGED vars
  BY <1>1 DEF TypeOK, StateType, TableType, InType, OutType, CallType, vars,
              tableVars, inVars, outVars, callVars
<1>2. CASE FrameArrives
  <2>0. WireIds \subseteq Nat
    BY StreamAssumption
  <2>1. ASSUME NEW id \in WireIds, NEW f \in Segments, QuicFrameStreamParser(id, f)
        PROVE  TypeOK'
    BY <2>0, <2>1, StreamFrameType
  <2>2. ASSUME NEW id \in WireIds, NEW fin \in BOOLEAN, QuicFrameStreamTruncated(id, fin)
        PROVE  TypeOK'
    BY <2>0, <2>2, TruncatedType
  <2>3. ASSUME NEW id \in WireIds, QuicFrameResetStreamParser(id) PROVE TypeOK'
    BY <2>0, <2>3, ResetType
  <2>4. ASSUME NEW id \in WireIds, NEW whole \in BOOLEAN,
               QuicFrameStopSendingParser(id, whole)
        PROVE  TypeOK'
    BY <2>0, <2>4, StopType
  <2>5. ASSUME NEW id \in WireIds, QuicFrameStreamDataBlockedParser(id) PROVE TypeOK'
    BY <2>0, <2>5, DataBlockedType
  <2>6. ASSUME NEW id \in WireIds, NEW v \in DataCredits,
               QuicFrameMaxStreamDataParser(id, v)
        PROVE  TypeOK'
    BY <2>0, <2>6, MaxStreamDataType
  <2>7. ASSUME NEW id \in WireIds, FrameRejected(id) PROVE TypeOK'
    BY <2>0, <2>7, RejectedType
  <2>8. ASSUME NEW v \in DataCredits, QuicFrameMaxDataParser(v) PROVE TypeOK'
    BY <2>8, MaxDataType
  <2>9. ASSUME NEW uni \in BOOLEAN, NEW v \in StreamCredits,
               QuicFrameMaxStreamsParser(uni, v)
        PROVE  TypeOK'
    BY <2>9, MaxStreamsType
  <2> QED
    BY <1>2, <2>1, <2>2, <2>3, <2>4, <2>5, <2>6, <2>7, <2>8, <2>9 DEF FrameArrives
<1>3. CASE Call
  <2>1. ASSUME NEW uni \in BOOLEAN, QuicStreamOpen(uni) PROVE TypeOK'
    BY <2>1, OpenType
  <2>2. ASSUME NEW id \in Ids, NEW len \in ReadLens, QuicStreamRecv(id, len)
        PROVE  TypeOK'
    BY <2>2, RecvType
  <2>3. ASSUME NEW len \in ReadLens, NEW n \in IovCounts, QuicStreamReadV(len, n)
        PROVE  TypeOK'
    BY <2>3, ReadVType
  <2>4. ASSUME NEW id \in Ids, NEW len \in SendLens, NEW room \in FirstRooms,
               QuicStreamSend(id, len, room)
        PROVE  TypeOK'
    BY <2>4, SendType
  <2>5. ASSUME NEW id \in Ids, QuicStreamSendRefused(id) PROVE TypeOK'
    BY <2>5, SendRefusedType
  <2>6. ASSUME NEW uni \in BOOLEAN, NEW len \in SendLens, NEW room \in FirstRooms,
               QuicStreamSendEarlyData(uni, len, room)
        PROVE  TypeOK'
    BY <2>6, SendEarlyDataType
  <2> QED BY <1>3, <2>1, <2>2, <2>3, <2>4, <2>5, <2>6 DEF Call
<1>4. CASE RecvNewDone \/ RecvNewFail
  BY <1>4, RecvNewDoneType, RecvNewFailType
<1>5. CASE Work
  BY <1>5, ReadSegmentType, ReadEndType, ReadVNextType, ReadVDoneType,
     WritePktType, BuildFailsType, WriteBlockedType, SendDoneType DEF Work
<1> QED BY <1>1, <1>2, <1>3, <1>4, <1>5 DEF Next

\* Whatever frames arrive and whatever the application calls, the stream table,
\* the queues and the call in progress of quic/stream.c keep their types: a call
\* never copies past the caller's buffer, and QuicStreamReadV always reads the
\* stream of the message at the head of msg_queue.
THEOREM TypeCorrect == Spec => []TypeOK
<1>1. Init => TypeOK BY InitType
<1>2. TypeOK /\ [Next]_vars => TypeOK' BY NextType
<1> QED BY <1>1, <1>2, PTL DEF Spec

-----------------------------------------------------------------------------
(* Sending.                                                                   *)

Alloced(uni) == IF uni THEN uni_id_alloced ELSE bidi_id_alloced

\* A stream of this endpoint that was not opened yet.
Unused(id) == send_state[id] = "START" /\ sent[id] = 0

\* The ids QuicStreamIdGen has not handed out yet are all unused.
IdInv ==
    \A uni \in BOOLEAN, n \in Nat :
        n >= Alloced(uni) /\ LocalId(n, uni) \in Ids => Unused(LocalId(n, uni))

\* What stands in the transmit queue starts within the bytes sent and fits into
\* one packet.
TxInv ==
    \A k \in 1 .. Len(tx_queue) : tx_queue[k].type = "STREAM" =>
        /\ tx_queue[k].id \in Ids
        /\ tx_queue[k].offset <= sent[tx_queue[k].id]
        /\ tx_queue[k].len <= FrameCap

\* The ids an endpoint makes are its own, and no two counters make the same.
LEMMA LocalIdOwn ==
    ASSUME NEW n \in Nat, NEW uni \in BOOLEAN
    PROVE  ~PeerOpened(LocalId(n, uni))
<1>1. LocalId(n, uni) \in Nat
  BY DEF LocalId
<1>2. (LocalId(n, uni) \div 1) % 2 = IF IsServer THEN 1 ELSE 0
  BY <1>1, StreamIdAssumption DEF LocalId
<1> QED BY <1>2, StreamIdAssumption DEF PeerOpened, Bit

\* QuicStreamOpen's id of the n-th stream of a kind is that of no other stream.
LEMMA LocalIdUnique ==
    ASSUME NEW n \in Nat, NEW m \in Nat, NEW u \in BOOLEAN, NEW v \in BOOLEAN,
           LocalId(n, u) = LocalId(m, v)
    PROVE  n = m /\ u = v
BY StreamIdAssumption DEF LocalId

-----------------------------------------------------------------------------

\* Where a new stream comes from.
Opens(uni) ==
    /\ CanOpen(uni)
    /\ uni_id_alloced' = IF uni THEN uni_id_alloced + 1 ELSE uni_id_alloced
    /\ bidi_id_alloced' = IF uni THEN bidi_id_alloced ELSE bidi_id_alloced + 1

\* A step that opens no stream leaves the counters, and only touches streams a
\* lookup has found.
LEMMA SendFrame ==
    ASSUME TypeOK, [Next]_vars
    PROVE  /\ \/ UNCHANGED <<uni_id_alloced, bidi_id_alloced>>
              \/ \E uni \in BOOLEAN : Opens(uni)
           /\ \A id \in Ids : Unused(id) /\ ~PeerOpened(id) =>
                \/ Unused(id)'
                \/ \E uni \in BOOLEAN : Opens(uni) /\ id = NextId(uni)
<1> DEFINE Goal ==
        /\ \/ UNCHANGED <<uni_id_alloced, bidi_id_alloced>>
           \/ \E uni \in BOOLEAN : Opens(uni)
        /\ \A id \in Ids : Unused(id) /\ ~PeerOpened(id) =>
             \/ Unused(id)'
             \/ \E uni \in BOOLEAN : Opens(uni) /\ id = NextId(uni)
<1>0. ASSUME UNCHANGED <<uni_id_alloced, bidi_id_alloced>>,
             \A id \in Ids : Unused(id) /\ ~PeerOpened(id) =>
                 send_state'[id] = send_state[id] /\ sent'[id] = sent[id]
      PROVE  Goal
  BY <1>0 DEF Unused
<1>1. CASE UNCHANGED vars
  BY <1>0, <1>1 DEF vars, tableVars, outVars
<1>2. CASE FrameArrives
  <2>0. UNCHANGED <<uni_id_alloced, bidi_id_alloced, sent>>
    BY <1>2 DEF FrameArrives, QuicFrameStreamParser, QuicFrameStreamTruncated,
       QuicFrameResetStreamParser, QuicFrameStopSendingParser,
       QuicFrameStreamDataBlockedParser, QuicFrameMaxStreamDataParser,
       FrameRejected, QuicFrameMaxDataParser, QuicFrameMaxStreamsParser,
       tableVars, outVars
  <2>1. \/ UNCHANGED send_state
        \/ \E j : Found(j) /\ send_state' = PeerStarted(j)
        \/ \E j : /\ send_state[j] \notin {"START", "DISABLE"}
                  /\ send_state' = [send_state EXCEPT ![j] = "DISABLE"]
    BY <1>2 DEF FrameArrives, QuicFrameStreamParser, QuicFrameStreamTruncated,
       QuicFrameResetStreamParser, QuicFrameStopSendingParser,
       QuicFrameStreamDataBlockedParser, QuicFrameMaxStreamDataParser,
       FrameRejected, QuicFrameMaxDataParser, QuicFrameMaxStreamsParser,
       GetInstance
  <2>2. ASSUME NEW id \in Ids, Unused(id), ~PeerOpened(id)
        PROVE  send_state'[id] = send_state[id]
    BY <2>1, <2>2 DEF Unused, Found, PeerStarted, TypeOK, StateType
  <2> QED BY <1>0, <2>0, <2>2
<1>3. CASE Call
  <2>1. ASSUME NEW uni \in BOOLEAN, QuicStreamOpen(uni) PROVE Goal
    <3>1. /\ Opens(uni) /\ UNCHANGED sent
          /\ send_state' = [send_state EXCEPT ![NextId(uni)] = "READY"]
      BY <2>1 DEF QuicStreamOpen, Allocate, Opens
    <3> QED BY <3>1 DEF Unused, TypeOK, StateType
  <2>2. ASSUME NEW uni \in BOOLEAN, NEW len, NEW room,
               QuicStreamSendEarlyData(uni, len, room)
        PROVE  Goal
    <3>1. /\ Opens(uni) /\ UNCHANGED sent
          /\ send_state' = [send_state EXCEPT ![NextId(uni)] = "SEND"]
      BY <2>2 DEF QuicStreamSendEarlyData, Allocate, Opens
    <3> QED BY <3>1 DEF Unused, TypeOK, StateType
  <2>3. ASSUME NEW id, NEW len, NEW room, QuicStreamSend(id, len, room)
        PROVE  Goal
    <3>1. /\ send_state[id] # "START"
          /\ send_state' = send_state
             \/ send_state' = [send_state EXCEPT ![id] = "SEND"]
          /\ UNCHANGED <<uni_id_alloced, bidi_id_alloced, sent>>
      BY <2>3 DEF QuicStreamSend, tableVars
    <3> QED BY <1>0, <3>1 DEF Unused, TypeOK, StateType
  <2>4. ASSUME NEW id, NEW len, NEW n,
               \/ QuicStreamRecv(id, len) \/ QuicStreamReadV(len, n)
               \/ QuicStreamSendRefused(id)
        PROVE  Goal
    <3>1. UNCHANGED <<uni_id_alloced, bidi_id_alloced, sent, send_state>>
      BY <2>4 DEF QuicStreamRecv, QuicStreamReadV, QuicStreamSendRefused,
         tableVars, outVars
    <3> QED BY <1>0, <3>1
  <2> QED BY <1>3, <2>1, <2>2, <2>3, <2>4 DEF Call
<1>4. CASE RecvNewDone \/ RecvNewFail
  BY <1>0, <1>4 DEF RecvNewDone, RecvNewFail, tableVars, outVars
<1>5. CASE Work
  <2>1. CASE QuicWritePkt \/ QuicBuildFails
    <3>1. /\ UNCHANGED <<uni_id_alloced, bidi_id_alloced, send_state>>
          /\ \/ UNCHANGED sent
             \/ \E j : /\ Found(j)
                       /\ \E n : sent' = [sent EXCEPT ![j] = n]
      BY <2>1 DEF QuicWritePkt, QuicBuildFails, SendFlowCtrl, GetInstance, tableVars
    <3>2. ASSUME NEW id \in Ids, Unused(id), ~PeerOpened(id)
          PROVE  sent'[id] = sent[id]
      BY <3>1, <3>2 DEF Unused, Found, TypeOK, OutType
    <3> QED BY <1>0, <3>1, <3>2
  <2>2. CASE QuicWriteBlocked
    <3>1. /\ UNCHANGED <<uni_id_alloced, bidi_id_alloced, sent>>
          /\ \/ UNCHANGED send_state
             \/ \E j : /\ send_state[j] = "READY"
                       /\ send_state' = [send_state EXCEPT ![j] = "SEND"]
      BY <2>2 DEF QuicWriteBlocked, tableVars
    <3>2. ASSUME NEW id \in Ids, Unused(id) PROVE send_state'[id] = send_state[id]
      BY <3>1, <3>2 DEF Unused, TypeOK, StateType
    <3> QED BY <1>0, <3>1, <3>2
  <2>3. CASE ReadSegment \/ ReadEnd \/ ReadVNext \/ ReadVDone \/ QuicSendDone
    <3>1. UNCHANGED <<uni_id_alloced, bidi_id_alloced, sent, send_state>>
      BY <2>3 DEF ReadSegment, ReadEnd, ReadVNext, ReadVDone, QuicSendDone,
         tableVars, outVars
    <3> QED BY <1>0, <3>1
  <2> QED BY <1>5, <2>1, <2>2, <2>3 DEF Work
<1> QED BY <1>1, <1>2, <1>3, <1>4, <1>5 DEF Next

\* Opening a stream uses up one id, and every other step leaves the unused ones
\* unused.
LEMMA IdStep == TypeOK /\ IdInv /\ [Next]_vars => IdInv'
<1> SUFFICES ASSUME TypeOK, IdInv, [Next]_vars PROVE IdInv'
  OBVIOUS
<1>0. uni_id_alloced \in Nat /\ bidi_id_alloced \in Nat
  BY DEF TypeOK, TableType
<1> SUFFICES ASSUME NEW uni \in BOOLEAN, NEW n \in Nat, n >= Alloced(uni)',
                    LocalId(n, uni) \in Ids
             PROVE  Unused(LocalId(n, uni))'
  BY DEF IdInv
<1> DEFINE id == LocalId(n, uni)
<1>1. Alloced(uni)' >= Alloced(uni)
  BY <1>0, SendFrame DEF Opens, Alloced
<1>2. Unused(id) /\ ~PeerOpened(id)
  <2>1. Alloced(uni) \in Nat /\ Alloced(uni)' \in Int
    BY <1>0, SendFrame DEF Alloced, Opens
  <2>2. n >= Alloced(uni)
    BY <1>1, <2>1
  <2> QED BY <2>2, LocalIdOwn DEF IdInv
<1>3. ASSUME NEW u \in BOOLEAN, Opens(u), id = NextId(u) PROVE FALSE
  <2>1. NextId(u) = LocalId(Alloced(u), u) /\ Alloced(u) \in Nat
    BY <1>0 DEF NextId, Alloced
  <2>2. n = Alloced(u) /\ uni = u
    BY <1>3, <2>1, LocalIdUnique
  <2>3. Alloced(u)' = Alloced(u) + 1
    BY <1>0, <1>3 DEF Opens, Alloced
  <2> QED BY <2>1, <2>2, <2>3
<1>4. \/ Unused(id)'
      \/ \E u \in BOOLEAN : Opens(u) /\ id = NextId(u)
  <2>1. id \in Ids
    OBVIOUS
  <2> HIDE DEF id
  <2> QED BY <1>2, <2>1, SendFrame
<1> QED BY <1>3, <1>4

\* At the start no stream of this endpoint has an entry in the table.
LEMMA IdInit == Init => IdInv
<1> SUFFICES ASSUME Init, NEW uni \in BOOLEAN, NEW n \in Nat, LocalId(n, uni) \in Ids
             PROVE  Unused(LocalId(n, uni))
  BY DEF IdInv
<1> QED BY LocalIdOwn DEF Init, Unused

\* The assertion in QuicStreamOpen holds: whatever frames the peer sends and
\* whatever streams were opened, the next id was never used.
THEOREM OpensUnused == Spec => []OpenedOnce
<1>1. Init => IdInv
  BY IdInit
<1>2. TypeOK /\ IdInv /\ [Next]_vars => IdInv'
  BY IdStep
<1>3. TypeOK /\ IdInv => OpenedOnce
  BY DEF IdInv, OpenedOnce, CanOpen, NextId, Alloced, Unused, TypeOK, TableType
<1> QED BY <1>1, <1>2, <1>3, TypeCorrect, PTL DEF Spec

-----------------------------------------------------------------------------

\* The packets QuicFrameStreamWrite cuts start at the bytes sent and each carry
\* at most what fits into a packet.
LEMMA FrameBuildFits ==
    ASSUME NEW id \in Ids, NEW len \in Nat, NEW room \in 1 .. FrameCap, OutType
    PROVE  LET q == QuicStreamFrameBuild(id, len, room)
           IN  \A k \in 1 .. Len(q) :
                 /\ q[k].id = id /\ q[k].offset = sent[id] /\ q[k].len <= FrameCap
<1> DEFINE q == QuicStreamFrameBuild(id, len, room)
<1>0. FrameCap \in Nat
  BY StreamAssumption
<1>1. q \in Seq(BufferType) /\ DOMAIN q = 1 .. Chunks(len, room)
  BY FrameBuildType DEF QuicStreamFrameBuild
<1>2. \A k \in 1 .. Len(q) : k \in 1 .. Chunks(len, room)
  <2> HIDE DEF q
  <2>1. DOMAIN q = 1 .. Len(q)
    BY <1>1, LenProperties
  <2> QED BY <1>1, <2>1
<1>3. ASSUME NEW k \in 1 .. Len(q)
      PROVE  /\ q[k].id = id /\ q[k].offset = sent[id]
             /\ q[k].len = ChunkLen(len, room, k)
  BY <1>2 DEF QuicStreamFrameBuild
<1>4. ASSUME NEW k \in 1 .. Chunks(len, room)
      PROVE  ChunkLen(len, room, k) <= FrameCap
  <2>1. ChunkLen(len, room, k) \in Nat
    BY ChunkLenType
  <2>2. \E left : ChunkLen(len, room, k) =
                    IF left < (IF k = 1 THEN room ELSE FrameCap) THEN left
                    ELSE IF k = 1 THEN room ELSE FrameCap
    BY DEF ChunkLen
  <2> QED BY <1>0, <2>1, <2>2
<1> QED BY <1>2, <1>3, <1>4

\* New frames behind the old ones keep what is known of the queue.
LEMMA TxAppend ==
    ASSUME TypeOK, TxInv, UNCHANGED sent, NEW q \in Seq(BufferType), tx_queue' = tx_queue \o q,
           \A k \in 1 .. Len(q) : q[k].type = "STREAM" =>
              /\ q[k].id \in Ids /\ q[k].offset <= sent[q[k].id]
              /\ q[k].len <= FrameCap
    PROVE  TxInv'
<1>1. tx_queue \in Seq(BufferType)
  BY DEF TypeOK, OutType
<1>2. ASSUME NEW k \in 1 .. Len(tx_queue')
      PROVE  \/ k \in 1 .. Len(tx_queue) /\ tx_queue'[k] = tx_queue[k]
             \/ k - Len(tx_queue) \in 1 .. Len(q) /\ tx_queue'[k] = q[k - Len(tx_queue)]
  BY <1>1
<1> QED BY <1>2 DEF TxInv

\* Sending more only raises stat_bytes.sent, so the frames that wait never
\* start beyond it.
LEMMA TxStep == TypeOK /\ TxInv /\ [Next]_vars => TxInv'
<1> SUFFICES ASSUME TypeOK, TxInv, [Next]_vars PROVE TxInv'
  OBVIOUS
<1> USE StreamAssumption
<1>0. ASSUME UNCHANGED <<sent, tx_queue>> PROVE TxInv'
  BY <1>0 DEF TxInv
<1>1. CASE UNCHANGED vars
  BY <1>0, <1>1 DEF vars, outVars
<1>2. CASE FrameArrives
  <2>1. UNCHANGED <<sent, tx_queue>>
    BY <1>2 DEF FrameArrives, QuicFrameStreamParser, QuicFrameStreamTruncated,
       QuicFrameResetStreamParser, QuicFrameStopSendingParser,
       QuicFrameStreamDataBlockedParser, QuicFrameMaxStreamDataParser,
       FrameRejected, QuicFrameMaxDataParser, QuicFrameMaxStreamsParser, outVars
  <2> QED BY <1>0, <2>1
<1>3. CASE Call
  <2>1. ASSUME NEW id \in Ids, NEW len \in SendLens, NEW room \in FirstRooms,
               tx_queue' = tx_queue \o QuicStreamFrameBuild(id, len, room),
               UNCHANGED sent
        PROVE  TxInv'
    <3>1. len \in Nat /\ room \in 1 .. FrameCap /\ OutType
      BY DEF TypeOK
    <3>2. QuicStreamFrameBuild(id, len, room) \in Seq(BufferType)
      BY <3>1, FrameBuildType
    <3>3. \A k \in 1 .. Len(QuicStreamFrameBuild(id, len, room)) :
            LET q == QuicStreamFrameBuild(id, len, room)
            IN  /\ q[k].id \in Ids /\ q[k].offset <= sent[q[k].id]
                /\ q[k].len <= FrameCap
      <4>1. sent[id] \in Nat
        BY <3>1 DEF OutType
      <4> QED BY <3>1, <4>1, FrameBuildFits
    <3> QED BY <2>1, <3>2, <3>3, TxAppend
  <2>2. ASSUME NEW uni \in BOOLEAN, NEW len \in SendLens, NEW room \in FirstRooms,
               QuicStreamSendEarlyData(uni, len, room)
        PROVE  TxInv'
    <3>1. /\ NextId(uni) \in Ids /\ UNCHANGED sent
          /\ tx_queue' = tx_queue \o QuicStreamFrameBuild(NextId(uni), len, room)
      BY <2>2 DEF QuicStreamSendEarlyData, IdCheck
    <3> QED BY <2>1, <3>1
  <2>3. ASSUME NEW id \in Ids, NEW len \in SendLens, NEW room \in FirstRooms,
               QuicStreamSend(id, len, room)
        PROVE  TxInv'
    BY <2>1, <2>3 DEF QuicStreamSend
  <2>4. ASSUME NEW uni, NEW id, NEW len, NEW n,
               \/ QuicStreamOpen(uni) \/ QuicStreamRecv(id, len)
               \/ QuicStreamReadV(len, n) \/ QuicStreamSendRefused(id)
        PROVE  TxInv'
    BY <1>0, <2>4 DEF QuicStreamOpen, QuicStreamRecv, QuicStreamReadV,
       QuicStreamSendRefused, outVars
  <2> QED BY <1>3, <2>2, <2>3, <2>4 DEF Call
<1>4. CASE RecvNewDone \/ RecvNewFail
  BY <1>0, <1>4 DEF RecvNewDone, RecvNewFail, outVars
<1>5. CASE Work
  <2>0. /\ tx_queue \in Seq(BufferType) /\ sent \in [Ids -> Nat]
    BY DEF TypeOK, OutType
  <2>1. CASE QuicWritePkt \/ QuicBuildFails
    <3> DEFINE f == Head(tx_queue)
    <3>1. /\ tx_queue # <<>> /\ SendFlowCtrl(f)
          /\ tx_queue' = Tail(tx_queue) \/ tx_queue' = tx_queue
      BY <2>1 DEF QuicWritePkt, QuicBuildFails
    <3>2. f \in BufferType
      BY <2>0, <3>1
    <3>3. f.len \in Nat
      BY <3>2 DEF BufferType
    <3>4. \/ UNCHANGED sent
          \/ f.id \in Ids /\ sent' = [sent EXCEPT ![f.id] = @ + f.len]
      BY <3>1 DEF SendFlowCtrl, GetInstance, Found, IdCheck
    <3>5. ASSUME NEW k \in 1 .. Len(tx_queue), tx_queue[k].type = "STREAM",
                 tx_queue[k].id \in Ids, tx_queue[k].offset <= sent[tx_queue[k].id]
          PROVE  tx_queue[k].offset <= sent'[tx_queue[k].id]
      <4>1. tx_queue[k] \in BufferType
        BY <2>0
      <4>2. tx_queue[k].offset \in Nat /\ tx_queue[k].id \in Nat
        BY <4>1 DEF BufferType
      <4> HIDE DEF f
      <4> QED BY <2>0, <3>3, <3>4, <3>5, <4>2
    <3>6. ASSUME NEW k \in 1 .. Len(tx_queue')
          PROVE  \/ k + 1 \in 1 .. Len(tx_queue) /\ tx_queue'[k] = tx_queue[k + 1]
                 \/ k \in 1 .. Len(tx_queue) /\ tx_queue'[k] = tx_queue[k]
      BY <2>0, <3>1
    <3> QED BY <3>5, <3>6 DEF TxInv
  <2>2. CASE QuicWriteBlocked
    <3>1. UNCHANGED sent /\ \E b : b.type # "STREAM" /\ tx_queue' = Append(tx_queue, b)
      BY <2>2 DEF QuicWriteBlocked
    <3>2. ASSUME NEW b, b.type # "STREAM", tx_queue' = Append(tx_queue, b),
                 NEW k \in 1 .. Len(tx_queue')
          PROVE  \/ k \in 1 .. Len(tx_queue) /\ tx_queue'[k] = tx_queue[k]
                 \/ tx_queue'[k].type # "STREAM"
      BY <2>0, <3>2
    <3> QED BY <3>1, <3>2 DEF TxInv
  <2>3. CASE ReadSegment \/ ReadEnd \/ ReadVNext \/ ReadVDone \/ QuicSendDone
    BY <1>0, <2>3 DEF ReadSegment, ReadEnd, ReadVNext, ReadVDone, QuicSendDone, outVars
  <2> QED BY <1>5, <2>1, <2>2, <2>3 DEF Work
<1> QED BY <1>1, <1>2, <1>3, <1>4, <1>5 DEF Next

\* QuicStreamFrameBuild stamps every frame with the bytes sent when it is built,
\* so no frame waits in tx_queue that starts beyond what has left by then.
THEOREM NoGaps == Spec => []NoGapOnWire
<1>1. Init => TxInv
  BY DEF Init, TxInv
<1>2. TypeOK /\ TxInv /\ [Next]_vars => TxInv'
  BY TxStep
<1>3. TypeOK /\ TxInv => NoGapOnWire
  <2>1. TypeOK => DOMAIN tx_queue = 1 .. Len(tx_queue)
    BY DEF TypeOK, OutType
  <2> QED BY <2>1 DEF TxInv, NoGapOnWire
<1> QED BY <1>1, <1>2, <1>3, TypeCorrect, PTL DEF Spec

-----------------------------------------------------------------------------

\* The credits the peer grants are below 2^31, where the comparison macros are
\* exact, and a packet holds fewer bytes than that.
CreditsInRange ==
    /\ DataCredits \subseteq 0 .. Half - 1 /\ PeerMaxData < Half
    /\ PeerDataUni < Half /\ PeerDataBidiRemote < Half /\ FrameCap < Half

\* What was sent stays within the credit, and no credit leaves the range.
CreditInv ==
    /\ \A id \in Ids : sent[id] <= max_stream_data[id] /\ max_stream_data[id] < Half
    /\ total_sent <= peer_max_data /\ peer_max_data < Half

\* Between numbers of the range the macros compare as they should.
LEMMA GtExact ==
    ASSUME NEW a \in Int, NEW b \in Int, -Half <= a - b, a - b < Half
    PROVE  (QUIC_GT(a, b) <=> a > b) /\ (QUIC_LT(a, b) <=> a < b)
BY IntOfExact DEF QUIC_GT, QUIC_LT

\* Every step keeps the credit: it only rises, a stream starts with nothing
\* sent, and QuicWritePkt compares before it sends.
LEMMA CreditStep ==
    ASSUME CreditsInRange, TypeOK, IdInv, TxInv, CreditInv, [Next]_vars
    PROVE  CreditInv'
<1> USE StreamAssumption
<1>0. /\ sent \in [Ids -> Nat] /\ max_stream_data \in [Ids -> Nat]
      /\ total_sent \in Nat /\ peer_max_data \in Nat /\ tx_queue \in Seq(BufferType)
      /\ Half \in Nat
  BY HalfFacts DEF TypeOK, OutType
<1>1. ASSUME UNCHANGED <<sent, max_stream_data, total_sent, peer_max_data>>
      PROVE  CreditInv'
  BY <1>1 DEF CreditInv
<1>2. CASE UNCHANGED vars
  BY <1>1, <1>2 DEF vars, outVars
<1>3. CASE FrameArrives
  <2>1. ASSUME NEW id \in WireIds, NEW v \in DataCredits,
               QuicFrameMaxStreamDataParser(id, v)
        PROVE  CreditInv'
    <3>1. /\ UNCHANGED <<sent, total_sent, peer_max_data>> /\ id \in Ids
          /\ max_stream_data' = [max_stream_data EXCEPT ![id] =
                                   IF QUIC_LT(@, v) THEN v ELSE @]
      BY <2>1 DEF QuicFrameMaxStreamDataParser, GetInstance, Found, IdCheck
    <3>2. v \in Nat /\ v < Half
      BY <1>0 DEF CreditsInRange
    <3>3. QUIC_LT(max_stream_data[id], v) => max_stream_data[id] < v
      BY <1>0, <3>1, <3>2, GtExact DEF CreditInv
    <3>4. max_stream_data'[id] >= max_stream_data[id] /\ max_stream_data'[id] < Half
      BY <1>0, <3>1, <3>2, <3>3 DEF CreditInv
    <3>5. \A j \in Ids : j # id => max_stream_data'[j] = max_stream_data[j]
      BY <1>0, <3>1
    <3>6. max_stream_data'[id] \in Nat
      BY <1>0, <3>1, <3>2
    <3>7. ASSUME NEW j \in Ids
          PROVE  sent[j] <= max_stream_data'[j] /\ max_stream_data'[j] < Half
      BY <1>0, <3>1, <3>4, <3>5, <3>6, <3>7 DEF CreditInv
    <3> QED BY <3>1, <3>7 DEF CreditInv
  <2>2. ASSUME NEW v \in DataCredits, QuicFrameMaxDataParser(v) PROVE CreditInv'
    <3>1. /\ UNCHANGED <<sent, total_sent, max_stream_data>>
          /\ peer_max_data' = Raise(peer_max_data, v)
      BY <2>2 DEF QuicFrameMaxDataParser
    <3>2. v \in Nat /\ v < Half
      BY <1>0 DEF CreditsInRange
    <3>3. QUIC_GT(v, peer_max_data) => v > peer_max_data
      BY <1>0, <3>2, GtExact DEF CreditInv
    <3>4. peer_max_data' >= peer_max_data /\ peer_max_data' < Half /\ peer_max_data' \in Nat
      BY <1>0, <3>1, <3>2, <3>3 DEF CreditInv, Raise
    <3> QED BY <1>0, <3>1, <3>4 DEF CreditInv
  <2>3. ASSUME NEW id, NEW f, NEW fin, NEW whole, NEW v,
               \/ QuicFrameStreamParser(id, f) \/ QuicFrameStreamTruncated(id, fin)
               \/ QuicFrameResetStreamParser(id)
               \/ QuicFrameStopSendingParser(id, whole)
               \/ QuicFrameStreamDataBlockedParser(id) \/ FrameRejected(id)
               \/ QuicFrameMaxStreamsParser(fin, v)
        PROVE  CreditInv'
    BY <1>1, <2>3 DEF QuicFrameStreamParser, QuicFrameStreamTruncated,
       QuicFrameResetStreamParser, QuicFrameStopSendingParser,
       QuicFrameStreamDataBlockedParser, FrameRejected,
       QuicFrameMaxStreamsParser, outVars
  <2> QED BY <1>3, <2>1, <2>2, <2>3 DEF FrameArrives
<1>4. CASE Call
  <2>1. ASSUME NEW uni \in BOOLEAN, Allocate(uni),
               UNCHANGED <<sent, total_sent, peer_max_data>>
        PROVE  CreditInv'
    <3> DEFINE id == NextId(uni)
               n == IF uni THEN PeerDataUni ELSE PeerDataBidiRemote
    <3>1. id \in Ids /\ max_stream_data' = [max_stream_data EXCEPT ![id] = n]
      BY <2>1 DEF Allocate, CanOpen
    <3>2. n \in Nat /\ n < Half
      BY DEF CreditsInRange
    <3>3. sent[id] = 0
      BY <3>1 DEF IdInv, NextId, Alloced, Unused, TypeOK, TableType
    <3> HIDE DEF id, n
    <3>4. ASSUME NEW j \in Ids
          PROVE  sent[j] <= max_stream_data'[j] /\ max_stream_data'[j] < Half
      BY <1>0, <3>1, <3>2, <3>3 DEF CreditInv
    <3> QED BY <2>1, <3>4 DEF CreditInv
  <2>2. ASSUME NEW uni \in BOOLEAN, NEW len, NEW room,
               QuicStreamOpen(uni) \/ QuicStreamSendEarlyData(uni, len, room)
        PROVE  CreditInv'
    BY <2>1, <2>2 DEF QuicStreamOpen, QuicStreamSendEarlyData
  <2>3. ASSUME NEW id, NEW len, NEW n,
               \/ QuicStreamRecv(id, len) \/ QuicStreamReadV(len, n)
               \/ QuicStreamSend(id, len, n) \/ QuicStreamSendRefused(id)
        PROVE  CreditInv'
    BY <1>1, <2>3 DEF QuicStreamRecv, QuicStreamReadV, QuicStreamSend,
       QuicStreamSendRefused, outVars
  <2> QED BY <1>4, <2>2, <2>3 DEF Call
<1>5. CASE RecvNewDone \/ RecvNewFail
  BY <1>1, <1>5 DEF RecvNewDone, RecvNewFail, outVars
<1>6. CASE Work
  <2>1. CASE QuicWritePkt \/ QuicBuildFails
    <3> DEFINE f == Head(tx_queue)
    <3>1. /\ tx_queue # <<>> /\ UNCHANGED <<max_stream_data, peer_max_data>>
          /\ \/ /\ f.type = "STREAM" /\ ~StreamBlocked(f) /\ ~ConnBlocked(f)
                /\ sent' = [sent EXCEPT ![f.id] = @ + f.len]
                /\ total_sent' = total_sent + f.len
             \/ UNCHANGED <<sent, total_sent>>
      BY <2>1 DEF QuicWritePkt, QuicBuildFails, SendFlowCtrl
    <3>2. CASE UNCHANGED <<sent, total_sent>>
      BY <1>1, <3>1, <3>2
    <3>3. CASE /\ f.type = "STREAM" /\ ~StreamBlocked(f) /\ ~ConnBlocked(f)
               /\ sent' = [sent EXCEPT ![f.id] = @ + f.len]
               /\ total_sent' = total_sent + f.len
      <4>1. f \in BufferType /\ f = tx_queue[1] /\ 1 \in 1 .. Len(tx_queue)
        BY <1>0, <3>1
      <4>2. f.len \in Nat /\ f.id \in Ids /\ f.len < Half
        BY <1>0, <3>3, <4>1 DEF BufferType, TxInv, CreditsInRange
      <4> HIDE DEF f
      <4>3. sent[f.id] + f.len <= max_stream_data[f.id]
        <5>1. sent[f.id] \in Nat /\ max_stream_data[f.id] \in Nat
          BY <1>0, <4>2
        <5>2. sent[f.id] <= max_stream_data[f.id] /\ max_stream_data[f.id] < Half
          BY <4>2 DEF CreditInv
        <5>3. ~QUIC_GT(sent[f.id] + f.len, max_stream_data[f.id])
          BY <3>3 DEF StreamBlocked
        <5>4. /\ -Half <= sent[f.id] + f.len - max_stream_data[f.id]
              /\ sent[f.id] + f.len - max_stream_data[f.id] < Half
          BY <1>0, <4>2, <5>1, <5>2
        <5> QED BY <4>2, <5>1, <5>3, <5>4, GtExact
      <4>4. total_sent + f.len <= peer_max_data
        <5>1. ~QUIC_GT(total_sent + f.len, peer_max_data)
          BY <3>3 DEF ConnBlocked
        <5>2. /\ -Half <= total_sent + f.len - peer_max_data
              /\ total_sent + f.len - peer_max_data < Half
          BY <1>0, <4>2 DEF CreditInv
        <5> QED BY <1>0, <4>2, <5>1, <5>2, GtExact
      <4>5. \A j \in Ids : sent'[j] <= max_stream_data[j]
        BY <1>0, <3>3, <4>2, <4>3 DEF CreditInv
      <4> QED BY <3>1, <3>3, <4>4, <4>5 DEF CreditInv
    <3> QED BY <3>1, <3>2, <3>3
  <2>2. CASE QuicWriteBlocked
    BY <1>1, <2>2 DEF QuicWriteBlocked
  <2>3. CASE ReadSegment \/ ReadEnd \/ ReadVNext \/ ReadVDone \/ QuicSendDone
    BY <1>1, <2>3 DEF ReadSegment, ReadEnd, ReadVNext, ReadVDone, QuicSendDone, outVars
  <2> QED BY <1>6, <2>1, <2>2, <2>3 DEF Work
<1> QED BY <1>2, <1>3, <1>4, <1>5, <1>6 DEF Next

\* QuicStreamSendFlowCtrl lets nothing out beyond the credit of the stream or of
\* the connection, whatever MAX_DATA and MAX_STREAM_DATA frames arrive in
\* whatever order, as long as all of it stays where the comparison of the
\* truncated difference is exact.
THEOREM CreditRespected ==
    ASSUME CreditsInRange
    PROVE  Spec => []SendWithinCredit
<1>1. Init => IdInv /\ TxInv /\ CreditInv
  <2> SUFFICES ASSUME Init PROVE IdInv /\ TxInv /\ CreditInv
    OBVIOUS
  <2>1. IdInv
    BY IdInit
  <2>2. TxInv
    BY DEF Init, TxInv
  <2>3. CreditInv
    BY HalfFacts, StreamAssumption DEF Init, CreditInv, CreditsInRange
  <2> QED BY <2>1, <2>2, <2>3
<1>2. TypeOK /\ IdInv /\ TxInv /\ CreditInv /\ [Next]_vars
        => (IdInv /\ TxInv /\ CreditInv)'
  BY IdStep, TxStep, CreditStep
<1>3. CreditInv => SendWithinCredit
  BY DEF CreditInv, SendWithinCredit
<1> QED BY <1>1, <1>2, <1>3, TypeCorrect, PTL DEF Spec

-----------------------------------------------------------------------------
\* The application has been given exactly as many bytes as the read offset
\* says.
ReadUpTo == \A id \in Ids : Len(app[id]) = offset[id]

\* A segment whose offset field no longer says where its bytes belong was read
\* in part, and then its offset lies behind the read offset: QuicStreamReadData
\* never looks at it again.
UncutOrPassed ==
    \A id \in Ids : \A k \in 1 .. Len(queue[id]) :
        \/ queue[id][k].pos = queue[id][k].offset
        \/ queue[id][k].offset < offset[id]

ReadInv == DeliveredIsPrefix /\ ReadUpTo /\ UncutOrPassed

\* Inside QuicStreamReadData the loop is only left early by a full buffer.
BreakMeansFull == arg.brk => pc \in Reading /\ arg.rlen = arg.len

HasMsg(id) == \E k \in 1 .. Len(msg_queue) : msg_queue[k] = id

WakeInv ==
    /\ BreakMeansFull
    /\ \A id \in Ids : Readable(id) \/ id \in notified => HasMsg(id)
    /\ \A k \in 1 .. Len(msg_queue) : Found(msg_queue[k])

-----------------------------------------------------------------------------

\* Only the STREAM frame parser and QuicStreamReadData touch segments, the read
\* offset, what was delivered or what was counted.
LEMMA ReadFrame ==
    ASSUME [Next]_vars
    PROVE  \/ \E id \in WireIds, f \in Segments : QuicFrameStreamParser(id, f)
           \/ ReadSegment
           \/ UNCHANGED <<offset, queue, app>> /\ UNCHANGED <<recvd, total_recvd>>
<1>1. CASE UNCHANGED vars
  BY <1>1 DEF vars, inVars
<1>2. CASE FrameArrives
  BY <1>2 DEF FrameArrives, QuicFrameStreamTruncated, QuicFrameResetStreamParser,
     QuicFrameStopSendingParser, QuicFrameStreamDataBlockedParser,
     QuicFrameMaxStreamDataParser, FrameRejected, QuicFrameMaxDataParser,
     QuicFrameMaxStreamsParser, inVars
<1>3. CASE Call
  BY <1>3 DEF Call, QuicStreamOpen, QuicStreamRecv, QuicStreamReadV,
     QuicStreamSend, QuicStreamSendRefused, QuicStreamSendEarlyData, inVars
<1>4. CASE RecvNewDone \/ RecvNewFail
  BY <1>4 DEF RecvNewDone, RecvNewFail, inVars
<1>5. CASE Work
  BY <1>5 DEF Work, ReadEnd, ReadVNext, ReadVDone, QuicWritePkt,
     QuicBuildFails, SendFlowCtrl, QuicWriteBlocked, QuicSendDone, inVars
<1> QED BY <1>1, <1>2, <1>3, <1>4, <1>5 DEF Next

\* A STREAM frame leaves the list as it is or appends a segment that says where
\* its bytes belong.
LEMMA ParserAppends ==
    ASSUME TypeOK, NEW id \in WireIds, NEW f \in Segments, QuicFrameStreamParser(id, f)
    PROVE  /\ UNCHANGED <<offset, app>>
           /\ \/ UNCHANGED queue
              \/ \E seg \in SegmentType :
                   /\ id \in Ids /\ seg.pos = seg.offset
                   /\ queue' = [queue EXCEPT ![id] = Append(queue[id], seg)]
<1>1. UNCHANGED <<offset, app>>
  BY DEF QuicFrameStreamParser
<1>2. id \in Ids
  BY DEF QuicFrameStreamParser, GetInstance, Found, IdCheck
<1>3. \/ UNCHANGED queue
      \/ /\ queue' = [queue EXCEPT ![id] = Append(queue[id], Fresh(id, f))]
         /\ Accepted(id, f)
  BY DEF QuicFrameStreamParser, DataAdd
<1>4. Fresh(id, f).pos = Fresh(id, f).offset
  BY DEF Fresh
<1>5. Accepted(id, f) => Fresh(id, f) \in SegmentType
  BY <1>2, FreshType DEF TypeOK, Accepted
<1> QED BY <1>1, <1>2, <1>3, <1>4, <1>5

\* Handing over the next n positions extends a prefix of the stream to a longer
\* one.
LEMMA PrefixExtends ==
    ASSUME NEW s \in Seq(Nat), NEW n \in Nat, NEW p \in Nat, Len(s) = p,
           \A i \in 1 .. Len(s) : s[i] = i - 1
    PROVE  LET t == s \o [i \in 1 .. n |-> p + i - 1]
           IN  Len(t) = p + n /\ \A i \in 1 .. Len(t) : t[i] = i - 1
<1> DEFINE new == [i \in 1 .. n |-> p + i - 1]
<1>1. new \in Seq(Nat) /\ Len(new) = n /\ \A i \in 1 .. n : new[i] = p + i - 1
  <2>1. \A i \in 1 .. n : p + i - 1 \in Nat
    OBVIOUS
  <2> QED BY <2>1, IsASeq
<1> HIDE DEF new
<1>2. /\ Len(s \o new) = Len(s) + Len(new)
      /\ \A i \in 1 .. Len(s) + Len(new) : (s \o new)[i] =
             IF i <= Len(s) THEN s[i] ELSE new[i - Len(s)]
  BY <1>1, ConcatProperties
<1>3. ASSUME NEW i \in 1 .. Len(s \o new) PROVE (s \o new)[i] = i - 1
  BY <1>1, <1>2
<1> QED BY <1>1, <1>2, <1>3 DEF new

\* One iteration of QuicStreamReadData delivers the bytes at the read offset.
LEMMA ReadSegmentInOrder ==
    ASSUME TypeOK, ReadInv, ReadSegment
    PROVE  ReadInv'
<1> DEFINE id == arg.id
           sd == Head(queue[id])
           n == CopyBytes(sd)
<1>1. /\ id \in Ids /\ queue[id] \in Seq(SegmentType) /\ queue[id] # <<>>
      /\ sd \in SegmentType /\ n \in 0 .. sd.len /\ sd.offset = offset[id]
      /\ n = 0 => sd.len = 0
  BY CopyBytesType
<1>2. /\ offset \in [Ids -> Nat] /\ app \in [Ids -> Seq(Nat)]
      /\ queue \in [Ids -> Seq(SegmentType)]
  BY DEF TypeOK, InType
<1>3. sd.pos = offset[id] /\ sd.len \in Nat /\ n \in Nat
  <2>1. sd = queue[id][1] /\ 1 \in 1 .. Len(queue[id])
    BY <1>1
  <2>2. sd.pos = sd.offset \/ sd.offset < offset[id]
    BY <1>1, <2>1 DEF ReadInv, UncutOrPassed
  <2> QED BY <1>1, <1>2, <2>2 DEF SegmentType
<1>4. /\ offset' = [offset EXCEPT ![id] = @ + n]
      /\ app' = [app EXCEPT ![id] = @ \o [i \in 1 .. n |-> sd.pos + i - 1]]
      /\ queue' = [queue EXCEPT ![id] = AfterCopy(@, n)]
  BY DEF ReadSegment
<1> HIDE DEF n
<1>5. ASSUME NEW j \in Ids
      PROVE  /\ Len(app'[j]) = offset'[j]
             /\ \A i \in 1 .. Len(app'[j]) : app'[j][i] = i - 1
  <2>1. /\ Len(app[j]) = offset[j] /\ app[j] \in Seq(Nat) /\ offset[j] \in Nat
        /\ \A i \in 1 .. Len(app[j]) : app[j][i] = i - 1
    BY <1>2, <1>5 DEF ReadInv, ReadUpTo, DeliveredIsPrefix
  <2>2. CASE j = id
    <3>1. /\ app'[j] = app[j] \o [i \in 1 .. n |-> offset[j] + i - 1]
          /\ offset'[j] = offset[j] + n
      BY <1>2, <1>3, <1>4, <1>5, <2>2
    <3> QED BY <1>3, <2>1, <3>1, PrefixExtends
  <2>3. CASE j # id
    <3>1. app'[j] = app[j] /\ offset'[j] = offset[j]
      BY <1>2, <1>4, <1>5, <2>3
    <3> QED BY <2>1, <3>1
  <2> QED BY <2>2, <2>3
<1>6. ASSUME NEW j \in Ids, NEW k \in 1 .. Len(queue'[j])
      PROVE  queue'[j][k].pos = queue'[j][k].offset \/ queue'[j][k].offset < offset'[j]
  <2>1. /\ queue[j] \in Seq(SegmentType) /\ offset[j] \in Nat
        /\ \A m \in 1 .. Len(queue[j]) : \/ queue[j][m].pos = queue[j][m].offset
                                         \/ queue[j][m].offset < offset[j]
    BY <1>2, <1>6 DEF ReadInv, UncutOrPassed
  <2>2. CASE j # id
    <3>1. queue'[j] = queue[j] /\ offset'[j] = offset[j]
      BY <1>2, <1>4, <1>6, <2>2
    <3> QED BY <2>1, <3>1
  <2>3. CASE j = id
    <3>1. queue'[j] = AfterCopy(queue[j], n) /\ offset'[j] = offset[j] + n
      BY <1>2, <1>4, <1>6, <2>3
    <3>2. ASSUME NEW m \in 1 .. Len(queue[j])
          PROVE  \/ queue[j][m].pos = queue[j][m].offset
                 \/ queue[j][m].offset < offset'[j]
      <4>1. queue[j][m] \in SegmentType
        BY <2>1
      <4>2. queue[j][m].offset \in Nat
        BY <4>1 DEF SegmentType
      <4> QED BY <1>3, <2>1, <3>1, <4>2
    <3>3. CASE n = sd.len
      <4>1. queue'[j] = Tail(queue[j])
        BY <2>3, <3>1, <3>3 DEF AfterCopy
      <4>2. k + 1 \in 1 .. Len(queue[j]) /\ queue'[j][k] = queue[j][k + 1]
        BY <1>1, <2>1, <2>3, <4>1
      <4> QED BY <3>2, <4>2
    <3>4. CASE n # sd.len
      <4> DEFINE cut == [sd EXCEPT !.pos = @ + n, !.len = @ - n]
      <4>1. queue'[j] = <<cut>> \o Tail(queue[j])
        BY <2>3, <3>1, <3>4 DEF AfterCopy
      <4>2. cut.offset = offset[j] /\ n > 0
        BY <1>1, <1>3, <2>3, <3>4 DEF SegmentType
      <4> HIDE DEF cut
      <4>3. CASE k = 1
        <5>1. queue'[j][k] = cut
          BY <1>1, <2>3, <4>1, <4>3
        <5> QED BY <2>1, <3>1, <4>2, <5>1, <1>3
      <4>4. CASE k # 1
        <5>1. k \in 1 .. Len(queue[j]) /\ queue'[j][k] = queue[j][k]
          BY <1>1, <2>1, <2>3, <4>1, <4>4
        <5> QED BY <3>2, <5>1
      <4> QED BY <4>3, <4>4
    <3> QED BY <3>3, <3>4
  <2> QED BY <2>2, <2>3
<1> QED BY <1>5, <1>6 DEF ReadInv, DeliveredIsPrefix, ReadUpTo, UncutOrPassed

\* Every step of the endpoint keeps the reading invariant: only the parser and
\* the read loop touch what it speaks of.
LEMMA ReadInvStep == TypeOK /\ ReadInv /\ [Next]_vars => ReadInv'
<1> SUFFICES ASSUME TypeOK, ReadInv, [Next]_vars PROVE ReadInv'
  OBVIOUS
<1>1. ASSUME NEW id \in WireIds, NEW f \in Segments, QuicFrameStreamParser(id, f)
      PROVE  ReadInv'
  <2>1. UNCHANGED <<offset, app>>
    BY <1>1, ParserAppends
  <2>2. CASE UNCHANGED queue
    BY <2>1, <2>2 DEF ReadInv, DeliveredIsPrefix, ReadUpTo, UncutOrPassed
  <2>3. ASSUME NEW seg \in SegmentType, id \in Ids, seg.pos = seg.offset,
               queue' = [queue EXCEPT ![id] = Append(queue[id], seg)]
        PROVE  ReadInv'
    <3>1. queue \in [Ids -> Seq(SegmentType)]
      BY DEF TypeOK, InType
    <3>2. ASSUME NEW j \in Ids, NEW k \in 1 .. Len(queue'[j])
          PROVE  \/ queue'[j][k].pos = queue'[j][k].offset
                 \/ queue'[j][k].offset < offset'[j]
      <4>1. CASE j = id /\ k = Len(queue[j]) + 1
        <5>1. queue'[j][k] = seg
          BY <2>3, <3>1, <4>1
        <5> QED BY <2>3, <5>1
      <4>2. CASE ~(j = id /\ k = Len(queue[j]) + 1)
        <5>1. k \in 1 .. Len(queue[j]) /\ queue'[j][k] = queue[j][k]
          BY <2>3, <3>1, <4>2
        <5> QED BY <2>1, <5>1 DEF ReadInv, UncutOrPassed
      <4> QED BY <4>1, <4>2
    <3> QED BY <2>1, <3>2 DEF ReadInv, DeliveredIsPrefix, ReadUpTo, UncutOrPassed
  <2> QED BY <1>1, <2>2, <2>3, ParserAppends
<1>2. CASE ReadSegment
  BY <1>2, ReadSegmentInOrder
<1>3. CASE UNCHANGED <<offset, queue, app>>
  BY <1>3 DEF ReadInv, DeliveredIsPrefix, ReadUpTo, UncutOrPassed
<1> QED BY <1>1, <1>2, <1>3, ReadFrame

\* QuicStreamReadData hands over the bytes of every stream in order and each
\* once, for every sequence of overlapping, repeated, reordered or rejected
\* STREAM frames and every way of reading them.
THEOREM ReadsInOrder == Spec => []DeliveredIsPrefix
<1>1. Init => ReadInv
  BY DEF Init, ReadInv, DeliveredIsPrefix, ReadUpTo, UncutOrPassed
<1>2. TypeOK /\ ReadInv /\ [Next]_vars => ReadInv'
  BY ReadInvStep
<1>3. ReadInv => DeliveredIsPrefix
  BY DEF ReadInv
<1> QED BY <1>1, <1>2, <1>3, TypeCorrect, PTL DEF Spec

-----------------------------------------------------------------------------

\* A stream that has left START never returns to it, so a stream that a lookup
\* has found is found for ever.
LEMMA SendStateKept ==
    ASSUME TypeOK, [Next]_vars, NEW id \in Ids, send_state[id] # "START"
    PROVE  send_state'[id] # "START"
<1> USE DEF TypeOK, StateType
<1>1. CASE UNCHANGED send_state
  BY <1>1
<1>2. ASSUME NEW j, send_state' = PeerStarted(j) PROVE send_state'[id] # "START"
  BY <1>2 DEF PeerStarted
<1>3. ASSUME NEW j, NEW s \in {"READY", "SEND", "DISABLE"},
             send_state' = [send_state EXCEPT ![j] = s]
      PROVE  send_state'[id] # "START"
  BY <1>3
<1>4. CASE FrameArrives
  BY <1>1, <1>2, <1>3, <1>4 DEF FrameArrives, QuicFrameStreamParser,
     QuicFrameStreamTruncated, QuicFrameResetStreamParser,
     QuicFrameStopSendingParser, QuicFrameStreamDataBlockedParser,
     QuicFrameMaxStreamDataParser, FrameRejected, QuicFrameMaxDataParser,
     QuicFrameMaxStreamsParser
<1>5. CASE Call
  BY <1>1, <1>3, <1>5 DEF Call, QuicStreamOpen, QuicStreamRecv, QuicStreamReadV,
     QuicStreamSend, QuicStreamSendRefused, QuicStreamSendEarlyData
<1>6. CASE RecvNewDone \/ RecvNewFail
  BY <1>1, <1>6 DEF RecvNewDone, RecvNewFail
<1>7. CASE Work
  BY <1>1, <1>3, <1>7 DEF Work, ReadSegment, ReadEnd, ReadVNext, ReadVDone,
     QuicWritePkt, QuicBuildFails,
     SendFlowCtrl, QuicWriteBlocked, QuicSendDone
<1>8. CASE UNCHANGED vars
  BY <1>1, <1>8 DEF vars
<1> QED BY <1>4, <1>5, <1>6, <1>7, <1>8 DEF Next

\* A stream QuicStreamGetInstance has found once is found by every later lookup.
LEMMA FoundKept ==
    ASSUME TypeOK, [Next]_vars, NEW id \in Ids, Found(id)
    PROVE  Found(id)'
BY SendStateKept DEF Found, IdCheck

\* Only the STREAM frame parser, QuicStreamReadData and what its callers do with
\* its result touch segments, messages or notified bits.
LEMMA WakeFrame ==
    ASSUME [Next]_vars
    PROVE  \/ \E id \in WireIds, f \in Segments : QuicFrameStreamParser(id, f)
           \/ ReadSegment
           \/ ReadEnd
           \/ UNCHANGED <<offset, queue, msg_queue, notified>>
<1>1. CASE UNCHANGED vars
  BY <1>1 DEF vars, inVars
<1>2. CASE FrameArrives
  BY <1>2 DEF FrameArrives, QuicFrameStreamTruncated, QuicFrameResetStreamParser,
     QuicFrameStopSendingParser, QuicFrameStreamDataBlockedParser,
     QuicFrameMaxStreamDataParser, FrameRejected, QuicFrameMaxDataParser,
     QuicFrameMaxStreamsParser, inVars
<1>3. CASE Call
  BY <1>3 DEF Call, QuicStreamOpen, QuicStreamRecv, QuicStreamReadV,
     QuicStreamSend, QuicStreamSendRefused, QuicStreamSendEarlyData, inVars
<1>4. CASE RecvNewDone \/ RecvNewFail
  BY <1>4 DEF RecvNewDone, RecvNewFail, inVars
<1>5. CASE Work
  BY <1>5 DEF Work, ReadVNext, ReadVDone, QuicWritePkt,
     QuicBuildFails, SendFlowCtrl, QuicWriteBlocked, QuicSendDone, inVars
<1> QED BY <1>1, <1>2, <1>3, <1>4, <1>5 DEF Next

\* The loop of QuicStreamReadData is left with data still readable only when
\* the caller's buffer is full.
LEMMA BreakStep ==
    ASSUME TypeOK, BreakMeansFull, [Next]_vars
    PROVE  BreakMeansFull'
<1> USE DEF BreakMeansFull
<1>0. arg \in ArgType
  BY DEF TypeOK, CallType
<1>1. CASE UNCHANGED callVars
  BY <1>1 DEF callVars
<1>2. ASSUME arg'.brk = FALSE PROVE BreakMeansFull'
  BY <1>2
<1>3. CASE Return
  BY <1>3 DEF Return, NoArg
<1>4. ASSUME pc \notin Reading, arg'.brk = arg.brk PROVE BreakMeansFull'
  BY <1>0, <1>4 DEF ArgType
<1>5. CASE FrameArrives
  BY <1>1, <1>3, <1>5 DEF FrameArrives, QuicFrameStreamParser,
     QuicFrameStreamTruncated, QuicFrameResetStreamParser,
     QuicFrameStopSendingParser, QuicFrameStreamDataBlockedParser,
     QuicFrameMaxStreamDataParser, FrameRejected, QuicFrameMaxDataParser,
     QuicFrameMaxStreamsParser
<1>6. CASE Call
  <2>1. ASSUME NEW id, NEW len, QuicStreamRecv(id, len) PROVE BreakMeansFull'
    BY <1>2, <2>1 DEF QuicStreamRecv, NoArg
  <2>2. ASSUME NEW len, NEW n, QuicStreamReadV(len, n) PROVE BreakMeansFull'
    BY <1>2, <2>2 DEF QuicStreamReadV, NoArg
  <2>3. ASSUME NEW id, NEW len, NEW room, QuicStreamSend(id, len, room)
        PROVE  BreakMeansFull'
    BY <1>2, <2>3 DEF QuicStreamSend, NoArg
  <2>4. ASSUME NEW uni, NEW len, NEW room, QuicStreamSendEarlyData(uni, len, room)
        PROVE  BreakMeansFull'
    BY <1>2, <2>4 DEF QuicStreamSendEarlyData, NoArg
  <2>5. ASSUME NEW x, QuicStreamOpen(x) \/ QuicStreamSendRefused(x)
        PROVE  BreakMeansFull'
    BY <1>1, <2>5 DEF QuicStreamOpen, QuicStreamSendRefused
  <2> QED BY <1>6, <2>1, <2>2, <2>3, <2>4, <2>5 DEF Call
<1>7. CASE RecvNewDone \/ RecvNewFail
  BY <1>3, <1>4, <1>7 DEF RecvNewDone, RecvNewFail, Fetching, Reading
<1>8. CASE Work
  <2>1. CASE ReadSegment
    <3>1. /\ arg'.rlen = arg.rlen + CopyBytes(Head(queue[arg.id]))
          /\ arg'.len = arg.len /\ pc' \in Reading
          /\ arg'.brk = (arg.rlen + CopyBytes(Head(queue[arg.id])) = arg.len)
      BY <1>0, <2>1 DEF ReadSegment, ArgType
    <3> QED BY <3>1
  <2>2. CASE ReadEnd
    <3>2. CASE Return
      BY <1>3, <3>2
    <3>4. \/ \E b : arg' = [arg EXCEPT !.fin = b, !.brk = FALSE]
          \/ Return
          \/ \E b, m : arg' = [NoArg EXCEPT !.len = arg.len, !.fin = b, !.left = m]
      BY <2>2 DEF ReadEnd
    <3>5. ASSUME NEW b, arg' = [arg EXCEPT !.fin = b, !.brk = FALSE]
          PROVE  BreakMeansFull'
      BY <1>0, <1>2, <3>5 DEF ArgType
    <3>6. ASSUME NEW b, NEW m,
                 arg' = [NoArg EXCEPT !.len = arg.len, !.fin = b, !.left = m]
          PROVE  BreakMeansFull'
      BY <1>2, <3>6 DEF NoArg
    <3> QED BY <3>2, <3>4, <3>5, <3>6
  <2>3. CASE ReadVNext
    BY <1>0, <1>4, <2>3 DEF ReadVNext, Reading, ArgType
  <2>4. CASE ReadVDone \/ QuicWritePkt \/ QuicBuildFails \/ QuicWriteBlocked \/ QuicSendDone
    BY <1>1, <1>3, <2>4 DEF ReadVDone, QuicWritePkt, QuicBuildFails,
     SendFlowCtrl, QuicWriteBlocked, QuicSendDone
  <2> QED BY <1>8, <2>1, <2>2, <2>3, <2>4 DEF Work
<1>9. CASE UNCHANGED vars
  BY <1>1, <1>9 DEF vars
<1> QED BY <1>5, <1>6, <1>7, <1>8, <1>9 DEF Next


\* A STREAM frame that is kept, or only notified of, leaves a message behind.
LEMMA ParserWakes ==
    ASSUME TypeOK, WakeInv, NEW id \in WireIds, NEW f \in Segments,
           QuicFrameStreamParser(id, f), [Next]_vars
    PROVE  /\ \A j \in Ids : Readable(j)' \/ j \in notified' => HasMsg(j)'
           /\ \A k \in 1 .. Len(msg_queue') : Found(msg_queue[k])'
<1>1. id \in Ids /\ Found(id) /\ UNCHANGED offset
  BY DEF QuicFrameStreamParser, GetInstance, Found, IdCheck
<1>2. /\ queue \in [Ids -> Seq(SegmentType)] /\ msg_queue \in Seq(Ids)
      /\ notified \in SUBSET Ids
  BY DEF TypeOK, InType
<1>3. \A j \in Ids : HasMsg(j) => HasMsg(j)'
  <2>1. CASE UNCHANGED msg_queue
    BY <2>1 DEF HasMsg
  <2>2. CASE msg_queue' = Append(msg_queue, id)
    BY <1>1, <1>2, <2>2 DEF HasMsg
  <2> QED BY <2>1, <2>2 DEF QuicFrameStreamParser, Notify
<1>4. CASE UNCHANGED <<queue, msg_queue, notified>>
  <2>1. \A j \in Ids : Readable(j)' => Readable(j)
    BY <1>1, <1>4 DEF Readable
  <2>2. ASSUME NEW k \in 1 .. Len(msg_queue') PROVE Found(msg_queue[k])'
    <3>1. k \in 1 .. Len(msg_queue) /\ msg_queue'[k] = msg_queue[k] /\ msg_queue[k] \in Ids
      BY <1>2, <1>4
    <3>2. Found(msg_queue[k])
      BY <3>1 DEF WakeInv
    <3> QED BY <3>1, <3>2, <1>4, FoundKept
  <2> QED BY <1>3, <1>4, <2>1, <2>2 DEF WakeInv
<1>5. CASE DataAdd(id, f, IF AfterFin(id, f.fin) = "START" THEN "RECV"
                           ELSE AfterFin(id, f.fin)) /\ Notify(id)
  <2>1. HasMsg(id)'
    <3>1. CASE id \in notified
      <4>1. HasMsg(id)
        BY <1>1, <3>1 DEF WakeInv
      <4> QED BY <1>1, <1>3, <4>1
    <3>2. CASE id \notin notified
      <4>1. msg_queue' = Append(msg_queue, id)
        BY <1>5, <3>2 DEF Notify
      <4>2. Len(msg_queue) + 1 \in 1 .. Len(msg_queue') /\ msg_queue'[Len(msg_queue) + 1] = id
        BY <1>1, <1>2, <4>1
      <4> QED BY <4>2 DEF HasMsg
    <3> QED BY <3>1, <3>2
  <2>2. ASSUME NEW j \in Ids, j # id PROVE Readable(j)' \/ j \in notified' => HasMsg(j)'
    <3>1. queue'[j] = queue[j] /\ (j \in notified' <=> j \in notified)
      BY <1>2, <1>5, <2>2 DEF DataAdd, Notify
    <3>2. Readable(j)' => Readable(j)
      BY <1>1, <3>1 DEF Readable
    <3> QED BY <1>3, <3>1, <3>2 DEF WakeInv
  <2>3. ASSUME NEW k \in 1 .. Len(msg_queue') PROVE Found(msg_queue[k])'
    <3>1. msg_queue'[k] \in Ids /\ Found(msg_queue'[k])
      <4>1. CASE msg_queue' = msg_queue
        BY <1>2, <4>1 DEF WakeInv
      <4>2. CASE msg_queue' = Append(msg_queue, id)
        BY <1>1, <1>2, <4>2 DEF WakeInv
      <4> QED BY <1>5, <4>1, <4>2 DEF Notify
    <3> QED BY <3>1, FoundKept
  <2> QED BY <2>1, <2>2, <2>3
<1> QED BY <1>4, <1>5 DEF QuicFrameStreamParser

\* Reading a segment makes no stream readable that was not already.
LEMMA ReadSegmentWakes ==
    ASSUME TypeOK, WakeInv, ReadSegment, [Next]_vars
    PROVE  /\ \A j \in Ids : Readable(j)' \/ j \in notified' => HasMsg(j)'
           /\ \A k \in 1 .. Len(msg_queue') : Found(msg_queue[k])'
<1>1. UNCHANGED <<msg_queue, notified>> /\ Readable(arg.id) /\ arg.id \in Ids
  BY CopyBytesType DEF ReadSegment
<1>2. msg_queue \in Seq(Ids)
  BY DEF TypeOK, InType
<1>3. ASSUME NEW j \in Ids, j # arg.id PROVE Readable(j)' => Readable(j)
  <2>1. queue'[j] = queue[j] /\ offset'[j] = offset[j]
    BY <1>3 DEF ReadSegment, TypeOK, InType
  <2> QED BY <2>1 DEF Readable
<1>4. ASSUME NEW k \in 1 .. Len(msg_queue') PROVE Found(msg_queue[k])'
  <2>1. msg_queue'[k] = msg_queue[k] /\ msg_queue[k] \in Ids /\ Found(msg_queue[k])
    BY <1>1, <1>2, <1>4 DEF WakeInv
  <2> QED BY <2>1, FoundKept
<1> QED BY <1>1, <1>3, <1>4 DEF WakeInv, HasMsg

\* A message is removed only when its stream has nothing readable left, and with
\* it the notified bit.
LEMMA ReadEndWakes ==
    ASSUME TypeOK, WakeInv, ReadEnd, [Next]_vars
    PROVE  /\ \A j \in Ids : Readable(j)' \/ j \in notified' => HasMsg(j)'
           /\ \A k \in 1 .. Len(msg_queue') : Found(msg_queue[k])'
<1>1. /\ UNCHANGED <<queue, offset>> /\ notified' = notified \ {arg.id}
      /\ arg.brk \/ ~Readable(arg.id)
  BY DEF ReadEnd
<1>2. msg_queue \in Seq(Ids)
  BY DEF TypeOK, InType
<1>3. \A j \in Ids : Readable(j)' => Readable(j)
  BY <1>1 DEF Readable
<1>4. CASE UNCHANGED msg_queue
  <2>1. ASSUME NEW k \in 1 .. Len(msg_queue') PROVE Found(msg_queue[k])'
    <3>1. msg_queue'[k] = msg_queue[k] /\ msg_queue[k] \in Ids /\ Found(msg_queue[k])
      BY <1>2, <1>4, <2>1 DEF WakeInv
    <3> QED BY <3>1, FoundKept
  <2> QED BY <1>1, <1>3, <1>4, <2>1 DEF WakeInv, HasMsg
<1>5. CASE /\ pc = "readv_read" /\ arg.rlen < arg.len
           /\ msg_queue' = Tail(msg_queue)
  <2>1. msg_queue # <<>> /\ Head(msg_queue) = arg.id /\ arg.rlen \in Nat /\ arg.len \in Nat
    BY <1>5 DEF TypeOK, CallType, ArgType
  <2>2. ~arg.brk
    BY <1>5, <2>1 DEF WakeInv, BreakMeansFull
  <2>3. ~Readable(arg.id)
    BY <1>1, <2>2
  <2>4. /\ Len(msg_queue') = Len(msg_queue) - 1
        /\ \A k \in 1 .. Len(msg_queue') : msg_queue'[k] = msg_queue[k + 1]
    BY <1>2, <1>5, <2>1
  <2>5. ASSUME NEW j \in Ids, HasMsg(j), j # arg.id PROVE HasMsg(j)'
    <3>1. PICK k \in 1 .. Len(msg_queue) : msg_queue[k] = j
      BY <2>5 DEF HasMsg
    <3>2. k # 1
      BY <1>2, <2>1, <2>5, <3>1
    <3>3. k - 1 \in 1 .. Len(msg_queue') /\ msg_queue'[k - 1] = j
      BY <1>2, <2>4, <3>1, <3>2
    <3> QED BY <3>3 DEF HasMsg
  <2>6. ASSUME NEW k \in 1 .. Len(msg_queue') PROVE Found(msg_queue[k])'
    <3>1. msg_queue'[k] \in Ids /\ Found(msg_queue'[k])
      BY <1>2, <2>4, <2>6 DEF WakeInv
    <3> QED BY <3>1, FoundKept
  <2> QED BY <1>1, <1>3, <2>3, <2>5, <2>6 DEF WakeInv
<1> QED BY <1>4, <1>5 DEF ReadEnd, ShortRead

\* Every step of the endpoint keeps the wake-up invariant: a message leaves
\* msg_queue only when its stream has nothing readable left.
LEMMA WakeInvStep == TypeOK /\ WakeInv /\ [Next]_vars => WakeInv'
<1> SUFFICES ASSUME TypeOK, WakeInv, [Next]_vars PROVE WakeInv'
  OBVIOUS
<1>1. BreakMeansFull'
  BY BreakStep DEF WakeInv
<1>2. CASE \E id \in WireIds, f \in Segments : QuicFrameStreamParser(id, f)
  BY <1>1, <1>2, ParserWakes DEF WakeInv
<1>3. CASE ReadSegment
  BY <1>1, <1>3, ReadSegmentWakes DEF WakeInv
<1>4. CASE ReadEnd
  BY <1>1, <1>4, ReadEndWakes DEF WakeInv
<1>5. CASE UNCHANGED <<offset, queue, msg_queue, notified>>
  <2>1. msg_queue \in Seq(Ids)
    BY DEF TypeOK, InType
  <2>2. ASSUME NEW k \in 1 .. Len(msg_queue') PROVE Found(msg_queue[k])'
    <3>1. msg_queue'[k] = msg_queue[k] /\ msg_queue[k] \in Ids /\ Found(msg_queue[k])
      BY <1>5, <2>1, <2>2 DEF WakeInv
    <3> QED BY <3>1, FoundKept
  <2> QED BY <1>1, <1>5, <2>2 DEF WakeInv, Readable, HasMsg
<1> QED BY <1>2, <1>3, <1>4, <1>5, WakeFrame

\* No wakeup is lost: whatever frames arrive between and inside the calls, a
\* stream QuicStreamReadData could deliver from, or whose notified bit keeps the
\* parser silent, has a message waiting in msg_queue.
THEOREM WakeupsAreKept == Spec => []NoLostWakeup
<1>1. Init => WakeInv
  BY DEF Init, WakeInv, BreakMeansFull, NoArg, Readable
<1>2. TypeOK /\ WakeInv /\ [Next]_vars => WakeInv'
  BY WakeInvStep
<1>3. TypeOK /\ WakeInv => NoLostWakeup
  <2>1. TypeOK => DOMAIN msg_queue = 1 .. Len(msg_queue)
    BY DEF TypeOK, InType
  <2> QED BY <2>1 DEF WakeInv, HasMsg, NoLostWakeup
<1> QED BY <1>1, <1>2, <1>3, TypeCorrect, PTL DEF Spec

\* QuicStreamReadV finds the stream of every message it takes, so the NULL branch
\* of its loop is dead.
THEOREM MessagesFound == Spec => []MessagesAreFound
<1>1. Init => WakeInv
  BY DEF Init, WakeInv, BreakMeansFull, NoArg, Readable
<1>2. TypeOK /\ WakeInv /\ [Next]_vars => WakeInv'
  BY WakeInvStep
<1>3. TypeOK /\ WakeInv => MessagesAreFound
  <2>1. TypeOK => DOMAIN msg_queue = 1 .. Len(msg_queue)
    BY DEF TypeOK, InType
  <2> QED BY <2>1 DEF WakeInv, MessagesAreFound
<1> QED BY <1>1, <1>2, <1>3, TypeCorrect, PTL DEF Spec

-----------------------------------------------------------------------------
(* One step.                                                                  *)

\* One step of the endpoint leaves the head of a list that does not continue
\* its stream, and the stream's read offset, as they are.
LEMMA StalledStep ==
    ASSUME TypeOK, [Next]_vars, NEW id \in Ids, queue[id] # <<>>, ~Readable(id)
    PROVE  /\ offset'[id] = offset[id]
           /\ queue'[id] # <<>> /\ Head(queue'[id]) = Head(queue[id])
<1>1. /\ offset \in [Ids -> Nat] /\ queue \in [Ids -> Seq(SegmentType)]
      /\ queue[id] \in Seq(SegmentType)
  BY DEF TypeOK, InType
<1>2. ASSUME NEW i \in WireIds, NEW f \in Segments, QuicFrameStreamParser(i, f)
      PROVE  /\ offset'[id] = offset[id]
             /\ queue'[id] # <<>> /\ Head(queue'[id]) = Head(queue[id])
  <2>1. /\ UNCHANGED offset
        /\ \/ queue'[id] = queue[id]
           \/ \E seg \in SegmentType : queue'[id] = Append(queue[id], seg)
    BY <1>1, <1>2, ParserAppends
  <2>2. ASSUME NEW seg \in SegmentType, queue'[id] = Append(queue[id], seg)
        PROVE  queue'[id] # <<>> /\ Head(queue'[id]) = Head(queue[id])
    BY <1>1, <2>2
  <2> QED BY <2>1, <2>2
<1>3. CASE ReadSegment
  <2>1. arg.id # id
    BY <1>3 DEF ReadSegment
  <2>2. offset'[id] = offset[id] /\ queue'[id] = queue[id]
    BY <1>1, <1>3, <2>1 DEF ReadSegment
  <2> QED BY <2>2
<1>4. CASE UNCHANGED <<offset, queue, app>>
  BY <1>4
<1> QED BY <1>2, <1>3, <1>4, ReadFrame

\* Once the head of a list is not at the read offset, QuicStreamReadData
\* delivers nothing more of the stream, whatever frames arrive and whatever
\* calls are made.
THEOREM StalledListStays == Spec => StalledHeadStays
<1>1. TypeOK /\ [Next]_vars =>
        [\A id \in Ids : queue[id] # <<>> /\ ~Readable(id) =>
            /\ offset'[id] = offset[id]
            /\ queue'[id] # <<>> /\ Head(queue'[id]) = Head(queue[id])]_vars
  BY StalledStep
<1> QED BY <1>1, TypeCorrect, PTL DEF Spec, StalledHeadStays

-----------------------------------------------------------------------------

Advances(a, b) == a = b \/ RecvRank(a) < RecvRank(b)

\* No stream is behind its present state in rs.
Forward(rs) == \A id \in Ids : Advances(recv_state[id], rs[id])

\* The order of the receiving states of quic/stream.h.
LEMMA Ranks ==
    /\ RecvRank("START") = 0 /\ RecvRank("RECV") = 1 /\ RecvRank("SIZE_KNOWN") = 2
    /\ RecvRank("DATA_RECVD") = 3 /\ RecvRank("DATA_READ") = 4
    /\ RecvRank("RESET_RECVD") = 4
BY DEF RecvRank

\* A lookup opens what it passes: START becomes RECV, nothing else changes.
LEMMA OpenedForward ==
    ASSUME TypeOK, NEW id
    PROVE  Forward(RecvOpened(id)) /\ Forward(RecvOpen(RecvOpened(id), id))
<1>1. \A j \in Ids : \/ RecvOpened(id)[j] = recv_state[j]
                     \/ recv_state[j] = "START" /\ RecvOpened(id)[j] = "RECV"
  BY DEF RecvOpened
<1>2. ASSUME NEW j \in Ids
      PROVE  \/ RecvOpen(RecvOpened(id), id)[j] = RecvOpened(id)[j]
             \/ /\ RecvOpened(id)[j] = "START"
                /\ RecvOpen(RecvOpened(id), id)[j] = "RECV"
  BY DEF RecvOpen, RecvOpened
<1>3. ASSUME NEW j \in Ids
      PROVE  \/ RecvOpen(RecvOpened(id), id)[j] = recv_state[j]
             \/ /\ recv_state[j] = "START"
                /\ RecvOpen(RecvOpened(id), id)[j] = "RECV"
  BY <1>1, <1>2
<1> QED BY <1>1, <1>3, Ranks DEF Forward, Advances

\* The same with one stream in the state a parser has computed for it.
LEMMA SetForward ==
    ASSUME TypeOK, NEW id, NEW r, id \in Ids => Advances(recv_state[id], r)
    PROVE  Forward([RecvOpened(id) EXCEPT ![id] = r])
<1>1. ASSUME NEW j \in Ids, j # id
      PROVE  [RecvOpened(id) EXCEPT ![id] = r][j] = RecvOpened(id)[j]
  BY <1>1 DEF RecvOpened
<1>2. id \in Ids => [RecvOpened(id) EXCEPT ![id] = r][id] = r
  BY DEF RecvOpened
<1> QED BY <1>1, <1>2, OpenedForward DEF Forward

\* Where the FIN bit, the default of the parser and complete data lead.
LEMMA StreamFrameForward ==
    ASSUME TypeOK, NEW id \in Ids, NEW fin
    PROVE  LET a == AfterFin(id, fin)
               r == IF a = "START" THEN "RECV" ELSE a
           IN  /\ Advances(recv_state[id], a) /\ Advances(recv_state[id], r)
               /\ r = "SIZE_KNOWN" => Advances(recv_state[id], "DATA_RECVD")
<1>1. \/ RecvOpened(id)[id] = recv_state[id]
      \/ recv_state[id] = "START" /\ RecvOpened(id)[id] = "RECV"
  BY DEF RecvOpened
<1>2. \/ AfterFin(id, fin) = RecvOpened(id)[id]
      \/ RecvOpened(id)[id] = "RECV" /\ AfterFin(id, fin) = "SIZE_KNOWN"
  BY DEF AfterFin
<1> QED BY <1>1, <1>2, Ranks DEF Advances

\* A STREAM frame advances the state: QuicFrameStreamParser and
\* QuicStreamDataAdd only replace it after testing what it is.
LEMMA ParserForward ==
    ASSUME TypeOK, NEW id \in WireIds, NEW f \in Segments, QuicFrameStreamParser(id, f)
    PROVE  Forward(recv_state')
<1> DEFINE r == IF AfterFin(id, f.fin) = "START" THEN "RECV" ELSE AfterFin(id, f.fin)
<1>1. id \in Ids
  BY DEF QuicFrameStreamParser, GetInstance, Found, IdCheck
<1>2. \/ recv_state' = RecvOpened(id)
      \/ recv_state' = [RecvOpened(id) EXCEPT ![id] = r]
      \/ r = "SIZE_KNOWN" /\ recv_state' = [RecvOpened(id) EXCEPT ![id] = "DATA_RECVD"]
  BY DEF QuicFrameStreamParser, DataAdd
<1>3. /\ Advances(recv_state[id], r)
      /\ r = "SIZE_KNOWN" => Advances(recv_state[id], "DATA_RECVD")
  BY <1>1, StreamFrameForward
<1> HIDE DEF r
<1> QED BY <1>1, <1>2, <1>3, OpenedForward, SetForward

\* So does RESET_STREAM, which leaves the states after DATA_RECVD alone.
LEMMA ResetForward ==
    ASSUME TypeOK, NEW id \in WireIds, QuicFrameResetStreamParser(id)
    PROVE  Forward(recv_state')
<1> DEFINE s == RecvOpened(id)[id]
           r == IF s \in {"RECV", "SIZE_KNOWN", "DATA_RECVD"} THEN "RESET_RECVD" ELSE s
<1>1. id \in Ids
  BY DEF QuicFrameResetStreamParser, GetInstance, Found, IdCheck
<1>2. recv_state' = [RecvOpened(id) EXCEPT ![id] = r]
  BY DEF QuicFrameResetStreamParser, RecvOpened
<1>3. \/ s = recv_state[id]
      \/ recv_state[id] = "START" /\ s = "RECV"
  BY <1>1 DEF RecvOpened
<1>4. Advances(recv_state[id], r)
  BY <1>3, Ranks DEF Advances
<1> HIDE DEF r
<1> QED BY <1>2, <1>4, SetForward

\* QuicStreamReadV finishes a stream only from DATA_RECVD.
LEMMA ReadEndForward ==
    ASSUME TypeOK, ReadEnd
    PROVE  Forward(recv_state')
<1>1. \/ recv_state' = recv_state
      \/ /\ recv_state[arg.id] = "DATA_RECVD"
         /\ recv_state' = [recv_state EXCEPT ![arg.id] = "DATA_READ"]
  BY DEF ReadEnd
<1>2. recv_state \in [Ids -> RecvStates]
  BY DEF TypeOK, StateType
<1>3. ASSUME NEW j \in Ids
      PROVE  \/ recv_state'[j] = recv_state[j]
             \/ recv_state[j] = "DATA_RECVD" /\ recv_state'[j] = "DATA_READ"
  BY <1>1, <1>2
<1> QED BY <1>3, Ranks DEF Forward, Advances

\* One step per action.
LEMMA AdvanceStep == TypeOK /\ [Next]_vars => Forward(recv_state')
<1> SUFFICES ASSUME TypeOK, [Next]_vars PROVE Forward(recv_state')
  OBVIOUS
<1>0. ASSUME UNCHANGED recv_state PROVE Forward(recv_state')
  BY <1>0 DEF Forward, Advances
<1>1. CASE UNCHANGED vars
  BY <1>0, <1>1 DEF vars
<1>2. CASE FrameArrives
  <2>1. ASSUME NEW id \in WireIds, NEW f \in Segments, QuicFrameStreamParser(id, f)
        PROVE  Forward(recv_state')
    BY <2>1, ParserForward
  <2>2. ASSUME NEW id \in WireIds, NEW fin, QuicFrameStreamTruncated(id, fin)
        PROVE  Forward(recv_state')
    <3>1. id \in Ids
      BY <2>2 DEF QuicFrameStreamTruncated, GetInstance, Found, IdCheck
    <3>2. Advances(recv_state[id], AfterFin(id, fin))
      BY <3>1, StreamFrameForward
    <3>3. recv_state' = [RecvOpened(id) EXCEPT ![id] = AfterFin(id, fin)]
      BY <2>2 DEF QuicFrameStreamTruncated
    <3> QED BY <3>2, <3>3, SetForward
  <2>3. ASSUME NEW id \in WireIds, QuicFrameResetStreamParser(id)
        PROVE  Forward(recv_state')
    BY <2>3, ResetForward
  <2>4. ASSUME NEW id, NEW whole, NEW v,
               \/ QuicFrameStopSendingParser(id, whole)
               \/ QuicFrameStreamDataBlockedParser(id)
               \/ QuicFrameMaxStreamDataParser(id, v)
               \/ FrameRejected(id)
        PROVE  Forward(recv_state')
    <3>1. \/ recv_state' = RecvOpened(id)
          \/ recv_state' = RecvOpen(RecvOpened(id), id)
      BY <2>4 DEF QuicFrameStopSendingParser, QuicFrameStreamDataBlockedParser,
         QuicFrameMaxStreamDataParser, FrameRejected
    <3> QED BY <3>1, OpenedForward
  <2>5. ASSUME NEW uni, NEW v, QuicFrameMaxDataParser(v) \/ QuicFrameMaxStreamsParser(uni, v)
        PROVE  Forward(recv_state')
    BY <1>0, <2>5 DEF QuicFrameMaxDataParser, QuicFrameMaxStreamsParser
  <2> QED BY <1>2, <2>1, <2>2, <2>3, <2>4, <2>5 DEF FrameArrives
<1>3. CASE Call
  <2>1. ASSUME NEW uni, QuicStreamOpen(uni) PROVE Forward(recv_state')
    <3>1. recv_state' = recv_state \/ recv_state' = RecvOpen(recv_state, NextId(uni))
      BY <2>1 DEF QuicStreamOpen
    <3>2. recv_state \in [Ids -> RecvStates]
      BY DEF TypeOK, StateType
    <3>3. ASSUME NEW j \in Ids
          PROVE  \/ recv_state'[j] = recv_state[j]
                 \/ recv_state[j] = "START" /\ recv_state'[j] = "RECV"
      BY <3>1, <3>2 DEF RecvOpen
    <3> QED BY <3>3, Ranks DEF Forward, Advances
  <2>2. ASSUME NEW id, NEW len, NEW room,
               \/ QuicStreamRecv(id, len) \/ QuicStreamSend(id, len, room)
               \/ QuicStreamSendRefused(id)
        PROVE  Forward(recv_state')
    <3>1. recv_state' = RecvOpened(id)
      BY <2>2 DEF QuicStreamRecv, QuicStreamSend, QuicStreamSendRefused
    <3> QED BY <3>1, OpenedForward
  <2>3. ASSUME NEW len, NEW n, QuicStreamReadV(len, n) PROVE Forward(recv_state')
    BY <1>0, <2>3 DEF QuicStreamReadV
  <2>4. ASSUME NEW uni, NEW len, NEW room, QuicStreamSendEarlyData(uni, len, room)
        PROVE  Forward(recv_state')
    <3>1. \/ recv_state' = RecvOpened(NextId(uni))
          \/ recv_state' = RecvOpen(RecvOpened(NextId(uni)), NextId(uni))
      BY <2>4 DEF QuicStreamSendEarlyData
    <3> QED BY <3>1, OpenedForward
  <2> QED BY <1>3, <2>1, <2>2, <2>3, <2>4 DEF Call
<1>4. CASE RecvNewDone \/ RecvNewFail
  BY <1>0, <1>4 DEF RecvNewDone, RecvNewFail
<1>5. CASE Work
  <2>1. CASE ReadEnd
    BY <2>1, ReadEndForward
  <2>2. CASE ReadVNext \/ QuicWritePkt \/ QuicBuildFails \/ QuicWriteBlocked
    <3>1. recv_state' = recv_state \/ \E id : recv_state' = RecvOpened(id)
      BY <2>2 DEF ReadVNext, QuicWritePkt, QuicBuildFails, SendFlowCtrl, QuicWriteBlocked
    <3> QED BY <1>0, <3>1, OpenedForward
  <2>3. CASE ReadSegment \/ ReadVDone \/ QuicSendDone
    BY <1>0, <2>3 DEF ReadSegment, ReadVDone, QuicSendDone
  <2> QED BY <1>5, <2>1, <2>2, <2>3 DEF Work
<1> QED BY <1>1, <1>2, <1>3, <1>4, <1>5 DEF Next

\* The receiving states only move forward: a lookup, a parser and the end of a
\* read each go from one state to a later one, and DISABLE, RESET_RECVD and
\* DATA_READ are left by none of them.
THEOREM StatesAdvance == Spec => RecvStateAdvances
<1>1. TypeOK /\ [Next]_vars =>
        [\A id \in Ids : recv_state'[id] # recv_state[id] =>
            RecvRank(recv_state[id]) < RecvRank(recv_state'[id])]_vars
  BY AdvanceStep DEF Forward, Advances
<1> QED BY <1>1, TypeCorrect, PTL DEF Spec, RecvStateAdvances

-----------------------------------------------------------------------------
(* The end of a stream.                                                       *)

\* The peer is consistent: the FIN bits of a stream agree on where it ends.
OneFinalSize ==
    \A f, g \in Segments : f.fin /\ g.fin => f.offset + f.len = g.offset + g.len

\* n bytes are all of the stream.
Complete(n) == \A f \in Segments : f.fin => n >= f.offset + f.len

\* Where the bytes of a segment end.
EndOf(seg) == seg.offset + seg.len

\* A list that is never read again (StalledListStays).
Stalled(id) == queue[id] # <<>> /\ ~Readable(id)

\* The bytes up to the final size were read or are queued.
SizeReached(id) ==
    \/ Stalled(id) \/ Complete(offset[id])
    \/ \E k \in 1 .. Len(queue[id]) : Complete(EndOf(queue[id][k]))

\* Reading the list to its end reads the stream to its end.
AllQueued(id) ==
    \/ Stalled(id)
    \/ /\ Ordered(offset[id], queue[id])
       /\ IF queue[id] = <<>> THEN Complete(offset[id])
          ELSE Complete(EndOf(queue[id][Len(queue[id])]))

FinInvOf(id) ==
    id \notin lost =>
        /\ recv_state[id] \in {"SIZE_KNOWN", "DATA_RECVD"} => SizeReached(id)
        /\ recv_state[id] = "DATA_RECVD" => AllQueued(id)
        /\ recv_state[id] = "DATA_READ" => Complete(offset[id])

FinInv == \A id \in Ids : FinInvOf(id)

\* A buffer that holds the whole stream still does when it holds more.
LEMMA CompleteGrows ==
    ASSUME NEW m \in Nat, NEW n \in Nat, m <= n, Complete(m)
    PROVE  Complete(n)
BY StreamAssumption DEF Complete

\* In a list without gaps the ends grow from the start to the last segment.
LEMMA EndsGrow ==
    ASSUME NEW q \in Seq(SegmentType), q # <<>>, NEW start \in Nat, Ordered(start, q)
    PROVE  /\ start <= EndOf(q[Len(q)])
           /\ \A k \in 1 .. Len(q) : EndOf(q[k]) <= EndOf(q[Len(q)])
<1> DEFINE n == Len(q)
           e(k) == EndOf(q[k])
<1>1. n \in Nat /\ n >= 1 /\ DOMAIN q = 1 .. n
  <2>1. Len(q) \in Nat /\ Len(q) # 0 /\ DOMAIN q = 1 .. Len(q)
    BY LenProperties, EmptySeq
  <2> QED BY <2>1
<1>2. \A k \in 1 .. n : q[k].offset \in Nat /\ q[k].len \in Nat
  <2>1. \A k \in 1 .. n : q[k] \in SegmentType
    BY ElementOfSeq
  <2> QED BY <2>1 DEF SegmentType
<1>3. \A k \in 1 .. n : e(k) \in Nat /\ q[k].offset <= e(k)
  BY <1>2 DEF EndOf
<1>4. q[1].offset = start /\ \A k \in 1 .. n : k # 1 => q[k].offset = e(k - 1)
  <2>1. \A k \in 1 .. n :
          q[k].offset = IF k = 1 THEN start ELSE q[k - 1].offset + q[k - 1].len
    BY <1>1 DEF Ordered
  <2>2. 1 \in 1 .. n
    BY <1>1
  <2> QED BY <2>1, <2>2 DEF EndOf
<1> HIDE DEF n, e
<1>5. start <= e(n)
  <2> DEFINE S == {k \in 1 .. n : ~(start <= e(k))}
  <2>1. CASE S = {}
    BY <1>1, <2>1
  <2>2. CASE S # {}
    <3>1. PICK k \in S : \A j \in S : k <= j
      <4>1. S \subseteq Nat
        BY <1>1
      <4> HIDE DEF S
      <4> QED BY <2>2, <4>1, Least
    <3>2. CASE k = 1
      BY <1>1, <1>3, <1>4, <3>2
    <3>3. CASE k # 1
      <4>1. k - 1 \in 1 .. n /\ k - 1 \notin S
        BY <1>1, <3>1, <3>3
      <4>2. start <= e(k - 1) /\ e(k - 1) <= e(k) /\ e(k - 1) \in Nat /\ e(k) \in Nat
        BY <1>3, <1>4, <3>3, <4>1
      <4> QED BY <4>2
    <3> QED BY <3>2, <3>3
  <2> QED BY <2>1, <2>2
<1>6. \A k \in 1 .. n : e(k) <= e(n)
  <2> DEFINE S == {j \in 0 .. n - 1 : ~(e(n - j) <= e(n))}
  <2>1. CASE S = {}
    <3> SUFFICES ASSUME NEW k \in 1 .. n PROVE e(k) <= e(n)
      OBVIOUS
    <3>1. n - k \in 0 .. n - 1 /\ n - (n - k) = k
      BY <1>1
    <3>2. n - k \notin S
      BY <2>1
    <3> QED BY <3>1, <3>2
  <2>2. CASE S # {}
    <3>1. PICK j \in S : \A i \in S : j <= i
      <4>1. S \subseteq Nat
        BY <1>1
      <4> HIDE DEF S
      <4> QED BY <2>2, <4>1, Least
    <3>2. j # 0
      BY <1>1, <1>3
    <3>3. j - 1 \in 0 .. n - 1 /\ j - 1 \notin S
      BY <1>1, <3>1, <3>2
    <3>4. /\ n - j \in 1 .. n /\ n - (j - 1) \in 1 .. n /\ n - (j - 1) # 1
          /\ n - (j - 1) - 1 = n - j
      BY <1>1, <3>1, <3>2
    <3>5. e(n - j) <= e(n - (j - 1))
      BY <1>3, <1>4, <3>4
    <3>6. e(n - (j - 1)) <= e(n)
      BY <3>3
    <3>7. e(n - j) \in Nat /\ e(n - (j - 1)) \in Nat /\ e(n) \in Nat
      BY <1>1, <1>3, <3>4
    <3> QED BY <3>5, <3>6, <3>7
  <2> QED BY <2>1, <2>2
<1> QED BY <1>5, <1>6 DEF n, e

-----------------------------------------------------------------------------

\* What a step other than the three below does: bytes stay where they are, and
\* no stream comes closer to its end unless its FIN frame lost its bytes.
LEMMA FinFrame ==
    ASSUME TypeOK, [Next]_vars
    PROVE  \/ \E id \in WireIds, f \in Segments : QuicFrameStreamParser(id, f)
           \/ ReadSegment
           \/ ReadEnd
           \/ /\ UNCHANGED <<offset, queue>> /\ lost \subseteq lost'
              /\ \A j \in Ids : \/ j \in lost'
                                \/ recv_state'[j] \in {"START", "RECV", "DISABLE", "RESET_RECVD"}
                                \/ recv_state'[j] = recv_state[j]
<1> DEFINE Still ==
        /\ UNCHANGED <<offset, queue>> /\ lost \subseteq lost'
        /\ \A j \in Ids : \/ j \in lost'
                          \/ recv_state'[j] \in {"START", "RECV", "DISABLE", "RESET_RECVD"}
                          \/ recv_state'[j] = recv_state[j]
<1>0. recv_state \in [Ids -> RecvStates]
  BY DEF TypeOK, StateType
<1>1. ASSUME NEW i, UNCHANGED inVars,
             \/ UNCHANGED recv_state \/ recv_state' = RecvOpened(i)
             \/ recv_state' = RecvOpen(RecvOpened(i), i)
             \/ recv_state' = RecvOpen(recv_state, i)
      PROVE  Still
  <2>1. ASSUME NEW j \in Ids
        PROVE  recv_state'[j] = recv_state[j] \/ recv_state'[j] = "RECV"
    BY <1>0, <1>1 DEF RecvOpened, RecvOpen
  <2> QED BY <1>1, <2>1 DEF inVars
<1>2. CASE UNCHANGED vars
  BY <1>2 DEF vars, inVars
<1>3. CASE FrameArrives
  <2>1. ASSUME NEW id \in WireIds, NEW fin \in BOOLEAN, QuicFrameStreamTruncated(id, fin)
        PROVE  Still
    <3>1. /\ UNCHANGED <<offset, queue>> /\ id \in Ids
          /\ recv_state' = [RecvOpened(id) EXCEPT ![id] = AfterFin(id, fin)]
          /\ lost' = IF fin /\ AfterFin(id, fin) = "SIZE_KNOWN" THEN lost \cup {id} ELSE lost
      BY <2>1 DEF QuicFrameStreamTruncated, GetInstance, Found, IdCheck
    <3>2. ASSUME NEW j \in Ids, j # id
          PROVE  recv_state'[j] = recv_state[j] \/ recv_state'[j] = "RECV"
      BY <3>1, <3>2 DEF RecvOpened
    <3>3. \/ id \in lost' \/ recv_state'[id] = recv_state[id]
          \/ recv_state'[id] = "RECV"
      BY <3>1 DEF RecvOpened, AfterFin
    <3> QED BY <3>1, <3>2, <3>3
  <2>2. ASSUME NEW id \in WireIds, QuicFrameResetStreamParser(id) PROVE Still
    <3>1. /\ UNCHANGED inVars
          /\ recv_state' = [RecvOpened(id) EXCEPT ![id] =
                IF @ \in {"RECV", "SIZE_KNOWN", "DATA_RECVD"} THEN "RESET_RECVD" ELSE @]
      BY <2>2 DEF QuicFrameResetStreamParser
    <3>2. ASSUME NEW j \in Ids
          PROVE  \/ recv_state'[j] = recv_state[j]
                 \/ recv_state'[j] \in {"RECV", "RESET_RECVD"}
      BY <3>1 DEF RecvOpened
    <3> QED BY <3>1, <3>2 DEF inVars
  <2>3. ASSUME NEW id, NEW whole, NEW v,
               \/ QuicFrameStopSendingParser(id, whole)
               \/ QuicFrameStreamDataBlockedParser(id)
               \/ QuicFrameMaxStreamDataParser(id, v)
               \/ FrameRejected(id) \/ QuicFrameMaxDataParser(v)
               \/ QuicFrameMaxStreamsParser(whole, v)
        PROVE  Still
    BY <1>1, <2>3 DEF QuicFrameStopSendingParser, QuicFrameStreamDataBlockedParser,
       QuicFrameMaxStreamDataParser, FrameRejected, QuicFrameMaxDataParser,
       QuicFrameMaxStreamsParser
  <2> QED BY <1>3, <2>1, <2>2, <2>3 DEF FrameArrives
<1>4. CASE Call
  <2>1. ASSUME NEW uni, NEW id, NEW len, NEW n,
               \/ QuicStreamOpen(uni) \/ QuicStreamRecv(id, len)
               \/ QuicStreamReadV(len, n) \/ QuicStreamSend(id, len, n)
               \/ QuicStreamSendRefused(id) \/ QuicStreamSendEarlyData(uni, len, n)
        PROVE  Still
    BY <1>1, <2>1 DEF QuicStreamOpen, QuicStreamRecv, QuicStreamReadV, QuicStreamSend,
       QuicStreamSendRefused, QuicStreamSendEarlyData
  <2> QED BY <1>4, <2>1 DEF Call
<1>5. CASE RecvNewDone \/ RecvNewFail
  BY <1>5 DEF RecvNewDone, RecvNewFail, inVars
<1>6. CASE Work
  BY <1>1, <1>6 DEF Work, ReadVNext, ReadVDone, QuicWritePkt, QuicBuildFails,
     SendFlowCtrl, QuicWriteBlocked, QuicSendDone
<1> QED BY <1>2, <1>3, <1>4, <1>5, <1>6 DEF Next

\* The bytes of an accepted frame end where the frame does.
LEMMA FreshEnd ==
    ASSUME TypeOK, NEW id \in Ids, NEW f \in Segments
    PROVE  /\ EndOf(Fresh(id, f)) = f.offset + f.len
           /\ Retransmitted(id, f) => offset[id] >= f.offset + f.len
<1>1. f.offset \in Nat /\ f.len \in Nat /\ offset[id] \in Nat
  BY StreamAssumption DEF TypeOK, InType
<1> QED BY <1>1 DEF Fresh, EndOf, Retransmitted

\* An ordered list whose size was reached holds all bytes up to the end.
LEMMA OrderedIsAll ==
    ASSUME NEW q \in Seq(SegmentType), NEW start \in Nat, Ordered(start, q), q # <<>>,
           \/ Complete(start) \/ \E k \in 1 .. Len(q) : Complete(EndOf(q[k]))
    PROVE  Complete(EndOf(q[Len(q)]))
<1>1. \A k \in 1 .. Len(q) : EndOf(q[k]) \in Nat
  <2>1. \A k \in 1 .. Len(q) : q[k] \in SegmentType
    BY ElementOfSeq
  <2>2. \A k \in 1 .. Len(q) : q[k].offset \in Nat /\ q[k].len \in Nat
    BY <2>1 DEF SegmentType
  <2> QED BY <2>2 DEF EndOf
<1>2. Len(q) \in 1 .. Len(q)
  BY EmptySeq
<1> QED BY <1>1, <1>2, EndsGrow, CompleteGrows

\* A STREAM frame: the bytes of the frame with the FIN are read, queued or lost,
\* and DATA_RECVD is entered only with an ordered list.
LEMMA ParserFin ==
    ASSUME OneFinalSize, TypeOK, FinInv, NEW id \in WireIds, NEW f \in Segments,
           QuicFrameStreamParser(id, f)
    PROVE  FinInv'
<1> DEFINE r == IF AfterFin(id, f.fin) = "START" THEN "RECV" ELSE AfterFin(id, f.fin)
           seg == Fresh(id, f)
           ok == Accepted(id, f)
           q == Append(queue[id], seg)
<1>0. /\ id \in Ids /\ offset' = offset /\ queue \in [Ids -> Seq(SegmentType)]
      /\ offset \in [Ids -> Nat] /\ recv_state \in [Ids -> RecvStates]
  BY DEF QuicFrameStreamParser, GetInstance, Found, IdCheck, TypeOK, InType, StateType
<1>1. CASE r \notin {"RECV", "SIZE_KNOWN"}
  <2>1. recv_state' = RecvOpened(id) /\ UNCHANGED <<queue, lost>>
    BY <1>1 DEF QuicFrameStreamParser
  <2>2. ASSUME NEW j \in Ids
        PROVE  recv_state'[j] = recv_state[j] \/ recv_state'[j] = "RECV"
    BY <2>1 DEF RecvOpened
  <2> QED BY <1>0, <2>1, <2>2 DEF FinInv, FinInvOf, SizeReached, AllQueued, Stalled, Readable
<1>2. CASE r \in {"RECV", "SIZE_KNOWN"}
  <2>1. DataAdd(id, f, r)
    BY <1>2 DEF QuicFrameStreamParser
  <2>2. /\ queue' = IF ok THEN [queue EXCEPT ![id] = q] ELSE queue
        /\ recv_state' = [RecvOpened(id) EXCEPT ![id] = r]
           \/ /\ ok /\ r = "SIZE_KNOWN" /\ Ordered(offset[id], q)
              /\ recv_state' = [RecvOpened(id) EXCEPT ![id] = "DATA_RECVD"]
        /\ lost' = IF f.fin /\ r = "SIZE_KNOWN" /\ ~ok /\ ~Retransmitted(id, f)
                   THEN lost \cup {id} ELSE lost
    BY <2>1 DEF DataAdd
  <2>3. r = "SIZE_KNOWN" => f.fin \/ recv_state[id] = "SIZE_KNOWN"
    BY <1>0 DEF AfterFin, RecvOpened
  <2>4. \A j \in Ids : j # id => /\ queue'[j] = queue[j]
                                 /\ recv_state'[j] = recv_state[j] \/ recv_state'[j] = "RECV"
                                 /\ j \in lost <=> j \in lost'
    BY <1>0, <2>2 DEF RecvOpened
  <2>5. ok => /\ seg \in SegmentType /\ q \in Seq(SegmentType) /\ queue'[id] = q
              /\ Len(q) = Len(queue[id]) + 1 /\ q # <<>>
              /\ Len(queue[id]) \in Nat
              /\ q[Len(q)] = seg /\ \A k \in 1 .. Len(queue[id]) : q[k] = queue[id][k]
    <3>1. ok => seg \in SegmentType
      BY <1>0, FreshType DEF TypeOK, Accepted
    <3>2. queue[id] \in Seq(SegmentType)
      BY <1>0
    <3>3. ok => queue'[id] = q
      <4> HIDE DEF q, ok
      <4> QED BY <1>0, <2>2
    <3> HIDE DEF seg, ok
    <3>4. ok => /\ q \in Seq(SegmentType) /\ Len(q) = Len(queue[id]) + 1 /\ q # <<>>
                /\ q[Len(q)] = seg /\ \A k \in 1 .. Len(queue[id]) : q[k] = queue[id][k]
      BY <3>1, <3>2, AppendProperties
    <3>5. Len(queue[id]) \in Nat
      BY <3>2
    <3> QED BY <3>1, <3>3, <3>4, <3>5
  <2>6. ~ok => queue'[id] = queue[id]
    BY <1>0, <2>2
  <2>7. f.fin => Complete(f.offset + f.len)
    BY StreamAssumption DEF OneFinalSize, Complete
  <2>8. r = "SIZE_KNOWN" /\ id \notin lost' => SizeReached(id)'
    <3> SUFFICES ASSUME r = "SIZE_KNOWN", id \notin lost'
                 PROVE  SizeReached(id)'
      OBVIOUS
    <3>1. CASE recv_state[id] = "SIZE_KNOWN"
      <4>1. SizeReached(id)
        BY <1>0, <2>2, <3>1 DEF FinInv, FinInvOf
      <4>2. CASE ok
        <5>1. CASE Stalled(id)
          <6>1. queue'[id] # <<>> /\ Head(queue'[id]) = Head(queue[id])
            <7>1. queue[id] # <<>> /\ queue[id] \in Seq(SegmentType)
              BY <1>0, <5>1 DEF Stalled
            <7> QED BY <1>0, <2>5, <4>2, <7>1
          <6> QED BY <1>0, <5>1, <6>1 DEF SizeReached, Stalled, Readable
        <5>2. CASE \E k \in 1 .. Len(queue[id]) : Complete(EndOf(queue[id][k]))
          <6>1. \A k \in 1 .. Len(queue[id]) : k \in 1 .. Len(q) /\ q[k] = queue[id][k]
            BY <2>5, <4>2
          <6> QED BY <2>5, <4>2, <5>2, <6>1 DEF SizeReached
        <5> QED BY <1>0, <4>1, <5>1, <5>2 DEF SizeReached
      <4>3. CASE ~ok
        BY <1>0, <2>6, <4>1, <4>3 DEF SizeReached, Stalled, Readable
      <4> QED BY <4>2, <4>3
    <3>2. CASE f.fin
      <4>1. CASE ok
        <5>1. Len(q) \in 1 .. Len(queue'[id]) /\ queue'[id][Len(q)] = seg
          BY <2>5, <4>1
        <5>2. Complete(EndOf(seg))
          BY <1>0, <2>7, <3>2, FreshEnd
        <5> QED BY <5>1, <5>2 DEF SizeReached
      <4>2. CASE Retransmitted(id, f)
        <5>1. Complete(offset[id])
          <6>1. f.offset + f.len \in Nat /\ offset[id] \in Nat
            BY <1>0, StreamAssumption
          <6> QED BY <1>0, <2>7, <3>2, <4>2, <6>1, FreshEnd, CompleteGrows
        <5> QED BY <1>0, <5>1 DEF SizeReached
      <4> QED BY <2>2, <3>2, <4>1, <4>2
    <3> QED BY <2>3, <3>1, <3>2
  <2>9. CASE recv_state' = [RecvOpened(id) EXCEPT ![id] = r]
    <3>1. recv_state'[id] = r
      BY <1>0, <2>9 DEF RecvOpened
    <3>2. FinInvOf(id)'
      BY <1>2, <2>8, <3>1 DEF FinInvOf
    <3>3. ASSUME NEW j \in Ids, j # id PROVE FinInvOf(j)'
      BY <1>0, <2>4, <3>3 DEF FinInv, FinInvOf, SizeReached, AllQueued, Stalled, Readable
    <3> QED BY <3>2, <3>3 DEF FinInv
  <2>10. CASE /\ ok /\ r = "SIZE_KNOWN" /\ Ordered(offset[id], q)
              /\ recv_state' = [RecvOpened(id) EXCEPT ![id] = "DATA_RECVD"]
    <3>1. recv_state'[id] = "DATA_RECVD"
      BY <1>0, <2>10 DEF RecvOpened
    <3>2. id \notin lost' => AllQueued(id)'
      <4> SUFFICES ASSUME id \notin lost' PROVE AllQueued(id)'
        OBVIOUS
      <4>1. CASE Stalled(id)'
        BY <4>1 DEF AllQueued
      <4>2. CASE ~ Stalled(id)'
        <5>1. \/ Complete(offset[id]) \/ \E k \in 1 .. Len(q) : Complete(EndOf(q[k]))
          BY <1>0, <2>5, <2>8, <2>10, <4>2 DEF SizeReached
        <5>2. Complete(EndOf(q[Len(q)]))
          BY <1>0, <2>5, <2>10, <5>1, OrderedIsAll
        <5> QED BY <1>0, <2>5, <2>10, <5>2 DEF AllQueued
      <4> QED BY <4>1, <4>2
    <3>3. FinInvOf(id)'
      BY <2>8, <2>10, <3>1, <3>2 DEF FinInvOf
    <3>4. ASSUME NEW j \in Ids, j # id PROVE FinInvOf(j)'
      BY <1>0, <2>4, <3>4 DEF FinInv, FinInvOf, SizeReached, AllQueued, Stalled, Readable
    <3> QED BY <3>3, <3>4 DEF FinInv
  <2> QED BY <2>2, <2>9, <2>10
<1> QED BY <1>1, <1>2

\* Reading a segment: an ordered list stays ordered from the new read offset,
\* and a segment cut in part stalls its list.
LEMMA ReadSegmentFin ==
    ASSUME TypeOK, FinInv, ReadSegment
    PROVE  FinInv'
<1> SUFFICES ASSUME NEW id \in Ids, id = arg.id, NEW sd, sd = Head(queue[id]),
                    NEW n, n = CopyBytes(sd)
             PROVE  FinInv'
  BY CopyBytesType
<1>1. /\ id \in Ids /\ queue[id] \in Seq(SegmentType) /\ queue[id] # <<>>
      /\ sd \in SegmentType /\ n \in 0 .. sd.len /\ sd.offset = offset[id]
      /\ n = 0 => sd.len = 0
  BY CopyBytesType
<1>2. /\ offset \in [Ids -> Nat] /\ queue \in [Ids -> Seq(SegmentType)]
      /\ sd.len \in Nat /\ sd.offset \in Nat /\ sd = queue[id][1]
      /\ Len(queue[id]) \in Nat /\ Len(queue[id]) >= 1
  <2>1. sd.len \in Nat /\ sd.offset \in Nat
    BY <1>1 DEF SegmentType
  <2>2. sd = queue[id][1] /\ Len(queue[id]) \in Nat /\ Len(queue[id]) >= 1
    BY <1>1, LenProperties, EmptySeq
  <2> QED BY <2>1, <2>2 DEF TypeOK, InType
<1>3. /\ offset' = [offset EXCEPT ![id] = @ + n]
      /\ queue' = [queue EXCEPT ![id] = AfterCopy(@, n)]
      /\ recv_state' = recv_state /\ lost' = lost
  BY DEF ReadSegment
<1>4. n \in Nat /\ n <= sd.len
  BY <1>1, <1>2
<1>5. /\ offset'[id] = offset[id] + n /\ queue'[id] = AfterCopy(queue[id], n)
      /\ \A j \in Ids : j # id => offset'[j] = offset[j] /\ queue'[j] = queue[j]
  BY <1>1, <1>2, <1>3
<1>6. ~ Stalled(id)
  BY <1>1 DEF Stalled, Readable
<1>7. Complete(offset[id]) => Complete(offset'[id])
  <2>1. offset[id] \in Nat /\ offset'[id] \in Nat /\ offset[id] <= offset'[id]
    BY <1>1, <1>2, <1>4, <1>5
  <2> QED BY <2>1, CompleteGrows
<1>8. CASE n # sd.len
  <2>1. Stalled(id)'
    <3> DEFINE cut == [sd EXCEPT !.pos = @ + n, !.len = @ - n]
    <3>1. queue'[id] = <<cut>> \o Tail(queue[id])
      BY <1>5, <1>8 DEF AfterCopy
    <3>2. cut.offset = offset[id] /\ n > 0
      BY <1>1, <1>2, <1>4, <1>8 DEF SegmentType
    <3> HIDE DEF cut
    <3>3. queue'[id] # <<>> /\ Head(queue'[id]) = cut
      <4>1. Tail(queue[id]) \in Seq(SegmentType)
        BY <1>1
      <4> QED BY <3>1, <4>1
    <3>4. cut.offset # offset'[id]
      BY <1>1, <1>2, <1>4, <1>5, <3>2
    <3> QED BY <3>3, <3>4 DEF Stalled, Readable
  <2>2. FinInvOf(id)'
    BY <1>1, <1>3, <1>7, <2>1 DEF FinInv, FinInvOf, SizeReached, AllQueued
  <2>3. ASSUME NEW j \in Ids, j # id PROVE FinInvOf(j)'
    BY <1>3, <1>5, <2>3 DEF FinInv, FinInvOf, SizeReached, AllQueued, Stalled, Readable
  <2> QED BY <2>2, <2>3 DEF FinInv
<1>9. CASE n = sd.len
  <2> DEFINE old == queue[id]
             new == queue'[id]
  <2>1. new = Tail(old)
    BY <1>5, <1>9 DEF AfterCopy
  <2>2. /\ new \in Seq(SegmentType) /\ Len(new) = Len(old) - 1
        /\ \A k \in 1 .. Len(new) : new[k] = old[k + 1]
    <3> HIDE DEF old, new
    <3>1. old \in Seq(SegmentType) /\ old # <<>>
      BY <1>1 DEF old
    <3> QED BY <2>1, <3>1
  <2>3. EndOf(old[1]) = offset'[id]
    BY <1>2, <1>1, <1>5, <1>9 DEF EndOf
  <2>4. SizeReached(id) => SizeReached(id)'
    <3>1. ASSUME NEW k \in 1 .. Len(old), Complete(EndOf(old[k]))
          PROVE  SizeReached(id)'
      <4>1. CASE k = 1
        BY <2>3, <3>1, <4>1 DEF SizeReached
      <4>2. CASE k # 1
        <5>1. k - 1 \in 1 .. Len(new) /\ new[k - 1] = old[k]
          <6>1. k - 1 \in 1 .. Len(new) /\ (k - 1) + 1 = k
            BY <1>2, <2>2, <4>2
          <6> QED BY <2>2, <6>1
        <5> QED BY <3>1, <5>1 DEF SizeReached
      <4> QED BY <4>1, <4>2
    <3> QED BY <1>6, <1>7, <3>1 DEF SizeReached
  <2>5. AllQueued(id) => AllQueued(id)'
    <3> SUFFICES ASSUME AllQueued(id) PROVE AllQueued(id)'
      OBVIOUS
    <3>1. Ordered(offset[id], old) /\ Complete(EndOf(old[Len(old)]))
      BY <1>1, <1>6 DEF AllQueued
    <3>2. Ordered(offset'[id], new)
      <4>0. DOMAIN old = 1 .. Len(old) /\ DOMAIN new = 1 .. Len(new)
        BY <1>1, <2>2, LenProperties
      <4> SUFFICES ASSUME NEW k \in 1 .. Len(new)
                   PROVE  new[k].offset = IF k = 1 THEN offset'[id]
                                          ELSE new[k - 1].offset + new[k - 1].len
        BY <4>0 DEF Ordered
      <4>1. k + 1 \in 1 .. Len(old) /\ k + 1 # 1 /\ k \in 1 .. Len(old) /\ (k + 1) - 1 = k
        BY <1>2, <2>2
      <4>2. old[k + 1].offset = old[k].offset + old[k].len
        BY <3>1, <4>0, <4>1 DEF Ordered
      <4>3. CASE k = 1
        BY <2>2, <2>3, <4>2, <4>3 DEF EndOf
      <4>4. CASE k # 1
        <5>1. k - 1 \in 1 .. Len(new) /\ (k - 1) + 1 = k
          BY <4>4
        <5>2. new[k - 1] = old[k] /\ new[k] = old[k + 1]
          BY <2>2, <5>1
        <5> QED BY <4>2, <4>4, <5>2
      <4> QED BY <4>3, <4>4
    <3>3. CASE new = <<>>
      <4>1. Len(old) = 1
        BY <1>2, <2>2, <3>3
      <4> QED BY <2>3, <3>1, <3>2, <3>3, <4>1 DEF AllQueued
    <3>4. CASE new # <<>>
      <4>1. Len(new) \in 1 .. Len(new)
        BY <2>2, <3>4, EmptySeq
      <4>2. new[Len(new)] = old[Len(old)]
        <5>1. Len(new) + 1 = Len(old)
          BY <1>2, <2>2
        <5> QED BY <2>2, <4>1, <5>1
      <4> QED BY <3>1, <3>2, <3>4, <4>2 DEF AllQueued
    <3> QED BY <3>3, <3>4
  <2>6. FinInvOf(id)'
    BY <1>1, <1>3, <1>7, <2>4, <2>5 DEF FinInv, FinInvOf
  <2>7. ASSUME NEW j \in Ids, j # id PROVE FinInvOf(j)'
    BY <1>3, <1>5, <2>7 DEF FinInv, FinInvOf, SizeReached, AllQueued, Stalled, Readable
  <2> QED BY <2>6, <2>7 DEF FinInv
<1> QED BY <1>8, <1>9

\* DATA_READ is entered when an ordered list has been read to its end.
LEMMA ReadEndFin ==
    ASSUME TypeOK, FinInv, ReadEnd
    PROVE  FinInv'
<1>1. /\ UNCHANGED <<offset, queue, lost>> /\ recv_state \in [Ids -> RecvStates]
      /\ \/ recv_state' = recv_state
         \/ /\ queue[arg.id] = <<>> /\ recv_state[arg.id] = "DATA_RECVD"
            /\ recv_state' = [recv_state EXCEPT ![arg.id] = "DATA_READ"]
  BY DEF ReadEnd, TypeOK, StateType
<1>2. ASSUME NEW j \in Ids
      PROVE  \/ recv_state'[j] = recv_state[j]
             \/ /\ queue[j] = <<>> /\ recv_state[j] = "DATA_RECVD"
                /\ recv_state'[j] = "DATA_READ"
  BY <1>1
<1>3. ASSUME NEW j \in Ids PROVE FinInvOf(j)'
  BY <1>1, <1>2, <1>3 DEF FinInv, FinInvOf, SizeReached, AllQueued, Stalled, Readable
<1> QED BY <1>3 DEF FinInv

\* Every step keeps what FinAfterAllData rests on, as long as the frames of a
\* stream agree on its final size.
LEMMA FinStep == OneFinalSize /\ TypeOK /\ FinInv /\ [Next]_vars => FinInv'
<1> SUFFICES ASSUME OneFinalSize, TypeOK, FinInv, [Next]_vars PROVE FinInv'
  OBVIOUS
<1>1. ASSUME /\ UNCHANGED <<offset, queue>> /\ lost \subseteq lost'
             /\ \A j \in Ids : \/ j \in lost'
                               \/ recv_state'[j] \in {"START", "RECV", "DISABLE", "RESET_RECVD"}
                               \/ recv_state'[j] = recv_state[j]
      PROVE  FinInv'
  <2> SUFFICES ASSUME NEW j \in Ids PROVE FinInvOf(j)'
    BY DEF FinInv
  <2> QED BY <1>1 DEF FinInv, FinInvOf, SizeReached, AllQueued, Stalled, Readable
<1> QED BY <1>1, FinFrame, ParserFin, ReadSegmentFin, ReadEndFin

\* QuicStreamRecv and QuicStreamReadV report the end of a stream only after all
\* of its bytes were read, in whatever order its frames arrive, overlap or
\* repeat, for a peer whose FIN bits agree.
THEOREM FinComesLast ==
    ASSUME OneFinalSize
    PROVE  Spec => []FinAfterAllData
<1>1. Init => FinInv
  BY DEF Init, FinInv, FinInvOf
<1>2. TypeOK /\ FinInv /\ [Next]_vars => FinInv'
  BY FinStep
<1>3. FinInv => FinAfterAllData
  BY DEF FinInv, FinInvOf, FinAfterAllData, Complete
<1> QED BY <1>1, <1>2, <1>3, TypeCorrect, PTL DEF Spec

-----------------------------------------------------------------------------
(* Sums over lists, and over the streams of the table. *)

\* SumTo is the last of the partial sums.
LEMMA SumToIs ==
    ASSUME NEW n \in Nat, NEW f \in [1 .. n -> Nat]
    PROVE  \E s : IsSum(s, f, n) /\ SumTo(f, n) = s[n]
<1>1. PICK s : IsSum(s, f, n)
  BY IsSumExists
<1> DEFINE G(t) == [k \in 0 .. n |-> IF k = 0 THEN 0 ELSE t[k - 1] + f[k]]
           F == CHOOSE t : t = G(t)
<1>2. s = G(s)
  <2>1. s = [k \in 0 .. n |-> s[k]]
    BY <1>1 DEF IsSum
  <2>2. ASSUME NEW k \in 0 .. n
        PROVE  s[k] = IF k = 0 THEN 0 ELSE s[k - 1] + f[k]
    <3>1. k # 0 => k \in 1 .. n
      OBVIOUS
    <3> QED BY <1>1, <3>1 DEF IsSum
  <2> QED BY <2>1, <2>2
<1>3. F = G(F)
  <2> HIDE DEF G
  <2> QED BY <1>2
<1>4. SumTo(f, n) = F[n]
  BY DEF SumTo
<1>5. \A k \in 0 .. n : F[k] = IF k = 0 THEN 0 ELSE F[k - 1] + f[k]
  <2> HIDE DEF F
  <2> QED BY <1>3
<1>6. DOMAIN F = 0 .. n /\ F[0] = 0
  <2> HIDE DEF F
  <2> QED BY <1>3
<1> DEFINE S == {j \in 0 .. n : F[j] = s[j]}
<1>7. 0 \in S
  BY <1>1, <1>6 DEF IsSum
<1>8. ASSUME NEW j \in 0 .. n - 1, j \in S PROVE j + 1 \in S
  <2> HIDE DEF F
  <2>1. j + 1 \in 1 .. n /\ j + 1 \in 0 .. n /\ j + 1 # 0 /\ (j + 1) - 1 = j
    OBVIOUS
  <2>2. F[j + 1] = F[j] + f[j + 1]
    BY <1>5, <2>1
  <2>3. s[j + 1] = s[j] + f[j + 1] /\ F[j] = s[j]
    BY <1>1, <1>8, <2>1 DEF IsSum
  <2> QED BY <2>1, <2>2, <2>3
<1>9. n \in S
  <2>1. n \in 0 .. n
    OBVIOUS
  <2> HIDE DEF S
  <2> QED BY <1>7, <1>8, <2>1, UpTo
<1> HIDE DEF F
<1> QED BY <1>1, <1>4, <1>9

\* Sums of numbers are numbers, and the empty one is zero.
LEMMA SumNat ==
    ASSUME NEW n \in Nat, NEW f \in [1 .. n -> Nat]
    PROVE  SumTo(f, n) \in Nat /\ (n = 0 => SumTo(f, n) = 0)
<1>1. PICK s : IsSum(s, f, n) /\ SumTo(f, n) = s[n]
  BY SumToIs
<1> QED BY <1>1 DEF IsSum

\* A sum in two parts.
LEMMA SumSplit ==
    ASSUME NEW m \in Nat, NEW n \in Nat, NEW f \in [1 .. m + n -> Nat],
           NEW g \in [1 .. m -> Nat], NEW h \in [1 .. n -> Nat],
           \A j \in 1 .. m : f[j] = g[j], \A j \in 1 .. n : f[m + j] = h[j]
    PROVE  SumTo(f, m + n) = SumTo(g, m) + SumTo(h, n)
<1>0. m + n \in Nat
  OBVIOUS
<1>1. PICK s : IsSum(s, f, m + n) /\ SumTo(f, m + n) = s[m + n]
  BY <1>0, SumToIs
<1>2. PICK t : IsSum(t, g, m) /\ SumTo(g, m) = t[m]
  BY SumToIs
<1>3. PICK u : IsSum(u, h, n) /\ SumTo(h, n) = u[n]
  BY SumToIs
<1>4. s[m] = t[m] /\ t[m] \in Nat
  <2>1. s[m] = t[m]
    <3>1. m + n \in Nat /\ m <= m + n /\ m <= m
      OBVIOUS
    <3> QED BY <1>1, <1>2, <3>1, IsSumUnique
  <2> QED BY <2>1, <1>2 DEF IsSum
<1> DEFINE S == {j \in 0 .. n : s[m + j] = t[m] + u[j]}
<1>5. 0 \in S
  BY <1>3, <1>4 DEF IsSum
<1>6. ASSUME NEW j \in 0 .. n - 1, j \in S PROVE j + 1 \in S
  <2>1. /\ j + 1 \in 1 .. n /\ j \in 0 .. n /\ (j + 1) - 1 = j
        /\ m + (j + 1) \in 1 .. m + n /\ m + (j + 1) - 1 = m + j
    OBVIOUS
  <2>2. s[m + (j + 1)] = s[m + j] + f[m + (j + 1)] /\ s[m + j] = t[m] + u[j]
    BY <1>1, <1>6, <2>1 DEF IsSum
  <2>3. u[j + 1] = u[j] + h[j + 1] /\ u[j] \in Nat /\ h[j + 1] \in Nat
    BY <1>3, <2>1 DEF IsSum
  <2>4. f[m + (j + 1)] = h[j + 1]
    BY <2>1
  <2>5. s[m + (j + 1)] = t[m] + u[j + 1]
    BY <1>4, <2>2, <2>3, <2>4
  <2> QED BY <2>1, <2>5
<1>7. n \in S
  <2>1. n \in 0 .. n
    OBVIOUS
  <2> HIDE DEF S
  <2> QED BY <1>5, <1>6, <2>1, UpTo
<1> QED BY <1>1, <1>2, <1>3, <1>7

\* A sum in which one term changes.
LEMMA SumPoint ==
    ASSUME NEW n \in Nat, NEW f \in [1 .. n -> Nat], NEW g \in [1 .. n -> Nat],
           NEW i \in 1 .. n, \A j \in 1 .. n \ {i} : f[j] = g[j]
    PROVE  SumTo(g, n) + f[i] = SumTo(f, n) + g[i]
<1>1. PICK s : IsSum(s, f, n) /\ SumTo(f, n) = s[n]
  BY SumToIs
<1>2. PICK t : IsSum(t, g, n) /\ SumTo(g, n) = t[n]
  BY SumToIs
<1> DEFINE S == {j \in 0 .. n : IF j < i THEN t[j] = s[j] ELSE t[j] + f[i] = s[j] + g[i]}
<1>3. 0 \in S
  BY <1>1, <1>2 DEF IsSum
<1>4. ASSUME NEW j \in 0 .. n - 1, j \in S PROVE j + 1 \in S
  <2>1. j + 1 \in 1 .. n /\ j \in 0 .. n /\ (j + 1) - 1 = j /\ j + 1 \in 0 .. n
    OBVIOUS
  <2>2. s[j + 1] = s[j] + f[j + 1] /\ t[j + 1] = t[j] + g[j + 1]
    BY <1>1, <1>2, <2>1 DEF IsSum
  <2>3. s[j] \in Nat /\ t[j] \in Nat
    BY <1>1, <1>2, <2>1 DEF IsSum
  <2>4. f[j + 1] \in Nat /\ g[j + 1] \in Nat /\ f[i] \in Nat /\ g[i] \in Nat
    BY <2>1
  <2> DEFINE a == s[j]
             b == t[j]
             c == f[j + 1]
             x == f[i]
             y == g[i]
  <2>5. CASE j + 1 < i
    <3>1. t[j] = s[j] /\ f[j + 1] = g[j + 1]
      BY <1>4, <2>1, <2>5
    <3> QED BY <2>1, <2>2, <2>5, <3>1
  <2>6. CASE j + 1 = i
    <3>1. t[j] = s[j]
      BY <1>4, <2>6
    <3>2. f[j + 1] = f[i] /\ g[j + 1] = g[i]
      BY <2>6
    <3>3. (b + y) + x = (a + x) + y
      <4>1. a \in Nat /\ b \in Nat /\ x \in Nat /\ y \in Nat /\ a = b
        BY <2>3, <2>4, <3>1
      <4> HIDE DEF a, b, x, y
      <4> QED BY <4>1
    <3>4. t[j + 1] + f[i] = s[j + 1] + g[i]
      BY <2>2, <3>2, <3>3
    <3> QED BY <2>1, <2>6, <3>4
  <2>7. CASE j + 1 > i
    <3>1. t[j] + f[i] = s[j] + g[i] /\ f[j + 1] = g[j + 1]
      BY <1>4, <2>1, <2>7
    <3>2. (b + c) + x = (a + c) + y
      <4>1. /\ a \in Nat /\ b \in Nat /\ c \in Nat /\ x \in Nat /\ y \in Nat
            /\ b + x = a + y
        BY <2>3, <2>4, <3>1
      <4> HIDE DEF a, b, c, x, y
      <4> QED BY <4>1
    <3>3. t[j + 1] + f[i] = s[j + 1] + g[i]
      BY <2>2, <3>1, <3>2
    <3> QED BY <2>1, <2>7, <3>3
  <2> QED BY <2>5, <2>6, <2>7
<1>5. n \in S
  <2>1. n \in 0 .. n
    OBVIOUS
  <2> HIDE DEF S
  <2> QED BY <1>3, <1>4, <2>1, UpTo
<1>6. n \in Nat /\ ~(n < i)
  OBVIOUS
<1> QED BY <1>1, <1>2, <1>5, <1>6

\* Nothing adds up to nothing.
LEMMA SumZero ==
    ASSUME NEW n \in Nat, NEW f \in [1 .. n -> Nat], \A k \in 1 .. n : f[k] = 0
    PROVE  SumTo(f, n) = 0
<1>1. PICK s : IsSum(s, f, n) /\ SumTo(f, n) = s[n]
  BY SumToIs
<1> DEFINE S == {j \in 0 .. n : s[j] = 0}
<1>2. 0 \in S
  BY <1>1 DEF IsSum
<1>3. ASSUME NEW j \in 0 .. n - 1, j \in S PROVE j + 1 \in S
  <2>1. j + 1 \in 1 .. n /\ (j + 1) - 1 = j /\ j + 1 \in 0 .. n
    OBVIOUS
  <2>2. s[j + 1] = s[j] + f[j + 1] /\ s[j] = 0
    BY <1>1, <1>3, <2>1 DEF IsSum
  <2>3. f[j + 1] = 0
    BY <2>1
  <2> QED BY <2>1, <2>2, <2>3
<1>4. n \in S
  <2>1. n \in 0 .. n
    OBVIOUS
  <2> HIDE DEF S
  <2> QED BY <1>2, <1>3, <2>1, UpTo
<1> QED BY <1>1, <1>4

\* The table has as many entries as MaxIdValue says.
LEMMA MaxIdValueNat == MaxIdValue \in Nat
<1>1. \A n \in Nat, u, s \in BOOLEAN : ComputeMaxId(n, u, s) \in Nat
  <2> SUFFICES ASSUME NEW n \in Nat, NEW u \in BOOLEAN, NEW s \in BOOLEAN
               PROVE  ComputeMaxId(n, u, s) \in Nat
    OBVIOUS
  <2>1. n % 4 \in 0 .. 3 /\ n - (n % 4) \in Nat
    OBVIOUS
  <2>2. \A x \in Nat, b \in {1, 2} : SetBit(x, b) \in Nat
    BY DEF SetBit
  <2>3. \A x, y \in Nat : 2 * x + y \in Nat
    OBVIOUS
  <2> QED BY <2>1, <2>2, <2>3 DEF ComputeMaxId
<1>2. \A a, b \in Nat : QUIC_MAX(a, b) \in Nat
  BY DEF QUIC_MAX
<1> QED BY <1>1, <1>2, StreamIdAssumption DEF MaxIdValue

\* What one stream counts more, all count more.
LEMMA TotalRaised ==
    ASSUME NEW f \in [Ids -> Nat], NEW i \in Ids, NEW n \in Nat
    PROVE  Total([f EXCEPT ![i] = @ + n]) = Total(f) + n
<1> DEFINE g == [f EXCEPT ![i] = @ + n]
           a == [k \in 1 .. MaxIdValue |-> f[k - 1]]
           b == [k \in 1 .. MaxIdValue |-> g[k - 1]]
<1>0. MaxIdValue \in Nat
  BY MaxIdValueNat
<1>1. \A k \in 1 .. MaxIdValue : k - 1 \in Ids
  BY <1>0 DEF Ids
<1>2. i + 1 \in 1 .. MaxIdValue /\ (i + 1) - 1 = i
  BY <1>0 DEF Ids
<1>3. f[i] \in Nat /\ f[i] + n \in Nat
  OBVIOUS
<1>4. g \in [Ids -> Nat] /\ g[i] = f[i] + n /\ \A j \in Ids \ {i} : g[j] = f[j]
  BY <1>3
<1> HIDE DEF g
<1>5. a \in [1 .. MaxIdValue -> Nat] /\ b \in [1 .. MaxIdValue -> Nat]
  BY <1>1, <1>4
<1>6. a[i + 1] = f[i] /\ b[i + 1] = f[i] + n
  BY <1>2, <1>4
<1>7. \A k \in 1 .. MaxIdValue \ {i + 1} : a[k] = b[k]
  <2>1. ASSUME NEW k \in 1 .. MaxIdValue, k # i + 1 PROVE a[k] = b[k]
    <3>1. k - 1 \in Ids \ {i}
      BY <1>0, <1>1, <1>2, <2>1
    <3> QED BY <1>4, <3>1
  <2> QED BY <2>1
<1>8. SumTo(a, MaxIdValue) \in Nat /\ SumTo(b, MaxIdValue) \in Nat
  BY <1>0, <1>5, SumNat
<1>9. SumTo(b, MaxIdValue) + a[i + 1] = SumTo(a, MaxIdValue) + b[i + 1]
  <2> HIDE DEF a, b
  <2> QED BY <1>0, <1>2, <1>5, <1>7, SumPoint
<1>10. Total(f) = SumTo(a, MaxIdValue) /\ Total(g) = SumTo(b, MaxIdValue)
  BY DEF Total
<1> DEFINE A == SumTo(a, MaxIdValue)
           B == SumTo(b, MaxIdValue)
<1>11. PICK x \in Nat : x = f[i]
  BY <1>3
<1>12. B = A + n
  <2>1. A \in Nat /\ B \in Nat /\ B + x = A + (x + n)
    BY <1>6, <1>8, <1>9, <1>11
  <2> HIDE DEF A, B
  <2> QED BY <2>1
<1> QED BY <1>10, <1>12 DEF g

\* In the beginning nothing has been counted.
LEMMA TotalZero == Total([j \in Ids |-> 0]) = 0
<1> DEFINE a == [k \in 1 .. MaxIdValue |-> [j \in Ids |-> 0][k - 1]]
<1>0. MaxIdValue \in Nat
  BY MaxIdValueNat
<1>1. \A k \in 1 .. MaxIdValue : k - 1 \in Ids
  BY <1>0 DEF Ids
<1>2. a \in [1 .. MaxIdValue -> Nat] /\ \A k \in 1 .. MaxIdValue : a[k] = 0
  BY <1>1
<1>3. SumTo(a, MaxIdValue) = 0
  <2> HIDE DEF a
  <2> QED BY <1>0, <1>2, SumZero
<1> QED BY <1>3 DEF Total

\* The lengths of a list of segments, and of the buffers of one stream.
LenOf(q) == [k \in 1 .. Len(q) |-> q[k].len]
LenOfStream(q, id) == [k \in 1 .. Len(q) |-> IF q[k].id = id THEN q[k].len ELSE 0]

\* They are numbers, and so are their sums.
LEMMA LenOfType ==
    ASSUME NEW q \in Seq(SegmentType)
    PROVE  LenOf(q) \in [1 .. Len(q) -> Nat] /\ SumLen(q) \in Nat
<1>1. Len(q) \in Nat
  OBVIOUS
<1>2. ASSUME NEW k \in 1 .. Len(q) PROVE q[k].len \in Nat
  <2>1. q[k] \in SegmentType
    BY ElementOfSeq
  <2> QED BY <2>1 DEF SegmentType
<1>3. LenOf(q) \in [1 .. Len(q) -> Nat]
  BY <1>2 DEF LenOf
<1>4. SumLen(q) = SumTo(LenOf(q), Len(q))
  BY DEF SumLen, LenOf
<1> QED BY <1>1, <1>3, <1>4, SumNat

LEMMA LenOfStreamType ==
    ASSUME NEW q \in Seq(BufferType), NEW id
    PROVE  LenOfStream(q, id) \in [1 .. Len(q) -> Nat] /\ SumLenOf(q, id) \in Nat
<1>1. Len(q) \in Nat
  OBVIOUS
<1>2. ASSUME NEW k \in 1 .. Len(q) PROVE q[k].len \in Nat
  <2>1. q[k] \in BufferType
    BY ElementOfSeq
  <2> QED BY <2>1 DEF BufferType
<1>3. LenOfStream(q, id) \in [1 .. Len(q) -> Nat]
  BY <1>2 DEF LenOfStream
<1>4. SumLenOf(q, id) = SumTo(LenOfStream(q, id), Len(q))
  BY DEF SumLenOf, LenOfStream
<1> QED BY <1>1, <1>3, <1>4, SumNat

\* The lengths of two lists, one after the other, add up.
LEMMA SumLenConcat ==
    ASSUME NEW q \in Seq(SegmentType), NEW r \in Seq(SegmentType)
    PROVE  SumLen(q \o r) = SumLen(q) + SumLen(r)
<1> DEFINE m == Len(q)
           n == Len(r)
<1>1. m \in Nat /\ n \in Nat /\ q \o r \in Seq(SegmentType) /\ Len(q \o r) = m + n
  OBVIOUS
<1>2. /\ LenOf(q) \in [1 .. m -> Nat] /\ LenOf(r) \in [1 .. n -> Nat]
      /\ LenOf(q \o r) \in [1 .. m + n -> Nat]
  BY <1>1, LenOfType
<1>3. \A j \in 1 .. m : LenOf(q \o r)[j] = LenOf(q)[j]
  BY <1>1 DEF LenOf
<1>4. \A j \in 1 .. n : LenOf(q \o r)[m + j] = LenOf(r)[j]
  <2>1. ASSUME NEW j \in 1 .. n
        PROVE  m + j \in 1 .. m + n /\ (q \o r)[m + j] = r[j]
    BY <1>1
  <2> QED BY <1>1, <2>1 DEF LenOf
<1>5. /\ SumLen(q) = SumTo(LenOf(q), m) /\ SumLen(r) = SumTo(LenOf(r), n)
      /\ SumLen(q \o r) = SumTo(LenOf(q \o r), m + n)
  BY <1>1 DEF SumLen, LenOf
<1> HIDE DEF m, n
<1> QED BY <1>1, <1>2, <1>3, <1>4, <1>5, SumSplit

LEMMA SumLenOfConcat ==
    ASSUME NEW q \in Seq(BufferType), NEW r \in Seq(BufferType), NEW id
    PROVE  SumLenOf(q \o r, id) = SumLenOf(q, id) + SumLenOf(r, id)
<1> DEFINE m == Len(q)
           n == Len(r)
<1>1. m \in Nat /\ n \in Nat /\ q \o r \in Seq(BufferType) /\ Len(q \o r) = m + n
  OBVIOUS
<1>2. /\ LenOfStream(q, id) \in [1 .. m -> Nat] /\ LenOfStream(r, id) \in [1 .. n -> Nat]
      /\ LenOfStream(q \o r, id) \in [1 .. m + n -> Nat]
  BY <1>1, LenOfStreamType
<1>3. \A j \in 1 .. m : LenOfStream(q \o r, id)[j] = LenOfStream(q, id)[j]
  BY <1>1 DEF LenOfStream
<1>4. \A j \in 1 .. n : LenOfStream(q \o r, id)[m + j] = LenOfStream(r, id)[j]
  <2>1. ASSUME NEW j \in 1 .. n
        PROVE  m + j \in 1 .. m + n /\ (q \o r)[m + j] = r[j]
    BY <1>1
  <2> QED BY <1>1, <2>1 DEF LenOfStream
<1>5. /\ SumLenOf(q, id) = SumTo(LenOfStream(q, id), m)
      /\ SumLenOf(r, id) = SumTo(LenOfStream(r, id), n)
      /\ SumLenOf(q \o r, id) = SumTo(LenOfStream(q \o r, id), m + n)
  BY <1>1 DEF SumLenOf, LenOfStream
<1> HIDE DEF m, n
<1> QED BY <1>1, <1>2, <1>3, <1>4, <1>5, SumSplit

\* Lists of nothing and of one.
LEMMA SumToOne ==
    ASSUME NEW n \in Nat, NEW f \in [1 .. 1 -> Nat], f[1] = n
    PROVE  SumTo(f, 1) = n
<1>1. PICK s : IsSum(s, f, 1) /\ SumTo(f, 1) = s[1]
  BY SumToIs
<1>2. 1 \in 1 .. 1 /\ 1 - 1 = 0
  OBVIOUS
<1>3. s[1] = s[0] + f[1] /\ s[0] = 0
  BY <1>1, <1>2 DEF IsSum
<1> QED BY <1>1, <1>3

LEMMA SumLenOne ==
    ASSUME NEW seg \in SegmentType PROVE SumLen(<<seg>>) = seg.len
<1> DEFINE q == <<seg>>
<1>1. q \in Seq(SegmentType) /\ Len(q) = 1 /\ q[1] = seg /\ seg.len \in Nat
  BY DEF SegmentType
<1> HIDE DEF q
<1>2. LenOf(q) \in [1 .. 1 -> Nat] /\ LenOf(q)[1] = seg.len
  BY <1>1, LenOfType DEF LenOf
<1>3. SumLen(q) = SumTo(LenOf(q), 1)
  BY <1>1 DEF SumLen, LenOf
<1> QED BY <1>1, <1>2, <1>3, SumToOne DEF q

LEMMA SumLenOfOne ==
    ASSUME NEW b \in BufferType, NEW id
    PROVE  SumLenOf(<<b>>, id) = IF b.id = id THEN b.len ELSE 0
<1> DEFINE q == <<b>>
           n == IF b.id = id THEN b.len ELSE 0
<1>1. q \in Seq(BufferType) /\ Len(q) = 1 /\ q[1] = b /\ n \in Nat
  BY DEF BufferType
<1> HIDE DEF q
<1>2. LenOfStream(q, id) \in [1 .. 1 -> Nat] /\ LenOfStream(q, id)[1] = n
  BY <1>1, LenOfStreamType DEF LenOfStream
<1>3. SumLenOf(q, id) = SumTo(LenOfStream(q, id), 1)
  BY <1>1 DEF SumLenOf, LenOfStream
<1> HIDE DEF n
<1>4. SumLenOf(q, id) = n
  BY <1>1, <1>2, <1>3, SumToOne
<1> QED BY <1>4 DEF q, n

LEMMA SumLenNone == SumLen(<<>>) = 0 /\ \A id : SumLenOf(<<>>, id) = 0
<1>1. \A f \in [1 .. 0 -> Nat] : SumTo(f, 0) = 0
  BY SumNat
<1>2. [k \in 1 .. 0 |-> <<>>[k].len] \in [1 .. 0 -> Nat]
  OBVIOUS
<1>3. \A id : [k \in 1 .. 0 |-> IF <<>>[k].id = id THEN <<>>[k].len ELSE 0] \in [1 .. 0 -> Nat]
  OBVIOUS
<1>4. Len(<<>>) = 0
  OBVIOUS
<1> QED BY <1>1, <1>2, <1>3, <1>4 DEF SumLen, SumLenOf

\* Taking the head off a list takes its length off.
LEMMA SumLenTail ==
    ASSUME NEW q \in Seq(SegmentType), q # <<>>
    PROVE  SumLen(q) = Head(q).len + SumLen(Tail(q))
<1>1. /\ Head(q) \in SegmentType /\ <<Head(q)>> \in Seq(SegmentType)
      /\ Tail(q) \in Seq(SegmentType) /\ q = <<Head(q)>> \o Tail(q)
  OBVIOUS
<1> QED BY <1>1, SumLenConcat, SumLenOne

LEMMA SumLenOfTail ==
    ASSUME NEW q \in Seq(BufferType), q # <<>>, NEW id
    PROVE  SumLenOf(q, id) = (IF Head(q).id = id THEN Head(q).len ELSE 0)
                               + SumLenOf(Tail(q), id)
<1>1. /\ Head(q) \in BufferType /\ <<Head(q)>> \in Seq(BufferType)
      /\ Tail(q) \in Seq(BufferType) /\ q = <<Head(q)>> \o Tail(q)
  OBVIOUS
<1>2. SumLenOf(<<Head(q)>> \o Tail(q), id) = SumLenOf(<<Head(q)>>, id) + SumLenOf(Tail(q), id)
  BY <1>1, SumLenOfConcat
<1>3. SumLenOf(<<Head(q)>>, id) = IF Head(q).id = id THEN Head(q).len ELSE 0
  BY <1>1, SumLenOfOne
<1> QED BY <1>1, <1>2, <1>3

\* Reading n bytes of a list's head takes n off its length.
LEMMA SumLenCopy ==
    ASSUME NEW q \in Seq(SegmentType), q # <<>>, NEW n \in 0 .. Head(q).len
    PROVE  SumLen(AfterCopy(q, n)) + n = SumLen(q)
<1>a. Head(q) \in SegmentType /\ Tail(q) \in Seq(SegmentType)
  OBVIOUS
<1>0. /\ Head(q) \in SegmentType /\ Tail(q) \in Seq(SegmentType)
      /\ Head(q).len \in Nat /\ Head(q).pos \in Nat
  BY <1>a DEF SegmentType
<1>1. PICK h \in Nat : h = Head(q).len
  BY <1>0
<1>2. PICK t \in Nat : t = SumLen(Tail(q))
  BY <1>0, LenOfType
<1>3. SumLen(q) = h + t
  BY <1>1, <1>2, SumLenTail
<1>4. CASE n = Head(q).len
  <2>1. SumLen(AfterCopy(q, n)) = t
    BY <1>2, <1>4 DEF AfterCopy
  <2> QED BY <1>1, <1>2, <1>3, <1>4, <2>1
<1>5. CASE n # Head(q).len
  <2>1. PICK x \in SegmentType : x = Head(q)
    BY <1>0
  <2>2. PICK g : g = [x EXCEPT !.pos = x.pos + n, !.len = x.len - n]
    OBVIOUS
  <2>3. x.len - n \in Nat /\ x.pos + n \in Nat
    BY <1>0, <2>1
  <2>4. g \in SegmentType /\ g.len = h - n
    BY <1>1, <2>1, <2>2, <2>3 DEF SegmentType
  <2>5. AfterCopy(q, n) = <<g>> \o Tail(q) /\ <<g>> \in Seq(SegmentType)
    BY <1>5, <2>1, <2>2, <2>4 DEF AfterCopy
  <2>6. SumLen(AfterCopy(q, n)) = (h - n) + t
    BY <1>0, <1>2, <2>4, <2>5, SumLenConcat, SumLenOne
  <2> QED BY <1>1, <1>2, <1>3, <2>6
<1> QED BY <1>4, <1>5

\* The bytes up to the end of the k-th packet, when all are full.
Upto(room, k) == room + FrameCap * (k - 1)

\* Where the packets of a send begin and end: all but the last are full.
LEMMA ChunkEnds ==
    ASSUME NEW len \in Nat, NEW room \in 1 .. FrameCap
    PROVE  LET c == Chunks(len, room)
           IN  /\ c \in Nat
               /\ c = 0 <=> len = 0
               /\ c >= 1 => len <= Upto(room, c)
               /\ \A k \in 1 .. c - 1 : Upto(room, k) < len
               /\ Upto(room, 1) = room
               /\ \A k \in 1 .. c : Upto(room, k + 1) = Upto(room, k) + FrameCap
               /\ \A k \in 1 .. c : Upto(room, k) \in Nat
<1>0. FrameCap \in Nat /\ FrameCap > 0 /\ room \in Nat /\ room >= 1
  BY StreamAssumption
<1>1. Upto(room, 1) = room
  BY <1>0 DEF Upto
<1>2. ASSUME NEW k \in Nat, k >= 1
      PROVE  Upto(room, k) \in Nat /\ Upto(room, k + 1) = Upto(room, k) + FrameCap
  <2>1. \A x \in Nat : FrameCap * x \in Nat
    BY <1>0
  <2>2. \A x \in Nat : FrameCap * (x + 1) = FrameCap * x + FrameCap
    BY <1>0
  <2>3. k - 1 \in Nat /\ (k - 1) + 1 = k /\ (k + 1) - 1 = k
    BY <1>2
  <2>4. FrameCap * k = FrameCap * (k - 1) + FrameCap
    BY <2>2, <2>3
  <2>5. PICK y \in Nat : y = FrameCap * (k - 1)
    BY <2>1, <2>3
  <2>6. Upto(room, k) = room + y /\ Upto(room, k + 1) = room + (y + FrameCap)
    BY <2>3, <2>4, <2>5 DEF Upto
  <2> QED BY <1>0, <2>5, <2>6
<1>3. CASE len <= room
  BY <1>0, <1>1, <1>2, <1>3 DEF Chunks
<1>4. CASE len > room
  <2> DEFINE d == (len - room + FrameCap - 1) \div FrameCap
  <2>1. d \in Nat /\ d >= 1 /\ Chunks(len, room) = 1 + d
    BY <1>0, <1>4 DEF Chunks
  <2>2. /\ FrameCap * d <= len - room + FrameCap - 1
        /\ len - room <= FrameCap * d
    BY <1>0, <1>4
  <2> HIDE DEF d
  <2>3. len <= Upto(room, 1 + d)
    <3>1. (1 + d) - 1 = d /\ FrameCap * d \in Nat
      BY <1>0, <2>1
    <3> QED BY <1>0, <2>1, <2>2, <3>1 DEF Upto
  <2>4. ASSUME NEW k \in 1 .. d PROVE Upto(room, k) < len
    <3>1. FrameCap * (k - 1) <= FrameCap * (d - 1)
      BY <1>0, <2>1
    <3>2. FrameCap * (d - 1) = FrameCap * d - FrameCap
      BY <1>0, <2>1
    <3>3. FrameCap * (k - 1) \in Nat /\ FrameCap * d \in Nat
      BY <1>0, <2>1
    <3>4. FrameCap * (k - 1) <= len - room - 1
      BY <1>0, <2>2, <3>1, <3>2, <3>3
    <3> QED BY <1>0, <3>3, <3>4 DEF Upto
  <2>5. (1 + d) - 1 = d
    BY <2>1
  <2> QED BY <1>0, <1>1, <1>2, <1>4, <2>1, <2>3, <2>4, <2>5
<1> QED BY <1>0, <1>3, <1>4

\* The length of the k-th packet of a send.
LEMMA ChunkLenIs ==
    ASSUME NEW len \in Nat, NEW room \in 1 .. FrameCap, NEW c, c = Chunks(len, room),
           NEW k \in 1 .. c
    PROVE  /\ k = 1 /\ k < c => ChunkLen(len, room, k) = room
           /\ k = 1 /\ k = c => ChunkLen(len, room, k) = len
           /\ k > 1 /\ k < c => ChunkLen(len, room, k) = FrameCap
           /\ k > 1 /\ k = c => ChunkLen(len, room, k) = len - Upto(room, k - 1)
<1>0. FrameCap \in Nat /\ room \in Nat /\ room <= FrameCap
  BY StreamAssumption
<1>1. c \in Nat
  BY ChunkEnds
<1>2. CASE k = 1
  <2>1. Upto(room, 1) = room
    BY ChunkEnds
  <2>2. k < c => Upto(room, 1) < len
    BY <1>1, <1>2, ChunkEnds
  <2>3. k = c => len <= Upto(room, 1)
    BY <1>1, <1>2, ChunkEnds
  <2>4. ChunkLen(len, room, 1) = IF len < room THEN len ELSE room
    BY <1>0 DEF ChunkLen
  <2> QED BY <1>0, <1>1, <1>2, <2>1, <2>2, <2>3, <2>4
<1>3. CASE k > 1
  <2>1. PICK u \in Nat : u = Upto(room, k - 1)
    <3>1. k - 1 \in 1 .. c
      BY <1>1, <1>3
    <3> QED BY <3>1, ChunkEnds
  <2>2. Upto(room, k) = u + FrameCap /\ u < len
    <3>1. k - 1 \in 1 .. c /\ k - 1 \in 1 .. c - 1 /\ (k - 1) + 1 = k
      BY <1>1, <1>3
    <3> QED BY <2>1, <3>1, ChunkEnds
  <2>3. k < c => u + FrameCap < len
    <3>1. k < c => k \in 1 .. c - 1
      BY <1>1
    <3> QED BY <2>2, <3>1, ChunkEnds
  <2>4. k = c => len <= u + FrameCap
    BY <1>1, <1>3, <2>2, ChunkEnds
  <2>5. ChunkLen(len, room, k) = IF len - u < FrameCap THEN len - u ELSE FrameCap
    <3>1. room + FrameCap * (k - 2) = u
      <4>1. (k - 1) - 1 = k - 2
        BY <1>1
      <4> QED BY <2>1, <4>1 DEF Upto
    <3> QED BY <1>3, <3>1 DEF ChunkLen
  <2> QED BY <1>0, <1>1, <1>3, <2>1, <2>2, <2>3, <2>4, <2>5
<1> QED BY <1>1, <1>2, <1>3

\* The packets of a send hold as many bytes as the application handed over.
LEMMA ChunksSum ==
    ASSUME NEW len \in Nat, NEW room \in 1 .. FrameCap, NEW c, c = Chunks(len, room),
           NEW f \in [1 .. c -> Nat], \A k \in 1 .. c : f[k] = ChunkLen(len, room, k)
    PROVE  SumTo(f, c) = len
<1>0. /\ c \in Nat
      /\ c = 0 <=> len = 0
      /\ FrameCap \in Nat /\ room \in Nat
  <2>1. /\ c \in Nat
        /\ c = 0 <=> len = 0
    BY ChunkEnds
  <2>2. FrameCap \in Nat /\ room \in Nat
    BY StreamAssumption
  <2> QED BY <2>1, <2>2
<1>1. PICK s : IsSum(s, f, c) /\ SumTo(f, c) = s[c]
  BY <1>0, SumToIs
<1> DEFINE S == {k \in 0 .. c : s[k] = IF k = c THEN len ELSE IF k = 0 THEN 0 ELSE Upto(room, k)}
<1>2. 0 \in S
  BY <1>0, <1>1 DEF IsSum
<1>3. ASSUME NEW k \in 0 .. c - 1, k \in S PROVE k + 1 \in S
  <2>1. k + 1 \in 1 .. c /\ (k + 1) - 1 = k /\ k + 1 \in 0 .. c /\ k # c
    BY <1>0
  <2>2. s[k + 1] = s[k] + ChunkLen(len, room, k + 1)
    BY <1>1, <2>1 DEF IsSum
  <2>3. s[k] = IF k = 0 THEN 0 ELSE Upto(room, k)
    BY <1>3, <2>1
  <2>4. CASE k = 0
    <3>1. k + 1 = 1 /\ s[k] = 0
      BY <2>3, <2>4
    <3>2. ChunkLen(len, room, k + 1) = IF k + 1 = c THEN len ELSE room
      BY <1>0, <2>1, <3>1, ChunkLenIs
    <3>3. k + 1 # c => Upto(room, k + 1) = room
      BY <3>1, ChunkEnds
    <3> QED BY <1>0, <2>1, <2>2, <3>1, <3>2, <3>3
  <2>5. CASE k # 0
    <3>1. k + 1 > 1 /\ k \in 1 .. c
      BY <1>0, <2>5
    <3>2. PICK u \in Nat : u = Upto(room, k)
      BY <3>1, ChunkEnds
    <3>3. ChunkLen(len, room, k + 1) = IF k + 1 = c THEN len - u ELSE FrameCap
      BY <1>0, <2>1, <3>1, <3>2, ChunkLenIs
    <3>4. Upto(room, k + 1) = u + FrameCap
      BY <3>1, <3>2, ChunkEnds
    <3>5. s[k + 1] = IF k + 1 = c THEN len ELSE Upto(room, k + 1)
      BY <1>0, <2>2, <2>3, <2>5, <3>2, <3>3, <3>4
    <3> QED BY <2>1, <3>5
  <2> QED BY <2>4, <2>5
<1>4. c \in S
  <2>1. c \in 0 .. c
    BY <1>0
  <2> HIDE DEF S
  <2> QED BY <1>0, <1>2, <1>3, <2>1, UpTo
<1> QED BY <1>1, <1>4

\* The same of the buffers QuicStreamFrameBuild makes.
LEMMA SumLenOfBuild ==
    ASSUME OutType, NEW id \in Ids, NEW len \in Nat, NEW room \in 1 .. FrameCap, NEW j
    PROVE  SumLenOf(QuicStreamFrameBuild(id, len, room), j) = IF j = id THEN len ELSE 0
<1> DEFINE q == QuicStreamFrameBuild(id, len, room)
           c == Chunks(len, room)
<1>1. q \in Seq(BufferType) /\ c \in Nat
  BY FrameBuildType, ChunkEnds
<1>2. Len(q) = c
  <2>1. DOMAIN q = 1 .. c
    BY DEF QuicStreamFrameBuild
  <2> HIDE DEF q, c
  <2> QED BY <1>1, <2>1, LenProperties
<1>3. \A k \in 1 .. c : q[k].id = id /\ q[k].len = ChunkLen(len, room, k)
  BY DEF QuicStreamFrameBuild
<1> HIDE DEF q, c
<1>4. /\ LenOfStream(q, j) \in [1 .. c -> Nat]
      /\ SumLenOf(q, j) = SumTo(LenOfStream(q, j), c)
      /\ \A k \in 1 .. c : LenOfStream(q, j)[k] = IF j = id THEN ChunkLen(len, room, k) ELSE 0
  BY <1>1, <1>2, <1>3, LenOfStreamType DEF SumLenOf, LenOfStream
<1>5. CASE j = id
  BY <1>4, <1>5, ChunksSum DEF q, c
<1>6. CASE j # id
  BY <1>1, <1>4, <1>6, SumZero DEF q
<1> QED BY <1>5, <1>6

-----------------------------------------------------------------------------

\* QuicStreamDataAdd counts what it queues; QuicStreamReadData moves bytes from
\* the list to the reader.
LEMMA RecvCountStep == TypeOK /\ RecvConserved /\ [Next]_vars => RecvConserved'
<1> SUFFICES ASSUME TypeOK, RecvConserved, [Next]_vars PROVE RecvConserved'
  OBVIOUS
<1>0. /\ queue \in [Ids -> Seq(SegmentType)] /\ recvd \in [Ids -> Nat]
      /\ offset \in [Ids -> Nat] /\ total_recvd \in Nat
  BY DEF TypeOK, InType
<1>1. ASSUME NEW id \in WireIds, NEW f \in Segments, QuicFrameStreamParser(id, f)
      PROVE  RecvConserved'
  <2>1. id \in Ids /\ UNCHANGED offset
    BY <1>1 DEF QuicFrameStreamParser, GetInstance, Found, IdCheck
  <2>2. CASE UNCHANGED <<queue, recvd, total_recvd>>
    BY <2>1, <2>2 DEF RecvConserved
  <2>3. CASE ~UNCHANGED <<queue, recvd, total_recvd>>
    <3>1. /\ Accepted(id, f)
          /\ queue' = [queue EXCEPT ![id] = Append(queue[id], Fresh(id, f))]
          /\ recvd' = [recvd EXCEPT ![id] = @ + Fresh(id, f).len]
          /\ total_recvd' = total_recvd + Fresh(id, f).len
      BY <1>1, <2>3 DEF QuicFrameStreamParser, DataAdd
    <3>2. PICK g \in SegmentType : g = Fresh(id, f)
      BY <2>1, <3>1, FreshType DEF TypeOK, Accepted
    <3>3. g.len \in Nat
      BY DEF SegmentType
    <3>4. SumLen(Append(queue[id], g)) = SumLen(queue[id]) + g.len
      <4>1. queue[id] \in Seq(SegmentType) /\ <<g>> \in Seq(SegmentType)
        BY <1>0, <2>1
      <4>2. Append(queue[id], g) = queue[id] \o <<g>>
        BY <4>1
      <4> QED BY <4>1, <4>2, SumLenConcat, SumLenOne
    <3>5. SumLen(queue[id]) \in Nat
      BY <1>0, <2>1, LenOfType
    <3>6. recvd[id] = offset[id] + SumLen(queue[id])
      BY <2>1 DEF RecvConserved
    <3>7. recvd'[id] = recvd[id] + g.len /\ queue'[id] = Append(queue[id], g)
      BY <1>0, <2>1, <3>1, <3>2
    <3>8. recvd'[id] = offset'[id] + SumLen(queue'[id])
      <4>1. offset[id] \in Nat
        BY <1>0, <2>1
      <4> QED BY <2>1, <3>3, <3>4, <3>5, <3>6, <3>7, <4>1
    <3>9. ASSUME NEW j \in Ids, j # id PROVE recvd'[j] = offset'[j] + SumLen(queue'[j])
      <4>1. recvd'[j] = recvd[j] /\ queue'[j] = queue[j] /\ offset'[j] = offset[j]
        BY <1>0, <2>1, <3>1, <3>9
      <4> QED BY <4>1 DEF RecvConserved
    <3>10. Total(recvd') = Total(recvd) + g.len
      BY <1>0, <2>1, <3>1, <3>2, <3>3, TotalRaised
    <3>11. total_recvd' = Total(recvd')
      BY <3>1, <3>2, <3>10 DEF RecvConserved
    <3> QED BY <3>8, <3>9, <3>11 DEF RecvConserved
  <2> QED BY <2>2, <2>3
<1>2. CASE ReadSegment
  <2> DEFINE id == arg.id
             n == CopyBytes(Head(queue[id]))
  <2>1. /\ id \in Ids /\ queue[id] \in Seq(SegmentType) /\ queue[id] # <<>>
        /\ Head(queue[id]) \in SegmentType /\ n \in 0 .. Head(queue[id]).len
    BY <1>2, CopyBytesType
  <2>2. /\ queue' = [queue EXCEPT ![id] = AfterCopy(@, n)]
        /\ offset' = [offset EXCEPT ![id] = @ + n]
        /\ UNCHANGED <<recvd, total_recvd>>
    BY <1>2 DEF ReadSegment
  <2> HIDE DEF n, id
  <2>3. /\ SumLen(AfterCopy(queue[id], n)) + n = SumLen(queue[id])
        /\ SumLen(AfterCopy(queue[id], n)) \in Nat
    BY <2>1, SumLenCopy, AfterCopyType, LenOfType
  <2>4. n \in Nat
    BY <2>1 DEF SegmentType
  <2>5. recvd[id] = offset[id] + SumLen(queue[id]) /\ offset[id] \in Nat
    BY <1>0, <2>1 DEF RecvConserved
  <2>6. offset'[id] = offset[id] + n /\ queue'[id] = AfterCopy(queue[id], n)
    BY <1>0, <2>1, <2>2
  <2>7. recvd'[id] = offset'[id] + SumLen(queue'[id])
    <3>1. PICK a \in Nat : a = SumLen(AfterCopy(queue[id], n))
      BY <2>3
    <3>2. recvd[id] = offset[id] + (a + n)
      BY <2>3, <2>5, <3>1
    <3>3. offset[id] + (a + n) = (offset[id] + n) + a
      BY <2>4, <2>5
    <3> QED BY <2>2, <2>6, <3>1, <3>2, <3>3
  <2>8. ASSUME NEW j \in Ids, j # id PROVE recvd'[j] = offset'[j] + SumLen(queue'[j])
    <3>1. recvd'[j] = recvd[j] /\ queue'[j] = queue[j] /\ offset'[j] = offset[j]
      BY <1>0, <2>1, <2>2, <2>8
    <3> QED BY <3>1 DEF RecvConserved
  <2> QED BY <2>2, <2>7, <2>8 DEF RecvConserved
<1>3. CASE UNCHANGED <<offset, queue, app>> /\ UNCHANGED <<recvd, total_recvd>>
  BY <1>3 DEF RecvConserved
<1> QED BY <1>1, <1>2, <1>3, ReadFrame

\* Every byte counted against the receive limits is delivered or queued, and
\* the connection's count is that of its streams (QuicStreamRecvFlowCtrl,
\* QuicStreamDataAdd, QuicStreamReadData), for every frame and buffer length.
THEOREM ReceivedIsCounted == Spec => []RecvConserved
<1>1. Init => RecvConserved
  <2>1. \A id \in Ids : Init => recvd[id] = offset[id] + SumLen(queue[id])
    BY SumLenNone DEF Init
  <2>2. Init => recvd = [i \in Ids |-> 0] /\ total_recvd = 0
    BY DEF Init
  <2> QED BY <2>1, <2>2, TotalZero DEF RecvConserved
<1>2. TypeOK /\ RecvConserved /\ [Next]_vars => RecvConserved'
  BY RecvCountStep
<1> QED BY <1>1, <1>2, TypeCorrect, PTL DEF Spec

-----------------------------------------------------------------------------

\* A frame that says that a send is blocked carries no stream data.
BlockedEmpty ==
    \A k \in 1 .. Len(tx_queue) : tx_queue[k].type # "STREAM" => tx_queue[k].len = 0

SendInv == SendConserved /\ BlockedEmpty

\* A send call queues what it was given.
LEMMA SendCounts ==
    ASSUME TypeOK, SendInv, NEW id \in Ids, NEW len \in SendLens, NEW room \in FirstRooms,
           tx_queue' = tx_queue \o QuicStreamFrameBuild(id, len, room),
           written' = [written EXCEPT ![id] = @ + len],
           UNCHANGED <<sent, total_sent, recounted>>
    PROVE  SendInv'
<1> DEFINE q == QuicStreamFrameBuild(id, len, room)
<1>0. /\ tx_queue \in Seq(BufferType) /\ written \in [Ids -> Nat] /\ sent \in [Ids -> Nat]
      /\ recounted \in [Ids -> Nat] /\ len \in Nat /\ room \in 1 .. FrameCap /\ OutType
  BY StreamAssumption DEF TypeOK, OutType
<1>1. q \in Seq(BufferType)
  BY <1>0, FrameBuildType
<1>2. ASSUME NEW k \in 1 .. Len(q) PROVE q[k].type = "STREAM"
  <2>1. DOMAIN q = 1 .. Chunks(len, room)
    BY DEF QuicStreamFrameBuild
  <2>2. DOMAIN q = 1 .. Len(q)
    <3> HIDE DEF q
    <3> QED BY <1>1, LenProperties
  <2>3. k \in 1 .. Chunks(len, room)
    <3> HIDE DEF q
    <3> QED BY <2>1, <2>2
  <2> QED BY <2>3 DEF QuicStreamFrameBuild
<1>3. \A j : SumLenOf(q, j) = IF j = id THEN len ELSE 0
  BY <1>0, SumLenOfBuild
<1> HIDE DEF q
<1>4. ASSUME NEW j \in Ids PROVE written'[j] + recounted'[j] = sent'[j] + SumLenOf(tx_queue', j)
  <2>1. SumLenOf(tx_queue', j) = SumLenOf(tx_queue, j) + SumLenOf(q, j)
    BY <1>0, <1>1, SumLenOfConcat DEF q
  <2>2. PICK a \in Nat : a = SumLenOf(tx_queue, j)
    BY <1>0, LenOfStreamType
  <2>3. PICK b \in Nat : b = sent[j]
    BY <1>0
  <2>4. written[j] + recounted[j] = b + a /\ written[j] \in Nat /\ recounted[j] \in Nat
    BY <1>0, <2>2, <2>3 DEF SendInv, SendConserved
  <2>5. CASE j = id
    <3>0. written'[j] = written[j] + len /\ recounted'[j] = recounted[j]
      BY <1>0, <2>5
    <3>1. written'[j] + recounted'[j] = (b + a) + len
      <4>1. PICK w \in Nat, r \in Nat : w = written[j] /\ r = recounted[j]
        BY <2>4
      <4>2. w + r = b + a
        BY <2>4, <4>1
      <4>3. (w + len) + r = (w + r) + len
        BY <1>0
      <4>4. written'[j] + recounted'[j] = (w + len) + r
        BY <3>0, <4>1
      <4> QED BY <4>2, <4>3, <4>4
    <3>2. SumLenOf(tx_queue', j) = a + len
      BY <1>3, <2>1, <2>2, <2>5
    <3> QED BY <1>0, <2>3, <3>1, <3>2
  <2>6. CASE j # id
    <3>1. written'[j] + recounted'[j] = b + a
      BY <1>0, <2>4, <2>6
    <3>2. SumLenOf(tx_queue', j) = a
      BY <1>3, <2>1, <2>2, <2>6
    <3> QED BY <1>0, <2>3, <3>1, <3>2
  <2> QED BY <2>5, <2>6
<1>5. BlockedEmpty'
  <2>1. ASSUME NEW k \in 1 .. Len(tx_queue')
        PROVE  \/ k \in 1 .. Len(tx_queue) /\ tx_queue'[k] = tx_queue[k]
               \/ k - Len(tx_queue) \in 1 .. Len(q) /\ tx_queue'[k] = q[k - Len(tx_queue)]
    <3>1. tx_queue' = tx_queue \o q
      BY DEF q
    <3> QED BY <1>0, <1>1, <3>1
  <2> QED BY <1>2, <2>1 DEF SendInv, BlockedEmpty
<1>6. total_sent' = Total(sent')
  BY DEF SendInv, SendConserved
<1> QED BY <1>4, <1>5, <1>6 DEF SendInv, SendConserved

\* A packet that leaves takes its bytes from the queue to stat_bytes.sent.
LEMMA WriteCounts == ASSUME TypeOK, SendInv, QuicWritePkt PROVE SendInv'
<1> DEFINE f == Head(tx_queue)
<1>0. /\ tx_queue \in Seq(BufferType) /\ sent \in [Ids -> Nat] /\ total_sent \in Nat
  BY DEF TypeOK, OutType
<1>1. /\ tx_queue # <<>> /\ tx_queue' = Tail(tx_queue)
      /\ UNCHANGED <<written, recounted>> /\ SendFlowCtrl(f)
  BY DEF QuicWritePkt
<1>2. f \in BufferType /\ Tail(tx_queue) \in Seq(BufferType)
  BY <1>0, <1>1
<1>3. f.len \in Nat
  BY <1>2 DEF BufferType
<1>4. BlockedEmpty'
  <2>1. ASSUME NEW k \in 1 .. Len(tx_queue')
        PROVE  k + 1 \in 1 .. Len(tx_queue) /\ tx_queue'[k] = tx_queue[k + 1]
    BY <1>0, <1>1
  <2> QED BY <2>1 DEF SendInv, BlockedEmpty
<1>5. \/ /\ f.type = "STREAM" /\ f.id \in Ids
         /\ sent' = [sent EXCEPT ![f.id] = @ + f.len]
         /\ total_sent' = total_sent + f.len
      \/ f.len = 0 /\ UNCHANGED <<sent, total_sent>>
  <2>1. 1 \in 1 .. Len(tx_queue) /\ f = tx_queue[1]
    BY <1>0, <1>1
  <2>2. f.type # "STREAM" => f.len = 0
    BY <2>1 DEF SendInv, BlockedEmpty
  <2> QED BY <1>1, <2>2 DEF SendFlowCtrl, GetInstance, Found, IdCheck
<1>6. \A j : SumLenOf(tx_queue, j) = (IF f.id = j THEN f.len ELSE 0) + SumLenOf(tx_queue', j)
  BY <1>0, <1>1, SumLenOfTail
<1> HIDE DEF f
<1>7. ASSUME NEW j \in Ids PROVE written'[j] + recounted'[j] = sent'[j] + SumLenOf(tx_queue', j)
  <2>1. PICK a \in Nat : a = SumLenOf(tx_queue', j)
    BY <1>1, <1>2, LenOfStreamType
  <2>2. PICK b \in Nat : b = sent[j]
    BY <1>0
  <2>3. PICK n \in Nat : n = f.len
    BY <1>3
  <2>4. written'[j] + recounted'[j] = b + ((IF f.id = j THEN n ELSE 0) + a)
    BY <1>1, <1>6, <2>1, <2>2, <2>3 DEF SendInv, SendConserved
  <2>5. sent'[j] = b + (IF f.id = j THEN n ELSE 0)
    BY <1>0, <1>5, <2>2, <2>3
  <2> QED BY <2>1, <2>4, <2>5
<1>8. total_sent' = Total(sent')
  BY <1>0, <1>3, <1>5, TotalRaised DEF SendInv, SendConserved
<1> QED BY <1>4, <1>7, <1>8 DEF SendInv, SendConserved

\* A packet that is counted and not built is recounted by as much.
LEMMA BuildFailCounts == ASSUME TypeOK, SendInv, QuicBuildFails PROVE SendInv'
<1> DEFINE f == Head(tx_queue)
<1>0. /\ tx_queue \in Seq(BufferType) /\ sent \in [Ids -> Nat] /\ total_sent \in Nat
      /\ written \in [Ids -> Nat] /\ recounted \in [Ids -> Nat]
  BY DEF TypeOK, OutType
<1>1. /\ tx_queue # <<>> /\ UNCHANGED <<tx_queue, written>> /\ SendFlowCtrl(f)
      /\ recounted' = [recounted EXCEPT ![f.id] = @ + f.len]
  BY DEF QuicBuildFails
<1>2. f \in BufferType
  BY <1>0, <1>1
<1>3. f.len \in Nat
  BY <1>2 DEF BufferType
<1>4. BlockedEmpty'
  BY <1>1 DEF SendInv, BlockedEmpty
<1>5. \/ /\ f.type = "STREAM" /\ f.id \in Ids
         /\ sent' = [sent EXCEPT ![f.id] = @ + f.len]
         /\ total_sent' = total_sent + f.len
      \/ f.len = 0 /\ UNCHANGED <<sent, total_sent>>
  <2>1. 1 \in 1 .. Len(tx_queue) /\ f = tx_queue[1]
    BY <1>0, <1>1
  <2>2. f.type # "STREAM" => f.len = 0
    BY <2>1 DEF SendInv, BlockedEmpty
  <2> QED BY <1>1, <2>2 DEF SendFlowCtrl, GetInstance, Found, IdCheck
<1> HIDE DEF f
<1>7. ASSUME NEW j \in Ids PROVE written'[j] + recounted'[j] = sent'[j] + SumLenOf(tx_queue', j)
  <2>1. PICK a \in Nat : a = SumLenOf(tx_queue, j)
    BY <1>0, LenOfStreamType
  <2>2. SumLenOf(tx_queue', j) = a
    BY <1>1, <2>1
  <2>3. written[j] + recounted[j] = sent[j] + a
    BY <2>1 DEF SendInv, SendConserved
  <2>4. /\ written'[j] = written[j] /\ written[j] \in Nat
        /\ recounted[j] \in Nat /\ sent[j] \in Nat
    BY <1>0, <1>1
  <2>5. recounted'[j] = recounted[j] + (IF f.id = j THEN f.len ELSE 0)
    BY <1>0, <1>1, <1>3
  <2>6. sent'[j] = sent[j] + (IF f.id = j THEN f.len ELSE 0)
    BY <1>0, <1>3, <1>5
  <2> QED BY <1>3, <2>1, <2>2, <2>3, <2>4, <2>5, <2>6
<1>8. total_sent' = Total(sent')
  <2>1. total_sent = Total(sent)
    BY DEF SendInv, SendConserved
  <2>2. CASE f.len = 0 /\ UNCHANGED <<sent, total_sent>>
    BY <2>1, <2>2
  <2>3. CASE /\ f.type = "STREAM" /\ f.id \in Ids
             /\ sent' = [sent EXCEPT ![f.id] = @ + f.len]
             /\ total_sent' = total_sent + f.len
    <3>1. Total(sent') = Total(sent) + f.len
      BY <1>0, <1>3, <2>3, TotalRaised
    <3> QED BY <2>1, <2>3, <3>1
  <2> QED BY <1>5, <2>2, <2>3
<1> QED BY <1>4, <1>7, <1>8 DEF SendInv, SendConserved

\* A blocked send leaves its data where they are.
LEMMA BlockedCounts == ASSUME TypeOK, SendInv, QuicWriteBlocked PROVE SendInv'
<1>0. tx_queue \in Seq(BufferType) /\ sent \in [Ids -> Nat]
  BY DEF TypeOK, OutType
<1>1. UNCHANGED <<sent, total_sent, written, recounted>>
  BY DEF QuicWriteBlocked
<1>2. PICK b : b.type # "STREAM" /\ b.len = 0 /\ tx_queue' = Append(tx_queue, b)
  BY DEF QuicWriteBlocked
<1>3. b \in BufferType
  <2>1. tx_queue' \in Seq(BufferType)
    BY WriteBlockedType DEF TypeOK, OutType
  <2>2. b = tx_queue'[Len(tx_queue')] /\ Len(tx_queue') \in 1 .. Len(tx_queue')
    BY <1>0, <1>2
  <2> QED BY <2>1, <2>2, ElementOfSeq
<1>4. tx_queue' = tx_queue \o <<b>> /\ <<b>> \in Seq(BufferType)
  BY <1>0, <1>2, <1>3
<1>5. ASSUME NEW j \in Ids PROVE written'[j] + recounted'[j] = sent'[j] + SumLenOf(tx_queue', j)
  <2>1. SumLenOf(tx_queue', j) = SumLenOf(tx_queue, j) + SumLenOf(<<b>>, j)
    BY <1>0, <1>4, SumLenOfConcat
  <2>2. SumLenOf(<<b>>, j) = 0
    BY <1>2, <1>3, SumLenOfOne
  <2>3. SumLenOf(tx_queue, j) \in Nat
    BY <1>0, LenOfStreamType
  <2> QED BY <1>1, <2>1, <2>2, <2>3 DEF SendInv, SendConserved
<1>6. BlockedEmpty'
  <2>1. ASSUME NEW k \in 1 .. Len(tx_queue')
        PROVE  \/ k \in 1 .. Len(tx_queue) /\ tx_queue'[k] = tx_queue[k]
               \/ tx_queue'[k] = b
    BY <1>0, <1>2
  <2> QED BY <1>2, <2>1 DEF SendInv, BlockedEmpty
<1> QED BY <1>1, <1>5, <1>6 DEF SendInv, SendConserved

\* No step loses a byte of a send, or counts one twice without failing to build.
LEMMA SendCountStep == TypeOK /\ SendInv /\ [Next]_vars => SendInv'
<1> SUFFICES ASSUME TypeOK, SendInv, [Next]_vars PROVE SendInv'
  OBVIOUS
<1>0. ASSUME UNCHANGED <<sent, total_sent, tx_queue, written, recounted>> PROVE SendInv'
  BY <1>0 DEF SendInv, SendConserved, BlockedEmpty
<1>1. CASE UNCHANGED vars
  BY <1>0, <1>1 DEF vars, outVars
<1>2. CASE FrameArrives
  <2>1. UNCHANGED <<sent, total_sent, tx_queue, written, recounted>>
    BY <1>2 DEF FrameArrives, QuicFrameStreamParser, QuicFrameStreamTruncated,
       QuicFrameResetStreamParser, QuicFrameStopSendingParser,
       QuicFrameStreamDataBlockedParser, QuicFrameMaxStreamDataParser,
       FrameRejected, QuicFrameMaxDataParser, QuicFrameMaxStreamsParser, outVars
  <2> QED BY <1>0, <2>1
<1>3. CASE Call
  <2>1. ASSUME NEW uni \in BOOLEAN, NEW len \in SendLens, NEW room \in FirstRooms,
               QuicStreamSendEarlyData(uni, len, room)
        PROVE  SendInv'
    <3>1. /\ NextId(uni) \in Ids /\ UNCHANGED <<sent, total_sent, recounted>>
          /\ tx_queue' = tx_queue \o QuicStreamFrameBuild(NextId(uni), len, room)
          /\ written' = [written EXCEPT ![NextId(uni)] = @ + len]
      BY <2>1 DEF QuicStreamSendEarlyData, IdCheck
    <3> QED BY <3>1, SendCounts
  <2>2. ASSUME NEW id \in Ids, NEW len \in SendLens, NEW room \in FirstRooms,
               QuicStreamSend(id, len, room)
        PROVE  SendInv'
    BY <2>2, SendCounts DEF QuicStreamSend
  <2>3. ASSUME NEW uni, NEW id, NEW len, NEW n,
               \/ QuicStreamOpen(uni) \/ QuicStreamRecv(id, len)
               \/ QuicStreamReadV(len, n) \/ QuicStreamSendRefused(id)
        PROVE  SendInv'
    BY <1>0, <2>3 DEF QuicStreamOpen, QuicStreamRecv, QuicStreamReadV,
       QuicStreamSendRefused, outVars
  <2> QED BY <1>3, <2>1, <2>2, <2>3 DEF Call
<1>4. CASE RecvNewDone \/ RecvNewFail
  BY <1>0, <1>4 DEF RecvNewDone, RecvNewFail, outVars
<1>5. CASE Work
  <2>1. CASE ReadSegment \/ ReadEnd \/ ReadVNext \/ ReadVDone \/ QuicSendDone
    BY <1>0, <2>1 DEF ReadSegment, ReadEnd, ReadVNext, ReadVDone, QuicSendDone, outVars
  <2> QED BY <1>5, <2>1, WriteCounts, BuildFailCounts, BlockedCounts DEF Work
<1> QED BY <1>1, <1>2, <1>3, <1>4, <1>5 DEF Next

\* Every byte handed to the send calls is sent or waits in tx_queue, however
\* sends are cut into packets, blocked, retried or refused by the socket; what
\* is counted beyond that are the packets QBuffBuildPkt failed on, once for
\* every attempt; and the connection's count is that of its streams
\* (QuicFrameStreamWrite, QuicStreamSendFlowCtrl, QuicWritePkt).
THEOREM SentIsCounted == Spec => []SendConserved
<1>1. Init => SendInv
  <2>1. \A id \in Ids :
          Init => written[id] + recounted[id] = sent[id] + SumLenOf(tx_queue, id)
    BY SumLenNone DEF Init
  <2>2. Init => sent = [i \in Ids |-> 0] /\ total_sent = 0 /\ BlockedEmpty
    BY DEF Init, BlockedEmpty
  <2> QED BY <2>1, <2>2, TotalZero DEF SendInv, SendConserved
<1>2. TypeOK /\ SendInv /\ [Next]_vars => SendInv'
  BY SendCountStep
<1>3. SendInv => SendConserved
  BY DEF SendInv
<1> QED BY <1>1, <1>2, <1>3, TypeCorrect, PTL DEF Spec
=============================================================================
