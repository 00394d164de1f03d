------------------------------- MODULE Stream -------------------------------
(* The stream layer of one tbquic endpoint after QuicStreamInit: the stream  *)
(* table of quic/stream.c, the stream frame parsers and builders of          *)
(* quic/frame.c and the flow-controlled transmit queue of quic/core.c.       *)
(*                                                                           *)
(* A connection is used by one thread.  Frames are parsed only inside        *)
(* QuicStreamRecvNew, that is, while an application call waits for a         *)
(* datagram, and a call's loops are unfolded here into one step per          *)
(* iteration: pc and arg hold where in which call the thread is.             *)
(*                                                                           *)
(* A byte is identified by its position in the stream it was written to:     *)
(* a queued segment carries the positions pos .. pos + len - 1, and app      *)
(* records the positions handed to the application, in order.                *)
EXTENDS StreamId, Sequences, FiniteSets

CONSTANTS
    LocalDataBidiRemote, LocalDataUni,          \* advertised by this endpoint
    PeerDataBidiRemote, PeerDataUni, PeerMaxData,   \* advertised by the peer
    WireIds,        \* stream ids the peer's frames name
    Segments,       \* [offset, len, fin] of the STREAM frames that may arrive
    DataCredits,    \* values of MAX_DATA and MAX_STREAM_DATA frames
    StreamCredits,  \* values of MAX_STREAMS frames
    ReadLens,       \* buffer lengths the application reads with
    IovCounts,      \* iovcnt of QuicStreamReadV
    SendLens,       \* lengths the application sends
    FrameCap,       \* stream bytes that fit in a packet of their own
    FirstRooms,     \* stream bytes that fit beside a piggybacked ACK
    MaxQueue, MaxMsgs, MaxTx    \* bounds on the three unbounded queues

ASSUME StreamAssumption ==
    /\ LocalDataBidiRemote \in Nat /\ LocalDataUni \in Nat
    /\ PeerDataBidiRemote \in Nat /\ PeerDataUni \in Nat /\ PeerMaxData \in Nat
    /\ WireIds \subseteq Nat
    /\ Segments \subseteq [offset : Nat, len : Nat, fin : BOOLEAN]
    /\ DataCredits \subseteq Nat /\ StreamCredits \subseteq Nat
    /\ ReadLens \subseteq Nat /\ IovCounts \subseteq Nat \ {0}
    /\ SendLens \subseteq Nat
    /\ FrameCap \in Nat \ {0} /\ FirstRooms \subseteq 1 .. FrameCap
    /\ MaxQueue \in Nat /\ MaxMsgs \in Nat /\ MaxTx \in Nat

VARIABLES
    recv_state, send_state,     \* QuicStreamInstance, by id
    notified,                   \* ids whose notified bit is set
    max_stream_data, sent,      \* send credit and stat_bytes.sent, by id
    recvd, offset, queue,       \* stat_bytes.recvd, read offset, segment list
    bidi_id_alloced, uni_id_alloced, max_id_opened, msg_queue,
    total_sent, total_recvd,    \* stat_all
    peer_max_data, peer_max_bidi, peer_max_uni, \* peer_param, raised by MAX_*
    tx_queue,                   \* 1-RTT buffers waiting for QuicWritePkt
    pc, arg                     \* the application call in progress

VARIABLES           \* history, read by the properties only
    app,            \* positions delivered to the application, by id
    fin_told,       \* ids whose iov or call carried QUIC_STREAM_DATA_FLAGS_FIN
    written,        \* bytes the application handed to the send calls, by id
    recounted,      \* bytes counted as sent in packets that were not built, by id
    lost            \* ids whose FIN frame was taken but its bytes discarded

tableVars == <<bidi_id_alloced, uni_id_alloced, peer_max_bidi, peer_max_uni>>
inVars == <<notified, recvd, offset, queue, msg_queue, total_recvd,
            app, fin_told, lost>>
outVars == <<max_stream_data, sent, total_sent, peer_max_data, tx_queue,
             written, recounted>>
callVars == <<pc, arg>>
vars == <<recv_state, send_state, max_id_opened, tableVars, inVars, outVars,
          callVars>>

RecvStates == {"DISABLE", "START", "RECV", "SIZE_KNOWN", "DATA_RECVD",
               "RESET_RECVD", "DATA_READ"}
SendStates == {"DISABLE", "START", "READY", "SEND"}
Fetching == {"recv_new", "readv_new"}           \* inside QuicStreamRecvNew
Reading == {"read", "reread", "readv_read"}     \* inside QuicStreamReadData
Pcs == {"idle", "readv", "send"} \cup Fetching \cup Reading

SegmentType == [offset : Nat, len : Nat, pos : Nat]
BufferType == [type : {"STREAM", "STREAM_DATA_BLOCKED", "DATA_BLOCKED"},
               id : Nat, offset : Nat, len : Nat]
ArgType == [id : Nat, len : Nat, left : Nat, rlen : Nat,
            brk : BOOLEAN, fin : BOOLEAN]

NoArg == [id |-> 0, len |-> 0, left |-> 0, rlen |-> 0,
          brk |-> FALSE, fin |-> FALSE]

\* QuicStreamInstanceInit for every entry of a zeroed table.
Init ==
    /\ recv_state = [i \in Ids |->
            IF Uni(i) /\ ~PeerOpened(i) THEN "DISABLE" ELSE "START"]
    /\ send_state = [i \in Ids |->
            IF Uni(i) /\ PeerOpened(i) THEN "DISABLE" ELSE "START"]
    /\ notified = {} /\ lost = {} /\ fin_told = {}
    /\ max_stream_data = [i \in Ids |-> 0]
    /\ sent = [i \in Ids |-> 0] /\ written = [i \in Ids |-> 0]
    /\ recounted = [i \in Ids |-> 0]
    /\ recvd = [i \in Ids |-> 0] /\ offset = [i \in Ids |-> 0]
    /\ queue = [i \in Ids |-> <<>>] /\ app = [i \in Ids |-> <<>>]
    /\ bidi_id_alloced = 0 /\ uni_id_alloced = 0 /\ max_id_opened = 0
    /\ msg_queue = <<>> /\ tx_queue = <<>>
    /\ total_sent = 0 /\ total_recvd = 0
    /\ peer_max_data = PeerMaxData
    /\ peer_max_bidi = PeerMaxBidi /\ peer_max_uni = PeerMaxUni
    /\ pc = "idle" /\ arg = NoArg

-----------------------------------------------------------------------------
(* Lookup.  QuicStreamGetInstance also opens for reading every stream between *)
(* the highest id seen so far and the one asked for, whoever initiates it.    *)

Found(id) == IdCheck(id) /\ (PeerOpened(id) \/ send_state[id] # "START")

RecvOpened(id) ==
    [i \in Ids |-> IF max_id_opened < i /\ i <= id /\ recv_state[i] = "START"
                   THEN "RECV" ELSE recv_state[i]]

GetInstance(id) ==
    /\ Found(id)
    /\ max_id_opened' = IF id > max_id_opened THEN id ELSE max_id_opened

Return == pc' = "idle" /\ arg' = NoArg

-----------------------------------------------------------------------------
(* Opening a stream.                                                          *)

NextId(uni) == LocalId(IF uni THEN uni_id_alloced ELSE bidi_id_alloced, uni)

\* QuicStreamIdGen finds an id below the peer's limit and inside the table.
CanOpen(uni) ==
    /\ IF uni THEN uni_id_alloced < peer_max_uni ELSE bidi_id_alloced < peer_max_bidi
    /\ NextId(uni) \in Ids

\* Fault: the allocation counters are not advanced.
AllocateNoCount(uni) ==
    /\ CanOpen(uni)
    /\ max_stream_data' = [max_stream_data EXCEPT ![NextId(uni)] =
                             IF uni THEN PeerDataUni ELSE PeerDataBidiRemote]
    /\ UNCHANGED tableVars

Allocate(uni) ==
    /\ CanOpen(uni)
    /\ uni_id_alloced' = IF uni THEN uni_id_alloced + 1 ELSE uni_id_alloced
    /\ bidi_id_alloced' = IF uni THEN bidi_id_alloced ELSE bidi_id_alloced + 1
    /\ max_stream_data' = [max_stream_data EXCEPT ![NextId(uni)] =
                             IF uni THEN PeerDataUni ELSE PeerDataBidiRemote]
    /\ UNCHANGED <<peer_max_bidi, peer_max_uni>>

\* QuicStreamInstanceRecvOpen on the new stream, for a bidirectional one.
RecvOpen(rs, id) == [rs EXCEPT ![id] = IF @ = "START" THEN "RECV" ELSE @]

QuicStreamOpen(uni) ==
    /\ pc = "idle"
    /\ Allocate(uni)
    /\ send_state' = [send_state EXCEPT ![NextId(uni)] = "READY"]
    /\ recv_state' = IF uni THEN recv_state ELSE RecvOpen(recv_state, NextId(uni))
    /\ UNCHANGED <<max_id_opened, inVars, sent, total_sent, peer_max_data,
                   tx_queue, written, recounted, callVars>>

-----------------------------------------------------------------------------
(* Receiving.  Frame parsers run while a call is inside QuicStreamRecvNew; a  *)
(* parser that fails makes the whole call return -1.                          *)

\* QuicStreamRecvFlowCtrl.  Streams the peer opened in both directions are
\* held to the peer's own initial_max_stream_data_bidi_remote.
RecvLimit(id) ==
    IF ~PeerOpened(id) THEN LocalDataBidiRemote
    ELSE IF Uni(id) THEN LocalDataUni ELSE PeerDataBidiRemote

RecvFlowCtrl(id, n) ==
    /\ PeerOpened(id) \/ ~Uni(id)
    /\ ~QUIC_GT(recvd[id] + n, RecvLimit(id))
    /\ ~QUIC_GT(total_recvd + n, peer_max_data)

\* QuicStreamDataAdd: what is left of a frame once the bytes already read are
\* cut off, and whether it is kept.
Retransmitted(id, f) == offset[id] >= f.offset + f.len

\* Fault: an overlapping frame is cut without moving its data pointer.
FreshNoAdvance(id, f) ==
    LET cut == IF offset[id] > f.offset THEN offset[id] - f.offset ELSE 0
    IN  [offset |-> f.offset + cut, len |-> f.len - cut, pos |-> f.offset]

Fresh(id, f) ==
    LET cut == IF offset[id] > f.offset THEN offset[id] - f.offset ELSE 0
    IN  [offset |-> f.offset + cut, len |-> f.len - cut, pos |-> f.offset + cut]

Accepted(id, f) ==
    ~Retransmitted(id, f) /\ RecvFlowCtrl(id, Fresh(id, f).len)

\* QuicStreamOrdered: the list, in arrival order, has no gap from start on.
Ordered(start, q) ==
    \A k \in DOMAIN q :
        q[k].offset = IF k = 1 THEN start ELSE q[k-1].offset + q[k-1].len

\* Fault: list_add for list_add_tail.
DataAddAtHead(id, f, r) ==
    LET seg == Fresh(id, f)
        ok == Accepted(id, f)
    IN  /\ Len(queue[id]) < MaxQueue
        /\ queue' = IF ok THEN [queue EXCEPT ![id] = <<seg>> \o @] ELSE queue
        /\ recvd' = IF ok THEN [recvd EXCEPT ![id] = @ + seg.len] ELSE recvd
        /\ total_recvd' = IF ok THEN total_recvd + seg.len ELSE total_recvd
        /\ recv_state' = [RecvOpened(id) EXCEPT ![id] = r]
        /\ UNCHANGED lost

\* QuicStreamDataAdd on a stream in state r (RECV or SIZE_KNOWN).  Only data
\* that arrives in order can complete the stream.
DataAdd(id, f, r) ==
    LET seg == Fresh(id, f)
        ok == Accepted(id, f)
        q == Append(queue[id], seg)
        done == /\ ok /\ r = "SIZE_KNOWN" /\ f.offset <= offset[id]
                /\ Ordered(offset[id], q)
    IN  /\ Len(queue[id]) < MaxQueue
        /\ queue' = IF ok THEN [queue EXCEPT ![id] = q] ELSE queue
        /\ recvd' = IF ok THEN [recvd EXCEPT ![id] = @ + seg.len] ELSE recvd
        /\ total_recvd' = IF ok THEN total_recvd + seg.len ELSE total_recvd
        /\ recv_state' = [RecvOpened(id) EXCEPT ![id] =
                            IF done THEN "DATA_RECVD" ELSE r]
        /\ lost' = IF f.fin /\ r = "SIZE_KNOWN" /\ ~ok /\ ~Retransmitted(id, f)
                   THEN lost \cup {id} ELSE lost

\* Fault: a message is only added to an empty list.
NotifyIfEmpty(id) ==
    /\ id \in notified \/ Len(msg_queue) < MaxMsgs
    /\ msg_queue' = IF msg_queue = <<>> THEN <<id>> ELSE msg_queue
    /\ notified' = notified \cup {id}

\* The message QuicFrameStreamParser adds unless one is thought to be pending.
Notify(id) ==
    /\ id \in notified \/ Len(msg_queue) < MaxMsgs
    /\ msg_queue' = IF id \in notified THEN msg_queue ELSE Append(msg_queue, id)
    /\ notified' = notified \cup {id}

\* The parser moves a stream it hears of for the first time to READY.
PeerStarted(id) == [send_state EXCEPT ![id] = IF @ = "START" THEN "READY" ELSE @]

\* Fault: the FIN bit is not tested.
AfterFinAlways(id, fin) ==
    IF RecvOpened(id)[id] = "RECV" THEN "SIZE_KNOWN" ELSE RecvOpened(id)[id]

\* The FIN bit is looked at before START becomes RECV.
AfterFin(id, fin) ==
    IF fin /\ RecvOpened(id)[id] = "RECV" THEN "SIZE_KNOWN" ELSE RecvOpened(id)[id]

QuicFrameStreamParser(id, f) ==
    LET r == IF AfterFin(id, f.fin) = "START" THEN "RECV" ELSE AfterFin(id, f.fin)
    IN  /\ pc \in Fetching
        /\ GetInstance(id)
        /\ RecvOpened(id)[id] # "DISABLE"
        /\ send_state' = PeerStarted(id)
        /\ \/ /\ r \in {"RECV", "SIZE_KNOWN"}
              /\ DataAdd(id, f, r)
              /\ Notify(id)
           \/ /\ r \notin {"RECV", "SIZE_KNOWN"}
              /\ recv_state' = RecvOpened(id)
              /\ UNCHANGED <<queue, recvd, total_recvd, msg_queue, notified, lost>>
        /\ UNCHANGED <<tableVars, offset, app, fin_told, outVars, callVars>>

\* A STREAM frame whose data is cut short fails after its FIN bit has counted.
QuicFrameStreamTruncated(id, fin) ==
    /\ pc \in Fetching
    /\ GetInstance(id)
    /\ RecvOpened(id)[id] # "DISABLE"
    /\ send_state' = PeerStarted(id)
    /\ recv_state' = [RecvOpened(id) EXCEPT ![id] = AfterFin(id, fin)]
    /\ lost' = IF fin /\ AfterFin(id, fin) = "SIZE_KNOWN"
               THEN lost \cup {id} ELSE lost
    /\ Return
    /\ UNCHANGED <<tableVars, outVars, notified, recvd, offset, queue,
                   msg_queue, total_recvd, app, fin_told>>

\* Fault: a reset is taken in every state.
ResetStreamAlways(id) ==
    /\ pc \in Fetching
    /\ GetInstance(id)
    /\ recv_state' = [RecvOpened(id) EXCEPT ![id] = "RESET_RECVD"]
    /\ UNCHANGED <<send_state, tableVars, inVars, outVars, callVars>>

QuicFrameResetStreamParser(id) ==
    /\ pc \in Fetching
    /\ GetInstance(id)
    /\ recv_state' = [RecvOpened(id) EXCEPT ![id] =
            IF @ \in {"RECV", "SIZE_KNOWN", "DATA_RECVD"} THEN "RESET_RECVD" ELSE @]
    /\ UNCHANGED <<send_state, tableVars, inVars, outVars, callVars>>

\* Fault: a stopped stream goes back to its first state.
StopSendingRestart(id, whole) ==
    /\ pc \in Fetching
    /\ GetInstance(id)
    /\ send_state[id] \notin {"START", "DISABLE"}
    /\ send_state' = [send_state EXCEPT ![id] = "START"]
    /\ recv_state' = RecvOpened(id)
    /\ UNCHANGED <<tableVars, inVars, outVars, callVars>>

\* whole = FALSE: the error code cannot be decoded, sending is disabled all the
\* same.
QuicFrameStopSendingParser(id, whole) ==
    /\ pc \in Fetching
    /\ GetInstance(id)
    /\ send_state[id] \notin {"START", "DISABLE"}
    /\ send_state' = [send_state EXCEPT ![id] = "DISABLE"]
    /\ \/ /\ whole
          /\ recv_state' = RecvOpen(RecvOpened(id), id)
          /\ UNCHANGED callVars
       \/ ~whole /\ recv_state' = RecvOpened(id) /\ Return
    /\ UNCHANGED <<tableVars, inVars, outVars>>

QuicFrameStreamDataBlockedParser(id) ==
    /\ pc \in Fetching
    /\ GetInstance(id)
    /\ RecvOpened(id)[id] # "DISABLE"
    /\ recv_state' = RecvOpen(RecvOpened(id), id)
    /\ UNCHANGED <<send_state, tableVars, inVars, outVars, callVars>>

\* Credit is refused for a stream whose receiving side is not open.
QuicFrameMaxStreamDataParser(id, v) ==
    /\ pc \in Fetching
    /\ GetInstance(id)
    /\ RecvOpened(id)[id] \notin {"DISABLE", "START"}
    /\ recv_state' = RecvOpened(id)
    /\ max_stream_data' = [max_stream_data EXCEPT ![id] =
                             IF QUIC_LT(@, v) THEN v ELSE @]
    /\ UNCHANGED <<send_state, tableVars, inVars, sent, total_sent,
                   peer_max_data, tx_queue, written, recounted, callVars>>

\* A parser that finds the stream and then returns -1 (the state forbids the
\* frame, or its last field cannot be decoded): the lookup has happened.
FrameRejected(id) ==
    /\ pc \in Fetching
    /\ GetInstance(id)
    /\ recv_state' = RecvOpened(id)
    /\ Return
    /\ UNCHANGED <<send_state, tableVars, inVars, outVars>>

\* QuicFrameStreamParamUpdate, for MAX_DATA and the two MAX_STREAMS.
Raise(old, v) == IF QUIC_GT(v, old) THEN v ELSE old

QuicFrameMaxDataParser(v) ==
    /\ pc \in Fetching
    /\ peer_max_data' = Raise(peer_max_data, v)
    /\ UNCHANGED <<recv_state, send_state, max_id_opened, tableVars, inVars,
                   max_stream_data, sent, total_sent, tx_queue, written, recounted,
                   callVars>>

QuicFrameMaxStreamsParser(uni, v) ==
    /\ pc \in Fetching
    /\ peer_max_uni' = IF uni THEN Raise(peer_max_uni, v) ELSE peer_max_uni
    /\ peer_max_bidi' = IF uni THEN peer_max_bidi ELSE Raise(peer_max_bidi, v)
    /\ UNCHANGED <<recv_state, send_state, max_id_opened, bidi_id_alloced,
                   uni_id_alloced, inVars, outVars, callVars>>

-----------------------------------------------------------------------------
(* The reading calls.                                                         *)

QuicStreamRecv(id, len) ==
    /\ pc = "idle"
    /\ GetInstance(id)
    /\ recv_state' = RecvOpened(id)
    /\ pc' = "read"
    /\ arg' = [NoArg EXCEPT !.id = id, !.len = len]
    /\ UNCHANGED <<send_state, tableVars, inVars, outVars>>

\* Every iov has the same length here.
QuicStreamReadV(len, iovcnt) ==
    /\ pc = "idle"
    /\ pc' = IF msg_queue = <<>> THEN "readv_new" ELSE "readv"
    /\ arg' = [NoArg EXCEPT !.len = len, !.left = iovcnt]
    /\ UNCHANGED <<recv_state, send_state, max_id_opened, tableVars, inVars, outVars>>

\* QuicStreamRecvNew has parsed the whole datagram, or failed without touching
\* a stream (nothing to read, decryption, a frame for an unknown stream).
RecvNewDone ==
    /\ pc \in Fetching
    /\ pc' = IF pc = "recv_new" THEN "reread" ELSE "readv"
    /\ UNCHANGED <<arg, recv_state, send_state, max_id_opened, tableVars,
                   inVars, outVars>>

RecvNewFail ==
    /\ pc \in Fetching
    /\ Return
    /\ UNCHANGED <<recv_state, send_state, max_id_opened, tableVars, inVars, outVars>>

\* The list head continues the stream at the read offset.
Readable(id) == queue[id] # <<>> /\ Head(queue[id]).offset = offset[id]

\* Fault: the room left in the caller's buffer is ignored.
CopyBytesWhole(sd) == sd.len

\* Bytes QuicStreamReadData copies from the head of the list.
CopyBytes(sd) ==
    IF sd.len + arg.rlen > arg.len THEN arg.len - arg.rlen ELSE sd.len

\* Fault: a segment read in part keeps its length.
AfterCopyNoShrink(q, n) ==
    IF n = Head(q).len THEN Tail(q)
    ELSE <<[Head(q) EXCEPT !.pos = @ + n]>> \o Tail(q)

\* A segment read in part keeps its offset.
AfterCopy(q, n) ==
    IF n = Head(q).len THEN Tail(q)
    ELSE <<[Head(q) EXCEPT !.pos = @ + n, !.len = @ - n]>> \o Tail(q)

\* One iteration of the loop of QuicStreamReadData; the assertion that
\* copy_bytes is positive stops the program.
ReadSegment ==
    LET id == arg.id
        sd == Head(queue[id])
        n == CopyBytes(sd)
    IN  /\ pc \in Reading /\ ~arg.brk /\ Readable(id)
        /\ n > 0 \/ sd.len = 0
        /\ queue' = [queue EXCEPT ![id] = AfterCopy(@, n)]
        /\ offset' = [offset EXCEPT ![id] = @ + n]
        /\ app' = [app EXCEPT ![id] = @ \o [i \in 1 .. n |-> sd.pos + i - 1]]
        /\ arg' = [arg EXCEPT !.rlen = @ + n, !.brk = (arg.rlen + n = arg.len)]
        /\ UNCHANGED <<pc, recv_state, send_state, max_id_opened, tableVars,
                       outVars, notified, recvd, msg_queue, total_recvd,
                       fin_told, lost>>

\* Fault: a read that gets nothing does not end its message.
ShortReadOfSome == 0 < arg.rlen /\ arg.rlen < arg.len

\* A read that does not fill the buffer ends its message in QuicStreamReadV.
ShortRead == arg.rlen < arg.len

\* The end of QuicStreamReadData and what its caller does with the result.
\* QuicStreamReadV never clears its flags between two streams.
ReadEnd ==
    LET id == arg.id
        finished == queue[id] = <<>> /\ recv_state[id] = "DATA_RECVD"
        flag == arg.fin \/ finished
        got == arg.rlen > 0
    IN  /\ pc \in Reading /\ (arg.brk \/ ~Readable(id))
        /\ recv_state' = IF finished THEN [recv_state EXCEPT ![id] = "DATA_READ"]
                                     ELSE recv_state
        /\ notified' = notified \ {id}
        /\ fin_told' = IF flag /\ (got \/ pc = "reread")
                       THEN fin_told \cup {id} ELSE fin_told
        /\ \/ /\ pc = "read" /\ ~got
              /\ pc' = "recv_new"
              /\ arg' = [arg EXCEPT !.fin = flag, !.brk = FALSE]
              /\ UNCHANGED msg_queue
           \/ /\ pc = "reread" \/ (pc = "read" /\ got)
              /\ Return
              /\ UNCHANGED msg_queue
           \/ /\ pc = "readv_read"
              /\ pc' = "readv"
              /\ arg' = [NoArg EXCEPT !.len = arg.len, !.fin = flag,
                            !.left = IF got THEN arg.left - 1 ELSE arg.left]
              /\ msg_queue' = IF ShortRead THEN Tail(msg_queue) ELSE msg_queue
        /\ UNCHANGED <<send_state, max_id_opened, tableVars, outVars, recvd,
                       offset, queue, total_recvd, app, lost>>

\* The loop of QuicStreamReadV over the messages.  A message's stream is always
\* found (MessagesAreFound), so the NULL branch is left out.
ReadVNext ==
    LET id == Head(msg_queue)
    IN  /\ pc = "readv" /\ msg_queue # <<>> /\ arg.left > 0
        /\ GetInstance(id)
        /\ recv_state' = RecvOpened(id)
        /\ pc' = "readv_read"
        /\ arg' = [arg EXCEPT !.id = id]
        /\ UNCHANGED <<send_state, tableVars, inVars, outVars>>

ReadVDone ==
    /\ pc = "readv" /\ (msg_queue = <<>> \/ arg.left = 0)
    /\ Return
    /\ UNCHANGED <<recv_state, send_state, max_id_opened, tableVars, inVars, outVars>>

-----------------------------------------------------------------------------
(* Sending.  QuicFrameStreamWrite cuts the data into packets, all stamped     *)
(* with stat_bytes.sent as it is when they are built; QuicWritePkt advances   *)
(* stat_bytes.sent when it takes a packet off the queue.                      *)

\* Stream bytes in the k-th packet when the first one has room for `room`.
ChunkLen(len, room, k) ==
    LET left == len - (IF k = 1 THEN 0 ELSE room + FrameCap * (k - 2))
        cap == IF k = 1 THEN room ELSE FrameCap
    IN  IF left < cap THEN left ELSE cap

\* Fault: the number of packets is rounded down.
ChunksRoundDown(len, room) ==
    IF len = 0 THEN 0
    ELSE IF len <= room THEN 1
    ELSE 1 + (len - room) \div FrameCap

Chunks(len, room) ==
    IF len = 0 THEN 0
    ELSE IF len <= room THEN 1
    ELSE 1 + (len - room + FrameCap - 1) \div FrameCap

\* Fault: the offset field is the offset after the data.
FrameBuildAfter(id, len, room) ==
    [k \in 1 .. Chunks(len, room) |->
        [type |-> "STREAM", id |-> id, offset |-> sent[id] + len,
         len |-> ChunkLen(len, room, k)]]

QuicStreamFrameBuild(id, len, room) ==
    [k \in 1 .. Chunks(len, room) |->
        [type |-> "STREAM", id |-> id, offset |-> sent[id],
         len |-> ChunkLen(len, room, k)]]

\* QuicStreamSend up to QuicSendPacket.
QuicStreamSend(id, len, room) ==
    LET frames == QuicStreamFrameBuild(id, len, room)
    IN  /\ pc = "idle"
        /\ GetInstance(id)
        /\ send_state[id] \in {"READY", "SEND"}
        /\ Len(tx_queue) + Len(frames) < MaxTx
        /\ recv_state' = RecvOpened(id)
        /\ send_state' = IF len = 0 THEN send_state
                         ELSE [send_state EXCEPT ![id] = "SEND"]
        /\ tx_queue' = tx_queue \o frames
        /\ written' = [written EXCEPT ![id] = @ + len]
        /\ pc' = "send" /\ arg' = NoArg
        /\ UNCHANGED <<tableVars, inVars, max_stream_data, sent, total_sent,
                       peer_max_data, recounted>>

\* A send on a stream that may not send still performs the lookup.
QuicStreamSendRefused(id) ==
    /\ pc = "idle"
    /\ GetInstance(id)
    /\ send_state[id] \notin {"READY", "SEND"}
    /\ recv_state' = RecvOpened(id)
    /\ UNCHANGED <<send_state, tableVars, inVars, outVars, callVars>>

\* QuicStreamSendEarlyData once the handshake lets it: open, build and send in
\* one call.  The lookup in the builder refuses ids above the endpoint's own
\* limits; the call then has only opened the stream.
QuicStreamSendEarlyData(uni, len, room) ==
    LET id == NextId(uni)
        frames == QuicStreamFrameBuild(id, len, room)
    IN  /\ pc = "idle"
        /\ Allocate(uni)
        /\ IdCheck(id) /\ len > 0
        /\ Len(tx_queue) + Len(frames) < MaxTx
        /\ send_state' = [send_state EXCEPT ![id] = "SEND"]
        /\ recv_state' = IF uni THEN RecvOpened(id) ELSE RecvOpen(RecvOpened(id), id)
        /\ max_id_opened' = IF id > max_id_opened THEN id ELSE max_id_opened
        /\ tx_queue' = tx_queue \o frames
        /\ written' = [written EXCEPT ![id] = @ + len]
        /\ pc' = "send" /\ arg' = NoArg
        /\ UNCHANGED <<inVars, sent, total_sent, peer_max_data, recounted>>

\* Fault: bytes sent before are not counted.
StreamBlockedByFrame(f) == QUIC_GT(f.len, max_stream_data[f.id])

\* QuicStreamSendFlowCtrl on the buffer at the head of the queue.
StreamBlocked(f) == QUIC_GT(sent[f.id] + f.len, max_stream_data[f.id])
ConnBlocked(f) == QUIC_GT(total_sent + f.len, peer_max_data)

\* Flow control lets the buffer go, and counts it before it is built.
SendFlowCtrl(f) ==
    \/ /\ f.type = "STREAM"
       /\ ~StreamBlocked(f) /\ ~ConnBlocked(f)
       /\ GetInstance(f.id)
       /\ recv_state' = RecvOpened(f.id)
       /\ sent' = [sent EXCEPT ![f.id] = @ + f.len]
       /\ total_sent' = total_sent + f.len
    \/ /\ f.type # "STREAM"
       /\ UNCHANGED <<max_id_opened, recv_state, sent, total_sent>>

\* A 1-RTT buffer goes out alone.  QuicSendPacket goes on with the next one,
\* or ends here: no fd_mode, or write_bytes failed after the buffer was moved.
QuicWritePkt ==
    /\ pc = "send" /\ tx_queue # <<>>
    /\ SendFlowCtrl(Head(tx_queue))
    /\ tx_queue' = Tail(tx_queue)
    /\ UNCHANGED callVars \/ Return
    /\ UNCHANGED <<send_state, tableVars, inVars, max_stream_data,
                   peer_max_data, written, recounted>>

\* QBuffBuildPkt fails after that: 1-RTT keys are not installed yet, the cipher
\* fails, or the payload is too short for a sample, as a DATA_BLOCKED frame may
\* be.  The buffer stays at the head, and the next call counts it again.
QuicBuildFails ==
    LET f == Head(tx_queue)
    IN  /\ pc = "send" /\ tx_queue # <<>>
        /\ SendFlowCtrl(f)
        /\ recounted' = [recounted EXCEPT ![f.id] = @ + f.len]
        /\ Return
        /\ UNCHANGED <<send_state, tableVars, inVars, max_stream_data,
                       peer_max_data, tx_queue, written>>

\* Out of credit: the buffer stays at the head, a blocked frame is queued
\* behind everything else and the call fails.
QuicWriteBlocked ==
    LET f == Head(tx_queue)
        blocked == IF StreamBlocked(f)
                   THEN [type |-> "STREAM_DATA_BLOCKED", id |-> f.id,
                         offset |-> sent[f.id], len |-> 0]
                   ELSE [type |-> "DATA_BLOCKED", id |-> f.id,
                         offset |-> total_sent, len |-> 0]
    IN  /\ pc = "send" /\ tx_queue # <<>> /\ f.type = "STREAM"
        /\ StreamBlocked(f) \/ ConnBlocked(f)
        /\ GetInstance(f.id)
        /\ recv_state' = RecvOpened(f.id)
        /\ send_state' = IF StreamBlocked(f) /\ send_state[f.id] = "READY"
                         THEN [send_state EXCEPT ![f.id] = "SEND"] ELSE send_state
        /\ tx_queue' = Append(tx_queue, blocked)
        /\ Return
        /\ UNCHANGED <<tableVars, inVars, max_stream_data, sent, total_sent,
                       peer_max_data, written, recounted>>

QuicSendDone ==
    /\ pc = "send" /\ tx_queue = <<>>
    /\ Return
    /\ UNCHANGED <<recv_state, send_state, max_id_opened, tableVars, inVars, outVars>>

-----------------------------------------------------------------------------
(* The specification.                                                         *)

FrameArrives ==
    \/ \E id \in WireIds :
          \/ \E f \in Segments : QuicFrameStreamParser(id, f)
          \/ \E fin \in BOOLEAN : QuicFrameStreamTruncated(id, fin)
          \/ QuicFrameResetStreamParser(id)
          \/ \E whole \in BOOLEAN : QuicFrameStopSendingParser(id, whole)
          \/ QuicFrameStreamDataBlockedParser(id)
          \/ \E v \in DataCredits : QuicFrameMaxStreamDataParser(id, v)
          \/ FrameRejected(id)
    \/ \E v \in DataCredits : QuicFrameMaxDataParser(v)
    \/ \E uni \in BOOLEAN, v \in StreamCredits : QuicFrameMaxStreamsParser(uni, v)

Call ==
    \/ \E uni \in BOOLEAN : QuicStreamOpen(uni)
    \/ \E id \in Ids, len \in ReadLens : QuicStreamRecv(id, len)
    \/ \E len \in ReadLens, n \in IovCounts : QuicStreamReadV(len, n)
    \/ \E id \in Ids, len \in SendLens, room \in FirstRooms :
          QuicStreamSend(id, len, room)
    \/ \E id \in Ids : SendLens # {} /\ QuicStreamSendRefused(id)
    \/ \E uni \in BOOLEAN, len \in SendLens, room \in FirstRooms :
          QuicStreamSendEarlyData(uni, len, room)

\* The steps the thread takes inside a call without waiting for anyone.
Work == \/ ReadSegment \/ ReadEnd \/ ReadVNext \/ ReadVDone
        \/ QuicWritePkt \/ QuicBuildFails \/ QuicWriteBlocked \/ QuicSendDone

Next == FrameArrives \/ Call \/ RecvNewDone \/ RecvNewFail \/ Work

\* The thread does not stop in the middle of a call that has work to do.
Spec == Init /\ [][Next]_vars /\ WF_vars(Work)

-----------------------------------------------------------------------------
(* Properties.                                                                *)

\* Every field of the stream table, the queues and the call record keeps its
\* type, and stream states stay within the states the code uses for each side.
\* In particular a call never copies more than the caller's buffer holds, and
\* QuicStreamReadV reads the stream of the message it will remove.
StateType ==
    /\ recv_state \in [Ids -> RecvStates] /\ send_state \in [Ids -> SendStates]
    /\ max_id_opened \in Nat
TableType ==
    /\ bidi_id_alloced \in Nat /\ uni_id_alloced \in Nat
    /\ peer_max_bidi \in Nat /\ peer_max_uni \in Nat
InType ==
    /\ notified \in SUBSET Ids /\ lost \in SUBSET Ids /\ fin_told \in SUBSET Ids
    /\ recvd \in [Ids -> Nat] /\ offset \in [Ids -> Nat] /\ total_recvd \in Nat
    /\ queue \in [Ids -> Seq(SegmentType)] /\ app \in [Ids -> Seq(Nat)]
    /\ msg_queue \in Seq(Ids)
OutType ==
    /\ max_stream_data \in [Ids -> Nat] /\ sent \in [Ids -> Nat]
    /\ written \in [Ids -> Nat] /\ recounted \in [Ids -> Nat]
    /\ total_sent \in Nat /\ peer_max_data \in Nat
    /\ tx_queue \in Seq(BufferType)
CallType ==
    /\ pc \in Pcs /\ arg \in ArgType
    /\ pc \in Reading \cup {"recv_new"} => arg.id \in Ids
    /\ IF pc \in Reading THEN arg.rlen <= arg.len ELSE arg.rlen = 0
    /\ pc = "readv_read" => /\ arg.left > 0
                            /\ msg_queue # <<>> /\ Head(msg_queue) = arg.id
TypeOK == StateType /\ TableType /\ InType /\ OutType /\ CallType

\* QuicStreamReadData hands over the bytes of a stream in order, each once:
\* whatever frames arrive, overlap or repeat, and however reads cut segments,
\* the i-th byte delivered is the i-th byte of the stream.
DeliveredIsPrefix ==
    \A id \in Ids : \A i \in 1 .. Len(app[id]) : app[id][i] = i - 1

\* f[1] + ... + f[n], the lengths in a list, those of one stream among them, and
\* what the streams of the table count together.
SumTo(f, n) ==
    LET s[k \in 0 .. n] == IF k = 0 THEN 0 ELSE s[k - 1] + f[k] IN s[n]
SumLen(q) == SumTo([k \in 1 .. Len(q) |-> q[k].len], Len(q))
SumLenOf(q, id) ==
    SumTo([k \in 1 .. Len(q) |-> IF q[k].id = id THEN q[k].len ELSE 0], Len(q))
Total(f) == SumTo([k \in 1 .. MaxIdValue |-> f[k - 1]], MaxIdValue)

\* Bytes counted against the receive limits are the bytes delivered plus the
\* bytes queued: nothing QuicStreamRecvFlowCtrl counts is dropped afterwards,
\* and nothing it did not count is delivered.
RecvConserved ==
    /\ \A id \in Ids : recvd[id] = offset[id] + SumLen(queue[id])
    /\ total_recvd = Total(recvd)

\* Bytes the application handed to the send calls are sent or still queued,
\* each once, a call that failed for lack of credit included; what is counted as
\* sent exceeds them by exactly the packets that were counted and not built
\* (core.c:80-90), once for every attempt.
SendConserved ==
    /\ \A id \in Ids : written[id] + recounted[id] = sent[id] + SumLenOf(tx_queue, id)
    /\ total_sent = Total(sent)

\* A stream QuicStreamReadData could deliver from always has a message in
\* msg_queue, and so has one whose notified bit keeps the parser from adding
\* another: QuicStreamReadV never misses readable data.
NoLostWakeup ==
    \A id \in Ids :
        Readable(id) \/ id \in notified => \E k \in DOMAIN msg_queue : msg_queue[k] = id

\* QuicStreamReadV finds the stream of every message it takes.
MessagesAreFound == \A k \in DOMAIN msg_queue : Found(msg_queue[k])

\* What QuicWritePkt has sent stays within the credit the peer has granted,
\* however MAX_* frames, blocked sends and retries interleave.
SendWithinCredit ==
    /\ \A id \in Ids : sent[id] <= max_stream_data[id]
    /\ total_sent <= peer_max_data

\* No STREAM frame in the transmit queue starts beyond the bytes counted as
\* sent on its stream: but for packets that were not built (SendConserved), the
\* peer never sees a gap that the sender made.
NoGapOnWire ==
    \A k \in DOMAIN tx_queue :
        tx_queue[k].type = "STREAM" => tx_queue[k].offset <= sent[tx_queue[k].id]

\* assert(si->send_state == QUIC_STREAM_STATE_START) in QuicStreamOpen: the id
\* QuicStreamIdGen makes next was never used, whatever the peer's frames did.
OpenedOnce == \A uni \in BOOLEAN : CanOpen(uni) => send_state[NextId(uni)] = "START"

\* End of stream is only reported after every byte of the stream: a stream in
\* DATA_READ has been read up to its final size, unless the frame with the FIN
\* lost its bytes to flow control or truncation.
FinAfterAllData ==
    \A id \in Ids : recv_state[id] = "DATA_READ" /\ id \notin lost =>
        \A f \in Segments : f.fin => offset[id] >= f.offset + f.len

\* The receiving states only move forward; DISABLE, RESET_RECVD and DATA_READ
\* are final, whatever arrives late.
RecvRank(s) ==
    CASE s = "START" -> 0 [] s = "RECV" -> 1 [] s = "SIZE_KNOWN" -> 2
      [] s = "DATA_RECVD" -> 3 [] OTHER -> 4
RecvStateAdvances ==
    [][\A id \in Ids : recv_state'[id] # recv_state[id] =>
          RecvRank(recv_state[id]) < RecvRank(recv_state'[id])]_vars

\* The list is in arrival order and read from its head only: once the head is
\* not at the read offset, nothing more of the stream is ever delivered, even
\* when the missing bytes arrive.
StalledHeadStays ==
    [][\A id \in Ids : queue[id] # <<>> /\ ~Readable(id) =>
          /\ offset'[id] = offset[id]
          /\ queue'[id] # <<>> /\ Head(queue'[id]) = Head(queue[id])]_vars

\* Every call returns or waits for the network: neither the loop of
\* QuicStreamReadV over messages and iovs nor QuicSendPacket runs for ever.
CallsReturn ==
    pc \in Reading \cup {"readv", "send"} ~> pc \in Fetching \cup {"idle"}

\* The comment "Out of order data" where QuicStreamReadData leaves its loop:
\* the head of a list it does not read from does not hold the next byte.
BreakMeansOutOfOrder ==
    \A id \in Ids : queue[id] # <<>> /\ Head(queue[id]).offset # offset[id]
                        => Head(queue[id]).pos # offset[id]

\* struct QuicStreamIovec: flags are the flags of the stream in handle, so FIN
\* is only told of a stream that has ended.
FlagsBelongToStream == \A id \in fin_told : recv_state[id] = "DATA_READ"
=============================================================================
