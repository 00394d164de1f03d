-------------------------- MODULE ConnectionProofs --------------------------
(* What holds of a connection and of the ids in its pool whatever its peer    *)
(* sends: theorems about Connection for every limit and every set of          *)
(* datagrams that PeerAssumption allows.                                      *)
EXTENDS Connection, NumberProofs, SequenceTheorems, TLAPS

-----------------------------------------------------------------------------
(* The pool of the peer's ids.                                                *)

Entries ==
    [seq : Nat, id : {f.id : f \in PeerFrames}, token : {f.token : f \in PeerFrames},
     late : BOOLEAN]

\* The inductive invariant of the pool: what the three properties say, and the
\* types they need.
PoolInv ==
    /\ pool \in Seq(Entries) /\ prior \in Nat /\ given \subseteq Nat
    /\ PoolWithinLimit
    /\ RetiredUnlessOvertaken
    /\ KeptUntilRetired

\* What stands in a pool is an entry with a number.
LEMMA EntryOfPool ==
    ASSUME NEW p \in Seq(Entries), NEW i \in 1 .. Len(p)
    PROVE  p[i] \in Entries /\ p[i].seq \in Nat
<1>1. p[i] \in Entries
  BY ElementOfSeq
<1>2. \A e \in Entries : e.seq \in Nat
  BY DEF Entries
<1> QED BY <1>1, <1>2

\* QuicCidRetirePriorTo takes k ids off the head of the list: those it takes are
\* retired, and the first that stays is not.
LEMMA RetiredFromHead ==
    ASSUME NEW p \in Seq(Entries), NEW n \in Nat
    PROVE  \E k \in 0 .. Len(p) :
              LET q == QuicCidRetirePriorTo(p, n)
              IN  /\ q \in Seq(Entries) /\ Len(q) = Len(p) - k
                  /\ \A i \in 1 .. Len(q) : q[i] = p[i + k]
                  /\ \A i \in 1 .. k : p[i].seq < n
                  /\ k < Len(p) => p[k + 1].seq >= n
<1> DEFINE kept == {i \in 1 .. Len(p) : p[i].seq >= n}
           q == QuicCidRetirePriorTo(p, n)
<1>1. \A i \in 1 .. Len(p) : p[i] \in Entries /\ p[i].seq \in Nat
  BY EntryOfPool
<1>2. CASE kept = {}
  <2>1. q = <<>>
    BY <1>2 DEF QuicCidRetirePriorTo
  <2>2. \A i \in 1 .. Len(p) : p[i].seq < n
    BY <1>1, <1>2
  <2> QED BY <2>1, <2>2
<1>3. CASE kept # {}
  <2> DEFINE m == CHOOSE i \in kept : \A j \in kept : i <= j
  <2>1. m \in kept /\ \A j \in kept : m <= j
    <3>1. kept \subseteq Nat
      OBVIOUS
    <3>2. \E i \in kept : \A j \in kept : i <= j
      <4> HIDE DEF kept
      <4> QED BY <1>3, <3>1, Least
    <3> HIDE DEF kept
    <3> QED BY <3>2
  <2>2. q = SubSeq(p, m, Len(p))
    BY <1>3 DEF QuicCidRetirePriorTo
  <2>3. m \in 1 .. Len(p) /\ p[m].seq >= n
    BY <2>1
  <2>4. ASSUME NEW i \in 1 .. (m - 1)
        PROVE  p[i].seq < n
    <3>1. i \in 1 .. Len(p) /\ ~ (m <= i)
      BY <2>3
    <3>2. i \notin kept
      BY <2>1, <3>1
    <3> QED BY <1>1, <3>1, <3>2
  <2> HIDE DEF m, q
  <2>5. /\ q \in Seq(Entries) /\ Len(q) = Len(p) - (m - 1)
        /\ \A i \in 1 .. Len(q) : q[i] = p[i + (m - 1)]
    BY <1>1, <2>2, <2>3, SubSeqProperties
  <2> DEFINE k == m - 1
  <2>6. k \in 0 .. Len(p) /\ k + 1 = m
    BY <2>3
  <2>7. /\ q \in Seq(Entries) /\ Len(q) = Len(p) - k
        /\ \A i \in 1 .. Len(q) : q[i] = p[i + k]
        /\ \A i \in 1 .. k : p[i].seq < n
        /\ k < Len(p) => p[k + 1].seq >= n
    BY <2>3, <2>4, <2>5, <2>6
  <2> QED
    <3> HIDE DEF k
    <3> QED BY <2>6, <2>7 DEF q
<1> QED BY <1>2, <1>3

\* What RetiredUnlessOvertaken and KeptUntilRetired say of a list and a number.
KeptFrom(q, r) ==
    /\ \A i \in 1 .. Len(q) : q[i].seq < r =>
          q[i].late \/ \E j \in 1 .. (i - 1) : q[j].seq >= r
    /\ \A s \in given : s >= r => \E i \in 1 .. Len(q) : q[i].seq = s

Larger(n) == IF n > prior THEN n ELSE prior

\* The first half of a NEW_CONNECTION_ID frame: retiring keeps the three
\* properties, for the larger of the two retire_prior_to.
LEMMA RetiringKeeps ==
    ASSUME PoolInv, NEW n \in Nat
    PROVE  /\ QuicCidRetirePriorTo(pool, n) \in Seq(Entries)
           /\ Len(QuicCidRetirePriorTo(pool, n)) <= Len(pool) /\ Larger(n) \in Nat
           /\ KeptFrom(QuicCidRetirePriorTo(pool, n), Larger(n))
<1> DEFINE q == QuicCidRetirePriorTo(pool, n)
           r == Larger(n)
<1>0. pool \in Seq(Entries) /\ prior \in Nat /\ r \in Nat /\ r >= prior /\ r >= n
      /\ r = IF n > prior THEN n ELSE prior
  BY DEF PoolInv, Larger
<1>1. PICK k \in 0 .. Len(pool) :
        /\ q \in Seq(Entries) /\ Len(q) = Len(pool) - k
        /\ \A i \in 1 .. Len(q) : q[i] = pool[i + k]
        /\ \A i \in 1 .. k : pool[i].seq < n
        /\ k < Len(pool) => pool[k + 1].seq >= n
  BY <1>0, RetiredFromHead
<1> HIDE DEF q, r
<1>2. \A i \in 1 .. Len(pool) : pool[i].seq \in Nat
  BY <1>0, EntryOfPool
<1>3. ASSUME NEW i \in 1 .. Len(q), q[i].seq < r
      PROVE  q[i].late \/ \E j \in 1 .. (i - 1) : q[j].seq >= r
  <2>1. i + k \in 1 .. Len(pool) /\ q[i] = pool[i + k] /\ Len(pool) \in Nat
    BY <1>0, <1>1
  <2>2. CASE n > prior
    <3>1. q[1] = pool[k + 1] /\ q[1].seq >= n /\ r = n
      BY <1>0, <1>1, <2>1, <2>2
    <3>2. i # 1
      BY <1>2, <1>3, <2>1, <3>1
    <3> QED BY <3>1, <3>2
  <2>3. CASE ~ (n > prior)
    <3>1. r = prior /\ pool[i + k].seq < prior
      BY <1>0, <1>3, <2>1, <2>3
    <3>2. pool[i + k].late \/ \E j \in 1 .. (i + k - 1) : pool[j].seq >= prior
      BY <2>1, <3>1 DEF PoolInv, RetiredUnlessOvertaken
    <3>3. ASSUME NEW j \in 1 .. (i + k - 1), pool[j].seq >= prior
          PROVE  \E h \in 1 .. (i - 1) : q[h].seq >= r
      <4>1. j \in 1 .. Len(pool) /\ pool[j].seq >= n
        BY <1>0, <1>2, <2>1, <2>3, <3>3
      <4>2. ~ (j <= k)
        BY <1>0, <1>1, <1>2, <4>1
      <4>3. j - k \in 1 .. (i - 1) /\ j - k \in 1 .. Len(q) /\ q[j - k] = pool[j]
        BY <1>1, <2>1, <4>1, <4>2
      <4> QED BY <3>1, <3>3, <4>3
    <3> QED BY <2>1, <3>2, <3>3
  <2> QED BY <2>2, <2>3
<1>4. ASSUME NEW s \in given, s >= r
      PROVE  \E i \in 1 .. Len(q) : q[i].seq = s
  <2>1. s \in Nat /\ s >= prior /\ s >= n
    BY <1>0, <1>4 DEF PoolInv
  <2>2. PICK i \in 1 .. Len(pool) : pool[i].seq = s
    BY <2>1 DEF PoolInv, KeptUntilRetired
  <2>3. ~ (i <= k)
    BY <1>0, <1>1, <1>2, <2>1, <2>2
  <2>4. i - k \in 1 .. Len(q) /\ q[i - k] = pool[i]
    BY <1>0, <1>1, <2>2, <2>3
  <2> QED BY <2>2, <2>4
<1> QED BY <1>0, <1>1, <1>3, <1>4 DEF KeptFrom, q, r

-----------------------------------------------------------------------------
(* The packets and the state.                                                 *)

\* What stands for the body of a packet that was not read.
Unread == {[p EXCEPT !.form = "handshake", !.wf = FALSE] : p \in PeerPackets}

Currents ==
    [frames : Seq(PeerFrames), crypto : {NoVal} \cup {f.tls : f \in PeerFrames},
     via : {"initial", "packet"}, shut : BOOLEAN, update : BOOLEAN]

ConnType ==
    /\ server \in BOOLEAN /\ scid_inited \in BOOLEAN /\ dcid_inited \in BOOLEAN
    /\ rest \in Seq(PeerPackets \cup Unread)
    /\ cur # NoVal => cur \in Currents

\* The packet at hand: what was true when it was opened and still is.
CurrentInv ==
    cur # NoVal =>
      /\ rest # <<>> /\ Head(rest) \in PeerPackets
      /\ call \in {"handshake", "stream"}
      /\ cur.via = "packet" => state # "INITIAL"
      /\ cur.update => /\ ~server /\ ~dcid_inited
                       /\ Head(rest).form = "initial" => Head(rest).scid \in auth
      /\ cur.shut => call = "stream"

StateInv ==
    /\ state = "INITIAL" => tls = "start" /\ (~server => ~dcid_inited)
    /\ ~server => init_key \in {NoVal, Random}
    /\ call = "stream" => HandshakeOver /\ tls # "start"
    /\ state = "CLOSED" => call # "handshake" /\ last \notin {"start", "again"}

\* The inductive invariant of the connection.
ConnInv ==
    /\ ConnType /\ CurrentInv /\ StateInv
    /\ PeerIdAuthentic /\ EstablishedHasCause

LEMMA ConnInit == Init => ConnInv
<1> SUFFICES ASSUME Init PROVE ConnInv
  OBVIOUS
<1>1. ConnType
  <2>1. rest \in Seq(PeerPackets \cup Unread)
    BY DEF Init
  <2>2. scid_inited = FALSE /\ dcid_inited = FALSE /\ cur = NoVal /\ server \in BOOLEAN
    BY DEF Init
  <2> QED BY <2>1, <2>2 DEF ConnType
<1>2. CurrentInv /\ StateInv /\ PeerIdAuthentic /\ EstablishedHasCause
  BY DEF Init, CurrentInv, StateInv, PeerIdAuthentic, EstablishedHasCause, HandshakeOver
<1> QED BY <1>1, <1>2 DEF ConnInv

\* A body that was not read is refused as a packet.
LEMMA UnreadRefused ==
    ASSUME NEW p \in Unread
    PROVE  p.form = "handshake" /\ ~ p.wf
BY PeerAssumption DEF Unread

\* What the server fixes from a header it fixes once; a client fixes nothing.
LEMMA HeaderOnce ==
    ASSUME ConnType, NEW p, HeaderEffect(p) \/ UNCHANGED ids
    PROVE  /\ ~server => UNCHANGED ids
           /\ scid_inited' \in BOOLEAN /\ dcid_inited' \in BOOLEAN
           /\ dcid_inited => dcid' = dcid /\ dcid_inited'
           /\ scid_inited => scid' = scid /\ scid_inited'
           /\ init_key # NoVal => init_key' = init_key
<1>1. CASE UNCHANGED ids
  BY <1>1 DEF ids, ConnType
<1>2. CASE HeaderEffect(p) /\ ~ UNCHANGED ids
  <2>1. server /\ QuicSrvrParseDcid(p) /\ QuicSrvrParseScid(p)
    BY <1>2 DEF HeaderEffect
  <2> QED BY <2>1 DEF QuicSrvrParseDcid, QuicSrvrParseScid, ConnType
<1> QED BY <1>1, <1>2

\* A call that fails leaves no packet at hand and never says that it wants more.
LEMMA FailKeeps ==
    ASSUME ConnInv, NEW via, NEW p, NEW tok, PacketFails(via, p, tok),
           via = "packet" => state # "INITIAL",
           UNCHANGED <<server, tls, freed>>, auth \subseteq auth',
           ~server => UNCHANGED ids,
           scid_inited' \in BOOLEAN, dcid_inited' \in BOOLEAN
    PROVE  ConnInv'
<1>1. ConnType' /\ CurrentInv'
  BY DEF ConnInv, ConnType, CurrentInv, PacketFails
<1>2. StateInv'
  BY DEF ConnInv, ConnType, StateInv, PacketFails, ids
<1>3. PeerIdAuthentic' /\ EstablishedHasCause'
  BY DEF ConnInv, ConnType, PeerIdAuthentic, EstablishedHasCause, HandshakeOver, PacketFails, ids
<1> QED BY <1>1, <1>2, <1>3 DEF ConnInv

-----------------------------------------------------------------------------
(* The actions.                                                               *)

LEMMA CallsKeep ==
    ASSUME ConnInv,
           \/ QuicDoHandshake \/ HandshakeReturns \/ ReadBlocks \/ StreamRecvReturns
           \/ QuicPacketDrainingRecv
           \/ \E d \in Datagrams[server] : QuicStatemReadBytes(d) \/ QuicStreamRecvNew(d)
    PROVE  ConnInv'
<1>1. CASE QuicDoHandshake
  <2>1. cur = NoVal /\ UNCHANGED <<server, rest, cur, state, tls, last, auth>>
    BY <1>1 DEF QuicDoHandshake, ConnInv, CurrentInv, hist
  <2>2. /\ UNCHANGED <<scid, scid_inited, dcid_inited>>
        /\ dcid' = dcid \/ (~server /\ state = "INITIAL")
        /\ init_key' = init_key \/ init_key' = Random
    BY <1>1 DEF QuicDoHandshake, QuicClientInitialSend, ids
  <2>3. ConnType' /\ CurrentInv'
    BY <2>1, <2>2 DEF ConnInv, ConnType, CurrentInv
  <2>4. StateInv' /\ PeerIdAuthentic' /\ EstablishedHasCause'
    BY <1>1, <2>1, <2>2
    DEF ConnInv, ConnType, StateInv, PeerIdAuthentic, EstablishedHasCause, HandshakeOver,
        QuicDoHandshake
  <2> QED BY <2>3, <2>4 DEF ConnInv
<1>2. CASE HandshakeReturns \/ ReadBlocks \/ StreamRecvReturns
  BY <1>2
  DEF HandshakeReturns, ReadBlocks, StreamRecvReturns, Idle, ConnInv, ConnType, CurrentInv,
      StateInv, PeerIdAuthentic, EstablishedHasCause, HandshakeOver, ids, hist
<1>3. CASE QuicPacketDrainingRecv
  BY <1>3
  DEF QuicPacketDrainingRecv, ConnInv, ConnType, CurrentInv, StateInv, PeerIdAuthentic,
      EstablishedHasCause, HandshakeOver, ids, hist
<1>4. ASSUME NEW d \in Datagrams[server], QuicStatemReadBytes(d) \/ QuicStreamRecvNew(d)
      PROVE  ConnInv'
  <2>1. d \in Seq(PeerPackets \cup Unread)
    <3>1. d \in Seq(PeerPackets)
      BY PeerAssumption DEF ConnInv, ConnType
    <3> QED BY <3>1
  <2>2. cur = NoVal /\ rest' = d
    BY <1>4 DEF QuicStatemReadBytes, QuicStreamRecvNew, Idle, ConnInv, CurrentInv
  <2> QED
    BY <1>4, <2>1, <2>2
    DEF QuicStatemReadBytes, QuicStreamRecvNew, ConnInv, ConnType, CurrentInv, StateInv,
        PeerIdAuthentic, EstablishedHasCause, HandshakeOver, ids, hist
<1> QED BY <1>1, <1>2, <1>3, <1>4

\* A packet is opened: what its header and the state say is kept with it.
LEMMA OpenedKeeps ==
    ASSUME ConnInv, NEW via \in {"initial", "packet"}, rest # <<>>, cur = NoVal,
           Head(rest) \in PeerPackets, QuicPktBodyParse(Head(rest)),
           Opened(Head(rest), via),
           via = "packet" => state # "INITIAL",
           call = "stream" \/ (call = "handshake" /\ state \notin Shut),
           UNCHANGED <<server, tls, freed>>,
           ~server => UNCHANGED ids,
           scid_inited' \in BOOLEAN, dcid_inited' \in BOOLEAN
    PROVE  ConnInv'
<1> DEFINE p == Head(rest)
<1>1. /\ cur' = [frames |-> IF p.form \in {"0rtt", "retry"} THEN <<>> ELSE p.frames,
                 crypto |-> NoVal, via |-> via, shut |-> state \in Shut,
                 update |-> ~server /\ IsLong(p) /\ ~dcid_inited]
      /\ auth' = IF p.form \in {"initial", "handshake"} THEN auth \cup {p.scid} ELSE auth
      /\ UNCHANGED <<state, rest, call, last>>
  BY DEF Opened
<1>2. p \in PeerPackets /\ p.frames \in Seq(PeerFrames)
  BY PeerAssumption
<1>3. cur'.frames \in Seq(PeerFrames)
  BY <1>1, <1>2
<1>4. cur' \in Currents /\ cur'.via = via
  BY <1>1, <1>3 DEF Currents
<1>5. ConnType'
  BY <1>1, <1>4 DEF ConnInv, ConnType
<1>7. CurrentInv'
  <2>1. cur'.update => ~server /\ ~dcid_inited /\ UNCHANGED dcid_inited
    BY <1>1 DEF ids
  <2>2. cur'.shut => state \in Shut
    BY <1>1
  <2> QED BY <1>1, <1>2, <1>4, <2>1, <2>2 DEF CurrentInv
<1>8. StateInv' /\ EstablishedHasCause'
  BY <1>1 DEF ConnInv, ConnType, StateInv, EstablishedHasCause, HandshakeOver, ids
<1>9. PeerIdAuthentic'
  BY <1>1 DEF ConnInv, PeerIdAuthentic, ids
<1> QED BY <1>5, <1>7, <1>8, <1>9 DEF ConnInv

LEMMA PacketsKeep ==
    ASSUME ConnInv, QuicInitialRecv \/ QuicPacketRead
    PROVE  ConnInv'
<1> DEFINE p == Head(rest)
<1>1. rest # <<>> /\ cur = NoVal /\ p \in PeerPackets \cup Unread
  BY DEF QuicInitialRecv, QuicPacketRead, ConnInv, ConnType
<1>2. HeaderEffect(p) \/ UNCHANGED ids
  BY DEF QuicInitialRecv, QuicPacketRead
<1>3. /\ ~server => UNCHANGED ids
      /\ scid_inited' \in BOOLEAN /\ dcid_inited' \in BOOLEAN
  BY <1>2, HeaderOnce DEF ConnInv
<1>4. UNCHANGED <<server, tls, freed>>
  BY DEF QuicInitialRecv, QuicPacketRead
<1>5. CASE QuicInitialRecv
  <2>1. CASE p.form = "initial" /\ QuicLPacketHeaderParse(p) /\ QuicPktBodyParse(p)
    <3>1. Opened(p, "initial") /\ call = "handshake" /\ state \notin Shut
      BY <1>5, <2>1 DEF QuicInitialRecv, Shut
    <3>2. p \in PeerPackets
      BY <1>1, <2>1, UnreadRefused
    <3> QED BY <1>1, <1>3, <1>4, <2>1, <3>1, <3>2, OpenedKeeps
  <2>2. CASE ~ (p.form = "initial" /\ QuicLPacketHeaderParse(p) /\ QuicPktBodyParse(p))
    <3>1. PacketFails("initial", pool, p.last) /\ UNCHANGED auth
      BY <1>5, <2>2 DEF QuicInitialRecv
    <3> QED BY <1>3, <1>4, <3>1, FailKeeps
  <2> QED BY <2>1, <2>2
<1>6. CASE QuicPacketRead
  <2>1. /\ state # "INITIAL"
        /\ call = "stream" \/ (call = "handshake" /\ state \notin Shut)
    BY <1>6 DEF QuicPacketRead, Reads, Shut, ConnInv, StateInv
  <2>2. CASE QuicPktHeaderParse(p) /\ QuicPktBodyParse(p)
    <3>1. Opened(p, "packet")
      BY <1>6, <2>2 DEF QuicPacketRead
    <3>2. p \in PeerPackets
      BY <1>1, <2>2, UnreadRefused
      DEF QuicPktHeaderParse, IsLong, QuicLPacketHeaderParse
    <3> QED BY <1>1, <1>3, <1>4, <2>1, <2>2, <3>1, <3>2, OpenedKeeps
  <2>3. CASE ~ (QuicPktHeaderParse(p) /\ QuicPktBodyParse(p))
    <3>1. PacketFails("packet", pool, p.last) /\ UNCHANGED auth
      BY <1>6, <2>3 DEF QuicPacketRead
    <3> QED BY <1>3, <1>4, <2>1, <3>1, FailKeeps
  <2> QED BY <2>2, <2>3
<1> QED BY <1>5, <1>6

\* A frame that is parsed leaves the packet at hand, with the frames after it.
LEMMA ParsedKeeps ==
    ASSUME ConnInv, cur # NoVal, cur.frames # <<>>, Parsed,
           UNCHANGED <<server, tls, auth>>, UNCHANGED ids, freed' = freed \/ freed',
           \/ state' = state \/ state' = "DRAINING"
           \/ state' = "HANDSHAKE_DONE" /\ ~server /\ freed'
    PROVE  ConnInv'
<1>1. cur \in Currents /\ cur.frames \in Seq(PeerFrames)
  BY DEF ConnInv, ConnType, Currents
<1>2. Tail(cur.frames) \in Seq(PeerFrames)
  BY <1>1
<1>3. /\ cur' \in Currents /\ cur'.frames = Tail(cur.frames) /\ cur'.via = cur.via
      /\ cur'.shut = cur.shut /\ cur'.update = cur.update /\ UNCHANGED <<rest, call, last>>
  BY <1>1, <1>2 DEF Parsed, Currents
<1>4. ConnType'
  BY <1>3 DEF ConnInv, ConnType, ids
<1>7. CurrentInv'
  BY <1>3 DEF ConnInv, CurrentInv, ids
<1>8. StateInv' /\ PeerIdAuthentic' /\ EstablishedHasCause'
  BY <1>3 DEF ConnInv, StateInv, PeerIdAuthentic, EstablishedHasCause, HandshakeOver, ids
<1> QED BY <1>4, <1>7, <1>8 DEF ConnInv

\* A frame that is refused ends the call.
LEMMA RefusedKeeps ==
    ASSUME ConnInv, cur # NoVal, NEW p, NEW tok, PacketFails(cur.via, p, tok),
           UNCHANGED <<server, tls, freed, auth>>, UNCHANGED ids
    PROVE  ConnInv'
<1>1. cur.via = "packet" => state # "INITIAL"
  BY DEF ConnInv, CurrentInv
<1>2. scid_inited' \in BOOLEAN /\ dcid_inited' \in BOOLEAN
  BY DEF ConnInv, ConnType, ids
<1> QED BY <1>1, <1>2, FailKeeps

LEMMA FramesKeep ==
    ASSUME ConnInv,
           \/ QuicFrameNewConnIdParser \/ QuicFrameRetireConnIdParser
           \/ QuicFrameConnCloseParser \/ QuicFrameHandshakeDoneParser
           \/ QuicFrameNewTokenParser \/ OtherFrame \/ TlsError
    PROVE  ConnInv'
<1>1. /\ cur # NoVal /\ UNCHANGED <<server, tls, auth>> /\ UNCHANGED ids
      /\ QuicFrameHandshakeDoneParser \/ UNCHANGED freed
      /\ TlsError \/ cur.frames # <<>>
  BY DEF QuicFrameNewConnIdParser, QuicFrameRetireConnIdParser, QuicFrameConnCloseParser,
         QuicFrameHandshakeDoneParser, QuicFrameNewTokenParser, OtherFrame, TlsError, Frame,
         ids, hist
<1>2. CASE QuicFrameNewConnIdParser
  <2>1. (\E p, tok : PacketFails(cur.via, p, tok)) \/ (Parsed /\ UNCHANGED state)
    BY <1>2 DEF QuicFrameNewConnIdParser
  <2> QED BY <1>1, <1>2, <2>1, ParsedKeeps, RefusedKeeps DEF QuicFrameNewConnIdParser, Frame
<1>3. CASE QuicFrameRetireConnIdParser
  BY <1>1, <1>3, ParsedKeeps DEF QuicFrameRetireConnIdParser, Frame
<1>4. CASE QuicFrameConnCloseParser
  BY <1>1, <1>4, ParsedKeeps DEF QuicFrameConnCloseParser, Frame
<1>5. CASE QuicFrameHandshakeDoneParser
  <2>1. /\ cur.frames # <<>> /\ Parsed
        /\ \/ UNCHANGED <<state, freed>>
           \/ ~server /\ state' = "HANDSHAKE_DONE" /\ freed'
    BY <1>5 DEF QuicFrameHandshakeDoneParser, Frame
  <2> QED BY <1>1, <2>1, ParsedKeeps
<1>6. CASE QuicFrameNewTokenParser
  <2>1. (\E p, tok : PacketFails(cur.via, p, tok)) \/ (Parsed /\ UNCHANGED state)
    BY <1>6 DEF QuicFrameNewTokenParser
  <2> QED BY <1>1, <1>6, <2>1, ParsedKeeps, RefusedKeeps DEF QuicFrameNewTokenParser, Frame
<1>7. CASE OtherFrame
  <2>1. (\E p, tok : PacketFails(cur.via, p, tok)) \/ (Parsed /\ UNCHANGED state)
    BY <1>7 DEF OtherFrame
  <2> QED BY <1>1, <1>7, <2>1, ParsedKeeps, RefusedKeeps DEF OtherFrame, Frame
<1>8. CASE TlsError
  BY <1>1, <1>8, RefusedKeeps DEF TlsError
<1> QED BY <1>2, <1>3, <1>4, <1>5, <1>6, <1>7, <1>8

LEMMA CryptoKeeps ==
    ASSUME ConnInv, QuicFrameCryptoParser
    PROVE  ConnInv'
<1>1. /\ cur # NoVal /\ cur.frames # <<>> /\ cur \in Currents
      /\ cur.frames \in Seq(PeerFrames)
  BY DEF QuicFrameCryptoParser, Frame, ConnInv, ConnType, Currents
<1>2. Tail(cur.frames) \in Seq(PeerFrames) /\ Head(cur.frames) \in PeerFrames
  BY <1>1
<1>3. UNCHANGED <<server, tls, freed, auth, rest, call, last, state>> /\ UNCHANGED ids
  BY DEF QuicFrameCryptoParser, hist
<1>4. /\ cur' \in Currents /\ cur'.frames = Tail(cur.frames) /\ cur'.via = cur.via
      /\ cur'.shut = cur.shut /\ cur'.update = cur.update
  BY <1>1, <1>2 DEF QuicFrameCryptoParser, Currents
<1>5. ConnType'
  BY <1>3, <1>4 DEF ConnInv, ConnType, ids
<1>7. CurrentInv'
  BY <1>1, <1>3, <1>4 DEF ConnInv, CurrentInv, ids
<1>8. StateInv' /\ PeerIdAuthentic' /\ EstablishedHasCause'
  BY <1>3 DEF ConnInv, StateInv, PeerIdAuthentic, EstablishedHasCause, HandshakeOver, ids
<1> QED BY <1>5, <1>7, <1>8 DEF ConnInv

LEMMA PacketDoneKeeps ==
    ASSUME ConnInv, PacketDone
    PROVE  ConnInv'
<1> DEFINE p == Head(rest)
<1>1. /\ cur # NoVal /\ cur \in Currents /\ rest # <<>> /\ p \in PeerPackets
      /\ cur' = NoVal
      /\ UNCHANGED <<server, freed, scid_inited, init_key, call, last, auth>>
  BY DEF PacketDone, ConnInv, ConnType, CurrentInv, hist
<1>2. rest' \in Seq(PeerPackets \cup Unread)
  <2>1. Tail(rest) \in Seq(PeerPackets \cup Unread)
    BY <1>1 DEF ConnInv, ConnType
  <2>2. [p EXCEPT !.form = "handshake", !.wf = FALSE] \in Unread
    BY <1>1 DEF Unread
  <2>3. << [p EXCEPT !.form = "handshake", !.wf = FALSE] >> \in Seq(PeerPackets \cup Unread)
    BY <2>2
  <2> QED BY <2>1, <2>3 DEF PacketDone
<1>3. /\ HandshakeOver => HandshakeOver'
      /\ tls # "start" => tls' # "start"
  BY <1>1 DEF PacketDone, TlsAfter, HandshakeOver
<1>4. state' # "INITIAL" /\ (state' = "CLOSED" => state = "CLOSED")
  BY <1>1 DEF PacketDone, AfterFrames, ConnInv, CurrentInv, Currents
<1>5. state' = "HANDSHAKE_DONE" => HandshakeOver'
  BY <1>1, <1>3 DEF PacketDone, AfterFrames, ConnInv, EstablishedHasCause, HandshakeOver
<1>6. CASE cur.update
  <2>1. /\ dcid' = p.scid /\ dcid_inited' = (dcid_inited \/ p.form = "initial")
        /\ ~dcid_inited
        /\ p.form = "initial" => p.scid \in auth
    BY <1>1, <1>6 DEF PacketDone, QuicUpdateDcid, ConnInv, CurrentInv
  <2>2. dcid_inited' \in BOOLEAN /\ (dcid_inited' => dcid' \in auth)
    BY <2>1
  <2>4. ConnType'
    BY <1>1, <1>2, <2>2 DEF ConnInv, ConnType
  <2>5. PeerIdAuthentic'
    BY <1>1, <2>2 DEF PeerIdAuthentic
  <2>3. CurrentInv' /\ StateInv' /\ EstablishedHasCause'
    BY <1>1, <1>3, <1>4, <1>5
    DEF ConnInv, CurrentInv, StateInv, EstablishedHasCause, HandshakeOver
  <2> QED BY <2>3, <2>4, <2>5 DEF ConnInv
<1>7. CASE ~ cur.update
  <2>1. UNCHANGED <<dcid, dcid_inited>>
    BY <1>7 DEF PacketDone
  <2> QED
    BY <1>1, <1>2, <1>3, <1>4, <1>5, <2>1
    DEF ConnInv, ConnType, CurrentInv, StateInv, PeerIdAuthentic, EstablishedHasCause, HandshakeOver
<1> QED BY <1>6, <1>7

LEMMA ConnStep == ConnInv /\ [Next]_vars => ConnInv'
<1> SUFFICES ASSUME ConnInv, [Next]_vars PROVE ConnInv'
  OBVIOUS
<1>1. CASE Next
  <2>1. CASE \/ QuicDoHandshake \/ HandshakeReturns \/ ReadBlocks \/ StreamRecvReturns
             \/ QuicPacketDrainingRecv
             \/ \E d \in Datagrams[server] : QuicStatemReadBytes(d) \/ QuicStreamRecvNew(d)
    BY <2>1, CallsKeep
  <2>2. CASE QuicInitialRecv \/ QuicPacketRead
    BY <2>2, PacketsKeep
  <2>3. CASE \/ QuicFrameNewConnIdParser \/ QuicFrameRetireConnIdParser
             \/ QuicFrameConnCloseParser \/ QuicFrameHandshakeDoneParser
             \/ QuicFrameNewTokenParser \/ OtherFrame \/ TlsError
    BY <2>3, FramesKeep
  <2>4. CASE QuicFrameCryptoParser
    BY <2>4, CryptoKeeps
  <2>5. CASE PacketDone
    BY <2>5, PacketDoneKeeps
  <2> QED BY <1>1, <2>1, <2>2, <2>3, <2>4, <2>5 DEF Next
<1>2. CASE UNCHANGED vars
  <2>1. ConnType' /\ CurrentInv'
    BY <1>2 DEF vars, ids, hist, ConnInv, ConnType, CurrentInv
  <2>2. StateInv' /\ PeerIdAuthentic' /\ EstablishedHasCause'
    BY <1>2
    DEF vars, ids, hist, ConnInv, StateInv, PeerIdAuthentic, EstablishedHasCause,
        HandshakeOver
  <2> QED BY <2>1, <2>2 DEF ConnInv
<1> QED BY <1>1, <1>2

-----------------------------------------------------------------------------
(* The pool: only two frames touch it.                                        *)

LEMMA NewIdKeepsPool ==
    ASSUME ConnInv, PoolInv, QuicFrameNewConnIdParser
    PROVE  PoolInv'
<1> DEFINE f == Head(cur.frames)
           q == QuicCidRetirePriorTo(pool, f.prior)
           n == num - (Len(pool) - Len(q))
<1>1. f \in PeerFrames /\ f.seq \in Nat /\ f.prior \in Nat
  <2>1. cur.frames \in Seq(PeerFrames) /\ cur.frames # <<>> /\ f.type = "new_cid"
    BY DEF QuicFrameNewConnIdParser, Frame, ConnInv, ConnType, Currents
  <2> QED BY <2>1, PeerAssumption
<1>2. /\ num = Len(pool) /\ num <= ActiveCidLimit /\ pool \in Seq(Entries)
      /\ prior \in Nat /\ given \subseteq Nat /\ ActiveCidLimit \in Nat
  BY ConnectionAssumption DEF PoolInv, PoolWithinLimit, ActiveCidLimit
<1> DEFINE r == Larger(f.prior)
<1>3. /\ q \in Seq(Entries) /\ Len(q) <= Len(pool) /\ r \in Nat
      /\ \A i \in 1 .. Len(q) : q[i].seq < r =>
            q[i].late \/ \E j \in 1 .. (i - 1) : q[j].seq >= r
      /\ \A s \in given : s >= r => \E i \in 1 .. Len(q) : q[i].seq = s
  BY <1>1, RetiringKeeps DEF KeptFrom
<1>4. n = Len(q) /\ n <= ActiveCidLimit
  BY <1>2, <1>3
<1>5. CASE dcid = Empty
  <2>1. UNCHANGED <<pool, num, prior, given>>
    BY <1>5 DEF QuicFrameNewConnIdParser, PacketFails
  <2> HIDE DEF f, q, n, r
  <2> QED BY <2>1 DEF PoolInv, PoolWithinLimit, RetiredUnlessOvertaken, KeptUntilRetired
<1>6. CASE dcid # Empty /\ (QuicActiveCidLimitCheck(n) \/ ~f.whole)
  <2>1. pool' = q /\ num' = n /\ given' = given /\ prior' = r
    BY <1>6 DEF QuicFrameNewConnIdParser, Larger
  <2> HIDE DEF q, n, r
  <2> QED
    BY <1>2, <1>3, <1>4, <2>1
    DEF PoolInv, PoolWithinLimit, RetiredUnlessOvertaken, KeptUntilRetired
<1>7. CASE dcid # Empty /\ ~ (QuicActiveCidLimitCheck(n) \/ ~f.whole)
  <2> DEFINE e == [seq |-> f.seq, id |-> f.id, token |-> f.token, late |-> f.seq < r]
  <2>1. /\ pool' = Append(q, e) /\ num' = n + 1 /\ given' = given \cup {f.seq}
        /\ prior' = r
    BY <1>7 DEF QuicFrameNewConnIdParser, Larger
  <2>2. e \in Entries /\ e.seq = f.seq /\ (f.seq < r => e.late)
    <3>1. f.id \in {g.id : g \in PeerFrames} /\ f.token \in {g.token : g \in PeerFrames}
      BY <1>1
    <3>2. (f.seq < r) \in BOOLEAN
      OBVIOUS
    <3> HIDE DEF f, r
    <3> QED BY <1>1, <3>1, <3>2 DEF Entries
  <2>3. n + 1 <= ActiveCidLimit
    BY <1>2, <1>3, <1>4, <1>7 DEF QuicActiveCidLimitCheck
  <2> HIDE DEF q, n, r, e
  <2>4. /\ pool' \in Seq(Entries) /\ Len(pool') = Len(q) + 1
        /\ \A i \in 1 .. Len(q) : pool'[i] = q[i]
        /\ pool'[Len(q) + 1] = e /\ Len(q) \in Nat
    BY <1>3, <2>1, <2>2
  <2>5. PoolWithinLimit'
    BY <1>2, <1>4, <2>1, <2>3, <2>4 DEF PoolWithinLimit, ActiveCidLimit
  <2>6. RetiredUnlessOvertaken'
    <3> SUFFICES ASSUME NEW i \in 1 .. Len(pool'), pool'[i].seq < r
                 PROVE  pool'[i].late \/ \E j \in 1 .. (i - 1) : pool'[j].seq >= r
      BY <2>1 DEF RetiredUnlessOvertaken
    <3>1. CASE i = Len(q) + 1
      BY <2>2, <2>4, <3>1
    <3>2. CASE i # Len(q) + 1
      <4>1. i \in 1 .. Len(q) /\ pool'[i] = q[i]
        BY <2>4, <3>2
      <4>2. \A j \in 1 .. (i - 1) : pool'[j] = q[j]
        BY <2>4, <4>1
      <4> QED BY <1>3, <4>1, <4>2
    <3> QED BY <3>1, <3>2
  <2>7. KeptUntilRetired'
    <3> SUFFICES ASSUME NEW s \in given', s >= r
                 PROVE  \E i \in 1 .. Len(pool') : pool'[i].seq = s
      BY <2>1 DEF KeptUntilRetired
    <3>1. CASE s = f.seq
      <4>1. Len(q) + 1 \in 1 .. Len(pool')
        BY <2>4
      <4> QED BY <2>2, <2>4, <3>1, <4>1
    <3>2. CASE s \in given
      <4>1. PICK i \in 1 .. Len(q) : q[i].seq = s
        BY <1>3, <3>2
      <4> QED BY <2>4, <4>1
    <3> QED BY <2>1, <3>1, <3>2
  <2> QED BY <1>1, <1>2, <1>3, <2>1, <2>4, <2>5, <2>6, <2>7 DEF PoolInv
<1> QED BY <1>5, <1>6, <1>7

\* No number is below max_seq: a RETIRE_CONNECTION_ID frame finds no id.
LEMMA RetireKeepsPool ==
    ASSUME ConnInv, PoolInv, QuicFrameRetireConnIdParser
    PROVE  PoolInv'
<1>1. Head(cur.frames).seq \in Nat
  <2>1. /\ cur.frames \in Seq(PeerFrames) /\ cur.frames # <<>>
        /\ Head(cur.frames).type = "retire_cid"
    BY DEF QuicFrameRetireConnIdParser, Frame, ConnInv, ConnType, Currents
  <2> QED BY <2>1, PeerAssumption
<1>2. QuicCidFind(pool, Head(cur.frames).seq) = 0
  BY <1>1 DEF QuicCidFind, max_seq
<1>3. pool' = pool /\ num' = num - (Len(pool) - Len(pool')) /\ UNCHANGED hist
  BY <1>2 DEF QuicFrameRetireConnIdParser, QuicCidRetire
<1>4. num' = num
  BY <1>3 DEF PoolInv, PoolWithinLimit
<1> QED BY <1>3, <1>4 DEF hist, PoolInv, PoolWithinLimit, RetiredUnlessOvertaken, KeptUntilRetired

LEMMA PoolStep == ConnInv /\ PoolInv /\ [Next]_vars => PoolInv'
<1> SUFFICES ASSUME ConnInv, PoolInv, [Next]_vars PROVE PoolInv'
  OBVIOUS
<1>1. CASE UNCHANGED <<pool, num, prior, given>>
  BY <1>1 DEF PoolInv, PoolWithinLimit, RetiredUnlessOvertaken, KeptUntilRetired
<1>2. CASE QuicFrameNewConnIdParser \/ QuicFrameRetireConnIdParser
  BY <1>2, NewIdKeepsPool, RetireKeepsPool
<1>3. CASE /\ ~ QuicFrameNewConnIdParser /\ ~ QuicFrameRetireConnIdParser
           /\ ~ UNCHANGED vars
  <2>1. CASE \/ QuicDoHandshake \/ HandshakeReturns \/ ReadBlocks \/ StreamRecvReturns
             \/ \E d \in Datagrams[server] : QuicStatemReadBytes(d) \/ QuicStreamRecvNew(d)
    BY <1>1, <2>1
    DEF QuicDoHandshake, HandshakeReturns, ReadBlocks, StreamRecvReturns,
        QuicStatemReadBytes, QuicStreamRecvNew, hist
  <2>2. CASE QuicInitialRecv \/ QuicPacketRead \/ QuicPacketDrainingRecv
    BY <1>1, <2>2 DEF QuicInitialRecv, QuicPacketRead, QuicPacketDrainingRecv, hist
  <2>3. CASE \/ QuicFrameConnCloseParser \/ QuicFrameHandshakeDoneParser
             \/ QuicFrameNewTokenParser \/ QuicFrameCryptoParser \/ OtherFrame
             \/ PacketDone \/ TlsError
    BY <1>1, <2>3
    DEF QuicFrameConnCloseParser, QuicFrameHandshakeDoneParser, QuicFrameNewTokenParser,
        QuicFrameCryptoParser, OtherFrame, PacketDone, TlsError, hist
  <2> QED BY <1>3, <2>1, <2>2, <2>3 DEF Next
<1>4. CASE UNCHANGED vars
  BY <1>1, <1>4 DEF vars, hist
<1> QED BY <1>2, <1>3, <1>4

LEMMA Invariants == Spec => [](ConnInv /\ PoolInv)
<1>1. Init => PoolInv
  <2> SUFFICES ASSUME Init PROVE PoolInv
    OBVIOUS
  <2>1. pool = <<>> /\ num = 0 /\ prior = 0 /\ given = {} /\ pool \in Seq(Entries)
    BY DEF Init
  <2>2. 0 <= ActiveCidLimit
    BY ConnectionAssumption DEF ActiveCidLimit
  <2> QED
    BY <2>1, <2>2 DEF PoolInv, PoolWithinLimit, RetiredUnlessOvertaken, KeptUntilRetired
<1> QED BY <1>1, ConnInit, ConnStep, PoolStep, PTL DEF Spec

-----------------------------------------------------------------------------
(* The theorems.                                                              *)

\* The queue of the peer's ids agrees with its counter and stays within the
\* limit (QuicActiveCidLimitCheck, QuicFrameNewConnIdParser).
THEOREM PoolBounded == Spec => []PoolWithinLimit
BY Invariants, PTL DEF PoolInv

\* Retiring from the head of the queue misses an id only behind one that stays or
\* when its frame was overtaken (QuicCidRetirePriorTo).
THEOREM RetirementComplete == Spec => []RetiredUnlessOvertaken
BY Invariants, PTL DEF PoolInv

\* It never takes an id that the peer has not retired, although the frame that
\* asks for it may fail half way (QuicFrameNewConnIdParser).
THEOREM RetirementExact == Spec => []KeptUntilRetired
BY Invariants, PTL DEF PoolInv

\* What a client takes for the id of its server was in a packet that it could
\* decrypt, in whatever order headers, handlers and frames take effect
\* (QuicPacketRead, QuicUpdateDcid).
THEOREM PeerIdIsAuthentic == Spec => []PeerIdAuthentic
BY Invariants, PTL DEF ConnInv

\* A server is established by its TLS alone, a client by its TLS or a HANDSHAKE_DONE frame:
\* no other frame, order of frames or way of reading makes the connection seem complete
\* (QuicFrameHandshakeDoneParser, AfterFrames).
THEOREM EstablishedByCause == Spec => []EstablishedHasCause
BY Invariants, PTL DEF ConnInv

\* The state machine is never entered in the state without a handler
\* (client_statem, server_statem).
THEOREM HandlerAlwaysExists == Spec => []HandlerExists
<1>1. ConnInv => HandlerExists
  BY DEF ConnInv, StateInv, HandlerExists
<1> QED BY <1>1, Invariants, PTL

\* The ids and the Initial keys of a connection are fixed once (QuicSrvrParseDcid,
\* QuicSrvrParseScid, QuicUpdateDcid).
THEOREM IdsNeverChange == Spec => IdsStable
<1> DEFINE Same ==
      /\ dcid_inited => dcid' = dcid /\ dcid_inited'
      /\ scid_inited => scid' = scid /\ scid_inited'
      /\ init_key # NoVal => init_key' = init_key
<1>1. ASSUME ConnInv, [Next]_vars
      PROVE  Same
  <2>1. CASE UNCHANGED ids
    BY <2>1 DEF ids
  <2>2. CASE QuicDoHandshake
    <3>1. CASE UNCHANGED ids
      BY <2>1, <3>1
    <3>2. CASE ~ UNCHANGED ids
      <4>1. /\ ~server /\ state = "INITIAL" /\ init_key' = Random
            /\ UNCHANGED <<scid, scid_inited, dcid_inited>>
        BY <2>2, <3>2 DEF QuicDoHandshake, QuicClientInitialSend
      <4>2. ~dcid_inited /\ init_key \in {NoVal, Random}
        BY <1>1, <4>1 DEF ConnInv, StateInv
      <4> QED BY <4>1, <4>2
    <3> QED BY <3>1, <3>2
  <2>3. CASE QuicInitialRecv \/ QuicPacketRead
    <3>1. HeaderEffect(Head(rest)) \/ UNCHANGED ids
      BY <2>3 DEF QuicInitialRecv, QuicPacketRead
    <3> QED BY <1>1, <3>1, HeaderOnce DEF ConnInv
  <2>4. CASE PacketDone
    <3>1. UNCHANGED <<scid, scid_inited, init_key>>
      BY <2>4 DEF PacketDone
    <3>2. CASE cur.update
      <4>1. ~dcid_inited
        BY <1>1, <2>4, <3>2 DEF PacketDone, ConnInv, CurrentInv
      <4> QED BY <3>1, <4>1
    <3>3. CASE ~ cur.update
      BY <2>4, <3>1, <3>3 DEF PacketDone
    <3> QED BY <3>2, <3>3
  <2>5. CASE UNCHANGED vars
    BY <2>5 DEF vars, ids
  <2>6. CASE \/ HandshakeReturns \/ ReadBlocks \/ StreamRecvReturns
             \/ \E d \in Datagrams[server] : QuicStatemReadBytes(d) \/ QuicStreamRecvNew(d)
             \/ QuicPacketDrainingRecv
    BY <2>1, <2>6
    DEF HandshakeReturns, ReadBlocks, StreamRecvReturns, QuicStatemReadBytes,
        QuicStreamRecvNew, QuicPacketDrainingRecv
  <2>7. CASE \/ QuicFrameNewConnIdParser \/ QuicFrameRetireConnIdParser
             \/ QuicFrameConnCloseParser \/ QuicFrameHandshakeDoneParser
             \/ QuicFrameNewTokenParser \/ QuicFrameCryptoParser \/ OtherFrame
             \/ TlsError
    BY <2>1, <2>7
    DEF QuicFrameNewConnIdParser, QuicFrameRetireConnIdParser, QuicFrameConnCloseParser,
        QuicFrameHandshakeDoneParser, QuicFrameNewTokenParser, QuicFrameCryptoParser,
        OtherFrame, TlsError, ids
  <2> QED BY <1>1, <2>2, <2>3, <2>4, <2>5, <2>6, <2>7 DEF Next
<1>2. ConnInv /\ [Next]_vars => [Same]_vars
  BY <1>1
<1> HIDE DEF Same
<1>3. Spec => [][Same]_vars
  BY <1>2, Invariants, PTL DEF Spec
<1> QED BY <1>3 DEF Same, IdsStable

\* A connection that was closed before a packet came is revived by it only
\* through the reading of streams after the handshake (QuicStreamRecvNew,
\* QuicFrameHandshakeDoneParser).
THEOREM RevivalOnlyByReading == Spec => RevivedOnlyByReading
<1> DEFINE Revival ==
      (state \in Shut /\ state' \notin Shut) =>
        (call = "stream" /\ HandshakeOver) \/ (cur # NoVal /\ ~cur.shut)
<1>1. ASSUME ConnInv, [Next]_vars, state \in Shut, state' \notin Shut
      PROVE  (call = "stream" /\ HandshakeOver) \/ (cur # NoVal /\ ~cur.shut)
  <2>1. cur # NoVal => (cur.shut => call = "stream" /\ HandshakeOver)
    BY <1>1 DEF ConnInv, CurrentInv, StateInv
  <2>2. cur # NoVal \/ UNCHANGED state \/ state' \in Shut
    <3>1. CASE UNCHANGED vars
      BY <3>1 DEF vars
    <3>2. CASE \/ QuicDoHandshake \/ HandshakeReturns \/ ReadBlocks \/ StreamRecvReturns
               \/ \E d \in Datagrams[server] :
                    QuicStatemReadBytes(d) \/ QuicStreamRecvNew(d)
               \/ QuicPacketDrainingRecv
      BY <3>2
      DEF QuicDoHandshake, HandshakeReturns, ReadBlocks, StreamRecvReturns,
          QuicStatemReadBytes, QuicStreamRecvNew, QuicPacketDrainingRecv
    <3>3. CASE QuicInitialRecv \/ QuicPacketRead
      BY <3>3 DEF QuicInitialRecv, QuicPacketRead, Opened, PacketFails, Shut
    <3>4. CASE \/ QuicFrameNewConnIdParser \/ QuicFrameRetireConnIdParser
               \/ QuicFrameConnCloseParser \/ QuicFrameHandshakeDoneParser
               \/ QuicFrameNewTokenParser \/ QuicFrameCryptoParser \/ OtherFrame
               \/ PacketDone \/ TlsError
      BY <3>4
      DEF QuicFrameNewConnIdParser, QuicFrameRetireConnIdParser, QuicFrameConnCloseParser,
          QuicFrameHandshakeDoneParser, QuicFrameNewTokenParser, QuicFrameCryptoParser,
          OtherFrame, PacketDone, TlsError, Frame
    <3> QED BY <1>1, <3>1, <3>2, <3>3, <3>4 DEF Next
  <2> QED BY <1>1, <2>1, <2>2
<1>2. ConnInv /\ [Next]_vars => [Revival]_vars
  BY <1>1
<1> HIDE DEF Revival
<1>3. Spec => [][Revival]_vars
  BY <1>2, Invariants, PTL DEF Spec
<1> QED BY <1>3 DEF Revival, RevivedOnlyByReading
=============================================================================
