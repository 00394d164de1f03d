---- MODULE Connection ----
(* One connection and what arrives for it: connection ids (connection.c), the   *)
(* headers of incoming packets (format.c), the state machine that dispatches    *)
(* them (statem*.c), the frame loop and the frames about ids and closing        *)
(* (frame.c).  `server' says which end it is.  Datagrams may come in any order, *)
(* late, repeated or not at all, and damaged.  Connection ids are model values  *)
(* and `Empty'; a key is the id the Initial keys come from, "hs" or "app", or   *)
(* "bad" for a damaged packet.  What TLS does with a CRYPTO frame is part of    *)
(* the frame (see Handshake), as are the results of frames about streams.       *)
EXTENDS Naturals, Sequences

CONSTANTS
  NoVal,
  Empty,        \* the connection id of length zero
  Random,       \* the id the client makes up for the server
  Fresh,        \* an id the server makes up for itself
  OwnLength,    \* ids of cid_len bytes
  ZeroToken,    \* a reset token of zeros
  Datagrams,    \* what may arrive at the server (TRUE) and at the client (FALSE)
  Limit         \* active_connection_id_limit of this end

ASSUME ConnectionAssumption == Limit \in Nat /\ Empty # NoVal

ElementsOf(seqs) == UNION { {q[i] : i \in 1..Len(q)} : q \in seqs }

PeerPackets == ElementsOf(UNION { Datagrams[s] : s \in BOOLEAN })

PeerFrames == ElementsOf({ p.frames : p \in PeerPackets })

(* Numbers are numbers.  Any frame may come in a packet of any type: the frame  *)
(* loop does not look at it.                                                    *)
ASSUME PeerAssumption ==
  /\ \A s \in BOOLEAN : Datagrams[s] \subseteq Seq(PeerPackets)
  /\ \A p \in PeerPackets :
       {"wf", "form"} \subseteq DOMAIN p /\ p.frames \in Seq(PeerFrames)
  /\ \A f \in PeerFrames :
       /\ f.type = "new_cid" => f.seq \in Nat /\ f.prior \in Nat
       /\ f.type = "retire_cid" => f.seq \in Nat

VARIABLES
  server,       \* quic_server
  state,        \* statem.state
  tls,          \* "start", "keys" (handshake keys are there), "done"
  freed,        \* the client has freed its handshake keys
  scid, scid_inited, dcid, dcid_inited,
  init_key,     \* the id the Initial keys were made from
  token,        \* token of a NEW_TOKEN frame
  pool, num,    \* conn.dcid: the queue, and its counter
  call,         \* what the application is in: "none", "handshake", "stream"
  last,         \* how it ended: "start", "again", "ok", "err"
  rest,         \* packets of the datagram that are not read yet
  cur,          \* the packet whose frames are parsed, or NoVal
  prior,        \* history: the largest retire_prior_to acted on
  given,        \* history: numbers of the ids that were added
  auth          \* history: source ids of packets that were decrypted

vars == <<server, state, tls, freed, scid, scid_inited, dcid, dcid_inited, init_key,
          token, pool, num, call, last, rest, cur, prior, given, auth>>
ids  == <<scid, scid_inited, dcid, dcid_inited, init_key>>
hist == <<prior, given, auth>>

Init ==
  /\ server \in BOOLEAN
  /\ state = "INITIAL" /\ tls = "start" /\ freed = FALSE
  /\ scid = Empty /\ scid_inited = FALSE /\ dcid = Empty /\ dcid_inited = FALSE
  /\ init_key = NoVal /\ token = NoVal
  /\ pool = <<>> /\ num = 0
  /\ call = "none" /\ last = "start" /\ rest = <<>> /\ cur = NoVal
  /\ prior = 0 /\ given = {} /\ auth = {}

-----------------------------------------------------------------------------
(* Pools of connection ids. *)

(* The ids this end gives to its peer: no call of QuicCidIssue fills it. *)
ScidPool == <<>>

(* It is counted by QuicCidIssue only, so it stays zero for the peer's ids. *)
max_seq == 0

QuicCidMatch(p, id) == \E i \in 1..Len(p) : p[i].id = id

QuicCidCmp(p, cid, id) == id = cid \/ QuicCidMatch(p, id)

(* The index of the entry with number seq, or zero. *)
QuicCidFind(p, seq) ==
  LET upto == {i \in 1..Len(p) : /\ p[i].seq = seq
                                 /\ \A j \in 1..i : p[j].seq <= seq}
  IN  IF seq >= max_seq \/ upto = {} THEN 0 ELSE CHOOSE i \in upto : \A j \in upto : i <= j

QuicCidRetire(p, seq) ==
  LET k == QuicCidFind(p, seq)
  IN  IF k = 0 THEN p ELSE SubSeq(p, 1, k - 1) \o SubSeq(p, k + 1, Len(p))

(* Fault: only the first id of the queue is looked at. *)
FaultRetirePriorTo(p, n) == IF p # <<>> /\ p[1].seq < n THEN Tail(p) ELSE p

(* Fault: the id the peer wants to keep first goes with the others. *)
FaultRetireOne(p, n) ==
  LET kept == {i \in 1..Len(p) : p[i].seq > n}
  IN  IF kept = {} THEN <<>>
      ELSE SubSeq(p, CHOOSE i \in kept : \A j \in kept : i <= j, Len(p))

(* From the head of the queue up to the first id that is not retired. *)
QuicCidRetirePriorTo(p, n) ==
  LET kept == {i \in 1..Len(p) : p[i].seq >= n}
  IN  IF kept = {} THEN <<>>
      ELSE SubSeq(p, CHOOSE i \in kept : \A j \in kept : i <= j, Len(p))

(* QuicTransParamGet never returns less than two. *)
ActiveCidLimit == IF Limit < 2 THEN 2 ELSE Limit

(* Fault: the counter may pass the limit. *)
FaultLimitCheck(n) == n > ActiveCidLimit

QuicActiveCidLimitCheck(n) == n >= ActiveCidLimit

-----------------------------------------------------------------------------
(* Calls of the application. *)

(* The work before reading: a client that starts makes an id for the server    *)
(* and the Initial keys, unless an earlier call did.                           *)
QuicClientInitialSend ==
  IF ~server /\ state = "INITIAL" /\ dcid = Empty
  THEN dcid' = Random /\ init_key' = Random /\ UNCHANGED <<scid, scid_inited, dcid_inited>>
  ELSE UNCHANGED ids

(* Called again only if it said that it wants to read. *)
QuicDoHandshake ==
  /\ call = "none" /\ last \in {"start", "again"}
  /\ call' = "handshake"
  /\ QuicClientInitialSend
  /\ UNCHANGED <<server, state, tls, freed, token, pool, num, last, rest, cur, hist>>

Idle == rest = <<>> /\ cur = NoVal

(* QuicStateMachineAct leaves its loop when the handshake is done. *)
HandshakeReturns ==
  /\ call = "handshake" /\ Idle /\ state = "HANDSHAKE_DONE"
  /\ call' = "none" /\ last' = "ok"
  /\ UNCHANGED <<server, state, tls, freed, ids, token, pool, num, rest, cur, hist>>

ReadBlocks ==
  /\ call = "handshake" /\ Idle /\ state # "HANDSHAKE_DONE"
  /\ call' = "none" /\ last' = "again"
  /\ UNCHANGED <<server, state, tls, freed, ids, token, pool, num, rest, cur, hist>>

QuicStatemReadBytes(d) ==
  /\ call = "handshake" /\ Idle /\ state # "HANDSHAKE_DONE"
  /\ rest' = d
  /\ UNCHANGED <<server, state, tls, freed, ids, token, pool, num, call, last, cur, hist>>

(* What this end takes for the end of the handshake: its TLS, or for a client  *)
(* a HANDSHAKE_DONE frame, which frees its handshake keys.                     *)
HandshakeOver == tls = "done" \/ (~server /\ freed)

(* Reading streams takes packets past the state machine, in every state, as    *)
(* soon as there are streams (TLS has its first messages) and the application  *)
(* was told that it is connected; it may go on after a packet that was refused.*)
QuicStreamRecvNew(d) ==
  /\ call = "none" /\ last \in {"ok", "err"} /\ tls # "start" /\ HandshakeOver
  /\ call' = "stream" /\ rest' = d
  /\ UNCHANGED <<server, state, tls, freed, ids, token, pool, num, last, cur, hist>>

StreamRecvReturns ==
  /\ call = "stream" /\ Idle
  /\ call' = "none" /\ last' = "ok"
  /\ UNCHANGED <<server, state, tls, freed, ids, token, pool, num, rest, cur, hist>>

-----------------------------------------------------------------------------
(* Headers. *)

IsLong(p) == p.form # "1rtt"

(* What the server fixes when it sees its first long header, before the packet *)
(* is known to be genuine.                                                     *)
QuicSrvrParseDcid(p) ==
  /\ init_key' = IF init_key = NoVal THEN p.dcid ELSE init_key
  /\ scid' = IF scid_inited THEN scid ELSE IF p.dcid \in OwnLength THEN p.dcid ELSE Fresh
  /\ scid_inited' = TRUE

SrvrDcidOk(p) == ~scid_inited \/ QuicCidCmp(ScidPool, scid, p.dcid)

QuicSrvrParseScid(p) ==
  IF SrvrDcidOk(p) /\ ~dcid_inited
  THEN dcid' = p.scid /\ dcid_inited' = TRUE
  ELSE UNCHANGED <<dcid, dcid_inited>>

(* A client has no id of its own.  It takes the id of the server from the      *)
(* first packet that turns out to be genuine; an empty one is not compared     *)
(* with, it is refused from then on.                                           *)
QuicClntParseDcid(p) == QuicCidCmp(ScidPool, scid, p.dcid)

QuicClntParseScid(p) == dcid # Empty /\ (dcid_inited => QuicCidCmp(pool, dcid, p.scid))

(* `wf': the version is ours and the lengths are allowed. *)
QuicLPacketHeaderParse(p) ==
  /\ p.wf
  /\ IF server THEN SrvrDcidOk(p) /\ (dcid_inited => QuicCidCmp(pool, dcid, p.scid))
               ELSE QuicClntParseDcid(p) /\ QuicClntParseScid(p)

QuicSPacketHeaderParse(p) == scid = Empty \/ QuicCidCmp(ScidPool, scid, p.dcid)

QuicPktHeaderParse(p) ==
  IF IsLong(p) THEN QuicLPacketHeaderParse(p) ELSE QuicSPacketHeaderParse(p)

(* Fault: the client takes the id before it has decrypted the packet. *)
FaultHeaderEffect(p) ==
  IF server /\ IsLong(p) /\ p.wf THEN QuicSrvrParseDcid(p) /\ QuicSrvrParseScid(p)
  ELSE IF ~server /\ IsLong(p) /\ ~dcid_inited
  THEN dcid' = p.scid /\ dcid_inited' = TRUE /\ UNCHANGED <<scid, scid_inited, init_key>>
  ELSE UNCHANGED ids

HeaderEffect(p) ==
  IF server /\ IsLong(p) /\ p.wf THEN QuicSrvrParseDcid(p) /\ QuicSrvrParseScid(p)
                                 ELSE UNCHANGED ids

QuicTokenVerify(p) == p.token = NoVal \/ (token # NoVal /\ p.token = token)

(* Whether the packet can be opened.  The bodies of the last two are not read. *)
QuicPktBodyParse(p) ==
  CASE p.form = "initial"   -> /\ QuicTokenVerify(p)
                               /\ p.key = IF init_key = NoVal THEN p.dcid ELSE init_key
    [] p.form = "handshake" -> p.key = "hs" /\ tls # "start" /\ ~freed
    [] p.form = "1rtt"      -> p.key = "app" /\ tls = "done"
    [] OTHER                -> TRUE

-----------------------------------------------------------------------------
(* Packets.  Head(rest) is the packet at hand until all its frames are parsed; *)
(* `shut' keeps whether the connection was closed before it came.              *)

Shut == {"DRAINING", "CLOSED"}

(* A client never reads the token among the transport parameters, so it        *)
(* compares with zeros.                                                        *)
QuicCheckStatelessResetToken(p, tok) ==
  /\ tok # NoVal
  /\ \/ ~server /\ tok = ZeroToken
     \/ \E i \in 1..Len(p) : p[i].token = tok

(* Fault: a reset is not reported to the caller. *)
FaultPacketFails(via, p, tok) ==
  /\ state' = IF via = "packet" /\ QuicCheckStatelessResetToken(p, tok)
              THEN "CLOSED" ELSE state
  /\ rest' = <<>> /\ cur' = NoVal /\ UNCHANGED <<call, last>>

(* The call fails; the rest of the datagram is not read.  QuicPacketRead looks *)
(* whether the packet was a reset.                                             *)
PacketFails(via, p, tok) ==
  /\ state' = IF via = "packet" /\ QuicCheckStatelessResetToken(p, tok)
              THEN "CLOSED" ELSE state
  /\ rest' = <<>> /\ cur' = NoVal /\ call' = "none" /\ last' = "err"

(* Fault: the client goes on taking the id of the server from packets. *)
FaultOpened(p, via) ==
  /\ cur' = [frames |-> IF p.form \in {"0rtt", "retry"} THEN <<>> ELSE p.frames,
             crypto |-> NoVal, via |-> via, shut |-> state \in Shut,
             update |-> ~server /\ IsLong(p)]
  /\ auth' = IF p.form \in {"initial", "handshake"} THEN auth \cup {p.scid} ELSE auth
  /\ UNCHANGED <<state, rest, call, last>>

Opened(p, via) ==
  /\ cur' = [frames |-> IF p.form \in {"0rtt", "retry"} THEN <<>> ELSE p.frames,
             crypto |-> NoVal, via |-> via, shut |-> state \in Shut,
             update |-> ~server /\ IsLong(p) /\ ~dcid_inited]
  /\ auth' = IF p.form \in {"initial", "handshake"} THEN auth \cup {p.scid} ELSE auth
  /\ UNCHANGED <<state, rest, call, last>>

QuicInitialRecv ==
  LET p == Head(rest)
  IN  /\ call = "handshake" /\ state = "INITIAL" /\ rest # <<>> /\ cur = NoVal
      /\ IF p.form # "initial" THEN UNCHANGED ids ELSE HeaderEffect(p)
      /\ IF p.form = "initial" /\ QuicLPacketHeaderParse(p) /\ QuicPktBodyParse(p)
         THEN Opened(p, "initial")
         ELSE PacketFails("initial", pool, p.last) /\ UNCHANGED auth
      /\ UNCHANGED <<server, tls, freed, token, pool, num, prior, given>>

(* Fault: a draining connection reads on. *)
FaultReads(st) == st \in {"HANDSHAKE", "HANDSHAKE_DONE", "DRAINING"}

(* The states whose handler in the state machine is QuicPacketRead. *)
Reads(st) == st \in {"HANDSHAKE", "HANDSHAKE_DONE"}

QuicPacketRead ==
  LET p == Head(rest)
  IN  /\ rest # <<>> /\ cur = NoVal
      /\ call = "stream" \/ (call = "handshake" /\ Reads(state))
      /\ HeaderEffect(p)
      /\ IF QuicPktHeaderParse(p) /\ QuicPktBodyParse(p)
         THEN Opened(p, "packet")
         ELSE PacketFails("packet", pool, p.last) /\ UNCHANGED auth
      /\ UNCHANGED <<server, tls, freed, token, pool, num, prior, given>>

(* The handler of a draining connection, once for every byte. *)
QuicPacketDrainingRecv ==
  /\ call = "handshake" /\ state = "DRAINING" /\ rest # <<>> /\ cur = NoVal
  /\ rest' = <<>>
  /\ UNCHANGED <<server, state, tls, freed, ids, token, pool, num, call, last, cur, hist>>

-----------------------------------------------------------------------------
(* Frames. *)

Frame(type) == cur # NoVal /\ cur.frames # <<>> /\ Head(cur.frames).type = type

Parsed == cur' = [cur EXCEPT !.frames = Tail(@)] /\ UNCHANGED <<rest, call, last>>

QuicFrameNewConnIdParser ==
  LET f == Head(cur.frames)
      p == QuicCidRetirePriorTo(pool, f.prior)
      n == num - (Len(pool) - Len(p))
  IN  /\ Frame("new_cid")
      /\ IF dcid = Empty
         THEN UNCHANGED <<pool, num, prior, given>> /\ PacketFails(cur.via, pool, Head(rest).last)
         ELSE /\ prior' = IF f.prior > prior THEN f.prior ELSE prior
              /\ IF QuicActiveCidLimitCheck(n) \/ ~f.whole
                 THEN /\ pool' = p /\ num' = n /\ UNCHANGED given
                      /\ PacketFails(cur.via, p, Head(rest).last)
                 ELSE /\ pool' = Append(p, [seq |-> f.seq, id |-> f.id, token |-> f.token,
                                            late |-> f.seq < prior'])
                      /\ num' = n + 1 /\ given' = given \cup {f.seq}
                      /\ Parsed /\ UNCHANGED state
      /\ UNCHANGED <<server, tls, freed, ids, token, auth>>

QuicFrameRetireConnIdParser ==
  /\ Frame("retire_cid")
  /\ pool' = QuicCidRetire(pool, Head(cur.frames).seq)
  /\ num' = num - (Len(pool) - Len(pool'))
  /\ Parsed
  /\ UNCHANGED <<server, state, tls, freed, ids, token, hist>>

QuicFrameConnCloseParser ==
  /\ Frame("close")
  /\ state' = "DRAINING"
  /\ Parsed
  /\ UNCHANGED <<server, tls, freed, ids, token, pool, num, hist>>

QuicFrameHandshakeDoneParser ==
  /\ Frame("done")
  /\ IF server THEN UNCHANGED <<state, freed>> ELSE state' = "HANDSHAKE_DONE" /\ freed' = TRUE
  /\ Parsed
  /\ UNCHANGED <<server, tls, ids, token, pool, num, hist>>

QuicFrameNewTokenParser ==
  /\ Frame("new_token")
  /\ IF server THEN PacketFails(cur.via, pool, Head(rest).last) /\ UNCHANGED token
     ELSE token' = Head(cur.frames).token /\ Parsed /\ UNCHANGED state
  /\ UNCHANGED <<server, tls, freed, ids, pool, num, hist>>

(* The data are only stored; TLS runs when all frames are parsed. *)
QuicFrameCryptoParser ==
  /\ Frame("crypto")
  /\ cur' = [cur EXCEPT !.frames = Tail(@), !.crypto = Head(cur.frames).tls]
  /\ UNCHANGED <<server, state, tls, freed, ids, token, pool, num, call, last, rest, hist>>

(* Frames about streams and acknowledgements, and types that are not known. *)
OtherFrame ==
  /\ Frame("other")
  /\ IF Head(cur.frames).ok THEN Parsed /\ UNCHANGED state
     ELSE PacketFails(cur.via, pool, Head(rest).last)
  /\ UNCHANGED <<server, tls, freed, ids, token, pool, num, hist>>

(* Fault: a CRYPTO frame ends the handshake whatever TLS says. *)
FaultAfterFrames(t) == IF cur.crypto # NoVal THEN "HANDSHAKE_DONE" ELSE state

(* The end of the frame loop: the state after TLS has gone to t. *)
AfterFrames(t) ==
  IF cur.crypto # NoVal /\ t = "done" THEN "HANDSHAKE_DONE" ELSE state

TlsFails == cur.crypto = "fail" /\ tls # "done"

TlsAfter ==
  IF cur.crypto # "advance" THEN tls ELSE IF tls = "start" THEN "keys" ELSE "done"

QuicUpdateDcid(p) ==
  dcid' = p.scid /\ dcid_inited' = (dcid_inited \/ p.form = "initial")

(* The packet is read: the id it brought is taken; the handler of INITIAL sets *)
(* the next state whatever the frames did.  A body that was not read is taken  *)
(* for the next packet of the datagram.                                        *)
PacketDone ==
  LET p == Head(rest)
  IN  /\ cur # NoVal /\ cur.frames = <<>> /\ ~TlsFails
      /\ tls' = TlsAfter
      /\ state' = IF cur.via = "initial" THEN "HANDSHAKE" ELSE AfterFrames(TlsAfter)
      /\ IF cur.update THEN QuicUpdateDcid(p) ELSE UNCHANGED <<dcid, dcid_inited>>
      /\ rest' = IF p.form \in {"0rtt", "retry"}
                 THEN << [p EXCEPT !.form = "handshake", !.wf = FALSE] >> ELSE Tail(rest)
      /\ cur' = NoVal
      /\ UNCHANGED <<server, freed, scid, scid_inited, init_key, token, pool, num, call,
                     last, hist>>

TlsError ==
  /\ cur # NoVal /\ cur.frames = <<>> /\ TlsFails
  /\ PacketFails(cur.via, pool, Head(rest).last)
  /\ UNCHANGED <<server, tls, freed, ids, token, pool, num, hist>>

Next ==
  \/ QuicDoHandshake \/ HandshakeReturns \/ ReadBlocks \/ StreamRecvReturns
  \/ \E d \in Datagrams[server] : QuicStatemReadBytes(d) \/ QuicStreamRecvNew(d)
  \/ QuicInitialRecv \/ QuicPacketRead \/ QuicPacketDrainingRecv
  \/ QuicFrameNewConnIdParser \/ QuicFrameRetireConnIdParser
  \/ QuicFrameConnCloseParser \/ QuicFrameHandshakeDoneParser
  \/ QuicFrameNewTokenParser \/ QuicFrameCryptoParser \/ OtherFrame
  \/ PacketDone \/ TlsError

Spec == Init /\ [][Next]_vars

-----------------------------------------------------------------------------
(* Properties. *)

(* However often NEW_CONNECTION_ID frames are repeated, overtake each other or *)
(* fail half way, the queue of the peer's ids and its counter agree and stay   *)
(* within the limit (QuicActiveCidLimitCheck, QuicFrameNewConnIdParser).       *)
PoolWithinLimit == num = Len(pool) /\ num <= ActiveCidLimit

(* An id the peer has retired is still in the queue only if its frame came     *)
(* after the one that retired it or an id that stays stands in front of it:    *)
(* QuicCidRetirePriorTo stops there, and ids stand in the order of arrival.    *)
RetiredUnlessOvertaken ==
  \A i \in 1..Len(pool) : pool[i].seq < prior =>
    pool[i].late \/ \E j \in 1..(i - 1) : pool[j].seq >= prior

(* No id is lost that the peer has not retired, although the frame that was to *)
(* add the next one may fail after the retirement.                             *)
KeptUntilRetired ==
  \A s \in given : s >= prior => \E i \in 1..Len(pool) : pool[i].seq = s

(* The client sends to an id only after a packet with it was decrypted: what   *)
(* a damaged or foreign header carries is never taken over (QuicPacketRead     *)
(* updates the id after the body is parsed).                                   *)
PeerIdAuthentic == ~server /\ dcid_inited => dcid \in auth

(* Once known, the ids and the Initial keys of a connection never change,      *)
(* whatever source ids later packets carry (QuicUpdateDcid, QuicSrvrParseDcid).*)
IdsStable ==
  [][ /\ dcid_inited => dcid' = dcid /\ dcid_inited'
      /\ scid_inited => scid' = scid /\ scid_inited'
      /\ init_key # NoVal => init_key' = init_key ]_vars

(* The state machine of QuicDoHandshake never meets the state it has no        *)
(* handler for, although a packet may be taken for a stateless reset during    *)
(* the handshake (client_statem, server_statem have no CLOSED).                *)
HandlerExists == call = "handshake" => state # "CLOSED"

(* A server is established, and so told to the application, only when its TLS  *)
(* is done, whatever late CRYPTO and HANDSHAKE_DONE frames arrive; a client    *)
(* only then or after a HANDSHAKE_DONE frame, which it believes in a packet of *)
(* any type and in every state of its TLS.                                     *)
EstablishedHasCause == state = "HANDSHAKE_DONE" \/ last = "ok" => HandshakeOver

(* A connection that was closed before a packet came is revived by it only     *)
(* through the reading of streams, which bypasses the state machine, and only  *)
(* if its handshake was over.  (Inside the packet that closes it a later       *)
(* HANDSHAKE_DONE or CRYPTO frame does so too, and the handler of INITIAL.)    *)
RevivedOnlyByReading ==
  [][ (state \in Shut /\ state' \notin Shut) =>
        (call = "stream" /\ HandshakeOver) \/ (cur # NoVal /\ ~cur.shut) ]_vars
====
