# A TLA+ verification of tbquic

tbquic is a QUIC transport library in C (`quic/`, with a TLS 1.3 handshake of its
own in `quic/tls/` over OpenSSL primitives).  This directory models the parts of it
that keep state and decide, checks them with TLC on small instances and proves the
most important properties with TLAPS for every value of the parameters.

## The system

A connection (`QUIC`) is used by one thread.  The application calls the API; a call
that needs data reads one datagram and parses its packets and frames before it goes
on.  There are no locks: what interleaves is the order of calls, the order in which
frames arrive inside a call, and the network between two endpoints.

| Part | State | Operations | Hard behaviour |
|---|---|---|---|
| Stream table (`stream.c`) | per id: receiving and sending state, notified bit, byte counts, read offset, segment list; allocation counters, highest id seen | open, lookup, data add, read | lookups open ranges of streams; segments arrive in any order and overlap; partial reads |
| Message queue (`stream.c`, `frame.c`) | ids with news | add by the STREAM parser, walk by `QuicStreamReadV` | lost or duplicate wakeups |
| Frame parsers (`frame.c`) | through the other parts | one per frame type, called by `QuicFrameDoParser` | early returns after half of the work, late and repeated frames |
| Flow control (`stream.c`) | bytes sent and received, credits | checked when data is queued and when a packet is written | truncating comparisons, credit that overtakes data |
| Transmit path (`frame.c`, `core.c`, `quic_lib.c`) | `tx_queue`, per space `sent_queue` | build frames, write packets | a write that fails leaves the queue half done |
| Packet numbers, ACK (`format.c`, `frame.c`, `q_buff.c`) | `pkt_num`, `largest_pn`, `largest_ack`, `largest_acked` | encode, decode, acknowledge, free | loss, reordering, wrapping numbers |
| Headers and coalescing (`format.c`, `packet.c`, `core.c`) | own and peer's id, Initial keys, token, what is left of a datagram; the send buffer | parse, verify, open; size, coalesce, pad, write | headers that act before the packet is known to be genuine; sizes estimated in one place and used in another |
| Connection ids (`connection.c`, `frame.c`) | pool of the peer's ids with its counter | add, retire, match, reset token | frames out of order or cut short, the active limit |
| Connection state (`statem*.c`) | `statem.state`, `rwstate` | `QuicDoHandshake`, one handler per state, reading past the state machine | close and handshake frames in any order |
| TLS handshake (`tls/`) | `handshake_state`, handshake buffer, keys per space | flow tables for both roles | flights split, repeated and out of order |
| TLS extensions, transport parameters (`tls/extension*.c`, `transport.c`) | the TLS record: groups, key share, PSK, ALPN, parameters | construct and parse tables per message | what one extension leaves behind for another |
| Sessions and tickets (`session.c`, `asn1.c`, `quic_lib.c`) | reference counts, tickets with age and key, session pointer of a connection | take, set, free, store, offer, verify | sharing between connections, expiry, a restarted server |
| Dispenser (`dispenser.c`) | list of connections, one datagram buffer each | dispense, read, free | datagrams of several clients on one socket |
| Ciphers, certificates, memory | none a model would check | OpenSSL, libc | - |

What makes each part correct: the reader of a stream gets its bytes in order, once,
and is woken for them; the sender stays within the credit and leaves no hole; ids are
never reused; an ACK frees exactly what arrived; packet numbers survive truncation;
both ends of a handshake agree, resumed or not; the ids of a connection come from genuine
packets and stay; retired ids are gone and others kept; a datagram fits and keeps what it
must carry; what is shared is released once; a datagram reaches one connection.
`PROJECT.json` lists the places where this is hard to test under `hazards`.

## Modules

| Module | Models |
|---|---|
| `Common` | the comparison macros of `common.h`, with the truncation to `int`; `IntMod` stands for 2^32 |
| `StreamId` | stream identifiers and the size of the stream table |
| `Stream` | the stream layer of one endpoint: table, reading calls, message queue, frame parsers, sending, flow control |
| `StreamMC` | instances of `Stream` for TLC |
| `PacketSpace` | one direction of a packet number space: a sender, a receiver, a network that loses, repeats and reorders |
| `Handshake` | the TLS handshake of a client and a server over datagrams: connection state machine, flow tables, handshake buffer, transcript, keys |
| `HandshakeOrder` | the abstract specification of a handshake: who may hold keys and be done, and when |
| `HandshakeMC` | instances of `Handshake` for TLC |
| `Connection` | one connection and what arrives for it: headers, ids, the state machine, the frame loop, closing |
| `ConnectionMC` | the datagrams TLC sends it |
| `Extensions` | the extensions of the hellos, tickets and transport parameters, as operators on a TLS record |
| `Resumption` | sessions and tickets over several connections and a restart of the server; extends `Extensions` |
| `ResumptionMC` | an instance with two generations of a server |
| `SendPath` | the way out: sizes, queue, coalescing, padding, a socket that refuses |
| `SendPathMC` | an instance at the smallest datagram size |
| `Dispenser` | one socket for all connections of a server |
| `StreamProofs`, `PacketProofs`, `HandshakeProofs`, `ConnectionProofs`, `ResumptionProofs`, `SendPathProofs`, `DispenserProofs` | the theorems of each part and what they rest on |
| `NumberProofs` | what they share: least elements, counting up a finite set, sums, and the cast behind the comparison macros |

The parts meet as follows.  A datagram comes through `Dispenser` to a connection;
`Connection` parses it, and its CRYPTO frames go to `Handshake`, its stream frames to
`Stream`, its packet number and ACK frames to `PacketSpace`.  What they queue leaves through
`SendPath`.  `Handshake` runs the messages whose content `Extensions` and `Resumption`
describe.  Each module abstracts its neighbours to the results they can give: a CRYPTO
frame of `Connection`, for instance, carries what TLS makes of it.

Operators whose comment begins with "Fault:" are not part of the model.  Each is a
small change of the definition that follows it, the kind of slip that code invites;
with it in place the property named in `PROJECT.json` must fail, which shows that the
property depends on that line of code.

### `Stream`

The variables are the fields of `QuicStreamInstance` (functions on `Ids`) and of
`QuicStreamConf`, the peer's limits that MAX_* frames raise, the 1-RTT transmit queue,
and the call in progress.  Two abstractions of data: a byte is its position in the
stream it was written to, so a queued segment is `[offset, len, pos]` where `offset`
is the C field and `pos` says which bytes its data pointer really points at; `app`
records the positions handed to the application.  `app`, `fin_told`, `written`,
`recounted` and `lost` are history variables that no guard reads.

The thread's place in a call is `pc`; a call's loops take one step per iteration.

| `pc` | Where |
|---|---|
| `idle` | no call |
| `read`, `reread` | the first and second `QuicStreamReadData` of `QuicStreamRecv` |
| `recv_new`, `readv_new` | inside `QuicStreamRecvNew`: frames arrive here and only here |
| `readv`, `readv_read` | the loop of `QuicStreamReadV`; its `QuicStreamReadData` |
| `send` | the loop of `QuicSendPacket` |

Each frame parser is one action with its lookup, its early returns and everything it
changes: a STREAM frame, for instance, opens streams, moves both states, cuts the
overlap, checks and counts against the limits, appends the segment, perhaps completes
the stream, and queues a message.  A parser that fails makes the call return -1
(`FrameRejected`, `QuicFrameStreamTruncated`).  `QuicWritePkt` may be the last step of
a call because without `fd_mode` one packet is sent per call and because `write_bytes`
may fail after the buffer has left the queue.  `QuicBuildFails` is the turn of its loop in
which flow control has counted the bytes and the packet cannot be built (`core.c:80-90`): the
buffer stays at the head, and `recounted` notes what the next turn will count a second time.
Buffers that carry only an ACK are not
in `tx_queue`: they hold no stream bytes, are never blocked, and belong to
`PacketSpace`.  RESET flags told to the application are left out, and FIN is never
sent because `QuicStreamFrameBuild` passes constant flags.

### `PacketSpace`

`QuicPacketBuild` numbers packets and truncates the number to the field;
`QuicDecryptPacket` reconstructs it, updates `largest_pn` and, after the frames,
acknowledges; `QuicFrameAckParser` frees buffers.  Packets and ACKs stay on the network
and may be taken again, or never; `InTime` limits how far a packet may be overtaken, and
nothing limits losses.  A number that is read wrongly does not make a packet fail: the nonce
is made from the truncated number at both ends (`format.c:683`, `format.c:1142`), so the
model takes the packet as the code does.  The runs scale the field and `int` down together
(`PnBits`, `IntMod`), keeping `PnLimit` a multiple of `IntMod` as 2^62 is of 2^32,
which matters to what the comparison computes.

### `Handshake`

Two endpoints run `QuicStateMachineAct` and exchange datagrams.  Everything is a function
of the endpoint; `client_proc` and `server_proc` are the tables of the code without the
rows no state leads to, and `TlsState` keeps the numbers of the enum because the test for
repeated messages compares them.  A call is at `pre` (pre_work), `send`
(`QuicSendPacket`), `read` (`QuicReadStateMachine`), `tls` (inside `TlsHandshake`, one step
per message) or `aborted` (the assertion); `phase` says which half of the turn sends, `ok`
what that half returned, `ret` what the TLS flow did.

What decides here is a buffer both directions share, so it is modelled byte for byte in
units: `mem` is a sequence of cells, each a unit of some message, `reserved`, `data_len` and
`offset` are the fields of `QUIC_BUFFER`.  CRYPTO frames are copied in at their offset, the
messages of a flight are written at the head, and a flight is cut into packets of `Mss`
units from the head.  A transcript is the sequence of units digested, each with the type of
its message and its place in it, so that bytes that are no message leave their trace too; a
key is the transcript it is derived from (the Initial keys one of the connection id), a
Finished or CertificateVerify carries the transcript it proves, and a packet can be read by
an end that holds its key.  Packet numbers are kept per space because they decide whether an
acknowledgement is queued, and that decides much: it ends a turn of the other side.

Datagrams may overtake each other (`Reorder`; one never taken is lost) and be repeated
(`MaxDups`).  A socket blocks or reports that it would.  Left out: the negotiation inside
the hellos (`Extensions`), verification of the certificate chain, failing writes
(`SendPath`), and the server behind a dispenser.

The transitions were compared with the program built against OpenSSL, two processes over
datagram sockets with a relay between them: the handshake that fails in order, the ones
that complete when the relay delays the first acknowledgement or repeats the ClientHello,
the client that calls twice and the failing assertion all end in the states of the model.

### `Connection`

`server` says which end it is.  A call of the application is `handshake` (`QuicDoHandshake`,
which goes through the state machine) or `stream` (`QuicStreamRecvNew`, which calls
`QuicPacketRead` in every state).  `rest` holds the packets of the datagram that are not
read, `cur` the packet whose frames are parsed; each frame is a step, so that a packet that
fails in its third frame leaves what the first two did, and the id of the server is taken
when all are done.  A packet of `Datagrams` is a header, the key it was sealed with and its
frames; a damaged one has the key "bad".  A long header acts on a server before the packet
is opened (`HeaderEffect`).  `prior`, `given`, `auth`, `late` and `cur.shut` are history.
What the code does and one might not expect, all of it in the model: HANDSHAKE_DONE sets the
state whatever it was (`frame.c:792`), the handler of INITIAL overwrites what the frames of
its packet did (`statem_clnt.c:70`), RETIRE_CONNECTION_ID never finds an id because `max_seq`
counts own ids only (`connection.c:98`), retiring stops at the first id that stays
(`connection.c:150`), the client compares reset tokens with a zeroed one
(`connection.c:196`), the server fixes its ids and Initial keys from the first long
header (`format.c:1332`), and a server id of length zero makes the client refuse every
later long packet (`format.c:1261`).

### `Extensions` and `Resumption`

A constructor takes what one end knows and gives the extension, or nothing, as a sequence;
a parser takes the record of one end and gives the changed one.  `ClientHelloExt` and its
siblings are the tables of constructors, and the tables of parsers are the parsers applied one
after the other in the order of the code, because what one extension finds depends on those
before it.  A secret is the record of what it is derived from, so two ends
share one only if they derived it from the same inputs.  `Resumption` runs hellos,
EncryptedExtensions, Finished and session tickets of overlapping connections of one client;
messages of a connection arrive in order.  Sessions are objects with a reference count that
connections and handles of the application (`held`) own; a ticket is sealed by a generation
of the server, which a restart replaces together with its cipher list.

### `SendPath`

`tx_queue` holds the type, length and purpose of each buffer; every length is computed as
the code computes it, where it computes it, with the id length of that moment: buffers are
sized with the peer's first id and written with its last.  `QuicWritePkt` takes packets off
the queue until one does not fit, has no credit or cannot be built, pads, and hands the
datagram to a socket that may refuse it; without `fd_mode` one datagram leaves per call.  A
packet can be built if there is room for it (`Fits`) and its number and payload hold the
sample that the header's mask is made from (`Sampled`, `format.c:397`).  Flow control queues
a DATA_BLOCKED or STREAM_DATA_BLOCKED frame (`Notices`) behind what it refuses.

### `Dispenser`

`QuicDoDispense` receives one datagram, looks its source address up and stores it with the
connection, new or old; `QuicDispenserReadBytes` hands it to a call.  `QuicDispenserFindByCid`
always fails, so a client that moves becomes a new connection.  When the socket is empty
`QuicFree` is called with a null pointer (`dispenser.c:148`, `quic_lib.c:403`):
`DispenseFails` ends the run of the program there, and the properties hold up to that point.

## Runs

| Run | Checks | Bounds |
|---|---|---|
| `StreamRecv` | types, in-order delivery, byte accounting, FIN, states, the stalled list | a three-byte stream, frames of 0 to 2 bytes at every offset, two segments queued, two messages; enough for a gap, an overlap, a repeat, a partial read and a limit to be hit |
| `StreamNotify` | no lost wakeup, messages are found, every call returns | two streams of two bytes, one opened by the peer and one by this end, one-byte frames and buffers, so that buffers fill and messages repeat; a call sends two packets and there is credit for one, so that the loop of `QuicSendPacket` writes, is held back and fails |
| `StreamSend` | credit, conservation, offsets, ids | one bidirectional and one unidirectional stream, sends of 0, 1 and 3 bytes with packets of 2, credits 2 and 4 around the initial ones |
| `PacketNumbers` | what ACKs free, the encoder's assertion, what a truncated number is read as, monotone ACKs | nine packets over a window of eight, any of them lost, any order within two; the packet that wraps may hold nothing but an ACK |
| `HandshakeFaults` | handshake and application keys, refinement of `HandshakeOrder`, every call returns | ends that do not block, full and resumed, packets that cut every message, any order, loss, one repetition in each direction |
| `Connection` | pool and limit, retirement, authentic and stable ids, the state machine | both ends; every packet type with every frame, damaged copies, other ids, coalesced packets, in any order and any number; four ids with a limit of three, so that a frame meets a full pool |
| `Resumption` | reference counts, equal secrets, offers that verify, tickets of the running server only, parameters arrive | three connections, two open at once, one restart with either the same or other ciphers, one tick for the lifetime of a ticket, one handle per session: each kind of ticket meets each kind of server |
| `SendPath` | sizes, padding, CRYPTO data survive, flights leave | the smallest `mss` that leaves room, ids that shrink from 8 bytes to 0 or grow to 20, three packets in the queue: enough for all three spaces in one datagram, or a full datagram with a packet that waits; payloads of 2 and 3 bytes with a packet number of one byte, the default, one too short for the sample and one just long enough, and full buffers |
| `Dispenser` | one connection per address, own datagrams in order | two addresses, four connections, six datagrams: a connection is freed and made again while datagrams of both wait |

Three runs show where the code does not do what it says; `findings` in `PROJECT.json`
quotes the lines.

| Run | Shows |
|---|---|
| `StreamBreak` | a partly read segment keeps its offset and is then "out of order" for ever |
| `StreamFlags` | one stream's FIN is reported for the next stream of a `QuicStreamReadV` |
| `HandshakeStale` | in order, the acknowledgement of the ServerHello makes the server read its own flight and fail |

Seen while modelling, and without a run of their own:

- a read into an empty buffer fails the assertion on `copy_bytes` (`stream.c:402`);
- a repeated ServerHello inside a half read flight fails the assertion on `data_len`
  (`tls.c:279`); `HandshakeFaults` reaches it as `pc = "aborted"`;
- a packet that ends where a handshake message does resets the offset, and the next one is
  dropped as a repetition with the new messages in it (`tls.c:291`);
- the branch of `QuicPktNumberDecode` for a number above the next window boundary is dead,
  because 2^62 is truncated to `int` (`format.c:366`), although the comment above it says that
  the code "makes sure it's within the packet number window" (`format.c:360-361`).  The packet
  that goes past a multiple of the window before the expected number does is read as one a
  whole window older; this takes one lost packet, the last before the wrap, and from then on
  every number is read too small for good.  The ACKs name those numbers and free buffers that
  may never have arrived.  `DecodedIsFull` and `FreedWasTaken` say what is left: no packet is
  read as a later one, and a buffer is freed only after an arrival with its truncated number,
  its own or a later one's;
- a packet more than half a window late is acknowledged as a number not yet sent, and the
  next packet built fails the assertion at `format.c:310`; `MaxLag` stays below that;
- the check at `format.c:322` compares octets with bits and refuses nothing;
- an ACK names only the newest packet (`frame.c:880`), so a buffer overtaken before it was
  acknowledged stays queued as sent;
- a second call of a client whose first came back before a packet did runs pre_work again,
  with nothing to write: it reserves an empty buffer and so drops the ClientHello from its
  transcript (`statem_clnt.c:56`); `HandshakeKeysAgree` fails with two calls of the client,
  which is why `MaxCalls` is one in `HandshakeFaults`;
- `key_share` is offered for the first group only, so a server that prefers another one
  accepted by the client still takes the first;
- `QUIC_set_session` stores a session without taking a reference and tests its argument the
  wrong way round (`quic_lib.c:518`); `RefsCountOwners` holds because the model's
  application hands over a reference of its own, as the example client does;
- a session found by a ticket of another digest stays set, and the handshake fails instead
  of going on without it (`extension_srvr.c:669-671`); its cipher is whatever connection used
  it last (`session.c:166`);
- a client never reads the server's reset token among the parameters (`extension.c:292`), and
  `active_connection_id_limit` is in neither table, so it is always two or the local value;
- below an `mss` of 1209 bytes the padding of an Initial datagram may not fit, because the
  length field grows by a byte and the peer's id may have shrunk by eight
  (`test/packet_message.c:229` uses 1200); above it the datagram has 1200 or 1201 bytes;
- the bytes of a packet are counted before it is built (`core.c:80-90`).  One that cannot be
  built, because the 1-RTT keys are not there yet or the cipher fails, is counted again by
  every retry, which uses up credit and moves the offset of the frames built later, so that the
  peer waits for bytes that do not exist;
- with the default packet number of one byte a payload of less than three bytes is refused for
  want of a sample (`format.c:397`), and nothing pads it: a DATA_BLOCKED frame with a limit
  below 64 is such a payload, stays at the head of the queue and blocks what is behind it;
- the frame loop does not look at the type of the packet (`frame.c:156-214`), so a
  HANDSHAKE_DONE in an Initial packet, whose keys follow from its header, ends the handshake of
  a client whose TLS has not begun (`frame.c:787-797`); `EstablishedHasCause` names this cause;
- `QuicWritePkt` forgets the packets it took off the queue before one that is refused
  (`core.c:80`); `BlockedLosesNoCrypto` shows that only stream data can be lost so, unless
  early data are queued behind an unfinished flight;
- a read through the dispenser that finds nothing leaves `rwstate` alone
  (`dispenser.c:70`), and a datagram stored twice overwrites the first;
- reading streams queues acknowledgements but does not send them (`stream.c:442`).

Together with `StalledHeadStays`, which holds, `StreamBreak` describes the limits of
the reader: what is delivered is always right, but after a reordering or a read that
ends inside a segment the stream delivers nothing more.

Fairness: `Spec` of `Stream` has `WF_vars(Work)`, weak fairness of the steps a thread
takes inside a call without waiting.  The library has no blocking points there, so
this only says that the thread keeps running.  Nothing is assumed of the network or of
the application.  `Spec` of `Handshake` has `WF_vars(Run(e))` for the same reason: a thread
inside a call keeps running, and a socket that does not block answers.  That a handshake
completes is not claimed: there is no retransmission, and `HandshakeStale` shows that it
fails where nothing is lost.  `FairSpec` of `SendPath` adds that an application which is told
to write during the handshake calls again, which `QUIC_get_error` asks of it, and that a call
goes on; nothing is assumed of the socket, because the packets of a datagram that it refuses
leave the queue like those of one that it takes.  `PacketSpace`,
`Connection`, `Resumption` and `Dispenser` state no liveness: there is no retransmission, and
whether a call is made is up to the application.

The constants `MaxQueue`, `MaxMsgs`, `MaxTx`, `MaxPackets`, `MaxLag`, `MaxDups`,
`MaxCalls`, `MaxTime`, `MaxHeld`, `MaxOpen`, `MaxConns` and `MaxArrivals` bound what the code
leaves unbounded; they appear only in guards.  `Connection` needs none: its state is finite
because the set of datagrams and the pool are.  Runs that switch the deadlock check off end
where the bounds, the application or a failed call leave nothing to do.

## Proofs

`TypeCorrect` (`StreamProofs`): `Spec => []TypeOK`, one lemma per action.  Besides the
types, `CallType` says that a read never copies past the caller's buffer and that
`QuicStreamReadV` reads the stream of the message at the head of the queue; the second
is what lets a removed message be tied to its stream.

`ReadsInOrder` (`StreamProofs`): `Spec => []DeliveredIsPrefix`.  The property is not
inductive: a segment cut by a partial read has `pos # offset`.  `ReadInv` adds that the
number of bytes delivered equals the read offset, and `UncutOrPassed`: a segment either
still says where its bytes belong or has an offset behind the read offset, where the
reader never looks again.  Only the STREAM parser and `ReadSegment` touch these
variables (`ReadFrame`).

`WakeupsAreKept` and `MessagesFound` (`StreamProofs`): `Spec => []NoLostWakeup` and
`Spec => []MessagesAreFound`.  `WakeInv` adds `BreakMeansFull`: the reading loop stops
with data left only when the buffer is full, and then `QuicStreamReadV` keeps the
message.  A stream found once is found for ever because no action returns a sending
state to START (`SendStateKept`).

`StalledListStays` and `StatesAdvance` (`StreamProofs`): the action properties
`StalledHeadStays` and `RecvStateAdvances`, from `TypeOK` alone.  For the first, only the
parser, which appends, and `ReadSegment`, which needs a head at the read offset, touch a
list.  For the second, every action goes from `recv_state` to a state that `Forward`
allows: a lookup opens streams (`OpenedForward`), a parser or the end of a read then sets one.

`FinComesLast` (`StreamProofs`): `Spec => []FinAfterAllData` for a peer whose FIN bits
agree on where a stream ends (`OneFinalSize`; `StreamRecv` meets it).  `FinInv` says what
each state knows of the list: in SIZE_KNOWN some byte of it reaches the end, in DATA_RECVD
the list has no gap and its last segment does, so that reading it dry is reading the stream
dry.  Both are excused for a list that is stalled, which `StalledListStays` shows will never
be read.  `EndsGrow` gives the ends of a list without gaps their order.

`StreamProofs`, sending: `OpensUnused` (`OpenedOnce`) rests on `IdInv`, that every id the
counters have not handed out is untouched, which needs that a frame or a call for a peer's
stream never touches one of this end's (`LocalIdOwn`, `LocalIdUnique`).  `NoGaps`
(`NoGapOnWire`) rests on `TxInv`: what is queued starts at or before the bytes sent, which
only grow.  `CreditRespected` (`SendWithinCredit`) holds when every credit granted is below
`Half`, 2^31 in the code (`CreditsInRange`; `StreamSend` meets it), because the comparison
is exact there (`IntOfExact`) and `QuicWritePkt` compares before it sends.  Beyond that
the macros compare the wrong way, and the property fails.

`StreamProofs`, flow control accounts: `ReceivedIsCounted` (`RecvConserved`) and `SentIsCounted`
(`SendConserved`), without a hypothesis.  Both compare a counter with a sum over a list, of
segments or of packets.  A sum is the last value of the function of partial sums, so what
is needed of sums follows from the uniqueness of that function: `SumSplit` takes a list apart
at any place, `SumPoint` says what changing one term does, and `TotalRaised` what that means
for the connection.  On the receiving side `RecvCountStep` follows the bytes through the parser,
partial reads and the removal of a segment read out.  On the sending side
`ChunksSum` says that the packets a send is cut into hold all of its bytes.  `BlockedEmpty` is
the strengthening: a packet of a BLOCKED frame carries no bytes, so that putting one into the
queue changes no sum.  `SentIsCounted` subtracts what was counted for packets that were not
built; `BuildFailCounts` is the step that does so.

`PacketProofs`: `FreedWasTaken`, `DecodedIsFull`, `EncodeAssert` and the action property
`AckedNeverShrinks`, all properties of `PacketNumbers`, for any loss and repetition.
`PacketInv` ties the two ends: the numbers on the wire and their codes, `largest_pn` and every
ACK as a number that a received packet may be taken for, `largest_acked` as below what was
sent.  `DecodeTaken` is the arithmetic of `QuicPktNumberDecode`: what it returns has the
truncated number of the packet and is not above its full number, and equals it in the window
before the next wrap; `LimitNotSeen` shows that the branch that would add a window is never
taken, and `LargestIsOld` that an arrival in time is never far behind what was taken.
Three hypotheses, which `PacketNumbers` meets, say where this holds.
`NumbersInRange`: the numbers and two windows stay below 2^31, which excludes the field of
32 bits, for which `1 << 32` and the comparisons no longer fit an `int`; packet
numbers coded in 1, 2 and 3 bytes remain.  `Reordering`: the
network reorders within half a window.  `NumbersFit`: no packet is given up because its
number needs a wider field, which `FieldFits` shows of every field of five bits or more.

`HandshakeProofs`: `AgreesOnKeys` (`KeysAgree`) and `ImplementsOrder`, that `Handshake`
implements `HandshakeOrder`, for every length of the messages and packets, full and resumed,
any number of calls, and any loss, repetition and order of datagrams.  What has to be
known is what an endpoint can find in a packet, and this must survive a shared buffer that
may hold anything: `GoodCells` says that a unit of a Finished, wherever it lies, is the
server's, with the transcript its application keys come from, until the client has sent its
own; `GoodPackets` that a HANDSHAKE_DONE comes from a server that is done.  The client then
installs keys only from the server's transcript (`ClientTakes`).  The server might find its own
Finished in the buffer, but that proves a transcript shorter than the one it has by then
(`ServerTakes`, `DigestStep`), so the one it accepts is the client's.  `KeyInv` adds that
every application key is the server's first one (`AppKeys` names the four handlers and
messages that make keys), and in which states of the flow tables they exist (`Moves`).
`Carried` says that memory, queue and network hold only such units and packets; it holds
for the types alone (`NetType`) as well, by the same lemmas.  That units read are units
written needs `BufInv`: everything read or written lies inside the memory; and this needs
`CallInv`, because `QuicBufReserve` moves the data of the first call only, before the client
has had a packet.  In the refinement each step of `Handshake` is one of `HandshakeOrder`, or
changes no stage (`StageChanges`).

`HandshakeProofs`, the keys before anything is authenticated: `AgreesOnHandshakeKeys`
(`HandshakeKeysAgree`), under two hypotheses that `HandshakeFaults` meets.  `OneCall`: the
application of the client calls once, because a second call may drop the ClientHello (see
above).  `HellosFit`: a hello is no longer than a packet carries, so that it arrives whole or
not at all; one that is cut in two is left out.  Then what an end sends at the INITIAL level is
its hello at offset 0 (`SendsHellos`, `HelloFlight`), and an end that awaits a hello can
decrypt nothing else (`HelloReads`).  `HelloInv` follows the memory of the buffer: empty or the
ClientHello on the server; on the client the ClientHello, which `QuicBufReserve` keeps, and
behind it one ServerHello, whatever was repeated (`OverwriteHead`, `OverwriteBehind`).  So both
digest the same units (`ServerHelloTaken`, `ClientHelloTaken`, `ServerHelloWritten`): a unit is
digested as its message and its place, the same for either ServerHello, of which a server
builds one.  `FirstFlight` says that the reservation is made where `HelloInv` needs it.

`ConnectionProofs`: for every limit, every set of datagrams and both ends,
`PoolWithinLimit`, `RetiredUnlessOvertaken`, `KeptUntilRetired`, `PeerIdAuthentic`,
`EstablishedHasCause`, `HandlerExists`, and the action properties `IdsStable` and
`RevivedOnlyByReading`; that is every property of the run `Connection`.  Two invariants are
inductive together.  `PoolInv` is the three properties of the pool with their types;
`RetiredFromHead` says what `QuicCidRetirePriorTo` takes and where it stops, `RetiringKeeps`
that the properties survive the first half of a NEW_CONNECTION_ID frame, after which the
frame may fail.  `ConnInv` carries what was true when the packet at hand was opened from
there to its last frame (`CurrentInv`): that it was opened past INITIAL, that an id it is
going to bring is authenticated and the connection has none yet, and that a connection closed
before it is read only by a stream call.  `StateInv` adds what keeps a client in
INITIAL from having an id and a closed connection from the handshake calls.  `PeerAssumption`
is about the inputs: numbers are natural numbers and packets are records with a form; any frame
may come in any packet.
`EstablishedHasCause` is the guard of the stream calls too (`HandshakeOver`), as the
application reads streams when it is told that it is connected.

`ResumptionProofs`: every property of the run `Resumption`, for any number of connections,
any ciphers, groups, algorithms and parameters, and any order of connecting, sharing, expiring,
freeing and restarting.  One invariant, `Inv`, is inductive, because each part needs another:

- `OwnersInv` counts the owners of a session; that a connection sets the count of the session
  it makes to one is right only because nobody points at it before (`NotYetMade`);
- `TicketsInv` and `OffersInv` say that the key in a ticket, at rest or offered, is the one the
  server will find in it, and that a server end of that generation had its secret; for an offer,
  a server end of another connection (`Sealed`, `GoodTicket`);
- `MessagesInv` says that a message on its way states what its sender still holds, so that
  what the receiver derives from it agrees with the sender;
- `ClientInv` and `ServerInv` say what each end knows in each of its states: the shares, the
  early secret of the offer, and a secret derived from both (`Derived`).

There is a lemma for each step on each part; the lemmas about the tables of extensions
say which fields a parser changes and which extension it finds.  `SessionsCounted`
(`RefsCountOwners`), `OwnTicketsOnly` (`ResumesOwnTickets`) and `ParametersAgree`
(`ParamsArrive`) need no hypothesis.  `EndsAgree` (`SecretsAgree`) needs the server to support
the client's first group: otherwise `TlsExtSrvrParseKeyShare` goes on without a share, because
there is no HelloRetryRequest, and the server has no secret.  `OffersAccepted` (`OffersVerify`)
needs `Compatible`, that the two could handshake without a ticket, in every generation;
`RefusedInv` adds what a refused offer looked like when it was read.

`SendPathProofs`: for every MSS that leaves room for a packet, every length of ids and
frames, and packet numbers of one to four bytes, `DatagramFits`, `InitialPadded` and
`BlockedLosesNoCrypto`, when the token of an
Initial packet has at most 1000 bytes (`TokenSmall`; the tokens this code issues are far
shorter, `QUIC_NEW_TOKEN_LEN`, but `QuicFrameNewTokenParser` stores any length, and with a
longer one an Initial packet may not fit a datagram).  `SizeInv` bounds the length of every
buffer by the size it was made with, when the id may have been longer or shorter.
`QueueSampled` is the other half of what a packet may be refused for: three bytes of payload
are enough for the sample, and only a BLOCKED frame has less.
The sums over the packets of a datagram are proved with `Written`, the function of the partial
sums, which exists by `SumExists`.  `FlightInv` says when a packet without credit can stand in
the queue: after the handshake or with early data.

`DispenserProofs`: for any addresses and any number of connections and datagrams,
`OneForAddress` and `ReadsOwnInOrder`.  `ListInv` says that the list holds exactly the
connections that are not freed, each once, so that the search finds the one of an address
when it has one.  `OrderInv` says why order survives the one-datagram buffer: what a
connection has read is older than what it holds, and that is older than all that still
waits in the socket.

`Least` (`NumberProofs`) says that a set of numbers has a least element; it justifies choosing
the first match of a list, and takes the place of induction where a proof follows a list.
`UpTo` does the same for a set that holds a first number and with each number the next, and
`IsSumExists` and `IsSumUnique` use it: every sequence of numbers has exactly one function of
partial sums.

The assumptions are the types of the constants (`StreamIdAssumption`,
`StreamAssumption`, `IntModAssumption`, `PacketSpaceAssumption`, `HandshakeAssumption`,
`ConnectionAssumption`, `PeerAssumption`, `ExtensionsAssumption`, `ResumptionAssumption`,
`SendPathAssumption`, `DispenserAssumption`); the runs evaluate them.  What a theorem needs
beyond them is a hypothesis of the theorem.

Only model-checked: liveness (`CallsReturn`, `HandshakeReturns`, `FlightLeaves`), which is out
of the prover's reach.

## Plan

1. `Stream`, `PacketSpace`, `Handshake`, `Connection`, `Extensions`, `Resumption`, `SendPath`,
   `Dispenser`, and the theorems about all of them: done.
2. `StreamTransfer`: two `Stream` endpoints shown to implement a reliable byte pipe under a
   network that does not reorder.
3. The reference counts of datagram buffers, and ACK frames with several ranges.

## Not modelled

Ciphers, the computation of keys, certificates and ASN.1 verification, memory wrappers:
computation by OpenSSL and libc with no state of tbquic's own.  Varint and byte readers and
writers: only their lengths are kept, in `SendPath`.  Socket I/O beyond its outcomes.
Allocation failure: the paths only return an error.  Functions without a caller:
`QuicCidIssue`, `QuicStreamWriteV`, `QuicDoStateMachine`, `QuicResetStreamFrameBuild`.  Version
negotiation, Retry and 0-RTT packets are parsed up to the header by the code, and so they are
in `Connection`; early data is offered but has no keys.
