------------------------------ MODULE Handshake ------------------------------
(* The TLS handshake of two endpoints: QuicConnect and QuicAccept            *)
(* (statem.c), the flow tables of tls_clnt.c and tls_srvr.c run by           *)
(* TlsHandshake (tls.c), the buffer that CRYPTO frames and outgoing flights  *)
(* share (buffer.c), the transcript and the keys derived from it (cipher.c). *)
(*                                                                           *)
(* Data is counted in units: a message takes MsgLen[type] of them and a      *)
(* packet carries at most Mss.  The four header bytes of a message are       *)
(* inside its first unit.  A key or a MAC is the transcript it is made from, *)
(* a transcript the sequence of units digested.                            *)
EXTENDS Integers, Sequences, FiniteSets, SequencesExt

CONSTANTS
    MsgLen,        \* units of each handshake message
    Mss,           \* units of CRYPTO data in a packet, and of packets in a datagram
    Resume,        \* the choices a server has on a ClientHello: subset of BOOLEAN
    Blocking,      \* the endpoints whose socket blocks
    Reorder,       \* datagrams overtake each other (one never taken is lost)
    MaxDups,       \* how many datagrams to an endpoint are repeated (bound)
    MaxCalls       \* how often an application calls QuicDoHandshake (bound)

Ends == {"client", "server"}
Peer(e) == IF e = "client" THEN "server" ELSE "client"
Levels == {"INITIAL", "HANDSHAKE", "1RTT"}
Types == {"CLIENT_HELLO", "SERVER_HELLO", "ENCRYPTED_EXTENSIONS", "CERTIFICATE",
          "CERTIFICATE_VERIFY", "FINISHED", "NEW_SESSION_TICKET"}

ASSUME HandshakeAssumption ==
    /\ MsgLen \in [Types -> Nat \ {0}]
    /\ Mss \in Nat \ {0}
    /\ Resume \subseteq BOOLEAN /\ Resume # {}
    /\ Blocking \subseteq Ends
    /\ Reorder \in BOOLEAN
    /\ MaxDups \in [Ends -> Nat]
    /\ MaxCalls \in [Ends -> Nat]

VARIABLES
    pc, phase, ok, ret, result,     \* the call in progress and what the last one returned
    calls,                          \* calls made
    statem, rwstate,                \* quic->statem
    state, hit, cert, dgst, nonce,  \* struct Tls
    buf, rpkt, wpkt,                \* its buffer; what is left to read, what is written
    keys, pn,                       \* per packet number space
    txq, inq,                       \* tx_queue; packets left in the datagram being read
    net, dups                       \* datagrams on their way to an endpoint

callVars == <<pc, phase, ok, ret, result, calls>>
tlsVars == <<state, hit, cert, dgst, nonce>>
bufVars == <<buf, rpkt, wpkt>>
netVars == <<inq, net, dups>>
vars == <<callVars, statem, rwstate, tlsVars, bufVars, keys, pn, txq, netVars>>

-----------------------------------------------------------------------------
(* Messages, memory and digests *)

\* hit is what a ServerHello says, mac what a CertificateVerify or Finished proves.
Message(type, h, mac) == [type |-> type, hit |-> h, mac |-> mac]
NoCell == [msg |-> Message("none", FALSE, <<>>), at |-> 0]
Cells(m) == [i \in 1 .. MsgLen[m.type] |-> [msg |-> m, at |-> i]]

Biggest(a, b) == IF a >= b THEN a ELSE b

\* Memory after units cs are copied to it behind the first at units.
Overwrite(mem, at, cs) ==
    [i \in 1 .. Biggest(Len(mem), at + Len(cs)) |->
        IF i \in at + 1 .. at + Len(cs) THEN cs[i - at]
        ELSE IF i <= Len(mem) THEN mem[i] ELSE NoCell]

\* What digesting the units cs adds to a transcript, message or not.
Units(cs) == [i \in 1 .. Len(cs) |-> <<cs[i].msg.type, cs[i].at>>]

\* The Initial keys come from the connection id of the first packet; each end has made
\* them before it needs them.
NoKey == <<>>          \* cipher_inited is false
NoDigest == <<>>       \* handshake_dgst is NULL
InitialKey == <<<<"dcid", 0>>>>
Transcripts == Seq((Types \cup {"none", "dcid"}) \X Nat)
Digested(d, cs) == IF d = NoDigest THEN NoDigest ELSE d \o Units(cs)

-----------------------------------------------------------------------------
(* The flow tables.  No state leads to the rows of a client certificate and  *)
(* of a certificate request that are left out.                               *)

Entry(flow, next, msg, level) ==
    [flow |-> flow, next |-> next, msg |-> msg, level |-> level]

client_proc ==
    [OK |-> Entry("NOTHING", "CW_CLIENT_HELLO", "none", "INITIAL"),
     CW_CLIENT_HELLO |-> Entry("WRITING", "CR_SERVER_HELLO", "CLIENT_HELLO", "INITIAL"),
     CR_SERVER_HELLO |-> Entry("READING", "CR_ENCRYPTED_EXTENSIONS", "SERVER_HELLO", "INITIAL"),
     CR_ENCRYPTED_EXTENSIONS |->
        Entry("READING", "CR_CERT_REQUEST", "ENCRYPTED_EXTENSIONS", "INITIAL"),
     CR_CERT_REQUEST |->
        Entry("READING", "CR_SERVER_CERTIFICATE", "CERTIFICATE_REQUEST", "INITIAL"),
     CR_SERVER_CERTIFICATE |-> Entry("READING", "CR_CERT_VERIFY", "CERTIFICATE", "INITIAL"),
     CR_CERT_VERIFY |-> Entry("READING", "CR_FINISHED", "CERTIFICATE_VERIFY", "INITIAL"),
     CR_FINISHED |-> Entry("READING", "CW_FINISHED", "FINISHED", "INITIAL"),
     CW_FINISHED |-> Entry("WRITING", "CR_NEW_SESSION_TICKET", "FINISHED", "HANDSHAKE"),
     CR_NEW_SESSION_TICKET |->
        Entry("READING", "CR_NEW_SESSION_TICKET", "NEW_SESSION_TICKET", "1RTT")]

server_proc ==
    [OK |-> Entry("NOTHING", "SR_CLIENT_HELLO", "none", "INITIAL"),
     SR_CLIENT_HELLO |-> Entry("READING", "SW_SERVER_HELLO", "CLIENT_HELLO", "INITIAL"),
     SW_SERVER_HELLO |-> Entry("WRITING", "SW_ENCRYPTED_EXTENSIONS", "SERVER_HELLO", "INITIAL"),
     SW_ENCRYPTED_EXTENSIONS |->
        Entry("WRITING", "SW_SERVER_CERTIFICATE", "ENCRYPTED_EXTENSIONS", "HANDSHAKE"),
     SW_SERVER_CERTIFICATE |-> Entry("WRITING", "SW_CERT_VERIFY", "CERTIFICATE", "HANDSHAKE"),
     SW_CERT_VERIFY |-> Entry("WRITING", "SW_FINISHED", "CERTIFICATE_VERIFY", "HANDSHAKE"),
     SW_FINISHED |-> Entry("WRITING", "SR_FINISHED", "FINISHED", "HANDSHAKE"),
     SR_CLIENT_CERTIFICATE |-> Entry("READING", "SR_CERT_VERIFY", "CERTIFICATE", "HANDSHAKE"),
     SR_CERT_VERIFY |-> Entry("READING", "SR_FINISHED", "CERTIFICATE_VERIFY", "HANDSHAKE"),
     SR_FINISHED |-> Entry("READING", "SW_NEW_SESSION_TICKET", "FINISHED", "HANDSHAKE"),
     SW_NEW_SESSION_TICKET |->
        Entry("WRITING", "SW_NEW_SESSION_TICKET", "NEW_SESSION_TICKET", "1RTT"),
     SW_HANDSHAKE_DONE |-> Entry("FINISHED", "HANDSHAKE_DONE", "none", "1RTT"),
     HANDSHAKE_DONE |-> Entry("FINISHED", "HANDSHAKE_DONE", "none", "1RTT")]

proc == [client |-> client_proc, server |-> server_proc]
States(e) == DOMAIN proc[e]

\* The enum, whose order the retransmission test relies on.
TlsState ==
    [OK |-> 0, CW_CLIENT_HELLO |-> 1, CW_FINISHED |-> 4, CR_SERVER_HELLO |-> 5,
     CR_ENCRYPTED_EXTENSIONS |-> 6, CR_CERT_REQUEST |-> 7, CR_SERVER_CERTIFICATE |-> 8,
     CR_CERT_VERIFY |-> 9, CR_FINISHED |-> 10, CR_NEW_SESSION_TICKET |-> 11,
     SR_CLIENT_HELLO |-> 12, SR_CLIENT_CERTIFICATE |-> 13, SR_CERT_VERIFY |-> 14,
     SR_FINISHED |-> 15, SW_SERVER_HELLO |-> 16, SW_ENCRYPTED_EXTENSIONS |-> 17,
     SW_SERVER_CERTIFICATE |-> 19, SW_CERT_VERIFY |-> 20,
     SW_FINISHED |-> 21, SW_NEW_SESSION_TICKET |-> 22, SW_HANDSHAKE_DONE |-> 23,
     HANDSHAKE_DONE |-> 24]

\* A message of a state already left behind.
TlsHandshakeMsgRetrans(e, type, st) ==
    \E s \in States(e) :
        /\ proc[e][s].flow = "READING" /\ proc[e][s].msg = type
        /\ TlsState[st] > TlsState[s]

-----------------------------------------------------------------------------
(* The shape of packets *)

Packet(level, kind, offset, data, key) ==
    [level |-> level, kind |-> kind, offset |-> offset, data |-> data, key |-> key, pn |-> 0]

Init ==
    /\ pc = [e \in Ends |-> "idle"] /\ phase = [e \in Ends |-> "pre"]
    /\ ok = [e \in Ends |-> TRUE] /\ ret = [e \in Ends |-> "none"]
    /\ result = [e \in Ends |-> "none"] /\ calls = [e \in Ends |-> 0]
    /\ statem = [e \in Ends |-> "INITIAL"] /\ rwstate = [e \in Ends |-> "NOTHING"]
    /\ state = [e \in Ends |-> "OK"] /\ hit = [e \in Ends |-> FALSE]
    /\ cert = [e \in Ends |-> NoDigest] /\ dgst = [e \in Ends |-> NoDigest]
    /\ nonce = [e \in Ends |-> 0]
    /\ buf = [e \in Ends |-> [mem |-> <<>>, reserved |-> 0, data_len |-> 0, offset |-> 0]]
    /\ rpkt = [e \in Ends |-> [pos |-> 0, left |-> 0, read |-> 0]]
    /\ wpkt = [e \in Ends |-> [len |-> 0, level |-> "INITIAL"]]
    /\ keys = [e \in Ends |->
                  [enc |-> [l \in Levels |-> IF l = "INITIAL" THEN InitialKey ELSE NoKey],
                   dec |-> [l \in Levels |-> IF l = "INITIAL" THEN InitialKey ELSE NoKey]]]
    /\ pn = [e \in Ends |-> [l \in Levels |-> [sent |-> 0, largest |-> 0, acked |-> 0]]]
    /\ txq = [e \in Ends |-> <<>>] /\ inq = [e \in Ends |-> <<>>]
    /\ net = [e \in Ends |-> <<>>] /\ dups = [e \in Ends |-> 0]

-----------------------------------------------------------------------------
(* Calls.  QuicStateMachineAct runs pre_work, sends, reads and sends again.  *)

\* The application calls QuicDoHandshake, again if the last call had no data.
Call(e) ==
    /\ pc[e] = "idle" /\ result[e] \in {"none", "want_read"} /\ calls[e] < MaxCalls[e]
    /\ pc' = [pc EXCEPT ![e] = "pre"] /\ calls' = [calls EXCEPT ![e] = @ + 1]
    /\ phase' = [phase EXCEPT ![e] = "pre"]
    /\ UNCHANGED <<ok, ret, result, statem, rwstate, tlsVars, bufVars, keys, pn, txq, netVars>>

\* pre_work is QuicClientInitialSend or QuicInitialSend: both run TLS.
HasPreWork(e) ==
    \/ e = "client" /\ statem[e] = "INITIAL"
    \/ e = "server" /\ statem[e] = "HANDSHAKE"

\* TlsHandshake begins: what has been received and not read, an assertion on it.
EnterTls(e, b) ==
    /\ pc' = [pc EXCEPT ![e] = IF b.data_len >= b.offset THEN "tls" ELSE "aborted"]
    /\ rpkt' = [rpkt EXCEPT ![e] =
                   IF b.data_len < b.offset THEN @
                   ELSE [pos |-> b.reserved + b.offset, left |-> b.data_len - b.offset, read |-> 0]]
    /\ wpkt' = [wpkt EXCEPT ![e].len = 0] /\ ret' = [ret EXCEPT ![e] = "none"]

PreWork(e) ==
    /\ pc[e] = "pre" /\ ok' = [ok EXCEPT ![e] = TRUE]
    /\ phase' = [phase EXCEPT ![e] = "pre"]
    /\ \/ HasPreWork(e) /\ EnterTls(e, buf[e])
       \/ /\ ~HasPreWork(e) /\ pc' = [pc EXCEPT ![e] = "send"]
          /\ UNCHANGED <<ret, rpkt, wpkt>>
    /\ UNCHANGED <<result, calls, statem, rwstate, tlsVars, buf, keys, pn, txq, netVars>>

\* QuicWritePkt coalesces the first k packets: as many as fit, none after a 1-RTT one.
PacketSize(p) == IF p.kind = "crypto" THEN Len(p.data) ELSE 1
Size(q, k) == FoldLeft(LAMBDA n, p : n + PacketSize(p), 0, SubSeq(q, 1, k))
Coalesced(q, k) ==
    /\ \A i \in 1 .. k - 1 : q[i].level # "1RTT" /\ Size(q, i + 1) <= Mss
    /\ k < Len(q) => q[k].level = "1RTT" \/ Size(q, k + 1) > Mss

\* The packets of a datagram, encrypted and numbered in the order of the queue.
Numbered(e, q, k) ==
    [i \in 1 .. k |->
        LET l == q[i].level
        IN [q[i] EXCEPT !.key = keys[e].enc[l],
                        !.pn = pn[e][l].sent + Cardinality({j \in 1 .. i : q[j].level = l})]]

\* One turn of the loop of QuicSendPacket.
QuicSendPacket(e) ==
    /\ pc[e] = "send" /\ txq[e] # <<>>
    /\ \E k \in 1 .. Len(txq[e]) :
          /\ Coalesced(txq[e], k)
          /\ net' = [net EXCEPT ![Peer(e)] = Append(@, Numbered(e, txq[e], k))]
          /\ pn' = [pn EXCEPT ![e] = [l \in Levels |-> [pn[e][l] EXCEPT !.sent =
                        @ + Cardinality({j \in 1 .. k : txq[e][j].level = l})]]]
          /\ txq' = [txq EXCEPT ![e] = SubSeq(@, k + 1, Len(@))]
    /\ rwstate' = [rwstate EXCEPT ![e] = "WRITING"]
    /\ UNCHANGED <<callVars, statem, tlsVars, bufVars, keys, inq, dups>>

\* QUIC_get_error after a call that failed.
GetError(rw) == IF rw = "READING" THEN "want_read" ELSE "error"

\* The queue is empty: on to reading, to the next turn, or back to the caller.
SendDone(e) ==
    /\ pc[e] = "send" /\ txq[e] = <<>>
    /\ rwstate' = [rwstate EXCEPT ![e] = IF @ = "WRITING" THEN "FINISHED" ELSE @]
    /\ \/ ~ok[e] /\ pc' = [pc EXCEPT ![e] = "idle"]
                /\ result' = [result EXCEPT ![e] = GetError(rwstate'[e])]
       \/ /\ ok[e] /\ phase[e] = "pre" /\ pc' = [pc EXCEPT ![e] = "read"]
          /\ UNCHANGED result
       \/ /\ ok[e] /\ phase[e] = "read"
          /\ \/ statem[e] = "HANDSHAKE_DONE" /\ pc' = [pc EXCEPT ![e] = "idle"]
                                            /\ result' = [result EXCEPT ![e] = "done"]
             \/ statem[e] # "HANDSHAKE_DONE" /\ pc' = [pc EXCEPT ![e] = "pre"]
                                            /\ UNCHANGED result
    /\ phase' = [phase EXCEPT ![e] = "read"]
    /\ UNCHANGED <<ok, ret, calls, statem, tlsVars, bufVars, keys, pn, txq, netVars>>

-----------------------------------------------------------------------------
(* Reading datagrams (QuicReadStateMachine) and the frames that matter here *)

\* The network: a datagram is taken, or repeated once more behind the others.
QuicDatagramRecv(e) ==
    /\ pc[e] = "read" /\ inq[e] = <<>>
    /\ \E i \in 1 .. Len(net[e]) :
          /\ i = 1 \/ Reorder
          /\ inq' = [inq EXCEPT ![e] = net[e][i]]
          /\ net' = [net EXCEPT ![e] = RemoveAt(@, i)]
    /\ rwstate' = [rwstate EXCEPT ![e] = "FINISHED"]
    /\ UNCHANGED <<callVars, statem, tlsVars, bufVars, keys, pn, txq, dups>>

Duplicate(e) ==
    /\ dups[e] < MaxDups[e] /\ dups' = [dups EXCEPT ![e] = @ + 1]
    /\ \E i \in 1 .. Len(net[e]) : net' = [net EXCEPT ![e] = Append(@, @[i])]
    /\ UNCHANGED <<callVars, statem, rwstate, tlsVars, bufVars, keys, pn, txq, inq>>

\* Fault: the failure to read is not passed on.
WouldBlockIgnored(e) ==
    /\ pc[e] = "read" /\ inq[e] = <<>> /\ e \notin Blocking
    /\ ~Reorder => net[e] = <<>>
    /\ rwstate' = [rwstate EXCEPT ![e] = "READING"] /\ pc' = [pc EXCEPT ![e] = "send"]
    /\ UNCHANGED <<phase, ok, ret, result, calls, statem, tlsVars, bufVars, keys, pn, txq,
                   netVars>>

\* A socket that does not block has nothing: the call is about to fail.
WouldBlock(e) ==
    /\ pc[e] = "read" /\ inq[e] = <<>> /\ e \notin Blocking
    /\ ~Reorder => net[e] = <<>>
    /\ rwstate' = [rwstate EXCEPT ![e] = "READING"]
    /\ ok' = [ok EXCEPT ![e] = FALSE] /\ pc' = [pc EXCEPT ![e] = "send"]
    /\ UNCHANGED <<phase, ret, result, calls, statem, tlsVars, bufVars, keys, pn, txq, netVars>>

\* Both recv handlers: the type INITIAL expects, then the keys of the space.
Readable(e, p) ==
    /\ statem[e] = "INITIAL" => p.level = "INITIAL"
    /\ p.key = keys[e].dec[p.level] /\ p.key # NoKey

Clear(b) == [b EXCEPT !.reserved = 0, !.data_len = 0]
\* Fault: what has been sent is not kept for the transcript.
ReserveNothing(b) == [b EXCEPT !.reserved = 0, !.data_len = 0]
Reserve(b) == [b EXCEPT !.reserved = b.data_len, !.data_len = 0]

\* QuicServerInitialRecv clears the buffer, whatever QuicInitialRecv returned.
AfterInitialRecv(e, b) == IF e = "server" /\ statem[e] = "INITIAL" THEN Clear(b) ELSE b

\* A packet fails: its datagram is dropped with it and the call is about to fail.
PacketFails(e, b) ==
    /\ pc' = [pc EXCEPT ![e] = "send"] /\ ok' = [ok EXCEPT ![e] = FALSE]
    /\ inq' = [inq EXCEPT ![e] = <<>>]
    /\ buf' = [buf EXCEPT ![e] = AfterInitialRecv(e, b)]
    /\ UNCHANGED statem

\* A packet has been handled.  st is what its frames make of statem; the client reads
\* on after its first packet, otherwise the end of the datagram ends the reading.
PacketDone(e, b, st, rest) ==
    /\ statem' = [statem EXCEPT ![e] = IF @ = "INITIAL" THEN "HANDSHAKE" ELSE st]
    /\ buf' = [buf EXCEPT ![e] = AfterInitialRecv(e, b)]
    /\ pc' = [pc EXCEPT ![e] =
                IF rest = <<>> /\ ~(e = "client" /\ statem[e] = "INITIAL")
                THEN "send" ELSE "read"]
    /\ inq' = [inq EXCEPT ![e] = rest]
    /\ UNCHANGED ok

Received(e) == pc[e] = "read" /\ inq[e] # <<>>

RejectPacket(e) ==
    /\ Received(e) /\ ~Readable(e, Head(inq[e]))
    /\ PacketFails(e, buf[e])
    /\ UNCHANGED <<phase, ret, result, calls, rwstate, tlsVars, rpkt, wpkt, keys, pn, txq,
                   net, dups>>

\* QuicDecryptPacket counts the number; a packet that elicits an ACK is acknowledged
\* if the space can send and the number is a new largest one.
NoteNumber(e, p, acks) ==
    LET new == [pn[e][p.level] EXCEPT !.largest = Biggest(@, p.pn)]
        ack == acks /\ keys[e].enc[p.level] # NoKey /\ new.acked # new.largest
    IN /\ pn' = [pn EXCEPT ![e][p.level] =
                    IF ack THEN [new EXCEPT !.acked = new.largest] ELSE new]
       /\ txq' = [txq EXCEPT ![e] =
                    IF ack THEN Append(@, Packet(p.level, "ack", 0, <<>>, NoKey)) ELSE @]

RecvAck(e) ==
    /\ Received(e)
    /\ LET p == Head(inq[e])
       IN /\ p.kind = "ack" /\ Readable(e, p) /\ NoteNumber(e, p, FALSE)
          /\ PacketDone(e, buf[e], statem[e], Tail(inq[e]))
    /\ UNCHANGED <<phase, ret, result, calls, rwstate, tlsVars, rpkt, wpkt, keys, net, dups>>

\* QuicFrameHandshakeDoneParser: the client is done and drops the handshake keys.
RecvHandshakeDone(e) ==
    /\ Received(e)
    /\ LET p == Head(inq[e])
       IN /\ p.kind = "handshake_done" /\ Readable(e, p) /\ NoteNumber(e, p, TRUE)
          /\ PacketDone(e, buf[e], IF e = "client" THEN "HANDSHAKE_DONE" ELSE statem[e],
                        Tail(inq[e]))
    /\ keys' = IF e = "client"
               THEN [keys EXCEPT ![e].enc["HANDSHAKE"] = NoKey, ![e].dec["HANDSHAKE"] = NoKey]
               ELSE keys
    /\ UNCHANGED <<phase, ret, result, calls, rwstate, tlsVars, rpkt, wpkt, net, dups>>

\* QuicFrameCryptoParser: copied behind what is reserved, at the offset of the frame.
CryptoData(b, p) ==
    [b EXCEPT !.mem = Overwrite(@, b.reserved + p.offset, p.data),
              !.data_len = Biggest(@, p.offset + Len(p.data))]

\* QuicFrameDoParser runs TLS unless it is done, and by then this loop has been left.
RecvCrypto(e) ==
    /\ Received(e) /\ state[e] # "HANDSHAKE_DONE"
    /\ LET p == Head(inq[e]) b == CryptoData(buf[e], p)
       IN /\ p.kind = "crypto" /\ Readable(e, p) /\ NoteNumber(e, p, TRUE)
          /\ EnterTls(e, b) /\ buf' = [buf EXCEPT ![e] = b]
    /\ inq' = [inq EXCEPT ![e] = Tail(@)]
    /\ UNCHANGED <<phase, ok, result, calls, statem, rwstate, tlsVars, keys, net, dups>>

-----------------------------------------------------------------------------
(* TlsHandshakeStatem: one turn of its loop per step, until ret is set *)

Running(e, flow) ==
    /\ pc[e] = "tls" /\ ret[e] = "none" /\ proc[e][state[e]].flow = flow

FlowNothing(e) ==
    /\ Running(e, "NOTHING") /\ state' = [state EXCEPT ![e] = proc[e][@].next]
    /\ UNCHANGED <<callVars, statem, rwstate, hit, cert, dgst, nonce, bufVars, keys, pn, txq,
                   netVars>>

FlowFinished(e) ==
    /\ Running(e, "FINISHED") /\ ret' = [ret EXCEPT ![e] = "END"]
    /\ UNCHANGED <<pc, phase, ok, result, calls, statem, rwstate, tlsVars, bufVars, keys, pn,
                   txq, netVars>>

\* A message starts where its first unit does; other bytes match no type.
NextCell(e) == buf[e].mem[rpkt[e].pos + 1]
NextType(e) == IF NextCell(e).at = 1 THEN NextCell(e).msg.type ELSE "none"

\* A state that does not match may be skipped; at most three in a row can be.
Skippable(e, st) ==
    \/ st = "CR_CERT_REQUEST"
    \/ st \in {"CR_SERVER_CERTIFICATE", "CR_CERT_VERIFY"} /\ hit[e]
Skip(e, st) == IF proc[e][st].msg # NextType(e) /\ Skippable(e, st) THEN proc[e][st].next ELSE st
Reached(e) == Skip(e, Skip(e, Skip(e, state[e])))

Matches(e) == proc[e][Reached(e)].msg = NextType(e)
Pulled(e, n) == [rpkt[e] EXCEPT !.pos = @ + n, !.left = @ - n, !.read = @ + n]

\* TlsHandshakeRead returns before a handler runs.
ReadReturns(e, r) ==
    /\ ret' = [ret EXCEPT ![e] = r] /\ state' = [state EXCEPT ![e] = Reached(e)]
    /\ UNCHANGED <<pc, phase, ok, result, calls, statem, rwstate, hit, cert, dgst, nonce, buf,
                   wpkt, keys, pn, txq, netVars>>

ReadNothing(e) ==
    /\ Running(e, "READING") /\ rpkt[e].left = 0 /\ ret' = [ret EXCEPT ![e] = "WANT_READ"]
    /\ UNCHANGED <<pc, phase, ok, result, calls, statem, rwstate, tlsVars, bufVars, keys, pn,
                   txq, netVars>>

ReadPart(e) ==
    /\ Running(e, "READING") /\ rpkt[e].left > 0 /\ Matches(e)
    /\ rpkt[e].left < MsgLen[NextType(e)]
    /\ ReadReturns(e, "WANT_READ") /\ UNCHANGED rpkt

ReadRepeated(e) ==
    /\ Running(e, "READING") /\ rpkt[e].left > 0 /\ ~Matches(e)
    /\ TlsHandshakeMsgRetrans(e, NextType(e), Reached(e))
    /\ \/ /\ rpkt[e].left >= MsgLen[NextType(e)] /\ ReadReturns(e, "DROP")
          /\ rpkt' = [rpkt EXCEPT ![e] = Pulled(e, MsgLen[NextType(e)])]
       \/ /\ rpkt[e].left < MsgLen[NextType(e)] /\ ReadReturns(e, "ERROR")
          /\ UNCHANGED rpkt

ReadUnexpected(e) ==
    /\ Running(e, "READING") /\ rpkt[e].left > 0 /\ ~Matches(e)
    /\ ~TlsHandshakeMsgRetrans(e, NextType(e), Reached(e))
    /\ ReadReturns(e, "ERROR") /\ UNCHANGED rpkt

\* A whole message lies ahead: its bytes, and what digesting them adds.
Complete(e) ==
    /\ Running(e, "READING") /\ rpkt[e].left > 0 /\ Matches(e)
    /\ rpkt[e].left >= MsgLen[NextType(e)]
Msg(e) == NextCell(e).msg
Ahead(e) == SubSeq(buf[e].mem, rpkt[e].pos + 1, rpkt[e].pos + MsgLen[NextType(e)])
Genuine(e) == Ahead(e) = Cells(Msg(e))
WithMsg(e) == Digested(dgst[e], Ahead(e))

\* TlsTakeMac and TlsFinishedCheck; the signature TlsDoCertVerify checks.
TlsFinishedCheck(e) == Genuine(e) /\ Msg(e).mac = dgst[e]
TlsDoCertVerify(e) == Genuine(e) /\ cert[e] # NoDigest /\ Msg(e).mac = cert[e]

\* A handler may fail on bytes that are no message, and must on a wrong proof.
HandlerFails(e) ==
    /\ Complete(e)
    /\ CASE NextType(e) = "FINISHED" -> ~TlsFinishedCheck(e)
         [] NextType(e) = "CERTIFICATE_VERIFY" -> ~TlsDoCertVerify(e)
         [] OTHER -> ~Genuine(e)
    /\ ret' = [ret EXCEPT ![e] = "ERROR"] /\ state' = [state EXCEPT ![e] = Reached(e)]
    /\ dgst' = [dgst EXCEPT ![e] = WithMsg(e)]
    /\ rpkt' = [rpkt EXCEPT ![e] = Pulled(e, MsgLen[NextType(e)])]
    /\ UNCHANGED <<pc, phase, ok, result, calls, statem, rwstate, hit, cert, nonce, buf, wpkt,
                   keys, pn, txq, netVars>>

\* The handler of a message of this type runs and the flow goes on.
Handles(e, type) ==
    /\ Complete(e) /\ NextType(e) = type
    /\ state' = [state EXCEPT ![e] = proc[e][Reached(e)].next]
    /\ rpkt' = [rpkt EXCEPT ![e] = Pulled(e, MsgLen[type])]
    /\ UNCHANGED <<callVars, statem, rwstate, nonce, wpkt, pn, txq, netVars>>

\* TlsDigestCachedRecords: the head of the buffer, and len units behind what is reserved.
CachedRecords(e, len) == Units(SubSeq(buf[e].mem, 1, buf[e].reserved + len))

\* QuicCreateEncryptorDecryptor leaves keys that exist alone.
Install(k, level, key) == IF k[level] = NoKey THEN [k EXCEPT ![level] = key] ELSE k

ClientHelloProc(e) ==
    /\ Handles(e, "CLIENT_HELLO")
    /\ dgst' = [dgst EXCEPT ![e] = CachedRecords(e, MsgLen["CLIENT_HELLO"])]
    /\ hit' \in {[hit EXCEPT ![e] = h] : h \in Resume}
    /\ UNCHANGED <<cert, buf, keys>>

ServerHelloProc(e) ==
    /\ Handles(e, "SERVER_HELLO")
    /\ dgst' = [dgst EXCEPT ![e] = CachedRecords(e, MsgLen["SERVER_HELLO"])]
    /\ hit' = [hit EXCEPT ![e] = Msg(e).hit]
    /\ keys' = [keys EXCEPT ![e].dec = Install(@, "HANDSHAKE", dgst'[e])]
    /\ buf' = [buf EXCEPT ![e] = Clear(@)]
    /\ UNCHANGED cert

EncExtProc(e) ==
    /\ Handles(e, "ENCRYPTED_EXTENSIONS") /\ dgst' = [dgst EXCEPT ![e] = WithMsg(e)]
    /\ UNCHANGED <<hit, cert, buf, keys>>

\* Bytes that are no certificate leave no certificate, and the flow goes on.
ServerCertProc(e) ==
    /\ Handles(e, "CERTIFICATE") /\ dgst' = [dgst EXCEPT ![e] = WithMsg(e)]
    /\ cert' = [cert EXCEPT ![e] = IF Genuine(e) THEN WithMsg(e) ELSE @]
    /\ UNCHANGED <<hit, buf, keys>>

CertVerifyProc(e) ==
    /\ Handles(e, "CERTIFICATE_VERIFY") /\ TlsDoCertVerify(e)
    /\ dgst' = [dgst EXCEPT ![e] = WithMsg(e)]
    /\ UNCHANGED <<hit, cert, buf, keys>>

\* Fault: the application keys are derived before the Finished is digested.
ClientFinishedProcEarly(e) ==
    /\ e = "client" /\ Handles(e, "FINISHED") /\ TlsFinishedCheck(e)
    /\ dgst' = [dgst EXCEPT ![e] = WithMsg(e)]
    /\ keys' = [keys EXCEPT ![e].dec = Install(@, "1RTT", dgst[e]),
                            ![e].enc = Install(@, "HANDSHAKE", keys[e].dec["HANDSHAKE"])]
    /\ UNCHANGED <<hit, cert, buf>>

ClientFinishedProc(e) ==
    /\ e = "client" /\ Handles(e, "FINISHED") /\ TlsFinishedCheck(e)
    /\ dgst' = [dgst EXCEPT ![e] = WithMsg(e)]
    /\ keys' = [keys EXCEPT ![e].dec = Install(@, "1RTT", dgst'[e]),
                            ![e].enc = Install(@, "HANDSHAKE", keys[e].dec["HANDSHAKE"])]
    /\ UNCHANGED <<hit, cert, buf>>

SrvrFinishedProc(e) ==
    /\ e = "server" /\ Handles(e, "FINISHED") /\ TlsFinishedCheck(e)
    /\ dgst' = [dgst EXCEPT ![e] = WithMsg(e)]
    /\ keys' = [keys EXCEPT ![e].dec = Install(@, "1RTT", keys[e].enc["1RTT"])]
    /\ UNCHANGED <<hit, cert, buf>>

NewSessionTicketProc(e) ==
    /\ Handles(e, "NEW_SESSION_TICKET") /\ dgst' = [dgst EXCEPT ![e] = WithMsg(e)]
    /\ UNCHANGED <<hit, cert, buf, keys>>

-----------------------------------------------------------------------------
(* Writing: messages go to the head of the same buffer, one behind the other *)

Builds(e, st, msg) ==
    /\ Running(e, "WRITING") /\ state[e] = st
    /\ buf' = [buf EXCEPT ![e].mem = Overwrite(@, wpkt[e].len, Cells(msg))]
    /\ wpkt' = [wpkt EXCEPT ![e] = [len |-> @.len + MsgLen[msg.type], level |-> proc[e][st].level]]
    /\ dgst' = [dgst EXCEPT ![e] = Digested(@, Cells(msg))]
    /\ UNCHANGED <<pc, phase, ok, result, calls, statem, rwstate, hit, cert, rpkt, pn, txq,
                   netVars>>

Goes(e, st, r) ==
    /\ state' = [state EXCEPT ![e] = st] /\ ret' = [ret EXCEPT ![e] = r]

ClientHelloBuild(e) ==
    /\ Builds(e, "CW_CLIENT_HELLO", Message("CLIENT_HELLO", FALSE, <<>>))
    /\ Goes(e, "CR_SERVER_HELLO", "NEXT") /\ UNCHANGED <<nonce, keys>>

ServerHelloBuild(e) ==
    /\ Builds(e, "SW_SERVER_HELLO", Message("SERVER_HELLO", hit[e], <<>>))
    /\ Goes(e, "SW_ENCRYPTED_EXTENSIONS", "NEXT")
    /\ keys' = [keys EXCEPT ![e].enc = Install(@, "HANDSHAKE", dgst'[e])]
    /\ UNCHANGED nonce

EncryptedExtBuild(e) ==
    /\ Builds(e, "SW_ENCRYPTED_EXTENSIONS", Message("ENCRYPTED_EXTENSIONS", FALSE, <<>>))
    /\ Goes(e, IF hit[e] THEN "SW_FINISHED" ELSE "SW_SERVER_CERTIFICATE", "none")
    /\ UNCHANGED <<nonce, keys>>

ServerCertBuild(e) ==
    /\ Builds(e, "SW_SERVER_CERTIFICATE", Message("CERTIFICATE", FALSE, <<>>))
    /\ Goes(e, "SW_CERT_VERIFY", "none") /\ UNCHANGED <<nonce, keys>>

CertVerifyBuild(e) ==
    /\ Builds(e, "SW_CERT_VERIFY", Message("CERTIFICATE_VERIFY", FALSE, dgst[e]))
    /\ Goes(e, "SW_FINISHED", "none") /\ UNCHANGED <<nonce, keys>>

SrvrFinishedBuild(e) ==
    /\ Builds(e, "SW_FINISHED", Message("FINISHED", FALSE, dgst[e]))
    /\ Goes(e, "SR_FINISHED", "NEXT")
    /\ keys' = [keys EXCEPT ![e].dec = Install(@, "HANDSHAKE", keys[e].enc["HANDSHAKE"]),
                            ![e].enc = Install(@, "1RTT", dgst'[e])]
    /\ UNCHANGED nonce

ClntFinishedBuild(e) ==
    /\ Builds(e, "CW_FINISHED", Message("FINISHED", FALSE, dgst[e]))
    /\ Goes(e, "CR_NEW_SESSION_TICKET", "NEXT")
    /\ keys' = [keys EXCEPT ![e].enc = Install(@, "1RTT", keys[e].dec["1RTT"])]
    /\ UNCHANGED nonce

TLS_NEW_SESS_TICKET_NUM == 2

NewSessionTicketBuild(e) ==
    /\ Builds(e, "SW_NEW_SESSION_TICKET", Message("NEW_SESSION_TICKET", FALSE, <<>>))
    /\ nonce' = [nonce EXCEPT ![e] = @ + 1]
    /\ Goes(e, IF nonce'[e] >= TLS_NEW_SESS_TICKET_NUM THEN "SW_HANDSHAKE_DONE" ELSE state[e],
            "none")
    /\ UNCHANGED keys

-----------------------------------------------------------------------------
(* The end of TlsHandshake *)

\* Only unread bytes keep their place; what was written counts as the data.
AfterFlow(e) ==
    [buf[e] EXCEPT
        !.offset = IF ret[e] \in {"WANT_READ", "NEXT"} /\ rpkt[e].left > 0
                   THEN @ + rpkt[e].read ELSE 0,
        !.data_len = wpkt[e].len]

\* QuicFrameCryptoSplit cuts the flight, which starts at the head of the buffer.
Flight(e) ==
    LET n == wpkt[e].len
    IN [i \in 1 .. (n + Mss - 1) \div Mss |->
          LET first == (i - 1) * Mss
              last == IF first + Mss <= n THEN first + Mss ELSE n
          IN Packet(wpkt[e].level, "crypto", first, SubSeq(buf[e].mem, first + 1, last), NoKey)]

\* Fault: the server is done once its own flight is written.
FlightDoneEarly(e) == state[e] \in {"SR_FINISHED", "SW_HANDSHAKE_DONE"}

FlightDone(e) == state[e] = "SW_HANDSHAKE_DONE"

TlsReturn(e) ==
    /\ pc[e] = "tls" /\ ret[e] # "none"
    /\ txq' = [txq EXCEPT ![e] = @ \o Flight(e) \o
                (IF FlightDone(e)
                 THEN <<Packet(wpkt[e].level, "handshake_done", 0, <<>>, NoKey)>> ELSE <<>>)]
    /\ state' = [state EXCEPT ![e] = IF FlightDone(e) THEN "HANDSHAKE_DONE" ELSE @]
    /\ \/ /\ phase[e] = "pre"           \* back in pre_work
          /\ ok' = [ok EXCEPT ![e] = ret[e] # "ERROR"] /\ pc' = [pc EXCEPT ![e] = "send"]
          /\ buf' = [buf EXCEPT ![e] =
                        IF e = "client" THEN Reserve(AfterFlow(e)) ELSE AfterFlow(e)]
          /\ UNCHANGED <<statem, inq>>
       \/ /\ phase[e] = "read"          \* back in QuicFrameDoParser
          /\ IF ret[e] = "ERROR" THEN PacketFails(e, AfterFlow(e))
             ELSE PacketDone(e, AfterFlow(e),
                             IF state'[e] = "HANDSHAKE_DONE" THEN "HANDSHAKE_DONE" ELSE statem[e],
                             inq[e])
    /\ UNCHANGED <<phase, ret, result, calls, rwstate, hit, cert, dgst, nonce, rpkt, wpkt, keys,
                   pn, net, dups>>

-----------------------------------------------------------------------------
Reads(e) ==
    \/ ReadNothing(e) \/ ReadPart(e) \/ ReadRepeated(e) \/ ReadUnexpected(e) \/ HandlerFails(e)
    \/ ClientHelloProc(e) \/ ServerHelloProc(e) \/ EncExtProc(e) \/ ServerCertProc(e)
    \/ CertVerifyProc(e) \/ ClientFinishedProc(e) \/ SrvrFinishedProc(e)
    \/ NewSessionTicketProc(e)
Writes(e) ==
    \/ ClientHelloBuild(e) \/ ServerHelloBuild(e) \/ EncryptedExtBuild(e) \/ ServerCertBuild(e)
    \/ CertVerifyBuild(e) \/ SrvrFinishedBuild(e) \/ ClntFinishedBuild(e)
    \/ NewSessionTicketBuild(e)

\* What the thread of an endpoint does inside a call.
Run(e) ==
    \/ PreWork(e) \/ QuicSendPacket(e) \/ SendDone(e) \/ QuicDatagramRecv(e)
    \/ RejectPacket(e) \/ RecvAck(e) \/ RecvHandshakeDone(e) \/ RecvCrypto(e)
    \/ FlowNothing(e) \/ FlowFinished(e) \/ Reads(e) \/ Writes(e) \/ TlsReturn(e)
    \/ WouldBlock(e)

Next == \E e \in Ends : Call(e) \/ Run(e) \/ Duplicate(e)

\* A thread inside a call keeps running; nobody has to call, the network owes nothing.
Spec == Init /\ [][Next]_vars /\ \A e \in Ends : WF_vars(Run(e))

-----------------------------------------------------------------------------
(* Properties *)

\* Both ends that hold application keys hold the same ones, in both directions, whatever
\* the network did to the flights: TlsFinishedCheck covers the transcript they come from.
KeysAgree ==
    \A e, f \in Ends :
        LET a == keys[e].dec["1RTT"] b == keys[f].enc["1RTT"]
        IN a = NoKey \/ b = NoKey \/ a = b

\* The handshake keys of the two ends, which nothing has authenticated yet, come from the
\* same two hellos (QuicBufReserve keeps the ClientHello for TlsDigestCachedRecords).
HandshakeKeysAgree ==
    LET a == keys["client"].dec["HANDSHAKE"] b == keys["server"].enc["HANDSHAKE"]
    IN a = NoKey \/ b = NoKey \/ a = b

\* The steps of the two ends in the order HandshakeOrder promises: HANDSHAKE_DONE reaches
\* the client only after the server has verified its Finished, and so on.
Stage(e) ==
    IF (e = "server" /\ state[e] = "HANDSHAKE_DONE")
       \/ (e = "client" /\ statem[e] = "HANDSHAKE_DONE") THEN "done"
    ELSE IF (e = "server" /\ keys[e].enc["1RTT"] # NoKey)
            \/ (e = "client" /\ keys[e].dec["1RTT"] # NoKey) THEN "keyed"
    ELSE "start"
Order == INSTANCE HandshakeOrder WITH
    Keys <- Transcripts,
    stage <- [e \in Ends |-> Stage(e)],
    secret <- [e \in Ends |-> IF e = "server" THEN keys[e].enc["1RTT"] ELSE keys[e].dec["1RTT"]]
HandshakeOrdered == Order!Spec

\* QuicDoHandshake returns to its caller when the socket does not block: none of the loops
\* of QuicStateMachineAct, QuicReadStateMachine and TlsHandshakeStatem spins.
HandshakeReturns == \A e \in Ends \ Blocking : pc[e] # "idle" ~> pc[e] \in {"idle", "aborted"}

\* The comment in TlsHandshake: what lies between the offset and the total length was
\* read from the peer.  A server offered its own flight sees types no client sends.
ReadsPeerData ==
    \A e \in Ends :
        Running(e, "READING") /\ rpkt[e].left > 0 =>
            NextType(e) \in {"none"} \cup
                (IF e = "server" THEN {"CLIENT_HELLO", "FINISHED"} ELSE Types \ {"CLIENT_HELLO"})
=============================================================================
