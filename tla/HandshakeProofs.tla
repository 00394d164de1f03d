--------------------------- MODULE HandshakeProofs ---------------------------
(* The handshake for every message length, packet size, loss, repetition and  *)
(* order of datagrams and number of calls: the ends agree on the application  *)
(* keys (AgreesOnKeys), and take their steps in the order that HandshakeOrder *)
(* promises (ImplementsOrder).  For hellos that fit a packet and a client     *)
(* that calls once, they agree on the keys of the HANDSHAKE level             *)
(* (AgreesOnHandshakeKeys).                                                   *)
(*                                                                            *)
(* The first two follow from what the network can carry: a Finished that a    *)
(* client finds is the server's until it has sent its own, and a Finished     *)
(* that a server takes is not its own, because its transcript has grown       *)
(* since; a HANDSHAKE_DONE on its way comes from a server that is done        *)
(* (GoodCells, GoodPackets, KeyInv).  BufInv keeps every message that is read *)
(* inside the memory of the buffer, which rests on the order of the calls     *)
(* (CallInv).  Nothing authenticates the hellos: that they are digested whole *)
(* and in order follows from where each end keeps them (HelloInv, HellosInv). *)
EXTENDS Handshake, SequenceTheorems, FiniteSetTheorems, TLAPS

-----------------------------------------------------------------------------
(* The invariants.                                                            *)

\* What stands in the buffers and packets, whatever it says.
Messages == [type : Types \cup {"none"}, hit : BOOLEAN, mac : Transcripts]
AllCells == [msg : Messages, at : Nat]
Kinds == {"crypto", "ack", "handshake_done"}
Packets(C) ==
    [level : Levels, kind : Kinds, offset : Nat, data : Seq(C), key : Transcripts, pn : Nat]

ClientStates ==
    {"OK", "CW_CLIENT_HELLO", "CR_SERVER_HELLO", "CR_ENCRYPTED_EXTENSIONS",
     "CR_CERT_REQUEST", "CR_SERVER_CERTIFICATE", "CR_CERT_VERIFY", "CR_FINISHED",
     "CW_FINISHED", "CR_NEW_SESSION_TICKET"}
ServerStates ==
    {"OK", "SR_CLIENT_HELLO", "SW_SERVER_HELLO", "SW_ENCRYPTED_EXTENSIONS",
     "SW_SERVER_CERTIFICATE", "SW_CERT_VERIFY", "SW_FINISHED", "SR_FINISHED",
     "SW_NEW_SESSION_TICKET", "SW_HANDSHAKE_DONE", "HANDSHAKE_DONE"}

\* The variables of a call.
CallType ==
    /\ pc \in [Ends -> {"idle", "pre", "tls", "send", "read", "aborted"}]
    /\ phase \in [Ends -> {"pre", "read"}]
    /\ ok \in [Ends -> BOOLEAN]
    /\ ret \in [Ends -> {"none", "NEXT", "WANT_READ", "DROP", "END", "ERROR"}]
    /\ result \in [Ends -> {"none", "want_read", "error", "done"}]
    /\ statem \in [Ends -> {"INITIAL", "HANDSHAKE", "HANDSHAKE_DONE"}]
    /\ rwstate \in [Ends -> {"NOTHING", "READING", "WRITING", "FINISHED"}]

\* The variables of TLS.
KeyType == [enc : [Levels -> Transcripts], dec : [Levels -> Transcripts]]
TlsType ==
    /\ state \in [Ends -> ClientStates \cup ServerStates]
    /\ state["client"] \in ClientStates /\ state["server"] \in ServerStates
    /\ hit \in [Ends -> BOOLEAN] /\ dgst \in [Ends -> Transcripts]
    /\ keys \in [Ends -> KeyType]

\* The buffer and what is read and written of it.
Buffers == [mem : Seq(AllCells), reserved : Nat, data_len : Nat, offset : Nat]
BufType ==
    /\ buf \in [Ends -> Buffers]
    /\ rpkt \in [Ends -> [pos : Nat, left : Nat, read : Nat]]
    /\ wpkt \in [Ends -> [len : Nat, level : Levels]]
    /\ pn \in [Ends -> [Levels -> [sent : Nat, largest : Nat, acked : Nat]]]

\* The memory of the buffers holds units in C only, the packets are in P.
Carried(C, P) ==
    /\ \A e \in Ends : buf[e].mem \in Seq(C)
    /\ txq \in [Ends -> Seq(P)] /\ inq \in [Ends -> Seq(P)] /\ net \in [Ends -> Seq(Seq(P))]

NetType == Carried(AllCells, Packets(AllCells))

\* A client that has had no packet has read nothing; one whose first flight
\* cannot be read never runs TLS in pre_work again.
Untouched ==
    /\ state["client"] \in {"OK", "CW_CLIENT_HELLO", "CR_SERVER_HELLO"}
    /\ buf["client"].data_len = 0
    /\ pc["client"] = "tls" =>
         /\ phase["client"] = "pre" /\ rpkt["client"].left = 0
         /\ wpkt["client"].len # 0 => state["client"] = "CR_SERVER_HELLO"
GivenUp ==
    \/ pc["client"] = "aborted"
    \/ pc["client"] = "tls" /\ phase["client"] = "read"
    \/ pc["client"] = "send" /\ ~ok["client"] /\ rwstate["client"] \in {"FINISHED", "WRITING"}
    \/ pc["client"] = "idle" /\ result["client"] = "error"
CallInv ==
    /\ \A e \in Ends :
         /\ inq[e] # <<>> => pc[e] \in {"read", "tls", "aborted"}
         /\ inq[e] # <<>> /\ pc[e] \in {"read", "tls"} => rwstate[e] = "FINISHED" /\ phase[e] = "read"
         /\ pc[e] = "read" => phase[e] = "read"
         /\ pc[e] = "tls" /\ phase[e] = "read" => rwstate[e] = "FINISHED"
    /\ pc["client"] = "tls" /\ phase["client"] = "pre" => statem["client"] = "INITIAL"
    /\ statem["client"] = "INITIAL" => Untouched \/ GivenUp

\* What is read and what is written lies inside the memory of the buffer.
BufInv ==
    /\ \A e \in Ends :
         /\ wpkt[e].len <= Len(buf[e].mem)
         /\ buf[e].reserved + buf[e].data_len <= Len(buf[e].mem)
         /\ pc[e] = "tls" =>
              /\ rpkt[e].pos + rpkt[e].left <= Len(buf[e].mem)
              /\ buf[e].reserved <= rpkt[e].pos
              /\ wpkt[e].len = 0 \/ buf[e].reserved = 0
    /\ buf["server"].reserved = 0
    /\ buf["client"].reserved # 0 => state["client"] = "CR_SERVER_HELLO"

-----------------------------------------------------------------------------
AppKey == keys["server"].enc["1RTT"]
Sealed == state["server"] \in {"SR_FINISHED", "SW_NEW_SESSION_TICKET", "SW_HANDSHAKE_DONE", "HANDSHAKE_DONE"}
FinishedUnits == [i \in 1 .. MsgLen["FINISHED"] |-> <<"FINISHED", i>>]

\* A Finished that a client finds is the server's, until it has sent its own.
GoodCells ==
    {c \in AllCells : c.msg.type = "FINISHED" =>
        \/ state["client"] = "CR_NEW_SESSION_TICKET"
        \/ Sealed /\ c.msg.mac # NoDigest /\ AppKey = c.msg.mac \o FinishedUnits}
GoodPackets ==
    {p \in Packets(GoodCells) : p.kind = "handshake_done" => state["server"] = "HANDSHAKE_DONE"}
KeyInv ==
    /\ Sealed <=> AppKey # NoKey
    /\ state["server"] \notin {"OK", "SR_CLIENT_HELLO"} => dgst["server"] # NoDigest
    /\ Sealed => Len(dgst["server"]) >= Len(AppKey)
    /\ \A k \in {keys["client"].enc, keys["client"].dec, keys["server"].dec} :
         k["1RTT"] \in {NoKey, AppKey}
    /\ state["client"] \in {"CW_FINISHED", "CR_NEW_SESSION_TICKET"} <=> keys["client"].dec["1RTT"] # NoKey
    /\ state["server"] \in {"SW_NEW_SESSION_TICKET", "SW_HANDSHAKE_DONE", "HANDSHAKE_DONE"} =>
         state["client"] = "CR_NEW_SESSION_TICKET"
    /\ statem["client"] = "HANDSHAKE_DONE" => state["server"] = "HANDSHAKE_DONE"

-----------------------------------------------------------------------------
(* The flow tables.                                                           *)

\* What client_proc says: the states that read, the message each waits for and
\* the state that follows.
LEMMA ClientTable ==
    /\ proc["client"]["OK"].flow = "NOTHING"
    /\ proc["client"]["OK"].next = "CW_CLIENT_HELLO"
    /\ \A st \in {"CW_CLIENT_HELLO", "CW_FINISHED"} : proc["client"][st].flow = "WRITING"
    /\ \A st \in ClientStates \ {"OK", "CW_CLIENT_HELLO", "CW_FINISHED"} :
         proc["client"][st].flow = "READING"
    /\ proc["client"]["CR_SERVER_HELLO"].msg = "SERVER_HELLO"
    /\ proc["client"]["CR_ENCRYPTED_EXTENSIONS"].msg = "ENCRYPTED_EXTENSIONS"
    /\ proc["client"]["CR_CERT_REQUEST"].msg = "CERTIFICATE_REQUEST"
    /\ proc["client"]["CR_SERVER_CERTIFICATE"].msg = "CERTIFICATE"
    /\ proc["client"]["CR_CERT_VERIFY"].msg = "CERTIFICATE_VERIFY"
    /\ proc["client"]["CR_FINISHED"].msg = "FINISHED"
    /\ proc["client"]["CR_NEW_SESSION_TICKET"].msg = "NEW_SESSION_TICKET"
    /\ proc["client"]["CR_SERVER_HELLO"].next = "CR_ENCRYPTED_EXTENSIONS"
    /\ proc["client"]["CR_ENCRYPTED_EXTENSIONS"].next = "CR_CERT_REQUEST"
    /\ proc["client"]["CR_CERT_REQUEST"].next = "CR_SERVER_CERTIFICATE"
    /\ proc["client"]["CR_SERVER_CERTIFICATE"].next = "CR_CERT_VERIFY"
    /\ proc["client"]["CR_CERT_VERIFY"].next = "CR_FINISHED"
    /\ proc["client"]["CR_FINISHED"].next = "CW_FINISHED"
    /\ proc["client"]["CR_NEW_SESSION_TICKET"].next = "CR_NEW_SESSION_TICKET"
    /\ \A st \in ClientStates : proc["client"][st].level \in Levels
<1>1. proc["client"] = client_proc
  BY DEF proc
<1> QED BY <1>1 DEF client_proc, Entry, ClientStates, Levels

\* What server_proc says of the states that a server without client
\* certificates is in.
LEMMA ServerTable ==
    /\ proc["server"]["OK"].flow = "NOTHING"
    /\ proc["server"]["OK"].next = "SR_CLIENT_HELLO"
    /\ \A st \in {"SR_CLIENT_HELLO", "SR_FINISHED"} : proc["server"][st].flow = "READING"
    /\ \A st \in {"SW_HANDSHAKE_DONE", "HANDSHAKE_DONE"} : proc["server"][st].flow = "FINISHED"
    /\ \A st \in ServerStates \ {"OK", "SR_CLIENT_HELLO", "SR_FINISHED", "SW_HANDSHAKE_DONE",
                                 "HANDSHAKE_DONE"} :
         proc["server"][st].flow = "WRITING"
    /\ proc["server"]["SR_CLIENT_HELLO"].msg = "CLIENT_HELLO"
    /\ proc["server"]["SR_FINISHED"].msg = "FINISHED"
    /\ proc["server"]["SR_CLIENT_HELLO"].next = "SW_SERVER_HELLO"
    /\ proc["server"]["SR_FINISHED"].next = "SW_NEW_SESSION_TICKET"
    /\ \A st \in ServerStates : proc["server"][st].level \in Levels
<1>1. proc["server"] = server_proc
  BY DEF proc
<1> QED BY <1>1 DEF server_proc, Entry, ServerStates, Levels

ClientReads ==
    {"CR_SERVER_HELLO", "CR_ENCRYPTED_EXTENSIONS", "CR_CERT_REQUEST", "CR_SERVER_CERTIFICATE",
     "CR_CERT_VERIFY", "CR_FINISHED", "CR_NEW_SESSION_TICKET"}

\* TlsHandshakeRead skips only forward, from one state that reads to another,
\* and never a hello, a Finished or a ticket.
LEMMA Skips ==
    ASSUME TlsType, NEW e \in Ends, Running(e, "READING")
    PROVE  /\ e = "server" => Reached(e) = state[e] /\ state[e] \in {"SR_CLIENT_HELLO", "SR_FINISHED"}
           /\ e = "client" =>
                /\ state[e] \in ClientReads /\ Reached(e) \in ClientReads
                /\ state[e] \in {"CR_SERVER_HELLO", "CR_FINISHED", "CR_NEW_SESSION_TICKET"} =>
                     Reached(e) = state[e]
                /\ Reached(e) \in {"CR_SERVER_HELLO", "CR_NEW_SESSION_TICKET"} =>
                     Reached(e) = state[e]
<1>1. CASE e = "server"
  <2>1. state[e] \in {"SR_CLIENT_HELLO", "SR_FINISHED"}
    BY <1>1, ServerTable DEF TlsType, Running, ServerStates
  <2>2. \A st : st \in {"SR_CLIENT_HELLO", "SR_FINISHED"} => Skip(e, st) = st
    BY DEF Skip, Skippable
  <2> QED BY <1>1, <2>1, <2>2 DEF Reached
<1>2. CASE e = "client"
  <2>1. state[e] \in ClientReads
    BY <1>2, ClientTable DEF TlsType, Running, ClientStates, ClientReads
  <2>2. \A st \in ClientReads :
          /\ Skip(e, st) \in ClientReads
          /\ st \in {"CR_SERVER_HELLO", "CR_FINISHED", "CR_NEW_SESSION_TICKET"} => Skip(e, st) = st
          /\ Skip(e, st) \in {"CR_SERVER_HELLO", "CR_NEW_SESSION_TICKET"} => Skip(e, st) = st
    BY <1>2, ClientTable DEF Skip, Skippable, ClientReads
  <2> QED BY <1>2, <2>1, <2>2 DEF Reached
<1> QED BY <1>1, <1>2 DEF Ends

\* Which handler runs where: every message is waited for in one state of each
\* end, so the type of a message that is handled says where the flow stands.
LEMMA Handled ==
    ASSUME TlsType, NEW e \in Ends, NEW type, Handles(e, type)
    PROVE  \/ /\ e = "server" /\ type = "CLIENT_HELLO" /\ state[e] = "SR_CLIENT_HELLO"
              /\ state' = [state EXCEPT !["server"] = "SW_SERVER_HELLO"]
           \/ /\ e = "server" /\ type = "FINISHED" /\ state[e] = "SR_FINISHED"
              /\ state' = [state EXCEPT !["server"] = "SW_NEW_SESSION_TICKET"]
           \/ /\ e = "client" /\ type = "SERVER_HELLO" /\ state[e] = "CR_SERVER_HELLO"
              /\ state' = [state EXCEPT !["client"] = "CR_ENCRYPTED_EXTENSIONS"]
           \/ /\ e = "client" /\ type = "FINISHED" /\ state[e] \in ClientReads
              /\ state[e] \notin {"CR_SERVER_HELLO", "CR_NEW_SESSION_TICKET"}
              /\ state' = [state EXCEPT !["client"] = "CW_FINISHED"]
           \/ /\ e = "client" /\ type = "NEW_SESSION_TICKET" /\ state' = state
              /\ state[e] = "CR_NEW_SESSION_TICKET"
           \/ /\ e = "client" /\ type \in {"ENCRYPTED_EXTENSIONS", "CERTIFICATE", "CERTIFICATE_VERIFY",
                                           "CERTIFICATE_REQUEST"}
              /\ state[e] \in ClientReads \ {"CR_SERVER_HELLO", "CR_FINISHED", "CR_NEW_SESSION_TICKET"}
              /\ \E st \in ClientReads \ {"CR_SERVER_HELLO", "CR_NEW_SESSION_TICKET"} :
                   state' = [state EXCEPT !["client"] = st]
<1>1. /\ Running(e, "READING") /\ proc[e][Reached(e)].msg = type
      /\ state' = [state EXCEPT ![e] = proc[e][Reached(e)].next]
  BY DEF Handles, Complete, Matches
<1>2. CASE e = "server"
  <2>1. Reached(e) = state[e] /\ state[e] \in {"SR_CLIENT_HELLO", "SR_FINISHED"}
    BY <1>1, <1>2, Skips
  <2>2. CASE state[e] = "SR_CLIENT_HELLO"
    <3>1. type = "CLIENT_HELLO" /\ proc[e][Reached(e)].next = "SW_SERVER_HELLO"
      BY <1>1, <1>2, <2>1, <2>2, ServerTable
    <3> QED BY <1>1, <1>2, <2>2, <3>1
  <2>3. CASE state[e] = "SR_FINISHED"
    <3>1. type = "FINISHED" /\ proc[e][Reached(e)].next = "SW_NEW_SESSION_TICKET"
      BY <1>1, <1>2, <2>1, <2>3, ServerTable
    <3> QED BY <1>1, <1>2, <2>3, <3>1
  <2> QED BY <2>1, <2>2, <2>3
<1>3. CASE e = "client"
  <2>1. /\ state[e] \in ClientReads /\ Reached(e) \in ClientReads
        /\ state[e] \in {"CR_SERVER_HELLO", "CR_FINISHED", "CR_NEW_SESSION_TICKET"} =>
             Reached(e) = state[e]
        /\ Reached(e) \in {"CR_SERVER_HELLO", "CR_NEW_SESSION_TICKET"} => Reached(e) = state[e]
    BY <1>1, <1>3, Skips
  <2>2. CASE Reached(e) = "CR_NEW_SESSION_TICKET"
    <3>1. state' = state
      BY <1>1, <1>3, <2>1, <2>2, ClientTable DEF TlsType
    <3> QED BY <1>1, <1>3, <2>1, <2>2, <3>1, ClientTable
  <2>3. CASE Reached(e) # "CR_NEW_SESSION_TICKET"
    <3> DEFINE st == Reached(e)
    <3>1. \/ st = "CR_SERVER_HELLO" /\ type = "SERVER_HELLO"
             /\ proc[e][st].next = "CR_ENCRYPTED_EXTENSIONS"
          \/ st = "CR_FINISHED" /\ type = "FINISHED" /\ proc[e][st].next = "CW_FINISHED"
          \/ /\ st \notin {"CR_SERVER_HELLO", "CR_FINISHED"}
             /\ type \in {"ENCRYPTED_EXTENSIONS", "CERTIFICATE", "CERTIFICATE_VERIFY",
                          "CERTIFICATE_REQUEST"}
             /\ proc[e][st].next \in ClientReads \ {"CR_SERVER_HELLO", "CR_NEW_SESSION_TICKET"}
      BY <1>1, <1>3, <2>1, <2>3, ClientTable DEF ClientReads
    <3> HIDE DEF st
    <3>2. state' = [state EXCEPT !["client"] = proc[e][st].next]
      BY <1>1, <1>3 DEF st
    <3>3. st \in {"CR_SERVER_HELLO", "CR_NEW_SESSION_TICKET"} => st = state[e]
      BY <2>1 DEF st
    <3>4. state[e] \in {"CR_SERVER_HELLO", "CR_FINISHED", "CR_NEW_SESSION_TICKET"} => st = state[e]
      BY <2>1 DEF st
    <3>5. st # "CR_NEW_SESSION_TICKET"
      BY <2>3 DEF st
    <3> QED BY <1>3, <2>1, <3>1, <3>2, <3>3, <3>4, <3>5
  <2> QED BY <2>2, <2>3
<1> QED BY <1>2, <1>3 DEF Ends

-----------------------------------------------------------------------------
(* Memory and transcripts.                                                    *)

\* The units of a message.
LEMMA CellsOf ==
    ASSUME NEW m \in Messages, m.type \in Types
    PROVE  /\ Cells(m) \in Seq(AllCells) /\ Len(Cells(m)) = MsgLen[m.type]
           /\ MsgLen[m.type] \in Nat /\ MsgLen[m.type] >= 1
           /\ \A i \in 1 .. MsgLen[m.type] : Cells(m)[i].msg = m
<1>1. MsgLen[m.type] \in Nat /\ MsgLen[m.type] >= 1
  BY HandshakeAssumption
<1>2. \A i \in 1 .. MsgLen[m.type] : Cells(m)[i] \in AllCells /\ Cells(m)[i].msg = m
  BY DEF Cells, AllCells
<1>3. Cells(m) \in [1 .. MsgLen[m.type] -> AllCells]
  BY <1>2 DEF Cells
<1> QED BY <1>1, <1>2, <1>3

\* Bytes never written are of no message.
LEMMA NoCellKnown == NoCell \in AllCells /\ NoCell.msg.type = "none"
<1>1. <<>> \in Transcripts
  BY DEF Transcripts
<1> QED BY <1>1 DEF NoCell, Message, Messages, AllCells

\* The memcpy of a frame or of a message keeps what it does not overwrite.
LEMMA Overwrites ==
    ASSUME NEW C, NoCell \in C, NEW mem \in Seq(C), NEW cs \in Seq(C), NEW at \in Nat
    PROVE  /\ Overwrite(mem, at, cs) \in Seq(C)
           /\ Len(Overwrite(mem, at, cs)) = Biggest(Len(mem), at + Len(cs))
           /\ Len(Overwrite(mem, at, cs)) >= Len(mem)
           /\ Len(Overwrite(mem, at, cs)) >= at + Len(cs)
<1> DEFINE n == Biggest(Len(mem), at + Len(cs))
<1>1. n \in Nat /\ n >= Len(mem) /\ n >= at + Len(cs)
  BY DEF Biggest
<1>2. ASSUME NEW i \in 1 .. n
      PROVE  (IF i \in at + 1 .. at + Len(cs) THEN cs[i - at]
              ELSE IF i <= Len(mem) THEN mem[i] ELSE NoCell) \in C
  <2>1. CASE i \in at + 1 .. at + Len(cs)
    <3>1. i - at \in 1 .. Len(cs)
      BY <2>1
    <3> QED BY <2>1, <3>1
  <2>2. CASE i \notin at + 1 .. at + Len(cs)
    BY <2>2, <1>1
  <2> QED BY <2>1, <2>2
<1>3. Overwrite(mem, at, cs) \in [1 .. n -> C]
  BY <1>2 DEF Overwrite
<1> QED BY <1>1, <1>3

\* A part of the memory.
LEMMA Parts ==
    ASSUME NEW C, NEW mem \in Seq(C), NEW first \in Nat, first >= 1,
           NEW last \in Nat, last <= Len(mem), first <= last + 1
    PROVE  /\ SubSeq(mem, first, last) \in Seq(C)
           /\ Len(SubSeq(mem, first, last)) = (last - first) + 1
BY SubSeqProperties

\* Digesting units makes a transcript longer by as many.
LEMMA Digests ==
    ASSUME NEW d \in Transcripts, NEW cs \in Seq(AllCells)
    PROVE  /\ Units(cs) \in Transcripts /\ Len(Units(cs)) = Len(cs)
           /\ Digested(d, cs) \in Transcripts
           /\ d # NoDigest => /\ Digested(d, cs) = d \o Units(cs) /\ Digested(d, cs) # NoDigest
                              /\ Len(Digested(d, cs)) = Len(d) + Len(cs)
           /\ d = NoDigest => Digested(d, cs) = NoDigest
<1> DEFINE U == (Types \cup {"none", "dcid"}) \X Nat
<1>1. \A i \in 1 .. Len(cs) : cs[i] \in AllCells
  OBVIOUS
<1>2. \A i \in 1 .. Len(cs) : <<cs[i].msg.type, cs[i].at>> \in U
  BY <1>1 DEF AllCells, Messages
<1>3. Units(cs) \in [1 .. Len(cs) -> U]
  BY <1>2 DEF Units
<1>4. Units(cs) \in Seq(U) /\ Len(Units(cs)) = Len(cs)
  BY <1>3
<1>5. d \in Seq(U)
  BY DEF Transcripts
<1>6. d # NoDigest => Len(d) >= 1
  BY <1>5 DEF NoDigest
<1> HIDE DEF U
<1>7. d \o Units(cs) \in Seq(U) /\ Len(d \o Units(cs)) = Len(d) + Len(cs)
  BY <1>4, <1>5
<1>8. d # NoDigest => d \o Units(cs) # NoDigest
  BY <1>4, <1>5, <1>6, <1>7 DEF NoDigest
<1> QED BY <1>4, <1>5, <1>7, <1>8 DEF Transcripts, Digested, U, NoDigest

\* A Finished of one proof adds the same units as any other.
LEMMA FinishedDigested ==
    ASSUME NEW m \in Messages, m.type = "FINISHED", NEW d \in Transcripts
    PROVE  Digested(d, Cells(m)) = IF d = NoDigest THEN NoDigest ELSE d \o FinishedUnits
<1>1. MsgLen["FINISHED"] \in Nat /\ Len(Cells(m)) = MsgLen["FINISHED"]
  BY CellsOf DEF Types
<1>2. Units(Cells(m)) = FinishedUnits
  BY <1>1 DEF Units, Cells, FinishedUnits
<1> QED BY <1>2 DEF Digested

\* A message that TlsHandshakeRead takes lies inside the buffer.
LEMMA MessageAhead ==
    ASSUME TlsType, BufType, BufInv, NEW e \in Ends, Complete(e)
    PROVE  /\ NextType(e) \in Types /\ NextType(e) = Msg(e).type
           /\ rpkt[e].pos + 1 \in 1 .. Len(buf[e].mem) /\ NextCell(e) \in AllCells
           /\ Msg(e) \in Messages
           /\ Ahead(e) \in Seq(AllCells) /\ Len(Ahead(e)) = MsgLen[NextType(e)]
           /\ rpkt[e].pos + MsgLen[NextType(e)] <= Len(buf[e].mem)
           /\ MsgLen[NextType(e)] \in Nat /\ MsgLen[NextType(e)] >= 1
           /\ MsgLen[NextType(e)] <= rpkt[e].left
<1>1. /\ Running(e, "READING") /\ rpkt[e].left > 0 /\ proc[e][Reached(e)].msg = NextType(e)
      /\ rpkt[e].left >= MsgLen[NextType(e)] /\ pc[e] = "tls"
  BY DEF Complete, Matches, Running
<1>2. /\ buf[e].mem \in Seq(AllCells) /\ rpkt[e].pos \in Nat /\ rpkt[e].left \in Nat
      /\ rpkt[e].pos + rpkt[e].left <= Len(buf[e].mem)
  BY <1>1 DEF BufType, BufInv, Buffers
<1>3. rpkt[e].pos + 1 \in 1 .. Len(buf[e].mem) /\ NextCell(e) \in AllCells
  BY <1>1, <1>2 DEF NextCell
<1>4. Msg(e) \in Messages /\ NextType(e) \in {"none", Msg(e).type}
  BY <1>3 DEF AllCells, Msg, NextType
<1>5. proc[e][Reached(e)].msg # "none"
  <2>1. CASE e = "server"
    BY <1>1, <2>1, Skips, ServerTable
  <2>2. CASE e = "client"
    <3>1. Reached(e) \in ClientReads
      BY <1>1, <2>2, Skips
    <3> QED BY <2>2, <3>1, ClientTable DEF ClientReads
  <2> QED BY <2>1, <2>2 DEF Ends
<1>6. NextType(e) \in Types /\ NextType(e) = Msg(e).type
  BY <1>1, <1>4, <1>5 DEF Messages
<1>7. MsgLen[NextType(e)] \in Nat /\ MsgLen[NextType(e)] >= 1
  BY <1>6, HandshakeAssumption
<1>8. Ahead(e) \in Seq(AllCells) /\ Len(Ahead(e)) = MsgLen[NextType(e)]
  <2> DEFINE n == MsgLen[NextType(e)]
             p == rpkt[e].pos
             mem == buf[e].mem
  <2>1. /\ n \in Nat /\ n >= 1 /\ p \in Nat /\ p + n <= Len(mem) /\ mem \in Seq(AllCells)
        /\ p + 1 \in Nat /\ p + n \in Nat
    BY <1>1, <1>2, <1>7
  <2> HIDE DEF n, p, mem
  <2>2. SubSeq(mem, p + 1, p + n) \in Seq(AllCells) /\ Len(SubSeq(mem, p + 1, p + n)) = n
    BY <2>1, Parts
  <2> QED BY <2>2 DEF Ahead, n, p, mem
<1> QED BY <1>1, <1>2, <1>3, <1>4, <1>6, <1>7, <1>8

-----------------------------------------------------------------------------
(* The types of TLS.                                                          *)

\* The steps of an endpoint outside TLS, and the turns of its loop that change
\* nothing but what it returns.
Outside(e) ==
    \/ Call(e) \/ PreWork(e) \/ QuicSendPacket(e) \/ SendDone(e) \/ QuicDatagramRecv(e)
    \/ Duplicate(e) \/ RejectPacket(e) \/ RecvAck(e) \/ RecvCrypto(e) \/ FlowFinished(e)
    \/ ReadNothing(e) \/ WouldBlock(e)

\* Outside TLS neither its state nor a key changes.
LEMMA OutsideTls ==
    ASSUME NEW e \in Ends, Outside(e)
    PROVE  UNCHANGED <<state, hit, dgst, cert, keys>>
BY DEF Outside, Call, PreWork, QuicSendPacket, SendDone, QuicDatagramRecv, Duplicate,
   RejectPacket, RecvAck, RecvCrypto, FlowFinished, ReadNothing, WouldBlock, tlsVars

\* TlsHandshakeRead returning early moves the state to the one that waits.
Early(e) == ReadPart(e) \/ ReadRepeated(e) \/ ReadUnexpected(e)

\* A return of TlsHandshakeRead before a handler has run changes no key, and moves
\* the state of a client only among those that wait for what follows the ServerHello.
LEMMA EarlyTls ==
    ASSUME TlsType, NEW e \in Ends, Early(e) \/ HandlerFails(e)
    PROVE  /\ Running(e, "READING") /\ state' = [state EXCEPT ![e] = Reached(e)]
           /\ UNCHANGED <<hit, cert, keys>> /\ (Early(e) => dgst' = dgst)
           /\ state["server"]' = state["server"]
           /\ state["client"]' # state["client"] =>
                /\ state["client"] \notin {"CR_SERVER_HELLO", "CR_FINISHED", "CR_NEW_SESSION_TICKET"}
                /\ state["client"] \in ClientReads
                /\ state["client"]' \in ClientReads \ {"CR_SERVER_HELLO", "CR_NEW_SESSION_TICKET"}
           /\ state' \in [Ends -> ClientStates \cup ServerStates]
           /\ state["client"]' \in ClientStates /\ state["server"]' \in ServerStates
<1>1. /\ Running(e, "READING") /\ state' = [state EXCEPT ![e] = Reached(e)]
      /\ UNCHANGED <<hit, cert, keys>> /\ (Early(e) => dgst' = dgst)
  BY DEF Early, ReadPart, ReadRepeated, ReadUnexpected, ReadReturns, HandlerFails, Complete
<1>2. CASE e = "server"
  <2>1. state' = state
    BY <1>1, <1>2, Skips DEF TlsType
  <2> QED BY <1>1, <2>1 DEF TlsType
<1>3. CASE e = "client"
  <2>1. /\ state[e] \in ClientReads /\ Reached(e) \in ClientReads
        /\ state[e] \in {"CR_SERVER_HELLO", "CR_FINISHED", "CR_NEW_SESSION_TICKET"} =>
             Reached(e) = state[e]
        /\ Reached(e) \in {"CR_SERVER_HELLO", "CR_NEW_SESSION_TICKET"} => Reached(e) = state[e]
    BY <1>1, <1>3, Skips
  <2>2. state["client"]' = Reached(e) /\ state["server"]' = state["server"]
    BY <1>1, <1>3 DEF TlsType, Ends
  <2>3. ClientReads \subseteq ClientStates
    BY DEF ClientReads, ClientStates
  <2>4. state' \in [Ends -> ClientStates \cup ServerStates]
    BY <1>1, <2>1, <2>3 DEF TlsType
  <2> QED BY <1>1, <1>3, <2>1, <2>2, <2>3, <2>4 DEF TlsType
<1> QED BY <1>2, <1>3 DEF Ends

\* The digest after a message is a transcript.
LEMMA WithMsgType ==
    ASSUME TlsType, BufType, BufInv, NEW e \in Ends, Complete(e)
    PROVE  /\ WithMsg(e) \in Transcripts
           /\ dgst[e] = NoDigest => WithMsg(e) = NoDigest
           /\ dgst[e] # NoDigest => WithMsg(e) # NoDigest /\ Len(WithMsg(e)) >= Len(dgst[e])
<1>1. dgst[e] \in Transcripts /\ Ahead(e) \in Seq(AllCells)
  BY MessageAhead DEF TlsType
<1>2. Len(dgst[e]) \in Nat /\ Len(Ahead(e)) \in Nat
  BY <1>1 DEF Transcripts
<1> QED BY <1>1, <1>2, Digests DEF WithMsg

\* The digest that starts a transcript is not empty.
LEMMA CachedType ==
    ASSUME TlsType, BufType, BufInv, NEW e \in Ends, Complete(e)
    PROVE  /\ CachedRecords(e, MsgLen[NextType(e)]) \in Transcripts
           /\ CachedRecords(e, MsgLen[NextType(e)]) # NoDigest
<1> DEFINE n == MsgLen[NextType(e)]
           cs == SubSeq(buf[e].mem, 1, buf[e].reserved + n)
<1>1. /\ buf[e].mem \in Seq(AllCells) /\ buf[e].reserved \in Nat /\ rpkt[e].pos \in Nat
      /\ buf[e].reserved <= rpkt[e].pos
  BY DEF BufType, BufInv, Buffers, Complete, Running
<1>2. n \in Nat /\ n >= 1 /\ rpkt[e].pos + n <= Len(buf[e].mem)
  BY MessageAhead
<1> HIDE DEF n
<1>3. cs \in Seq(AllCells) /\ Len(cs) = buf[e].reserved + n
  BY <1>1, <1>2, Parts
<1> HIDE DEF cs
<1>4. <<>> \in Transcripts
  BY DEF Transcripts
<1>5. Units(cs) \in Transcripts /\ Len(Units(cs)) = Len(cs)
  BY <1>3, <1>4, Digests
<1> QED BY <1>1, <1>2, <1>3, <1>5 DEF CachedRecords, n, cs, NoDigest

\* A message is built in one state of one end.
LEMMA BuildsTls ==
    ASSUME TlsType, NEW e \in Ends, NEW st, NEW m \in Messages, m.type \in Types, Builds(e, st, m)
    PROVE  /\ state[e] = st /\ UNCHANGED <<hit, cert>>
           /\ dgst' = [dgst EXCEPT ![e] = Digested(dgst[e], Cells(m))]
           /\ dgst' \in [Ends -> Transcripts]
           /\ dgst[e] # NoDigest => /\ dgst'[e] # NoDigest
                                    /\ Len(dgst'[e]) = Len(dgst[e]) + MsgLen[m.type]
<1>1. /\ state[e] = st /\ UNCHANGED <<hit, cert>>
      /\ dgst' = [dgst EXCEPT ![e] = Digested(dgst[e], Cells(m))]
  BY DEF Builds, Running
<1>2. dgst[e] \in Transcripts /\ Cells(m) \in Seq(AllCells) /\ Len(Cells(m)) = MsgLen[m.type]
  BY CellsOf DEF TlsType
<1>3. Digested(dgst[e], Cells(m)) \in Transcripts
  BY <1>2, Digests
<1>4. dgst[e] # NoDigest => /\ Digested(dgst[e], Cells(m)) # NoDigest
                            /\ Len(Digested(dgst[e], Cells(m))) = Len(dgst[e]) + MsgLen[m.type]
  BY <1>2, Digests
<1>5. dgst'[e] = Digested(dgst[e], Cells(m))
  BY <1>1 DEF TlsType
<1> QED BY <1>1, <1>3, <1>4, <1>5 DEF TlsType

\* What each message says.
LEMMA MessageTypes ==
    ASSUME TlsType, NEW e \in Ends, NEW type \in Types, NEW h \in BOOLEAN
    PROVE  /\ Message(type, h, <<>>) \in Messages /\ Message(type, h, dgst[e]) \in Messages
           /\ Message(type, h, <<>>).type = type /\ Message(type, h, dgst[e]).type = type
           /\ Message(type, h, dgst[e]).mac = dgst[e]
<1>1. <<>> \in Transcripts /\ dgst[e] \in Transcripts
  BY DEF Transcripts, TlsType
<1> QED BY <1>1 DEF Message, Messages

\* QuicCreateEncryptorDecryptor keeps the type of the keys.
LEMMA Installs ==
    ASSUME NEW k \in [Levels -> Transcripts], NEW l \in Levels, NEW t \in Transcripts
    PROVE  /\ Install(k, l, t) \in [Levels -> Transcripts]
           /\ Install(k, l, t)[l] = IF k[l] = NoKey THEN t ELSE k[l]
           /\ l = "HANDSHAKE" => Install(k, l, t)["1RTT"] = k["1RTT"]
BY DEF Install, Levels

\* QuicCreateEncryptorDecryptor changes the keys of one end in one direction.
LEMMA DecChanges ==
    ASSUME NEW k \in [Ends -> KeyType], NEW e \in Ends, NEW a \in [Levels -> Transcripts]
    PROVE  /\ [k EXCEPT ![e].dec = a] \in [Ends -> KeyType]
           /\ [k EXCEPT ![e].dec = a][e].dec = a /\ [k EXCEPT ![e].dec = a][e].enc = k[e].enc
           /\ \A f \in Ends \ {e} : [k EXCEPT ![e].dec = a][f] = k[f]
<1>1. k[e] \in KeyType
  OBVIOUS
<1>2. [k[e] EXCEPT !.dec = a] \in KeyType
  BY <1>1 DEF KeyType
<1>3. [k[e] EXCEPT !.dec = a].dec = a /\ [k[e] EXCEPT !.dec = a].enc = k[e].enc
  BY <1>1 DEF KeyType
<1> QED BY <1>2, <1>3

\* The same for the keys that encrypt.
LEMMA EncChanges ==
    ASSUME NEW k \in [Ends -> KeyType], NEW e \in Ends, NEW b \in [Levels -> Transcripts]
    PROVE  /\ [k EXCEPT ![e].enc = b] \in [Ends -> KeyType]
           /\ [k EXCEPT ![e].enc = b][e].enc = b /\ [k EXCEPT ![e].enc = b][e].dec = k[e].dec
           /\ \A f \in Ends \ {e} : [k EXCEPT ![e].enc = b][f] = k[f]
<1>1. k[e] \in KeyType
  OBVIOUS
<1>2. [k[e] EXCEPT !.enc = b] \in KeyType
  BY <1>1 DEF KeyType
<1>3. [k[e] EXCEPT !.enc = b].enc = b /\ [k[e] EXCEPT !.enc = b].dec = k[e].dec
  BY <1>1 DEF KeyType
<1> QED BY <1>2, <1>3

\* Or in both.
LEMMA KeysChange ==
    ASSUME TlsType, NEW e \in Ends, NEW a \in [Levels -> Transcripts],
           NEW b \in [Levels -> Transcripts],
           \/ keys' = [keys EXCEPT ![e].dec = a, ![e].enc = b]
           \/ keys' = [keys EXCEPT ![e].enc = b, ![e].dec = a]
           \/ keys' = [keys EXCEPT ![e].dec = a] /\ b = keys[e].enc
           \/ keys' = [keys EXCEPT ![e].enc = b] /\ a = keys[e].dec
    PROVE  /\ keys' \in [Ends -> KeyType] /\ keys'[e].dec = a /\ keys'[e].enc = b
           /\ \A f \in Ends \ {e} : keys'[f] = keys[f]
<1>0. keys \in [Ends -> KeyType]
  BY DEF TlsType
<1>1. CASE keys' = [keys EXCEPT ![e].dec = a, ![e].enc = b]
  <2> DEFINE k == [keys EXCEPT ![e].dec = a]
  <2>1. /\ k \in [Ends -> KeyType] /\ k[e].dec = a
        /\ \A f \in Ends \ {e} : k[f] = keys[f]
    BY <1>0, DecChanges
  <2>2. keys' = [k EXCEPT ![e].enc = b]
    BY <1>1
  <2> HIDE DEF k
  <2> QED BY <2>1, <2>2, EncChanges
<1>2. CASE keys' = [keys EXCEPT ![e].enc = b, ![e].dec = a]
  <2> DEFINE k == [keys EXCEPT ![e].enc = b]
  <2>1. /\ k \in [Ends -> KeyType] /\ k[e].enc = b
        /\ \A f \in Ends \ {e} : k[f] = keys[f]
    BY <1>0, EncChanges
  <2>2. keys' = [k EXCEPT ![e].dec = a]
    BY <1>2
  <2> HIDE DEF k
  <2> QED BY <2>1, <2>2, DecChanges
<1>3. CASE keys' = [keys EXCEPT ![e].dec = a] /\ b = keys[e].enc
  BY <1>0, <1>3, DecChanges
<1>4. CASE keys' = [keys EXCEPT ![e].enc = b] /\ a = keys[e].dec
  BY <1>0, <1>4, EncChanges
<1> QED BY <1>1, <1>2, <1>3, <1>4

\* So a state of a flow table follows one of the same table.
LEMMA StateType ==
    ASSUME TlsType, NEW e \in Ends, NEW st, state' = [state EXCEPT ![e] = st],
           e = "client" => st \in ClientStates, e = "server" => st \in ServerStates
    PROVE  /\ state' \in [Ends -> ClientStates \cup ServerStates]
           /\ state["client"]' \in ClientStates /\ state["server"]' \in ServerStates
BY DEF TlsType, Ends

\* The handlers keep the types.
LEMMA HandlersType ==
    ASSUME TlsType, BufType, BufInv, NEW e \in Ends,
           \/ ClientHelloProc(e) \/ ServerHelloProc(e) \/ EncExtProc(e) \/ ServerCertProc(e)
           \/ CertVerifyProc(e) \/ ClientFinishedProc(e) \/ SrvrFinishedProc(e)
           \/ NewSessionTicketProc(e)
    PROVE  TlsType'
<1>1. PICK type : Handles(e, type)
  BY DEF ClientHelloProc, ServerHelloProc, EncExtProc, ServerCertProc, CertVerifyProc,
     ClientFinishedProc, SrvrFinishedProc, NewSessionTicketProc
<1>2. Complete(e) /\ NextType(e) = type
  BY <1>1 DEF Handles
<1>3. /\ state' \in [Ends -> ClientStates \cup ServerStates]
      /\ state["client"]' \in ClientStates /\ state["server"]' \in ServerStates
  BY <1>1, Handled, StateType DEF ClientStates, ServerStates, ClientReads, TlsType
<1>4. /\ WithMsg(e) \in Transcripts /\ CachedRecords(e, MsgLen[type]) \in Transcripts
      /\ Msg(e) \in Messages
  BY <1>2, WithMsgType, CachedType, MessageAhead
<1>5. dgst' \in [Ends -> Transcripts]
  <2>1. dgst' = [dgst EXCEPT ![e] = WithMsg(e)] \/ dgst' = [dgst EXCEPT ![e] = CachedRecords(e, MsgLen[type])]
    BY <1>1, <1>2 DEF ClientHelloProc, ServerHelloProc, EncExtProc, ServerCertProc, CertVerifyProc,
       ClientFinishedProc, SrvrFinishedProc, NewSessionTicketProc, Handles
  <2> QED BY <1>4, <2>1 DEF TlsType
<1>6. hit' \in [Ends -> BOOLEAN]
  <2>1. \/ hit' = hit \/ \E h \in Resume : hit' = [hit EXCEPT ![e] = h]
        \/ hit' = [hit EXCEPT ![e] = Msg(e).hit]
    BY DEF ClientHelloProc, ServerHelloProc, EncExtProc, ServerCertProc, CertVerifyProc,
       ClientFinishedProc, SrvrFinishedProc, NewSessionTicketProc
  <2> QED BY <1>4, <2>1, HandshakeAssumption DEF TlsType, Messages
<1>7. keys' \in [Ends -> KeyType]
  <2>1. /\ keys[e].enc \in [Levels -> Transcripts] /\ keys[e].dec \in [Levels -> Transcripts]
        /\ keys[e].enc["1RTT"] \in Transcripts /\ keys[e].dec["HANDSHAKE"] \in Transcripts
        /\ "HANDSHAKE" \in Levels /\ "1RTT" \in Levels /\ dgst'[e] \in Transcripts
    BY <1>5 DEF TlsType, KeyType, Levels
  <2>2. CASE ServerHelloProc(e)
    <3>1. keys' = [keys EXCEPT ![e].dec = Install(keys[e].dec, "HANDSHAKE", dgst'[e])]
      BY <2>2 DEF ServerHelloProc
    <3> QED BY <2>1, <3>1, Installs, KeysChange
  <2>3. CASE ClientFinishedProc(e)
    <3>1. keys' = [keys EXCEPT ![e].dec = Install(keys[e].dec, "1RTT", dgst'[e]),
                               ![e].enc = Install(keys[e].enc, "HANDSHAKE", keys[e].dec["HANDSHAKE"])]
      BY <2>3 DEF ClientFinishedProc
    <3>2. /\ Install(keys[e].dec, "1RTT", dgst'[e]) \in [Levels -> Transcripts]
          /\ Install(keys[e].enc, "HANDSHAKE", keys[e].dec["HANDSHAKE"]) \in [Levels -> Transcripts]
      BY <2>1, Installs
    <3> QED BY <3>1, <3>2, KeysChange
  <2>4. CASE SrvrFinishedProc(e)
    <3>1. keys' = [keys EXCEPT ![e].dec = Install(keys[e].dec, "1RTT", keys[e].enc["1RTT"])]
      BY <2>4 DEF SrvrFinishedProc
    <3> QED BY <2>1, <3>1, Installs, KeysChange
  <2>5. CASE keys' = keys
    BY <2>5 DEF TlsType
  <2> QED BY <2>2, <2>3, <2>4, <2>5 DEF ClientHelloProc, ServerHelloProc, EncExtProc, ServerCertProc,
       CertVerifyProc, ClientFinishedProc, SrvrFinishedProc, NewSessionTicketProc
<1> QED BY <1>3, <1>5, <1>6, <1>7 DEF TlsType

\* What each flight builds, and in which state of which end.
Built(e, m, st, next) ==
    \/ /\ e = "client" /\ st = "CW_CLIENT_HELLO" /\ m.type = "CLIENT_HELLO"
       /\ next = "CR_SERVER_HELLO" /\ keys' = keys
    \/ /\ e = "client" /\ st = "CW_FINISHED" /\ next = "CR_NEW_SESSION_TICKET"
       /\ m = Message("FINISHED", FALSE, dgst[e]) /\ ClntFinishedBuild(e)
    \/ /\ e = "server" /\ st = "SW_SERVER_HELLO" /\ next = "SW_ENCRYPTED_EXTENSIONS"
       /\ m.type = "SERVER_HELLO" /\ ServerHelloBuild(e)
    \/ /\ e = "server" /\ st = "SW_FINISHED" /\ next = "SR_FINISHED"
       /\ m = Message("FINISHED", FALSE, dgst[e]) /\ SrvrFinishedBuild(e)
    \/ /\ e = "server" /\ st = "SW_NEW_SESSION_TICKET" /\ keys' = keys
       /\ m.type = "NEW_SESSION_TICKET" /\ next \in {st, "SW_HANDSHAKE_DONE"}
    \/ /\ e = "server" /\ keys' = keys /\ m.type # "FINISHED"
       /\ st \in {"SW_ENCRYPTED_EXTENSIONS", "SW_SERVER_CERTIFICATE", "SW_CERT_VERIFY"}
       /\ next \in {"SW_SERVER_CERTIFICATE", "SW_CERT_VERIFY", "SW_FINISHED"}

\* A step that writes builds one message, in the one state that does.
LEMMA BuildSteps ==
    ASSUME TlsType, NEW e \in Ends, Writes(e)
    PROVE  \E m \in Messages : \E st, next, r :
             m.type \in Types /\ Builds(e, st, m) /\ Goes(e, next, r) /\ Built(e, m, st, next)
<1>0. /\ hit[e] \in BOOLEAN /\ FALSE \in BOOLEAN
      /\ \A st : Running(e, "WRITING") /\ state[e] = st => st \in ClientStates \/ st \in ServerStates
      /\ state[e] \in {"CW_CLIENT_HELLO", "CW_FINISHED"} => e = "client"
      /\ state[e] \in {"SW_SERVER_HELLO", "SW_FINISHED", "SW_NEW_SESSION_TICKET",
                       "SW_ENCRYPTED_EXTENSIONS", "SW_SERVER_CERTIFICATE", "SW_CERT_VERIFY"} =>
           e = "server"
  BY DEF TlsType, Ends, ClientStates, ServerStates
<1>a. \A st, m : Builds(e, st, m) => state[e] = st
  BY DEF Builds
<1>b. \A t \in Types : Message(t, FALSE, <<>>) \in Messages /\ Message(t, FALSE, <<>>).type = t
  BY <1>0, MessageTypes
<1>c. \A t \in Types : Message(t, FALSE, dgst[e]) \in Messages /\ Message(t, FALSE, dgst[e]).type = t
  BY <1>0, MessageTypes
<1>1. CASE ClientHelloBuild(e)
  BY <1>0, <1>a, <1>b, <1>1 DEF ClientHelloBuild, Types, Built
<1>2. CASE ServerHelloBuild(e)
  <2>1. Message("SERVER_HELLO", hit[e], <<>>) \in Messages
        /\ Message("SERVER_HELLO", hit[e], <<>>).type = "SERVER_HELLO"
    BY <1>0, MessageTypes DEF Types
  <2> QED BY <1>0, <1>a, <1>2, <2>1 DEF ServerHelloBuild, Types, Built
<1>3. CASE EncryptedExtBuild(e)
  BY <1>0, <1>a, <1>b, <1>3 DEF EncryptedExtBuild, Types, Built
<1>4. CASE ServerCertBuild(e)
  BY <1>0, <1>a, <1>b, <1>4 DEF ServerCertBuild, Types, Built
<1>5. CASE CertVerifyBuild(e)
  BY <1>0, <1>a, <1>c, <1>5 DEF CertVerifyBuild, Types, Built
<1>6. CASE SrvrFinishedBuild(e)
  BY <1>0, <1>a, <1>c, <1>6 DEF SrvrFinishedBuild, Types, Built
<1>7. CASE ClntFinishedBuild(e)
  BY <1>0, <1>a, <1>c, <1>7 DEF ClntFinishedBuild, Types, Built
<1>8. CASE NewSessionTicketBuild(e)
  <2>1. \E r, next : Goes(e, next, r) /\ next \in {state[e], "SW_HANDSHAKE_DONE"}
    BY <1>8 DEF NewSessionTicketBuild
  <2> QED BY <1>0, <1>a, <1>b, <1>8, <2>1 DEF NewSessionTicketBuild, Types, Built
<1> QED BY <1>1, <1>2, <1>3, <1>4, <1>5, <1>6, <1>7, <1>8 DEF Writes

\* The two ends of a flight that make keys.
LEMMA BuildKeys ==
    ASSUME TlsType, NEW e \in Ends, Writes(e), dgst' \in [Ends -> Transcripts]
    PROVE  /\ keys' \in [Ends -> KeyType]
           /\ e = "server" => keys'["client"] = keys["client"]
           /\ e = "client" => keys'["server"] = keys["server"]
           /\ ServerHelloBuild(e) => /\ keys'[e].dec = keys[e].dec
                                     /\ keys'[e].enc["1RTT"] = keys[e].enc["1RTT"]
           /\ ClntFinishedBuild(e) =>
                /\ keys'[e].dec = keys[e].dec
                /\ keys'[e].enc["1RTT"] = IF keys[e].enc["1RTT"] = NoKey
                                          THEN keys[e].dec["1RTT"] ELSE keys[e].enc["1RTT"]
           /\ SrvrFinishedBuild(e) =>
                /\ keys'[e].dec["1RTT"] = keys[e].dec["1RTT"]
                /\ keys'[e].enc["1RTT"] = IF keys[e].enc["1RTT"] = NoKey
                                          THEN dgst'[e] ELSE keys[e].enc["1RTT"]
           /\ ~ServerHelloBuild(e) /\ ~ClntFinishedBuild(e) /\ ~SrvrFinishedBuild(e) => keys' = keys
<1>1. /\ keys[e].enc \in [Levels -> Transcripts] /\ keys[e].dec \in [Levels -> Transcripts]
      /\ keys[e].dec["1RTT"] \in Transcripts /\ keys[e].enc["HANDSHAKE"] \in Transcripts
      /\ "HANDSHAKE" \in Levels /\ "1RTT" \in Levels /\ dgst'[e] \in Transcripts
  BY DEF TlsType, KeyType, Levels
<1>2. CASE ServerHelloBuild(e)
  <2> DEFINE b == Install(keys[e].enc, "HANDSHAKE", dgst'[e])
  <2>0. "HANDSHAKE" \in Levels /\ dgst'[e] \in Transcripts /\ keys[e].enc \in [Levels -> Transcripts]
    BY <1>1
  <2>1. b \in [Levels -> Transcripts] /\ b["1RTT"] = keys[e].enc["1RTT"]
    BY <1>1, <2>0, Installs
  <2>2. keys' = [keys EXCEPT ![e].enc = b]
    BY <1>2 DEF ServerHelloBuild
  <2>3. state[e] = "SW_SERVER_HELLO"
    BY <1>2 DEF ServerHelloBuild, Builds
  <2>4. ~ClntFinishedBuild(e) /\ ~SrvrFinishedBuild(e)
    BY <2>3 DEF ClntFinishedBuild, SrvrFinishedBuild, Builds
  <2> HIDE DEF b
  <2>5. /\ keys' \in [Ends -> KeyType] /\ keys'[e].dec = keys[e].dec /\ keys'[e].enc = b
        /\ \A f \in Ends \ {e} : keys'[f] = keys[f]
    BY <1>1, <2>1, <2>2, KeysChange
  <2> QED BY <1>2, <2>1, <2>4, <2>5 DEF Ends
<1>3. CASE ClntFinishedBuild(e)
  <2> DEFINE b == Install(keys[e].enc, "1RTT", keys[e].dec["1RTT"])
  <2>1. b \in [Levels -> Transcripts]
        /\ b["1RTT"] = IF keys[e].enc["1RTT"] = NoKey THEN keys[e].dec["1RTT"] ELSE keys[e].enc["1RTT"]
    BY <1>1, Installs
  <2>2. keys' = [keys EXCEPT ![e].enc = b]
    BY <1>3 DEF ClntFinishedBuild
  <2>3. state[e] = "CW_FINISHED"
    BY <1>3 DEF ClntFinishedBuild, Builds
  <2>4. ~ServerHelloBuild(e) /\ ~SrvrFinishedBuild(e)
    BY <2>3 DEF ServerHelloBuild, SrvrFinishedBuild, Builds
  <2> HIDE DEF b
  <2>5. /\ keys' \in [Ends -> KeyType] /\ keys'[e].dec = keys[e].dec /\ keys'[e].enc = b
        /\ \A f \in Ends \ {e} : keys'[f] = keys[f]
    BY <1>1, <2>1, <2>2, KeysChange
  <2> QED BY <1>3, <2>1, <2>4, <2>5 DEF Ends
<1>4. CASE SrvrFinishedBuild(e)
  <2> DEFINE a == Install(keys[e].dec, "HANDSHAKE", keys[e].enc["HANDSHAKE"])
             b == Install(keys[e].enc, "1RTT", dgst'[e])
  <2>a. a \in [Levels -> Transcripts] /\ a["1RTT"] = keys[e].dec["1RTT"]
    BY <1>1, Installs
  <2>b. /\ b \in [Levels -> Transcripts]
        /\ b["1RTT"] = IF keys[e].enc["1RTT"] = NoKey THEN dgst'[e] ELSE keys[e].enc["1RTT"]
    BY <1>1, Installs
  <2>1. /\ a \in [Levels -> Transcripts] /\ b \in [Levels -> Transcripts]
        /\ a["1RTT"] = keys[e].dec["1RTT"]
        /\ b["1RTT"] = IF keys[e].enc["1RTT"] = NoKey THEN dgst'[e] ELSE keys[e].enc["1RTT"]
    BY <2>a, <2>b
  <2>2. keys' = [keys EXCEPT ![e].dec = a, ![e].enc = b]
    BY <1>4 DEF SrvrFinishedBuild
  <2>3. state[e] = "SW_FINISHED"
    BY <1>4 DEF SrvrFinishedBuild, Builds
  <2>4. ~ServerHelloBuild(e) /\ ~ClntFinishedBuild(e)
    BY <2>3 DEF ServerHelloBuild, ClntFinishedBuild, Builds
  <2> HIDE DEF a, b
  <2>5. /\ keys' \in [Ends -> KeyType] /\ keys'[e].dec = a /\ keys'[e].enc = b
        /\ \A f \in Ends \ {e} : keys'[f] = keys[f]
    BY <2>1, <2>2, KeysChange
  <2> QED BY <1>4, <2>1, <2>4, <2>5 DEF Ends
<1>5. CASE ~ServerHelloBuild(e) /\ ~ClntFinishedBuild(e) /\ ~SrvrFinishedBuild(e)
  <2>1. keys' = keys
    BY <1>5 DEF Writes, ClientHelloBuild, EncryptedExtBuild, ServerCertBuild, CertVerifyBuild,
       NewSessionTicketBuild
  <2> QED BY <1>5, <2>1 DEF TlsType
<1> QED BY <1>2, <1>3, <1>4, <1>5

\* RecvHandshakeDone drops the handshake keys only.
LEMMA DoneKeys ==
    ASSUME TlsType, NEW e \in Ends, RecvHandshakeDone(e)
    PROVE  /\ keys' \in [Ends -> KeyType] /\ UNCHANGED <<state, hit, dgst, cert>>
           /\ \A f \in Ends : /\ keys'[f].enc["1RTT"] = keys[f].enc["1RTT"]
                              /\ keys'[f].dec["1RTT"] = keys[f].dec["1RTT"]
<1>0. UNCHANGED <<state, hit, dgst, cert>>
  BY DEF RecvHandshakeDone, tlsVars
<1>1. CASE e = "client"
  <2> DEFINE b == [keys[e].enc EXCEPT !["HANDSHAKE"] = NoKey]
             a == [keys[e].dec EXCEPT !["HANDSHAKE"] = NoKey]
  <2>1. /\ keys[e].enc \in [Levels -> Transcripts] /\ keys[e].dec \in [Levels -> Transcripts]
        /\ NoKey \in Transcripts
    BY DEF TlsType, KeyType, Transcripts, NoKey
  <2>2. /\ a \in [Levels -> Transcripts] /\ b \in [Levels -> Transcripts]
        /\ a["1RTT"] = keys[e].dec["1RTT"] /\ b["1RTT"] = keys[e].enc["1RTT"]
    BY <2>1 DEF Levels
  <2>3. keys' = [keys EXCEPT ![e].enc = b, ![e].dec = a]
    <3>1. keys' = [keys EXCEPT ![e].enc["HANDSHAKE"] = NoKey, ![e].dec["HANDSHAKE"] = NoKey]
      BY <1>1 DEF RecvHandshakeDone
    <3>2. keys[e] \in KeyType /\ keys \in [Ends -> KeyType]
      BY DEF TlsType
    <3>3. [keys EXCEPT ![e].enc = b][e].dec = keys[e].dec
      BY <2>2, <3>2, EncChanges
    <3> QED BY <3>1, <3>3
  <2> HIDE DEF a, b
  <2>4. /\ keys' \in [Ends -> KeyType] /\ keys'[e].dec = a /\ keys'[e].enc = b
        /\ \A f \in Ends \ {e} : keys'[f] = keys[f]
    BY <2>2, <2>3, KeysChange
  <2> QED BY <1>0, <2>2, <2>4
<1>2. CASE e # "client"
  <2>1. keys' = keys
    BY <1>2 DEF RecvHandshakeDone
  <2> QED BY <1>0, <2>1 DEF TlsType
<1> QED BY <1>1, <1>2

\* FlowNothing leaves OK, TlsReturn ends a server's flow; neither does more.
LEMMA FlowTls ==
    ASSUME TlsType, NEW e \in Ends, FlowNothing(e) \/ TlsReturn(e)
    PROVE  /\ UNCHANGED <<hit, dgst, cert, keys>>
           /\ \/ state' = state
              \/ /\ e = "client" /\ state[e] = "OK"
                 /\ state' = [state EXCEPT ![e] = "CW_CLIENT_HELLO"]
              \/ /\ e = "server" /\ state[e] = "OK"
                 /\ state' = [state EXCEPT ![e] = "SR_CLIENT_HELLO"]
              \/ /\ e = "server" /\ state[e] = "SW_HANDSHAKE_DONE" /\ TlsReturn(e)
                 /\ state' = [state EXCEPT ![e] = "HANDSHAKE_DONE"]
<1>1. CASE FlowNothing(e)
  <2>1. /\ proc[e][state[e]].flow = "NOTHING"
        /\ state' = [state EXCEPT ![e] = proc[e][state[e]].next]
        /\ UNCHANGED <<hit, dgst, cert, keys>>
    BY <1>1 DEF FlowNothing, Running
  <2>2. CASE e = "client"
    <3>1. state[e] = "OK"
      BY <2>1, <2>2, ClientTable DEF TlsType, ClientStates
    <3> QED BY <2>1, <2>2, <3>1, ClientTable
  <2>3. CASE e = "server"
    <3>1. state[e] = "OK"
      BY <2>1, <2>3, ServerTable DEF TlsType, ServerStates
    <3> QED BY <2>1, <2>3, <3>1, ServerTable
  <2> QED BY <2>2, <2>3 DEF Ends
<1>2. CASE TlsReturn(e)
  <2>1. /\ UNCHANGED <<hit, dgst, cert, keys>>
        /\ state' = [state EXCEPT ![e] = IF FlightDone(e) THEN "HANDSHAKE_DONE" ELSE state[e]]
    BY <1>2 DEF TlsReturn
  <2>2. CASE FlightDone(e)
    <3>1. state[e] = "SW_HANDSHAKE_DONE"
      BY <2>2 DEF FlightDone
    <3>2. e = "server"
      BY <3>1 DEF TlsType, Ends, ClientStates
    <3> QED BY <1>2, <2>1, <2>2, <3>1, <3>2
  <2>3. CASE ~FlightDone(e)
    <3>1. state' = state
      BY <2>1, <2>3 DEF TlsType
    <3> QED BY <2>1, <3>1
  <2> QED BY <2>2, <2>3
<1> QED BY <1>1, <1>2

\* The steps of Next in the groups that the lemmas above are about.
Handler(e) ==
    \/ ClientHelloProc(e) \/ ServerHelloProc(e) \/ EncExtProc(e) \/ ServerCertProc(e)
    \/ CertVerifyProc(e) \/ ClientFinishedProc(e) \/ SrvrFinishedProc(e)
    \/ NewSessionTicketProc(e)

\* Every step is in one of the groups.
LEMMA Groups ==
    ASSUME NEW e \in Ends, Call(e) \/ Run(e) \/ Duplicate(e)
    PROVE  \/ Outside(e) \/ Early(e) \/ HandlerFails(e) \/ Handler(e) \/ Writes(e)
           \/ RecvHandshakeDone(e) \/ FlowNothing(e) \/ TlsReturn(e)
BY DEF Run, Outside, Early, Handler, Reads

\* Every step keeps the types of TLS.
LEMMA TlsTypeStep ==
    ASSUME TlsType, BufType, BufInv, NEW e \in Ends, Call(e) \/ Run(e) \/ Duplicate(e)
    PROVE  TlsType'
<1>1. CASE Outside(e)
  BY <1>1, OutsideTls DEF TlsType
<1>2. CASE Early(e)
  BY <1>2, EarlyTls DEF TlsType
<1>3. CASE HandlerFails(e)
  <2>1. dgst' = [dgst EXCEPT ![e] = WithMsg(e)] /\ Complete(e)
    BY <1>3 DEF HandlerFails
  <2>2. WithMsg(e) \in Transcripts
    BY <2>1, WithMsgType
  <2>3. dgst' \in [Ends -> Transcripts]
    BY <2>1, <2>2 DEF TlsType
  <2>4. /\ UNCHANGED <<hit, keys>> /\ state' \in [Ends -> ClientStates \cup ServerStates]
        /\ state["client"]' \in ClientStates /\ state["server"]' \in ServerStates
    BY <1>3, EarlyTls
  <2> QED BY <2>3, <2>4 DEF TlsType
<1>4. CASE Handler(e)
  BY <1>4, HandlersType DEF Handler
<1>5. CASE Writes(e)
  <2>0. PICK m \in Messages : \E st, next, r :
          m.type \in Types /\ Builds(e, st, m) /\ Goes(e, next, r) /\ Built(e, m, st, next)
    BY <1>5, BuildSteps
  <2>1. PICK st, next, r :
          m.type \in Types /\ Builds(e, st, m) /\ Goes(e, next, r) /\ Built(e, m, st, next)
    BY <2>0
  <2>2. dgst' \in [Ends -> Transcripts] /\ hit' = hit
    BY <2>1, BuildsTls
  <2>3. state' = [state EXCEPT ![e] = next]
    BY <2>1 DEF Goes
  <2>4. /\ state' \in [Ends -> ClientStates \cup ServerStates]
        /\ state["client"]' \in ClientStates /\ state["server"]' \in ServerStates
    <3>1. /\ e = "client" => next \in ClientStates
          /\ e = "server" => next \in ServerStates
      BY <2>1 DEF Built, ClientStates, ServerStates
    <3> QED BY <2>3, <3>1, StateType
  <2>5. keys' \in [Ends -> KeyType]
    BY <1>5, <2>2, BuildKeys
  <2> QED BY <2>2, <2>4, <2>5 DEF TlsType
<1>6. CASE RecvHandshakeDone(e)
  BY <1>6, DoneKeys DEF TlsType
<1>7. CASE FlowNothing(e) \/ TlsReturn(e)
  <2>1. /\ state' \in [Ends -> ClientStates \cup ServerStates]
        /\ state["client"]' \in ClientStates /\ state["server"]' \in ServerStates
    BY <1>7, FlowTls, StateType DEF ClientStates, ServerStates, TlsType
  <2> QED BY <1>7, <2>1, FlowTls DEF TlsType
<1> QED BY <1>1, <1>2, <1>3, <1>4, <1>5, <1>6, <1>7, Groups

-----------------------------------------------------------------------------
(* The types of calls, buffers and packets.                                   *)

\* Every step keeps the types of calls.
LEMMA CallTypeStep ==
    ASSUME CallType, NEW e \in Ends, Call(e) \/ Run(e) \/ Duplicate(e)
    PROVE  CallType'
<1>1. CASE Outside(e)
  <2>1. CASE Call(e) \/ Duplicate(e) \/ FlowFinished(e) \/ ReadNothing(e)
    BY <2>1 DEF Call, Duplicate, FlowFinished, ReadNothing, CallType, callVars
  <2>2. CASE PreWork(e)
    BY <2>2 DEF PreWork, EnterTls, CallType
  <2>3. CASE QuicSendPacket(e) \/ QuicDatagramRecv(e) \/ WouldBlock(e)
    BY <2>3 DEF QuicSendPacket, QuicDatagramRecv, WouldBlock, CallType, callVars
  <2>4. CASE SendDone(e)
    BY <2>4 DEF SendDone, GetError, CallType
  <2>5. CASE RejectPacket(e)
    BY <2>5 DEF RejectPacket, PacketFails, CallType
  <2>6. CASE RecvAck(e)
    BY <2>6 DEF RecvAck, PacketDone, CallType
  <2>7. CASE RecvCrypto(e)
    BY <2>7 DEF RecvCrypto, EnterTls, CallType
  <2> QED BY <1>1, <2>1, <2>2, <2>3, <2>4, <2>5, <2>6, <2>7 DEF Outside
<1>2. CASE Early(e)
  BY <1>2 DEF Early, ReadPart, ReadRepeated, ReadUnexpected, ReadReturns, CallType
<1>3. CASE HandlerFails(e)
  BY <1>3 DEF HandlerFails, CallType
<1>4. CASE Handler(e)
  BY <1>4 DEF Handler, ClientHelloProc, ServerHelloProc, EncExtProc, ServerCertProc,
     CertVerifyProc, ClientFinishedProc, SrvrFinishedProc, NewSessionTicketProc, Handles,
     CallType, callVars
<1>5. CASE Writes(e)
  BY <1>5 DEF Writes, ClientHelloBuild, ServerHelloBuild, EncryptedExtBuild, ServerCertBuild,
     CertVerifyBuild, SrvrFinishedBuild, ClntFinishedBuild, NewSessionTicketBuild, Builds, Goes,
     CallType
<1>6. CASE RecvHandshakeDone(e)
  BY <1>6 DEF RecvHandshakeDone, PacketDone, CallType
<1>7. CASE FlowNothing(e)
  BY <1>7 DEF FlowNothing, CallType, callVars
<1>8. CASE TlsReturn(e)
  <2>1. CASE phase[e] = "pre"
    BY <1>8, <2>1 DEF TlsReturn, CallType
  <2>2. CASE phase[e] = "read" /\ ret[e] = "ERROR"
    BY <1>8, <2>2 DEF TlsReturn, PacketFails, CallType
  <2>3. CASE phase[e] = "read" /\ ret[e] # "ERROR"
    BY <1>8, <2>3 DEF TlsReturn, PacketDone, CallType
  <2> QED BY <1>8, <2>1, <2>2, <2>3 DEF CallType
<1> QED BY <1>1, <1>2, <1>3, <1>4, <1>5, <1>6, <1>7, <1>8, Groups

\* What a step does to the buffer of its endpoint.
BufChange(e) ==
    \/ buf'[e] = buf[e]
    \/ /\ RejectPacket(e) \/ RecvAck(e) \/ RecvHandshakeDone(e)
       /\ buf'[e] = AfterInitialRecv(e, buf[e])
    \/ RecvCrypto(e) /\ buf'[e] = CryptoData(buf[e], Head(inq[e]))
    \/ ServerHelloProc(e) /\ buf'[e] = Clear(buf[e])
    \/ \E st : \E m \in Messages :
          /\ m.type \in Types /\ Builds(e, st, m) /\ \E next : Built(e, m, st, next)
          /\ buf'[e] = [buf[e] EXCEPT !.mem = Overwrite(buf[e].mem, wpkt[e].len, Cells(m))]
    \/ /\ TlsReturn(e)
       /\ buf'[e] = IF phase[e] = "pre"
                    THEN IF e = "client" THEN Reserve(AfterFlow(e)) ELSE AfterFlow(e)
                    ELSE AfterInitialRecv(e, AfterFlow(e))

\* Every change of a buffer keeps its type.
LEMMA BufOps ==
    ASSUME NEW b \in Buffers, NEW e \in Ends
    PROVE  /\ Clear(b) \in Buffers /\ Reserve(b) \in Buffers /\ AfterInitialRecv(e, b) \in Buffers
           /\ Clear(b).mem = b.mem /\ Reserve(b).mem = b.mem /\ AfterInitialRecv(e, b).mem = b.mem
           /\ Clear(b).reserved = 0 /\ Clear(b).data_len = 0
           /\ Reserve(b).reserved = b.data_len /\ Reserve(b).data_len = 0
           /\ AfterInitialRecv(e, b) \in {b, Clear(b)} /\ (e = "client" => AfterInitialRecv(e, b) = b)
<1>1. /\ Clear(b) \in Buffers /\ Reserve(b) \in Buffers
      /\ Clear(b).mem = b.mem /\ Reserve(b).mem = b.mem
      /\ Clear(b).reserved = 0 /\ Clear(b).data_len = 0
      /\ Reserve(b).reserved = b.data_len /\ Reserve(b).data_len = 0
  BY DEF Clear, Reserve, Buffers
<1> QED BY <1>1 DEF AfterInitialRecv

\* What TlsHandshake leaves of the buffer: its memory, and what was written as the data.
LEMMA AfterFlowType ==
    ASSUME BufType, NEW e \in Ends
    PROVE  /\ AfterFlow(e) \in Buffers /\ AfterFlow(e).mem = buf[e].mem
           /\ AfterFlow(e).reserved = buf[e].reserved /\ AfterFlow(e).data_len = wpkt[e].len
<1>1. /\ buf[e] \in Buffers /\ wpkt[e].len \in Nat /\ rpkt[e].read \in Nat
  BY DEF BufType
<1> DEFINE o == IF ret[e] \in {"WANT_READ", "NEXT"} /\ rpkt[e].left > 0
                THEN buf[e].offset + rpkt[e].read ELSE 0
<1>2. o \in Nat
  BY <1>1 DEF Buffers
<1>3. AfterFlow(e) = [buf[e] EXCEPT !.offset = o, !.data_len = wpkt[e].len]
  BY DEF AfterFlow
<1> HIDE DEF o
<1> QED BY <1>1, <1>2, <1>3 DEF Buffers

\* A CRYPTO frame that has arrived.
LEMMA ReceivedPacket ==
    ASSUME NetType, NEW e \in Ends, Received(e)
    PROVE  /\ Head(inq[e]) \in Packets(AllCells) /\ Tail(inq[e]) \in Seq(Packets(AllCells))
           /\ inq[e] \in Seq(Packets(AllCells)) /\ Len(inq[e]) >= 1
<1>1. inq[e] \in Seq(Packets(AllCells)) /\ inq[e] # <<>>
  BY DEF NetType, Carried, Received
<1> HIDE DEF Packets
<1> QED BY <1>1

\* A CRYPTO frame is copied behind what is reserved, and the memory grows to hold it.
LEMMA CryptoDataType ==
    ASSUME NEW b \in Buffers, NEW p \in Packets(AllCells)
    PROVE  /\ CryptoData(b, p) \in Buffers
           /\ CryptoData(b, p).mem = Overwrite(b.mem, b.reserved + p.offset, p.data)
           /\ CryptoData(b, p).reserved = b.reserved
           /\ CryptoData(b, p).offset = b.offset
           /\ CryptoData(b, p).data_len = Biggest(b.data_len, p.offset + Len(p.data))
           /\ Len(CryptoData(b, p).mem) >= Len(b.mem)
           /\ Len(CryptoData(b, p).mem) >= b.reserved + p.offset + Len(p.data)
<1>1. /\ b.mem \in Seq(AllCells) /\ b.reserved \in Nat /\ b.data_len \in Nat /\ b.offset \in Nat
      /\ p.offset \in Nat /\ p.data \in Seq(AllCells)
  BY DEF Buffers, Packets
<1>2. /\ Overwrite(b.mem, b.reserved + p.offset, p.data) \in Seq(AllCells)
      /\ Len(Overwrite(b.mem, b.reserved + p.offset, p.data)) >= Len(b.mem)
      /\ Len(Overwrite(b.mem, b.reserved + p.offset, p.data)) >=
           (b.reserved + p.offset) + Len(p.data)
  <2>1. b.reserved + p.offset \in Nat
    BY <1>1
  <2> QED BY <1>1, <2>1, NoCellKnown, Overwrites
<1>3. Biggest(b.data_len, p.offset + Len(p.data)) \in Nat
  BY <1>1 DEF Biggest
<1> QED BY <1>1, <1>2, <1>3 DEF CryptoData, Buffers

\* The steps and what they do to the buffers.
LEMMA BufSteps ==
    ASSUME TlsType, BufType, NEW e \in Ends, Call(e) \/ Run(e) \/ Duplicate(e)
    PROVE  BufChange(e) /\ \E b : buf' = [buf EXCEPT ![e] = b]
<1>0. buf = [buf EXCEPT ![e] = buf[e]]
  BY DEF BufType
<1>1. CASE RejectPacket(e) \/ RecvAck(e) \/ RecvHandshakeDone(e)
  <2>1. buf' = [buf EXCEPT ![e] = AfterInitialRecv(e, buf[e])]
    BY <1>1 DEF RejectPacket, RecvAck, RecvHandshakeDone, PacketFails, PacketDone
  <2> QED BY <1>1, <2>1 DEF BufChange, BufType
<1>2. CASE RecvCrypto(e)
  <2>1. buf' = [buf EXCEPT ![e] = CryptoData(buf[e], Head(inq[e]))]
    BY <1>2 DEF RecvCrypto
  <2> QED BY <1>2, <2>1 DEF BufChange, BufType
<1>3. CASE ServerHelloProc(e)
  <2>1. buf' = [buf EXCEPT ![e] = Clear(buf[e])]
    BY <1>3 DEF ServerHelloProc
  <2> QED BY <1>3, <2>1 DEF BufChange, BufType
<1>4. CASE Writes(e)
  <2>0. PICK m \in Messages : \E st : \E next :
          m.type \in Types /\ Builds(e, st, m) /\ Built(e, m, st, next)
    BY <1>4, BuildSteps
  <2>1. PICK st : m.type \in Types /\ Builds(e, st, m) /\ \E next : Built(e, m, st, next)
    BY <2>0
  <2>2. buf' = [buf EXCEPT ![e].mem = Overwrite(buf[e].mem, wpkt[e].len, Cells(m))]
    BY <2>1 DEF Builds
  <2>3. buf'[e] = [buf[e] EXCEPT !.mem = Overwrite(buf[e].mem, wpkt[e].len, Cells(m))]
    BY <2>2 DEF BufType
  <2> QED BY <2>1, <2>2, <2>3 DEF BufChange
<1>5. CASE TlsReturn(e)
  <2>1. CASE phase[e] = "pre"
    <3>1. buf' = [buf EXCEPT ![e] = IF e = "client" THEN Reserve(AfterFlow(e)) ELSE AfterFlow(e)]
      BY <1>5, <2>1 DEF TlsReturn
    <3> QED BY <1>5, <2>1, <3>1 DEF BufChange, BufType
  <2>2. CASE phase[e] # "pre"
    <3>1. buf' = [buf EXCEPT ![e] = AfterInitialRecv(e, AfterFlow(e))]
      BY <1>5, <2>2 DEF TlsReturn, PacketFails, PacketDone
    <3> QED BY <1>5, <2>2, <3>1 DEF BufChange, BufType
  <2> QED BY <2>1, <2>2
<1>6. CASE \/ Call(e) \/ PreWork(e) \/ QuicSendPacket(e) \/ SendDone(e) \/ QuicDatagramRecv(e)
           \/ Duplicate(e) \/ FlowFinished(e) \/ ReadNothing(e) \/ WouldBlock(e) \/ FlowNothing(e)
  <2>1. buf' = buf
    BY <1>6 DEF Call, PreWork, QuicSendPacket, SendDone, QuicDatagramRecv, Duplicate, FlowFinished,
       ReadNothing, WouldBlock, FlowNothing, bufVars
  <2> QED BY <1>0, <2>1 DEF BufChange
<1>7. CASE Early(e) \/ HandlerFails(e)
  <2>1. buf' = buf
    BY <1>7 DEF Early, ReadPart, ReadRepeated, ReadUnexpected, ReadReturns, HandlerFails
  <2> QED BY <1>0, <2>1 DEF BufChange
<1>8. CASE Handler(e) /\ ~ServerHelloProc(e)
  <2>1. buf' = buf
    BY <1>8 DEF Handler, ClientHelloProc, EncExtProc, ServerCertProc, CertVerifyProc,
       ClientFinishedProc, SrvrFinishedProc, NewSessionTicketProc
  <2> QED BY <1>0, <2>1 DEF BufChange
<1> QED BY <1>1, <1>2, <1>3, <1>4, <1>5, <1>6, <1>7, <1>8, Groups DEF Outside

\* A message is written behind what is written already.
LEMMA BuildsBuf ==
    ASSUME BufType, NEW e \in Ends, NEW m \in Messages, m.type \in Types
    PROVE  LET b == [buf[e] EXCEPT !.mem = Overwrite(buf[e].mem, wpkt[e].len, Cells(m))]
           IN /\ b \in Buffers /\ b.reserved = buf[e].reserved /\ b.data_len = buf[e].data_len
              /\ b.mem = Overwrite(buf[e].mem, wpkt[e].len, Cells(m))
              /\ Len(b.mem) >= Len(buf[e].mem) /\ Len(b.mem) >= wpkt[e].len + MsgLen[m.type]
<1>1. /\ buf[e] \in Buffers /\ buf[e].mem \in Seq(AllCells) /\ wpkt[e].len \in Nat
      /\ Cells(m) \in Seq(AllCells) /\ Len(Cells(m)) = MsgLen[m.type]
  BY CellsOf DEF BufType, Buffers
<1>2. /\ Overwrite(buf[e].mem, wpkt[e].len, Cells(m)) \in Seq(AllCells)
      /\ Len(Overwrite(buf[e].mem, wpkt[e].len, Cells(m))) >= Len(buf[e].mem)
      /\ Len(Overwrite(buf[e].mem, wpkt[e].len, Cells(m))) >= wpkt[e].len + Len(Cells(m))
  BY <1>1, NoCellKnown, Overwrites
<1> QED BY <1>1, <1>2 DEF Buffers

\* A step changes the buffer of its endpoint only, and never shortens it.
LEMMA BufferType ==
    ASSUME TlsType, BufType, NetType, NEW e \in Ends, Call(e) \/ Run(e) \/ Duplicate(e)
    PROVE  /\ buf' \in [Ends -> Buffers] /\ \A f \in Ends \ {e} : buf'[f] = buf[f]
           /\ Len(buf'[e].mem) >= Len(buf[e].mem)
<1>1. BufChange(e) /\ buf[e] \in Buffers
  BY BufSteps DEF BufType
<1>2. PICK b : buf' = [buf EXCEPT ![e] = b]
  BY BufSteps
<1>3. b = buf'[e] /\ \A f \in Ends \ {e} : buf'[f] = buf[f]
  BY <1>2 DEF BufType
<1>4. buf'[e] \in Buffers /\ Len(buf'[e].mem) >= Len(buf[e].mem)
  <2>0. Len(buf[e].mem) \in Nat
    BY <1>1 DEF Buffers
  <2>1. CASE buf'[e] = buf[e]
    BY <1>1, <2>0, <2>1
  <2>2. CASE buf'[e] = AfterInitialRecv(e, buf[e])
    <3>1. AfterInitialRecv(e, buf[e]) \in Buffers /\ AfterInitialRecv(e, buf[e]).mem = buf[e].mem
      BY <1>1, BufOps
    <3> QED BY <2>0, <2>2, <3>1
  <2>3. CASE RecvCrypto(e) /\ buf'[e] = CryptoData(buf[e], Head(inq[e]))
    <3>1. Head(inq[e]) \in Packets(AllCells)
      BY <2>3, ReceivedPacket DEF RecvCrypto
    <3> HIDE DEF Packets, Buffers
    <3> QED BY <1>1, <2>3, <3>1, CryptoDataType
  <2>4. CASE buf'[e] = Clear(buf[e])
    BY <1>1, <2>0, <2>4, BufOps
  <2>5. CASE \E st : \E m \in Messages :
               /\ m.type \in Types /\ Builds(e, st, m)
               /\ buf'[e] = [buf[e] EXCEPT !.mem = Overwrite(buf[e].mem, wpkt[e].len, Cells(m))]
    <3>1. PICK m \in Messages :
            /\ m.type \in Types
            /\ buf'[e] = [buf[e] EXCEPT !.mem = Overwrite(buf[e].mem, wpkt[e].len, Cells(m))]
      BY <2>5
    <3> HIDE DEF Buffers, Messages
    <3> QED BY <3>1, BuildsBuf
  <2>6. CASE buf'[e] = IF phase[e] = "pre"
                       THEN IF e = "client" THEN Reserve(AfterFlow(e)) ELSE AfterFlow(e)
                       ELSE AfterInitialRecv(e, AfterFlow(e))
    <3>1. AfterFlow(e) \in Buffers /\ AfterFlow(e).mem = buf[e].mem
      BY AfterFlowType
    <3>2. /\ Reserve(AfterFlow(e)) \in Buffers /\ AfterInitialRecv(e, AfterFlow(e)) \in Buffers
          /\ Reserve(AfterFlow(e)).mem = buf[e].mem
          /\ AfterInitialRecv(e, AfterFlow(e)).mem = buf[e].mem
      BY <3>1, BufOps
    <3> QED BY <2>0, <2>6, <3>1, <3>2
  <2> QED BY <1>1, <2>1, <2>2, <2>3, <2>4, <2>5, <2>6 DEF BufChange
<1>5. buf' \in [Ends -> Buffers]
  BY <1>2, <1>3, <1>4 DEF BufType
<1> QED BY <1>3, <1>4, <1>5

\* TlsHandshake reads what lies between the offset and the length of the data,
\* or stops at its assertion.
LEMMA Enters ==
    ASSUME CallType, BufType, NEW e \in Ends, NEW b \in Buffers, EnterTls(e, b)
    PROVE  /\ rpkt' \in [Ends -> [pos : Nat, left : Nat, read : Nat]]
           /\ wpkt' \in [Ends -> [len : Nat, level : Levels]] /\ wpkt'[e].len = 0
           /\ \A f \in Ends \ {e} : rpkt'[f] = rpkt[f] /\ wpkt'[f] = wpkt[f] /\ pc'[f] = pc[f]
           /\ \/ /\ b.data_len >= b.offset /\ pc'[e] = "tls"
                 /\ rpkt'[e].pos = b.reserved + b.offset
                 /\ rpkt'[e].left = b.data_len - b.offset
              \/ b.data_len < b.offset /\ pc'[e] = "aborted" /\ rpkt' = rpkt
<1>1. b.reserved \in Nat /\ b.offset \in Nat /\ b.data_len \in Nat
  BY DEF Buffers
<1>2. wpkt' = [wpkt EXCEPT ![e].len = 0]
  BY DEF EnterTls
<1>3. /\ wpkt' \in [Ends -> [len : Nat, level : Levels]] /\ wpkt'[e].len = 0
      /\ \A f \in Ends \ {e} : wpkt'[f] = wpkt[f]
  BY <1>2 DEF BufType
<1> DEFINE c == IF b.data_len >= b.offset THEN "tls" ELSE "aborted"
           r == IF b.data_len < b.offset THEN rpkt[e]
                ELSE [pos |-> b.reserved + b.offset, left |-> b.data_len - b.offset, read |-> 0]
<1>4. pc' = [pc EXCEPT ![e] = c] /\ rpkt' = [rpkt EXCEPT ![e] = r]
  BY DEF EnterTls
<1>5. r \in [pos : Nat, left : Nat, read : Nat]
  BY <1>1 DEF BufType
<1>6. \/ /\ b.data_len >= b.offset /\ c = "tls"
         /\ r.pos = b.reserved + b.offset /\ r.left = b.data_len - b.offset
      \/ b.data_len < b.offset /\ c = "aborted" /\ r = rpkt[e]
  BY <1>1
<1> HIDE DEF c, r
<1>7. /\ rpkt' \in [Ends -> [pos : Nat, left : Nat, read : Nat]] /\ rpkt'[e] = r
      /\ \A f \in Ends \ {e} : rpkt'[f] = rpkt[f]
      /\ r = rpkt[e] => rpkt' = rpkt
  BY <1>4, <1>5 DEF BufType
<1>8. pc'[e] = c /\ \A f \in Ends \ {e} : pc'[f] = pc[f]
  BY <1>4 DEF CallType
<1> QED BY <1>3, <1>6, <1>7, <1>8

\* A repeated message is one of the known types.
LEMMA RepeatedType ==
    ASSUME TlsType, BufType, BufInv, NEW e \in Ends, ReadRepeated(e)
    PROVE  MsgLen[NextType(e)] \in Nat
<1>1. Running(e, "READING") /\ rpkt[e].left > 0 /\ TlsHandshakeMsgRetrans(e, NextType(e), Reached(e))
  BY DEF ReadRepeated
<1>2. PICK s \in States(e) : proc[e][s].flow = "READING" /\ proc[e][s].msg = NextType(e)
  BY <1>1 DEF TlsHandshakeMsgRetrans
<1>3. NextType(e) \in Types \cup {"none"}
  <2>1. /\ buf[e].mem \in Seq(AllCells) /\ rpkt[e].pos \in Nat /\ rpkt[e].left \in Nat
        /\ rpkt[e].pos + rpkt[e].left <= Len(buf[e].mem)
    BY <1>1 DEF BufType, BufInv, Buffers, Running
  <2>2. NextCell(e) \in AllCells
    BY <1>1, <2>1 DEF NextCell
  <2> QED BY <2>2 DEF NextType, AllCells, Messages
<1>4. NextType(e) # "none"
  <2>1. CASE e = "client"
    <3>1. proc[e] = client_proc /\ States(e) = DOMAIN client_proc
      BY <2>1 DEF proc, States
    <3>2. \A st \in DOMAIN client_proc : client_proc[st].flow = "READING" => client_proc[st].msg # "none"
      BY DEF client_proc, Entry
    <3> QED BY <1>2, <3>1, <3>2
  <2>2. CASE e = "server"
    <3>1. proc[e] = server_proc /\ States(e) = DOMAIN server_proc
      BY <2>2 DEF proc, States
    <3>2. \A st \in DOMAIN server_proc : server_proc[st].flow = "READING" => server_proc[st].msg # "none"
      BY DEF server_proc, Entry
    <3> QED BY <1>2, <3>1, <3>2
  <2> QED BY <2>1, <2>2 DEF Ends
<1> QED BY <1>3, <1>4, HandshakeAssumption

\* What is left to read shrinks by the messages that are taken.
LEMMA PulledType ==
    ASSUME BufType, NEW e \in Ends, NEW n \in Nat, n <= rpkt[e].left,
           rpkt' = [rpkt EXCEPT ![e] = Pulled(e, n)]
    PROVE  /\ rpkt' \in [Ends -> [pos : Nat, left : Nat, read : Nat]]
           /\ rpkt'[e].pos = rpkt[e].pos + n /\ rpkt'[e].left = rpkt[e].left - n
           /\ \A f \in Ends \ {e} : rpkt'[f] = rpkt[f]
<1>1. rpkt[e] \in [pos : Nat, left : Nat, read : Nat]
  BY DEF BufType
<1>2. /\ Pulled(e, n) \in [pos : Nat, left : Nat, read : Nat]
      /\ Pulled(e, n).pos = rpkt[e].pos + n /\ Pulled(e, n).left = rpkt[e].left - n
  <2>1. /\ rpkt[e].pos \in Nat /\ rpkt[e].left \in Nat /\ rpkt[e].read \in Nat
        /\ rpkt[e].pos + n \in Nat /\ rpkt[e].left - n \in Nat /\ rpkt[e].read + n \in Nat
    BY <1>1
  <2> QED BY <1>1, <2>1 DEF Pulled
<1> QED BY <1>2 DEF BufType

\* What a step does to what is left to read, and to what is written.
ReadChange(e) ==
    \/ rpkt'[e] = rpkt[e] /\ wpkt'[e] = wpkt[e]
    \/ /\ Early(e) \/ HandlerFails(e) \/ Handler(e)
       /\ wpkt'[e] = wpkt[e]
       /\ \E n \in Nat : /\ n <= rpkt[e].left
                         /\ rpkt'[e].pos = rpkt[e].pos + n /\ rpkt'[e].left = rpkt[e].left - n
    \/ /\ PreWork(e) \/ RecvCrypto(e)
       /\ wpkt'[e].len = 0
       /\ \/ /\ pc'[e] = "tls" /\ buf'[e].data_len >= buf'[e].offset
             /\ rpkt'[e].pos = buf'[e].reserved + buf'[e].offset
             /\ rpkt'[e].left = buf'[e].data_len - buf'[e].offset
          \/ pc'[e] = "aborted" /\ rpkt'[e] = rpkt[e]
    \/ \E m \in Messages : \E st :
         /\ m.type \in Types /\ Builds(e, st, m) /\ rpkt'[e] = rpkt[e]
         /\ wpkt'[e].len = wpkt[e].len + MsgLen[m.type]

\* Every step changes what is left to read and what is written in one of those ways.
LEMMA ReadSteps ==
    ASSUME CallType, TlsType, BufType, NetType, BufInv, NEW e \in Ends,
           Call(e) \/ Run(e) \/ Duplicate(e)
    PROVE  /\ rpkt' \in [Ends -> [pos : Nat, left : Nat, read : Nat]]
           /\ wpkt' \in [Ends -> [len : Nat, level : Levels]]
           /\ \A f \in Ends \ {e} : rpkt'[f] = rpkt[f] /\ wpkt'[f] = wpkt[f]
           /\ ReadChange(e)
<1>1. CASE UNCHANGED <<rpkt, wpkt>>
  BY <1>1 DEF BufType, ReadChange
<1>2. CASE PreWork(e)
  <2>1. CASE EnterTls(e, buf[e])
    <3>1. buf' = buf /\ buf[e] \in Buffers
      BY <1>2 DEF PreWork, BufType
    <3> HIDE DEF Buffers
    <3> QED BY <1>2, <2>1, <3>1, Enters DEF ReadChange
  <2>2. CASE UNCHANGED <<rpkt, wpkt>>
    BY <1>1, <2>2
  <2> QED BY <1>2, <2>1, <2>2 DEF PreWork
<1>3. CASE RecvCrypto(e)
  <2> DEFINE b == CryptoData(buf[e], Head(inq[e]))
  <2>1. Head(inq[e]) \in Packets(AllCells) /\ buf[e] \in Buffers
    BY <1>3, ReceivedPacket DEF RecvCrypto, BufType
  <2>2. b \in Buffers
    <3> HIDE DEF Packets, Buffers
    <3> QED BY <2>1, CryptoDataType
  <2>3. EnterTls(e, b) /\ buf' = [buf EXCEPT ![e] = b]
    BY <1>3 DEF RecvCrypto
  <2>4. buf'[e] = b
    BY <2>3 DEF BufType
  <2> HIDE DEF b, Buffers
  <2> QED BY <1>3, <2>2, <2>3, <2>4, Enters DEF ReadChange
<1>4. CASE Writes(e)
  <2>0. PICK m \in Messages : \E st : m.type \in Types /\ Builds(e, st, m)
    BY <1>4, BuildSteps
  <2>1. PICK st : m.type \in Types /\ Builds(e, st, m)
    BY <2>0
  <2>2. /\ rpkt' = rpkt
        /\ wpkt' = [wpkt EXCEPT ![e] = [len |-> wpkt[e].len + MsgLen[m.type], level |-> proc[e][st].level]]
    BY <2>1 DEF Builds
  <2>3. MsgLen[m.type] \in Nat /\ wpkt[e].len \in Nat
    BY <2>1, HandshakeAssumption DEF BufType
  <2>4. proc[e][st].level \in Levels
    <3>1. state[e] = st
      BY <2>1 DEF Builds
    <3> QED BY <3>1, ClientTable, ServerTable DEF TlsType, Ends
  <2> QED BY <2>1, <2>2, <2>3, <2>4 DEF BufType, ReadChange
<1>5. ASSUME NEW n \in Nat, n <= rpkt[e].left, rpkt' = [rpkt EXCEPT ![e] = Pulled(e, n)],
             wpkt' = wpkt, Early(e) \/ HandlerFails(e) \/ Handler(e)
      PROVE  /\ rpkt' \in [Ends -> [pos : Nat, left : Nat, read : Nat]]
             /\ wpkt' \in [Ends -> [len : Nat, level : Levels]]
             /\ \A f \in Ends \ {e} : rpkt'[f] = rpkt[f] /\ wpkt'[f] = wpkt[f]
             /\ ReadChange(e)
  BY <1>5, PulledType DEF BufType, ReadChange
<1>6. CASE Early(e) /\ rpkt' # rpkt
  <2>1. /\ ReadRepeated(e) /\ rpkt[e].left >= MsgLen[NextType(e)] /\ wpkt' = wpkt
        /\ rpkt' = [rpkt EXCEPT ![e] = Pulled(e, MsgLen[NextType(e)])]
    BY <1>6 DEF Early, ReadPart, ReadRepeated, ReadUnexpected, ReadReturns
  <2>2. MsgLen[NextType(e)] \in Nat /\ rpkt[e].left \in Nat
    BY <2>1, RepeatedType DEF BufType
  <2> QED BY <1>5, <1>6, <2>1, <2>2
<1>7. CASE HandlerFails(e) \/ Handler(e)
  <2>1. Complete(e) /\ wpkt' = wpkt /\ rpkt' = [rpkt EXCEPT ![e] = Pulled(e, MsgLen[NextType(e)])]
    BY <1>7 DEF HandlerFails, Handler, ClientHelloProc, ServerHelloProc, EncExtProc,
       ServerCertProc, CertVerifyProc, ClientFinishedProc, SrvrFinishedProc,
       NewSessionTicketProc, Handles
  <2>2. MsgLen[NextType(e)] \in Nat /\ MsgLen[NextType(e)] <= rpkt[e].left
    BY <2>1, MessageAhead
  <2> QED BY <1>5, <1>7, <2>1, <2>2
<1>8. CASE Early(e) /\ rpkt' = rpkt
  BY <1>1, <1>8 DEF Early, ReadPart, ReadRepeated, ReadUnexpected, ReadReturns
<1>9. CASE Outside(e) /\ ~PreWork(e) /\ ~RecvCrypto(e)
  BY <1>1, <1>9 DEF Outside, Call, QuicSendPacket, SendDone, QuicDatagramRecv, Duplicate,
     RejectPacket, RecvAck, FlowFinished, ReadNothing, WouldBlock, bufVars
<1>10. CASE RecvHandshakeDone(e) \/ FlowNothing(e) \/ TlsReturn(e)
  BY <1>1, <1>10 DEF RecvHandshakeDone, FlowNothing, TlsReturn, bufVars
<1> QED BY <1>2, <1>3, <1>4, <1>6, <1>7, <1>8, <1>9, <1>10, Groups

\* The packet numbers stay numbers.
LEMMA NumbersStep ==
    ASSUME BufType, NetType, NEW e \in Ends, Call(e) \/ Run(e) \/ Duplicate(e)
    PROVE  pn' \in [Ends -> [Levels -> [sent : Nat, largest : Nat, acked : Nat]]]
<1> DEFINE N == [sent : Nat, largest : Nat, acked : Nat]
<1>0. pn \in [Ends -> [Levels -> N]] /\ \A l \in Levels : pn[e][l] \in N
  BY DEF BufType
<1>1. CASE QuicSendPacket(e)
  <2>1. PICK k \in 1 .. Len(txq[e]) :
          pn' = [pn EXCEPT ![e] = [l \in Levels |-> [pn[e][l] EXCEPT !.sent =
                   @ + Cardinality({j \in 1 .. k : txq[e][j].level = l})]]]
    BY <1>1 DEF QuicSendPacket
  <2>2. ASSUME NEW l \in Levels PROVE Cardinality({j \in 1 .. k : txq[e][j].level = l}) \in Nat
    <3>1. IsFiniteSet(1 .. k)
      <4>1. k \in Int /\ 1 \in Int
        BY DEF NetType, Carried
      <4> QED BY <4>1, FS_Interval
    <3>2. IsFiniteSet({j \in 1 .. k : txq[e][j].level = l})
      BY <3>1, FS_Subset
    <3> QED BY <3>2, FS_CardinalityType
  <2>3. ASSUME NEW l \in Levels
        PROVE  [pn[e][l] EXCEPT !.sent =
                  pn[e][l].sent + Cardinality({j \in 1 .. k : txq[e][j].level = l})] \in N
    BY <1>0, <2>2
  <2> DEFINE row == [l \in Levels |-> [pn[e][l] EXCEPT !.sent =
                       pn[e][l].sent + Cardinality({j \in 1 .. k : txq[e][j].level = l})]]
  <2>4. pn' = [pn EXCEPT ![e] = row]
    BY <2>1
  <2>5. row \in [Levels -> N]
    <3> HIDE DEF N
    <3> QED BY <2>3
  <2>6. pn' \in [Ends -> [Levels -> N]]
    <3> HIDE DEF N, row
    <3> QED BY <1>0, <2>4, <2>5
  <2> QED BY <2>6
<1>2. ASSUME NEW p \in Packets(AllCells), NEW acks, NoteNumber(e, p, acks)
      PROVE  pn' \in [Ends -> [Levels -> N]]
  <2> DEFINE new == [pn[e][p.level] EXCEPT !.largest = Biggest(pn[e][p.level].largest, p.pn)]
             nxt == IF acks /\ keys[e].enc[p.level] # NoKey /\ new.acked # new.largest
                    THEN [new EXCEPT !.acked = new.largest] ELSE new
  <2>1. p.level \in Levels /\ p.pn \in Nat
    BY DEF Packets
  <2>2. Biggest(pn[e][p.level].largest, p.pn) \in Nat
    BY <1>0, <2>1 DEF Biggest
  <2>3. new \in N
    BY <1>0, <2>1, <2>2
  <2>4. nxt \in N
    <3> HIDE DEF new
    <3> QED BY <2>3
  <2>5. pn' = [pn EXCEPT ![e][p.level] = nxt]
    BY <1>2 DEF NoteNumber
  <2> HIDE DEF new, nxt, N
  <2>6. pn[e] \in [Levels -> N]
    BY <1>0
  <2>7. [pn[e] EXCEPT ![p.level] = nxt] \in [Levels -> N]
    BY <2>4, <2>6
  <2>8. pn' = [pn EXCEPT ![e] = [pn[e] EXCEPT ![p.level] = nxt]]
    BY <2>5
  <2> QED BY <1>0, <2>7, <2>8
<1>3. CASE RecvAck(e) \/ RecvHandshakeDone(e) \/ RecvCrypto(e)
  <2>1. Head(inq[e]) \in Packets(AllCells)
    BY <1>3, ReceivedPacket DEF RecvAck, RecvHandshakeDone, RecvCrypto
  <2>2. \E acks : NoteNumber(e, Head(inq[e]), acks)
    BY <1>3 DEF RecvAck, RecvHandshakeDone, RecvCrypto
  <2> HIDE DEF Packets
  <2> QED BY <1>2, <2>1, <2>2
<1>4. CASE UNCHANGED pn
  BY <1>0, <1>4
<1>5. CASE Outside(e) /\ ~QuicSendPacket(e) /\ ~RecvAck(e) /\ ~RecvCrypto(e)
  BY <1>4, <1>5 DEF Outside, Call, PreWork, SendDone, QuicDatagramRecv, Duplicate, RejectPacket,
     FlowFinished, ReadNothing, WouldBlock
<1>6. CASE Early(e) \/ HandlerFails(e) \/ Handler(e)
  BY <1>4, <1>6 DEF Early, ReadPart, ReadRepeated, ReadUnexpected, ReadReturns, HandlerFails,
     Handler, ClientHelloProc, ServerHelloProc, EncExtProc, ServerCertProc, CertVerifyProc,
     ClientFinishedProc, SrvrFinishedProc, NewSessionTicketProc, Handles
<1>7. CASE Writes(e)
  BY <1>4, <1>7 DEF Writes, ClientHelloBuild, ServerHelloBuild, EncryptedExtBuild,
     ServerCertBuild, CertVerifyBuild, SrvrFinishedBuild, ClntFinishedBuild,
     NewSessionTicketBuild, Builds
<1>8. CASE FlowNothing(e) \/ TlsReturn(e)
  BY <1>4, <1>8 DEF FlowNothing, TlsReturn
<1> QED BY <1>1, <1>3, <1>5, <1>6, <1>7, <1>8, Groups

\* Every step keeps the types of the buffers.
LEMMA BufTypeStep ==
    ASSUME CallType, TlsType, BufType, NetType, BufInv, NEW e \in Ends,
           Call(e) \/ Run(e) \/ Duplicate(e)
    PROVE  BufType'
<1>1. buf' \in [Ends -> Buffers]
  BY BufferType
<1>2. /\ rpkt' \in [Ends -> [pos : Nat, left : Nat, read : Nat]]
      /\ wpkt' \in [Ends -> [len : Nat, level : Levels]]
  BY ReadSteps
<1>3. pn' \in [Ends -> [Levels -> [sent : Nat, largest : Nat, acked : Nat]]]
  BY NumbersStep
<1> QED BY <1>1, <1>2, <1>3 DEF BufType

-----------------------------------------------------------------------------
(* The buffers hold what is read and written.                                 *)

\* What BufInv says of an endpoint.
Fits(e) ==
    /\ wpkt[e].len <= Len(buf[e].mem)
    /\ buf[e].reserved + buf[e].data_len <= Len(buf[e].mem)
    /\ pc[e] = "tls" =>
         /\ rpkt[e].pos + rpkt[e].left <= Len(buf[e].mem)
         /\ buf[e].reserved <= rpkt[e].pos
         /\ wpkt[e].len = 0 \/ buf[e].reserved = 0

\* Where the flow of each end goes in a step, and by which handler or message
\* when it is one that the keys depend on.
ClientMoves ==
    \/ state'["client"] = state["client"]
    \/ state["client"] = "OK" /\ state'["client"] = "CW_CLIENT_HELLO"
    \/ state["client"] = "CW_CLIENT_HELLO" /\ state'["client"] = "CR_SERVER_HELLO"
    \/ /\ state["client"] = "CR_SERVER_HELLO" /\ state'["client"] = "CR_ENCRYPTED_EXTENSIONS"
       /\ ServerHelloProc("client")
    \/ /\ state["client"] \in ClientReads \ {"CR_SERVER_HELLO", "CR_NEW_SESSION_TICKET"}
       /\ state'["client"] \in ClientReads \ {"CR_SERVER_HELLO", "CR_NEW_SESSION_TICKET"}
    \/ /\ state["client"] \in ClientReads \ {"CR_SERVER_HELLO", "CR_NEW_SESSION_TICKET"}
       /\ state'["client"] = "CW_FINISHED" /\ ClientFinishedProc("client")
    \/ /\ state["client"] = "CW_FINISHED" /\ state'["client"] = "CR_NEW_SESSION_TICKET"
       /\ ClntFinishedBuild("client")
ServerMoves ==
    \/ state'["server"] = state["server"]
    \/ state["server"] = "OK" /\ state'["server"] = "SR_CLIENT_HELLO"
    \/ /\ state["server"] = "SR_CLIENT_HELLO" /\ state'["server"] = "SW_SERVER_HELLO"
       /\ ClientHelloProc("server")
    \/ state["server"] = "SW_SERVER_HELLO" /\ state'["server"] = "SW_ENCRYPTED_EXTENSIONS"
    \/ /\ state["server"] \in {"SW_ENCRYPTED_EXTENSIONS", "SW_SERVER_CERTIFICATE", "SW_CERT_VERIFY"}
       /\ state'["server"] \in {"SW_SERVER_CERTIFICATE", "SW_CERT_VERIFY", "SW_FINISHED"}
    \/ /\ state["server"] = "SW_FINISHED" /\ state'["server"] = "SR_FINISHED"
       /\ SrvrFinishedBuild("server")
    \/ /\ state["server"] = "SR_FINISHED" /\ state'["server"] = "SW_NEW_SESSION_TICKET"
       /\ SrvrFinishedProc("server")
    \/ state["server"] = "SW_NEW_SESSION_TICKET" /\ state'["server"] = "SW_HANDSHAKE_DONE"
    \/ /\ state["server"] = "SW_HANDSHAKE_DONE" /\ state'["server"] = "HANDSHAKE_DONE"
       /\ TlsReturn("server")

\* The handler that runs is the one of the message.
LEMMA HandlerOf ==
    ASSUME NEW e \in Ends, Handler(e)
    PROVE  \E type : /\ Handles(e, type)
                     /\ type = "SERVER_HELLO" => ServerHelloProc(e)
                     /\ type = "CLIENT_HELLO" => ClientHelloProc(e)
                     /\ type = "FINISHED" /\ e = "client" => ClientFinishedProc(e)
                     /\ type = "FINISHED" /\ e = "server" => SrvrFinishedProc(e)
<1>1. CASE ClientHelloProc(e)
  BY <1>1 DEF ClientHelloProc
<1>2. CASE ServerHelloProc(e)
  BY <1>2 DEF ServerHelloProc
<1>3. CASE ClientFinishedProc(e)
  BY <1>3 DEF ClientFinishedProc
<1>4. CASE SrvrFinishedProc(e)
  BY <1>4 DEF SrvrFinishedProc
<1>5. CASE \/ EncExtProc(e) \/ ServerCertProc(e) \/ CertVerifyProc(e)
           \/ NewSessionTicketProc(e)
  BY <1>5 DEF EncExtProc, ServerCertProc, CertVerifyProc, NewSessionTicketProc
<1> QED BY <1>1, <1>2, <1>3, <1>4, <1>5 DEF Handler

\* The two tables joined: each end moves along its own.
LEMMA Moves ==
    ASSUME TlsType, NEW e \in Ends, Call(e) \/ Run(e) \/ Duplicate(e)
    PROVE  ClientMoves /\ ServerMoves
<1>0. /\ DOMAIN state = Ends /\ "client" \in Ends /\ "server" \in Ends /\ "client" # "server"
      /\ \A st : state' = [state EXCEPT !["client"] = st] =>
                    state'["client"] = st /\ state'["server"] = state["server"]
      /\ \A st : state' = [state EXCEPT !["server"] = st] =>
                    state'["server"] = st /\ state'["client"] = state["client"]
  BY DEF TlsType, Ends
<1>1. CASE state' = state
  BY <1>1 DEF ClientMoves, ServerMoves
<1>2. CASE Outside(e) \/ RecvHandshakeDone(e)
  BY <1>1, <1>2, OutsideTls, DoneKeys
<1>3. CASE Early(e) \/ HandlerFails(e)
  BY <1>3, EarlyTls DEF ClientMoves, ServerMoves
<1>4. CASE Handler(e)
  <2>1. PICK type : /\ Handles(e, type)
                    /\ type = "SERVER_HELLO" => ServerHelloProc(e)
                    /\ type = "CLIENT_HELLO" => ClientHelloProc(e)
                    /\ type = "FINISHED" /\ e = "client" => ClientFinishedProc(e)
                    /\ type = "FINISHED" /\ e = "server" => SrvrFinishedProc(e)
    BY <1>4, HandlerOf
  <2>2. CASE e = "server"
    <3>1. \/ /\ type = "CLIENT_HELLO" /\ state[e] = "SR_CLIENT_HELLO"
             /\ state' = [state EXCEPT !["server"] = "SW_SERVER_HELLO"]
          \/ /\ type = "FINISHED" /\ state[e] = "SR_FINISHED"
             /\ state' = [state EXCEPT !["server"] = "SW_NEW_SESSION_TICKET"]
      BY <2>1, <2>2, Handled
    <3> QED BY <1>0, <2>1, <2>2, <3>1 DEF ClientMoves, ServerMoves
  <2>3. CASE e = "client"
    <3>1. \/ /\ type = "SERVER_HELLO" /\ state[e] = "CR_SERVER_HELLO"
             /\ state' = [state EXCEPT !["client"] = "CR_ENCRYPTED_EXTENSIONS"]
          \/ /\ type = "FINISHED" /\ state[e] \in ClientReads
             /\ state[e] \notin {"CR_SERVER_HELLO", "CR_NEW_SESSION_TICKET"}
             /\ state' = [state EXCEPT !["client"] = "CW_FINISHED"]
          \/ state' = state
          \/ /\ state[e] \in ClientReads \ {"CR_SERVER_HELLO", "CR_NEW_SESSION_TICKET"}
             /\ \E st \in ClientReads \ {"CR_SERVER_HELLO", "CR_NEW_SESSION_TICKET"} :
                  state' = [state EXCEPT !["client"] = st]
      BY <2>1, <2>3, Handled
    <3> QED BY <1>0, <1>1, <2>1, <2>3, <3>1 DEF ClientMoves, ServerMoves
  <2> QED BY <2>2, <2>3 DEF Ends
<1>5. CASE Writes(e)
  <2>1. PICK m \in Messages : \E st, next, r :
          m.type \in Types /\ Builds(e, st, m) /\ Goes(e, next, r) /\ Built(e, m, st, next)
    BY <1>5, BuildSteps
  <2>2. PICK st, next, r : Builds(e, st, m) /\ Goes(e, next, r) /\ Built(e, m, st, next)
    BY <2>1
  <2>3. state[e] = st /\ state' = [state EXCEPT ![e] = next]
    BY <2>2 DEF Builds, Goes
  <2> QED BY <1>0, <2>2, <2>3 DEF Built, ClientMoves, ServerMoves
<1>6. CASE FlowNothing(e) \/ TlsReturn(e)
  BY <1>0, <1>1, <1>6, FlowTls DEF ClientMoves, ServerMoves
<1> QED BY <1>2, <1>3, <1>4, <1>5, <1>6, Groups

-----------------------------------------------------------------------------
(* Calls: what the client's first flight depends on.                          *)

\* An endpoint does not touch what belongs to the other one.
LEMMA OthersKeep ==
    ASSUME CallType, TlsType, BufType, NetType, BufInv, NEW e \in Ends,
           Call(e) \/ Run(e) \/ Duplicate(e), NEW f \in Ends \ {e}
    PROVE  /\ pc'[f] = pc[f] /\ phase'[f] = phase[f] /\ ok'[f] = ok[f] /\ result'[f] = result[f]
           /\ statem'[f] = statem[f] /\ rwstate'[f] = rwstate[f] /\ inq'[f] = inq[f]
           /\ state'[f] = state[f] /\ buf'[f] = buf[f] /\ rpkt'[f] = rpkt[f] /\ wpkt'[f] = wpkt[f]
           /\ txq'[f] = txq[f]
<1>0. /\ DOMAIN pc = Ends /\ DOMAIN phase = Ends /\ DOMAIN ok = Ends /\ DOMAIN result = Ends
      /\ DOMAIN statem = Ends /\ DOMAIN rwstate = Ends /\ DOMAIN inq = Ends /\ DOMAIN state = Ends
      /\ DOMAIN txq = Ends
  BY DEF CallType, TlsType, NetType, Carried
<1>1. buf'[f] = buf[f] /\ rpkt'[f] = rpkt[f] /\ wpkt'[f] = wpkt[f]
  BY BufferType, ReadSteps
<1>2. CASE Outside(e)
  <2>0. state' = state
    BY <1>2, OutsideTls
  <2>1. CASE Call(e) \/ Duplicate(e) \/ FlowFinished(e) \/ ReadNothing(e)
    BY <1>0, <1>1, <2>0, <2>1 DEF Call, Duplicate, FlowFinished, ReadNothing, callVars, netVars
  <2>2. CASE PreWork(e)
    BY <1>0, <1>1, <2>0, <2>2 DEF PreWork, EnterTls, netVars
  <2>3. CASE QuicSendPacket(e) \/ QuicDatagramRecv(e) \/ WouldBlock(e)
    BY <1>0, <1>1, <2>0, <2>3 DEF QuicSendPacket, QuicDatagramRecv, WouldBlock, callVars, netVars
  <2>4. CASE SendDone(e)
    BY <1>0, <1>1, <2>0, <2>4 DEF SendDone, netVars
  <2>5. CASE RejectPacket(e)
    BY <1>0, <1>1, <2>0, <2>5 DEF RejectPacket, PacketFails
  <2>6. CASE RecvAck(e)
    BY <1>0, <1>1, <2>0, <2>6 DEF RecvAck, PacketDone, NoteNumber
  <2>7. CASE RecvCrypto(e)
    BY <1>0, <1>1, <2>0, <2>7 DEF RecvCrypto, EnterTls, NoteNumber
  <2> QED BY <1>2, <2>1, <2>2, <2>3, <2>4, <2>5, <2>6, <2>7 DEF Outside
<1>3. CASE Early(e) \/ HandlerFails(e)
  <2>1. state' = [state EXCEPT ![e] = Reached(e)]
    BY <1>3, EarlyTls
  <2> QED BY <1>0, <1>1, <1>3, <2>1 DEF Early, ReadPart, ReadRepeated, ReadUnexpected, ReadReturns,
         HandlerFails, netVars
<1>4. CASE Handler(e)
  <2>1. PICK type : Handles(e, type)
    BY <1>4, HandlerOf
  <2> QED BY <1>0, <1>1, <2>1 DEF Handles, callVars, netVars
<1>5. CASE Writes(e)
  <2>1. PICK m \in Messages : \E st, next, r :
          m.type \in Types /\ Builds(e, st, m) /\ Goes(e, next, r) /\ Built(e, m, st, next)
    BY <1>5, BuildSteps
  <2>2. PICK st, next, r : Builds(e, st, m) /\ Goes(e, next, r)
    BY <2>1
  <2> QED BY <1>0, <1>1, <2>2 DEF Builds, Goes, netVars
<1>6. CASE RecvHandshakeDone(e)
  BY <1>0, <1>1, <1>6 DEF RecvHandshakeDone, PacketDone, NoteNumber, tlsVars
<1>7. CASE FlowNothing(e)
  BY <1>0, <1>1, <1>7 DEF FlowNothing, callVars, netVars
<1>8. CASE TlsReturn(e)
  BY <1>0, <1>1, <1>8 DEF TlsReturn, PacketFails, PacketDone
<1> QED BY <1>2, <1>3, <1>4, <1>5, <1>6, <1>7, <1>8, Groups

\* What an endpoint is in the middle of: the turns of TlsHandshakeStatem.
InTls(e) ==
    /\ pc[e] = "tls" /\ pc' = pc /\ phase' = phase /\ statem' = statem /\ rwstate' = rwstate
    /\ inq' = inq

\* A turn of TlsHandshakeStatem touches nothing of the call it runs in.
LEMMA TlsTurns ==
    ASSUME TlsType, NEW e \in Ends,
           \/ Early(e) \/ HandlerFails(e) \/ Handler(e) \/ Writes(e) \/ FlowNothing(e)
           \/ FlowFinished(e) \/ ReadNothing(e)
    PROVE  InTls(e)
<1>1. CASE Early(e) \/ HandlerFails(e)
  BY <1>1 DEF Early, ReadPart, ReadRepeated, ReadUnexpected, ReadReturns, HandlerFails, Complete,
     Running, InTls, netVars
<1>2. CASE Handler(e)
  <2>1. PICK type : Handles(e, type)
    BY <1>2, HandlerOf
  <2> QED BY <2>1 DEF Handles, Complete, Running, InTls, callVars, netVars
<1>3. CASE Writes(e)
  <2>1. PICK m \in Messages : \E st, next, r :
          m.type \in Types /\ Builds(e, st, m) /\ Goes(e, next, r) /\ Built(e, m, st, next)
    BY <1>3, BuildSteps
  <2>2. PICK st : Builds(e, st, m)
    BY <2>1
  <2> QED BY <2>2 DEF Builds, Running, InTls, netVars
<1>4. CASE FlowNothing(e) \/ FlowFinished(e) \/ ReadNothing(e)
  BY <1>4 DEF FlowNothing, FlowFinished, ReadNothing, Running, InTls, callVars, netVars
<1> QED BY <1>1, <1>2, <1>3, <1>4

\* What CallInv says of an endpoint: a datagram is read inside the reading
\* phase, where the last thing the socket did was to read.
Reading(e) ==
    /\ inq[e] # <<>> => pc[e] \in {"read", "tls", "aborted"}
    /\ inq[e] # <<>> /\ pc[e] \in {"read", "tls"} => rwstate[e] = "FINISHED" /\ phase[e] = "read"
    /\ pc[e] = "read" => phase[e] = "read"
    /\ pc[e] = "tls" /\ phase[e] = "read" => rwstate[e] = "FINISHED"

\* Every step keeps what is said of reading.
LEMMA ReadingStep ==
    ASSUME CallType, TlsType, NetType, NEW e \in Ends, Call(e) \/ Run(e) \/ Duplicate(e), Reading(e)
    PROVE  Reading(e)'
<1>0. /\ DOMAIN pc = Ends /\ DOMAIN phase = Ends /\ DOMAIN rwstate = Ends /\ DOMAIN inq = Ends
  BY DEF CallType, NetType, Carried
<1>1. CASE InTls(e)
  BY <1>1 DEF InTls, Reading
<1>2. CASE Call(e) \/ Duplicate(e)
  BY <1>0, <1>2 DEF Call, Duplicate, callVars, netVars, Reading
<1>3. CASE PreWork(e)
  BY <1>0, <1>3 DEF PreWork, EnterTls, netVars, Reading
<1>4. CASE QuicSendPacket(e) \/ QuicDatagramRecv(e) \/ WouldBlock(e)
  BY <1>0, <1>4 DEF QuicSendPacket, QuicDatagramRecv, WouldBlock, callVars, netVars, Reading
<1>5. CASE SendDone(e)
  BY <1>0, <1>5 DEF SendDone, netVars, Reading
<1>6. CASE RejectPacket(e)
  BY <1>0, <1>6 DEF RejectPacket, PacketFails, Received, Reading
<1>7. CASE RecvAck(e)
  BY <1>0, <1>7 DEF RecvAck, PacketDone, Received, Reading
<1>8. CASE RecvHandshakeDone(e)
  BY <1>0, <1>8 DEF RecvHandshakeDone, PacketDone, Received, Reading
<1>9. CASE RecvCrypto(e)
  BY <1>0, <1>9 DEF RecvCrypto, EnterTls, Received, Reading
<1>10. CASE TlsReturn(e)
  <2>1. CASE phase[e] = "pre"
    BY <1>0, <1>10, <2>1 DEF TlsReturn, Reading
  <2>2. CASE phase[e] = "read" /\ ret[e] = "ERROR"
    BY <1>0, <1>10, <2>2 DEF TlsReturn, PacketFails, Reading
  <2>3. CASE phase[e] = "read" /\ ret[e] # "ERROR"
    BY <1>0, <1>10, <2>3 DEF TlsReturn, PacketDone, Reading
  <2> QED BY <2>1, <2>2, <2>3 DEF CallType
<1> QED BY <1>1, <1>2, <1>3, <1>4, <1>5, <1>6, <1>7, <1>8, <1>9, <1>10, TlsTurns, Groups DEF Outside

\* Nothing of the client's first call comes after its first packet, and a call
\* whose first packet fails is the last.
LEMMA FirstCall ==
    ASSUME CallType, TlsType, BufType, NetType, CallInv, BufInv, NEW e \in Ends,
           Call(e) \/ Run(e) \/ Duplicate(e), statem'["client"] = "INITIAL"
    PROVE  Untouched' \/ GivenUp'
<1> USE DEF Reading
<1>0. /\ DOMAIN pc = Ends /\ DOMAIN phase = Ends /\ DOMAIN rwstate = Ends /\ DOMAIN inq = Ends
      /\ DOMAIN ok = Ends /\ DOMAIN result = Ends /\ DOMAIN statem = Ends
      /\ "client" \in Ends /\ "server" \in Ends /\ "client" # "server"
  BY DEF CallType, NetType, Carried, Ends
<1>1. CASE e = "server"
  <2>1. /\ pc'["client"] = pc["client"] /\ phase'["client"] = phase["client"]
        /\ ok'["client"] = ok["client"] /\ result'["client"] = result["client"]
        /\ statem'["client"] = statem["client"] /\ rwstate'["client"] = rwstate["client"]
        /\ state'["client"] = state["client"] /\ buf'["client"] = buf["client"]
        /\ rpkt'["client"] = rpkt["client"] /\ wpkt'["client"] = wpkt["client"]
    BY <1>0, <1>1, OthersKeep
  <2> QED BY <2>1 DEF CallInv, Untouched, GivenUp
<1>2. CASE e = "client"
  <2> DEFINE c == "client"
  <2>0. Reading(c) /\ (pc[c] = "tls" /\ phase[c] = "pre" => statem[c] = "INITIAL")
    BY <1>0 DEF CallInv
  <2>1. CASE InTls(e)
    <3>1. statem[c] = "INITIAL" /\ pc'[c] = "tls" /\ phase'[c] = phase[c]
      BY <1>2, <2>1 DEF InTls
    <3>2. CASE phase[c] = "read"
      BY <3>1, <3>2 DEF GivenUp
    <3>3. CASE phase[c] # "read"
      <4>1. Untouched
        BY <1>2, <2>1, <3>1, <3>3 DEF InTls, CallInv, GivenUp
      <4>2. /\ rpkt[c].left = 0 /\ buf[c].data_len = 0 /\ phase[c] = "pre" /\ pc[c] = "tls"
            /\ state[c] \in {"OK", "CW_CLIENT_HELLO", "CR_SERVER_HELLO"}
            /\ wpkt[c].len # 0 => state[c] = "CR_SERVER_HELLO"
        BY <1>2, <2>1, <4>1 DEF InTls, Untouched
      <4>3. ~Early(c) /\ ~HandlerFails(c) /\ ~Handler(c)
        <5>1. \A type : ~Handles(c, type)
          BY <4>2 DEF Handles, Complete
        <5> QED BY <4>2, <5>1, HandlerOf, <1>0 DEF Early, ReadPart, ReadRepeated, ReadUnexpected,
               HandlerFails, Complete
      <4>4. CASE Writes(c)
        <5>1. PICK m \in Messages : \E st, next, r :
                m.type \in Types /\ Builds(c, st, m) /\ Goes(c, next, r) /\ Built(c, m, st, next)
          BY <1>0, <4>4, BuildSteps
        <5>2. PICK st, next, r : Builds(c, st, m) /\ Goes(c, next, r) /\ Built(c, m, st, next)
          BY <5>1
        <5>3. state[c] = st /\ state' = [state EXCEPT ![c] = next] /\ rpkt' = rpkt
              /\ buf' = [buf EXCEPT ![c].mem = Overwrite(@, wpkt[c].len, Cells(m))]
          BY <5>2 DEF Builds, Goes
        <5>4. state'[c] = "CR_SERVER_HELLO"
          BY <1>0, <4>2, <5>2, <5>3 DEF Built, TlsType
        <5>5. buf'[c].data_len = 0
          BY <1>0, <4>2, <5>3 DEF BufType, Buffers
        <5> QED BY <3>1, <4>2, <5>3, <5>4, <5>5 DEF Untouched
      <4>5. CASE FlowNothing(c)
        <5>1. /\ rpkt' = rpkt /\ wpkt' = wpkt /\ buf' = buf
          BY <4>5 DEF FlowNothing, bufVars
        <5>2. (state[c] = "OK" /\ state'[c] = "CW_CLIENT_HELLO") \/ state' = state
          BY <1>0, <4>5, FlowTls DEF TlsType
        <5> QED BY <3>1, <4>2, <5>1, <5>2 DEF Untouched
      <4>6. CASE FlowFinished(c) \/ ReadNothing(c) \/ Duplicate(c)
        <5>1. UNCHANGED <<state, rpkt, wpkt, buf>>
          BY <4>6 DEF FlowFinished, ReadNothing, Duplicate, tlsVars, bufVars
        <5> QED BY <3>1, <4>2, <5>1 DEF Untouched
      <4>7. /\ ~TlsReturn(c) /\ ~RecvHandshakeDone(c)
            /\ Outside(c) => FlowFinished(c) \/ ReadNothing(c) \/ Duplicate(c)
        BY <1>0, <2>1, <1>2, <4>2, <3>1 DEF InTls, Outside, Call, PreWork, QuicSendPacket, SendDone,
           QuicDatagramRecv, RejectPacket, RecvAck, RecvCrypto, WouldBlock, Received,
           RecvHandshakeDone, TlsReturn, CallType, PacketFails, PacketDone
      <4> QED BY <1>0, <1>2, <4>3, <4>4, <4>5, <4>6, <4>7, Groups
    <3> QED BY <3>2, <3>3
  <2>2. CASE Call(e) \/ Duplicate(e)
    <3>1. UNCHANGED <<ok, result, statem, rwstate, state, buf, rpkt, wpkt>>
      BY <2>2 DEF Call, Duplicate, callVars, tlsVars, bufVars
    <3>2. Call(e) => pc[c] = "idle" /\ pc'[c] = "pre" /\ result[c] # "error"
      BY <1>0, <1>2 DEF Call
    <3>3. Duplicate(e) => pc' = pc /\ phase' = phase
      BY DEF Duplicate, callVars
    <3> QED BY <2>2, <3>1, <3>2, <3>3 DEF CallInv, Untouched, GivenUp
  <2>3. CASE PreWork(e)
    <3>1. UNCHANGED <<statem, rwstate, state, buf>> /\ pc[c] = "pre" /\ phase'[c] = "pre"
      BY <1>0, <1>2, <2>3 DEF PreWork, tlsVars
    <3>2. Untouched
      BY <3>1 DEF CallInv, GivenUp
    <3>3. HasPreWork(c)
      BY <3>1 DEF HasPreWork
    <3>4. EnterTls(c, buf[c])
      BY <1>2, <2>3, <3>3 DEF PreWork
    <3>5. buf[c] \in Buffers
      BY <1>0 DEF BufType
    <3>6. /\ wpkt'[c].len = 0
          /\ \/ /\ pc'[c] = "tls" /\ rpkt'[c].left = buf[c].data_len - buf[c].offset
                /\ buf[c].data_len >= buf[c].offset
             \/ pc'[c] = "aborted"
      <4> HIDE DEF Buffers
      <4> QED BY <1>0, <3>4, <3>5, Enters
    <3>7. pc'[c] = "tls" => rpkt'[c].left = 0
      BY <3>2, <3>5, <3>6 DEF Untouched, Buffers
    <3> QED BY <3>1, <3>2, <3>6, <3>7 DEF Untouched, GivenUp
  <2>4. CASE QuicSendPacket(e) \/ QuicDatagramRecv(e) \/ WouldBlock(e)
    BY <1>0, <1>2, <2>4 DEF QuicSendPacket, QuicDatagramRecv, WouldBlock, callVars, tlsVars, bufVars,
       CallInv, Untouched, GivenUp
  <2>5. CASE SendDone(e)
    BY <1>0, <1>2, <2>5 DEF SendDone, tlsVars, bufVars, GetError, CallInv, Untouched, GivenUp
  <2>6. CASE RejectPacket(e)
    BY <1>0, <1>2, <2>0, <2>6 DEF RejectPacket, PacketFails, Received, GivenUp
  <2>7. ~RecvAck(e) /\ ~RecvHandshakeDone(e)
    BY <1>0, <1>2 DEF RecvAck, RecvHandshakeDone, PacketDone, CallType
  <2>8. CASE RecvCrypto(e)
    BY <1>0, <1>2, <2>0, <2>8 DEF RecvCrypto, EnterTls, Received, GivenUp
  <2>9. CASE TlsReturn(e)
    <3>1. CASE phase[c] = "read"
      <4>1. ret[c] = "ERROR" /\ PacketFails(c, AfterFlow(c)) /\ rwstate' = rwstate
        BY <1>0, <1>2, <2>9, <3>1 DEF TlsReturn, PacketDone, CallType
      <4>2. rwstate[c] = "FINISHED"
        BY <1>2, <2>0, <2>9, <3>1 DEF TlsReturn
      <4> QED BY <1>0, <4>1, <4>2 DEF PacketFails, GivenUp
    <3>2. CASE phase[c] # "read"
      <4>1. /\ pc[c] = "tls" /\ phase[c] = "pre" /\ statem[c] = "INITIAL"
            /\ pc'[c] = "send" /\ buf' = [buf EXCEPT ![c] = Reserve(AfterFlow(c))]
        BY <1>0, <1>2, <2>0, <2>9, <3>2 DEF TlsReturn, CallType
      <4>2. Untouched
        BY <4>1 DEF CallInv, GivenUp
      <4>3. state' = state
        BY <1>0, <1>2, <2>9, <4>2 DEF TlsReturn, FlightDone, Untouched, TlsType
      <4>4. buf'[c].data_len = 0
        <5>1. AfterFlow(c) \in Buffers
          BY <1>0, AfterFlowType
        <5> HIDE DEF Buffers
        <5>2. Reserve(AfterFlow(c)).data_len = 0
          BY <1>0, <5>1, BufOps
        <5> QED BY <1>0, <4>1, <5>2 DEF BufType
      <4> QED BY <4>1, <4>2, <4>3, <4>4 DEF Untouched
    <3> QED BY <3>1, <3>2
  <2> QED BY <1>2, <2>1, <2>2, <2>3, <2>4, <2>5, <2>6, <2>7, <2>8, <2>9, TlsTurns, Groups DEF Outside
<1> QED BY <1>1, <1>2 DEF Ends

\* Every step keeps what is said of calls.
LEMMA CallInvStep ==
    ASSUME CallType, TlsType, BufType, NetType, CallInv, BufInv, NEW e \in Ends,
           Call(e) \/ Run(e) \/ Duplicate(e)
    PROVE  CallInv'
<1>0. /\ DOMAIN pc = Ends /\ DOMAIN phase = Ends /\ DOMAIN statem = Ends
      /\ "client" \in Ends /\ "server" \in Ends /\ "client" # "server"
  BY DEF CallType, Ends
<1>1. ASSUME NEW f \in Ends PROVE Reading(f)'
  <2>1. Reading(f)
    BY DEF CallInv, Reading
  <2>2. CASE f = e
    BY <2>1, <2>2, ReadingStep
  <2>3. CASE f # e
    <3>1. pc'[f] = pc[f] /\ phase'[f] = phase[f] /\ rwstate'[f] = rwstate[f] /\ inq'[f] = inq[f]
      BY <2>3, OthersKeep
    <3> QED BY <2>1, <3>1 DEF Reading
  <2> QED BY <2>2, <2>3
<1>2. pc'["client"] = "tls" /\ phase'["client"] = "pre" => statem'["client"] = "INITIAL"
  <2>1. CASE e = "server"
    <3>1. /\ pc'["client"] = pc["client"] /\ phase'["client"] = phase["client"]
          /\ statem'["client"] = statem["client"]
      BY <1>0, <2>1, OthersKeep
    <3> QED BY <3>1 DEF CallInv
  <2>2. CASE e = "client"
    <3>1. CASE InTls(e) \/ Duplicate(e)
      BY <3>1 DEF InTls, CallInv, Duplicate, callVars
    <3>2. CASE PreWork(e)
      BY <1>0, <2>2, <3>2 DEF PreWork, HasPreWork
    <3>3. CASE Call(e) \/ QuicSendPacket(e) \/ SendDone(e) \/ QuicDatagramRecv(e) \/ WouldBlock(e)
      BY <1>0, <2>2, <3>3 DEF Call, QuicSendPacket, SendDone, QuicDatagramRecv, WouldBlock, callVars
    <3>4. CASE RejectPacket(e) \/ RecvAck(e) \/ RecvHandshakeDone(e) \/ TlsReturn(e)
      BY <1>0, <2>2, <3>4 DEF RejectPacket, RecvAck, RecvHandshakeDone, TlsReturn, PacketFails,
         PacketDone
    <3>5. CASE RecvCrypto(e)
      <4>1. phase' = phase /\ phase["client"] = "read"
        BY <1>0, <2>2, <3>5 DEF RecvCrypto, Received, CallInv
      <4> QED BY <4>1
    <3> QED BY <3>1, <3>2, <3>3, <3>4, <3>5, TlsTurns, Groups DEF Outside
  <2> QED BY <2>1, <2>2 DEF Ends
<1>3. statem'["client"] = "INITIAL" => Untouched' \/ GivenUp'
  BY FirstCall
<1> QED BY <1>1, <1>2, <1>3 DEF CallInv, Reading

-----------------------------------------------------------------------------
(* What is read and written lies inside the buffer.                           *)

\* TLS runs in a step because it did before, or because the step entered it.
LEMMA TlsRuns ==
    ASSUME CallType, TlsType, NEW e \in Ends, Call(e) \/ Run(e) \/ Duplicate(e), pc'[e] = "tls"
    PROVE  PreWork(e) \/ RecvCrypto(e) \/ (pc[e] = "tls" /\ (InTls(e) \/ Duplicate(e)))
<1>0. DOMAIN pc = Ends
  BY DEF CallType
<1>1. CASE Call(e) \/ QuicSendPacket(e) \/ SendDone(e) \/ QuicDatagramRecv(e) \/ WouldBlock(e)
  BY <1>0, <1>1 DEF Call, QuicSendPacket, SendDone, QuicDatagramRecv, WouldBlock, callVars
<1>2. CASE RejectPacket(e) \/ RecvAck(e) \/ RecvHandshakeDone(e) \/ TlsReturn(e)
  BY <1>0, <1>2 DEF RejectPacket, RecvAck, RecvHandshakeDone, TlsReturn, PacketFails, PacketDone
<1>3. CASE Duplicate(e)
  BY <1>3 DEF Duplicate, callVars
<1>4. CASE InTls(e)
  BY <1>4 DEF InTls
<1> QED BY <1>1, <1>2, <1>3, <1>4, TlsTurns, Groups DEF Outside

\* The data of the buffer lies inside its memory.
LEMMA DataFits ==
    ASSUME CallType, TlsType, BufType, NetType, CallInv, BufInv, NEW e \in Ends,
           Call(e) \/ Run(e) \/ Duplicate(e)
    PROVE  buf'[e].reserved + buf'[e].data_len <= Len(buf'[e].mem)
<1> DEFINE b == buf[e]
<1>0. /\ b \in Buffers /\ b.reserved \in Nat /\ b.data_len \in Nat /\ Len(b.mem) \in Nat
      /\ b.reserved + b.data_len <= Len(b.mem) /\ wpkt[e].len \in Nat /\ wpkt[e].len <= Len(b.mem)
  BY DEF BufType, Buffers, BufInv
<1>1. BufChange(e)
  BY BufSteps
<1>2. CASE buf'[e] \in {b, Clear(b)}
  <2>1. Clear(b).mem = b.mem /\ Clear(b).reserved = 0 /\ Clear(b).data_len = 0
    <3> HIDE DEF b, Buffers
    <3> QED BY <1>0, BufOps
  <2>2. CASE buf'[e] = b
    BY <1>0, <2>2
  <2>3. CASE buf'[e] = Clear(b)
    BY <1>0, <2>1, <2>3
  <2> QED BY <1>2, <2>2, <2>3
<1>3. CASE buf'[e] = AfterInitialRecv(e, b)
  <2>1. AfterInitialRecv(e, b) \in {b, Clear(b)}
    <3> HIDE DEF b, Buffers
    <3> QED BY <1>0, BufOps
  <2> QED BY <1>2, <1>3, <2>1
<1>4. CASE RecvCrypto(e) /\ buf'[e] = CryptoData(b, Head(inq[e]))
  <2> DEFINE p == Head(inq[e])
  <2>1. p \in Packets(AllCells)
    BY <1>4, ReceivedPacket DEF RecvCrypto
  <2>2. p.offset \in Nat /\ Len(p.data) \in Nat
    BY <2>1 DEF Packets
  <2>3. /\ CryptoData(b, p).reserved = b.reserved
        /\ CryptoData(b, p).data_len = Biggest(b.data_len, p.offset + Len(p.data))
        /\ Len(CryptoData(b, p).mem) >= Len(b.mem)
        /\ Len(CryptoData(b, p).mem) >= b.reserved + p.offset + Len(p.data)
        /\ CryptoData(b, p).mem \in Seq(AllCells)
    <3>1. /\ CryptoData(b, p) \in Buffers
          /\ CryptoData(b, p).reserved = b.reserved
          /\ CryptoData(b, p).data_len = Biggest(b.data_len, p.offset + Len(p.data))
          /\ Len(CryptoData(b, p).mem) >= Len(b.mem)
          /\ Len(CryptoData(b, p).mem) >= b.reserved + p.offset + Len(p.data)
      <4> HIDE DEF b, p, Buffers, Packets
      <4> QED BY <1>0, <2>1, CryptoDataType
    <3> QED BY <3>1 DEF Buffers
  <2>4. Len(CryptoData(b, p).mem) \in Nat
    BY <2>3
  <2>5. CryptoData(b, p).data_len \in {b.data_len, p.offset + Len(p.data)}
    BY <2>3 DEF Biggest
  <2>6. buf'[e] = CryptoData(b, p)
    BY <1>4
  <2> HIDE DEF b, p
  <2>7. CASE CryptoData(b, p).data_len = b.data_len
    BY <1>0, <2>3, <2>4, <2>6, <2>7
  <2>8. CASE CryptoData(b, p).data_len = p.offset + Len(p.data)
    BY <1>0, <2>2, <2>3, <2>4, <2>6, <2>8
  <2> QED BY <2>5, <2>7, <2>8
<1>5. CASE \E st : \E m \in Messages :
             /\ m.type \in Types /\ Builds(e, st, m)
             /\ buf'[e] = [b EXCEPT !.mem = Overwrite(b.mem, wpkt[e].len, Cells(m))]
  <2>1. PICK m \in Messages :
          /\ m.type \in Types
          /\ buf'[e] = [b EXCEPT !.mem = Overwrite(b.mem, wpkt[e].len, Cells(m))]
    BY <1>5
  <2>2. /\ buf'[e] \in Buffers /\ buf'[e].reserved = b.reserved /\ buf'[e].data_len = b.data_len
        /\ Len(buf'[e].mem) >= Len(b.mem)
    <3> HIDE DEF Buffers, Messages
    <3> QED BY <2>1, BuildsBuf
  <2>3. Len(buf'[e].mem) \in Nat
    BY <2>2 DEF Buffers
  <2> HIDE DEF b
  <2> QED BY <1>0, <2>2, <2>3
<1>6. CASE /\ TlsReturn(e)
           /\ buf'[e] = IF phase[e] = "pre"
                        THEN IF e = "client" THEN Reserve(AfterFlow(e)) ELSE AfterFlow(e)
                        ELSE AfterInitialRecv(e, AfterFlow(e))
  <2> DEFINE a == AfterFlow(e)
  <2>1. /\ a \in Buffers /\ a.mem = b.mem /\ a.reserved = b.reserved /\ a.data_len = wpkt[e].len
    BY AfterFlowType
  <2>2. wpkt[e].len = 0 \/ b.reserved = 0
    BY <1>6 DEF TlsReturn, BufInv
  <2>3. /\ Reserve(a).mem = a.mem /\ Reserve(a).reserved = a.data_len /\ Reserve(a).data_len = 0
        /\ AfterInitialRecv(e, a) \in {a, Clear(a)}
        /\ Clear(a).mem = a.mem /\ Clear(a).reserved = 0 /\ Clear(a).data_len = 0
    <3> HIDE DEF a, Buffers
    <3> QED BY <2>1, BufOps
  <2>4. buf'[e] \in {a, Reserve(a), Clear(a)}
    BY <1>6, <2>3
  <2> HIDE DEF a, b
  <2> QED BY <1>0, <2>1, <2>2, <2>3, <2>4
<1> QED BY <1>1, <1>2, <1>3, <1>4, <1>5, <1>6 DEF BufChange

\* A hello is all that can be reserved for, and then nothing is written.
LEMMA ReservedStep ==
    ASSUME CallType, TlsType, BufType, NetType, CallInv, BufInv, NEW e \in Ends,
           Call(e) \/ Run(e) \/ Duplicate(e)
    PROVE  /\ e = "server" => buf'[e].reserved = 0
           /\ e = "client" /\ buf'[e].reserved # 0 => state'[e] = "CR_SERVER_HELLO"
<1> DEFINE b == buf[e]
<1>0. /\ b \in Buffers /\ BufChange(e) /\ "client" \in Ends
      /\ e = "server" => b.reserved = 0
      /\ e = "client" /\ b.reserved # 0 => state[e] = "CR_SERVER_HELLO"
  BY BufSteps DEF BufType, BufInv, Ends
<1>1. CASE buf'[e].reserved = 0
  BY <1>1
<1>2. CASE buf'[e].reserved = b.reserved /\ b.reserved # 0
  <2>1. e = "client" /\ state[e] = "CR_SERVER_HELLO"
    BY <1>0, <1>2 DEF Ends
  <2>2. ~ServerHelloProc(e)
    <3>1. SUFFICES ASSUME ServerHelloProc(e) PROVE FALSE
      OBVIOUS
    <3>2. buf'[e] = Clear(b)
      BY <3>1 DEF ServerHelloProc, BufType
    <3>3. Clear(b).reserved = 0
      <4> HIDE DEF b, Buffers
      <4> QED BY <1>0, BufOps
    <3> QED BY <1>2, <3>2, <3>3
  <2>3. state'[e] = "CR_SERVER_HELLO"
    BY <2>1, <2>2, Moves DEF ClientMoves
  <2> QED BY <2>1, <2>3
<1>3. CASE buf'[e].reserved # 0 /\ buf'[e].reserved # b.reserved
  <2>1. Clear(b).reserved = 0 /\ AfterInitialRecv(e, b) \in {b, Clear(b)}
    <3> HIDE DEF b, Buffers
    <3> QED BY <1>0, BufOps
  <2>2. ~(RecvCrypto(e) /\ buf'[e] = CryptoData(b, Head(inq[e])))
    <3>1. RecvCrypto(e) => Head(inq[e]) \in Packets(AllCells)
      BY ReceivedPacket DEF RecvCrypto
    <3> HIDE DEF b, Buffers, Packets
    <3> QED BY <1>0, <1>3, <3>1, CryptoDataType DEF b
  <2>3. ASSUME NEW m \in Messages, m.type \in Types,
               buf'[e] = [b EXCEPT !.mem = Overwrite(b.mem, wpkt[e].len, Cells(m))]
        PROVE  FALSE
    <3>1. buf'[e].reserved = b.reserved
      <4> HIDE DEF Buffers, Messages
      <4> QED BY <2>3, BuildsBuf
    <3> QED BY <1>3, <3>1
  <2>4. /\ TlsReturn(e)
        /\ buf'[e] = IF phase[e] = "pre"
                     THEN IF e = "client" THEN Reserve(AfterFlow(e)) ELSE AfterFlow(e)
                     ELSE AfterInitialRecv(e, AfterFlow(e))
    BY <1>0, <1>3, <2>1, <2>2, <2>3 DEF BufChange
  <2> DEFINE a == AfterFlow(e)
  <2>5. a \in Buffers /\ a.reserved = b.reserved /\ a.data_len = wpkt[e].len
    BY AfterFlowType
  <2>6. /\ Reserve(a).reserved = a.data_len /\ AfterInitialRecv(e, a) \in {a, Clear(a)}
        /\ Clear(a).reserved = 0
    <3> HIDE DEF a, Buffers
    <3> QED BY <2>5, BufOps
  <2>7. phase[e] = "pre" /\ e = "client" /\ wpkt[e].len # 0
    BY <1>3, <2>4, <2>5, <2>6
  <2>8. pc[e] = "tls"
    BY <2>4 DEF TlsReturn
  <2>9. Untouched
    BY <2>7, <2>8 DEF CallInv, GivenUp
  <2>10. state[e] = "CR_SERVER_HELLO"
    BY <2>7, <2>8, <2>9 DEF Untouched
  <2>11. state' = state
    BY <2>4, <2>7, <2>10 DEF TlsReturn, FlightDone, TlsType
  <2> QED BY <2>7, <2>10, <2>11
<1> QED BY <1>1, <1>2, <1>3

\* Every step keeps what is read and written inside the buffer.
LEMMA BufInvStep ==
    ASSUME CallType, TlsType, BufType, NetType, CallInv, BufInv, NEW e \in Ends,
           Call(e) \/ Run(e) \/ Duplicate(e)
    PROVE  BufInv'
<1>0. /\ Fits(e) /\ "client" \in Ends /\ "server" \in Ends /\ "client" # "server"
      /\ buf[e] \in Buffers /\ wpkt[e].len \in Nat
      /\ rpkt[e].pos \in Nat /\ rpkt[e].left \in Nat /\ buf[e].reserved \in Nat
      /\ Len(buf[e].mem) \in Nat
  <2>1. Fits(e)
    BY DEF BufInv, Fits
  <2>2. buf[e] \in Buffers /\ wpkt[e].len \in Nat /\ rpkt[e].pos \in Nat /\ rpkt[e].left \in Nat
    BY DEF BufType
  <2>3. buf[e].reserved \in Nat /\ Len(buf[e].mem) \in Nat
    BY <2>2 DEF Buffers
  <2> QED BY <2>1, <2>2, <2>3 DEF Ends
<1>1. /\ buf'[e] \in Buffers /\ \A f \in Ends \ {e} : buf'[f] = buf[f]
      /\ Len(buf'[e].mem) >= Len(buf[e].mem)
  BY BufferType
<1>2. ReadChange(e) /\ \A f \in Ends \ {e} : rpkt'[f] = rpkt[f] /\ wpkt'[f] = wpkt[f]
  BY ReadSteps
<1>3. /\ Len(buf'[e].mem) \in Nat /\ buf'[e].reserved \in Nat /\ buf'[e].data_len \in Nat
      /\ buf'[e].offset \in Nat
  BY <1>1 DEF Buffers
<1>4. buf'[e].reserved + buf'[e].data_len <= Len(buf'[e].mem)
  BY DataFits
<1>5. ASSUME NEW m \in Messages, m.type \in Types, NEW st, Builds(e, st, m)
      PROVE  /\ MsgLen[m.type] \in Nat
             /\ wpkt[e].len + MsgLen[m.type] <= Len(buf'[e].mem) /\ buf'[e].reserved = buf[e].reserved
             /\ buf[e].reserved = 0
  <2> DEFINE b == [buf[e] EXCEPT !.mem = Overwrite(buf[e].mem, wpkt[e].len, Cells(m))]
  <2>1. b \in Buffers /\ b.reserved = buf[e].reserved /\ Len(b.mem) >= wpkt[e].len + MsgLen[m.type]
    <3> HIDE DEF Buffers, Messages
    <3> QED BY <1>5, BuildsBuf
  <2>2. buf'[e] = b
    BY <1>5 DEF Builds, BufType
  <2>3. Running(e, "WRITING")
    BY <1>5 DEF Builds
  <2>4. buf[e].reserved = 0
    <3>1. CASE e = "client"
      BY <2>3, <3>1, ClientTable DEF BufInv, Running, ClientStates
    <3>2. CASE e = "server"
      BY <3>2 DEF BufInv
    <3> QED BY <3>1, <3>2 DEF Ends
  <2>5. MsgLen[m.type] \in Nat
    BY <1>5, HandshakeAssumption
  <2> HIDE DEF b
  <2> QED BY <1>0, <1>3, <2>1, <2>2, <2>4, <2>5
<1>6. wpkt'[e].len <= Len(buf'[e].mem)
  <2>1. CASE wpkt'[e] = wpkt[e]
    BY <1>0, <1>1, <1>3, <2>1 DEF Fits
  <2>2. CASE wpkt'[e].len = 0
    BY <1>3, <2>2
  <2>3. CASE \E m \in Messages : \E st :
               m.type \in Types /\ Builds(e, st, m) /\ wpkt'[e].len = wpkt[e].len + MsgLen[m.type]
    <3>1. PICK m \in Messages : \E st :
            m.type \in Types /\ Builds(e, st, m) /\ wpkt'[e].len = wpkt[e].len + MsgLen[m.type]
      BY <2>3
    <3> HIDE DEF Messages
    <3> QED BY <1>5, <3>1
  <2> QED BY <1>2, <2>1, <2>2, <2>3 DEF ReadChange
<1>7. ASSUME pc'[e] = "tls"
      PROVE  /\ rpkt'[e].pos + rpkt'[e].left <= Len(buf'[e].mem)
             /\ buf'[e].reserved <= rpkt'[e].pos
             /\ wpkt'[e].len = 0 \/ buf'[e].reserved = 0
  <2>1. CASE PreWork(e) \/ RecvCrypto(e)
    <3>1. /\ wpkt'[e].len = 0 /\ buf'[e].data_len >= buf'[e].offset
          /\ rpkt'[e].pos = buf'[e].reserved + buf'[e].offset
          /\ rpkt'[e].left = buf'[e].data_len - buf'[e].offset
      <4>1. CASE PreWork(e)
        <5>1. EnterTls(e, buf[e]) /\ buf' = buf
          BY <1>7, <4>1 DEF PreWork, CallType
        <5> HIDE DEF Buffers
        <5> QED BY <1>0, <1>7, <5>1, Enters
      <4>2. CASE RecvCrypto(e)
        <5>1. EnterTls(e, buf'[e])
          BY <4>2 DEF RecvCrypto, BufType
        <5> HIDE DEF Buffers
        <5> QED BY <1>1, <1>7, <5>1, Enters
      <4> QED BY <2>1, <4>1, <4>2
    <3> QED BY <1>3, <1>4, <3>1
  <2>2. CASE pc[e] = "tls" /\ ~PreWork(e) /\ ~RecvCrypto(e) /\ (InTls(e) \/ Duplicate(e))
    <3>1. /\ rpkt[e].pos + rpkt[e].left <= Len(buf[e].mem)
          /\ buf[e].reserved <= rpkt[e].pos /\ (wpkt[e].len = 0 \/ buf[e].reserved = 0)
      BY <1>0, <2>2 DEF Fits
    <3>2. /\ rpkt'[e].pos + rpkt'[e].left = rpkt[e].pos + rpkt[e].left
          /\ rpkt'[e].pos \in Nat /\ rpkt'[e].pos >= rpkt[e].pos
      <4>1. CASE rpkt'[e] = rpkt[e]
        BY <1>0, <4>1
      <4>2. CASE \E n \in Nat : /\ n <= rpkt[e].left
                                /\ rpkt'[e].pos = rpkt[e].pos + n /\ rpkt'[e].left = rpkt[e].left - n
        BY <1>0, <4>2
      <4> QED BY <1>2, <2>2, <4>1, <4>2 DEF ReadChange
    <3>3. buf'[e].reserved \in {buf[e].reserved, 0}
      <4>1. ~RejectPacket(e) /\ ~RecvAck(e) /\ ~RecvHandshakeDone(e) /\ ~TlsReturn(e)
        BY <1>7, <2>2 DEF RejectPacket, RecvAck, RecvHandshakeDone, Received, TlsReturn, PacketFails,
           PacketDone, CallType
      <4>2. BufChange(e)
        BY BufSteps
      <4>3. Clear(buf[e]).reserved = 0
        <5> HIDE DEF Buffers
        <5> QED BY <1>0, BufOps
      <4>4. \A st : \A m \in Messages :
               m.type \in Types /\ Builds(e, st, m) => buf'[e].reserved = buf[e].reserved
        BY <1>5
      <4> HIDE DEF Messages
      <4> QED BY <2>2, <4>1, <4>2, <4>3, <4>4 DEF BufChange
    <3>4. wpkt'[e].len = 0 \/ buf'[e].reserved = 0
      <4>1. CASE wpkt'[e] = wpkt[e]
        BY <3>1, <3>3, <4>1
      <4>2. CASE \E m \in Messages : \E st : m.type \in Types /\ Builds(e, st, m)
        <5>1. buf[e].reserved = 0
          <6>1. PICK m \in Messages : \E st : m.type \in Types /\ Builds(e, st, m)
            BY <4>2
          <6> HIDE DEF Messages
          <6> QED BY <1>5, <6>1
        <5> QED BY <3>3, <5>1
      <4> QED BY <1>2, <2>2, <4>1, <4>2 DEF ReadChange
    <3>5. buf'[e].reserved <= buf[e].reserved
      BY <1>0, <3>3
    <3>6. rpkt'[e].pos + rpkt'[e].left <= Len(buf'[e].mem)
      BY <1>0, <1>1, <1>3, <3>1, <3>2
    <3>7. buf'[e].reserved <= rpkt'[e].pos
      BY <1>0, <1>3, <3>1, <3>2, <3>5
    <3> QED BY <3>4, <3>6, <3>7
  <2> QED BY <1>7, <2>1, <2>2, TlsRuns
<1>8. Fits(e)'
  BY <1>4, <1>6, <1>7 DEF Fits
<1>9. ASSUME NEW f \in Ends \ {e} PROVE Fits(f)'
  <2>1. Fits(f)
    BY DEF BufInv, Fits
  <2>2. pc'[f] = pc[f]
    BY OthersKeep
  <2> QED BY <1>1, <1>2, <2>1, <2>2 DEF Fits
<1>10. /\ buf'["server"].reserved = 0
       /\ buf'["client"].reserved # 0 => state'["client"] = "CR_SERVER_HELLO"
  <2>1. CASE e = "server"
    <3>1. buf'["client"] = buf["client"] /\ state'["client"] = state["client"]
      BY <1>0, <2>1, OthersKeep
    <3> QED BY <2>1, <3>1, ReservedStep DEF BufInv
  <2>2. CASE e = "client"
    <3>1. buf'["server"] = buf["server"]
      BY <1>0, <2>2, OthersKeep
    <3> QED BY <2>2, <3>1, ReservedStep DEF BufInv
  <2> QED BY <2>1, <2>2 DEF Ends
<1> QED BY <1>8, <1>9, <1>10 DEF BufInv, Fits

-----------------------------------------------------------------------------
(* What the buffers and the packets carry.                                    *)

\* Packets of P, of units in C, stay in P2 when they are sent, and those that
\* are made of such units are in P2.
Closed(C, P, P2) ==
    /\ P \subseteq P2 /\ P \subseteq Packets(C)
    /\ \A p \in P : \A k \in Transcripts : \A n \in Nat : [p EXCEPT !.key = k, !.pn = n] \in P2
    /\ \A l \in Levels : Packet(l, "ack", 0, <<>>, NoKey) \in P2
    /\ \A l \in Levels : \A o \in Nat : \A d \in Seq(C) : Packet(l, "crypto", o, d, NoKey) \in P2

\* A part of a sequence, which may be empty, has elements of the sequence.
LEMMA AnyPart ==
    ASSUME NEW C, NEW s \in Seq(C), NEW m \in Nat, m >= 1, NEW n \in Nat, n <= Len(s)
    PROVE  SubSeq(s, m, n) \in Seq(C)
<1>1. CASE m <= n
  BY <1>1, Parts
<1>2. CASE m > n
  <2>1. SubSeq(s, m, n) = <<>>
    BY <1>2
  <2> QED BY <2>1
<1> QED BY <1>1, <1>2

\* Sequences over a larger set.
LEMMA SeqLarger ==
    ASSUME NEW A, NEW B, A \subseteq B
    PROVE  Seq(A) \subseteq Seq(B)
<1>1. SUFFICES ASSUME NEW s \in Seq(A) PROVE s \in Seq(B)
  OBVIOUS
<1>2. \A i \in 1 .. Len(s) : s[i] \in B
  OBVIOUS
<1>3. s \in [1 .. Len(s) -> B] /\ Len(s) \in Nat
  BY <1>2
<1> QED BY <1>3

\* A frame holds a part of what is written.
LEMMA FlightCarries ==
    ASSUME BufType, BufInv, NEW e \in Ends, NEW C, NEW P, NEW P2, Closed(C, P, P2),
           buf[e].mem \in Seq(C)
    PROVE  Flight(e) \in Seq(P2)
<1> DEFINE n == wpkt[e].len
           k == (n + Mss - 1) \div Mss
           mem == buf[e].mem
           lvl == wpkt[e].level
           first(i) == (i - 1) * Mss
           last(i) == IF first(i) + Mss <= n THEN first(i) + Mss ELSE n
           frame(i) == Packet(lvl, "crypto", first(i), SubSeq(mem, first(i) + 1, last(i)), NoKey)
<1>1. n \in Nat /\ lvl \in Levels /\ n <= Len(mem) /\ Len(mem) \in Nat /\ Mss \in Nat /\ Mss >= 1
  <2>1. n \in Nat /\ lvl \in Levels
    BY DEF BufType
  <2>2. n <= Len(mem)
    BY DEF BufInv
  <2>3. Len(mem) \in Nat
    OBVIOUS
  <2> QED BY <2>1, <2>2, <2>3, HandshakeAssumption
<1>2. k \in Nat
  <2> HIDE DEF n
  <2>1. n + Mss - 1 \in Nat
    BY <1>1
  <2> QED BY <1>1, <2>1
<1>3. ASSUME NEW i \in 1 .. k PROVE frame(i) \in P2
  <2>1. i - 1 \in Nat
    BY <1>2
  <2>2. first(i) \in Nat
    BY <1>1, <2>1
  <2> HIDE DEF first, n, mem
  <2>3. last(i) \in Nat /\ last(i) <= Len(mem)
    BY <1>1, <2>2
  <2> HIDE DEF last
  <2>4. first(i) + 1 \in Nat /\ first(i) + 1 >= 1
    BY <2>2
  <2>5. SubSeq(mem, first(i) + 1, last(i)) \in Seq(C)
    BY <2>3, <2>4, AnyPart DEF mem
  <2> QED BY <1>1, <2>2, <2>5 DEF Closed
<1>4. Flight(e) = [i \in 1 .. k |-> frame(i)]
  BY DEF Flight
<1> HIDE DEF k, frame
<1>5. Flight(e) \in [1 .. k -> P2]
  BY <1>3, <1>4
<1> QED BY <1>2, <1>5

\* What is encrypted is what was queued, under a key and a number.
Encrypted(P, P2) ==
    \A p \in P : \A k \in Transcripts : \A n \in Nat : [p EXCEPT !.key = k, !.pn = n] \in P2

LEMMA NumberedCarries ==
    ASSUME BufType, TlsType, NEW e \in Ends, NEW C, NEW P, NEW P2, P \subseteq Packets(C),
           Encrypted(P, P2), NEW q \in Seq(P), NEW k \in 1 .. Len(q)
    PROVE  Numbered(e, q, k) \in Seq(P2)
<1>1. k \in Nat
  OBVIOUS
<1>2. ASSUME NEW i \in 1 .. k
      PROVE  [q[i] EXCEPT !.key = keys[e].enc[q[i].level],
                          !.pn = pn[e][q[i].level].sent
                                   + Cardinality({j \in 1 .. i : q[j].level = q[i].level})] \in P2
  <2>1. q[i] \in P
    BY <1>1
  <2>2. q[i].level \in Levels
    BY <2>1 DEF Packets
  <2>3. keys[e].enc[q[i].level] \in Transcripts /\ pn[e][q[i].level].sent \in Nat
    <3>1. \A l \in Levels : keys[e].enc[l] \in Transcripts
      BY DEF TlsType, KeyType
    <3>2. \A l \in Levels : pn[e][l].sent \in Nat
      BY DEF BufType
    <3> QED BY <2>2, <3>1, <3>2
  <2>4. Cardinality({j \in 1 .. i : q[j].level = q[i].level}) \in Nat
    <3>1. IsFiniteSet(1 .. i)
      <4>1. i \in Int /\ 1 \in Int
        OBVIOUS
      <4> QED BY <4>1, FS_Interval
    <3>2. IsFiniteSet({j \in 1 .. i : q[j].level = q[i].level})
      BY <3>1, FS_Subset
    <3> QED BY <3>2, FS_CardinalityType
  <2> DEFINE key == keys[e].enc[q[i].level]
             num == pn[e][q[i].level].sent + Cardinality({j \in 1 .. i : q[j].level = q[i].level})
  <2>5. key \in Transcripts /\ num \in Nat
    BY <2>3, <2>4
  <2> HIDE DEF key, num
  <2>6. [q[i] EXCEPT !.key = key, !.pn = num] \in P2
    BY <2>1, <2>5 DEF Encrypted
  <2> QED BY <2>6 DEF key, num
<1>3. Numbered(e, q, k) \in [1 .. k -> P2]
  BY <1>2 DEF Numbered
<1> QED BY <1>1, <1>3

\* The bytes that a step copies to a buffer are those of a frame or a message.
LEMMA MemStep ==
    ASSUME TlsType, BufType, NetType, NEW e \in Ends, Call(e) \/ Run(e) \/ Duplicate(e),
           NEW C, NEW C2, NEW P, P \subseteq Packets(C), Carried(C, P),
           C \subseteq C2, C2 \subseteq AllCells, NoCell \in C2,
           \A m \in Messages : \A st, next :
             m.type \in Types /\ Builds(e, st, m) /\ Built(e, m, st, next) => Cells(m) \in Seq(C2)
    PROVE  \A f \in Ends : buf'[f].mem \in Seq(C2)
<1>0. \A f \in Ends : buf[f].mem \in Seq(C2)
  BY SeqLarger DEF Carried
<1>1. /\ \A f \in Ends \ {e} : buf'[f] = buf[f]
      /\ buf[e] \in Buffers /\ wpkt[e].len \in Nat
  BY BufferType DEF BufType
<1>2. buf'[e].mem \in Seq(C2)
  <2>1. BufChange(e)
    BY BufSteps
  <2>2. /\ Clear(buf[e]).mem = buf[e].mem /\ AfterInitialRecv(e, buf[e]).mem = buf[e].mem
    <3> HIDE DEF Buffers
    <3> QED BY <1>1, BufOps
  <2>3. CASE RecvCrypto(e) /\ buf'[e] = CryptoData(buf[e], Head(inq[e]))
    <3> DEFINE p == Head(inq[e])
    <3>1. inq[e] \in Seq(P) /\ inq[e] # <<>>
      BY <2>3 DEF Carried, RecvCrypto, Received
    <3>2. p \in P
      BY <3>1
    <3>3. p.data \in Seq(C2) /\ p.offset \in Nat /\ buf[e].reserved \in Nat /\ p \in Packets(AllCells)
      <4>1. p \in Packets(C)
        BY <3>2
      <4>2. p.data \in Seq(C) /\ p.offset \in Nat
        BY <4>1 DEF Packets
      <4>3. p \in Packets(AllCells)
        BY <2>3, ReceivedPacket DEF RecvCrypto
      <4> QED BY <1>1, <4>2, <4>3, SeqLarger DEF Buffers
    <3>4. buf'[e].mem = Overwrite(buf[e].mem, buf[e].reserved + p.offset, p.data)
      <4> HIDE DEF p, Buffers, Packets
      <4> QED BY <1>1, <2>3, <3>3, CryptoDataType DEF p
    <3> HIDE DEF p
    <3>5. buf[e].reserved + p.offset \in Nat /\ buf[e].mem \in Seq(C2)
      BY <1>0, <3>3
    <3>6. Overwrite(buf[e].mem, buf[e].reserved + p.offset, p.data) \in Seq(C2)
      BY <3>3, <3>5, Overwrites
    <3> QED BY <3>4, <3>6
  <2>4. CASE \E st : \E m \in Messages :
               /\ m.type \in Types /\ Builds(e, st, m) /\ \E next : Built(e, m, st, next)
               /\ buf'[e] = [buf[e] EXCEPT !.mem = Overwrite(buf[e].mem, wpkt[e].len, Cells(m))]
    <3>1. PICK m \in Messages : \E st :
            /\ m.type \in Types /\ Builds(e, st, m) /\ \E next : Built(e, m, st, next)
            /\ buf'[e] = [buf[e] EXCEPT !.mem = Overwrite(buf[e].mem, wpkt[e].len, Cells(m))]
      BY <2>4
    <3>2. Cells(m) \in Seq(C2) /\ buf[e].mem \in Seq(C2)
      BY <1>0, <3>1
    <3>3. Overwrite(buf[e].mem, wpkt[e].len, Cells(m)) \in Seq(C2)
      BY <1>1, <3>2, Overwrites
    <3>4. buf'[e].mem = Overwrite(buf[e].mem, wpkt[e].len, Cells(m))
      <4> HIDE DEF Buffers, Messages
      <4> QED BY <3>1, BuildsBuf
    <3> QED BY <3>3, <3>4
  <2>5. CASE buf'[e] = IF phase[e] = "pre"
                       THEN IF e = "client" THEN Reserve(AfterFlow(e)) ELSE AfterFlow(e)
                       ELSE AfterInitialRecv(e, AfterFlow(e))
    <3>1. AfterFlow(e) \in Buffers /\ AfterFlow(e).mem = buf[e].mem
      BY AfterFlowType
    <3>2. /\ Reserve(AfterFlow(e)).mem = buf[e].mem
          /\ AfterInitialRecv(e, AfterFlow(e)).mem = buf[e].mem
      <4> HIDE DEF Buffers
      <4> QED BY <3>1, BufOps
    <3> QED BY <1>0, <2>5, <3>1, <3>2
  <2> QED BY <1>0, <2>1, <2>2, <2>3, <2>4, <2>5 DEF BufChange
<1> QED BY <1>0, <1>1, <1>2

\* A datagram is taken out of the ones on their way.
LEMMA Removed ==
    ASSUME NEW S, NEW s \in Seq(S), NEW i \in 1 .. Len(s)
    PROVE  RemoveAt(s, i) \in Seq(S)
<1>1. i - 1 \in Nat /\ i + 1 \in Nat /\ i - 1 <= Len(s) /\ 1 \in Nat /\ Len(s) \in Nat /\ i + 1 >= 1
  OBVIOUS
<1>2. SubSeq(s, 1, i - 1) \in Seq(S) /\ SubSeq(s, i + 1, Len(s)) \in Seq(S)
  BY <1>1, AnyPart
<1> QED BY <1>2 DEF RemoveAt

\* What an endpoint queues: acknowledgements and its flight.
LEMMA QueueStep ==
    ASSUME TlsType, BufType, NetType, BufInv, NEW e \in Ends, Call(e) \/ Run(e) \/ Duplicate(e),
           NEW C, NEW P, NEW P2, Closed(C, P, P2), Carried(C, P),
           TlsReturn(e) /\ FlightDone(e) =>
             \A l \in Levels : Packet(l, "handshake_done", 0, <<>>, NoKey) \in P2
    PROVE  txq' \in [Ends -> Seq(P2)]
<1>0. txq \in [Ends -> Seq(P2)] /\ Seq(P) \subseteq Seq(P2)
  BY SeqLarger DEF Closed, Carried
<1>1. CASE UNCHANGED txq
  BY <1>0, <1>1
<1>2. CASE QuicSendPacket(e)
  <2>1. PICK k \in 1 .. Len(txq[e]) : txq' = [txq EXCEPT ![e] = SubSeq(@, k + 1, Len(@))]
    BY <1>2 DEF QuicSendPacket
  <2>2. k + 1 \in Nat /\ k + 1 >= 1 /\ Len(txq[e]) \in Nat /\ txq[e] \in Seq(P2)
    BY <1>0
  <2>3. SubSeq(txq[e], k + 1, Len(txq[e])) \in Seq(P2)
    BY <2>2, AnyPart
  <2> QED BY <1>0, <2>1, <2>3
<1>3. ASSUME NEW acks, NoteNumber(e, Head(inq[e]), acks), Received(e)
      PROVE  txq' \in [Ends -> Seq(P2)]
  <2> DEFINE p == Head(inq[e])
             new == [pn[e][p.level] EXCEPT !.largest = Biggest(pn[e][p.level].largest, p.pn)]
             ack == acks /\ keys[e].enc[p.level] # NoKey /\ new.acked # new.largest
             a == Packet(p.level, "ack", 0, <<>>, NoKey)
  <2>1. txq' = [txq EXCEPT ![e] = IF ack THEN Append(txq[e], a) ELSE txq[e]]
    BY <1>3 DEF NoteNumber
  <2>2. p.level \in Levels
    <3>1. p \in Packets(AllCells)
      BY <1>3, ReceivedPacket
    <3> QED BY <3>1 DEF Packets
  <2> HIDE DEF p
  <2>3. a \in P2
    BY <2>2 DEF Closed
  <2> HIDE DEF a, ack
  <2> QED BY <1>0, <2>1, <2>3
<1>4. CASE RecvAck(e) \/ RecvHandshakeDone(e) \/ RecvCrypto(e)
  <2>1. Received(e) /\ \E acks : NoteNumber(e, Head(inq[e]), acks)
    BY <1>4 DEF RecvAck, RecvHandshakeDone, RecvCrypto
  <2> QED BY <1>3, <2>1
<1>5. CASE TlsReturn(e)
  <2> DEFINE d == IF FlightDone(e)
                  THEN <<Packet(wpkt[e].level, "handshake_done", 0, <<>>, NoKey)>> ELSE <<>>
  <2>1. txq' = [txq EXCEPT ![e] = txq[e] \o Flight(e) \o d]
    BY <1>5 DEF TlsReturn
  <2>2. Flight(e) \in Seq(P2)
    BY FlightCarries DEF Carried
  <2>3. wpkt[e].level \in Levels
    BY DEF BufType
  <2>4. d \in Seq(P2)
    BY <1>5, <2>3
  <2> HIDE DEF d
  <2>5. txq[e] \o Flight(e) \o d \in Seq(P2)
    BY <1>0, <2>2, <2>4
  <2> QED BY <1>0, <2>1, <2>5
<1>6. CASE Outside(e) /\ ~QuicSendPacket(e) /\ ~RecvAck(e) /\ ~RecvCrypto(e)
  BY <1>1, <1>6 DEF Outside, Call, PreWork, SendDone, QuicDatagramRecv, Duplicate, RejectPacket,
     FlowFinished, ReadNothing, WouldBlock
<1>7. CASE Early(e) \/ HandlerFails(e) \/ FlowNothing(e)
  BY <1>1, <1>7 DEF Early, ReadPart, ReadRepeated, ReadUnexpected, ReadReturns, HandlerFails,
     FlowNothing
<1>8. CASE Handler(e)
  <2>1. PICK type : Handles(e, type)
    BY <1>8, HandlerOf
  <2> QED BY <1>1, <2>1 DEF Handles
<1>9. CASE Writes(e)
  BY <1>1, <1>9 DEF Writes, ClientHelloBuild, ServerHelloBuild, EncryptedExtBuild,
     ServerCertBuild, CertVerifyBuild, SrvrFinishedBuild, ClntFinishedBuild,
     NewSessionTicketBuild, Builds
<1> QED BY <1>2, <1>4, <1>5, <1>6, <1>7, <1>8, <1>9, Groups

\* Whether a step reads or sends datagrams.
LEMMA NetSteps ==
    ASSUME TlsType, NEW e \in Ends, Call(e) \/ Run(e) \/ Duplicate(e)
    PROVE  \/ UNCHANGED <<inq, net>>
           \/ QuicSendPacket(e) /\ inq' = inq
           \/ QuicDatagramRecv(e)
           \/ Duplicate(e) /\ inq' = inq
           \/ /\ net' = net /\ Received(e) /\ inq' \in {[inq EXCEPT ![e] = Tail(@)], [inq EXCEPT ![e] = <<>>]}
           \/ /\ TlsReturn(e) /\ net' = net
              /\ inq' \in {inq, [inq EXCEPT ![e] = inq[e]], [inq EXCEPT ![e] = <<>>]}
<1>1. CASE RejectPacket(e) \/ RecvAck(e) \/ RecvHandshakeDone(e) \/ RecvCrypto(e)
  BY <1>1 DEF RejectPacket, RecvAck, RecvHandshakeDone, RecvCrypto, PacketFails, PacketDone, Received
<1>2. CASE TlsReturn(e)
  BY <1>2 DEF TlsReturn, PacketFails, PacketDone
<1>3. CASE QuicSendPacket(e) \/ Duplicate(e)
  BY <1>3 DEF QuicSendPacket, Duplicate
<1>4. CASE Call(e) \/ PreWork(e) \/ SendDone(e) \/ FlowFinished(e) \/ ReadNothing(e) \/ WouldBlock(e)
  BY <1>4 DEF Call, PreWork, SendDone, FlowFinished, ReadNothing, WouldBlock, netVars
<1>5. CASE Early(e) \/ HandlerFails(e) \/ FlowNothing(e)
  BY <1>5 DEF Early, ReadPart, ReadRepeated, ReadUnexpected, ReadReturns, HandlerFails,
     FlowNothing, netVars
<1>6. CASE Handler(e)
  <2>1. PICK type : Handles(e, type)
    BY <1>6, HandlerOf
  <2> QED BY <2>1 DEF Handles, netVars
<1>7. CASE Writes(e)
  BY <1>7 DEF Writes, ClientHelloBuild, ServerHelloBuild, EncryptedExtBuild,
     ServerCertBuild, CertVerifyBuild, SrvrFinishedBuild, ClntFinishedBuild,
     NewSessionTicketBuild, Builds, netVars
<1> QED BY <1>1, <1>2, <1>3, <1>4, <1>5, <1>6, <1>7, Groups DEF Outside

\* What is on its way was queued, or was on its way before.
LEMMA NetStep ==
    ASSUME TlsType, BufType, NEW e \in Ends, Call(e) \/ Run(e) \/ Duplicate(e),
           NEW C, NEW P, NEW P2, Closed(C, P, P2), Carried(C, P)
    PROVE  inq' \in [Ends -> Seq(P2)] /\ net' \in [Ends -> Seq(Seq(P2))]
<1>0. /\ inq \in [Ends -> Seq(P2)] /\ net \in [Ends -> Seq(Seq(P2))] /\ txq[e] \in Seq(P)
  <2>1. Seq(P) \subseteq Seq(P2)
    BY SeqLarger DEF Closed
  <2>2. Seq(Seq(P)) \subseteq Seq(Seq(P2))
    BY <2>1, SeqLarger
  <2> QED BY <2>1, <2>2 DEF Carried
<1>1. CASE UNCHANGED <<inq, net>>
  BY <1>0, <1>1
<1>2. CASE QuicSendPacket(e) /\ inq' = inq
  <2>1. PICK k \in 1 .. Len(txq[e]) :
          net' = [net EXCEPT ![Peer(e)] = Append(@, Numbered(e, txq[e], k))]
    BY <1>2 DEF QuicSendPacket
  <2>2. Numbered(e, txq[e], k) \in Seq(P2)
    <3>1. P \subseteq Packets(C) /\ Encrypted(P, P2)
      BY DEF Closed, Encrypted
    <3> HIDE DEF Packets
    <3> QED BY <1>0, <3>1, NumberedCarries
  <2>3. Peer(e) \in Ends
    BY DEF Peer, Ends
  <2> QED BY <1>0, <1>2, <2>1, <2>2, <2>3
<1>3. CASE QuicDatagramRecv(e)
  <2>1. PICK i \in 1 .. Len(net[e]) : /\ inq' = [inq EXCEPT ![e] = net[e][i]]
                                      /\ net' = [net EXCEPT ![e] = RemoveAt(@, i)]
    BY <1>3 DEF QuicDatagramRecv
  <2>2. net[e] \in Seq(Seq(P2))
    BY <1>0
  <2>3. RemoveAt(net[e], i) \in Seq(Seq(P2)) /\ net[e][i] \in Seq(P2)
    BY <2>2, Removed
  <2> QED BY <1>0, <2>1, <2>3
<1>4. CASE Duplicate(e) /\ inq' = inq
  <2>1. PICK i \in 1 .. Len(net[e]) : net' = [net EXCEPT ![e] = Append(@, net[e][i])]
    BY <1>4 DEF Duplicate
  <2>2. net[e][i] \in Seq(P2) /\ net[e] \in Seq(Seq(P2))
    BY <1>0
  <2> QED BY <1>0, <1>4, <2>1, <2>2
<1>5. CASE net' = net /\ Received(e) /\ inq' \in {[inq EXCEPT ![e] = Tail(@)], [inq EXCEPT ![e] = <<>>]}
  <2>1. inq[e] \in Seq(P2) /\ inq[e] # <<>>
    BY <1>0, <1>5 DEF Received
  <2>2. Tail(inq[e]) \in Seq(P2) /\ <<>> \in Seq(P2)
    BY <2>1
  <2> QED BY <1>0, <1>5, <2>2
<1>6. CASE net' = net /\ inq' \in {inq, [inq EXCEPT ![e] = inq[e]], [inq EXCEPT ![e] = <<>>]}
  <2>1. inq[e] \in Seq(P2) /\ <<>> \in Seq(P2)
    BY <1>0
  <2> QED BY <1>0, <1>6, <2>1
<1> QED BY <1>1, <1>2, <1>3, <1>4, <1>5, <1>6, NetSteps

\* Packets of any kind stay packets.
LEMMA AllClosed == Closed(AllCells, Packets(AllCells), Packets(AllCells))
<1>1. <<>> \in Seq(AllCells) /\ NoKey \in Transcripts
  BY DEF NoKey, Transcripts
<1> QED BY <1>1 DEF Closed, Packets, Packet, Kinds

\* Every step keeps the types of the packets.
LEMMA NetTypeStep ==
    ASSUME TlsType, BufType, NetType, BufInv, NEW e \in Ends, Call(e) \/ Run(e) \/ Duplicate(e)
    PROVE  NetType'
<1> DEFINE P == Packets(AllCells)
<1>1. \A m \in Messages : m.type \in Types => Cells(m) \in Seq(AllCells)
  BY CellsOf
<1>2. Closed(AllCells, P, P) /\ Carried(AllCells, P)
  BY AllClosed DEF NetType
<1>3. \A l \in Levels : Packet(l, "handshake_done", 0, <<>>, NoKey) \in P
  <2>1. <<>> \in Seq(AllCells) /\ NoKey \in Transcripts
    BY DEF NoKey, Transcripts
  <2> QED BY <2>1 DEF Packets, Packet, Kinds
<1> HIDE DEF P
<1>4. txq' \in [Ends -> Seq(P)]
  BY <1>2, <1>3, QueueStep
<1>5. inq' \in [Ends -> Seq(P)] /\ net' \in [Ends -> Seq(Seq(P))]
  BY <1>2, NetStep
<1>6. \A f \in Ends : buf'[f].mem \in Seq(AllCells)
  <2> HIDE DEF Messages, AllCells, Packets
  <2>1. NoCell \in AllCells /\ P \subseteq Packets(AllCells)
    BY <1>2, NoCellKnown DEF Closed
  <2> QED BY <1>1, <1>2, <2>1, MemStep
<1> QED BY <1>4, <1>5, <1>6 DEF NetType, Carried, P

-----------------------------------------------------------------------------
(* The keys.                                                                  *)

\* The transcript of the server grows, once its ClientHello has started it.
LEMMA ServerDigest ==
    ASSUME TlsType, BufType, BufInv, NEW e \in Ends, Call(e) \/ Run(e) \/ Duplicate(e)
    PROVE  \/ ClientHelloProc("server") /\ dgst'["server"] # NoDigest
           \/ dgst["server"] # NoDigest =>
                dgst'["server"] # NoDigest /\ Len(dgst'["server"]) >= Len(dgst["server"])
<1>0. /\ dgst \in [Ends -> Transcripts] /\ "server" \in Ends /\ Len(dgst["server"]) \in Nat
  BY DEF TlsType, Ends, Transcripts
<1>1. CASE dgst'["server"] = dgst["server"]
  BY <1>0, <1>1
<1>2. CASE Outside(e) \/ RecvHandshakeDone(e) \/ FlowNothing(e) \/ TlsReturn(e) \/ Early(e)
  <2>1. dgst' = dgst
    BY <1>2, OutsideTls, DoneKeys, FlowTls, EarlyTls
  <2> QED BY <1>1, <2>1
<1>3. CASE Complete(e) /\ dgst' = [dgst EXCEPT ![e] = WithMsg(e)]
  <2>1. dgst[e] # NoDigest => WithMsg(e) # NoDigest /\ Len(WithMsg(e)) >= Len(dgst[e])
    BY <1>3, WithMsgType
  <2> QED BY <1>0, <1>1, <1>3, <2>1
<1>4. CASE HandlerFails(e)
  BY <1>3, <1>4 DEF HandlerFails
<1>5. CASE Handler(e) /\ e = "server"
  <2>1. CASE ClientHelloProc(e)
    <3>1. /\ Complete(e) /\ NextType(e) = "CLIENT_HELLO"
          /\ dgst' = [dgst EXCEPT ![e] = CachedRecords(e, MsgLen["CLIENT_HELLO"])]
      BY <2>1 DEF ClientHelloProc, Handles
    <3>2. CachedRecords(e, MsgLen["CLIENT_HELLO"]) # NoDigest
      BY <3>1, CachedType
    <3> QED BY <1>0, <1>5, <2>1, <3>1, <3>2
  <2>2. CASE ~ClientHelloProc(e)
    <3>1. ~ServerHelloProc(e)
      <4>1. SUFFICES ASSUME ServerHelloProc(e) PROVE FALSE
        OBVIOUS
      <4>2. Handles(e, "SERVER_HELLO")
        BY <4>1 DEF ServerHelloProc
      <4> QED BY <1>5, <4>2, Handled
    <3>2. Complete(e) /\ dgst' = [dgst EXCEPT ![e] = WithMsg(e)]
      BY <1>5, <2>2, <3>1 DEF Handler, EncExtProc, ServerCertProc, CertVerifyProc,
         ClientFinishedProc, SrvrFinishedProc, NewSessionTicketProc, Handles
    <3> QED BY <1>3, <3>2
  <2> QED BY <2>1, <2>2
<1>6. CASE Handler(e) /\ e # "server"
  <2>1. \E d : dgst' = [dgst EXCEPT ![e] = d]
    BY <1>6 DEF Handler, ClientHelloProc, ServerHelloProc, EncExtProc, ServerCertProc,
       CertVerifyProc, ClientFinishedProc, SrvrFinishedProc, NewSessionTicketProc
  <2> QED BY <1>0, <1>1, <1>6, <2>1
<1>7. CASE Writes(e)
  <2>1. PICK m \in Messages : \E st, next, r :
          m.type \in Types /\ Builds(e, st, m) /\ Goes(e, next, r) /\ Built(e, m, st, next)
    BY <1>7, BuildSteps
  <2>2. PICK st : m.type \in Types /\ Builds(e, st, m)
    BY <2>1
  <2>3. /\ dgst' = [dgst EXCEPT ![e] = Digested(dgst[e], Cells(m))]
        /\ dgst[e] # NoDigest => /\ dgst'[e] # NoDigest
                                 /\ Len(dgst'[e]) = Len(dgst[e]) + MsgLen[m.type]
    BY <2>2, BuildsTls
  <2>4. MsgLen[m.type] \in Nat
    BY <2>2, HandshakeAssumption
  <2> QED BY <1>0, <1>1, <2>3, <2>4
<1> QED BY <1>2, <1>4, <1>5, <1>6, <1>7, Groups

\* The flow of an end goes on in its own steps only.
LEMMA OthersState ==
    ASSUME TlsType, NEW e \in Ends, Handler(e) \/ Writes(e)
    PROVE  /\ e = "server" => state'["client"] = state["client"]
           /\ e = "client" => state'["server"] = state["server"]
<1>1. PICK st : state' = [state EXCEPT ![e] = st]
  <2>1. CASE Handler(e)
    BY <2>1, HandlerOf DEF Handles
  <2>2. CASE Writes(e)
    BY <2>2, BuildSteps DEF Goes
  <2> QED BY <2>1, <2>2
<1> QED BY <1>1 DEF TlsType, Ends

\* The application keys, and the one handler or message that makes each.
LEMMA AppKeys ==
    ASSUME TlsType, BufType, BufInv, NEW e \in Ends, Call(e) \/ Run(e) \/ Duplicate(e)
    PROVE  /\ AppKey' = IF SrvrFinishedBuild("server") /\ AppKey = NoKey
                        THEN dgst'["server"] ELSE AppKey
           /\ keys'["server"].dec["1RTT"] =
                IF SrvrFinishedProc("server") /\ keys["server"].dec["1RTT"] = NoKey
                THEN AppKey ELSE keys["server"].dec["1RTT"]
           /\ keys'["client"].dec["1RTT"] =
                IF ClientFinishedProc("client") /\ keys["client"].dec["1RTT"] = NoKey
                THEN dgst'["client"] ELSE keys["client"].dec["1RTT"]
           /\ keys'["client"].enc["1RTT"] =
                IF ClntFinishedBuild("client") /\ keys["client"].enc["1RTT"] = NoKey
                THEN keys["client"].dec["1RTT"] ELSE keys["client"].enc["1RTT"]
<1> DEFINE sb == SrvrFinishedBuild("server")
           sp == SrvrFinishedProc("server")
           cp == ClientFinishedProc("client")
           cb == ClntFinishedBuild("client")
<1>0. /\ "client" \in Ends /\ "server" \in Ends /\ "client" # "server" /\ "1RTT" \in Levels
      /\ "HANDSHAKE" \in Levels /\ "HANDSHAKE" # "1RTT"
      /\ \A f \in Ends : keys[f].enc \in [Levels -> Transcripts] /\ keys[f].dec \in [Levels -> Transcripts]
      /\ dgst' \in [Ends -> Transcripts]
  BY TlsTypeStep DEF TlsType, KeyType, Ends, Levels
<1>a. /\ sb => state["server"] = "SW_FINISHED" /\ state'["server"] = "SR_FINISHED"
      /\ cb => state["client"] = "CW_FINISHED" /\ state'["client"] = "CR_NEW_SESSION_TICKET"
  BY <1>0 DEF SrvrFinishedBuild, ClntFinishedBuild, Builds, Goes, TlsType
<1>b. /\ sp => state["server"] = "SR_FINISHED" /\ state'["server"] = "SW_NEW_SESSION_TICKET"
      /\ cp => state["client"] \in ClientReads /\ state'["client"] = "CW_FINISHED"
  <2>1. sp => Handles("server", "FINISHED")
    BY DEF SrvrFinishedProc
  <2>2. cp => Handles("client", "FINISHED")
    BY DEF ClientFinishedProc
  <2> QED BY <1>0, <2>1, <2>2, Handled DEF TlsType
<1>1. CASE keys' = keys /\ ~sb /\ ~sp /\ ~cp /\ ~cb
  BY <1>1 DEF AppKey
<1>2. CASE Outside(e) \/ RecvHandshakeDone(e)
  <2>1. state' = state
    BY <1>2, OutsideTls, DoneKeys
  <2>2. ~sb /\ ~sp /\ ~cp /\ ~cb
    BY <1>a, <1>b, <2>1 DEF ClientReads
  <2>3. \A f \in Ends : /\ keys'[f].enc["1RTT"] = keys[f].enc["1RTT"]
                        /\ keys'[f].dec["1RTT"] = keys[f].dec["1RTT"]
    BY <1>2, OutsideTls, DoneKeys
  <2>4. /\ keys'["server"].enc["1RTT"] = keys["server"].enc["1RTT"]
        /\ keys'["server"].dec["1RTT"] = keys["server"].dec["1RTT"]
        /\ keys'["client"].enc["1RTT"] = keys["client"].enc["1RTT"]
        /\ keys'["client"].dec["1RTT"] = keys["client"].dec["1RTT"]
    BY <1>0, <2>3
  <2>5. AppKey' = AppKey
    BY <2>4 DEF AppKey
  <2>6. AppKey' = IF SrvrFinishedBuild("server") /\ AppKey = NoKey THEN dgst'["server"] ELSE AppKey
    BY <2>2, <2>5
  <2>7. keys'["server"].dec["1RTT"] =
                IF SrvrFinishedProc("server") /\ keys["server"].dec["1RTT"] = NoKey
                THEN AppKey ELSE keys["server"].dec["1RTT"]
    BY <2>2, <2>4
  <2>8. /\ keys'["client"].dec["1RTT"] =
                IF ClientFinishedProc("client") /\ keys["client"].dec["1RTT"] = NoKey
                THEN dgst'["client"] ELSE keys["client"].dec["1RTT"]
        /\ keys'["client"].enc["1RTT"] =
                IF ClntFinishedBuild("client") /\ keys["client"].enc["1RTT"] = NoKey
                THEN keys["client"].dec["1RTT"] ELSE keys["client"].enc["1RTT"]
    BY <2>2, <2>4
  <2> QED BY <2>6, <2>7, <2>8
<1>3. CASE Early(e) \/ HandlerFails(e)
  <2>1. /\ keys' = keys /\ state'["server"] = state["server"]
        /\ state["client"]' # state["client"] => state["client"]' \in ClientReads
    BY <1>3, EarlyTls
  <2>2. ~sb /\ ~cb
    BY <1>a, <1>0, <1>3, <2>1, EarlyTls DEF ClientReads, TlsType
  <2>3. ~sp /\ ~cp
    BY <1>b, <2>1 DEF ClientReads
  <2> QED BY <1>1, <2>1, <2>2, <2>3
<1>4. CASE FlowNothing(e) \/ TlsReturn(e)
  <2>1. keys' = keys
    BY <1>4, FlowTls
  <2>2. ~sb /\ ~sp /\ ~cp /\ ~cb
    BY <1>0, <1>4, <1>a, <1>b, FlowTls DEF ClientReads, TlsType
  <2> QED BY <1>1, <2>1, <2>2
<1>5. CASE Writes(e)
  <2>1. ~sp /\ ~cp
    <3>1. PICK m \in Messages : \E st, next, r :
            m.type \in Types /\ Builds(e, st, m) /\ Goes(e, next, r) /\ Built(e, m, st, next)
      BY <1>5, BuildSteps
    <3>2. PICK st, next, r : Builds(e, st, m) /\ Goes(e, next, r) /\ Built(e, m, st, next)
      BY <3>1
    <3>3. state[e] = st /\ state' = [state EXCEPT ![e] = next]
      BY <3>2 DEF Builds, Goes
    <3> QED BY <1>0, <1>b, <3>2, <3>3 DEF Built, ClientReads, TlsType
  <2>2. CASE e = "server"
    <3>1. keys'["client"] = keys["client"]
      BY <1>0, <1>5, <2>2, BuildKeys
    <3>2. ~cb
      BY <1>a, <1>5, <2>2, OthersState
    <3>3. /\ sb => /\ keys'[e].dec["1RTT"] = keys[e].dec["1RTT"]
                   /\ keys'[e].enc["1RTT"] = IF keys[e].enc["1RTT"] = NoKey
                                             THEN dgst'[e] ELSE keys[e].enc["1RTT"]
          /\ ~sb => /\ keys'[e].dec["1RTT"] = keys[e].dec["1RTT"]
                    /\ keys'[e].enc["1RTT"] = keys[e].enc["1RTT"]
      <4>1. ~ClntFinishedBuild(e)
        BY <2>2 DEF ClntFinishedBuild, Builds, TlsType, ServerStates
      <4> QED BY <1>0, <1>5, <2>2, <4>1, BuildKeys
    <3> QED BY <2>1, <2>2, <3>1, <3>2, <3>3 DEF AppKey
  <2>3. CASE e = "client"
    <3>1. keys'["server"] = keys["server"]
      BY <1>0, <1>5, <2>3, BuildKeys
    <3>2. ~sb
      BY <1>a, <1>5, <2>3, OthersState
    <3>3. /\ cb => /\ keys'[e].dec["1RTT"] = keys[e].dec["1RTT"]
                   /\ keys'[e].enc["1RTT"] = IF keys[e].enc["1RTT"] = NoKey
                                             THEN keys[e].dec["1RTT"] ELSE keys[e].enc["1RTT"]
          /\ ~cb => /\ keys'[e].dec["1RTT"] = keys[e].dec["1RTT"]
                    /\ keys'[e].enc["1RTT"] = keys[e].enc["1RTT"]
      <4>1. ~SrvrFinishedBuild(e) /\ ~ServerHelloBuild(e)
        BY <2>3 DEF SrvrFinishedBuild, ServerHelloBuild, Builds, TlsType, ClientStates
      <4> QED BY <1>0, <1>5, <2>3, <4>1, BuildKeys
    <3> QED BY <2>1, <2>3, <3>1, <3>2, <3>3 DEF AppKey
  <2> QED BY <2>2, <2>3 DEF Ends
<1>6. CASE Handler(e)
  <2>a. /\ keys[e].enc \in [Levels -> Transcripts] /\ keys[e].dec \in [Levels -> Transcripts]
        /\ keys[e].enc["1RTT"] \in Transcripts /\ keys[e].dec["HANDSHAKE"] \in Transcripts
        /\ "HANDSHAKE" \in Levels /\ "1RTT" \in Levels /\ dgst'[e] \in Transcripts
    BY <1>0
  <2>0. ~sb /\ ~cb
    BY <1>a, <1>6, Handled, HandlerOf, <1>0 DEF TlsType, ClientReads
  <2>1. CASE ClientFinishedProc(e)
    <3>1. /\ e = "client"
          /\ keys' = [keys EXCEPT ![e].dec = Install(keys[e].dec, "1RTT", dgst'[e]),
                                  ![e].enc = Install(keys[e].enc, "HANDSHAKE", keys[e].dec["HANDSHAKE"])]
      BY <2>1 DEF ClientFinishedProc
    <3>2. /\ Install(keys[e].dec, "1RTT", dgst'[e]) \in [Levels -> Transcripts]
          /\ Install(keys[e].dec, "1RTT", dgst'[e])["1RTT"] =
               IF keys[e].dec["1RTT"] = NoKey THEN dgst'[e] ELSE keys[e].dec["1RTT"]
      BY <2>a, Installs
    <3>3. /\ Install(keys[e].enc, "HANDSHAKE", keys[e].dec["HANDSHAKE"]) \in [Levels -> Transcripts]
          /\ Install(keys[e].enc, "HANDSHAKE", keys[e].dec["HANDSHAKE"])["1RTT"] = keys[e].enc["1RTT"]
      BY <2>a, Installs
    <3>4. /\ keys'[e].dec["1RTT"] = IF keys[e].dec["1RTT"] = NoKey THEN dgst'[e] ELSE keys[e].dec["1RTT"]
          /\ keys'[e].enc["1RTT"] = keys[e].enc["1RTT"]
          /\ \A f \in Ends \ {e} : keys'[f] = keys[f]
      <4> DEFINE a == Install(keys[e].dec, "1RTT", dgst'[e])
                 b == Install(keys[e].enc, "HANDSHAKE", keys[e].dec["HANDSHAKE"])
      <4>1. a \in [Levels -> Transcripts] /\ b \in [Levels -> Transcripts]
        BY <3>2, <3>3
      <4>3. keys' = [keys EXCEPT ![e].dec = a, ![e].enc = b]
        BY <3>1
      <4> HIDE DEF a, b
      <4>4. \/ keys' = [keys EXCEPT ![e].dec = a, ![e].enc = b]
            \/ keys' = [keys EXCEPT ![e].enc = b, ![e].dec = a]
            \/ keys' = [keys EXCEPT ![e].dec = a] /\ b = keys[e].enc
            \/ keys' = [keys EXCEPT ![e].enc = b] /\ a = keys[e].dec
        BY <4>3
      <4>2. /\ keys'[e].dec = a /\ keys'[e].enc = b /\ \A f \in Ends \ {e} : keys'[f] = keys[f]
        BY ONLY TlsType, e \in Ends, <4>1, <4>4, KeysChange
      <4> QED BY <3>2, <3>3, <4>2 DEF a, b
    <3>5. ~sp
      <4>1. state'["server"] = state["server"]
        BY <1>6, <3>1, OthersState
      <4> QED BY <1>b, <4>1
    <3>6. keys'["server"] = keys["server"]
      BY <1>0, <3>1, <3>4
    <3> QED BY <2>0, <2>1, <3>1, <3>4, <3>5, <3>6 DEF AppKey
  <2>2. CASE SrvrFinishedProc(e)
    <3>1. /\ e = "server"
          /\ keys' = [keys EXCEPT ![e].dec = Install(keys[e].dec, "1RTT", keys[e].enc["1RTT"])]
      BY <2>2 DEF SrvrFinishedProc
    <3>2. /\ Install(keys[e].dec, "1RTT", keys[e].enc["1RTT"]) \in [Levels -> Transcripts]
          /\ Install(keys[e].dec, "1RTT", keys[e].enc["1RTT"])["1RTT"] =
               IF keys[e].dec["1RTT"] = NoKey THEN keys[e].enc["1RTT"] ELSE keys[e].dec["1RTT"]
      BY <2>a, Installs
    <3>3. /\ keys'[e].dec["1RTT"] =
               IF keys[e].dec["1RTT"] = NoKey THEN keys[e].enc["1RTT"] ELSE keys[e].dec["1RTT"]
          /\ keys'[e].enc = keys[e].enc
          /\ \A f \in Ends \ {e} : keys'[f] = keys[f]
      <4> DEFINE a == Install(keys[e].dec, "1RTT", keys[e].enc["1RTT"])
      <4>1. a \in [Levels -> Transcripts] /\ keys' = [keys EXCEPT ![e].dec = a]
        BY <3>1, <3>2
      <4>2. keys \in [Ends -> KeyType]
        BY DEF TlsType
      <4> HIDE DEF a
      <4>3. /\ keys'[e].dec = a /\ keys'[e].enc = keys[e].enc
            /\ \A f \in Ends \ {e} : keys'[f] = keys[f]
        BY <4>1, <4>2, DecChanges
      <4> QED BY <3>2, <4>3 DEF a
    <3>4. ~cp
      <4>1. state'["client"] = state["client"]
        BY <1>6, <3>1, OthersState
      <4> QED BY <1>b, <4>1 DEF ClientReads
    <3>5. keys'["client"] = keys["client"]
      BY <1>0, <3>1, <3>3
    <3> QED BY <2>0, <2>2, <3>1, <3>3, <3>4, <3>5 DEF AppKey
  <2>3. CASE ~ClientFinishedProc(e) /\ ~SrvrFinishedProc(e)
    <3>1. ~sp /\ ~cp
      <4>1. CASE e = "client"
        <5>1. state'["server"] = state["server"]
          BY <1>6, <4>1, OthersState
        <5> QED BY <1>b, <2>3, <4>1, <5>1
      <4>2. CASE e = "server"
        <5>1. state'["client"] = state["client"]
          BY <1>6, <4>2, OthersState
        <5> QED BY <1>b, <2>3, <4>2, <5>1 DEF ClientReads
      <4> QED BY <4>1, <4>2 DEF Ends
    <3>2. CASE ServerHelloProc(e)
      <4>1. keys' = [keys EXCEPT ![e].dec = Install(keys[e].dec, "HANDSHAKE", dgst'[e])]
        BY <3>2 DEF ServerHelloProc
      <4>2. /\ Install(keys[e].dec, "HANDSHAKE", dgst'[e]) \in [Levels -> Transcripts]
            /\ Install(keys[e].dec, "HANDSHAKE", dgst'[e])["1RTT"] = keys[e].dec["1RTT"]
        BY <2>a, Installs
      <4>3. /\ keys'[e].dec["1RTT"] = keys[e].dec["1RTT"] /\ keys'[e].enc = keys[e].enc
            /\ \A f \in Ends \ {e} : keys'[f] = keys[f]
        BY <2>a, <4>1, <4>2, KeysChange
      <4> QED BY <1>0, <2>0, <3>1, <4>3 DEF AppKey
    <3>3. CASE ~ServerHelloProc(e)
      <4>1. keys' = keys
        BY <1>6, <2>3, <3>3 DEF Handler, ClientHelloProc, EncExtProc, ServerCertProc,
           CertVerifyProc, NewSessionTicketProc
      <4> QED BY <1>1, <2>0, <3>1, <4>1
    <3> QED BY <3>2, <3>3
  <2> QED BY <2>1, <2>2, <2>3
<1> QED BY <1>2, <1>3, <1>4, <1>5, <1>6, Groups

\* A Finished that an end takes lies in its buffer as it was written.
LEMMA FinishedTaken ==
    ASSUME TlsType, BufType, BufInv, NEW e \in Ends, Carried(GoodCells, GoodPackets),
           Handles(e, "FINISHED"), TlsFinishedCheck(e)
    PROVE  /\ \/ state["client"] = "CR_NEW_SESSION_TICKET"
              \/ Sealed /\ dgst[e] # NoDigest /\ AppKey = dgst[e] \o FinishedUnits
           /\ WithMsg(e) = IF dgst[e] = NoDigest THEN NoDigest ELSE dgst[e] \o FinishedUnits
<1>1. Complete(e) /\ NextType(e) = "FINISHED"
  BY DEF Handles
<1>2. /\ rpkt[e].pos + 1 \in 1 .. Len(buf[e].mem) /\ Msg(e) \in Messages
      /\ Msg(e).type = "FINISHED"
  BY <1>1, MessageAhead
<1>3. NextCell(e) \in GoodCells
  <2>1. buf[e].mem \in Seq(GoodCells)
    BY DEF Carried
  <2> QED BY <1>2, <2>1 DEF NextCell
<1>4. Ahead(e) = Cells(Msg(e)) /\ Msg(e).mac = dgst[e]
  BY DEF TlsFinishedCheck, Genuine
<1>5. \/ state["client"] = "CR_NEW_SESSION_TICKET"
      \/ Sealed /\ dgst[e] # NoDigest /\ AppKey = dgst[e] \o FinishedUnits
  BY <1>2, <1>3, <1>4 DEF GoodCells, Msg
<1>6. WithMsg(e) = IF dgst[e] = NoDigest THEN NoDigest ELSE dgst[e] \o FinishedUnits
  <2>1. dgst[e] \in Transcripts
    BY DEF TlsType
  <2>2. Digested(dgst[e], Cells(Msg(e))) = IF dgst[e] = NoDigest THEN NoDigest ELSE dgst[e] \o FinishedUnits
    BY <1>2, <2>1, FinishedDigested
  <2> QED BY <1>4, <2>2 DEF WithMsg
<1> QED BY <1>5, <1>6

\* The Finished that the client takes is the server's: what it digests makes the
\* keys the server has.
LEMMA ClientTakes ==
    ASSUME TlsType, BufType, BufInv, Carried(GoodCells, GoodPackets),
           ClientFinishedProc("client")
    PROVE  Sealed /\ dgst'["client"] = AppKey /\ state["client"] # "CR_NEW_SESSION_TICKET"
<1>1. /\ Handles("client", "FINISHED") /\ TlsFinishedCheck("client")
      /\ dgst' = [dgst EXCEPT !["client"] = WithMsg("client")]
  BY DEF ClientFinishedProc
<1>2. state["client"] # "CR_NEW_SESSION_TICKET" /\ "client" \in Ends
  BY <1>1, Handled DEF Ends
<1>3. /\ Sealed /\ dgst["client"] # NoDigest /\ AppKey = dgst["client"] \o FinishedUnits
      /\ WithMsg("client") = dgst["client"] \o FinishedUnits
  BY <1>1, <1>2, FinishedTaken
<1> QED BY <1>1, <1>2, <1>3 DEF TlsType

\* The Finished that the server takes is not its own, whose proof is shorter than the
\* transcript has become: the client has sent it.
LEMMA ServerTakes ==
    ASSUME TlsType, BufType, BufInv, KeyInv, Carried(GoodCells, GoodPackets),
           SrvrFinishedProc("server")
    PROVE  Sealed /\ state["client"] = "CR_NEW_SESSION_TICKET"
<1>1. Handles("server", "FINISHED") /\ TlsFinishedCheck("server") /\ "server" \in Ends
  BY DEF SrvrFinishedProc, Ends
<1>2. Sealed
  BY <1>1, Handled DEF Sealed
<1>3. SUFFICES ASSUME dgst["server"] # NoDigest, AppKey = dgst["server"] \o FinishedUnits
               PROVE  FALSE
  BY <1>1, <1>2, FinishedTaken
<1>4. /\ dgst["server"] \in Transcripts /\ FinishedUnits \in Transcripts
      /\ Len(FinishedUnits) = MsgLen["FINISHED"] /\ MsgLen["FINISHED"] \in Nat \ {0}
  <2>1. "FINISHED" \in Types /\ MsgLen["FINISHED"] \in Nat \ {0}
    BY HandshakeAssumption DEF Types
  <2>2. FinishedUnits \in [1 .. MsgLen["FINISHED"] -> (Types \cup {"none", "dcid"}) \X Nat]
    BY <2>1 DEF FinishedUnits
  <2>3. FinishedUnits \in Transcripts /\ Len(FinishedUnits) = MsgLen["FINISHED"]
    BY <2>1, <2>2 DEF Transcripts
  <2> QED BY <1>1, <2>1, <2>3 DEF TlsType
<1>5. Len(AppKey) = Len(dgst["server"]) + MsgLen["FINISHED"] /\ Len(dgst["server"]) \in Nat
  <2>1. \A S : \A s, t \in Seq(S) : Len(s \o t) = Len(s) + Len(t) /\ Len(s) \in Nat
    OBVIOUS
  <2>2. Len(dgst["server"] \o FinishedUnits) = Len(dgst["server"]) + Len(FinishedUnits)
        /\ Len(dgst["server"]) \in Nat
    BY <1>4, <2>1 DEF Transcripts
  <2> QED BY <1>3, <1>4, <2>2
<1>6. Len(dgst["server"]) >= Len(AppKey)
  BY <1>2 DEF KeyInv
<1> QED BY <1>4, <1>5, <1>6

\* Only the frame HANDSHAKE_DONE makes a client done.
LEMMA ClientDone ==
    ASSUME CallType, TlsType, BufType, BufInv, NEW e \in Ends, Call(e) \/ Run(e) \/ Duplicate(e),
           statem'["client"] = "HANDSHAKE_DONE", statem["client"] # "HANDSHAKE_DONE"
    PROVE  RecvHandshakeDone("client")
<1>1. /\ statem \in [Ends -> {"INITIAL", "HANDSHAKE", "HANDSHAKE_DONE"}] /\ "client" \in Ends
  BY DEF CallType, Ends
<1>2. CASE RecvHandshakeDone(e)
  <2>1. PICK st : statem' = [statem EXCEPT ![e] = st]
    BY <1>2 DEF RecvHandshakeDone, PacketDone
  <2> QED BY <1>1, <1>2, <2>1
<1>3. CASE RecvAck(e)
  <2>1. statem' = [statem EXCEPT ![e] = IF @ = "INITIAL" THEN "HANDSHAKE" ELSE statem[e]]
    BY <1>3 DEF RecvAck, PacketDone
  <2> QED BY <1>1, <2>1
<1>4. CASE TlsReturn(e)
  <2>1. state'["client"] # "HANDSHAKE_DONE"
    BY TlsTypeStep DEF TlsType, ClientStates
  <2>2. \/ statem' = statem
        \/ statem' = [statem EXCEPT ![e] = IF @ = "INITIAL" THEN "HANDSHAKE" ELSE
                        IF state'[e] = "HANDSHAKE_DONE" THEN "HANDSHAKE_DONE" ELSE statem[e]]
    BY <1>4 DEF TlsReturn, PacketDone, PacketFails
  <2> QED BY <1>1, <2>1, <2>2
<1>5. CASE Early(e) \/ HandlerFails(e) \/ Handler(e) \/ Writes(e) \/ FlowNothing(e)
  <2>1. statem' = statem
    BY <1>5, TlsTurns DEF InTls
  <2> QED BY <2>1
<1>6. CASE Outside(e) /\ ~RecvAck(e)
  <2>1. statem' = statem
    BY <1>6 DEF Outside, Call, PreWork, QuicSendPacket, SendDone, QuicDatagramRecv, Duplicate,
       RejectPacket, PacketFails, RecvCrypto, FlowFinished, ReadNothing, WouldBlock
  <2> QED BY <2>1
<1> QED BY <1>2, <1>3, <1>4, <1>5, <1>6, Groups

\* Once made, the application keys of the server stay.
LEMMA AppKeyStays ==
    ASSUME TlsType, BufType, BufInv, KeyInv, NEW e \in Ends, Call(e) \/ Run(e) \/ Duplicate(e)
    PROVE  /\ Sealed' <=> AppKey' # NoKey
           /\ Sealed => Sealed' /\ AppKey' = AppKey
           /\ SrvrFinishedBuild("server") => /\ ~Sealed /\ dgst'["server"] # NoDigest
                                             /\ AppKey' = dgst'["server"]
           /\ Sealed' /\ ~Sealed => SrvrFinishedBuild("server")
<1>1. ServerMoves /\ "server" \in Ends
  BY Moves DEF Ends
<1>2. AppKey' = IF SrvrFinishedBuild("server") /\ AppKey = NoKey
                THEN dgst'["server"] ELSE AppKey
  BY AppKeys
<1>3. ASSUME SrvrFinishedBuild("server")
      PROVE  /\ ~Sealed /\ Sealed' /\ dgst'["server"] # NoDigest /\ AppKey = NoKey
  <2>1. state["server"] = "SW_FINISHED" /\ state'["server"] = "SR_FINISHED"
    BY <1>1, <1>3 DEF SrvrFinishedBuild, Builds, Goes, TlsType
  <2>2. ~Sealed /\ Sealed'
    BY <2>1 DEF Sealed
  <2>3. AppKey = NoKey /\ dgst["server"] # NoDigest
    BY <2>1, <2>2 DEF KeyInv
  <2>4. ~ClientHelloProc("server")
    <3>1. SUFFICES ASSUME ClientHelloProc("server") PROVE FALSE
      OBVIOUS
    <3>2. Handles("server", "CLIENT_HELLO")
      BY <3>1 DEF ClientHelloProc
    <3> QED BY <1>1, <2>1, <3>2, Handled
  <2>5. dgst'["server"] # NoDigest
    BY <2>3, <2>4, ServerDigest
  <2> QED BY <2>2, <2>3, <2>5
<1>4. /\ Sealed => Sealed'
      /\ Sealed' /\ ~Sealed => SrvrFinishedBuild("server")
  BY <1>1 DEF ServerMoves, Sealed
<1>5. Sealed <=> AppKey # NoKey
  BY DEF KeyInv
<1>6. NoKey = NoDigest
  BY DEF NoKey, NoDigest
<1>7. CASE SrvrFinishedBuild("server")
  <2>1. AppKey' = dgst'["server"]
    BY <1>2, <1>3, <1>7
  <2> QED BY <1>3, <1>6, <1>7, <2>1
<1>8. CASE ~SrvrFinishedBuild("server")
  <2>1. AppKey' = AppKey
    BY <1>2, <1>8
  <2>2. Sealed' <=> Sealed
    BY <1>4, <1>8
  <2> QED BY <1>5, <1>8, <2>1, <2>2 DEF NoKey
<1> QED BY <1>7, <1>8

\* The transcript of a server that has had its ClientHello is never empty, and is
\* never shorter than the one its application keys come from.
LEMMA DigestStep ==
    ASSUME TlsType, BufType, BufInv, KeyInv, NEW e \in Ends, Call(e) \/ Run(e) \/ Duplicate(e)
    PROVE  /\ state'["server"] \notin {"OK", "SR_CLIENT_HELLO"} => dgst'["server"] # NoDigest
           /\ Sealed' => Len(dgst'["server"]) >= Len(AppKey')
<1>1. ServerMoves /\ "server" \in Ends
  BY Moves DEF Ends
<1>2. ASSUME ClientHelloProc("server")
      PROVE  dgst'["server"] # NoDigest /\ state["server"] = "SR_CLIENT_HELLO"
  <2>1. /\ Handles("server", "CLIENT_HELLO") /\ Complete("server")
        /\ NextType("server") = "CLIENT_HELLO"
        /\ dgst' = [dgst EXCEPT !["server"] = CachedRecords("server", MsgLen["CLIENT_HELLO"])]
    BY <1>2 DEF ClientHelloProc, Handles
  <2>2. CachedRecords("server", MsgLen["CLIENT_HELLO"]) # NoDigest
    BY <1>1, <2>1, CachedType
  <2>3. state["server"] = "SR_CLIENT_HELLO"
    BY <1>1, <2>1, Handled
  <2> QED BY <1>1, <2>1, <2>2, <2>3 DEF TlsType
<1>3. ASSUME state'["server"] \notin {"OK", "SR_CLIENT_HELLO"}
      PROVE  dgst'["server"] # NoDigest
  <2>1. CASE state["server"] \in {"OK", "SR_CLIENT_HELLO"}
    <3>1. ClientHelloProc("server")
      BY <1>1, <1>3, <2>1 DEF ServerMoves
    <3> QED BY <1>2, <3>1
  <2>2. CASE state["server"] \notin {"OK", "SR_CLIENT_HELLO"}
    <3>1. dgst["server"] # NoDigest
      BY <2>2 DEF KeyInv
    <3> QED BY <3>1, ServerDigest
  <2> QED BY <2>1, <2>2
<1>4. ASSUME Sealed'
      PROVE  Len(dgst'["server"]) >= Len(AppKey')
  <2>1. dgst' \in [Ends -> Transcripts] /\ dgst'["server"] \in Transcripts
    BY <1>1, TlsTypeStep DEF TlsType
  <2>2. CASE SrvrFinishedBuild("server")
    <3>1. AppKey' = dgst'["server"]
      BY <2>2, AppKeyStays
    <3>2. Len(dgst'["server"]) \in Nat
      BY <2>1 DEF Transcripts
    <3> QED BY <3>1, <3>2
  <2>3. CASE ~SrvrFinishedBuild("server")
    <3>1. Sealed
      BY <1>4, <2>3, AppKeyStays
    <3>2. AppKey' = AppKey
      BY <3>1, AppKeyStays
    <3>3. Len(dgst["server"]) >= Len(AppKey) /\ dgst["server"] # NoDigest
      BY <3>1 DEF KeyInv, Sealed
    <3>4. ~ClientHelloProc("server")
      BY <1>2, <3>1 DEF Sealed
    <3>5. Len(dgst'["server"]) >= Len(dgst["server"])
      BY <3>3, <3>4, ServerDigest
    <3>6. Len(dgst'["server"]) \in Nat /\ Len(dgst["server"]) \in Nat /\ Len(AppKey) \in Nat
      <4>1. dgst["server"] \in Transcripts /\ AppKey \in Transcripts
        BY <1>1 DEF TlsType, KeyType, AppKey, Levels
      <4>2. \A S : \A s \in Seq(S) : Len(s) \in Nat
        OBVIOUS
      <4> QED BY <2>1, <4>1, <4>2 DEF Transcripts
    <3> QED BY <3>2, <3>3, <3>5, <3>6
  <2> QED BY <2>2, <2>3
<1> QED BY <1>3, <1>4

\* Every step keeps what is said of the keys.
LEMMA KeyInvStep ==
    ASSUME CallType, TlsType, BufType, NetType, BufInv, KeyInv, Carried(GoodCells, GoodPackets),
           NEW e \in Ends, Call(e) \/ Run(e) \/ Duplicate(e)
    PROVE  KeyInv'
<1>1. ClientMoves /\ ServerMoves /\ "server" \in Ends /\ "client" \in Ends
  BY Moves DEF Ends
<1>2. \A k \in {NoKey, AppKey} : k \in {NoKey, AppKey'}
  BY AppKeyStays DEF KeyInv
<1>3. /\ keys["client"].enc["1RTT"] \in {NoKey, AppKey}
      /\ keys["client"].dec["1RTT"] \in {NoKey, AppKey}
      /\ keys["server"].dec["1RTT"] \in {NoKey, AppKey}
  BY DEF KeyInv
<1>4. keys'["client"].enc["1RTT"] \in {NoKey, AppKey'}
  <2>1. keys'["client"].enc["1RTT"] \in {keys["client"].enc["1RTT"], keys["client"].dec["1RTT"]}
    BY AppKeys
  <2> QED BY <1>2, <1>3, <2>1
<1>5. keys'["client"].dec["1RTT"] \in {NoKey, AppKey'}
  <2>1. CASE ClientFinishedProc("client")
    <3>1. keys'["client"].dec["1RTT"] \in {keys["client"].dec["1RTT"], dgst'["client"]}
      BY AppKeys
    <3> QED BY <1>2, <1>3, <2>1, <3>1, ClientTakes
  <2>2. CASE ~ClientFinishedProc("client")
    <3>1. keys'["client"].dec["1RTT"] = keys["client"].dec["1RTT"]
      BY <2>2, AppKeys
    <3> QED BY <1>2, <1>3, <3>1
  <2> QED BY <2>1, <2>2
<1>6. keys'["server"].dec["1RTT"] \in {NoKey, AppKey'}
  <2>1. keys'["server"].dec["1RTT"] \in {keys["server"].dec["1RTT"], AppKey}
    BY AppKeys
  <2> QED BY <1>2, <1>3, <2>1
<1>7. state'["client"] \in {"CW_FINISHED", "CR_NEW_SESSION_TICKET"} <=>
        keys'["client"].dec["1RTT"] # NoKey
  <2>1. state["client"] \in {"CW_FINISHED", "CR_NEW_SESSION_TICKET"} <=>
          keys["client"].dec["1RTT"] # NoKey
    BY DEF KeyInv
  <2>2. CASE ClientFinishedProc("client")
    <3>1. Handles("client", "FINISHED")
      BY <2>2 DEF ClientFinishedProc
    <3>2. state'["client"] = "CW_FINISHED"
      BY <1>1, <3>1, Handled DEF TlsType
    <3>3. Sealed /\ dgst'["client"] = AppKey
      BY <2>2, ClientTakes
    <3>4. dgst'["client"] # NoKey
      BY <3>3 DEF KeyInv
    <3>5. keys'["client"].dec["1RTT"] = IF keys["client"].dec["1RTT"] = NoKey
                                        THEN dgst'["client"] ELSE keys["client"].dec["1RTT"]
      BY <2>2, AppKeys
    <3> QED BY <3>2, <3>4, <3>5
  <2>3. CASE ~ClientFinishedProc("client")
    <3>1. keys'["client"].dec["1RTT"] = keys["client"].dec["1RTT"]
      BY <2>3, AppKeys
    <3>2. state'["client"] \in {"CW_FINISHED", "CR_NEW_SESSION_TICKET"} <=>
            state["client"] \in {"CW_FINISHED", "CR_NEW_SESSION_TICKET"}
      BY <1>1, <2>3 DEF ClientMoves, ClientReads
    <3> QED BY <2>1, <3>1, <3>2
  <2> QED BY <2>2, <2>3
<1>8. state["client"] = "CR_NEW_SESSION_TICKET" => state'["client"] = "CR_NEW_SESSION_TICKET"
  BY <1>1 DEF ClientMoves, ClientReads
<1>9. state'["server"] \in {"SW_NEW_SESSION_TICKET", "SW_HANDSHAKE_DONE", "HANDSHAKE_DONE"} =>
        state'["client"] = "CR_NEW_SESSION_TICKET"
  <2>1. SUFFICES ASSUME state'["server"] \in {"SW_NEW_SESSION_TICKET", "SW_HANDSHAKE_DONE",
                                              "HANDSHAKE_DONE"}
                 PROVE  state["client"] = "CR_NEW_SESSION_TICKET"
    BY <1>8
  <2>2. \/ state["server"] \in {"SW_NEW_SESSION_TICKET", "SW_HANDSHAKE_DONE", "HANDSHAKE_DONE"}
        \/ SrvrFinishedProc("server")
    BY <1>1, <2>1 DEF ServerMoves
  <2> QED BY <2>2, ServerTakes DEF KeyInv
<1>10. statem'["client"] = "HANDSHAKE_DONE" => state'["server"] = "HANDSHAKE_DONE"
  <2>1. SUFFICES ASSUME statem'["client"] = "HANDSHAKE_DONE"
                 PROVE  state["server"] = "HANDSHAKE_DONE"
    BY <1>1 DEF ServerMoves
  <2>2. CASE statem["client"] = "HANDSHAKE_DONE"
    BY <2>2 DEF KeyInv
  <2>3. CASE statem["client"] # "HANDSHAKE_DONE"
    <3>1. Received("client") /\ Head(inq["client"]).kind = "handshake_done"
      BY <2>1, <2>3, ClientDone DEF RecvHandshakeDone
    <3>2. inq["client"] \in Seq(GoodPackets) /\ inq["client"] # <<>>
      BY <1>1, <3>1 DEF Carried, Received
    <3>3. Head(inq["client"]) \in GoodPackets
      BY <3>2
    <3> QED BY <3>1, <3>3 DEF GoodPackets
  <2> QED BY <2>2, <2>3
<1>11. Sealed' <=> AppKey' # NoKey
  BY AppKeyStays
<1>12. /\ state'["server"] \notin {"OK", "SR_CLIENT_HELLO"} => dgst'["server"] # NoDigest
       /\ Sealed' => Len(dgst'["server"]) >= Len(AppKey')
  BY DigestStep
<1> QED BY <1>4, <1>5, <1>6, <1>7, <1>9, <1>10, <1>11, <1>12 DEF KeyInv

\* A Finished that was the server's stays so, a client that has sent its own has done so.
LEMMA CellsKept ==
    ASSUME TlsType, BufType, BufInv, KeyInv, NEW e \in Ends, Call(e) \/ Run(e) \/ Duplicate(e)
    PROVE  GoodCells \subseteq GoodCells' /\ NoCell \in GoodCells' /\ GoodCells' \subseteq AllCells
<1>1. state["client"] = "CR_NEW_SESSION_TICKET" => state'["client"] = "CR_NEW_SESSION_TICKET"
  BY Moves DEF ClientMoves, ClientReads
<1>2. Sealed => Sealed' /\ AppKey' = AppKey
  BY AppKeyStays
<1> QED BY <1>1, <1>2, NoCellKnown DEF GoodCells

\* The Finished that an end writes is its own.
LEMMA BuiltGood ==
    ASSUME TlsType, BufType, BufInv, KeyInv, NEW e \in Ends, Call(e) \/ Run(e) \/ Duplicate(e),
           NEW m \in Messages, NEW st, NEW next, m.type \in Types, Builds(e, st, m),
           Built(e, m, st, next)
    PROVE  Cells(m) \in Seq(GoodCells')
<1>1. /\ Cells(m) \in Seq(AllCells) /\ \A i \in 1 .. Len(Cells(m)) : Cells(m)[i].msg = m
  BY CellsOf
<1>2. m.type = "FINISHED" =>
        \/ state'["client"] = "CR_NEW_SESSION_TICKET"
        \/ Sealed' /\ m.mac # NoDigest /\ AppKey' = m.mac \o FinishedUnits
  <2>1. SUFFICES ASSUME m.type = "FINISHED"
                 PROVE  \/ state'["client"] = "CR_NEW_SESSION_TICKET"
                        \/ Sealed' /\ m.mac # NoDigest /\ AppKey' = m.mac \o FinishedUnits
    OBVIOUS
  <2>2. CASE e = "client" /\ ClntFinishedBuild(e)
    BY <2>2 DEF ClntFinishedBuild, Goes, TlsType
  <2>3. CASE e = "server" /\ SrvrFinishedBuild(e) /\ m = Message("FINISHED", FALSE, dgst[e])
    <3>1. Sealed' /\ AppKey' = dgst'["server"] /\ dgst'["server"] # NoDigest
      BY <2>3, AppKeyStays DEF KeyInv, NoKey, NoDigest
    <3>2. m.mac = dgst["server"] /\ dgst["server"] \in Transcripts
      BY <2>3 DEF Message, TlsType
    <3>3. dgst'["server"] = Digested(dgst["server"], Cells(m))
      BY <2>3 DEF Builds, TlsType
    <3>4. Digested(dgst["server"], Cells(m)) =
            IF dgst["server"] = NoDigest THEN NoDigest ELSE dgst["server"] \o FinishedUnits
      BY <2>1, <3>2, FinishedDigested
    <3> QED BY <3>1, <3>2, <3>3, <3>4
  <2> QED BY <2>1, <2>2, <2>3 DEF Built
<1>3. \A i \in 1 .. Len(Cells(m)) : Cells(m)[i] \in GoodCells'
  <2>1. \A i \in 1 .. Len(Cells(m)) : Cells(m)[i] \in AllCells
    BY <1>1
  <2>2. \A c \in AllCells : c.msg = m => c \in GoodCells'
    BY <1>2 DEF GoodCells
  <2> QED BY <1>1, <2>1, <2>2
<1>4. \A S, T : \A s \in Seq(S) : (\A i \in 1 .. Len(s) : s[i] \in T) => s \in Seq(T)
  <2>1. SUFFICES ASSUME NEW S, NEW T, NEW s \in Seq(S), \A i \in 1 .. Len(s) : s[i] \in T
                 PROVE  s \in Seq(T)
    OBVIOUS
  <2>2. s \in [1 .. Len(s) -> T] /\ Len(s) \in Nat
    BY <2>1
  <2> QED BY <2>2
<1> QED BY <1>1, <1>3, <1>4

\* A HANDSHAKE_DONE is on its way only from a server that is done.
LEMMA GoodClosed ==
    ASSUME TlsType, BufType, BufInv, KeyInv, NEW e \in Ends, Call(e) \/ Run(e) \/ Duplicate(e),
           NEW C, NEW P, NEW P2, C = GoodCells, P = GoodPackets, P2 = GoodPackets'
    PROVE  Closed(C, P, P2) /\ P \subseteq Packets(C)
<1>1. GoodCells \subseteq GoodCells'
  BY CellsKept
<1>2. state["server"] = "HANDSHAKE_DONE" => state'["server"] = "HANDSHAKE_DONE"
  BY Moves DEF ServerMoves
<1>3. Seq(GoodCells) \subseteq Seq(GoodCells')
  <2>1. \A A, B : A \subseteq B => Seq(A) \subseteq Seq(B)
    BY SeqLarger
  <2> QED BY <1>1, <2>1
<1>4. P = {p \in Packets(C) : p.kind = "handshake_done" => state["server"] = "HANDSHAKE_DONE"}
  BY DEF GoodPackets
<1>5. PICK C2 : C2 = GoodCells'
  OBVIOUS
<1>6. P2 = {p \in Packets(C2) : p.kind = "handshake_done" => state'["server"] = "HANDSHAKE_DONE"}
  BY <1>5 DEF GoodPackets, Packets
<1>7. Packets(C) \subseteq Packets(C2) /\ Seq(C) \subseteq Seq(C2)
  BY <1>3, <1>5 DEF Packets
<1>8. P \subseteq P2 /\ P \subseteq Packets(C)
  BY <1>2, <1>4, <1>6, <1>7
<1>9. \A p \in P : \A k \in Transcripts : \A n \in Nat : [p EXCEPT !.key = k, !.pn = n] \in P2
  <2>1. SUFFICES ASSUME NEW p \in P2, NEW k \in Transcripts, NEW n \in Nat
                 PROVE  [p EXCEPT !.key = k, !.pn = n] \in P2
    BY <1>8
  <2>2. p \in Packets(C2) /\ (p.kind = "handshake_done" => state'["server"] = "HANDSHAKE_DONE")
    BY <1>6
  <2>3. /\ [p EXCEPT !.key = k, !.pn = n] \in Packets(C2)
        /\ [p EXCEPT !.key = k, !.pn = n].kind = p.kind
    BY <2>2 DEF Packets
  <2> QED BY <1>6, <2>2, <2>3
<1>10. /\ \A l \in Levels : Packet(l, "ack", 0, <<>>, NoKey) \in P2
       /\ \A l \in Levels : \A o \in Nat : \A d \in Seq(C) : Packet(l, "crypto", o, d, NoKey) \in P2
  <2>1. NoKey \in Transcripts /\ <<>> \in Seq(C2)
    BY DEF NoKey, Transcripts
  <2>2. \A l \in Levels : \A k \in {"ack", "crypto"} : \A o \in Nat : \A d \in Seq(C2) :
          /\ Packet(l, k, o, d, NoKey) \in Packets(C2)
          /\ Packet(l, k, o, d, NoKey).kind = k
    BY <2>1 DEF Packet, Packets, Kinds
  <2>3. \A l \in Levels : \A k \in {"ack", "crypto"} : \A o \in Nat : \A d \in Seq(C2) :
          Packet(l, k, o, d, NoKey) \in P2
    BY <1>6, <2>2
  <2> QED BY <1>7, <2>1, <2>3
<1> QED BY <1>8, <1>9, <1>10 DEF Closed

\* Every step keeps what is said of the units and packets on their way.
LEMMA GoodStep ==
    ASSUME CallType, TlsType, BufType, NetType, BufInv, KeyInv, Carried(GoodCells, GoodPackets),
           NEW e \in Ends, Call(e) \/ Run(e) \/ Duplicate(e)
    PROVE  Carried(GoodCells, GoodPackets)'
<1>1. PICK C, C2, P, P2 : C = GoodCells /\ C2 = GoodCells' /\ P = GoodPackets /\ P2 = GoodPackets'
  OBVIOUS
<1>2. Carried(C, P)
  BY <1>1
<1>3. Closed(C, P, P2) /\ P \subseteq Packets(C)
  BY <1>1, GoodClosed
<1>4. C \subseteq C2 /\ C2 \subseteq AllCells /\ NoCell \in C2
  BY <1>1, CellsKept
<1>5. \A m \in Messages : \A st, next :
        m.type \in Types /\ Builds(e, st, m) /\ Built(e, m, st, next) => Cells(m) \in Seq(C2)
  BY <1>1, BuiltGood
<1>6. \A f \in Ends : buf'[f].mem \in Seq(C2)
  BY <1>2, <1>3, <1>4, <1>5, MemStep
<1>7. TlsReturn(e) /\ FlightDone(e) =>
        \A l \in Levels : Packet(l, "handshake_done", 0, <<>>, NoKey) \in P2
  <2>1. SUFFICES ASSUME TlsReturn(e), FlightDone(e), NEW l \in Levels
                 PROVE  Packet(l, "handshake_done", 0, <<>>, NoKey) \in P2
    OBVIOUS
  <2>2. e = "server" /\ state' = [state EXCEPT ![e] = "HANDSHAKE_DONE"]
    BY <2>1 DEF TlsReturn, FlightDone, TlsType, ClientStates, Ends
  <2>3. state'["server"] = "HANDSHAKE_DONE"
    BY <2>2 DEF TlsType
  <2>4. Packet(l, "handshake_done", 0, <<>>, NoKey) \in Packets(C2)
    <3>1. <<>> \in Seq(C2) /\ NoKey \in Transcripts
      BY DEF NoKey, Transcripts
    <3> QED BY <3>1 DEF Packets, Packet, Kinds
  <2> QED BY <1>1, <2>3, <2>4 DEF GoodPackets, Packets
<1>8. txq' \in [Ends -> Seq(P2)]
  BY <1>2, <1>3, <1>7, QueueStep
<1>9. inq' \in [Ends -> Seq(P2)] /\ net' \in [Ends -> Seq(Seq(P2))]
  BY <1>2, <1>3, NetStep
<1> QED BY <1>1, <1>6, <1>8, <1>9 DEF Carried

-----------------------------------------------------------------------------
(* The invariant and what it shows.                                           *)

Inv ==
    /\ CallType /\ TlsType /\ BufType /\ NetType
    /\ CallInv /\ BufInv /\ KeyInv /\ Carried(GoodCells, GoodPackets)

\* Nothing has been sent and no key but the Initial ones exists.
LEMMA InitInv == Init => Inv
<1> SUFFICES ASSUME Init PROVE Inv
  OBVIOUS
<1>0. /\ NoKey \in Transcripts /\ InitialKey \in Transcripts /\ NoDigest = NoKey
      /\ "client" \in Ends /\ "server" \in Ends /\ "1RTT" \in Levels
  BY DEF NoKey, NoDigest, InitialKey, Transcripts, Ends, Levels
<1>1. CallType
  BY DEF Init, CallType
<1>2. TlsType
  BY <1>0 DEF Init, TlsType, KeyType, ClientStates, ServerStates
<1>3. BufType
  BY DEF Init, BufType, Buffers, Levels
<1>4. \A C, P : Carried(C, P)
  <2>1. \A S : <<>> \in Seq(S)
    OBVIOUS
  <2> QED BY <2>1 DEF Init, Carried
<1>5. CallInv
  BY <1>0 DEF Init, CallInv, Untouched
<1>6. BufInv
  BY <1>0 DEF Init, BufInv
<1>7. KeyInv
  <2>1. AppKey = NoKey
    BY <1>0 DEF Init, AppKey
  <2>2. \A k \in {keys["client"].enc, keys["client"].dec, keys["server"].dec} : k["1RTT"] = NoKey
    BY <1>0 DEF Init
  <2>3. state["client"] = "OK" /\ state["server"] = "OK" /\ statem["client"] = "INITIAL"
    BY <1>0 DEF Init
  <2> QED BY <2>1, <2>2, <2>3 DEF KeyInv, Sealed
<1> QED BY <1>1, <1>2, <1>3, <1>4, <1>5, <1>6, <1>7 DEF Inv, NetType

\* Every step keeps the invariant.
LEMMA InvStep ==
    ASSUME Inv, NEW e \in Ends, Call(e) \/ Run(e) \/ Duplicate(e)
    PROVE  Inv'
<1>1. /\ CallType /\ TlsType /\ BufType /\ NetType
      /\ CallInv /\ BufInv /\ KeyInv /\ Carried(GoodCells, GoodPackets)
  BY DEF Inv
<1>2. CallType' /\ TlsType' /\ BufType' /\ NetType'
  BY <1>1, CallTypeStep, TlsTypeStep, BufTypeStep, NetTypeStep
<1>3. CallInv' /\ BufInv' /\ KeyInv' /\ Carried(GoodCells, GoodPackets)'
  BY <1>1, CallInvStep, BufInvStep, KeyInvStep, GoodStep
<1> QED BY <1>2, <1>3 DEF Inv

\* Nothing else changes it.
LEMMA InvStutter ==
    ASSUME Inv, UNCHANGED vars
    PROVE  Inv'
<1>1. CallType' /\ TlsType' /\ BufType' /\ BufInv'
  BY DEF Inv, vars, callVars, tlsVars, bufVars, netVars, CallType, TlsType, BufType, BufInv
<1>2. CallInv'
  BY DEF Inv, vars, callVars, tlsVars, bufVars, netVars, CallInv, Untouched, GivenUp
<1>3. Sealed' = Sealed /\ AppKey' = AppKey /\ GoodCells' = GoodCells /\ GoodPackets' = GoodPackets
  BY DEF vars, tlsVars, Sealed, AppKey, GoodCells, GoodPackets, Packets
<1>4. KeyInv'
  BY <1>3 DEF Inv, KeyInv, vars, callVars, tlsVars
<1>5. NetType'
  BY DEF Inv, NetType, Carried, vars, bufVars, netVars
<1>6. Carried(GoodCells, GoodPackets)'
  BY <1>3 DEF Inv, Carried, vars, bufVars, netVars
<1> QED BY <1>1, <1>2, <1>4, <1>5, <1>6 DEF Inv

\* Every state satisfies the invariant.
LEMMA Invariant == Spec => []Inv
<1>1. Inv /\ [Next]_vars => Inv'
  BY InvStep, InvStutter DEF Next
<1> QED BY InitInv, <1>1, PTL DEF Spec

\* Both ends that hold application keys hold the same ones, in both directions, after
\* every loss, repetition and reordering of the flights: the client installs keys on a
\* Finished only (TlsFinishedCheck), which is the server's, and the server on the client's.
THEOREM AgreesOnKeys == Spec => []KeysAgree
<1>1. Inv => KeysAgree
  <2>1. SUFFICES ASSUME KeyInv, NEW e \in Ends, NEW f \in Ends
                 PROVE  LET a == keys[e].dec["1RTT"] b == keys[f].enc["1RTT"]
                        IN a = NoKey \/ b = NoKey \/ a = b
    BY DEF Inv, KeysAgree
  <2>2. /\ keys[e].dec["1RTT"] \in {NoKey, AppKey}
        /\ keys[f].enc["1RTT"] \in {NoKey, AppKey}
    BY <2>1 DEF KeyInv, AppKey, Ends
  <2> QED BY <2>2
<1> QED BY <1>1, Invariant, PTL

-----------------------------------------------------------------------------
(* The refinement: what each step is to HandshakeOrder.                       *)

\* A client that is done stays so.
LEMMA DoneStays ==
    ASSUME CallType, TlsType, NEW e \in Ends, Call(e) \/ Run(e) \/ Duplicate(e),
           statem["client"] = "HANDSHAKE_DONE"
    PROVE  statem'["client"] = "HANDSHAKE_DONE"
<1>1. /\ statem \in [Ends -> {"INITIAL", "HANDSHAKE", "HANDSHAKE_DONE"}] /\ "client" \in Ends
  BY DEF CallType, Ends
<1>2. CASE RecvHandshakeDone(e) \/ RecvAck(e) \/ TlsReturn(e)
  <2>1. \/ statem' = statem
        \/ \E st \in {"HANDSHAKE_DONE", statem[e]} :
             statem' = [statem EXCEPT ![e] = IF @ = "INITIAL" THEN "HANDSHAKE" ELSE st]
    BY <1>2 DEF RecvHandshakeDone, RecvAck, TlsReturn, PacketDone, PacketFails
  <2> QED BY <1>1, <2>1
<1>3. CASE Early(e) \/ HandlerFails(e) \/ Handler(e) \/ Writes(e) \/ FlowNothing(e)
  <2>1. statem' = statem
    BY <1>3, TlsTurns DEF InTls
  <2> QED BY <2>1
<1>4. CASE Outside(e) /\ ~RecvAck(e)
  <2>1. statem' = statem
    BY <1>4 DEF Outside, Call, PreWork, QuicSendPacket, SendDone, QuicDatagramRecv, Duplicate,
       RejectPacket, PacketFails, RecvCrypto, FlowFinished, ReadNothing, WouldBlock
  <2> QED BY <2>1
<1> QED BY <1>2, <1>3, <1>4, Groups

\* A client becomes done when the server is.
LEMMA DoneAfterServer ==
    ASSUME Inv, NEW e \in Ends, Call(e) \/ Run(e) \/ Duplicate(e),
           statem'["client"] = "HANDSHAKE_DONE"
    PROVE  state["server"] = "HANDSHAKE_DONE"
<1>0. /\ CallType /\ TlsType /\ BufType /\ BufInv /\ KeyInv /\ Carried(GoodCells, GoodPackets)
  BY DEF Inv
<1>1. CASE statem["client"] = "HANDSHAKE_DONE"
  BY <1>0, <1>1 DEF KeyInv
<1>2. CASE statem["client"] # "HANDSHAKE_DONE"
  <2>1. Received("client") /\ Head(inq["client"]).kind = "handshake_done"
    BY <1>0, <1>2, ClientDone DEF RecvHandshakeDone
  <2>2. inq["client"] \in Seq(GoodPackets) /\ inq["client"] # <<>>
    BY <1>0, <2>1 DEF Carried, Received, Ends
  <2>3. Head(inq["client"]) \in GoodPackets
    BY <2>2
  <2> QED BY <2>1, <2>3 DEF GoodPackets
<1> QED BY <1>1, <1>2

ClientKey == keys["client"].dec["1RTT"]
ServerIsDone == state["server"] = "HANDSHAKE_DONE"
ClientIsDone == statem["client"] = "HANDSHAKE_DONE"

\* The stages, in the order the invariant imposes.
StageFacts ==
    /\ Stage("server") = IF ServerIsDone THEN "done" ELSE IF Sealed THEN "keyed" ELSE "start"
    /\ Stage("client") = IF ClientIsDone THEN "done" ELSE IF ClientKey # NoKey THEN "keyed" ELSE "start"
    /\ ClientIsDone => ServerIsDone
    /\ ServerIsDone => ClientKey # NoKey
    /\ ClientKey # NoKey => Sealed /\ ClientKey = AppKey
    /\ Sealed <=> AppKey # NoKey

\* Nobody is done before the other end has its keys.
LEMMA Stages == Inv => StageFacts
<1> SUFFICES ASSUME Inv PROVE StageFacts
  OBVIOUS
<1>1. KeyInv
  BY DEF Inv
<1>2. Sealed <=> AppKey # NoKey
  BY <1>1 DEF KeyInv
<1>3. ClientKey \in {NoKey, AppKey}
  BY <1>1 DEF KeyInv, ClientKey
<1>4. ServerIsDone => ClientKey # NoKey
  BY <1>1 DEF KeyInv, ClientKey, ServerIsDone
<1>5. ClientIsDone => ServerIsDone
  BY <1>1 DEF KeyInv, ClientIsDone, ServerIsDone
<1>6. Stage("server") = IF ServerIsDone THEN "done" ELSE IF Sealed THEN "keyed" ELSE "start"
  BY <1>2 DEF Stage, ServerIsDone, AppKey
<1>7. Stage("client") = IF ClientIsDone THEN "done" ELSE IF ClientKey # NoKey THEN "keyed" ELSE "start"
  BY DEF Stage, ClientIsDone, ClientKey
<1> QED BY <1>2, <1>3, <1>4, <1>5, <1>6, <1>7 DEF StageFacts

\* What a step changes of the stages.
LEMMA StageChanges ==
    ASSUME Inv, Inv', NEW e \in Ends, Call(e) \/ Run(e) \/ Duplicate(e)
    PROVE  /\ ~Sealed /\ Sealed' => /\ ~ClientIsDone' /\ ~ServerIsDone' /\ ClientKey' = NoKey
                                    /\ AppKey' \in Transcripts
           /\ Sealed => Sealed' /\ AppKey' = AppKey
           /\ ClientKey = NoKey /\ ClientKey' # NoKey => ~ServerIsDone' /\ Sealed
           /\ ClientKey # NoKey => ClientKey' = ClientKey
           /\ ServerIsDone => ServerIsDone'
           /\ ClientIsDone => ClientIsDone'
           /\ ClientIsDone' => ServerIsDone
<1>0. /\ CallType /\ TlsType /\ BufType /\ NetType /\ BufInv /\ KeyInv
      /\ Carried(GoodCells, GoodPackets) /\ TlsType' /\ KeyInv'
      /\ "client" \in Ends /\ "server" \in Ends /\ "1RTT" \in Levels
  BY DEF Inv, Ends, Levels
<1>1. ClientMoves /\ ServerMoves
  BY <1>0, Moves
<1>2. ClientKey' = IF ClientFinishedProc("client") /\ ClientKey = NoKey
                   THEN dgst'["client"] ELSE ClientKey
  BY <1>0, AppKeys DEF ClientKey
<1>3. ASSUME ClientFinishedProc("client")
      PROVE  Sealed /\ state'["client"] = "CW_FINISHED"
  <2>1. Handles("client", "FINISHED")
    BY <1>3 DEF ClientFinishedProc
  <2>2. state'["client"] = "CW_FINISHED"
    BY <1>0, <2>1, Handled DEF TlsType
  <2> QED BY <1>0, <1>3, <2>2, ClientTakes
<1>4. ASSUME ~Sealed, Sealed'
      PROVE  /\ ~ClientIsDone' /\ ~ServerIsDone' /\ ClientKey' = NoKey
             /\ AppKey' \in Transcripts
  <2>1. ClientKey = NoKey
    BY <1>4, Stages DEF StageFacts
  <2>2. ClientKey' = NoKey
    BY <1>2, <1>3, <1>4, <2>1
  <2>3. ~ServerIsDone'
    <3>1. ServerIsDone' => ClientKey' # NoKey
      BY <1>0 DEF KeyInv, ServerIsDone, ClientKey
    <3> QED BY <2>2, <3>1
  <2>4. ~ClientIsDone'
    BY <1>0, <2>3 DEF KeyInv, ClientIsDone, ServerIsDone
  <2>5. AppKey' \in Transcripts
    BY <1>0 DEF TlsType, KeyType, AppKey
  <2> QED BY <2>2, <2>3, <2>4, <2>5
<1>5. Sealed => Sealed' /\ AppKey' = AppKey
  BY <1>0, AppKeyStays
<1>6. ASSUME ClientKey = NoKey, ClientKey' # NoKey
      PROVE  ~ServerIsDone' /\ Sealed
  <2>1. ClientFinishedProc("client")
    BY <1>2, <1>6
  <2>2. state'["client"] = "CW_FINISHED" /\ Sealed
    BY <1>3, <2>1
  <2> QED BY <1>0, <2>2 DEF KeyInv, ServerIsDone
<1>7. ClientKey # NoKey => ClientKey' = ClientKey
  BY <1>2
<1>8. ServerIsDone => ServerIsDone'
  BY <1>1 DEF ServerMoves, ServerIsDone
<1>9. ClientIsDone => ClientIsDone'
  BY <1>0, DoneStays DEF ClientIsDone
<1>10. ClientIsDone' => ServerIsDone
  BY DoneAfterServer DEF ClientIsDone, ServerIsDone
<1> QED BY <1>4, <1>5, <1>6, <1>7, <1>8, <1>9, <1>10

\* Each step is one of HandshakeOrder, or changes nothing that it speaks of.
LEMMA OrderStep ==
    ASSUME Inv, Inv', NEW e \in Ends, Call(e) \/ Run(e) \/ Duplicate(e)
    PROVE  Order!Next \/ UNCHANGED Order!vars
<1> DEFINE stg == [f \in Ends |-> Stage(f)]
           sec == [f \in Ends |-> IF f = "server" THEN keys[f].enc["1RTT"] ELSE keys[f].dec["1RTT"]]
<1>0. Ends = {"client", "server"} /\ Order!Ends = Ends
  BY DEF Ends, Order!Ends
<1>1. /\ sec["server"] = AppKey /\ sec'["server"] = AppKey'
      /\ sec["client"] = ClientKey /\ sec'["client"] = ClientKey'
  BY <1>0 DEF AppKey, ClientKey
<1>2. /\ stg["server"] = Stage("server") /\ stg'["server"] = Stage("server")'
      /\ stg["client"] = Stage("client") /\ stg'["client"] = Stage("client")'
  BY <1>0
<1>3. StageFacts
  BY Stages
<1>4. StageFacts'
  BY Stages, PTL
<1>5. /\ stg = [f \in Ends |-> stg[f]] /\ stg' = [f \in Ends |-> stg'[f]]
      /\ sec = [f \in Ends |-> sec[f]] /\ sec' = [f \in Ends |-> sec'[f]]
  OBVIOUS
<1> HIDE DEF stg, sec
<1>6. CASE ~Sealed /\ Sealed'
  <2>1. /\ stg["server"] = "start" /\ stg["client"] = "start"
        /\ stg'["server"] = "keyed" /\ stg'["client"] = "start"
        /\ sec'["server"] \in Transcripts /\ sec'["client"] = NoKey /\ sec["client"] = NoKey
    BY <1>1, <1>2, <1>3, <1>4, <1>6, StageChanges DEF StageFacts
  <2>2. NoKey \in Transcripts
    BY DEF NoKey, Transcripts
  <2>3. stg' = [stg EXCEPT !["server"] = "keyed"] /\ sec' \in [Ends -> Transcripts]
    BY <1>0, <1>5, <2>1, <2>2
  <2>4. Order!ServerKeyed
    BY <1>0, <2>1, <2>3 DEF Order!ServerKeyed, stg, sec
  <2> QED BY <2>4 DEF Order!Next
<1>7. CASE Sealed /\ ClientKey = NoKey /\ ClientKey' # NoKey
  <2>1. /\ stg["server"] = "keyed" /\ stg["client"] = "start"
        /\ stg'["server"] = "keyed" /\ stg'["client"] = "keyed"
        /\ sec'["server"] = sec["server"] /\ sec'["client"] = sec["server"]
    BY <1>1, <1>2, <1>3, <1>4, <1>7, StageChanges DEF StageFacts
  <2>2. /\ stg' = [stg EXCEPT !["client"] = "keyed"]
        /\ sec' = [sec EXCEPT !["client"] = sec["server"]]
    BY <1>0, <1>5, <2>1
  <2>3. Order!ClientKeyed
    BY <2>1, <2>2 DEF Order!ClientKeyed, stg, sec
  <2> QED BY <2>3 DEF Order!Next
<1>8. CASE Sealed /\ ClientKey' = ClientKey /\ ~ServerIsDone /\ ServerIsDone'
  <2>1. /\ stg["server"] = "keyed" /\ stg["client"] = "keyed"
        /\ stg'["server"] = "done" /\ stg'["client"] = "keyed"
        /\ sec'["server"] = sec["server"] /\ sec'["client"] = sec["client"]
    BY <1>1, <1>2, <1>3, <1>4, <1>8, StageChanges DEF StageFacts
  <2>2. stg' = [stg EXCEPT !["server"] = "done"] /\ sec' = sec
    BY <1>0, <1>5, <2>1
  <2>3. Order!ServerDone
    BY <2>1, <2>2 DEF Order!ServerDone, stg, sec
  <2> QED BY <2>3 DEF Order!Next
<1>9. CASE Sealed /\ ClientKey' = ClientKey /\ (ServerIsDone' <=> ServerIsDone) /\ ~ClientIsDone /\ ClientIsDone'
  <2>1. /\ stg["server"] = "done" /\ stg["client"] = "keyed"
        /\ stg'["server"] = "done" /\ stg'["client"] = "done"
        /\ sec'["server"] = sec["server"] /\ sec'["client"] = sec["client"]
    BY <1>1, <1>2, <1>3, <1>4, <1>9, StageChanges DEF StageFacts
  <2>2. stg' = [stg EXCEPT !["client"] = "done"] /\ sec' = sec
    BY <1>0, <1>5, <2>1
  <2>3. Order!ClientDone
    BY <2>1, <2>2 DEF Order!ClientDone, stg, sec
  <2> QED BY <2>3 DEF Order!Next
<1>10. CASE /\ Sealed' <=> Sealed
            /\ ClientKey' = ClientKey
            /\ ServerIsDone' <=> ServerIsDone
            /\ ClientIsDone' <=> ClientIsDone
  <2>1. AppKey' = AppKey
    BY <1>3, <1>4, <1>10, StageChanges DEF StageFacts
  <2>2. /\ stg'["server"] = stg["server"] /\ stg'["client"] = stg["client"]
        /\ sec'["server"] = sec["server"] /\ sec'["client"] = sec["client"]
    BY <1>1, <1>2, <1>3, <1>4, <1>10, <2>1 DEF StageFacts
  <2>3. stg' = stg /\ sec' = sec
    BY <1>0, <1>5, <2>2
  <2> QED BY <2>3 DEF Order!vars, stg, sec
<1>11. \/ ~Sealed /\ Sealed'
       \/ Sealed /\ ClientKey = NoKey /\ ClientKey' # NoKey
       \/ Sealed /\ ClientKey' = ClientKey /\ ~ServerIsDone /\ ServerIsDone'
       \/ Sealed /\ ClientKey' = ClientKey /\ (ServerIsDone' <=> ServerIsDone) /\ ~ClientIsDone /\ ClientIsDone'
       \/ /\ Sealed' <=> Sealed
          /\ ClientKey' = ClientKey
          /\ ServerIsDone' <=> ServerIsDone
          /\ ClientIsDone' <=> ClientIsDone
  BY <1>3, <1>4, StageChanges DEF StageFacts
<1> QED BY <1>6, <1>7, <1>8, <1>9, <1>10, <1>11

\* The handshake implements HandshakeOrder: the server has application keys first, the
\* client takes the same, the server is done (SW_HANDSHAKE_DONE) only when the client has
\* them, and the client (QuicFrameHandshakeDoneParser) only when the server is.
THEOREM ImplementsOrder == Spec => HandshakeOrdered
<1>1. Init => Order!Init
  <2> SUFFICES ASSUME Init PROVE Order!Init
    OBVIOUS
  <2>1. /\ state["server"] = "OK" /\ statem["client"] = "INITIAL"
        /\ \A f \in Ends : keys[f].enc["1RTT"] = NoKey /\ keys[f].dec["1RTT"] = NoKey
    BY DEF Init, Ends, Levels
  <2>2. \A f \in Ends : Stage(f) = "start"
    BY <2>1 DEF Stage, Ends
  <2> QED BY <2>1, <2>2 DEF Order!Init, Order!Ends, Order!Unset, NoKey, Ends
<1>2. Inv /\ Inv' /\ [Next]_vars => [Order!Next]_(Order!vars)
  <2>1. SUFFICES ASSUME Inv, Inv', [Next]_vars PROVE Order!Next \/ UNCHANGED Order!vars
    OBVIOUS
  <2>2. CASE Next
    BY <2>1, <2>2, OrderStep DEF Next
  <2>3. CASE UNCHANGED vars
    <3>1. UNCHANGED <<state, statem, keys>>
      BY <2>3 DEF vars, callVars, tlsVars
    <3>2. \A f \in Ends : Stage(f)' = Stage(f)
      BY <3>1 DEF Stage
    <3> QED BY <3>1, <3>2 DEF Order!vars
  <2> QED BY <2>1, <2>2, <2>3
<1> QED BY <1>1, <1>2, Invariant, PTL DEF Spec, HandshakeOrdered, Order!Spec

-----------------------------------------------------------------------------
(* The hellos: the keys of the HANDSHAKE level.                               *)

ClientHello == Cells(Message("CLIENT_HELLO", FALSE, <<>>))
ServerHello(h) == Cells(Message("SERVER_HELLO", h, <<>>))
Hellos(e) == IF e = "client" THEN {ClientHello} ELSE {ServerHello(h) : h \in BOOLEAN}
HelloKey == Units(ClientHello) \o Units(ServerHello(FALSE))

\* The application of the client calls once, and a hello fits a packet.
OneCall == MaxCalls["client"] <= 1
HellosFit == MsgLen["CLIENT_HELLO"] <= Mss /\ MsgLen["SERVER_HELLO"] <= Mss

\* No hello of the peer has been taken; the client has not built its own.
Awaits(e) == state[e] \in {"OK", "CW_CLIENT_HELLO", "CR_SERVER_HELLO", "SR_CLIENT_HELLO"}
Unbuilt(e) == state[e] \in {"OK", "CW_CLIENT_HELLO"}

\* An end that awaits a hello reads from where its buffer ends what is reserved.
ReadsHello(e) ==
    Awaits(e) =>
      /\ buf[e].offset = 0 /\ keys[e].dec["HANDSHAKE"] = NoKey
      /\ pc[e] = "tls" =>
           ret[e] \in {"DROP", "ERROR"} \/ (rpkt[e].pos = buf[e].reserved /\ rpkt[e].read = 0)

\* A flight of the INITIAL level is a hello, and the first message of its flight.
WritesHello(e) ==
    pc[e] = "tls" =>
      /\ wpkt[e].len # 0 /\ wpkt[e].level = "INITIAL" =>
           /\ ret[e] = "NEXT"
           /\ \E m \in Hellos(e) : wpkt[e].len = Len(m) /\ SubSeq(buf[e].mem, 1, Len(m)) = m
      /\ state[e] \in {"OK", "CW_CLIENT_HELLO", "SR_CLIENT_HELLO", "SW_SERVER_HELLO"} =>
           wpkt[e].len = 0

\* The client writes its hello in the first pre_work, which reserves it.
FirstFlight(c) ==
    /\ calls[c] = 0 => pc[c] = "idle" /\ state[c] = "OK"
    /\ pc[c] = "pre" /\ statem[c] = "INITIAL" => state[c] = "OK"
    /\ pc[c] = "send" /\ ok[c] /\ phase[c] = "read" => statem[c] # "INITIAL"
    /\ Unbuilt(c) =>
         /\ statem[c] = "INITIAL"
         /\ pc[c] \in {"idle", "pre"} \/ (pc[c] = "tls" /\ phase[c] = "pre" /\ ret[c] = "none")
         /\ state[c] = "CW_CLIENT_HELLO" => pc[c] = "tls"
    /\ state[c] = "CR_SERVER_HELLO" =>
         IF pc[c] = "tls" /\ phase[c] = "pre"
         THEN ret[c] = "NEXT" /\ wpkt[c].len = Len(ClientHello)
         ELSE buf[c].reserved = Len(ClientHello)

ClientHellos ==
    /\ Unbuilt("client") => buf["client"].mem = <<>>
    /\ state["client"] = "CR_SERVER_HELLO" =>
         buf["client"].mem \in {ClientHello} \cup {ClientHello \o ServerHello(h) : h \in BOOLEAN}
    /\ keys["client"].dec["HANDSHAKE"] \in {NoKey, HelloKey}
ServerHellos ==
    /\ Awaits("server") => buf["server"].mem \in {<<>>, ClientHello}
    /\ state["server"] = "SW_SERVER_HELLO" => dgst["server"] = Units(ClientHello)
    /\ keys["server"].enc["HANDSHAKE"] \in {NoKey, HelloKey}

\* What an end sends at the INITIAL level.
HelloPackets(e) ==
    {p \in Packets(AllCells) :
        p.kind = "crypto" /\ p.level = "INITIAL" => p.offset = 0 /\ p.data \in Hellos(e)}
SendsHellos(e) ==
    /\ txq[e] \in Seq(HelloPackets(e)) /\ inq[Peer(e)] \in Seq(HelloPackets(e))
    /\ net[Peer(e)] \in Seq(Seq(HelloPackets(e)))

-----------------------------------------------------------------------------
\* The hellos and their digest, which is the same whether the session resumes or not.
LEMMA HelloCells ==
    /\ ClientHello \in Seq(AllCells) /\ Len(ClientHello) = MsgLen["CLIENT_HELLO"]
    /\ MsgLen["CLIENT_HELLO"] \in Nat \ {0} /\ MsgLen["SERVER_HELLO"] \in Nat \ {0}
    /\ \A h \in BOOLEAN :
         /\ ServerHello(h) \in Seq(AllCells) /\ Len(ServerHello(h)) = MsgLen["SERVER_HELLO"]
         /\ Units(ServerHello(h)) = Units(ServerHello(FALSE))
    /\ \A e \in Ends : \A m \in Hellos(e) :
         /\ m \in Seq(AllCells) /\ Len(m) >= 1 /\ Len(m) \in Nat
         /\ HellosFit => Len(m) <= Mss
<1>0. <<>> \in Transcripts
  BY DEF Transcripts
<1>1. /\ Message("CLIENT_HELLO", FALSE, <<>>) \in Messages
      /\ Message("CLIENT_HELLO", FALSE, <<>>).type = "CLIENT_HELLO"
      /\ \A h \in BOOLEAN : /\ Message("SERVER_HELLO", h, <<>>) \in Messages
                            /\ Message("SERVER_HELLO", h, <<>>).type = "SERVER_HELLO"
  BY <1>0 DEF Message, Messages, Types
<1>2. /\ ClientHello \in Seq(AllCells) /\ Len(ClientHello) = MsgLen["CLIENT_HELLO"]
      /\ \A h \in BOOLEAN :
           ServerHello(h) \in Seq(AllCells) /\ Len(ServerHello(h)) = MsgLen["SERVER_HELLO"]
  <2> HIDE DEF Message, Messages, AllCells
  <2>1. "CLIENT_HELLO" \in Types /\ "SERVER_HELLO" \in Types
    BY DEF Types
  <2> QED BY <1>1, <2>1, CellsOf DEF ClientHello, ServerHello
<1>3. MsgLen["CLIENT_HELLO"] \in Nat \ {0} /\ MsgLen["SERVER_HELLO"] \in Nat \ {0}
  BY HandshakeAssumption DEF Types
<1>4. \A h \in BOOLEAN : Units(ServerHello(h)) = [i \in 1 .. MsgLen["SERVER_HELLO"] |-> <<"SERVER_HELLO", i>>]
  <2>1. SUFFICES ASSUME NEW h \in BOOLEAN
                 PROVE  Units(ServerHello(h)) = [i \in 1 .. MsgLen["SERVER_HELLO"] |-> <<"SERVER_HELLO", i>>]
    OBVIOUS
  <2>2. \A i \in 1 .. MsgLen["SERVER_HELLO"] :
          ServerHello(h)[i].msg.type = "SERVER_HELLO" /\ ServerHello(h)[i].at = i
    BY <1>1 DEF ServerHello, Cells
  <2> QED BY <1>2, <2>2 DEF Units
<1>5. Units(ServerHello(FALSE)) = [i \in 1 .. MsgLen["SERVER_HELLO"] |-> <<"SERVER_HELLO", i>>]
  BY <1>4
<1>6. \A e \in Ends : \A m \in Hellos(e) :
         /\ m \in Seq(AllCells) /\ Len(m) >= 1 /\ Len(m) \in Nat
         /\ HellosFit => Len(m) <= Mss
  <2> HIDE DEF AllCells
  <2> QED BY <1>2, <1>3 DEF Hellos, HellosFit
<1> QED BY <1>2, <1>3, <1>4, <1>5, <1>6

\* One sequence behind another.
LEMMA Concat ==
    ASSUME NEW S, NEW a \in Seq(S), NEW b \in Seq(S)
    PROVE  /\ a \o b \in Seq(S) /\ Len(a \o b) = Len(a) + Len(b)
           /\ Len(a) \in Nat /\ Len(b) \in Nat
           /\ a \o b = [i \in 1 .. Len(a) + Len(b) |-> IF i <= Len(a) THEN a[i] ELSE b[i - Len(a)]]
<1> DEFINE s == a \o b
<1>1. s \in Seq(S) /\ Len(s) = Len(a) + Len(b) /\ Len(a) \in Nat /\ Len(b) \in Nat
  OBVIOUS
<1>2. \A i \in 1 .. Len(a) + Len(b) : s[i] = IF i <= Len(a) THEN a[i] ELSE b[i - Len(a)]
  OBVIOUS
<1> HIDE DEF s
<1>3. s = [i \in 1 .. Len(a) + Len(b) |-> s[i]]
  BY <1>1
<1>4. s = [i \in 1 .. Len(a) + Len(b) |-> IF i <= Len(a) THEN a[i] ELSE b[i - Len(a)]]
  BY <1>2, <1>3
<1> QED BY <1>1, <1>4 DEF s

\* Digesting two parts of the memory.
LEMMA UnitsConcat ==
    ASSUME NEW a \in Seq(AllCells), NEW b \in Seq(AllCells)
    PROVE  Units(a \o b) = Units(a) \o Units(b)
<1>1. Len(a \o b) = Len(a) + Len(b) /\ Len(Units(a)) = Len(a) /\ Len(Units(b)) = Len(b)
      /\ Len(a) \in Nat /\ Len(b) \in Nat
  <2>1. <<>> \in Transcripts
    BY DEF Transcripts
  <2> QED BY <2>1, Digests
<1>2. \A i \in 1 .. Len(a) + Len(b) :
        (a \o b)[i] = IF i <= Len(a) THEN a[i] ELSE b[i - Len(a)]
  OBVIOUS
<1>3. Units(a) \o Units(b) = [i \in 1 .. Len(a) + Len(b) |->
          IF i <= Len(a) THEN Units(a)[i] ELSE Units(b)[i - Len(a)]]
  <2>1. <<>> \in Transcripts
    BY DEF Transcripts
  <2>2. Units(a) \in Transcripts /\ Units(b) \in Transcripts
    BY <2>1, Digests
  <2>3. PICK S : Transcripts = Seq(S)
    BY DEF Transcripts
  <2>4. PICK u, v : u = Units(a) /\ v = Units(b)
    OBVIOUS
  <2>5. u \in Seq(S) /\ v \in Seq(S) /\ Len(u) = Len(a) /\ Len(v) = Len(b)
    BY <1>1, <2>2, <2>3, <2>4
  <2>6. u \o v = [i \in 1 .. Len(u) + Len(v) |-> IF i <= Len(u) THEN u[i] ELSE v[i - Len(u)]]
    BY <2>5, Concat
  <2> QED BY <2>4, <2>5, <2>6
<1>4. \A i \in 1 .. Len(a) + Len(b) :
        <<(a \o b)[i].msg.type, (a \o b)[i].at>> =
        IF i <= Len(a) THEN Units(a)[i] ELSE Units(b)[i - Len(a)]
  <2>1. SUFFICES ASSUME NEW i \in 1 .. Len(a) + Len(b)
                 PROVE  <<(a \o b)[i].msg.type, (a \o b)[i].at>> =
                        IF i <= Len(a) THEN Units(a)[i] ELSE Units(b)[i - Len(a)]
    OBVIOUS
  <2>2. CASE i <= Len(a)
    <3>1. i \in 1 .. Len(a) /\ (a \o b)[i] = a[i]
      BY <1>1, <1>2, <2>2
    <3> QED BY <2>2, <3>1 DEF Units
  <2>3. CASE ~(i <= Len(a))
    <3>1. i - Len(a) \in 1 .. Len(b) /\ (a \o b)[i] = b[i - Len(a)]
      BY <1>1, <1>2, <2>3
    <3> QED BY <2>3, <3>1 DEF Units
  <2> QED BY <2>2, <2>3
<1> QED BY <1>1, <1>3, <1>4 DEF Units

\* A message or frame at the head of the memory.
LEMMA OverwriteHead ==
    ASSUME NEW mem \in Seq(AllCells), NEW cs \in Seq(AllCells)
    PROVE  /\ SubSeq(Overwrite(mem, 0, cs), 1, Len(cs)) = cs
           /\ mem \in {<<>>, cs} => Overwrite(mem, 0, cs) = cs
<1> DEFINE n == Biggest(Len(mem), 0 + Len(cs))
<1>1. n \in Nat /\ n >= Len(cs) /\ Len(cs) \in Nat /\ (mem \in {<<>>, cs} => n = Len(cs))
  BY DEF Biggest
<1>2. Overwrite(mem, 0, cs) = [i \in 1 .. n |->
        IF i \in 0 + 1 .. 0 + Len(cs) THEN cs[i - 0]
        ELSE IF i <= Len(mem) THEN mem[i] ELSE NoCell]
  BY DEF Overwrite
<1>3. Overwrite(mem, 0, cs) \in Seq(AllCells) /\ Len(Overwrite(mem, 0, cs)) = n
  BY NoCellKnown, Overwrites
<1> HIDE DEF n
<1>4. \A i \in 1 .. Len(cs) : Overwrite(mem, 0, cs)[i] = cs[i]
  BY <1>1, <1>2
<1>5. cs = [i \in 1 .. Len(cs) |-> cs[i]]
  OBVIOUS
<1>6. SubSeq(Overwrite(mem, 0, cs), 1, Len(cs)) = [i \in 1 .. Len(cs) |-> Overwrite(mem, 0, cs)[i]]
  <2> DEFINE o == Overwrite(mem, 0, cs)
             k == Len(cs)
  <2>1. o \in Seq(AllCells) /\ k \in Nat /\ k <= Len(o)
    BY <1>1, <1>3
  <2> HIDE DEF o, k
  <2>2. SubSeq(o, 1, k) = [i \in 1 .. k |-> o[i]]
    BY <2>1
  <2> QED BY <2>2 DEF o, k
<1>7. mem \in {<<>>, cs} => Overwrite(mem, 0, cs) = [i \in 1 .. Len(cs) |-> cs[i]]
  BY <1>1, <1>2
<1> QED BY <1>4, <1>5, <1>6, <1>7

\* A frame behind what is reserved takes the place of one of the same length.
LEMMA OverwriteBehind ==
    ASSUME NEW a \in Seq(AllCells), NEW b \in Seq(AllCells), NEW c \in Seq(AllCells),
           Len(c) = Len(b), NEW mem \in {a, a \o c}
    PROVE  Overwrite(mem, Len(a), b) = a \o b
<1>0. /\ Len(a) \in Nat /\ Len(b) \in Nat
      /\ \A d \in Seq(AllCells) : /\ a \o d \in Seq(AllCells) /\ Len(a \o d) = Len(a) + Len(d)
                                 /\ \A i \in 1 .. Len(a) : (a \o d)[i] = a[i]
  OBVIOUS
<1>1. /\ mem \in Seq(AllCells) /\ Len(mem) >= Len(a) /\ Len(mem) <= Len(a) + Len(b)
      /\ Len(mem) \in Nat /\ \A i \in 1 .. Len(a) : mem[i] = a[i]
  <2>1. CASE mem = a
    BY <1>0, <2>1
  <2>2. CASE mem = a \o c
    <3>1. /\ a \o c \in Seq(AllCells) /\ Len(a \o c) = Len(a) + Len(b)
          /\ \A i \in 1 .. Len(a) : (a \o c)[i] = a[i]
      BY <1>0
    <3> QED BY <1>0, <2>2, <3>1
  <2> QED BY <2>1, <2>2
<1>2. Biggest(Len(mem), Len(a) + Len(b)) = Len(a) + Len(b)
  BY <1>0, <1>1 DEF Biggest
<1>3. Overwrite(mem, Len(a), b) = [i \in 1 .. Len(a) + Len(b) |->
        IF i \in Len(a) + 1 .. Len(a) + Len(b) THEN b[i - Len(a)]
        ELSE IF i <= Len(mem) THEN mem[i] ELSE NoCell]
  BY <1>2 DEF Overwrite
<1>4. a \o b = [i \in 1 .. Len(a) + Len(b) |-> IF i <= Len(a) THEN a[i] ELSE b[i - Len(a)]]
  BY Concat
<1>5. \A i \in 1 .. Len(a) + Len(b) :
        (IF i \in Len(a) + 1 .. Len(a) + Len(b) THEN b[i - Len(a)]
         ELSE IF i <= Len(mem) THEN mem[i] ELSE NoCell)
        = IF i <= Len(a) THEN a[i] ELSE b[i - Len(a)]
  BY <1>0, <1>1
<1> QED BY <1>3, <1>4, <1>5

\* What an end sends at the INITIAL level stays a hello under any key and number.
LEMMA HelloClosed ==
    ASSUME NEW e \in Ends
    PROVE  /\ HelloPackets(e) \subseteq Packets(AllCells)
           /\ \A p \in HelloPackets(e) : \A k \in Transcripts : \A n \in Nat :
                [p EXCEPT !.key = k, !.pn = n] \in HelloPackets(e)
           /\ \A l \in Levels : /\ Packet(l, "ack", 0, <<>>, NoKey) \in HelloPackets(e)
                                /\ Packet(l, "handshake_done", 0, <<>>, NoKey) \in HelloPackets(e)
<1>1. HelloPackets(e) \subseteq Packets(AllCells)
  BY DEF HelloPackets
<1>2. ASSUME NEW p \in HelloPackets(e), NEW k \in Transcripts, NEW n \in Nat
      PROVE  [p EXCEPT !.key = k, !.pn = n] \in HelloPackets(e)
  <2> DEFINE p2 == [p EXCEPT !.key = k, !.pn = n]
  <2>1. /\ p2 \in Packets(AllCells) /\ p2.kind = p.kind /\ p2.level = p.level
        /\ p2.offset = p.offset /\ p2.data = p.data
    BY <1>1 DEF Packets
  <2> HIDE DEF p2
  <2>2. p2 \in HelloPackets(e)
    BY <2>1 DEF HelloPackets
  <2> QED BY <2>2 DEF p2
<1>3. \A l \in Levels : \A k \in {"ack", "handshake_done"} :
        Packet(l, k, 0, <<>>, NoKey) \in HelloPackets(e)
  <2>1. <<>> \in Seq(AllCells) /\ NoKey \in Transcripts
    BY DEF NoKey, Transcripts
  <2>2. \A l \in Levels : \A k \in {"ack", "handshake_done"} :
          /\ Packet(l, k, 0, <<>>, NoKey) \in Packets(AllCells)
          /\ Packet(l, k, 0, <<>>, NoKey).kind = k
    BY <2>1 DEF Packet, Packets, Kinds
  <2> QED BY <2>2 DEF HelloPackets
<1> QED BY <1>1, <1>2, <1>3

\* A flight that fits a packet is one frame at the head of the stream.
LEMMA HelloFlight ==
    ASSUME BufType, BufInv, HellosFit, NEW e \in Ends, pc[e] = "tls", WritesHello(e)
    PROVE  Flight(e) \in Seq(HelloPackets(e))
<1> DEFINE n == wpkt[e].len
           k == (n + Mss - 1) \div Mss
           mem == buf[e].mem
           lvl == wpkt[e].level
           first(i) == (i - 1) * Mss
           last(i) == IF first(i) + Mss <= n THEN first(i) + Mss ELSE n
           frame(i) == Packet(lvl, "crypto", first(i), SubSeq(mem, first(i) + 1, last(i)), NoKey)
<1>1. /\ n \in Nat /\ lvl \in Levels /\ n <= Len(mem) /\ Len(mem) \in Nat
      /\ Mss \in Nat /\ Mss >= 1 /\ mem \in Seq(AllCells)
  <2>1. n \in Nat /\ lvl \in Levels /\ mem \in Seq(AllCells)
    BY DEF BufType, Buffers
  <2>2. n <= Len(mem)
    BY DEF BufInv
  <2> QED BY <2>1, <2>2, HandshakeAssumption
<1>2. k \in Nat
  <2> HIDE DEF n
  <2>1. n + Mss - 1 \in Nat
    BY <1>1
  <2> QED BY <1>1, <2>1
<1>3. ASSUME NEW i \in 1 .. k PROVE frame(i) \in HelloPackets(e)
  <2>1. first(i) \in Nat
    <3>1. i - 1 \in Nat
      BY <1>2
    <3> QED BY <1>1, <3>1
  <2>2. SubSeq(mem, first(i) + 1, last(i)) \in Seq(AllCells)
    <3> HIDE DEF first, n, mem
    <3>1. last(i) \in Nat /\ last(i) <= Len(mem)
      BY <1>1, <2>1
    <3> HIDE DEF last
    <3> QED BY <1>1, <2>1, <3>1, AnyPart
  <2>3. /\ frame(i) \in Packets(AllCells) /\ frame(i).level = lvl /\ frame(i).offset = first(i)
        /\ frame(i).data = SubSeq(mem, first(i) + 1, last(i))
    <3> HIDE DEF first, last, n, mem, lvl
    <3>1. NoKey \in Transcripts
      BY DEF NoKey, Transcripts
    <3> QED BY <1>1, <2>1, <2>2, <3>1 DEF Packets, Packet, Kinds
  <2>4. lvl = "INITIAL" => first(i) = 0 /\ SubSeq(mem, first(i) + 1, last(i)) \in Hellos(e)
    <3>1. SUFFICES ASSUME lvl = "INITIAL"
                   PROVE  first(i) = 0 /\ SubSeq(mem, first(i) + 1, last(i)) \in Hellos(e)
      OBVIOUS
    <3>2. n # 0
      <4> HIDE DEF n
      <4>1. n = 0 => k = 0
        <5>1. n = 0 => n + Mss - 1 < Mss /\ n + Mss - 1 \in Nat
          BY <1>1
        <5> QED BY <1>1, <5>1
      <4> QED BY <4>1
    <3>3. PICK m \in Hellos(e) : n = Len(m) /\ SubSeq(mem, 1, Len(m)) = m
      BY <3>1, <3>2 DEF WritesHello
    <3>4. n <= Mss
      BY <3>3, HelloCells
    <3>5. i = 1
      <4> HIDE DEF n
      <4>1. n + Mss - 1 < 2 * Mss /\ n + Mss - 1 \in Nat
        BY <1>1, <3>4
      <4>2. k < 2
        BY <1>1, <4>1
      <4> QED BY <1>2, <4>2
    <3>6. first(i) = 0
      BY <1>1, <3>5
    <3>7. last(i) = n
      <4> HIDE DEF n, first
      <4> QED BY <1>1, <3>4, <3>6
    <3>8. first(i) + 1 = 1
      BY <3>6
    <3>9. SubSeq(mem, first(i) + 1, last(i)) = m
      <4> HIDE DEF first, last, n, mem
      <4> QED BY <3>3, <3>7, <3>8, Zenon
    <3> HIDE DEF first, last, n, mem
    <3> QED BY <3>6, <3>9
  <2> HIDE DEF frame, first, last, mem, lvl
  <2> QED BY <2>3, <2>4 DEF HelloPackets
<1>4. Flight(e) = [i \in 1 .. k |-> frame(i)]
  BY DEF Flight
<1> HIDE DEF k, frame
<1>5. Flight(e) \in [1 .. k -> HelloPackets(e)]
  BY <1>3, <1>4
<1> QED BY <1>2, <1>5

\* The steps that queue a packet or send one.
LEMMA QueueUses ==
    ASSUME TlsType, NEW e \in Ends, Call(e) \/ Run(e) \/ Duplicate(e), txq' # txq
    PROVE  \/ QuicSendPacket(e) \/ RecvAck(e) \/ RecvHandshakeDone(e) \/ RecvCrypto(e) \/ TlsReturn(e)
<1>1. CASE Outside(e) /\ ~QuicSendPacket(e) /\ ~RecvAck(e) /\ ~RecvCrypto(e)
  BY <1>1 DEF Outside, Call, PreWork, SendDone, QuicDatagramRecv, Duplicate, RejectPacket,
     FlowFinished, ReadNothing, WouldBlock
<1>2. CASE Early(e) \/ HandlerFails(e) \/ FlowNothing(e)
  BY <1>2 DEF Early, ReadPart, ReadRepeated, ReadUnexpected, ReadReturns, HandlerFails, FlowNothing
<1>3. CASE Handler(e)
  <2>1. PICK type : Handles(e, type)
    BY <1>3, HandlerOf
  <2> QED BY <2>1 DEF Handles
<1>4. CASE Writes(e)
  BY <1>4 DEF Writes, ClientHelloBuild, ServerHelloBuild, EncryptedExtBuild,
     ServerCertBuild, CertVerifyBuild, SrvrFinishedBuild, ClntFinishedBuild,
     NewSessionTicketBuild, Builds
<1> QED BY <1>1, <1>2, <1>3, <1>4, Groups

\* What an end queues and sends at the INITIAL level, and what its peer finds there.
LEMMA SendsHellosStep ==
    ASSUME CallType, TlsType, BufType, NetType, BufInv, HellosFit, NEW e \in Ends,
           Call(e) \/ Run(e) \/ Duplicate(e), WritesHello(e), NEW s \in Ends, SendsHellos(s)
    PROVE  SendsHellos(s)'
<1> DEFINE H == HelloPackets(s)
           r == Peer(s)
<1>0. /\ r \in Ends /\ r # s /\ Ends = {s, r} /\ Peer(r) = s /\ Peer(e) \in Ends
      /\ txq \in [Ends -> Seq(Packets(AllCells))] /\ inq \in [Ends -> Seq(Packets(AllCells))]
      /\ net \in [Ends -> Seq(Seq(Packets(AllCells)))]
  BY DEF Peer, Ends, NetType, Carried
<1>1. /\ txq[s] \in Seq(H) /\ inq[r] \in Seq(H) /\ net[r] \in Seq(Seq(H))
  BY DEF SendsHellos
<1>2. /\ H \subseteq Packets(AllCells)
      /\ \A p \in H : \A k \in Transcripts : \A n \in Nat : [p EXCEPT !.key = k, !.pn = n] \in H
      /\ \A l \in Levels : /\ Packet(l, "ack", 0, <<>>, NoKey) \in H
                           /\ Packet(l, "handshake_done", 0, <<>>, NoKey) \in H
  BY HelloClosed
<1>3. HelloPackets(s)' = H
  BY DEF HelloPackets, Packets
<1>4. e = s => Flight(e) \in Seq(H) \/ ~TlsReturn(e)
  <2>1. TlsReturn(e) => pc[e] = "tls"
    BY DEF TlsReturn
  <2> QED BY <2>1, HelloFlight
<1> HIDE DEF H
<1>5. txq'[s] \in Seq(H)
  <2>1. CASE e # s
    BY <1>1, <2>1, OthersKeep
  <2>2. CASE e = s /\ txq' = txq
    BY <1>1, <2>2
  <2>3. CASE e = s /\ QuicSendPacket(e)
    <3>1. PICK k \in 1 .. Len(txq[e]) : txq' = [txq EXCEPT ![e] = SubSeq(@, k + 1, Len(@))]
      BY <2>3 DEF QuicSendPacket
    <3>2. k + 1 \in Nat /\ k + 1 >= 1 /\ Len(txq[e]) \in Nat
      BY <1>0, <1>1, <2>3
    <3>3. SubSeq(txq[e], k + 1, Len(txq[e])) \in Seq(H)
      BY <1>1, <2>3, <3>2, AnyPart
    <3> QED BY <1>0, <2>3, <3>1, <3>3
  <2>4. CASE e = s /\ (RecvAck(e) \/ RecvHandshakeDone(e) \/ RecvCrypto(e))
    <3>1. Received(e) /\ \E acks : NoteNumber(e, Head(inq[e]), acks)
      BY <2>4 DEF RecvAck, RecvHandshakeDone, RecvCrypto
    <3> DEFINE p == Head(inq[e])
    <3>2. p.level \in Levels
      <4>1. p \in Packets(AllCells)
        BY <3>1, ReceivedPacket
      <4> QED BY <4>1 DEF Packets
    <3>3. PICK a : a = Packet(p.level, "ack", 0, <<>>, NoKey)
      OBVIOUS
    <3>4. txq' = [txq EXCEPT ![e] = Append(txq[e], a)] \/ txq' = [txq EXCEPT ![e] = txq[e]]
      <4> HIDE DEF p
      <4>1. PICK acks : NoteNumber(e, p, acks)
        BY <3>1 DEF p
      <4> QED BY <3>3, <4>1 DEF NoteNumber
    <3>5. a \in H
      BY <1>2, <3>2, <3>3
    <3>6. Append(txq[e], a) \in Seq(H)
      BY <1>1, <2>4, <3>5
    <3> QED BY <1>0, <1>1, <2>4, <3>4, <3>6
  <2>5. CASE e = s /\ TlsReturn(e)
    <3> DEFINE d == IF FlightDone(e)
                    THEN <<Packet(wpkt[e].level, "handshake_done", 0, <<>>, NoKey)>> ELSE <<>>
    <3>1. txq' = [txq EXCEPT ![e] = txq[e] \o Flight(e) \o d]
      BY <2>5 DEF TlsReturn
    <3>2. wpkt[e].level \in Levels
      BY DEF BufType
    <3>3. d \in Seq(H)
      <4>1. PICK a : a = Packet(wpkt[e].level, "handshake_done", 0, <<>>, NoKey)
        OBVIOUS
      <4>2. a \in H
        BY <1>2, <3>2, <4>1
      <4>3. <<a>> \in Seq(H) /\ <<>> \in Seq(H)
        BY <4>2
      <4> QED BY <4>1, <4>3
    <3> HIDE DEF d
    <3>4. txq[e] \o Flight(e) \o d \in Seq(H)
      BY <1>1, <1>4, <2>5, <3>3
    <3> QED BY <1>0, <2>5, <3>1, <3>4
  <2>6. CASE txq' # txq
    <3>1. \/ QuicSendPacket(e) \/ RecvAck(e) \/ RecvHandshakeDone(e) \/ RecvCrypto(e) \/ TlsReturn(e)
      BY <2>6, QueueUses
    <3> QED BY <2>1, <2>3, <2>4, <2>5, <3>1
  <2> QED BY <2>1, <2>2, <2>6
<1>6. inq'[r] \in Seq(H) /\ net'[r] \in Seq(Seq(H))
  <2>1. CASE UNCHANGED <<inq, net>>
    BY <1>1, <2>1
  <2>2. CASE QuicSendPacket(e) /\ inq' = inq
    <3>1. PICK k \in 1 .. Len(txq[e]) :
            net' = [net EXCEPT ![Peer(e)] = Append(@, Numbered(e, txq[e], k))]
      BY <2>2 DEF QuicSendPacket
    <3>2. CASE e = s
      <4>1. Numbered(e, txq[e], k) \in Seq(H)
        <5> HIDE DEF Packets
        <5>1. txq[e] \in Seq(H)
          BY <1>1, <3>2
        <5>2. Encrypted(H, H)
          BY <1>2 DEF Encrypted
        <5> QED BY <1>2, <5>1, <5>2, NumberedCarries
      <4>2. net' = [net EXCEPT ![r] = Append(net[r], Numbered(e, txq[e], k))]
        BY <3>1, <3>2
      <4>3. Append(net[r], Numbered(e, txq[e], k)) \in Seq(Seq(H))
        BY <1>1, <4>1
      <4> QED BY <1>0, <1>1, <2>2, <4>2, <4>3
    <3>3. CASE e # s
      <4>1. Peer(e) # r
        BY <1>0, <3>3
      <4> QED BY <1>0, <1>1, <2>2, <3>1, <4>1
    <3> QED BY <3>2, <3>3
  <2>3. CASE QuicDatagramRecv(e)
    <3>1. PICK i \in 1 .. Len(net[e]) : /\ inq' = [inq EXCEPT ![e] = net[e][i]]
                                        /\ net' = [net EXCEPT ![e] = RemoveAt(@, i)]
      BY <2>3 DEF QuicDatagramRecv
    <3>2. CASE e = r
      <4>1. RemoveAt(net[r], i) \in Seq(Seq(H)) /\ net[r][i] \in Seq(H)
        BY <1>1, <3>1, <3>2, Removed
      <4> QED BY <1>0, <3>1, <3>2, <4>1
    <3> QED BY <1>0, <1>1, <3>1, <3>2
  <2>4. CASE Duplicate(e) /\ inq' = inq
    <3>1. PICK i \in 1 .. Len(net[e]) : net' = [net EXCEPT ![e] = Append(@, net[e][i])]
      BY <2>4 DEF Duplicate
    <3>2. CASE e = r
      <4>1. net[r][i] \in Seq(H)
        BY <1>1, <3>1, <3>2
      <4>2. Append(net[r], net[r][i]) \in Seq(Seq(H))
        BY <1>1, <4>1
      <4> QED BY <1>0, <1>1, <2>4, <3>1, <3>2, <4>2
    <3> QED BY <1>0, <1>1, <2>4, <3>1, <3>2
  <2>5. CASE /\ net' = net
             /\ \/ Received(e) /\ inq' \in {[inq EXCEPT ![e] = Tail(@)], [inq EXCEPT ![e] = <<>>]}
                \/ inq' \in {inq, [inq EXCEPT ![e] = inq[e]], [inq EXCEPT ![e] = <<>>]}
    <3>1. Received(e) /\ e = r => Tail(inq[r]) \in Seq(H)
      BY <1>1 DEF Received
    <3>2. <<>> \in Seq(H)
      OBVIOUS
    <3> QED BY <1>0, <1>1, <2>5, <3>1, <3>2
  <2> QED BY <2>1, <2>2, <2>3, <2>4, <2>5, NetSteps
<1> QED BY <1>0, <1>3, <1>5, <1>6 DEF SendsHellos, H, Peer

HelloInv(e) ==
    /\ calls \in [Ends -> Nat]
    /\ ReadsHello(e) /\ WritesHello(e)
    /\ e = "client" => FirstFlight("client") /\ ClientHellos
    /\ e = "server" => ServerHellos

\* An endpoint does not touch the results, transcript, keys and calls of the other one.
LEMMA OthersTls ==
    ASSUME CallType, TlsType, calls \in [Ends -> Nat], NEW e \in Ends,
           Call(e) \/ Run(e) \/ Duplicate(e), NEW f \in Ends \ {e}
    PROVE  ret'[f] = ret[f] /\ dgst'[f] = dgst[f] /\ keys'[f] = keys[f] /\ calls'[f] = calls[f]
<1>0. DOMAIN ret = Ends /\ DOMAIN dgst = Ends /\ DOMAIN keys = Ends /\ DOMAIN calls = Ends
  BY DEF CallType, TlsType
<1>1. CASE Outside(e)
  <2>1. UNCHANGED <<dgst, keys>>
    BY <1>1, OutsideTls
  <2>2. ret'[f] = ret[f] /\ calls'[f] = calls[f]
    BY <1>0, <1>1 DEF Outside, Call, PreWork, QuicSendPacket, SendDone, QuicDatagramRecv, Duplicate,
       RejectPacket, RecvAck, RecvCrypto, FlowFinished, ReadNothing, WouldBlock, EnterTls, callVars
  <2> QED BY <2>1, <2>2
<1>2. CASE Early(e) \/ HandlerFails(e)
  BY <1>0, <1>2 DEF Early, ReadPart, ReadRepeated, ReadUnexpected, ReadReturns, HandlerFails
<1>3. CASE Handler(e)
  <2>1. ret' = ret /\ calls' = calls
    <3>1. PICK type : Handles(e, type)
      BY <1>3, HandlerOf
    <3> QED BY <3>1 DEF Handles, callVars
  <2>2. \E d : dgst' = [dgst EXCEPT ![e] = d]
    BY <1>3 DEF Handler, ClientHelloProc, ServerHelloProc, EncExtProc, ServerCertProc,
       CertVerifyProc, ClientFinishedProc, SrvrFinishedProc, NewSessionTicketProc
  <2>3. keys'[f] = keys[f]
    BY <1>0, <1>3 DEF Handler, ClientHelloProc, ServerHelloProc, EncExtProc, ServerCertProc,
       CertVerifyProc, ClientFinishedProc, SrvrFinishedProc, NewSessionTicketProc
  <2> QED BY <1>0, <2>1, <2>2, <2>3
<1>4. CASE Writes(e)
  <2>1. PICK m \in Messages : \E st, next, r :
          m.type \in Types /\ Builds(e, st, m) /\ Goes(e, next, r) /\ Built(e, m, st, next)
    BY <1>4, BuildSteps
  <2>2. PICK st, next, r : Builds(e, st, m) /\ Goes(e, next, r)
    BY <2>1
  <2>3. keys'[f] = keys[f]
    BY <1>0, <1>4 DEF Writes, ClientHelloBuild, ServerHelloBuild, EncryptedExtBuild,
       ServerCertBuild, CertVerifyBuild, SrvrFinishedBuild, ClntFinishedBuild, NewSessionTicketBuild
  <2> QED BY <1>0, <2>2, <2>3 DEF Builds, Goes
<1>5. CASE RecvHandshakeDone(e)
  BY <1>0, <1>5 DEF RecvHandshakeDone, tlsVars
<1>6. CASE FlowNothing(e) \/ TlsReturn(e)
  BY <1>6 DEF FlowNothing, TlsReturn, callVars
<1> QED BY <1>1, <1>2, <1>3, <1>4, <1>5, <1>6, Groups

\* Only a call counts calls.
LEMMA CallsType ==
    ASSUME TlsType, calls \in [Ends -> Nat], NEW e \in Ends, Call(e) \/ Run(e) \/ Duplicate(e)
    PROVE  calls' \in [Ends -> Nat]
<1>1. CASE Outside(e) \/ RecvHandshakeDone(e)
  <2>1. CASE Call(e)
    <3>1. calls' = [calls EXCEPT ![e] = calls[e] + 1] /\ calls[e] + 1 \in Nat
      BY <2>1 DEF Call
    <3> QED BY <3>1
  <2>2. CASE ~Call(e)
    BY <1>1, <2>2 DEF Outside, PreWork, QuicSendPacket, SendDone, QuicDatagramRecv, Duplicate,
       RejectPacket, RecvAck, RecvCrypto, RecvHandshakeDone, FlowFinished, ReadNothing, WouldBlock,
       callVars
  <2> QED BY <2>1, <2>2
<1>2. CASE Early(e) \/ HandlerFails(e)
  BY <1>2 DEF Early, ReadPart, ReadRepeated, ReadUnexpected, ReadReturns, HandlerFails
<1>3. CASE Handler(e)
  <2>1. PICK type : Handles(e, type)
    BY <1>3, HandlerOf
  <2> QED BY <2>1 DEF Handles, callVars
<1>4. CASE Writes(e)
  BY <1>4 DEF Writes, ClientHelloBuild, ServerHelloBuild, EncryptedExtBuild,
     ServerCertBuild, CertVerifyBuild, SrvrFinishedBuild, ClntFinishedBuild,
     NewSessionTicketBuild, Builds
<1>5. CASE FlowNothing(e) \/ TlsReturn(e)
  BY <1>5 DEF FlowNothing, TlsReturn, callVars
<1> QED BY <1>1, <1>2, <1>3, <1>4, <1>5, Groups

\* So it leaves the other's hellos alone.
LEMMA HelloOther ==
    ASSUME CallType, TlsType, BufType, NetType, BufInv, NEW e \in Ends,
           Call(e) \/ Run(e) \/ Duplicate(e), NEW f \in Ends \ {e}, HelloInv(f)
    PROVE  HelloInv(f)'
<1>1. /\ ret'[f] = ret[f] /\ dgst'[f] = dgst[f] /\ keys'[f] = keys[f] /\ calls'[f] = calls[f]
  BY OthersTls DEF HelloInv
<1>2. /\ pc'[f] = pc[f] /\ phase'[f] = phase[f] /\ ok'[f] = ok[f] /\ statem'[f] = statem[f]
      /\ state'[f] = state[f] /\ buf'[f] = buf[f] /\ rpkt'[f] = rpkt[f] /\ wpkt'[f] = wpkt[f]
  BY OthersKeep
<1>3. calls' \in [Ends -> Nat]
  BY CallsType DEF HelloInv
<1>4. ReadsHello(f)' /\ WritesHello(f)'
  BY <1>1, <1>2 DEF HelloInv, ReadsHello, WritesHello, Awaits, Hellos
<1>5. f = "client" => FirstFlight("client")' /\ ClientHellos'
  BY <1>1, <1>2 DEF HelloInv, FirstFlight, ClientHellos, Unbuilt
<1>6. f = "server" => ServerHellos'
  BY <1>1, <1>2 DEF HelloInv, ServerHellos, Awaits
<1> QED BY <1>3, <1>4, <1>5, <1>6 DEF HelloInv

\* What a step outside TLS leaves of the buffer, and what it does to the call.
Quiet(e) ==
    \/ Call(e) \/ QuicSendPacket(e) \/ SendDone(e) \/ QuicDatagramRecv(e) \/ Duplicate(e)
    \/ WouldBlock(e) \/ RejectPacket(e) \/ RecvAck(e) \/ RecvHandshakeDone(e)
    \/ (PreWork(e) /\ ~HasPreWork(e))

\* Outside TLS nothing is written, and what is reserved stays.
LEMMA HelloQuiet ==
    ASSUME CallType, TlsType, BufType, NetType, CallInv, BufInv, OneCall, NEW e \in Ends,
           Quiet(e), HelloInv(e)
    PROVE  HelloInv(e)'
<1>0. /\ DOMAIN pc = Ends /\ DOMAIN phase = Ends /\ DOMAIN ok = Ends /\ DOMAIN statem = Ends
      /\ DOMAIN calls = Ends /\ DOMAIN buf = Ends
  BY DEF CallType, BufType, HelloInv
<1>1. /\ state' = state /\ ret' = ret /\ rpkt' = rpkt /\ wpkt' = wpkt /\ dgst' = dgst
  BY DEF Quiet, Call, QuicSendPacket, SendDone, QuicDatagramRecv, Duplicate, WouldBlock,
     RejectPacket, RecvAck, RecvHandshakeDone, PreWork, callVars, tlsVars, bufVars
<1>2. /\ buf'[e].mem = buf[e].mem /\ buf'[e].offset = buf[e].offset
      /\ buf'[e].reserved = buf[e].reserved
  <2>1. buf' = buf \/ buf' = [buf EXCEPT ![e] = AfterInitialRecv(e, buf[e])]
    BY DEF Quiet, Call, QuicSendPacket, SendDone, QuicDatagramRecv, Duplicate, WouldBlock,
     RejectPacket, RecvAck, RecvHandshakeDone, PreWork, bufVars, PacketFails, PacketDone
  <2>2. AfterInitialRecv(e, buf[e]).mem = buf[e].mem
        /\ AfterInitialRecv(e, buf[e]).offset = buf[e].offset
        /\ AfterInitialRecv(e, buf[e]).reserved = buf[e].reserved
    <3>1. buf[e] \in Buffers /\ (e = "server" => buf[e].reserved = 0)
      BY DEF BufType, BufInv
    <3>2. /\ Clear(buf[e]).mem = buf[e].mem /\ Clear(buf[e]).offset = buf[e].offset
          /\ Clear(buf[e]).reserved = 0
      BY <3>1 DEF Clear, Buffers
    <3> QED BY <3>1, <3>2 DEF AfterInitialRecv
  <2> QED BY <1>0, <2>1, <2>2
<1>3. /\ keys'[e].dec["HANDSHAKE"] \in {keys[e].dec["HANDSHAKE"], NoKey}
      /\ e = "server" => keys'[e] = keys[e]
  <2>1. CASE RecvHandshakeDone(e) /\ e = "client"
    <3>1. keys' = [keys EXCEPT ![e].enc["HANDSHAKE"] = NoKey, ![e].dec["HANDSHAKE"] = NoKey]
      BY <2>1 DEF RecvHandshakeDone
    <3> QED BY <2>1, <3>1 DEF TlsType, KeyType, Levels
  <2>2. CASE ~(RecvHandshakeDone(e) /\ e = "client")
    <3>1. keys' = keys
      BY <2>2 DEF Quiet, Call, QuicSendPacket, SendDone, QuicDatagramRecv, Duplicate, WouldBlock,
         RejectPacket, RecvAck, RecvHandshakeDone, PreWork
    <3> QED BY <3>1
  <2> QED BY <2>1, <2>2
<1>4. pc'[e] # "tls" \/ Duplicate(e)
  BY <1>0 DEF Quiet, Call, QuicSendPacket, SendDone, QuicDatagramRecv, Duplicate, WouldBlock,
     RejectPacket, RecvAck, RecvHandshakeDone, PreWork, callVars, PacketFails, PacketDone
<1>5. Duplicate(e) => UNCHANGED <<pc, phase, ok, statem, calls>>
  BY DEF Duplicate, callVars
<1>6. calls' \in [Ends -> Nat]
  <2>1. Call(e) \/ Run(e) \/ Duplicate(e)
    BY DEF Quiet, Run
  <2> QED BY <2>1, CallsType DEF HelloInv
<1>7. ReadsHello(e)' /\ WritesHello(e)'
  BY <1>1, <1>2, <1>3, <1>4, <1>5 DEF HelloInv, ReadsHello, WritesHello, Awaits, Hellos
<1>8. e = "server" => ServerHellos'
  BY <1>1, <1>2, <1>3 DEF HelloInv, ServerHellos, Awaits
<1>9. ASSUME e = "client" PROVE ClientHellos' /\ FirstFlight("client")'
  <2>1. ClientHellos'
    BY <1>1, <1>2, <1>3, <1>9 DEF HelloInv, ClientHellos, Unbuilt
  <2>2. SUFFICES ASSUME FirstFlight(e) PROVE FirstFlight(e)'
    BY <1>9, <2>1 DEF HelloInv
  <2>3. CASE Call(e)
    <3>1. pc[e] = "idle" /\ calls[e] < MaxCalls[e] /\ pc'[e] = "pre" /\ calls'[e] = calls[e] + 1
          /\ UNCHANGED <<ok, statem>> /\ phase'[e] = "pre"
      BY <1>0, <2>3 DEF Call
    <3>2. calls[e] = 0
      BY <1>9, <3>1, HandshakeAssumption DEF OneCall, HelloInv
    <3> QED BY <1>1, <1>2, <1>9, <2>2, <3>1, <3>2 DEF FirstFlight, Unbuilt
  <2>4. CASE QuicSendPacket(e) \/ QuicDatagramRecv(e) \/ Duplicate(e)
    <3>1. UNCHANGED <<pc, phase, ok, statem, calls>>
      BY <2>4 DEF QuicSendPacket, QuicDatagramRecv, Duplicate, callVars
    <3> QED BY <1>1, <1>2, <1>9, <2>2, <3>1 DEF FirstFlight, Unbuilt
  <2>5. CASE SendDone(e)
    <3>1. /\ pc[e] = "send" /\ UNCHANGED <<ok, calls, statem>> /\ phase'[e] = "read"
          /\ pc'[e] \in {"idle", "read", "pre"}
          /\ pc'[e] = "pre" => ok[e] /\ phase[e] = "read"
      BY <1>0, <2>5 DEF SendDone
    <3> QED BY <1>1, <1>2, <1>9, <2>2, <3>1 DEF FirstFlight, Unbuilt
  <2>6. CASE WouldBlock(e)
    <3>1. /\ pc[e] = "read" /\ UNCHANGED <<phase, calls, statem>> /\ ~ok'[e] /\ pc'[e] = "send"
      BY <1>0, <2>6 DEF WouldBlock
    <3> QED BY <1>1, <1>2, <1>9, <2>2, <3>1 DEF FirstFlight, Unbuilt
  <2>7. CASE RejectPacket(e)
    <3>1. /\ pc[e] = "read" /\ UNCHANGED <<phase, calls, statem>> /\ ~ok'[e] /\ pc'[e] = "send"
      BY <1>0, <2>7 DEF RejectPacket, Received, PacketFails
    <3> QED BY <1>1, <1>2, <1>9, <2>2, <3>1 DEF FirstFlight, Unbuilt
  <2>8. CASE RecvAck(e) \/ RecvHandshakeDone(e)
    <3>1. /\ pc[e] = "read" /\ UNCHANGED <<phase, calls, ok>> /\ pc'[e] \in {"send", "read"}
      BY <1>0, <2>8 DEF RecvAck, RecvHandshakeDone, Received, PacketDone
    <3>2. statem'[e] # "INITIAL"
      <4>1. statem[e] \in {"INITIAL", "HANDSHAKE", "HANDSHAKE_DONE"}
        BY DEF CallType
      <4>2. PICK st \in {statem[e], "HANDSHAKE_DONE"} :
              statem' = [statem EXCEPT ![e] = IF @ = "INITIAL" THEN "HANDSHAKE" ELSE st]
        BY <2>8 DEF RecvAck, RecvHandshakeDone, PacketDone
      <4> QED BY <1>0, <4>1, <4>2
    <3> QED BY <1>1, <1>2, <1>9, <2>2, <3>1, <3>2 DEF FirstFlight, Unbuilt
  <2>9. CASE PreWork(e) /\ ~HasPreWork(e)
    <3>1. /\ pc[e] = "pre" /\ UNCHANGED <<calls, statem>> /\ pc'[e] = "send" /\ phase'[e] = "pre"
      BY <1>0, <2>9 DEF PreWork
    <3>2. statem[e] # "INITIAL"
      BY <1>9, <2>9 DEF HasPreWork
    <3> QED BY <1>1, <1>2, <1>9, <2>2, <3>1, <3>2 DEF FirstFlight, Unbuilt
  <2> QED BY <2>3, <2>4, <2>5, <2>6, <2>7, <2>8, <2>9 DEF Quiet
<1> QED BY <1>6, <1>7, <1>8, <1>9 DEF HelloInv

\* TlsHandshake begins: nothing is written yet.
LEMMA HelloEnters ==
    ASSUME CallType, BufType, NEW e \in Ends, NEW b \in Buffers, EnterTls(e, b), buf'[e] = b,
           state' = state, keys' = keys, ReadsHello(e), b.offset = buf[e].offset
    PROVE  /\ ReadsHello(e)' /\ WritesHello(e)' /\ ret'[e] = "none" /\ pc'[e] \in {"tls", "aborted"}
           /\ Awaits(e) => pc'[e] = "tls"
<1>1. DOMAIN pc = Ends /\ DOMAIN ret = Ends /\ DOMAIN rpkt = Ends /\ DOMAIN wpkt = Ends
  BY DEF CallType, BufType
<1>2. b.data_len \in Nat /\ b.offset \in Nat /\ b.reserved \in Nat
  BY DEF Buffers
<1>3. ret'[e] = "none" /\ wpkt'[e].len = 0
  BY <1>1 DEF EnterTls, BufType
<1>4. CASE Awaits(e)
  <2>1. b.offset = 0 /\ keys[e].dec["HANDSHAKE"] = NoKey
    BY <1>4 DEF ReadsHello
  <2>2. /\ pc'[e] = "tls"
        /\ rpkt'[e] = [pos |-> b.reserved + b.offset, left |-> b.data_len - b.offset, read |-> 0]
    BY <1>1, <1>2, <2>1 DEF EnterTls
  <2>3. rpkt'[e].pos = b.reserved /\ rpkt'[e].read = 0
    BY <1>2, <2>1, <2>2
  <2> QED BY <1>3, <2>1, <2>2, <2>3 DEF ReadsHello, WritesHello
<1>5. CASE ~Awaits(e)
  <2>1. ~Awaits(e)'
    BY <1>5 DEF Awaits
  <2>2. pc'[e] \in {"tls", "aborted"}
    BY <1>1 DEF EnterTls
  <2> QED BY <1>3, <1>5, <2>1, <2>2 DEF ReadsHello, WritesHello
<1> QED BY <1>4, <1>5

\* pre_work runs TLS in the client's first call, or in the server.
LEMMA HelloPreWork ==
    ASSUME CallType, TlsType, BufType, NEW e \in Ends, PreWork(e), HasPreWork(e), HelloInv(e)
    PROVE  HelloInv(e)'
<1>1. /\ pc[e] = "pre" /\ EnterTls(e, buf[e]) /\ phase'[e] = "pre"
      /\ UNCHANGED <<state, keys, dgst, buf, statem, calls>>
  BY DEF PreWork, tlsVars, CallType
<1>2. buf[e] \in Buffers
  BY DEF BufType
<1>3. /\ ReadsHello(e)' /\ WritesHello(e)' /\ ret'[e] = "none" /\ pc'[e] \in {"tls", "aborted"}
      /\ Awaits(e) => pc'[e] = "tls"
  <2> HIDE DEF Buffers
  <2> QED BY <1>1, <1>2, HelloEnters DEF HelloInv
<1>4. e = "server" => ServerHellos'
  BY <1>1 DEF HelloInv, ServerHellos, Awaits
<1>5. ASSUME e = "client" PROVE ClientHellos' /\ FirstFlight("client")'
  <2>1. ClientHellos'
    BY <1>1, <1>5 DEF HelloInv, ClientHellos, Unbuilt
  <2>2. statem[e] = "INITIAL" /\ FirstFlight(e)
    BY <1>5 DEF HasPreWork, HelloInv
  <2>3. state[e] = "OK" /\ calls[e] # 0
    BY <1>1, <2>2 DEF FirstFlight
  <2>4. pc'[e] = "tls"
    BY <1>3, <2>3 DEF Awaits
  <2>5. FirstFlight(e)'
    BY <1>1, <1>3, <2>2, <2>3, <2>4 DEF FirstFlight, Unbuilt
  <2> QED BY <1>5, <2>1, <2>5
<1> QED BY <1>1, <1>3, <1>4, <1>5 DEF HelloInv

\* While an end awaits a hello it can read no packet but of the INITIAL level.
LEMMA HelloReads ==
    ASSUME TlsType, NetType, KeyInv, NEW e \in Ends, Received(e), Awaits(e), ReadsHello(e),
           SendsHellos(Peer(e)), Readable(e, Head(inq[e])), Head(inq[e]).kind = "crypto"
    PROVE  /\ Head(inq[e]).level = "INITIAL" /\ Head(inq[e]).offset = 0
           /\ Head(inq[e]).data \in Hellos(Peer(e))
<1> DEFINE p == Head(inq[e])
<1>1. Peer(Peer(e)) = e /\ Peer(e) \in Ends
  BY DEF Peer, Ends
<1>2. p \in HelloPackets(Peer(e))
  <2>1. inq[e] \in Seq(HelloPackets(Peer(e))) /\ inq[e] # <<>>
    BY <1>1 DEF SendsHellos, Received
  <2> HIDE DEF HelloPackets
  <2> QED BY <2>1
<1>3. p.level \in Levels /\ p.key = keys[e].dec[p.level] /\ p.key # NoKey
  BY <1>2 DEF HelloPackets, Packets, Readable
<1>4. keys[e].dec["HANDSHAKE"] = NoKey
  BY DEF ReadsHello
<1>5. keys[e].dec["1RTT"] = NoKey
  <2>1. CASE e = "client"
    BY <2>1 DEF KeyInv, Awaits
  <2>2. CASE e = "server"
    <3>1. ~Sealed
      BY <2>2 DEF Sealed, Awaits
    <3> QED BY <2>2, <3>1 DEF KeyInv
  <2> QED BY <2>1, <2>2 DEF Ends
<1>6. p.level = "INITIAL"
  BY <1>3, <1>4, <1>5 DEF Levels
<1> HIDE DEF p
<1>7. p.kind = "crypto"
  BY DEF p
<1> QED BY <1>2, <1>6, <1>7 DEF HelloPackets, p

\* A CRYPTO frame that comes before the hello is taken brings the hello.
LEMMA HelloCrypto ==
    ASSUME CallType, TlsType, BufType, NetType, CallInv, BufInv, KeyInv, NEW e \in Ends,
           RecvCrypto(e), HelloInv(e), SendsHellos(Peer(e))
    PROVE  HelloInv(e)'
<1> DEFINE p == Head(inq[e])
           b == CryptoData(buf[e], p)
<1>0. DOMAIN buf = Ends /\ buf[e] \in Buffers
  BY DEF BufType
<1>1. /\ pc[e] = "read" /\ Received(e) /\ EnterTls(e, b) /\ buf' = [buf EXCEPT ![e] = b]
      /\ p.kind = "crypto" /\ Readable(e, p)
      /\ UNCHANGED <<state, keys, dgst, statem, calls, phase, ok>>
  BY DEF RecvCrypto, Received, tlsVars
<1>2. p \in Packets(AllCells)
  BY <1>1, ReceivedPacket
<1>3. /\ b \in Buffers /\ b.mem = Overwrite(buf[e].mem, buf[e].reserved + p.offset, p.data)
      /\ b.reserved = buf[e].reserved /\ b.offset = buf[e].offset
  <2> HIDE DEF Buffers, Packets, p
  <2> QED BY <1>0, <1>2, CryptoDataType
<1> HIDE DEF b
<1>4. buf'[e] = b
  BY <1>0, <1>1
<1>5. /\ ReadsHello(e)' /\ WritesHello(e)' /\ ret'[e] = "none" /\ pc'[e] \in {"tls", "aborted"}
      /\ Awaits(e) => pc'[e] = "tls"
  <2> HIDE DEF Buffers
  <2> QED BY <1>1, <1>3, <1>4, HelloEnters DEF HelloInv
<1>6. Awaits(e) => p.offset = 0 /\ p.data \in Hellos(Peer(e))
  BY <1>1, HelloReads DEF HelloInv
<1> HIDE DEF p
<1>7. ASSUME e = "server" PROVE ServerHellos'
  <2>1. ASSUME Awaits(e) PROVE b.mem = ClientHello
    <3>1. p.data = ClientHello /\ p.offset = 0 /\ buf[e].reserved = 0
      BY <1>6, <1>7, <2>1 DEF Peer, Hellos, BufInv
    <3>2. b.mem = Overwrite(buf[e].mem, 0, ClientHello)
      BY <1>3, <3>1
    <3>3. buf[e].mem \in {<<>>, ClientHello} /\ buf[e].mem \in Seq(AllCells)
      BY <1>0, <1>7, <2>1 DEF HelloInv, ServerHellos, Buffers
    <3> QED BY <3>2, <3>3, OverwriteHead, HelloCells
  <2> QED BY <1>1, <1>4, <1>7, <2>1 DEF HelloInv, ServerHellos, Awaits
<1>8. ASSUME e = "client" PROVE ClientHellos' /\ FirstFlight("client")'
  <2>1. FirstFlight(e) /\ ~Unbuilt(e)
    BY <1>1, <1>8 DEF HelloInv, FirstFlight
  <2>2. phase[e] = "read" /\ calls[e] # 0
    BY <1>1, <2>1 DEF CallInv, FirstFlight
  <2>3. FirstFlight(e)'
    BY <1>1, <1>3, <1>4, <1>5, <2>1, <2>2 DEF FirstFlight, Unbuilt
  <2>4. ASSUME state[e] = "CR_SERVER_HELLO"
        PROVE  b.mem \in {ClientHello \o ServerHello(h) : h \in BOOLEAN}
    <3>1. Awaits(e) /\ buf[e].reserved = Len(ClientHello) /\ Len(ClientHello) \in Nat
      BY <1>1, <2>1, <2>4, HelloCells DEF Awaits, FirstFlight
    <3>2. PICK h \in BOOLEAN : p.data = ServerHello(h)
      BY <1>6, <1>8, <3>1 DEF Peer, Hellos
    <3>3. b.mem = Overwrite(buf[e].mem, Len(ClientHello), ServerHello(h))
      BY <1>3, <1>6, <3>1, <3>2
    <3>4. buf[e].mem \in {ClientHello} \cup {ClientHello \o ServerHello(g) : g \in BOOLEAN}
      BY <1>8, <2>4 DEF HelloInv, ClientHellos
    <3>5. PICK g \in BOOLEAN : buf[e].mem \in {ClientHello, ClientHello \o ServerHello(g)}
      BY <3>4
    <3>6. b.mem = ClientHello \o ServerHello(h)
      <4>1. /\ ClientHello \in Seq(AllCells) /\ ServerHello(h) \in Seq(AllCells)
            /\ ServerHello(g) \in Seq(AllCells) /\ Len(ServerHello(g)) = Len(ServerHello(h))
        BY HelloCells
      <4> QED BY <3>3, <3>5, <4>1, OverwriteBehind
    <3> QED BY <3>6
  <2>5. ClientHellos'
    BY <1>1, <1>4, <1>8, <2>1, <2>4 DEF HelloInv, ClientHellos, Unbuilt
  <2> QED BY <1>8, <2>3, <2>5
<1> QED BY <1>1, <1>5, <1>7, <1>8 DEF HelloInv

\* A turn of the loop that takes no message writes nothing and moves no end back.
LEMMA HelloTurns ==
    ASSUME CallType, TlsType, BufType, NEW e \in Ends, HelloInv(e),
           \/ FlowNothing(e) \/ FlowFinished(e) \/ ReadNothing(e) \/ Early(e) \/ HandlerFails(e)
    PROVE  HelloInv(e)'
<1>0. DOMAIN ret = Ends /\ DOMAIN state = Ends
  BY DEF CallType, TlsType
<1>1. /\ pc[e] = "tls" /\ ret[e] = "none"
      /\ UNCHANGED <<pc, phase, ok, statem, calls, buf, wpkt, keys>>
  BY DEF FlowNothing, FlowFinished, ReadNothing, Early, ReadPart, ReadRepeated, ReadUnexpected,
     ReadReturns, HandlerFails, Complete, Running, callVars, bufVars
<1>2. \/ rpkt' = rpkt
      \/ ret'[e] \in {"DROP", "ERROR"}
  BY <1>0 DEF FlowNothing, FlowFinished, ReadNothing, Early, ReadPart, ReadRepeated, ReadUnexpected,
     ReadReturns, HandlerFails, bufVars
<1>3. FlowNothing(e) => ret' = ret
  BY DEF FlowNothing, callVars
<1>4. /\ Awaits(e)' => Awaits(e)
      /\ state'[e] # "SW_SERVER_HELLO"
      /\ Unbuilt(e)' /\ e = "client" => Unbuilt(e) /\ FlowNothing(e)
      /\ state'[e] = "CR_SERVER_HELLO" => state[e] = "CR_SERVER_HELLO"
      /\ state'[e] \in {"OK", "CW_CLIENT_HELLO", "SR_CLIENT_HELLO", "SW_SERVER_HELLO"} =>
           state[e] \in {"OK", "CW_CLIENT_HELLO", "SR_CLIENT_HELLO", "SW_SERVER_HELLO"}
  <2>1. CASE FlowNothing(e)
    <3>1. /\ state[e] = "OK" /\ state'[e] \in {"CW_CLIENT_HELLO", "SR_CLIENT_HELLO"}
      <4>1. CASE e = "client"
        <5>1. state[e] = "OK"
          BY <2>1, <4>1, ClientTable DEF FlowNothing, Running, TlsType, ClientStates
        <5> QED BY <1>0, <2>1, <4>1, <5>1, ClientTable DEF FlowNothing
      <4>2. CASE e = "server"
        <5>1. state[e] = "OK"
          BY <2>1, <4>2, ServerTable DEF FlowNothing, Running, TlsType, ServerStates
        <5> QED BY <1>0, <2>1, <4>2, <5>1, ServerTable DEF FlowNothing
      <4> QED BY <4>1, <4>2 DEF Ends
    <3> QED BY <2>1, <3>1 DEF Awaits, Unbuilt
  <2>2. CASE FlowFinished(e)
    <3>1. state' = state /\ proc[e][state[e]].flow = "FINISHED"
      BY <2>2 DEF FlowFinished, Running, tlsVars
    <3>2. state[e] \in {"SW_HANDSHAKE_DONE", "HANDSHAKE_DONE"}
      <4>1. CASE e = "client"
        BY <3>1, <4>1, ClientTable DEF TlsType, ClientStates
      <4>2. CASE e = "server"
        BY <3>1, <4>2, ServerTable DEF TlsType, ServerStates
      <4> QED BY <4>1, <4>2 DEF Ends
    <3> QED BY <3>1, <3>2 DEF Awaits, Unbuilt
  <2>3. CASE ReadNothing(e)
    <3>1. Running(e, "READING") /\ state' = state
      BY <2>3 DEF ReadNothing, tlsVars
    <3>2. state[e] \in ClientReads \cup {"SR_CLIENT_HELLO", "SR_FINISHED"}
      BY <3>1, Skips DEF Ends
    <3> QED BY <3>1, <3>2 DEF Awaits, Unbuilt, ClientReads
  <2>4. CASE Early(e) \/ HandlerFails(e)
    <3>1. /\ Running(e, "READING") /\ state' = [state EXCEPT ![e] = Reached(e)]
      BY <2>4, EarlyTls
    <3>2. CASE e = "server"
      <4>1. Reached(e) = state[e] /\ state[e] \in {"SR_CLIENT_HELLO", "SR_FINISHED"}
        BY <3>1, <3>2, Skips
      <4> QED BY <1>0, <3>1, <3>2, <4>1 DEF Awaits
    <3>3. CASE e = "client"
      <4>1. /\ Reached(e) \in ClientReads
            /\ Reached(e) \in {"CR_SERVER_HELLO", "CR_NEW_SESSION_TICKET"} => Reached(e) = state[e]
        BY <3>1, <3>3, Skips
      <4> QED BY <1>0, <3>1, <3>3, <4>1 DEF Awaits, Unbuilt, ClientReads
    <3> QED BY <3>2, <3>3 DEF Ends
  <2> QED BY <2>1, <2>2, <2>3, <2>4
<1>5. ReadsHello(e)'
  BY <1>1, <1>2, <1>4 DEF HelloInv, ReadsHello, Awaits
<1>6. WritesHello(e)'
  <2>1. /\ wpkt[e].len = 0 \/ wpkt[e].level # "INITIAL"
        /\ state[e] \in {"OK", "CW_CLIENT_HELLO", "SR_CLIENT_HELLO", "SW_SERVER_HELLO"} =>
             wpkt[e].len = 0
    BY <1>1 DEF HelloInv, WritesHello
  <2>2. state'[e] \in {"OK", "CW_CLIENT_HELLO", "SR_CLIENT_HELLO", "SW_SERVER_HELLO"} =>
          state[e] \in {"OK", "CW_CLIENT_HELLO", "SR_CLIENT_HELLO", "SW_SERVER_HELLO"}
    BY <1>4
  <2> QED BY <1>1, <2>1, <2>2 DEF WritesHello
<1>7. e = "server" => ServerHellos'
  BY <1>1, <1>4 DEF HelloInv, ServerHellos, Awaits
<1>8. e = "client" => ClientHellos' /\ FirstFlight("client")'
  <2>1. SUFFICES ASSUME e = "client", FirstFlight(e) PROVE ClientHellos' /\ FirstFlight(e)'
    BY DEF HelloInv
  <2>2. ClientHellos'
    BY <1>1, <1>4, <2>1 DEF HelloInv, ClientHellos, Unbuilt
  <2>3. state'[e] = "CR_SERVER_HELLO" => phase[e] # "pre" /\ buf[e].reserved = Len(ClientHello)
    BY <1>1, <1>4, <2>1 DEF FirstFlight
  <2>4. FirstFlight(e)'
    BY <1>1, <1>3, <1>4, <2>1, <2>3 DEF FirstFlight, Unbuilt
  <2> QED BY <2>2, <2>4
<1> QED BY <1>1, <1>5, <1>6, <1>7, <1>8 DEF HelloInv

\* TlsHandshake returns to pre_work or to the frame parser: the ClientHello is reserved.
LEMMA HelloReturn ==
    ASSUME CallType, TlsType, BufType, CallInv, BufInv, NEW e \in Ends, HelloInv(e), TlsReturn(e)
    PROVE  HelloInv(e)'
<1>0. /\ DOMAIN pc = Ends /\ DOMAIN ok = Ends /\ DOMAIN statem = Ends /\ DOMAIN buf = Ends
      /\ DOMAIN state = Ends
  BY DEF CallType, TlsType, BufType
<1>1. /\ pc[e] = "tls" /\ ret[e] # "none" /\ UNCHANGED <<keys, dgst, calls, phase>>
      /\ state'[e] \in {state[e], "HANDSHAKE_DONE"}
      /\ phase[e] \in {"pre", "read"}
  BY <1>0 DEF TlsReturn, CallType
<1>2. /\ phase[e] = "pre" =>
           /\ pc'[e] = "send" /\ statem' = statem
           /\ buf'[e] = IF e = "client" THEN Reserve(AfterFlow(e)) ELSE AfterFlow(e)
      /\ phase[e] = "read" =>
           /\ pc'[e] \in {"send", "read"} /\ buf'[e] = AfterInitialRecv(e, AfterFlow(e))
           /\ ~ok'[e] \/ statem'[e] # "INITIAL"
  <2>1. CASE phase[e] = "pre"
    BY <1>0, <2>1 DEF TlsReturn
  <2>2. CASE phase[e] = "read" /\ ret[e] = "ERROR"
    BY <1>0, <2>2 DEF TlsReturn, PacketFails
  <2>3. CASE phase[e] = "read" /\ ret[e] # "ERROR"
    <3>1. statem'[e] # "INITIAL"
      <4>1. statem[e] \in {"INITIAL", "HANDSHAKE", "HANDSHAKE_DONE"}
        BY DEF CallType
      <4>2. PICK st \in {statem[e], "HANDSHAKE_DONE"} :
              statem' = [statem EXCEPT ![e] = IF @ = "INITIAL" THEN "HANDSHAKE" ELSE st]
        BY <2>3 DEF TlsReturn, PacketDone
      <4> QED BY <1>0, <4>1, <4>2
    <3> QED BY <1>0, <2>3, <3>1 DEF TlsReturn, PacketDone
  <2> QED BY <1>1, <2>1, <2>2, <2>3
<1>3. /\ AfterFlow(e) \in Buffers /\ AfterFlow(e).mem = buf[e].mem
      /\ AfterFlow(e).reserved = buf[e].reserved /\ AfterFlow(e).data_len = wpkt[e].len
  BY AfterFlowType
<1>4. /\ buf'[e].mem = buf[e].mem /\ buf'[e].offset = AfterFlow(e).offset
      /\ e = "client" /\ phase[e] = "pre" => buf'[e].reserved = wpkt[e].len
      /\ e = "client" /\ phase[e] = "read" => buf'[e].reserved = buf[e].reserved
  <2> DEFINE b == AfterFlow(e)
  <2> HIDE DEF b
  <2>1. /\ Clear(b).mem = b.mem /\ Clear(b).offset = b.offset
        /\ Reserve(b).mem = b.mem /\ Reserve(b).offset = b.offset
        /\ Reserve(b).reserved = b.data_len
    BY <1>3 DEF Clear, Reserve, Buffers, b
  <2> QED BY <1>1, <1>2, <1>3, <2>1 DEF AfterInitialRecv, b
<1>5. Awaits(e) => AfterFlow(e).offset = 0
  <2>1. SUFFICES ASSUME Awaits(e) PROVE AfterFlow(e).offset = 0
    OBVIOUS
  <2>2. /\ buf[e].offset = 0
        /\ ret[e] \in {"DROP", "ERROR"} \/ rpkt[e].read = 0
    BY <1>1, <2>1 DEF HelloInv, ReadsHello
  <2>3. AfterFlow(e).offset = IF ret[e] \in {"WANT_READ", "NEXT"} /\ rpkt[e].left > 0
                              THEN buf[e].offset + rpkt[e].read ELSE 0
    <3>1. buf[e] \in Buffers
      BY DEF BufType
    <3> QED BY <3>1 DEF AfterFlow, Buffers
  <2> QED BY <2>2, <2>3
<1>6. (Awaits(e)' => Awaits(e)) /\ pc'[e] # "tls"
  BY <1>1, <1>2 DEF Awaits
<1>7. ReadsHello(e)' /\ WritesHello(e)'
  BY <1>1, <1>4, <1>5, <1>6 DEF HelloInv, ReadsHello, WritesHello
<1>8. e = "server" => ServerHellos'
  BY <1>1, <1>4, <1>6 DEF HelloInv, ServerHellos
<1>9. e = "client" => ClientHellos' /\ FirstFlight("client")'
  <2>1. SUFFICES ASSUME e = "client", FirstFlight(e) PROVE ClientHellos' /\ FirstFlight(e)'
    BY DEF HelloInv
  <2>2. ~Unbuilt(e)' /\ calls[e] # 0
    BY <1>1, <2>1 DEF FirstFlight, Unbuilt
  <2>3. ClientHellos'
    BY <1>1, <1>4, <2>1, <2>2 DEF HelloInv, ClientHellos
  <2>4. state'[e] = "CR_SERVER_HELLO" => buf'[e].reserved = Len(ClientHello)
    BY <1>1, <1>4, <2>1 DEF FirstFlight
  <2>5. FirstFlight(e)'
    BY <1>1, <1>2, <2>2, <2>4 DEF FirstFlight
  <2> QED BY <2>3, <2>5
<1>10. calls' \in [Ends -> Nat]
  BY <1>1 DEF HelloInv
<1> QED BY <1>7, <1>8, <1>9, <1>10 DEF HelloInv

\* The ServerHello lies behind the ClientHello: both are digested.
LEMMA ServerHelloTaken ==
    ASSUME TlsType, BufType, BufInv, CallType, ServerHelloProc("client"), HelloInv("client")
    PROVE  dgst'["client"] = HelloKey
<1> DEFINE e == "client"
           n == MsgLen["SERVER_HELLO"]
           mem == buf[e].mem
<1>0. e \in Ends /\ DOMAIN dgst = Ends
  BY DEF Ends, TlsType
<1>1. Handles(e, "SERVER_HELLO") /\ dgst'[e] = CachedRecords(e, n)
  BY <1>0 DEF ServerHelloProc
<1>2. /\ Complete(e) /\ NextType(e) = "SERVER_HELLO" /\ pc[e] = "tls" /\ ret[e] = "none"
  BY <1>1 DEF Handles, Complete, Running
<1>3. state[e] = "CR_SERVER_HELLO"
  BY <1>0, <1>1, Handled
<1>4. rpkt[e].pos = buf[e].reserved /\ buf[e].reserved = Len(ClientHello)
  BY <1>2, <1>3 DEF HelloInv, ReadsHello, Awaits, FirstFlight
<1>5. rpkt[e].pos + n <= Len(mem)
  BY <1>0, <1>2, MessageAhead
<1>6. n \in Nat \ {0} /\ Len(ClientHello) \in Nat
  BY HelloCells
<1>7. PICK h \in BOOLEAN : mem = ClientHello \o ServerHello(h)
  <2>1. mem # ClientHello
    BY <1>4, <1>5, <1>6
  <2> QED BY <1>3, <2>1 DEF HelloInv, ClientHellos
<1>8. /\ mem \in Seq(AllCells) /\ Len(mem) = Len(ClientHello) + n
      /\ ClientHello \in Seq(AllCells) /\ ServerHello(h) \in Seq(AllCells)
  <2>1. ClientHello \in Seq(AllCells) /\ ServerHello(h) \in Seq(AllCells) /\ Len(ServerHello(h)) = n
    BY HelloCells
  <2> HIDE DEF mem
  <2> QED BY <1>7, <2>1, Concat
<1> HIDE DEF mem
<1>9. SubSeq(mem, 1, buf[e].reserved + n) = mem
  BY <1>4, <1>6, <1>8
<1>10. dgst'[e] = Units(mem)
  BY <1>1, <1>9 DEF CachedRecords, mem
<1>11. Units(mem) = Units(ClientHello) \o Units(ServerHello(h))
  BY <1>7, <1>8, UnitsConcat
<1>12. Units(ServerHello(h)) = Units(ServerHello(FALSE))
  BY HelloCells
<1> QED BY <1>10, <1>11, <1>12 DEF HelloKey

\* The server digests what its memory begins with, which is the ClientHello.
LEMMA ClientHelloTaken ==
    ASSUME TlsType, BufType, BufInv, ClientHelloProc("server"), HelloInv("server")
    PROVE  dgst'["server"] = Units(ClientHello)
<1> DEFINE e == "server"
           n == MsgLen["CLIENT_HELLO"]
           mem == buf[e].mem
<1>0. e \in Ends /\ DOMAIN dgst = Ends
  BY DEF Ends, TlsType
<1>1. Handles(e, "CLIENT_HELLO") /\ dgst'[e] = CachedRecords(e, n)
  BY <1>0 DEF ClientHelloProc
<1>2. /\ Complete(e) /\ NextType(e) = "CLIENT_HELLO" /\ pc[e] = "tls" /\ ret[e] = "none"
  BY <1>1 DEF Handles, Complete, Running
<1>3. state[e] = "SR_CLIENT_HELLO"
  BY <1>0, <1>1, Handled
<1>4. buf[e].reserved = 0 /\ rpkt[e].pos \in Nat
  BY <1>0 DEF BufInv, BufType
<1>5. rpkt[e].pos + n <= Len(mem)
  BY <1>0, <1>2, MessageAhead
<1>6. n \in Nat \ {0} /\ ClientHello \in Seq(AllCells) /\ Len(ClientHello) = n
  BY HelloCells
<1>7. mem = ClientHello
  <2>1. mem # <<>>
    BY <1>4, <1>5, <1>6
  <2> QED BY <1>3, <2>1 DEF HelloInv, ServerHellos, Awaits
<1> HIDE DEF mem
<1>8. SubSeq(mem, 1, buf[e].reserved + n) = mem
  BY <1>4, <1>6, <1>7
<1> QED BY <1>1, <1>7, <1>8 DEF CachedRecords, mem

\* A handler that takes a hello digests it, and the client makes its key of both.
LEMMA HelloHandler ==
    ASSUME CallType, TlsType, BufType, BufInv, NEW e \in Ends, Handler(e), HelloInv(e)
    PROVE  HelloInv(e)'
<1>1. PICK type : /\ Handles(e, type)
                  /\ type = "SERVER_HELLO" => ServerHelloProc(e)
                  /\ type = "CLIENT_HELLO" => ClientHelloProc(e)
                  /\ type = "FINISHED" /\ e = "client" => ClientFinishedProc(e)
                  /\ type = "FINISHED" /\ e = "server" => SrvrFinishedProc(e)
  BY HandlerOf
<1>2. /\ pc[e] = "tls" /\ ret[e] = "none"
      /\ UNCHANGED <<pc, phase, ok, ret, calls, statem, wpkt>>
  BY <1>1 DEF Handles, Complete, Running, callVars
<1>3. /\ ~Awaits(e)' /\ ~Unbuilt(e)'
      /\ state'[e] = "SW_SERVER_HELLO" =>
           type = "CLIENT_HELLO" /\ e = "server" /\ state[e] = "SR_CLIENT_HELLO"
      /\ type = "SERVER_HELLO" => e = "client"
  <2>1. DOMAIN state = Ends
    BY DEF TlsType
  <2> QED BY <1>1, <2>1, Handled DEF Awaits, Unbuilt, ClientReads, Ends
<1>4. /\ e = "server" => keys'[e].enc = keys[e].enc
      /\ e = "client" /\ type # "SERVER_HELLO" =>
           keys'[e].dec["HANDSHAKE"] = keys[e].dec["HANDSHAKE"]
      /\ e = "client" /\ type = "SERVER_HELLO" =>
           keys'[e].dec["HANDSHAKE"] \in {keys[e].dec["HANDSHAKE"], dgst'[e]}
  <2>0. /\ keys \in [Ends -> KeyType] /\ keys[e].dec \in [Levels -> Transcripts]
        /\ keys[e].enc \in [Levels -> Transcripts]
    BY DEF TlsType, KeyType
  <2>1. CASE ServerHelloProc(e)
    <3>1. e = "client" /\ type = "SERVER_HELLO"
      <4>1. Handles(e, "SERVER_HELLO")
        BY <2>1 DEF ServerHelloProc
      <4> QED BY <1>1, <1>3, <4>1 DEF Handles
    <3>2. keys' = [keys EXCEPT ![e].dec = Install(keys[e].dec, "HANDSHAKE", dgst'[e])]
      BY <2>1 DEF ServerHelloProc
    <3>3. keys'[e].dec = Install(keys[e].dec, "HANDSHAKE", dgst'[e])
      BY <2>0, <3>2 DEF KeyType
    <3> QED BY <2>0, <3>1, <3>3 DEF Install, Levels
  <2>2. CASE ClientFinishedProc(e)
    <3>1. e = "client" /\ type = "FINISHED"
      BY <1>1, <2>2 DEF ClientFinishedProc, Handles
    <3>2. PICK t, u : keys' = [keys EXCEPT ![e].dec = Install(@, "1RTT", t),
                                           ![e].enc = Install(@, "HANDSHAKE", u)]
      BY <2>2 DEF ClientFinishedProc
    <3>3. keys'[e].dec = Install(keys[e].dec, "1RTT", t)
      BY <2>0, <3>2 DEF KeyType
    <3> QED BY <2>0, <3>1, <3>3 DEF Install, Levels
  <2>3. CASE SrvrFinishedProc(e)
    <3>1. e = "server"
      BY <2>3 DEF SrvrFinishedProc
    <3>2. PICK a : keys' = [keys EXCEPT ![e].dec = a]
      BY <2>3 DEF SrvrFinishedProc
    <3> QED BY <2>0, <3>1, <3>2 DEF KeyType
  <2>4. CASE ~ServerHelloProc(e) /\ ~ClientFinishedProc(e) /\ ~SrvrFinishedProc(e)
    <3>1. keys' = keys
      BY <2>4 DEF Handler, ClientHelloProc, EncExtProc, ServerCertProc, CertVerifyProc,
         NewSessionTicketProc
    <3> QED BY <1>1, <2>4, <3>1
  <2> QED BY <2>1, <2>2, <2>3, <2>4
<1>5. ReadsHello(e)'
  BY <1>3 DEF ReadsHello
<1>6. WritesHello(e)'
  <2>1. /\ wpkt[e].len = 0 \/ wpkt[e].level # "INITIAL"
        /\ state'[e] = "SW_SERVER_HELLO" => wpkt[e].len = 0
    BY <1>2, <1>3 DEF HelloInv, WritesHello
  <2>2. state'[e] \notin {"OK", "CW_CLIENT_HELLO", "SR_CLIENT_HELLO"}
    BY <1>3 DEF Awaits
  <2> QED BY <1>2, <2>1, <2>2 DEF WritesHello
<1>7. ASSUME e = "server" PROVE ServerHellos'
  <2>1. state'[e] = "SW_SERVER_HELLO" => dgst'["server"] = Units(ClientHello)
    BY <1>1, <1>3, <1>7, ClientHelloTaken
  <2> QED BY <1>3, <1>4, <1>7, <2>1 DEF HelloInv, ServerHellos, Awaits
<1>8. ASSUME e = "client" PROVE ClientHellos' /\ FirstFlight("client")'
  <2>1. state'[e] # "CR_SERVER_HELLO"
    BY <1>3 DEF Awaits
  <2>2. keys'["client"].dec["HANDSHAKE"] \in {NoKey, HelloKey}
    <3>1. type = "SERVER_HELLO" => dgst'["client"] = HelloKey
      BY <1>1, <1>8, ServerHelloTaken
    <3> QED BY <1>4, <1>8, <3>1 DEF HelloInv, ClientHellos
  <2>3. calls[e] # 0
    BY <1>2, <1>8 DEF HelloInv, FirstFlight
  <2> QED BY <1>2, <1>3, <1>8, <2>1, <2>2, <2>3 DEF ClientHellos, FirstFlight, Awaits
<1>9. calls' \in [Ends -> Nat]
  BY <1>2 DEF HelloInv
<1> QED BY <1>5, <1>6, <1>7, <1>8, <1>9 DEF HelloInv

\* Only the hellos are of the INITIAL level.
LEMMA WriteLevels ==
    /\ proc["client"]["CW_CLIENT_HELLO"].level = "INITIAL"
    /\ proc["client"]["CW_FINISHED"].level # "INITIAL"
    /\ proc["server"]["SW_SERVER_HELLO"].level = "INITIAL"
    /\ \A st \in {"SW_ENCRYPTED_EXTENSIONS", "SW_SERVER_CERTIFICATE", "SW_CERT_VERIFY",
                  "SW_FINISHED", "SW_NEW_SESSION_TICKET"} :
         proc["server"][st].level # "INITIAL"
<1>1. proc["client"] = client_proc /\ proc["server"] = server_proc
  BY DEF proc
<1> QED BY <1>1 DEF client_proc, server_proc, Entry

\* What a build does, read from Builds and Goes.
LEMMA BuildParts ==
    ASSUME CallType, TlsType, BufType, NEW e \in Ends, NEW st, NEW next, NEW r, NEW m \in Messages,
           m.type \in Types, Builds(e, st, m), Goes(e, next, r)
    PROVE  /\ pc[e] = "tls" /\ ret[e] = "none" /\ state[e] = st /\ state'[e] = next /\ ret'[e] = r
           /\ UNCHANGED <<pc, phase, ok, calls, statem, rpkt>>
           /\ buf'[e].mem = Overwrite(buf[e].mem, wpkt[e].len, Cells(m))
           /\ buf'[e].reserved = buf[e].reserved /\ buf'[e].offset = buf[e].offset
           /\ wpkt'[e].len = wpkt[e].len + MsgLen[m.type] /\ wpkt'[e].level = proc[e][st].level
           /\ dgst'[e] = Digested(dgst[e], Cells(m))
           /\ dgst' \in [Ends -> Transcripts]
<1>0. /\ DOMAIN state = Ends /\ DOMAIN ret = Ends /\ DOMAIN buf = Ends /\ DOMAIN wpkt = Ends
      /\ DOMAIN dgst = Ends /\ buf[e] \in Buffers /\ dgst[e] \in Transcripts
  BY DEF CallType, TlsType, BufType
<1>1. /\ pc[e] = "tls" /\ ret[e] = "none" /\ state[e] = st
      /\ state'[e] = next /\ ret'[e] = r /\ UNCHANGED <<pc, phase, ok, calls, statem, rpkt>>
  BY <1>0 DEF Builds, Goes, Running
<1>2. /\ buf'[e] = [buf[e] EXCEPT !.mem = Overwrite(buf[e].mem, wpkt[e].len, Cells(m))]
      /\ wpkt'[e] = [len |-> wpkt[e].len + MsgLen[m.type], level |-> proc[e][st].level]
  BY <1>0 DEF Builds
<1>3. dgst'[e] = Digested(dgst[e], Cells(m)) /\ dgst' \in [Ends -> Transcripts]
  <2>1. dgst' = [dgst EXCEPT ![e] = Digested(dgst[e], Cells(m))] /\ dgst' \in [Ends -> Transcripts]
    BY BuildsTls
  <2> QED BY <1>0, <2>1
<1> QED BY <1>0, <1>1, <1>2, <1>3 DEF Buffers

\* The client builds its hello at the head of an empty memory.
LEMMA ClientHelloWritten ==
    ASSUME CallType, TlsType, BufType, BufInv, NEW e \in Ends, ClientHelloBuild(e), HelloInv(e)
    PROVE  HelloInv(e)'
<1> DEFINE m == Message("CLIENT_HELLO", FALSE, <<>>)
<1>0. m \in Messages /\ m.type = "CLIENT_HELLO" /\ m.type \in Types
  <2>1. <<>> \in Transcripts
    BY DEF Transcripts
  <2> QED BY <2>1 DEF Message, Messages, Types
<1>1. /\ Builds(e, "CW_CLIENT_HELLO", m) /\ Goes(e, "CR_SERVER_HELLO", "NEXT") /\ keys' = keys
      /\ Cells(m) = ClientHello
  BY DEF ClientHelloBuild, ClientHello
<1> HIDE DEF m
<1>2. /\ pc[e] = "tls" /\ ret[e] = "none" /\ state[e] = "CW_CLIENT_HELLO"
      /\ state'[e] = "CR_SERVER_HELLO" /\ ret'[e] = "NEXT"
      /\ UNCHANGED <<pc, phase, ok, calls, statem, rpkt>>
      /\ buf'[e].mem = Overwrite(buf[e].mem, wpkt[e].len, ClientHello)
      /\ buf'[e].reserved = buf[e].reserved /\ buf'[e].offset = buf[e].offset
      /\ wpkt'[e].len = wpkt[e].len + MsgLen["CLIENT_HELLO"]
      /\ wpkt'[e].level = proc[e]["CW_CLIENT_HELLO"].level
  BY <1>0, <1>1, BuildParts
<1>3. e = "client"
  BY <1>2 DEF TlsType, ServerStates, Ends
<1>4. FirstFlight(e) /\ ClientHellos /\ ReadsHello(e) /\ WritesHello(e)
  BY <1>3 DEF HelloInv
<1>5. wpkt[e].len = 0 /\ buf[e].mem = <<>> /\ phase[e] = "pre" /\ calls[e] # 0
  BY <1>2, <1>3, <1>4 DEF WritesHello, ClientHellos, FirstFlight, Unbuilt
<1>6. ClientHello \in Seq(AllCells) /\ Len(ClientHello) = MsgLen["CLIENT_HELLO"]
      /\ MsgLen["CLIENT_HELLO"] \in Nat \ {0}
  BY HelloCells
<1>7. buf'[e].mem = ClientHello /\ wpkt'[e].len = Len(ClientHello)
      /\ SubSeq(buf'[e].mem, 1, Len(ClientHello)) = ClientHello
  <2>1. <<>> \in Seq(AllCells)
    OBVIOUS
  <2>2. Overwrite(<<>>, 0, ClientHello) = ClientHello
        /\ SubSeq(Overwrite(<<>>, 0, ClientHello), 1, Len(ClientHello)) = ClientHello
    BY <1>6, <2>1, OverwriteHead
  <2> QED BY <1>2, <1>5, <1>6, <2>2
<1>8. ReadsHello(e)'
  BY <1>1, <1>2, <1>4 DEF ReadsHello, Awaits
<1>9. WritesHello(e)'
  <2>1. ClientHello \in Hellos(e)
    BY <1>3 DEF Hellos
  <2>2. \E c \in Hellos(e) : wpkt'[e].len = Len(c) /\ SubSeq(buf'[e].mem, 1, Len(c)) = c
    BY <1>7, <2>1
  <2>3. Hellos(e)' = Hellos(e)
    BY DEF Hellos
  <2> QED BY <1>2, <2>2, <2>3 DEF WritesHello
<1>10. FirstFlight(e)'
  BY <1>2, <1>5, <1>7 DEF FirstFlight, Unbuilt
<1>11. ClientHellos'
  BY <1>1, <1>2, <1>3, <1>4, <1>7 DEF ClientHellos, Unbuilt
<1> QED BY <1>2, <1>3, <1>8, <1>9, <1>10, <1>11 DEF HelloInv

\* The server builds its own, digests it and makes its key.
LEMMA ServerHelloWritten ==
    ASSUME CallType, TlsType, BufType, BufInv, NEW e \in Ends, ServerHelloBuild(e), HelloInv(e)
    PROVE  HelloInv(e)'
<1> DEFINE m == Message("SERVER_HELLO", hit[e], <<>>)
<1>a. hit[e] \in BOOLEAN
  BY DEF TlsType
<1>0. m \in Messages /\ m.type = "SERVER_HELLO" /\ m.type \in Types
  <2>1. <<>> \in Transcripts
    BY DEF Transcripts
  <2> QED BY <1>a, <2>1 DEF Message, Messages, Types
<1>1. /\ Builds(e, "SW_SERVER_HELLO", m) /\ Goes(e, "SW_ENCRYPTED_EXTENSIONS", "NEXT")
      /\ keys' = [keys EXCEPT ![e].enc = Install(keys[e].enc, "HANDSHAKE", dgst'[e])]
      /\ Cells(m) = ServerHello(hit[e])
  BY DEF ServerHelloBuild, ServerHello
<1> HIDE DEF m
<1>2. /\ pc[e] = "tls" /\ ret[e] = "none" /\ state[e] = "SW_SERVER_HELLO"
      /\ state'[e] = "SW_ENCRYPTED_EXTENSIONS" /\ ret'[e] = "NEXT"
      /\ UNCHANGED <<pc, phase, ok, calls, statem, rpkt>>
      /\ buf'[e].mem = Overwrite(buf[e].mem, wpkt[e].len, ServerHello(hit[e]))
      /\ wpkt'[e].len = wpkt[e].len + MsgLen["SERVER_HELLO"]
      /\ wpkt'[e].level = proc[e]["SW_SERVER_HELLO"].level
      /\ dgst'[e] = Digested(dgst[e], ServerHello(hit[e]))
  BY <1>0, <1>1, BuildParts
<1>3. e = "server"
  BY <1>2 DEF TlsType, ClientStates, Ends
<1>4. ServerHellos /\ WritesHello(e)
  BY <1>3 DEF HelloInv
<1>5. wpkt[e].len = 0 /\ dgst[e] = Units(ClientHello)
  BY <1>2, <1>3, <1>4 DEF WritesHello, ServerHellos
<1>6. /\ ServerHello(hit[e]) \in Seq(AllCells) /\ Len(ServerHello(hit[e])) = MsgLen["SERVER_HELLO"]
      /\ MsgLen["SERVER_HELLO"] \in Nat \ {0}
      /\ Units(ServerHello(hit[e])) = Units(ServerHello(FALSE))
  BY <1>a, HelloCells
<1>7. /\ wpkt'[e].len = Len(ServerHello(hit[e]))
      /\ SubSeq(buf'[e].mem, 1, Len(ServerHello(hit[e]))) = ServerHello(hit[e])
  <2>1. buf[e].mem \in Seq(AllCells)
    BY DEF BufType, Buffers
  <2>2. SubSeq(Overwrite(buf[e].mem, 0, ServerHello(hit[e])), 1, Len(ServerHello(hit[e])))
        = ServerHello(hit[e])
    BY <1>6, <2>1, OverwriteHead
  <2> QED BY <1>2, <1>5, <1>6, <2>2
<1>8. dgst'[e] = HelloKey
  <2>1. dgst[e] # NoDigest
    <3>1. ClientHello \in Seq(AllCells) /\ Len(ClientHello) = MsgLen["CLIENT_HELLO"]
          /\ MsgLen["CLIENT_HELLO"] \in Nat \ {0}
      BY HelloCells
    <3>2. Len(Units(ClientHello)) # 0
      BY <3>1 DEF Units
    <3> QED BY <1>5, <3>2 DEF NoDigest
  <2> QED BY <1>2, <1>5, <1>6, <2>1 DEF Digested, HelloKey
<1>9. /\ keys'[e].enc["HANDSHAKE"] \in {keys[e].enc["HANDSHAKE"], HelloKey}
  <2>1. keys \in [Ends -> KeyType] /\ keys[e].enc \in [Levels -> Transcripts]
    BY DEF TlsType, KeyType
  <2>2. keys'[e].enc = Install(keys[e].enc, "HANDSHAKE", dgst'[e])
    BY <1>1, <2>1 DEF KeyType
  <2> QED BY <1>8, <2>1, <2>2 DEF Install, Levels
<1>10. ReadsHello(e)'
  BY <1>2 DEF ReadsHello, Awaits
<1>11. WritesHello(e)'
  <2>1. ServerHello(hit[e]) \in Hellos(e)
    BY <1>a, <1>3 DEF Hellos
  <2>2. \E c \in Hellos(e) : wpkt'[e].len = Len(c) /\ SubSeq(buf'[e].mem, 1, Len(c)) = c
    BY <1>7, <2>1
  <2>3. Hellos(e)' = Hellos(e)
    BY DEF Hellos
  <2> QED BY <1>2, <2>2, <2>3 DEF WritesHello
<1>12. ServerHellos'
  BY <1>2, <1>3, <1>4, <1>9 DEF ServerHellos, Awaits
<1> QED BY <1>2, <1>3, <1>10, <1>11, <1>12 DEF HelloInv

\* The other flights are of other levels, and their keys of other levels too.
LEMMA HelloWrites ==
    ASSUME CallType, TlsType, BufType, BufInv, NEW e \in Ends, Writes(e), HelloInv(e)
    PROVE  HelloInv(e)'
<1>1. SUFFICES ASSUME ~ClientHelloBuild(e), ~ServerHelloBuild(e)
               PROVE  HelloInv(e)'
  BY ClientHelloWritten, ServerHelloWritten
<1>2. PICK m \in Messages : \E st, next, r :
        m.type \in Types /\ Builds(e, st, m) /\ Goes(e, next, r) /\ Built(e, m, st, next)
  BY BuildSteps
<1>3. PICK st, next, r :
        m.type \in Types /\ Builds(e, st, m) /\ Goes(e, next, r) /\ Built(e, m, st, next)
  BY <1>2
<1>4. /\ pc[e] = "tls" /\ state[e] = st /\ state'[e] = next
      /\ UNCHANGED <<pc, phase, ok, calls, statem>>
      /\ wpkt'[e].level = proc[e][st].level /\ dgst' \in [Ends -> Transcripts]
  BY <1>3, BuildParts
<1>5. st # "CW_CLIENT_HELLO"
  BY <1>1, <1>4 DEF Writes, ServerHelloBuild, EncryptedExtBuild, ServerCertBuild, CertVerifyBuild,
     SrvrFinishedBuild, ClntFinishedBuild, NewSessionTicketBuild, Builds
<1>6. \/ e = "client" /\ st = "CW_FINISHED" /\ next = "CR_NEW_SESSION_TICKET"
      \/ /\ e = "server"
         /\ st \in {"SW_ENCRYPTED_EXTENSIONS", "SW_SERVER_CERTIFICATE", "SW_CERT_VERIFY",
                    "SW_FINISHED", "SW_NEW_SESSION_TICKET"}
         /\ next \in {"SR_FINISHED", "SW_NEW_SESSION_TICKET", "SW_HANDSHAKE_DONE",
                      "SW_SERVER_CERTIFICATE", "SW_CERT_VERIFY", "SW_FINISHED"}
  BY <1>1, <1>3, <1>5 DEF Built
<1>7. /\ e = "client" => keys'[e].dec = keys[e].dec
      /\ e = "server" => keys'[e].enc["HANDSHAKE"] = keys[e].enc["HANDSHAKE"]
  <2>0. /\ keys \in [Ends -> KeyType] /\ keys[e].enc \in [Levels -> Transcripts]
    BY DEF TlsType, KeyType
  <2>1. CASE ClntFinishedBuild(e)
    <3>1. e = "client"
      <4>1. state[e] = "CW_FINISHED"
        BY <2>1 DEF ClntFinishedBuild, Builds
      <4> QED BY <1>4, <1>6, <4>1
    <3> QED BY <1>4, <2>1, <3>1, BuildKeys
  <2>2. CASE SrvrFinishedBuild(e)
    <3>1. e = "server"
      <4>1. state[e] = "SW_FINISHED"
        BY <2>2 DEF SrvrFinishedBuild, Builds
      <4> QED BY <1>4, <1>6, <4>1
    <3>2. PICK a, t : keys' = [keys EXCEPT ![e].dec = a, ![e].enc = Install(@, "1RTT", t)]
      BY <2>2 DEF SrvrFinishedBuild
    <3>3. keys'[e].enc = Install(keys[e].enc, "1RTT", t)
      BY <2>0, <3>2 DEF KeyType
    <3> QED BY <2>0, <3>1, <3>3 DEF Install, Levels
  <2>3. CASE ~ClntFinishedBuild(e) /\ ~SrvrFinishedBuild(e)
    BY <1>1, <1>4, <2>3, BuildKeys
  <2> QED BY <2>1, <2>2, <2>3
<1>8. wpkt'[e].level # "INITIAL"
  BY <1>4, <1>6, WriteLevels
<1>9. /\ ~Awaits(e)' /\ ~Unbuilt(e)'
      /\ state'[e] \notin {"OK", "CW_CLIENT_HELLO", "SR_CLIENT_HELLO", "SW_SERVER_HELLO"}
  BY <1>4, <1>6 DEF Awaits, Unbuilt
<1>10. ReadsHello(e)' /\ WritesHello(e)'
  BY <1>8, <1>9 DEF ReadsHello, WritesHello
<1>11. e = "server" => ServerHellos'
  BY <1>7, <1>9 DEF HelloInv, ServerHellos
<1>12. e = "client" => ClientHellos' /\ FirstFlight("client")'
  <2>1. SUFFICES ASSUME e = "client", FirstFlight(e), ClientHellos
                 PROVE  ClientHellos' /\ FirstFlight(e)'
    BY DEF HelloInv
  <2>2. state'[e] # "CR_SERVER_HELLO" /\ calls[e] # 0
    BY <1>4, <1>6, <2>1 DEF FirstFlight
  <2> QED BY <1>4, <1>7, <1>9, <2>1, <2>2 DEF ClientHellos, FirstFlight
<1> QED BY <1>4, <1>10, <1>11, <1>12 DEF HelloInv

\* Every step of an end keeps what it knows of its hellos.
LEMMA HelloStep ==
    ASSUME Inv, OneCall, NEW e \in Ends, Call(e) \/ Run(e) \/ Duplicate(e),
           HelloInv(e), SendsHellos(Peer(e))
    PROVE  HelloInv(e)'
<1>1. CallType /\ TlsType /\ BufType /\ NetType /\ CallInv /\ BufInv /\ KeyInv
  BY DEF Inv
<1>2. CASE Quiet(e)
  BY <1>1, <1>2, HelloQuiet
<1>3. CASE PreWork(e) /\ HasPreWork(e)
  BY <1>1, <1>3, HelloPreWork
<1>4. CASE RecvCrypto(e)
  BY <1>1, <1>4, HelloCrypto
<1>5. CASE FlowNothing(e) \/ FlowFinished(e) \/ ReadNothing(e) \/ Early(e) \/ HandlerFails(e)
  BY <1>1, <1>5, HelloTurns
<1>6. CASE Handler(e)
  BY <1>1, <1>6, HelloHandler
<1>7. CASE Writes(e)
  BY <1>1, <1>7, HelloWrites
<1>8. CASE TlsReturn(e)
  BY <1>1, <1>8, HelloReturn
<1> QED BY <1>2, <1>3, <1>4, <1>5, <1>6, <1>7, <1>8 DEF Run, Reads, Quiet, Early, Handler

\* The hellos of both ends.
HellosInv == \A e \in Ends : HelloInv(e) /\ SendsHellos(e)

LEMMA HellosInit == Init => HellosInv
<1> SUFFICES ASSUME Init, NEW e \in Ends PROVE HelloInv(e) /\ SendsHellos(e)
  BY DEF HellosInv
<1>1. /\ "client" \in Ends /\ "server" \in Ends /\ Peer(e) \in Ends /\ "HANDSHAKE" \in Levels
  BY DEF Ends, Peer, Levels
<1>2. \A S : <<>> \in Seq(S)
  OBVIOUS
<1>3. SendsHellos(e)
  BY <1>1, <1>2 DEF Init, SendsHellos
<1>4. ReadsHello(e) /\ WritesHello(e)
  BY <1>1 DEF Init, ReadsHello, WritesHello
<1>5. FirstFlight("client")
  BY <1>1 DEF Init, FirstFlight, Unbuilt
<1>6. ClientHellos /\ ServerHellos
  BY <1>1 DEF Init, ClientHellos, ServerHellos
<1>7. calls \in [Ends -> Nat]
  BY DEF Init
<1> QED BY <1>3, <1>4, <1>5, <1>6, <1>7 DEF HelloInv

\* A step of one end keeps what both know of theirs.
LEMMA HellosStep ==
    ASSUME Inv, OneCall, HellosFit, HellosInv, NEW e \in Ends, Call(e) \/ Run(e) \/ Duplicate(e)
    PROVE  HellosInv'
<1>1. CallType /\ TlsType /\ BufType /\ NetType /\ BufInv
  BY DEF Inv
<1>2. SUFFICES ASSUME NEW f \in Ends PROVE HelloInv(f)' /\ SendsHellos(f)'
  BY DEF HellosInv
<1>3. HelloInv(f) /\ SendsHellos(f) /\ HelloInv(e) /\ SendsHellos(e) /\ Peer(e) \in Ends
      /\ SendsHellos(Peer(e))
  BY <1>2 DEF HellosInv, Peer, Ends
<1>4. HelloInv(f)'
  <2>1. CASE f = e
    BY <1>3, <2>1, HelloStep
  <2>2. CASE f # e
    BY <1>1, <1>2, <1>3, <2>2, HelloOther
  <2> QED BY <2>1, <2>2
<1>5. SendsHellos(f)'
  BY <1>1, <1>2, <1>3, SendsHellosStep DEF HelloInv
<1> QED BY <1>4, <1>5

\* Nothing else changes it.
LEMMA HellosStutter ==
    ASSUME HellosInv, UNCHANGED vars
    PROVE  HellosInv'
<1>1. SUFFICES ASSUME NEW f \in Ends PROVE HelloInv(f)' /\ SendsHellos(f)'
  BY DEF HellosInv
<1>2. /\ UNCHANGED <<pc, phase, ok, ret, calls, statem, state, dgst>>
      /\ UNCHANGED <<buf, rpkt, wpkt, keys, txq, inq, net>>
  BY DEF vars, callVars, tlsVars, bufVars, netVars
<1>3. HelloInv(f) /\ SendsHellos(f)
  BY <1>1 DEF HellosInv
<1>4. SendsHellos(f)'
  BY <1>2, <1>3 DEF SendsHellos
<1>5. ReadsHello(f)' /\ WritesHello(f)'
  BY <1>2, <1>3 DEF HelloInv, ReadsHello, WritesHello, Awaits
<1>6. f = "client" => FirstFlight("client")' /\ ClientHellos'
  BY <1>2, <1>3 DEF HelloInv, FirstFlight, ClientHellos, Unbuilt
<1>7. f = "server" => ServerHellos'
  BY <1>2, <1>3 DEF HelloInv, ServerHellos, Awaits
<1> QED BY <1>2, <1>3, <1>4, <1>5, <1>6, <1>7 DEF HelloInv

\* The handshake keys of the two ends come from the same two hellos, whatever is lost,
\* repeated or reordered, when the application of the client calls once and a hello fits a
\* packet: QuicBufReserve keeps the ClientHello for TlsDigestCachedRecords.
THEOREM AgreesOnHandshakeKeys ==
    ASSUME OneCall, HellosFit
    PROVE  Spec => []HandshakeKeysAgree
<1>1. Inv /\ HellosInv /\ [Next]_vars => HellosInv'
  BY HellosStep, HellosStutter DEF Next
<1>2. HellosInv => HandshakeKeysAgree
  BY DEF HellosInv, HelloInv, ClientHellos, ServerHellos, HandshakeKeysAgree, Ends
<1> QED BY HellosInit, Invariant, <1>1, <1>2, PTL DEF Spec
=============================================================================
