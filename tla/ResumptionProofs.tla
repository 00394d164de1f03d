-------------------------- MODULE ResumptionProofs --------------------------
(* What resumption promises for every number of connections, every list of     *)
(* ciphers, groups and algorithms and every order of connecting, sharing,      *)
(* expiring, freeing and restarting: references are counted (SessionsCounted), *)
(* the ends agree (EndsAgree), offers verify (OffersAccepted), only tickets of *)
(* the running server are resumed (OwnTicketsOnly), and the transport          *)
(* parameters arrive (ParametersAgree).                                        *)
EXTENDS Resumption, NumberProofs, SequenceTheorems, FiniteSetTheorems

TlsFields == DOMAIN TlsNew
SessFields == DOMAIN NoSession
ClntFields == {"st", "tls", "session", "param", "offer"}
SrvrFields == {"st", "tls", "session", "nonce", "gen"}
ParamNames == IntParams \cup {"active_connection_id_limit"}

IsSeq(q) == q \in Seq(ToSet(q))

ClntKey(c) == TlsExtClntConstructKeyShare(c)

-----------------------------------------------------------------------------
(* The inductive invariant. *)

\* The records have their fields, and the lists are sequences.
ClntShape(c) ==
    /\ DOMAIN clnt[c] = ClntFields /\ DOMAIN clnt[c].tls = TlsFields
    /\ clnt[c].st \in {"none", "new", "sent", "hello", "ready", "error", "free"}
    /\ clnt[c].session \in Conns \cup {NoVal}

SrvrShape(c) ==
    /\ DOMAIN srvr[c] = SrvrFields /\ DOMAIN srvr[c].tls = TlsFields
    /\ srvr[c].tls.hit \in BOOLEAN

SessShape(c) ==
    /\ DOMAIN sess[c] = SessFields
    /\ sess[c].references \in Nat /\ sess[c].tick_identity \in Nat
    /\ IsSeq(sess[c].tickets)

ShapeInv ==
    /\ DOMAIN clnt = Conns /\ DOMAIN srvr = Conns /\ DOMAIN sess = Conns
    /\ held \in [Conns -> Nat] /\ DOMAIN up = Conns /\ DOMAIN down = Conns
    /\ gen \in Restarts \cup {0}
    /\ \A c \in Conns :
         /\ ClntShape(c) /\ SrvrShape(c) /\ SessShape(c)
         /\ IsSeq(up[c]) /\ IsSeq(down[c])

\* The session of a connection is made when the connection reads its
\* ServerHello; before that nobody points at it.
NotYetMade ==
    \A s \in Conns : clnt[s].st \in {"none", "new", "sent"} =>
        held[s] = 0 /\ \A c \in Conns : clnt[c].session # s

OwnersInv == RefsCountOwners /\ NotYetMade

\* The server end of d sealed what it knows under its key.
Sealed(d, key, secret) ==
    srvr[d].st # "none" /\ srvr[d].gen = key /\ srvr[d].tls.secret = secret

\* What a ticket holds: a session with its last ticket.
IsTicket(t) ==
    DOMAIN t.session = SessFields /\ IsSeq(t.session.tickets)

TicketKey(t) == Last(t.session.tickets).master_key

\* A ticket of a session has the master key the server will find in it, and
\* the server end that sealed it had the secret of that key.
GoodTicket(t) ==
    /\ IsTicket(t.ticket) /\ t.master_key = TicketKey(t.ticket)
    /\ \E d \in Conns : Sealed(d, t.ticket.key, t.master_key.secret)

TicketsInv ==
    \A s \in Conns :
        /\ Len(sess[s].tickets) <= sess[s].tick_identity
        /\ \A i \in 1 .. Len(sess[s].tickets) : GoodTicket(sess[s].tickets[i])

\* The same of an offer, whose ticket came from another connection.
OfferAt(c) ==
    clnt[c].offer # <<>> =>
        LET o == clnt[c].offer[1]
        IN  /\ clnt[c].offer = <<o>> /\ IsTicket(o.identity)
            /\ o.binder = PskSecret(o.binder.md, TicketKey(o.identity))
            /\ \E d \in Conns \ {c} :
                 Sealed(d, o.identity.key, TicketKey(o.identity).secret)

OffersInv == \A c \in Conns : OfferAt(c)

\* What the server wrote as its key share.
Share(tls) ==
    IF tls.peer_key = NoKey THEN <<>> ELSE << [group |-> tls.group, point |-> tls.key] >>

\* The messages on their way say what their senders hold.
UpMessage(c, m) ==
    /\ m.type = "client_hello" =>
         /\ clnt[c].st = "sent" /\ srvr[c].st = "none"
         /\ m.ciphers = ClntCiphers
         /\ m.ext = ClientHelloExt(c, clnt[c].param, clnt[c].offer)
    /\ m.type # "client_hello" => clnt[c].st \in {"ready", "free"}

DownMessage(c, m) ==
    /\ m.type = "server_hello" =>
         /\ m.cipher = srvr[c].tls.cipher
         /\ m.ext = ServerHelloExt(srvr[c].tls, Share(srvr[c].tls))
    /\ m.type = "encrypted_ext" => m.ext = EncryptedExt(srvr[c].tls, c)
    /\ m.type = "ticket" =>
         /\ IsTicket(m.ticket) /\ m.ticket.key = srvr[c].gen
         /\ TicketKey(m.ticket) = MasterKeyGen(srvr[c].tls, m.nonce)

MessagesAt(c) ==
    /\ Len(up[c]) <= 1
    /\ up[c] # <<>> => UpMessage(c, up[c][1])
    /\ down[c] # <<>> => srvr[c].st # "none" /\ srvr[c].tls.ok
    /\ \A i \in 1 .. Len(down[c]) : DownMessage(c, down[c][i])

MessagesInv == \A c \in Conns : MessagesAt(c)

\* The integer parameters of the peer, as they were set.
Applies(tls, param) == \A p \in IntParams : tls.param[p] = param[p]

ZeroParams(tls) ==
    DOMAIN tls.param = ParamNames /\ \A p \in IntParams : tls.param[p] = 0

\* The client in each of its states.
ClientAt(c) ==
    LET t == clnt[c].tls
    IN  /\ clnt[c].st \in {"none", "new"} =>
             /\ t = TlsNew /\ clnt[c].offer = <<>>
             /\ srvr[c].st = "none" /\ up[c] = <<>>
        /\ clnt[c].st = "sent" =>
             /\ t.ok = TRUE /\ t.hit = FALSE /\ t.secret = NoVal
             /\ t.key = ClntKey(c) /\ t.group = ClntGroups[1]
             /\ ZeroParams(t)
             /\ clnt[c].offer # <<>> =>
                  /\ t.early = clnt[c].offer[1].binder
                  /\ clnt[c].session \in Conns
                  /\ sess[clnt[c].session].tick_identity > 0
        /\ clnt[c].st \in {"hello", "ready"} =>
             /\ clnt[c].session \in Conns
             /\ srvr[c].st # "none" /\ srvr[c].tls.ok
             /\ t.secret = srvr[c].tls.secret /\ t.hit = srvr[c].tls.hit
             /\ t.cipher = srvr[c].tls.cipher /\ t.group = ClntGroups[1]
        /\ clnt[c].st = "hello" => t.ok = TRUE /\ ZeroParams(t) /\ up[c] = <<>>
        /\ clnt[c].st = "ready" => Applies(t, SrvrParam)

ClientInv == \A c \in Conns : ClientAt(c)

\* The secret of an end that knows both shares.
Derived(tls) ==
    TlsGenerateSecret(tls_ciphers[tls.cipher],
                      IF tls.hit THEN tls.early
                      ELSE TlsGenerateSecret(tls_ciphers[tls.cipher], NoVal, NoVal),
                      {tls.key, tls.peer_key})

\* The server once it has answered, and where it resumed.
ServerAt(c) ==
    LET t == srvr[c].tls
    IN  /\ srvr[c].st = "none" => ~t.hit
        /\ t.hit =>
             /\ clnt[c].offer # <<>> /\ t.identity = 0
             /\ t.early = clnt[c].offer[1].binder
             /\ clnt[c].offer[1].identity.key = srvr[c].gen
        /\ srvr[c].st # "none" /\ t.ok =>
             /\ IF t.peer_key = NoKey
                THEN t.secret = NoVal /\ ClntGroups[1] \notin ToSet(SrvrGroups)
                ELSE /\ t.peer_key = ClntKey(c) /\ t.group = ClntGroups[1]
                     /\ t.secret = Derived(t)
             /\ Applies(t, clnt[c].param)
        /\ srvr[c].st \in {"flight", "done"} => t.ok
        /\ srvr[c].st = "flight" =>
             DOMAIN srvr[c].session = SessFields /\ IsSeq(srvr[c].session.tickets)

ServerInv == \A c \in Conns : ServerAt(c)

\* Both ends have a cipher in common in every generation, the client's share is
\* of a group the server supports, and there is a certificate for some
\* signature algorithm of both.
Compatible ==
    /\ \A g \in Restarts \cup {0} : ToSet(SrvrCiphers[g]) \cap ToSet(ClntCiphers) # {}
    /\ ClntGroups[1] \in ToSet(SrvrGroups)
    /\ ToSet(ClntSigAlgs) \cap ToSet(SrvrSigAlgs) \cap CertAlgs # {}

Inv ==
    /\ ShapeInv /\ OwnersInv /\ TicketsInv /\ OffersInv
    /\ MessagesInv /\ ClientInv /\ ServerInv

-----------------------------------------------------------------------------
(* Sequences and the fields of the records. *)

LEMMA SeqFacts ==
    ASSUME NEW q, IsSeq(q)
    PROVE  /\ Len(q) \in Nat /\ DOMAIN q = 1 .. Len(q)
           /\ q = <<>> <=> Len(q) = 0
           /\ q # <<>> => Head(q) = q[1] /\ Len(q) >= 1
<1> DEFINE S == ToSet(q)
<1>1. q \in Seq(S)
  BY DEF IsSeq
<1> HIDE DEF S
<1> QED BY <1>1

LEMMA NothingIsSeq == IsSeq(<<>>)
<1>1. <<>> \in Seq(ToSet(<<>>))
  BY EmptySeq
<1> QED BY <1>1 DEF IsSeq

LEMMA OneSeq == \A e : IsSeq(<<e>>) /\ Len(<<e>>) = 1 /\ Last(<<e>>) = e /\ <<e>> # <<>>
<1> SUFFICES ASSUME NEW e PROVE IsSeq(<<e>>) /\ Len(<<e>>) = 1 /\ Last(<<e>>) = e /\ <<e>> # <<>>
  OBVIOUS
<1>1. e \in ToSet(<<e>>)
  <2>1. 1 \in DOMAIN <<e>> /\ <<e>>[1] = e
    OBVIOUS
  <2> QED BY <2>1 DEF ToSet
<1>2. \A S : e \in S => <<e>> \in Seq(S)
  OBVIOUS
<1> QED BY <1>1, <1>2 DEF IsSeq, Last

\* A sequence over any set is one over the set of its elements.
LEMMA SeqIsSeq == ASSUME NEW S, NEW q \in Seq(S) PROVE IsSeq(q)
<1>1. q \in [1 .. Len(q) -> ToSet(q)]
  BY DEF ToSet
<1>2. Len(q) \in Nat
  OBVIOUS
<1> QED BY <1>1, <1>2, SeqDef DEF IsSeq

LEMMA AppendFacts ==
    ASSUME NEW q, IsSeq(q), NEW e
    PROVE  /\ IsSeq(Append(q, e)) /\ Len(Append(q, e)) = Len(q) + 1
           /\ \A i \in 1 .. Len(q) : Append(q, e)[i] = q[i]
           /\ Append(q, e)[Len(q) + 1] = e /\ Last(Append(q, e)) = e
           /\ Append(q, e) # <<>>
<1> DEFINE S == ToSet(q) \cup {e}
<1>1. q \in Seq(S)
  <2>1. q \in [1 .. Len(q) -> S] /\ Len(q) \in Nat
    BY SeqFacts DEF ToSet, IsSeq
  <2> QED BY <2>1, SeqDef
<1>2. e \in S
  OBVIOUS
<1> HIDE DEF S
<1>3. Append(q, e) \in Seq(S)
  BY <1>1, <1>2
<1>4. Len(Append(q, e)) = Len(q) + 1 /\ Append(q, e)[Len(q) + 1] = e
  BY <1>1, <1>2
<1>5. \A i \in 1 .. Len(q) : Append(q, e)[i] = q[i]
  BY <1>1, <1>2
<1>6. IsSeq(Append(q, e))
  BY <1>3, SeqIsSeq
<1>7. Append(q, e) # <<>>
  BY <1>1, <1>2, AppendProperties
<1> QED BY <1>4, <1>5, <1>6, <1>7 DEF Last

LEMMA TailFacts ==
    ASSUME NEW q, IsSeq(q), q # <<>>
    PROVE  /\ IsSeq(Tail(q)) /\ Len(Tail(q)) = Len(q) - 1
           /\ \A i \in 1 .. Len(Tail(q)) : Tail(q)[i] = q[i + 1] /\ i + 1 \in 1 .. Len(q)
<1> DEFINE S == ToSet(q)
<1>1. q \in Seq(S)
  BY DEF IsSeq
<1> HIDE DEF S
<1>2. Tail(q) \in Seq(S) /\ Len(Tail(q)) = Len(q) - 1
  BY <1>1
<1>3. \A i \in 1 .. Len(Tail(q)) : Tail(q)[i] = q[i + 1]
  BY <1>1
<1>4. IsSeq(Tail(q))
  BY <1>2, SeqIsSeq
<1>5. Len(q) \in Nat
  BY <1>1
<1> QED BY <1>2, <1>3, <1>4, <1>5

LEMMA SubSeqFacts ==
    ASSUME NEW q, IsSeq(q), NEW m \in 1 .. Len(q)
    PROVE  /\ IsSeq(SubSeq(q, m, Len(q))) /\ Len(SubSeq(q, m, Len(q))) = Len(q) - m + 1
           /\ \A i \in 1 .. Len(q) - m + 1 :
                SubSeq(q, m, Len(q))[i] = q[m + i - 1] /\ m + i - 1 \in 1 .. Len(q)
<1> DEFINE S == ToSet(q)
<1>1. q \in Seq(S)
  BY DEF IsSeq
<1> HIDE DEF S
<1>4. Len(q) \in Nat /\ \A i \in m .. Len(q) : q[i] \in S
  BY <1>1
<1>2. SubSeq(q, m, Len(q)) \in Seq(S) /\ Len(SubSeq(q, m, Len(q))) = Len(q) - m + 1
  BY <1>1, <1>4, SubSeqProperties
<1>3. \A i \in 1 .. Len(q) - m + 1 : SubSeq(q, m, Len(q))[i] = q[m + i - 1]
  BY <1>1, <1>4, SubSeqProperties
<1>5. IsSeq(SubSeq(q, m, Len(q)))
  BY <1>2, SeqIsSeq
<1> QED BY <1>2, <1>3, <1>4, <1>5

LEMMA MinFacts == ASSUME NEW S, S \subseteq Nat, S # {} PROVE Min(S) \in S
BY Least DEF Min

LEMMA FieldFacts ==
    /\ TlsFields = {"ok", "cipher", "hit", "early", "secret", "key", "peer_key", "group",
         "peer_groups", "peer_sigalgs", "sigalg", "alpn_sent", "alpn_selected", "identity",
         "hostname", "psk_dhe", "param"}
    /\ SessFields = {"references", "cipher", "tickets", "tick_identity", "max_early_data"}
BY DEF TlsFields, SessFields, TlsNew, NoSession, QuicSessionCreate

LEMMA TlsNewFacts ==
    /\ DOMAIN TlsNew = TlsFields /\ TlsNew.ok /\ ~TlsNew.hit /\ TlsNew.secret = NoVal
    /\ TlsNew.peer_key = NoKey /\ TlsNew.identity = 0 /\ ZeroParams(TlsNew)
    /\ TlsNew.ok = TRUE /\ TlsNew.hit = FALSE
BY DEF TlsFields, TlsNew, ZeroParams, ParamNames, IntParams

LEMMA SessionFacts ==
    /\ DOMAIN NoSession = SessFields /\ NoSession.references = 0
    /\ NoSession.tickets = <<>> /\ NoSession.tick_identity = 0
    /\ \A x : /\ DOMAIN QuicSessionCreate(x) = SessFields
              /\ QuicSessionCreate(x).references = 1 /\ QuicSessionCreate(x).tickets = <<>>
              /\ QuicSessionCreate(x).tick_identity = 0
BY DEF SessFields, NoSession, QuicSessionCreate

-----------------------------------------------------------------------------
(* The parsers, row by row. *)

\* u is the TLS record t but for some fields.
Keeps(t, u, changed) ==
    DOMAIN u = TlsFields /\ \A f \in TlsFields \ changed : u[f] = t[f]

LEMMA KeepsAll == ASSUME NEW t, DOMAIN t = TlsFields PROVE \A C : Keeps(t, t, C)
BY DEF Keeps

LEMMA FailFacts ==
    ASSUME NEW t, DOMAIN t = TlsFields
    PROVE  Fail(t).ok = FALSE /\ Keeps(t, Fail(t), {"ok"})
BY FieldFacts DEF Fail, Keeps

LEMMA ListsFacts ==
    ASSUME NEW t, DOMAIN t = TlsFields, NEW c, NEW param, NEW psk
    PROVE  LET u == TlsExtSrvrParseLists(t, ClientHelloExt(c, param, psk))
           IN  /\ Keeps(t, u, {"hostname", "peer_groups", "peer_sigalgs"})
               /\ u.peer_groups = ClntGroups /\ u.peer_sigalgs = ClntSigAlgs
<1> DEFINE h == ClientHelloExt(c, param, psk)
<1>1. h.supported_groups = <<ClntGroups>> /\ h.signature_algorithms = <<ClntSigAlgs>>
  BY DEF ClientHelloExt
<1>2. <<ClntGroups>> # <<>> /\ <<ClntSigAlgs>> # <<>>
  OBVIOUS
<1> DEFINE u == TlsExtSrvrParseLists(t, h)
           n == IF h.server_name = <<>> THEN t.hostname ELSE h.server_name[1]
<1>3. u = [t EXCEPT !.hostname = n, !.peer_groups = ClntGroups, !.peer_sigalgs = ClntSigAlgs]
  BY <1>1, <1>2 DEF TlsExtSrvrParseLists
<1> HIDE DEF n, u
<1> QED BY <1>3, FieldFacts DEF Keeps, u

LEMMA SrvrAlpnFacts ==
    ASSUME NEW t, DOMAIN t = TlsFields, NEW protos
    PROVE  Keeps(t, TlsExtSrvrParseAlpn(t, protos), {"alpn_selected"})
BY FieldFacts DEF TlsExtSrvrParseAlpn, Keeps

LEMMA VersionFacts ==
    ASSUME NEW t, DOMAIN t = TlsFields
    PROVE  TlsParseSupportedVersion(t, <<"TLS 1.3">>) = t
BY DEF TlsParseSupportedVersion, Reads

LEMMA ModesFacts ==
    ASSUME NEW t, DOMAIN t = TlsFields, t.ok
    PROVE  Keeps(t, TlsExtSrvrParseKeyExchModes(t, << {"DHE"} >>), {"psk_dhe"})
BY FieldFacts DEF TlsExtSrvrParseKeyExchModes, Reads, Keeps

\* The client's one share is of the first group it lists.
LEMMA SrvrKeyShareFacts ==
    ASSUME NEW t, DOMAIN t = TlsFields, t.ok, t.peer_groups = ClntGroups, NEW c
    PROVE  LET u == TlsExtSrvrParseKeyShare(t, << << [group |-> ClntGroups[1],
                                                      point |-> ClntKey(c)] >> >>)
           IN  IF ClntGroups[1] \in ToSet(SrvrGroups)
               THEN /\ Keeps(t, u, {"peer_key", "group"})
                    /\ u.peer_key = ClntKey(c) /\ u.group = ClntGroups[1]
               ELSE u = t
<1> DEFINE s == [group |-> ClntGroups[1], point |-> ClntKey(c)]
           list == <<s>>
           found == {i \in DOMAIN list : list[i].group \in ToSet(SrvrGroups)}
           seen == {j \in DOMAIN list : \A i \in found : j <= i}
           u == TlsExtSrvrParseKeyShare(t, <<list>>)
<1>1. s.group = ClntGroups[1] /\ s.point = ClntKey(c) /\ s.point.curve = ClntGroups[1]
  BY DEF ClntKey, TlsExtClntConstructKeyShare
<1>2. DOMAIN list = {1} /\ list[1] = s
  <2> HIDE DEF s
  <2> QED OBVIOUS
<1>3. ClntGroups[1] \in ToSet(ClntGroups) /\ ClntGroups # <<>>
  BY ExtensionsAssumption DEF ToSet
<1>4. \A j \in seen : list[j].group \in ToSet(t.peer_groups)
  BY <1>1, <1>2, <1>3
<1>5. <<list>>[1] = list /\ Reads(t, <<list>>)
  <2> HIDE DEF list
  <2> QED BY DEF Reads
<1>6. t.peer_groups # <<>>
  BY <1>3
<1>7. CASE ClntGroups[1] \in ToSet(SrvrGroups)
  <2>1. found = {1}
    BY <1>1, <1>2, <1>7
  <2>2. Min(found) = 1
    BY <2>1, MinFacts
  <2>3. found # {}
    BY <2>1
  <2>4. list[Min(found)] = s
    BY <2>2, <1>2
  <2>5. u = [t EXCEPT !.peer_key = s.point, !.group = s.group]
    <3> HIDE DEF s, list, found
    <3> QED BY <1>1, <1>4, <1>5, <1>6, <2>3, <2>4 DEF TlsExtSrvrParseKeyShare, list, found
  <2>6. u = [t EXCEPT !.peer_key = ClntKey(c), !.group = ClntGroups[1]]
    <3> HIDE DEF u, s
    <3> QED BY <1>1, <2>5
  <2> DEFINE v == [t EXCEPT !.peer_key = ClntKey(c), !.group = ClntGroups[1]]
  <2>7. /\ Keeps(t, v, {"peer_key", "group"})
        /\ v.peer_key = ClntKey(c) /\ v.group = ClntGroups[1]
    BY FieldFacts DEF Keeps
  <2>8. u = v
    BY <2>6
  <2> HIDE DEF u, v
  <2> QED BY <1>7, <2>7, <2>8 DEF u
<1>8. CASE ClntGroups[1] \notin ToSet(SrvrGroups)
  <2>1. found = {}
    BY <1>1, <1>2, <1>8
  <2>2. u = t
    <3> HIDE DEF s
    <3> QED BY <1>4, <1>5, <1>6, <2>1 DEF TlsExtSrvrParseKeyShare
  <2> QED BY <2>2, <1>8
<1> QED BY <1>7, <1>8

\* What one end sends of its parameters is what the other applies: zero is not
\* sent and is the value before.
LEMMA QtpFacts ==
    ASSUME NEW t, DOMAIN t = TlsFields, t.ok, ZeroParams(t), NEW c, NEW param,
           NEW server \in BOOLEAN, NEW mine, NEW peer, NEW dcid, server => dcid = c,
           IntParams \subseteq mine, IntParams \subseteq peer, NEW u,
           u = TlsParseQtp(t, mine, << TlsConstructQtpExtension(peer, param, c) >>,
                           server, dcid)
    PROVE  /\ Keeps(t, u, {"param"}) /\ DOMAIN u.param = ParamNames
           /\ Applies(u, param)
<1> DEFINE msg == TlsConstructQtpExtension(peer, param, c)
           read == DOMAIN msg \cap mine \cap trans_param_definition
           v == [t EXCEPT !.param = [p \in DOMAIN t.param |->
                                       IF p \in read \cap IntParams THEN msg[p]
                                       ELSE t.param[p]]]
<1>0. IntParams \subseteq trans_param_definition /\ IntParams \subseteq ParamNames
      /\ "stateless_reset_token" \notin IntParams
      /\ "initial_source_connection_id" \notin IntParams
  BY DEF trans_param_definition, ParamNames, IntParams
<1>1. \A p \in IntParams : p \in DOMAIN msg <=> param[p] # 0
  BY <1>0 DEF TlsConstructQtpExtension, TlsExtQtpCheckInteger
<1>2. \A p \in IntParams \cap DOMAIN msg : msg[p] = param[p]
  BY DEF TlsConstructQtpExtension
<1>3. \A p \in DOMAIN msg \ IntParams : msg[p] = c
  BY DEF TlsConstructQtpExtension
<1>9. u = TlsParseQtp(t, mine, <<msg>>, server, dcid)
  OBVIOUS
<1> HIDE DEF msg
<1>4. u = v
  <2>1. Reads(t, <<msg>>) /\ <<msg>>[1] = msg
    BY DEF Reads
  <2>2. u = TlsParseQtpExtension(t, mine, msg, server, dcid)
    BY <2>1, <1>9 DEF TlsParseQtp
  <2>3. CASE ~ (server /\ "initial_source_connection_id" \in read)
    BY <2>2, <2>3 DEF TlsParseQtpExtension
  <2>4. CASE server /\ "initial_source_connection_id" \in read
    <3>1. msg["initial_source_connection_id"] = dcid
      BY <2>4, <1>0, <1>3
    <3>2. u = TlsExtQtpParseSourceConnId(v, msg["initial_source_connection_id"], dcid)
      BY <2>2, <2>4 DEF TlsParseQtpExtension
    <3> QED BY <3>1, <3>2 DEF TlsExtQtpParseSourceConnId
  <2> QED BY <2>3, <2>4
<1>5. DOMAIN v = TlsFields /\ \A f \in TlsFields \ {"param"} : v[f] = t[f]
  OBVIOUS
<1>6. v.param = [p \in ParamNames |-> IF p \in read \cap IntParams THEN msg[p] ELSE t.param[p]]
  BY FieldFacts DEF ZeroParams
<1>7. \A p \in IntParams : v.param[p] = param[p]
  <2> SUFFICES ASSUME NEW p \in IntParams PROVE v.param[p] = param[p]
    OBVIOUS
  <2>1. v.param[p] = IF p \in read \cap IntParams THEN msg[p] ELSE t.param[p]
    BY <1>0, <1>6
  <2>2. p \in read <=> param[p] # 0
    BY <1>0, <1>1
  <2> QED BY <2>1, <2>2, <1>2 DEF ZeroParams
<1>8. DOMAIN v.param = ParamNames
  BY <1>6
<1> HIDE DEF v
<1> QED BY <1>4, <1>5, <1>7, <1>8 DEF Keeps, Applies

\* The binder of an offer is what the session in its ticket calls for, and the
\* digest is one the connection can use.
Verifies(psk, cipher) ==
    LET md == tls_ciphers[psk.identity.session.cipher]
    IN  md = tls_ciphers[cipher] /\ psk.binder = PskSecret(md, TicketKey(psk.identity))

\* The ticket is taken up, passed over or refused.
Resumed(t, u, psk, key) ==
    /\ Keeps(t, u, {"early", "hit", "identity"}) /\ u.hit = TRUE /\ u.identity = 0
    /\ u.early = psk.binder /\ psk.identity.key = key

LEMMA PskFacts ==
    ASSUME NEW t, DOMAIN t = TlsFields, t.ok, NEW psks, NEW key,
           NEW r, r = TlsExtsrvrParsePsk(t, psks, key), NEW psk, psk = psks[1]
    PROVE  \/ r.tls = t /\ r.sess = <<>>
           \/ r.tls = Fail(t) /\ r.sess = <<>> /\ psks # <<>> /\ ~Verifies(psk, t.cipher)
           \/ /\ psks # <<>> /\ Resumed(t, r.tls, psk, key)
              /\ r.sess # <<>> /\ r.sess[1] = psk.identity.session
<1> DEFINE i == psk.identity
           md == tls_ciphers[i.session.cipher]
           want == PskSecret(md, TicketKey(i))
<1>1. CASE ~Reads(t, psks) \/ i.key # key
  BY <1>1 DEF TlsExtsrvrParsePsk, TlsDecryptTicket
<1>2. CASE Reads(t, psks) /\ i.key = key
  <2>1. TlsDecryptTicket(i, key) = <<i.session>> /\ <<i.session>> # <<>>
        /\ <<i.session>>[1] = i.session
    BY <1>2 DEF TlsDecryptTicket
  <2>2. r = IF md # tls_ciphers[t.cipher] \/ psk.binder # want
            THEN [tls |-> Fail(t), sess |-> <<>>]
            ELSE [tls |-> [t EXCEPT !.early = want, !.hit = TRUE, !.identity = 0],
                  sess |-> <<i.session>>]
    BY <1>2, <2>1 DEF TlsExtsrvrParsePsk, TicketKey
  <2>3. psks # <<>>
    BY <1>2 DEF Reads
  <2>4. CASE md # tls_ciphers[t.cipher] \/ psk.binder # want
    BY <2>2, <2>3, <2>4 DEF Verifies
  <2>5. CASE ~ (md # tls_ciphers[t.cipher] \/ psk.binder # want)
    <3> DEFINE w == [t EXCEPT !.early = want, !.hit = TRUE, !.identity = 0]
    <3>1. r.tls = w /\ r.sess = <<i.session>>
      BY <2>2, <2>5
    <3>2. w.early = want /\ w.hit = TRUE /\ w.identity = 0
          /\ Keeps(t, w, {"early", "hit", "identity"})
      BY FieldFacts DEF Keeps
    <3> HIDE DEF w
    <3>3. Resumed(t, r.tls, psk, key)
      BY <1>2, <2>5, <3>1, <3>2 DEF Resumed
    <3> QED BY <2>1, <2>3, <3>1, <3>3
  <2> QED BY <2>4, <2>5
<1> QED BY <1>1, <1>2

\* What the server knows of a hello of c before it looks at the ticket.
Heard(t, c, param, cipher) ==
    /\ DOMAIN t = TlsFields /\ t.ok = TRUE /\ t.hit = FALSE /\ t.cipher = cipher
    /\ t.secret = NoVal /\ t.peer_sigalgs = ClntSigAlgs /\ Applies(t, param)
    /\ IF ClntGroups[1] \in ToSet(SrvrGroups)
       THEN t.peer_key = ClntKey(c) /\ t.group = ClntGroups[1]
       ELSE t.peer_key = NoKey

LEMMA SrvrParseFacts ==
    ASSUME NEW c, NEW param, NEW psk, NEW key, NEW x,
           NEW t0, Keeps(TlsNew, t0, {"cipher"}), t0.cipher = x,
           NEW h, h = ClientHelloExt(c, param, psk),
           NEW r, r = TlsSrvrParseExtensions(t0, h, c, key)
    PROVE  \E t : Heard(t, c, param, x) /\ r = TlsExtsrvrParsePsk(t, psk, key)
<1> DEFINE share == << << [group |-> ClntGroups[1], point |-> ClntKey(c)] >> >>
           msg == << TlsConstructQtpExtension(client_transport_param, param, c) >>
           t1 == TlsExtSrvrParseLists(t0, h)
           t2 == TlsExtSrvrParseAlpn(t1, h.alpn)
           t3 == TlsParseSupportedVersion(t2, h.supported_versions)
           t4 == TlsExtSrvrParseKeyExchModes(t3, h.psk_key_exchange_modes)
           t5 == TlsExtSrvrParseKeyShare(t4, h.key_share)
           t6 == TlsParseQtp(t5, server_transport_param, h.quic_trans_params, TRUE, c)
<1>1. /\ h.supported_versions = <<"TLS 1.3">> /\ h.psk_key_exchange_modes = << {"DHE"} >>
      /\ h.key_share = share /\ h.quic_trans_params = msg /\ h.pre_shared_key = psk
  BY DEF ClientHelloExt, ClntKey
<1>2. TlsSrvrParseExtensions(t0, h, c, key) = TlsExtsrvrParsePsk(t6, h.pre_shared_key, key)
  BY DEF TlsSrvrParseExtensions
<1>3. Keeps(TlsNew, t0, {"cipher"}) /\ t0.cipher = x
  OBVIOUS
<1>4. Keeps(t0, t1, {"hostname", "peer_groups", "peer_sigalgs"})
      /\ t1.peer_groups = ClntGroups /\ t1.peer_sigalgs = ClntSigAlgs
  BY <1>3, ListsFacts DEF Keeps
<1> HIDE DEF t1
<1>5. Keeps(t1, t2, {"alpn_selected"})
  BY <1>4, SrvrAlpnFacts DEF Keeps
<1> HIDE DEF t2
<1>6. t3 = t2
  BY <1>1, <1>5, VersionFacts DEF Keeps
<1> HIDE DEF t3
<1>7. t3.ok = TRUE /\ DOMAIN t3 = TlsFields /\ ZeroParams(t3) /\ t3.hit = FALSE /\ t3.cipher = x
      /\ t3.secret = NoVal /\ t3.peer_sigalgs = ClntSigAlgs /\ t3.peer_groups = ClntGroups
      /\ t3.peer_key = NoKey
  BY <1>3, <1>4, <1>5, <1>6, TlsNewFacts, FieldFacts DEF Keeps, ZeroParams
<1>8. Keeps(t3, t4, {"psk_dhe"})
  BY <1>1, <1>7, ModesFacts
<1> HIDE DEF t4
<1>9. t4.ok = TRUE /\ DOMAIN t4 = TlsFields /\ ZeroParams(t4) /\ t4.hit = FALSE /\ t4.cipher = x
      /\ t4.secret = NoVal /\ t4.peer_sigalgs = ClntSigAlgs /\ t4.peer_groups = ClntGroups
      /\ t4.peer_key = NoKey
  BY <1>7, <1>8, FieldFacts DEF Keeps, ZeroParams
<1>10. IF ClntGroups[1] \in ToSet(SrvrGroups)
       THEN Keeps(t4, t5, {"peer_key", "group"}) /\ t5.peer_key = ClntKey(c) /\ t5.group = ClntGroups[1]
       ELSE t5 = t4
  <2>1. t5 = TlsExtSrvrParseKeyShare(t4, share)
    BY <1>1
  <2> HIDE DEF t5
  <2> QED BY <1>9, <2>1, SrvrKeyShareFacts
<1> HIDE DEF t5
<1>11. t5.ok = TRUE /\ DOMAIN t5 = TlsFields /\ ZeroParams(t5) /\ t5.hit = FALSE /\ t5.cipher = x
       /\ t5.secret = NoVal /\ t5.peer_sigalgs = ClntSigAlgs
       /\ IF ClntGroups[1] \in ToSet(SrvrGroups)
          THEN t5.peer_key = ClntKey(c) /\ t5.group = ClntGroups[1] ELSE t5.peer_key = NoKey
  BY <1>9, <1>10, FieldFacts DEF Keeps, ZeroParams
<1>12. IntParams \subseteq server_transport_param /\ IntParams \subseteq client_transport_param
  BY DEF server_transport_param, client_transport_param
<1>13. Keeps(t5, t6, {"param"}) /\ Applies(t6, param)
  <2>1. t6 = TlsParseQtp(t5, server_transport_param, msg, TRUE, c)
    BY <1>1
  <2> HIDE DEF t6
  <2>2. t5.ok /\ TRUE \in BOOLEAN /\ (TRUE => c = c)
    BY <1>11
  <2>3. DOMAIN t5 = TlsFields /\ ZeroParams(t5)
    BY <1>11
  <2> QED BY <1>12, <2>1, <2>2, <2>3, QtpFacts
<1> HIDE DEF t6
<1>14. t6.ok = TRUE /\ DOMAIN t6 = TlsFields /\ t6.hit = FALSE /\ t6.cipher = x
       /\ t6.secret = NoVal /\ t6.peer_sigalgs = ClntSigAlgs
       /\ IF ClntGroups[1] \in ToSet(SrvrGroups)
          THEN t6.peer_key = ClntKey(c) /\ t6.group = ClntGroups[1] ELSE t6.peer_key = NoKey
  BY <1>11, <1>13, FieldFacts DEF Keeps
<1>15. Heard(t6, c, param, x)
  BY <1>13, <1>14 DEF Heard
<1>16. r = TlsExtsrvrParsePsk(t6, psk, key)
  BY <1>1, <1>2
<1> QED BY <1>15, <1>16

LEMMA FirstFacts ==
    ASSUME NEW s, IsSeq(s), NEW T, First(s, T) = NoVal, NoVal \notin T
    PROVE  ToSet(s) \cap T = {}
<1> DEFINE found == {i \in DOMAIN s : s[i] \in T}
<1>1. found \subseteq Nat
  BY SeqFacts
<1>2. ASSUME found # {} PROVE FALSE
  <2>1. Min(found) \in found
    BY <1>1, <1>2, MinFacts
  <2> HIDE DEF found
  <2>2. First(s, T) = s[Min(found)]
    BY <1>2 DEF First, found
  <2> QED BY <2>1, <2>2 DEF found
<1> QED BY <1>2 DEF ToSet

LEMMA DeriveFacts ==
    ASSUME NEW t, DOMAIN t = TlsFields, NEW mine, NEW peer, NEW u,
           u = TlsKeyDerive(t, mine, peer)
    PROVE  /\ Keeps(t, u, {"early", "secret"})
           /\ t.hit => u.early = t.early
           /\ u.secret = TlsGenerateSecret(tls_ciphers[t.cipher],
                            IF t.hit THEN t.early
                            ELSE TlsGenerateSecret(tls_ciphers[t.cipher], NoVal, NoVal),
                            {mine, peer})
BY FieldFacts DEF TlsKeyDerive, Keeps

LEMMA KeyFacts == ASSUME NEW c PROVE ClntKey(c) # NoKey
BY DEF ClntKey, TlsExtClntConstructKeyShare, NoKey

\* The server's answer to a share.
LEMMA SrvrShareFacts ==
    ASSUME NEW a, DOMAIN a = TlsFields, NEW c, NEW b, b = TlsExtSrvrConstructKeyShare(a, c)
    PROVE  /\ Keeps(a, b.tls, {"key", "early", "secret"})
           /\ b.share = Share(b.tls)
           /\ a.hit => b.tls.early = a.early
           /\ b.tls.secret = IF a.peer_key = NoKey THEN a.secret ELSE Derived(b.tls)
<1>1. CASE a.peer_key = NoKey
  <2>1. b.tls = a /\ b.share = <<>>
    BY <1>1 DEF TlsExtSrvrConstructKeyShare
  <2> QED BY <1>1, <2>1, KeepsAll DEF Share
<1>2. CASE a.peer_key # NoKey
  <2> DEFINE key == [curve |-> a.peer_key.curve, owner |-> <<"server", c>>]
             u == [a EXCEPT !.key = key]
             v == TlsKeyDerive(u, key, a.peer_key)
  <2>1. b.tls = v /\ b.share = << [group |-> a.group, point |-> key] >>
    BY <1>2 DEF TlsExtSrvrConstructKeyShare
  <2> HIDE DEF key
  <2>2. u.key = key /\ Keeps(a, u, {"key"})
    BY FieldFacts DEF Keeps
  <2> HIDE DEF u
  <2>3. /\ Keeps(u, v, {"early", "secret"}) /\ (u.hit => v.early = u.early)
        /\ v.secret = TlsGenerateSecret(tls_ciphers[u.cipher],
                         IF u.hit THEN u.early
                         ELSE TlsGenerateSecret(tls_ciphers[u.cipher], NoVal, NoVal),
                         {key, a.peer_key})
    <3>1. DOMAIN u = TlsFields /\ v = TlsKeyDerive(u, key, a.peer_key)
      BY <2>2 DEF Keeps
    <3> HIDE DEF v
    <3> QED BY <3>1, DeriveFacts
  <2> HIDE DEF v
  <2>4. /\ Keeps(a, v, {"key", "early", "secret"}) /\ v.key = key
        /\ v.cipher = u.cipher /\ v.hit = u.hit /\ v.peer_key = a.peer_key /\ v.group = a.group
        /\ u.hit = a.hit /\ u.early = a.early
    BY <2>2, <2>3, FieldFacts DEF Keeps
  <2>5. v.secret = Derived(v)
    BY <2>3, <2>4 DEF Derived
  <2>6. b.share = Share(v)
    BY <1>2, <2>1, <2>4 DEF Share
  <2> QED BY <1>2, <2>1, <2>3, <2>4, <2>5, <2>6
<1> QED BY <1>1, <1>2

LEMMA ClntPskFacts ==
    ASSUME NEW t, DOMAIN t = TlsFields, NEW ids, NEW session
    PROVE  Keeps(t, TlsExtClntParsePreSharedKey(t, ids, session), {"hit", "ok"})
BY FieldFacts DEF TlsExtClntParsePreSharedKey, Fail, Keeps

LEMMA ClntAlpnFacts ==
    ASSUME NEW t, DOMAIN t = TlsFields, NEW protos
    PROVE  Keeps(t, TlsExtClntParseAlpn(t, protos), {"alpn_selected", "ok"})
BY FieldFacts DEF TlsExtClntParseAlpn, Fail, Keeps

\* The client, which has sent its hello, and a server that has answered it.
Joins(c, b, session, t) ==
    /\ DOMAIN t = TlsFields /\ t.ok = TRUE /\ t.hit = FALSE /\ t.secret = NoVal
    /\ t.key = ClntKey(c) /\ t.group = ClntGroups[1] /\ ZeroParams(t)
    /\ t.cipher = b.cipher /\ b.hit \in BOOLEAN
    /\ b.hit => /\ b.identity = 0 /\ session.tick_identity \in Nat \ {0}
                /\ t.early = b.early
    /\ IF b.peer_key = NoKey THEN b.secret = NoVal
       ELSE b.peer_key = ClntKey(c) /\ b.group = ClntGroups[1] /\ b.secret = Derived(b)

\* The client then shares the secret, and whether the ticket was taken up.
Joined(r, b) ==
    /\ DOMAIN r = TlsFields /\ r.ok = TRUE /\ r.hit = b.hit /\ r.cipher = b.cipher
    /\ r.secret = b.secret /\ r.group = ClntGroups[1] /\ ZeroParams(r)

\* The client reads the ServerHello of a server that knows its share.
LEMMA ReadsServerHello ==
    ASSUME NEW c, NEW b, NEW session, NEW t, Joins(c, b, session, t),
           NEW r, r = TlsClntParseExtensions(t, ServerHelloExt(b, Share(b)), session)
    PROVE  Joined(r, b)
<1>0. /\ DOMAIN t = TlsFields /\ t.ok = TRUE /\ t.hit = FALSE /\ t.secret = NoVal
      /\ t.key = ClntKey(c) /\ t.group = ClntGroups[1] /\ ZeroParams(t)
      /\ t.cipher = b.cipher /\ b.hit \in BOOLEAN
      /\ b.hit => /\ b.identity = 0 /\ session.tick_identity \in Nat \ {0}
                  /\ t.early = b.early
      /\ IF b.peer_key = NoKey THEN b.secret = NoVal
         ELSE b.peer_key = ClntKey(c) /\ b.group = ClntGroups[1] /\ b.secret = Derived(b)
  BY DEF Joins
<1> USE <1>0
<1> DEFINE ids == IF b.hit THEN <<b.identity>> ELSE <<>>
           share == Share(b)
           t1 == TlsExtClntParseAlpn(t, <<>>)
           t2 == TlsExtClntParsePreSharedKey(t1, ids, session)
           t3 == TlsParseSupportedVersion(t2, <<"TLS 1.3">>)
           t4 == TlsExtClntParseKeyShare(t3, share)
           t5 == TlsParseQtp(t4, client_transport_param, <<>>, FALSE, 0)
<1>1. r = TlsExtClntParsePreSharedKey(t5, ids, session)
  BY DEF TlsClntParseExtensions, ServerHelloExt
<1>2. t1 = t
  BY DEF TlsExtClntParseAlpn, Reads
<1> HIDE DEF t1
<1>3. \A u : DOMAIN u = TlsFields /\ u.ok = TRUE =>
        TlsExtClntParsePreSharedKey(u, ids, session) = IF b.hit THEN [u EXCEPT !.hit = TRUE] ELSE u
  <2> SUFFICES ASSUME NEW u, DOMAIN u = TlsFields, u.ok = TRUE
               PROVE  TlsExtClntParsePreSharedKey(u, ids, session)
                        = IF b.hit THEN [u EXCEPT !.hit = TRUE] ELSE u
    OBVIOUS
  <2>1. CASE b.hit
    <3>1. ids = <<0>> /\ <<0>> # <<>> /\ <<0>>[1] = 0 /\ 0 < session.tick_identity
      BY <2>1
    <3> HIDE DEF ids
    <3> QED BY <2>1, <3>1 DEF TlsExtClntParsePreSharedKey, Reads
  <2>2. CASE ~b.hit
    BY <2>2 DEF TlsExtClntParsePreSharedKey, Reads
  <2> QED BY <2>1, <2>2
<1> HIDE DEF ids
<1>4. Keeps(t, t2, {"hit"}) /\ t2.hit = b.hit
  <2>1. t2 = IF b.hit THEN [t EXCEPT !.hit = TRUE] ELSE t
    BY <1>2, <1>3
  <2> HIDE DEF t2
  <2> QED BY <2>1, FieldFacts DEF Keeps
<1> HIDE DEF t2
<1>5. t3 = t2
  BY <1>4, VersionFacts DEF Keeps
<1> HIDE DEF t3
<1>6. /\ t3.ok = TRUE /\ t3.hit = b.hit /\ t3.secret = NoVal /\ t3.key = ClntKey(c)
      /\ t3.group = ClntGroups[1] /\ ZeroParams(t3) /\ t3.cipher = b.cipher
      /\ t3.early = t.early /\ DOMAIN t3 = TlsFields
  BY <1>4, <1>5, FieldFacts DEF Keeps, ZeroParams
<1>7. t4.secret = b.secret /\ Keeps(t3, t4, {"early", "secret", "peer_key"})
  <2>1. CASE b.peer_key = NoKey
    <3>1. t4 = t3
      BY <2>1 DEF TlsExtClntParseKeyShare, Share, Reads
    <3> HIDE DEF t4
    <3> QED BY <1>6, <2>1, <3>1, KeepsAll
  <2>2. CASE b.peer_key # NoKey
    <3> DEFINE s == [group |-> b.group, point |-> b.key]
               v == TlsKeyDerive(t3, t3.key, b.key)
    <3>1. share = <<s>> /\ <<s>> # <<>> /\ <<s>>[1] = s /\ s.group = ClntGroups[1]
          /\ s.point = b.key
      BY <2>2 DEF Share
    <3>2. t3.key # NoKey
      BY <1>6, KeyFacts
    <3> HIDE DEF s, share
    <3>3. t4 = [v EXCEPT !.peer_key = b.key]
      BY <1>6, <3>1, <3>2 DEF TlsExtClntParseKeyShare, Reads
    <3>4. /\ Keeps(t3, v, {"early", "secret"})
          /\ v.secret = TlsGenerateSecret(tls_ciphers[t3.cipher],
                           IF t3.hit THEN t3.early
                           ELSE TlsGenerateSecret(tls_ciphers[t3.cipher], NoVal, NoVal),
                           {t3.key, b.key})
      <4>1. v = TlsKeyDerive(t3, t3.key, b.key)
        OBVIOUS
      <4> HIDE DEF v
      <4> QED BY <1>6, <4>1, DeriveFacts
    <3> HIDE DEF v, t4
    <3>5. {t3.key, b.key} = {b.key, b.peer_key}
      BY <1>6, <2>2
    <3>6. v.secret = b.secret
      BY <1>6, <2>2, <3>4, <3>5 DEF Derived
    <3> QED BY <3>3, <3>4, <3>6, FieldFacts DEF Keeps
  <2> QED BY <2>1, <2>2
<1> HIDE DEF t4
<1>8. t5 = t4
  BY DEF TlsParseQtp, Reads
<1> HIDE DEF t5
<1>9. /\ t5.ok = TRUE /\ t5.hit = b.hit /\ t5.secret = b.secret
      /\ t5.group = ClntGroups[1] /\ ZeroParams(t5) /\ t5.cipher = b.cipher
      /\ DOMAIN t5 = TlsFields
  BY <1>6, <1>7, <1>8, FieldFacts DEF Keeps, ZeroParams
<1>10. r = IF b.hit THEN [t5 EXCEPT !.hit = TRUE] ELSE t5
  BY <1>1, <1>3, <1>9
<1>11. Keeps(t5, r, {"hit"}) /\ r.hit = b.hit
  BY <1>9, <1>10, FieldFacts DEF Keeps
<1>12. DOMAIN r = TlsFields /\ r.ok = TRUE /\ r.hit = b.hit /\ r.cipher = b.cipher
       /\ r.secret = b.secret /\ r.group = ClntGroups[1] /\ ZeroParams(r)
  BY <1>9, <1>11, FieldFacts DEF Keeps, ZeroParams
<1> QED BY <1>12 DEF Joined

\* EncryptedExtensions change nothing but the protocol and the parameters.
LEMMA ReadsEncryptedExt ==
    ASSUME NEW c, NEW b, NEW session, NEW t, DOMAIN t = TlsFields, t.ok = TRUE, ZeroParams(t),
           NEW r, r = TlsClntParseExtensions(t, EncryptedExt(b, c), session), r.ok
    PROVE  /\ Keeps(t, r, {"alpn_selected", "ok", "param"})
           /\ Applies(r, SrvrParam)
<1> DEFINE e == EncryptedExt(b, c)
           msg == << TlsConstructQtpExtension(server_transport_param, SrvrParam, c) >>
           t1 == TlsExtClntParseAlpn(t, e.alpn)
           t2 == TlsExtClntParsePreSharedKey(t1, <<>>, session)
           t3 == TlsParseSupportedVersion(t2, <<>>)
           t4 == TlsExtClntParseKeyShare(t3, <<>>)
           t5 == TlsParseQtp(t4, client_transport_param, msg, FALSE, 0)
<1>0. \A u : TlsExtClntParsePreSharedKey(u, <<>>, session) = u
  BY DEF TlsExtClntParsePreSharedKey, Reads
<1>1. r = TlsExtClntParsePreSharedKey(t5, <<>>, session)
  BY DEF TlsClntParseExtensions, EncryptedExt
<1>2. t2 = t1
  BY <1>0
<1>3. t3 = t2
  BY DEF TlsParseSupportedVersion, Reads
<1>4. t4 = t3
  BY DEF TlsExtClntParseKeyShare, Reads
<1>5. r = t5
  BY <1>0, <1>1
<1>6. Keeps(t, t1, {"alpn_selected", "ok"})
  BY ClntAlpnFacts
<1> HIDE DEF t1, t2, t3, t4
<1>7. t4 = t1 /\ DOMAIN t4 = TlsFields /\ ZeroParams(t4)
  BY <1>2, <1>3, <1>4, <1>6, FieldFacts DEF Keeps, ZeroParams
<1>8. t4.ok
  <2>1. CASE ~t4.ok
    <3>1. t5 = t4
      BY <2>1 DEF TlsParseQtp, Reads
    <3> QED BY <1>5, <2>1, <3>1
  <2> QED BY <2>1
<1>9. IntParams \subseteq server_transport_param /\ IntParams \subseteq client_transport_param
  BY DEF server_transport_param, client_transport_param
<1> HIDE DEF t5
<1>10. Keeps(t4, t5, {"param"}) /\ Applies(t5, SrvrParam)
  <2>1. FALSE \in BOOLEAN /\ (FALSE => 0 = c)
    OBVIOUS
  <2>2. t5 = TlsParseQtp(t4, client_transport_param, msg, FALSE, 0)
    BY DEF t5
  <2> QED BY <1>7, <1>8, <1>9, <2>1, <2>2, QtpFacts
<1> QED BY <1>5, <1>6, <1>7, <1>10, FieldFacts DEF Keeps

\* The server's handling of the client's hello: what it takes over, and that
\* ends that are compatible fail only by the binder or the digest.
LEMMA HelloFacts ==
    ASSUME NEW c, NEW param, NEW psk, NEW m, m.ciphers = ClntCiphers,
           m.ext = ClientHelloExt(c, param, psk), gen \in Restarts \cup {0},
           NEW r, r = TlsClientHelloProc(m, c)
    PROVE  /\ DOMAIN r.tls = TlsFields /\ r.tls.ok \in BOOLEAN /\ r.tls.hit \in BOOLEAN
           /\ r.tls.hit => /\ psk # <<>> /\ psk[1].identity.key = gen
                           /\ r.tls.identity = 0 /\ r.tls.early = psk[1].binder
           /\ r.tls.ok =>
                /\ Applies(r.tls, param) /\ r.tls.secret = NoVal
                /\ IF ClntGroups[1] \in ToSet(SrvrGroups)
                   THEN r.tls.peer_key = ClntKey(c) /\ r.tls.group = ClntGroups[1]
                   ELSE r.tls.peer_key = NoKey
                /\ \/ r.sess[1] = QuicSessionCreate(r.tls.cipher)
                   \/ psk # <<>> /\ r.sess[1] = psk[1].identity.session
           /\ Compatible /\ ~r.tls.ok => psk # <<>> /\ ~Verifies(psk[1], r.tls.cipher)
<1> DEFINE x == First(SrvrCiphers[gen], ToSet(m.ciphers))
           t0 == [TlsNew EXCEPT !.cipher = x]
           a == TlsSrvrParseExtensions(t0, m.ext, c, gen)
           alg == TlsChooseSigalg(a.tls)
           p == psk[1]
<1>1. r = IF x = NoVal THEN [tls |-> Fail(TlsNew), sess |-> <<>>]
          ELSE IF ~a.tls.ok THEN a
          ELSE IF alg = NoVal THEN [a EXCEPT !.tls = Fail(a.tls)]
          ELSE [tls |-> [a.tls EXCEPT !.sigalg = alg],
                sess |-> IF a.sess # <<>> THEN a.sess ELSE <<QuicSessionCreate(x)>>]
  BY DEF TlsClientHelloProc
<1>2. Compatible => x # NoVal
  <2>1. SrvrCiphers[gen] \in Seq(Ciphers) /\ ClntCiphers \in Seq(Ciphers) /\ NoVal \notin Ciphers
    BY ResumptionAssumption, ExtensionsAssumption
  <2>2. IsSeq(SrvrCiphers[gen])
    BY <2>1, SeqIsSeq
  <2>3. ToSet(ClntCiphers) \subseteq Ciphers
    BY <2>1 DEF ToSet
  <2> QED BY <2>1, <2>2, <2>3, FirstFacts DEF Compatible
<1> HIDE DEF x
<1>0. /\ a = TlsSrvrParseExtensions(t0, m.ext, c, gen) /\ m.ext = ClientHelloExt(c, param, psk)
      /\ Keeps(TlsNew, t0, {"cipher"}) /\ t0.cipher = x
  BY TlsNewFacts, FieldFacts DEF Keeps
<1> HIDE DEF a, t0
<1>3. PICK t : Heard(t, c, param, x) /\ a = TlsExtsrvrParsePsk(t, psk, gen)
  BY <1>0, SrvrParseFacts
<1>4. \/ a.tls = t /\ a.sess = <<>>
      \/ a.tls = Fail(t) /\ a.sess = <<>> /\ psk # <<>> /\ ~Verifies(p, t.cipher)
      \/ /\ psk # <<>> /\ Resumed(t, a.tls, p, gen)
         /\ a.sess # <<>> /\ a.sess[1] = p.identity.session
  <2>1. t.ok /\ p = psk[1] /\ DOMAIN t = TlsFields
    BY <1>3 DEF Heard
  <2> HIDE DEF p
  <2> QED BY <1>3, <2>1, PskFacts
<1> HIDE DEF p
<1>5. /\ DOMAIN a.tls = TlsFields /\ a.tls.ok \in BOOLEAN /\ a.tls.hit \in BOOLEAN
      /\ a.tls.cipher = x /\ a.tls.peer_sigalgs = ClntSigAlgs
      /\ a.tls.hit => psk # <<>> /\ p.identity.key = gen /\ a.tls.identity = 0
                      /\ a.tls.early = p.binder
      /\ a.tls.ok =>
           /\ Applies(a.tls, param) /\ a.tls.secret = NoVal
           /\ IF ClntGroups[1] \in ToSet(SrvrGroups)
              THEN a.tls.peer_key = ClntKey(c) /\ a.tls.group = ClntGroups[1]
              ELSE a.tls.peer_key = NoKey
           /\ a.sess = <<>> \/ (psk # <<>> /\ a.sess[1] = p.identity.session)
      /\ ~a.tls.ok => psk # <<>> /\ ~Verifies(p, a.tls.cipher)
  <2>1. CASE a.tls = t /\ a.sess = <<>>
    BY <1>3, <2>1 DEF Heard
  <2>2. CASE a.tls = Fail(t) /\ a.sess = <<>> /\ psk # <<>> /\ ~Verifies(p, t.cipher)
    <3>1. Keeps(t, a.tls, {"ok"}) /\ a.tls.ok = FALSE
      BY <1>3, <2>2, FailFacts DEF Heard
    <3>2. DOMAIN a.tls = TlsFields /\ a.tls.hit = FALSE /\ a.tls.cipher = x
          /\ a.tls.peer_sigalgs = ClntSigAlgs
      BY <1>3, <3>1, FieldFacts DEF Keeps, Heard
    <3> QED BY <2>2, <3>1, <3>2, <1>3 DEF Heard
  <2>3. CASE /\ psk # <<>> /\ Resumed(t, a.tls, p, gen)
             /\ a.sess # <<>> /\ a.sess[1] = p.identity.session
    <3>1. /\ DOMAIN a.tls = TlsFields /\ a.tls.ok = TRUE /\ a.tls.cipher = x
          /\ a.tls.peer_sigalgs = ClntSigAlgs /\ a.tls.secret = NoVal
          /\ a.tls.peer_key = t.peer_key /\ a.tls.group = t.group /\ a.tls.param = t.param
      BY <1>3, <2>3, FieldFacts DEF Keeps, Heard, Resumed
    <3>2. Applies(a.tls, param)
      BY <1>3, <3>1 DEF Applies, Heard
    <3> QED BY <1>3, <2>3, <3>1, <3>2 DEF Heard, Resumed
  <2> QED BY <1>4, <2>1, <2>2, <2>3
<1>6. Compatible /\ a.tls.ok => alg # NoVal
  <2>1. IsSeq(ClntSigAlgs) /\ NoVal \notin ToSet(ClntSigAlgs)
    BY ExtensionsAssumption, SeqIsSeq
  <2> DEFINE T == (ToSet(ClntSigAlgs) \cap ToSet(SrvrSigAlgs)) \cap CertAlgs
  <2>2. alg = First(ClntSigAlgs, T)
    BY <1>5 DEF TlsChooseSigalg, TlsSetServerSigAlgs
  <2>3. NoVal \notin T
    BY <2>1
  <2>4. Compatible => ToSet(ClntSigAlgs) \cap T # {}
    BY DEF Compatible
  <2> HIDE DEF T, alg
  <2> QED BY <2>1, <2>2, <2>3, <2>4, FirstFacts
<1> HIDE DEF alg
<1>7. CASE x = NoVal
  <2>1. r.tls = Fail(TlsNew)
    BY <1>1, <1>7
  <2>2. r.tls.ok = FALSE /\ r.tls.hit = FALSE /\ DOMAIN r.tls = TlsFields
    BY <2>1, TlsNewFacts, FailFacts, FieldFacts DEF Keeps
  <2> QED BY <1>2, <1>7, <2>2
<1>8. CASE x # NoVal /\ ~a.tls.ok
  <2>1. r = a
    BY <1>1, <1>8
  <2> QED BY <1>5, <1>8, <2>1 DEF p
<1>9. CASE x # NoVal /\ a.tls.ok /\ alg = NoVal
  <2>1. r = [a EXCEPT !.tls = Fail(a.tls)]
    BY <1>1, <1>9
  <2>2. "tls" \in DOMAIN a
    BY <1>3 DEF TlsExtsrvrParsePsk
  <2>3. r.tls = Fail(a.tls)
    BY <2>1, <2>2
  <2>4. Keeps(a.tls, r.tls, {"ok"}) /\ r.tls.ok = FALSE
    BY <1>5, <2>3, FailFacts
  <2>5. r.tls.hit = a.tls.hit /\ r.tls.early = a.tls.early /\ r.tls.identity = a.tls.identity
        /\ DOMAIN r.tls = TlsFields
    BY <2>4, FieldFacts DEF Keeps
  <2> QED BY <1>5, <1>6, <1>9, <2>4, <2>5 DEF p
<1>10. CASE x # NoVal /\ a.tls.ok /\ alg # NoVal
  <2> DEFINE s == IF a.sess # <<>> THEN a.sess ELSE <<QuicSessionCreate(x)>>
             u == [a.tls EXCEPT !.sigalg = alg]
  <2>1. r.tls = u /\ r.sess = s
    BY <1>1, <1>10
  <2>2. Keeps(a.tls, u, {"sigalg"})
    BY <1>5, FieldFacts DEF Keeps
  <2> HIDE DEF u
  <2>3. /\ u.hit = a.tls.hit /\ u.early = a.tls.early /\ u.identity = a.tls.identity
        /\ u.ok = a.tls.ok /\ u.secret = a.tls.secret /\ u.peer_key = a.tls.peer_key
        /\ u.group = a.tls.group /\ u.cipher = x /\ u.param = a.tls.param
        /\ DOMAIN u = TlsFields
    BY <1>5, <2>2, FieldFacts DEF Keeps
  <2>4. Applies(u, param)
    BY <1>5, <1>10, <2>3 DEF Applies
  <2>5. \/ s[1] = QuicSessionCreate(x)
        \/ psk # <<>> /\ s[1] = p.identity.session
    BY <1>5, <1>10
  <2> HIDE DEF s
  <2> QED BY <1>5, <1>10, <2>1, <2>3, <2>4, <2>5 DEF p
<1> QED BY <1>7, <1>8, <1>9, <1>10

-----------------------------------------------------------------------------
(* What each action does, field by field. *)

\* At most the entry of c changes.
ClntOnly(c) ==
    DOMAIN clnt' = Conns /\ DOMAIN clnt'[c] = ClntFields
    /\ \A d \in Conns \ {c} : clnt'[d] = clnt[d]

SrvrOnly(c) ==
    DOMAIN srvr' = Conns /\ DOMAIN srvr'[c] = SrvrFields
    /\ \A d \in Conns \ {c} : srvr'[d] = srvr[d]

SessOnly(s) ==
    DOMAIN sess' = Conns /\ DOMAIN sess'[s] = SessFields
    /\ \A d \in Conns \ {s} : sess'[d] = sess[d]

UpOnly(c) == DOMAIN up' = Conns /\ \A d \in Conns \ {c} : up'[d] = up[d]

DownOnly(c) == DOMAIN down' = Conns /\ \A d \in Conns \ {c} : down'[d] = down[d]

\* The session s loses a reference, and with the last one everything else.
Released(s) ==
    IF s = NoVal THEN sess' = sess
    ELSE /\ SessOnly(s)
         /\ IF sess[s].references > 1
            THEN /\ sess'[s].references = sess[s].references - 1
                 /\ sess'[s].tickets = sess[s].tickets
                 /\ sess'[s].tick_identity = sess[s].tick_identity
            ELSE sess'[s] = NoSession

LEMMA FreeFacts ==
    ASSUME ShapeInv, NEW s \in Conns \cup {NoVal}, sess' = QuicSessionFree(sess, s)
    PROVE  Released(s)
<1>1. CASE s = NoVal
  BY <1>1 DEF QuicSessionFree, Released
<1>2. CASE s # NoVal
  <2>1. /\ s \in Conns /\ DOMAIN sess = Conns /\ DOMAIN sess[s] = SessFields
        /\ sess[s].references \in Nat
    BY <1>2 DEF ShapeInv, ClntShape, SrvrShape, SessShape
  <2>2. sess' = [sess EXCEPT ![s] = IF sess[s].references - 1 > 0
                                    THEN [sess[s] EXCEPT !.references = sess[s].references - 1]
                                    ELSE NoSession]
    BY <1>2 DEF QuicSessionFree
  <2>3. CASE sess[s].references > 1
    <3>1. sess'[s] = [sess[s] EXCEPT !.references = sess[s].references - 1]
      BY <2>1, <2>2, <2>3
    <3> QED BY <1>2, <2>1, <2>2, <2>3, <3>1, FieldFacts DEF Released, SessOnly
  <2>4. CASE ~ (sess[s].references > 1)
    <3>1. sess'[s] = NoSession
      BY <2>1, <2>2, <2>4
    <3> QED BY <1>2, <2>1, <2>2, <2>4, <3>1, SessionFacts DEF Released, SessOnly
  <2> QED BY <2>3, <2>4
<1> QED BY <1>1, <1>2

LEMMA NewEffect ==
    ASSUME ShapeInv, NEW c \in Conns, QuicNew(c)
    PROVE  /\ ClntOnly(c) /\ clnt[c].st = "none" /\ clnt'[c].st = "new"
           /\ clnt'[c].tls = clnt[c].tls /\ clnt'[c].session = clnt[c].session
           /\ clnt'[c].offer = clnt[c].offer
           /\ UNCHANGED <<srvr, sess, held, up, down, now, gen>>
<1>1. DOMAIN clnt = Conns /\ DOMAIN clnt[c] = ClntFields
  BY DEF ShapeInv, ClntShape, SrvrShape, SessShape
<1>2. PICK v \in ParamValues :
        clnt' = [clnt EXCEPT ![c].st = "new", ![c].param["initial_max_data"] = v]
  BY DEF QuicNew
<1>3. clnt[c].st = "none" /\ UNCHANGED <<srvr, sess, held, up, down, now, gen>>
  BY DEF QuicNew
<1> QED BY <1>1, <1>2, <1>3 DEF ClntOnly, ClntFields

LEMMA GetEffect ==
    ASSUME ShapeInv, NEW c \in Conns, QUIC_get1_session(c)
    PROVE  LET s == clnt[c].session
           IN  /\ s \in Conns /\ SessOnly(s) /\ held' = [held EXCEPT ![s] = @ + 1]
               /\ sess'[s].references = sess[s].references + 1
               /\ sess'[s].tickets = sess[s].tickets
               /\ sess'[s].tick_identity = sess[s].tick_identity
               /\ UNCHANGED <<clnt, srvr, up, down, now, gen>>
<1> DEFINE s == clnt[c].session
<1>1. s \in Conns /\ DOMAIN sess = Conns /\ DOMAIN sess[s] = SessFields
  BY DEF ShapeInv, ClntShape, SrvrShape, SessShape, QUIC_get1_session
<1>2. sess' = [sess EXCEPT ![s].references = sess[s].references + 1]
      /\ held' = [held EXCEPT ![s] = @ + 1] /\ UNCHANGED <<clnt, srvr, up, down, now, gen>>
  BY DEF QUIC_get1_session, QuicSessionUpRef
<1> QED BY <1>1, <1>2, FieldFacts DEF SessOnly

LEMMA SetEffect ==
    ASSUME ShapeInv, NEW c \in Conns, NEW s \in Conns, QUIC_set_session(c, s)
    PROVE  /\ clnt[c].st = "new" /\ held[s] > 0 /\ held' = [held EXCEPT ![s] = @ - 1]
           /\ ClntOnly(c) /\ clnt'[c].st = clnt[c].st /\ clnt'[c].tls = clnt[c].tls
           /\ clnt'[c].session = s /\ clnt'[c].param = clnt[c].param
           /\ clnt'[c].offer = clnt[c].offer /\ Released(clnt[c].session)
           /\ UNCHANGED <<srvr, up, down, now, gen>>
<1>1. DOMAIN clnt = Conns /\ DOMAIN clnt[c] = ClntFields
  BY DEF ShapeInv, ClntShape, SrvrShape, SessShape
<1>2. Released(clnt[c].session)
  BY FreeFacts DEF QUIC_set_session, ShapeInv, ClntShape, SrvrShape, SessShape
<1> QED BY <1>1, <1>2 DEF QUIC_set_session, ClntOnly, ClntFields

LEMMA FreeEffect ==
    ASSUME ShapeInv, NEW c \in Conns, QuicFree(c)
    PROVE  /\ clnt[c].st \in {"new", "ready", "error"} /\ ClntOnly(c)
           /\ clnt'[c].st = "free" /\ clnt'[c].tls = TlsNew /\ clnt'[c].session = NoVal
           /\ clnt'[c].param = clnt[c].param /\ clnt'[c].offer = clnt[c].offer
           /\ Released(clnt[c].session) /\ DownOnly(c) /\ down'[c] = <<>>
           /\ UNCHANGED <<srvr, held, up, now, gen>>
<1>1. DOMAIN clnt = Conns /\ DOMAIN clnt[c] = ClntFields /\ DOMAIN down = Conns
  BY DEF ShapeInv, ClntShape, SrvrShape, SessShape
<1>2. Released(clnt[c].session)
  BY FreeFacts DEF QuicFree, ShapeInv, ClntShape, SrvrShape, SessShape
<1> QED BY <1>1, <1>2 DEF QuicFree, ClntOnly, ClntFields, DownOnly

\* The tickets after the expired ones are dropped are a part of those before.
LEMMA TicketGetFacts ==
    ASSUME NEW old, DOMAIN old = SessFields, IsSeq(old.tickets), NEW time,
           NEW new, new = QuicSessionTicketGet(old, time)
    PROVE  /\ DOMAIN new = SessFields /\ new.references = old.references
           /\ new.tick_identity = old.tick_identity /\ new.cipher = old.cipher
           /\ IsSeq(new.tickets) /\ Len(new.tickets) <= Len(old.tickets)
           /\ \A i \in 1 .. Len(new.tickets) :
                \E j \in 1 .. Len(old.tickets) : new.tickets[i] = old.tickets[j]
<1> DEFINE q == old.tickets
           valid == {i \in DOMAIN q : time - q[i].time <= q[i].lifetime_hint}
           r == IF valid = {} THEN <<>> ELSE SubSeq(q, Min(valid), Len(q))
<1>1. Len(q) \in Nat /\ DOMAIN q = 1 .. Len(q)
  BY SeqFacts
<1>2. new = [old EXCEPT !.tickets = r]
  BY DEF QuicSessionTicketGet
<1>3. /\ IsSeq(r) /\ Len(r) <= Len(q)
      /\ \A i \in 1 .. Len(r) : \E j \in 1 .. Len(q) : r[i] = q[j]
  <2>1. CASE valid = {}
    <3>1. r = <<>>
      BY <2>1
    <3> HIDE DEF r
    <3> QED BY <1>1, <3>1, NothingIsSeq
  <2>2. CASE valid # {}
    <3> DEFINE m == Min(valid)
    <3>1. m \in valid
      <4>1. valid \subseteq Nat
        BY <1>1
      <4> HIDE DEF valid
      <4> QED BY <2>2, <4>1, MinFacts
    <3>2. m \in 1 .. Len(q) /\ r = SubSeq(q, m, Len(q))
      BY <1>1, <2>2, <3>1
    <3> HIDE DEF m, r, q
    <3>3. IsSeq(q)
      BY DEF q
    <3> QED BY <1>1, <3>2, <3>3, SubSeqFacts
  <2> QED BY <2>1, <2>2
<1> HIDE DEF r
<1> QED BY <1>2, <1>3, FieldFacts

\* The session s keeps its count and a part of its tickets.
Trimmed(s) ==
    /\ SessOnly(s) /\ sess'[s].references = sess[s].references
    /\ sess'[s].tick_identity = sess[s].tick_identity
    /\ IsSeq(sess'[s].tickets) /\ Len(sess'[s].tickets) <= Len(sess[s].tickets)
    /\ \A i \in 1 .. Len(sess'[s].tickets) :
         \E j \in 1 .. Len(sess[s].tickets) : sess'[s].tickets[i] = sess[s].tickets[j]

\* What is offered of a ticket.
OfferOf(t, md) == [identity |-> t.ticket, binder |-> PskSecret(md, t.master_key)]

LEMMA BuildEffect ==
    ASSUME ShapeInv, NEW c \in Conns, TlsClientHelloBuild(c)
    PROVE  /\ clnt[c].st = "new" /\ ClntOnly(c) /\ clnt'[c].st = "sent"
           /\ clnt'[c].session = clnt[c].session /\ clnt'[c].param = clnt[c].param
           /\ Keeps(clnt[c].tls, clnt'[c].tls, {"key", "group", "alpn_sent", "early"})
           /\ clnt'[c].tls.key = ClntKey(c) /\ clnt'[c].tls.group = ClntGroups[1]
           /\ clnt'[c].offer # <<>> =>
                /\ clnt'[c].tls.early = clnt'[c].offer[1].binder
                /\ clnt[c].session # NoVal
                /\ \E j \in 1 .. Len(sess[clnt[c].session].tickets) : \E md :
                     clnt'[c].offer = << OfferOf(sess[clnt[c].session].tickets[j], md) >>
           /\ IF clnt[c].session = NoVal THEN sess' = sess ELSE Trimmed(clnt[c].session)
           /\ UpOnly(c)
           /\ \E m : /\ up'[c] = Append(up[c], m) /\ m.type = "client_hello"
                     /\ m.ciphers = ClntCiphers
                     /\ m.ext = ClientHelloExt(c, clnt[c].param, clnt'[c].offer)
           /\ UNCHANGED <<srvr, held, down, now, gen>>
<1> DEFINE s == clnt[c].session
           old == SessionOf(c)
           new == QuicSessionTicketGet(old, now)
           psk == TlsExtClntConstructPreSharedKey(new)
           tls == [clnt[c].tls EXCEPT !.key = ClntKey(c), !.group = ClntGroups[1],
                     !.alpn_sent = TlsExtClntConstructAlpn # <<>>,
                     !.early = IF psk = <<>> THEN clnt[c].tls.early ELSE psk[1].binder]
           m == [type |-> "client_hello", ciphers |-> ClntCiphers,
                 ext |-> ClientHelloExt(c, clnt[c].param, psk)]
<1>1. /\ clnt[c].st = "new" /\ UNCHANGED <<srvr, held, down, now, gen>>
      /\ clnt' = [clnt EXCEPT ![c].st = "sent", ![c].tls = tls, ![c].offer = psk]
      /\ sess' = IF s = NoVal THEN sess ELSE [sess EXCEPT ![s] = new]
      /\ up' = [up EXCEPT ![c] = Append(up[c], m)]
  BY DEF TlsClientHelloBuild, TlsClntConstructExtensions, ClientHelloExt, ClntKey
<1>2. /\ DOMAIN clnt = Conns /\ DOMAIN clnt[c] = ClntFields /\ DOMAIN clnt[c].tls = TlsFields
      /\ DOMAIN up = Conns /\ DOMAIN sess = Conns /\ s \in Conns \cup {NoVal}
      /\ s # NoVal => DOMAIN sess[s] = SessFields /\ IsSeq(sess[s].tickets)
  BY DEF ShapeInv, ClntShape, SrvrShape, SessShape
<1>3. DOMAIN old = SessFields /\ IsSeq(old.tickets)
      /\ (s = NoVal => old.tickets = <<>>) /\ (s # NoVal => old = sess[s])
  BY <1>2, SessionFacts, NothingIsSeq DEF SessionOf
<1> HIDE DEF old, m
<1>4. /\ DOMAIN new = SessFields /\ new.references = old.references
      /\ new.tick_identity = old.tick_identity
      /\ IsSeq(new.tickets) /\ Len(new.tickets) <= Len(old.tickets)
      /\ \A i \in 1 .. Len(new.tickets) :
           \E j \in 1 .. Len(old.tickets) : new.tickets[i] = old.tickets[j]
  BY <1>3, TicketGetFacts
<1>5. psk # <<>> =>
        /\ s # NoVal
        /\ \E j \in 1 .. Len(old.tickets) : \E md : psk = << OfferOf(old.tickets[j], md) >>
  <2> SUFFICES ASSUME psk # <<>>
               PROVE  s # NoVal /\ \E j \in 1 .. Len(old.tickets) : \E md :
                                     psk = << OfferOf(old.tickets[j], md) >>
    OBVIOUS
  <2> DEFINE md == tls_ciphers[new.cipher]
  <2>1. new.tickets # <<>> /\ psk = << OfferOf(Head(new.tickets), md) >>
    BY DEF TlsExtClntConstructPreSharedKey, OfferOf
  <2> HIDE DEF new, psk, md
  <2>2. Head(new.tickets) = new.tickets[1] /\ Len(new.tickets) >= 1 /\ Len(new.tickets) \in Nat
    BY <1>4, <2>1, SeqFacts
  <2>3. PICK j \in 1 .. Len(old.tickets) : new.tickets[1] = old.tickets[j]
    BY <1>4, <2>2
  <2>4. old.tickets # <<>>
    BY <2>3
  <2> QED BY <1>3, <2>1, <2>2, <2>3, <2>4
<1> HIDE DEF new, psk
<1>6. /\ Keeps(clnt[c].tls, tls, {"key", "group", "alpn_sent", "early"})
      /\ tls.key = ClntKey(c) /\ tls.group = ClntGroups[1]
      /\ psk # <<>> => tls.early = psk[1].binder
  BY <1>2, FieldFacts DEF Keeps
<1> HIDE DEF tls
<1>7. /\ ClntOnly(c) /\ clnt'[c].st = "sent" /\ clnt'[c].session = s
      /\ clnt'[c].param = clnt[c].param /\ clnt'[c].tls = tls /\ clnt'[c].offer = psk
  BY <1>1, <1>2 DEF ClntOnly, ClntFields
<1>8. UpOnly(c) /\ up'[c] = Append(up[c], m) /\ m.type = "client_hello"
      /\ m.ciphers = ClntCiphers /\ m.ext = ClientHelloExt(c, clnt[c].param, psk)
  BY <1>1, <1>2 DEF UpOnly, m
<1>9. IF s = NoVal THEN sess' = sess ELSE Trimmed(s)
  BY <1>1, <1>2, <1>3, <1>4 DEF Trimmed, SessOnly
<1> HIDE DEF s
<1>10. clnt'[c].offer # <<>> =>
         /\ clnt'[c].tls.early = clnt'[c].offer[1].binder /\ s # NoVal
         /\ \E j \in 1 .. Len(sess[s].tickets) : \E md :
              clnt'[c].offer = << OfferOf(sess[s].tickets[j], md) >>
  BY <1>3, <1>5, <1>6, <1>7
<1> QED BY <1>1, <1>6, <1>7, <1>8, <1>9, <1>10 DEF s

\* The server end of c as an answer, or a refusal, leaves it.
Answered(c) ==
    LET t == srvr'[c].tls
    IN  /\ DOMAIN t = TlsFields /\ srvr'[c].gen = gen
        /\ t.hit \in BOOLEAN
        /\ t.hit => /\ clnt[c].offer # <<>> /\ clnt[c].offer[1].identity.key = gen
                    /\ t.identity = 0 /\ t.early = clnt[c].offer[1].binder

Refuses(c) ==
    /\ srvr'[c].st = "error" /\ srvr'[c].tls.ok = FALSE
    /\ Compatible => clnt[c].offer # <<>> /\ ~Verifies(clnt[c].offer[1], srvr'[c].tls.cipher)

Accepts(c) ==
    LET t == srvr'[c].tls
    IN  /\ srvr'[c].st = "flight" /\ t.ok = TRUE /\ Applies(t, clnt[c].param)
        /\ IF t.peer_key = NoKey
           THEN t.secret = NoVal /\ ClntGroups[1] \notin ToSet(SrvrGroups)
           ELSE /\ t.peer_key = ClntKey(c) /\ t.group = ClntGroups[1]
                /\ t.secret = Derived(t)
        /\ \/ \E x : srvr'[c].session = QuicSessionCreate(x)
           \/ clnt[c].offer # <<>> /\ srvr'[c].session = clnt[c].offer[1].identity.session

\* The ServerHello and the EncryptedExtensions.
Flight(c) ==
    LET t == srvr'[c].tls
    IN  \E sh, ee :
          /\ down'[c] = <<sh, ee>>
          /\ sh.type = "server_hello" /\ sh.cipher = t.cipher
          /\ sh.ext = ServerHelloExt(t, Share(t))
          /\ ee.type = "encrypted_ext" /\ ee.ext = EncryptedExt(t, c)

LEMMA AcceptEffect ==
    ASSUME ShapeInv, MessagesInv, NEW c \in Conns, TlsAccept(c)
    PROVE  /\ srvr[c].st = "none" /\ up[c] # <<>> /\ up[c][1].type = "client_hello"
           /\ SrvrOnly(c) /\ UpOnly(c) /\ up'[c] = <<>> /\ Answered(c)
           /\ \/ Refuses(c) /\ down' = down
              \/ Accepts(c) /\ DownOnly(c) /\ Flight(c)
           /\ UNCHANGED <<clnt, sess, held, now, gen>>
<1> DEFINE m == Head(up[c])
           a == TlsClientHelloProc(m, c)
           b == TlsExtSrvrConstructKeyShare(a.tls, c)
           sh == [type |-> "server_hello", cipher |-> a.tls.cipher,
                  ext |-> ServerHelloExt(b.tls, b.share)]
           ee == [type |-> "encrypted_ext", key |-> b.tls.secret,
                  ext |-> EncryptedExt(b.tls, c)]
           no == [srvr[c] EXCEPT !.st = "error", !.tls = a.tls, !.gen = gen]
           yes == [st |-> "flight", tls |-> b.tls, session |-> a.sess[1], nonce |-> 0,
                   gen |-> gen]
<1>1. /\ up[c] # <<>> /\ m.type = "client_hello" /\ srvr[c].st = "none"
      /\ up' = [up EXCEPT ![c] = Tail(up[c])]
      /\ UNCHANGED <<clnt, sess, held, now, gen>>
  BY DEF TlsAccept
<1>2. \/ ~a.tls.ok /\ srvr' = [srvr EXCEPT ![c] = no] /\ down' = down
      \/ /\ a.tls.ok /\ srvr' = [srvr EXCEPT ![c] = yes]
         /\ down' = [down EXCEPT ![c] = <<sh, ee>>]
  BY DEF TlsAccept
<1>3. /\ DOMAIN srvr = Conns /\ DOMAIN srvr[c] = SrvrFields /\ DOMAIN up = Conns
      /\ DOMAIN down = Conns /\ IsSeq(up[c]) /\ gen \in Restarts \cup {0}
  BY DEF ShapeInv, ClntShape, SrvrShape, SessShape
<1>4. Head(up[c]) = up[c][1] /\ Len(up[c]) >= 1 /\ Len(up[c]) \in Nat
  BY <1>1, <1>3, SeqFacts
<1>5. Len(up[c]) = 1 /\ m.ciphers = ClntCiphers
      /\ m.ext = ClientHelloExt(c, clnt[c].param, clnt[c].offer)
  <2>1. Len(up[c]) <= 1
    BY DEF MessagesInv, MessagesAt, UpMessage, DownMessage
  <2>2. up[c][1].type = "client_hello" =>
          up[c][1].ciphers = ClntCiphers
          /\ up[c][1].ext = ClientHelloExt(c, clnt[c].param, clnt[c].offer)
    BY <1>1 DEF MessagesInv, MessagesAt, UpMessage, DownMessage
  <2>3. m = up[c][1] /\ m.type = "client_hello"
    BY <1>1, <1>4
  <2>4. Len(up[c]) = 1
    <3> DEFINE n == Len(up[c])
    <3>1. n \in Nat /\ n >= 1 /\ n <= 1
      BY <1>4, <2>1
    <3> HIDE DEF n
    <3>2. n = 1
      BY <3>1
    <3> QED BY <3>2 DEF n
  <2> HIDE DEF m
  <2> QED BY <2>2, <2>3, <2>4
<1>6. UpOnly(c) /\ up'[c] = <<>>
  <2>1. Tail(up[c]) = <<>>
    <3>1. IsSeq(Tail(up[c])) /\ Len(Tail(up[c])) = Len(up[c]) - 1
      BY <1>1, <1>3, TailFacts
    <3> DEFINE q == Tail(up[c])
    <3>2. Len(q) = 0
      BY <1>5, <3>1
    <3>3. IsSeq(q)
      BY <3>1
    <3> HIDE DEF q
    <3>4. q = <<>>
      BY <3>2, <3>3, SeqFacts
    <3> QED BY <3>4 DEF q
  <2> QED BY <1>1, <1>3, <2>1 DEF UpOnly
<1> DEFINE psk == clnt[c].offer
<1> HIDE DEF m, a, b
<1>7. /\ DOMAIN a.tls = TlsFields /\ a.tls.ok \in BOOLEAN /\ a.tls.hit \in BOOLEAN
      /\ a.tls.hit => /\ psk # <<>> /\ psk[1].identity.key = gen
                      /\ a.tls.identity = 0 /\ a.tls.early = psk[1].binder
      /\ a.tls.ok =>
           /\ Applies(a.tls, clnt[c].param) /\ a.tls.secret = NoVal
           /\ IF ClntGroups[1] \in ToSet(SrvrGroups)
              THEN a.tls.peer_key = ClntKey(c) /\ a.tls.group = ClntGroups[1]
              ELSE a.tls.peer_key = NoKey
           /\ \/ a.sess[1] = QuicSessionCreate(a.tls.cipher)
              \/ psk # <<>> /\ a.sess[1] = psk[1].identity.session
      /\ Compatible /\ ~a.tls.ok => psk # <<>> /\ ~Verifies(psk[1], a.tls.cipher)
  BY <1>3, <1>5, HelloFacts DEF a
<1>8. CASE ~a.tls.ok /\ srvr' = [srvr EXCEPT ![c] = no] /\ down' = down
  <2>1. SrvrOnly(c) /\ srvr'[c].st = "error" /\ srvr'[c].tls = a.tls /\ srvr'[c].gen = gen
    BY <1>3, <1>8 DEF SrvrOnly, SrvrFields
  <2>2. Answered(c)
    BY <1>7, <2>1 DEF Answered
  <2>3. Refuses(c)
    BY <1>7, <1>8, <2>1 DEF Refuses
  <2> QED BY <1>1, <1>4, <1>6, <1>8, <2>1, <2>2, <2>3 DEF m
<1>9. CASE /\ a.tls.ok /\ srvr' = [srvr EXCEPT ![c] = yes]
           /\ down' = [down EXCEPT ![c] = <<sh, ee>>]
  <2>1. /\ Keeps(a.tls, b.tls, {"key", "early", "secret"}) /\ b.share = Share(b.tls)
        /\ a.tls.hit => b.tls.early = a.tls.early
        /\ b.tls.secret = IF a.tls.peer_key = NoKey THEN a.tls.secret ELSE Derived(b.tls)
    BY <1>7, SrvrShareFacts DEF b
  <2>2. /\ b.tls.hit = a.tls.hit /\ b.tls.identity = a.tls.identity /\ b.tls.ok = a.tls.ok
        /\ b.tls.peer_key = a.tls.peer_key /\ b.tls.group = a.tls.group
        /\ b.tls.cipher = a.tls.cipher /\ b.tls.param = a.tls.param /\ DOMAIN b.tls = TlsFields
    BY <2>1, FieldFacts DEF Keeps
  <2>3. /\ SrvrOnly(c) /\ srvr'[c].st = "flight" /\ srvr'[c].tls = b.tls
        /\ srvr'[c].session = a.sess[1] /\ srvr'[c].gen = gen
    BY <1>3, <1>9 DEF SrvrOnly, SrvrFields
  <2>4. Answered(c)
    BY <1>7, <2>1, <2>2, <2>3 DEF Answered
  <2>5. Applies(b.tls, clnt[c].param)
    BY <1>7, <1>9, <2>2 DEF Applies
  <2>6. /\ IF b.tls.peer_key = NoKey
           THEN b.tls.secret = NoVal /\ ClntGroups[1] \notin ToSet(SrvrGroups)
           ELSE /\ b.tls.peer_key = ClntKey(c) /\ b.tls.group = ClntGroups[1]
                /\ b.tls.secret = Derived(b.tls)
    BY <1>7, <1>9, <2>1, <2>2, KeyFacts
  <2>7. Accepts(c)
    BY <1>7, <1>9, <2>2, <2>3, <2>5, <2>6 DEF Accepts
  <2>8. sh.type = "server_hello" /\ sh.cipher = b.tls.cipher
        /\ sh.ext = ServerHelloExt(b.tls, Share(b.tls))
        /\ ee.type = "encrypted_ext" /\ ee.ext = EncryptedExt(b.tls, c)
    BY <2>1, <2>2
  <2> HIDE DEF sh, ee
  <2>9. DownOnly(c) /\ down'[c] = <<sh, ee>>
    BY <1>3, <1>9 DEF DownOnly
  <2>10. Flight(c)
    BY <2>3, <2>8, <2>9 DEF Flight
  <2> QED BY <1>1, <1>4, <1>6, <2>3, <2>4, <2>7, <2>9, <2>10 DEF m
<1> QED BY <1>2, <1>8, <1>9

\* The first message of a list is taken.
Takes(c, q) ==
    /\ IsSeq(Tail(q)) /\ Len(q) \in Nat /\ Len(Tail(q)) = Len(q) - 1
    /\ Len(q) >= 1 /\ Head(q) = q[1]
    /\ \A i \in 1 .. Len(Tail(q)) : Tail(q)[i] = q[i + 1] /\ i + 1 \in 1 .. Len(q)

LEMMA TakesFacts == ASSUME NEW c, NEW q, IsSeq(q), q # <<>> PROVE Takes(c, q)
BY TailFacts, SeqFacts DEF Takes

\* The client read a ServerHello: the connection fails, or it shares the secret
\* of its server and has a session.
HelloRead(c) ==
    LET t == clnt'[c].tls
        b == srvr[c].tls
    IN  /\ clnt'[c].st = "hello" /\ DOMAIN t = TlsFields
        /\ t.ok = TRUE /\ t.hit = b.hit /\ t.cipher = b.cipher
        /\ t.secret = b.secret /\ t.group = ClntGroups[1] /\ ZeroParams(t)
        /\ IF clnt[c].session = NoVal
           THEN /\ clnt'[c].session = c /\ SessOnly(c)
                /\ \E x : sess'[c] = QuicSessionCreate(x)
           ELSE clnt'[c].session = clnt[c].session /\ sess' = sess

HelloFailed(c) ==
    /\ clnt'[c].st = "error" /\ clnt'[c].session = clnt[c].session
    /\ clnt'[c].tls = clnt[c].tls /\ sess' = sess

LEMMA HelloEffect ==
    ASSUME ShapeInv, MessagesInv, ClientInv, ServerInv, NEW c \in Conns,
           TlsServerHelloProc(c)
    PROVE  /\ clnt[c].st = "sent" /\ Takes(c, down[c]) /\ DownOnly(c)
           /\ down'[c] = Tail(down[c]) /\ ClntOnly(c)
           /\ clnt'[c].param = clnt[c].param /\ clnt'[c].offer = clnt[c].offer
           /\ HelloRead(c) \/ HelloFailed(c)
           /\ UNCHANGED <<srvr, held, up, now, gen>>
<1> DEFINE m == Head(down[c])
           t == [clnt[c].tls EXCEPT !.cipher = m.cipher]
           r == TlsClntParseExtensions(t, m.ext, SessionOf(c))
           b == srvr[c].tls
           s == clnt[c].session
<1>1. /\ clnt[c].st = "sent" /\ down[c] # <<>> /\ m.type = "server_hello"
      /\ down' = [down EXCEPT ![c] = Tail(down[c])]
      /\ UNCHANGED <<srvr, held, up, now, gen>>
  BY DEF TlsServerHelloProc
<1>2. \/ /\ r.ok /\ sess' = QuicGetSession(sess, c, s, m.cipher)
         /\ clnt' = [clnt EXCEPT ![c].st = "hello", ![c].tls = r,
                                 ![c].session = IF s = NoVal THEN c ELSE s]
      \/ clnt' = [clnt EXCEPT ![c].st = "error"] /\ sess' = sess
  BY DEF TlsServerHelloProc
<1>3. /\ DOMAIN clnt = Conns /\ DOMAIN clnt[c] = ClntFields /\ DOMAIN clnt[c].tls = TlsFields
      /\ DOMAIN down = Conns /\ IsSeq(down[c]) /\ DOMAIN sess = Conns
      /\ s \in Conns \cup {NoVal} /\ NoVal \notin Conns
      /\ (s # NoVal => sess[s].tick_identity \in Nat)
  BY ResumptionAssumption DEF ShapeInv, ClntShape, SrvrShape, SessShape
<1>4. Takes(c, down[c])
  BY <1>1, <1>3, TakesFacts
<1>5. srvr[c].st # "none" /\ b.ok
  BY <1>1 DEF MessagesInv, MessagesAt, UpMessage, DownMessage
<1>6. m.cipher = b.cipher /\ m.ext = ServerHelloExt(b, Share(b))
  <2>1. m = down[c][1] /\ 1 \in 1 .. Len(down[c])
    <3> DEFINE n == Len(down[c])
    <3>1. n \in Nat /\ n >= 1 /\ m = down[c][1]
      BY <1>4 DEF Takes
    <3> HIDE DEF n
    <3>2. 1 \in 1 .. n
      BY <3>1
    <3> QED BY <3>1, <3>2 DEF n
  <2> HIDE DEF m
  <2>2. down[c][1].type = "server_hello" =>
          /\ down[c][1].cipher = srvr[c].tls.cipher
          /\ down[c][1].ext = ServerHelloExt(srvr[c].tls, Share(srvr[c].tls))
    BY <2>1 DEF MessagesInv, MessagesAt, UpMessage, DownMessage
  <2> QED BY <1>1, <2>1, <2>2
<1>7. /\ clnt[c].tls.ok = TRUE /\ clnt[c].tls.hit = FALSE /\ clnt[c].tls.secret = NoVal
      /\ clnt[c].tls.key = ClntKey(c) /\ clnt[c].tls.group = ClntGroups[1]
      /\ ZeroParams(clnt[c].tls)
      /\ clnt[c].offer # <<>> =>
           clnt[c].tls.early = clnt[c].offer[1].binder /\ s \in Conns
           /\ sess[s].tick_identity > 0
  BY <1>1 DEF ClientInv, ClientAt
<1>8. /\ b.hit =>
           /\ clnt[c].offer # <<>> /\ b.identity = 0 /\ b.early = clnt[c].offer[1].binder
      /\ IF b.peer_key = NoKey THEN b.secret = NoVal
         ELSE b.peer_key = ClntKey(c) /\ b.group = ClntGroups[1] /\ b.secret = Derived(b)
  BY <1>5 DEF ServerInv, ServerAt
<1>9. b.hit \in BOOLEAN
  BY DEF ShapeInv, ClntShape, SrvrShape, SessShape
<1>10. /\ DOMAIN t = TlsFields /\ t.ok = TRUE /\ t.hit = FALSE /\ t.secret = NoVal
       /\ t.key = ClntKey(c) /\ t.group = ClntGroups[1] /\ t.cipher = b.cipher
       /\ t.early = clnt[c].tls.early /\ ZeroParams(t)
  <2>1. Keeps(clnt[c].tls, t, {"cipher"}) /\ t.cipher = m.cipher
    BY <1>3, FieldFacts DEF Keeps
  <2> HIDE DEF t
  <2>2. t.param = clnt[c].tls.param /\ DOMAIN t = TlsFields
    BY <2>1, FieldFacts DEF Keeps
  <2>3. ZeroParams(t)
    BY <1>7, <2>2 DEF ZeroParams
  <2> QED BY <1>6, <1>7, <2>1, <2>3, FieldFacts DEF Keeps
<1>11. b.hit => /\ b.identity = 0 /\ SessionOf(c).tick_identity \in Nat \ {0}
                /\ t.early = b.early
  BY <1>3, <1>7, <1>8, <1>10 DEF SessionOf
<1>12. r = TlsClntParseExtensions(t, ServerHelloExt(b, Share(b)), SessionOf(c))
  BY <1>6
<1> HIDE DEF t, b, r
<1>13. Joined(r, b)
  <2> DEFINE p == SessionOf(c)
  <2>1. b.hit => b.identity = 0 /\ p.tick_identity \in Nat \ {0} /\ t.early = b.early
    BY <1>11
  <2>2. r = TlsClntParseExtensions(t, ServerHelloExt(b, Share(b)), p)
    BY <1>12
  <2> HIDE DEF p
  <2>3. Joins(c, b, p, t)
    BY <1>8, <1>9, <1>10, <2>1 DEF Joins
  <2> QED BY <2>2, <2>3, ReadsServerHello
<1>14. DownOnly(c) /\ down'[c] = Tail(down[c])
  BY <1>1, <1>3 DEF DownOnly
<1> HIDE DEF m
<1>15. CASE /\ r.ok /\ sess' = QuicGetSession(sess, c, s, m.cipher)
            /\ clnt' = [clnt EXCEPT ![c].st = "hello", ![c].tls = r,
                                    ![c].session = IF s = NoVal THEN c ELSE s]
  <2>1. /\ ClntOnly(c) /\ clnt'[c].st = "hello" /\ clnt'[c].tls = r
        /\ clnt'[c].session = (IF s = NoVal THEN c ELSE s)
        /\ clnt'[c].param = clnt[c].param /\ clnt'[c].offer = clnt[c].offer
    BY <1>3, <1>15 DEF ClntOnly, ClntFields
  <2>2. IF s = NoVal THEN /\ SessOnly(c)
                          /\ \E x : sess'[c] = QuicSessionCreate(x)
        ELSE sess' = sess
    BY <1>3, <1>15, SessionFacts DEF QuicGetSession, SessOnly
  <2>3. HelloRead(c)
    BY <1>13, <2>1, <2>2 DEF HelloRead, b, Joined
  <2> QED BY <1>1, <1>4, <1>14, <2>1, <2>3
<1>16. CASE clnt' = [clnt EXCEPT ![c].st = "error"] /\ sess' = sess
  <2>1. /\ ClntOnly(c) /\ clnt'[c].st = "error" /\ clnt'[c].tls = clnt[c].tls
        /\ clnt'[c].session = clnt[c].session
        /\ clnt'[c].param = clnt[c].param /\ clnt'[c].offer = clnt[c].offer
    BY <1>3, <1>16 DEF ClntOnly, ClntFields
  <2>2. HelloFailed(c)
    BY <1>16, <2>1 DEF HelloFailed
  <2> QED BY <1>1, <1>4, <1>14, <2>1, <2>2
<1> QED BY <1>2, <1>15, <1>16

\* The client read the EncryptedExtensions.
EncRead(c) ==
    LET t == clnt'[c].tls
        u == clnt[c].tls
    IN  /\ clnt'[c].st = "ready" /\ DOMAIN t = TlsFields /\ Applies(t, SrvrParam)
        /\ t.hit = u.hit /\ t.cipher = u.cipher /\ t.secret = u.secret /\ t.group = u.group
        /\ UpOnly(c)
        /\ \E m : up'[c] = Append(up[c], m) /\ m.type = "finished"

EncFailed(c) ==
    clnt'[c].st = "error" /\ clnt'[c].tls = clnt[c].tls /\ up' = up

LEMMA EncEffect ==
    ASSUME ShapeInv, MessagesInv, ClientInv, NEW c \in Conns, TlsEncExtProc(c)
    PROVE  /\ clnt[c].st = "hello" /\ Takes(c, down[c]) /\ DownOnly(c)
           /\ down'[c] = Tail(down[c]) /\ ClntOnly(c)
           /\ clnt'[c].param = clnt[c].param /\ clnt'[c].offer = clnt[c].offer
           /\ clnt'[c].session = clnt[c].session
           /\ EncRead(c) \/ EncFailed(c)
           /\ UNCHANGED <<srvr, sess, held, now, gen>>
<1> DEFINE m == Head(down[c])
           t == clnt[c].tls
           b == srvr[c].tls
           r == TlsClntParseExtensions(t, m.ext, SessionOf(c))
           fin == [type |-> "finished", key |-> r.secret]
<1>1. /\ clnt[c].st = "hello" /\ down[c] # <<>> /\ m.type = "encrypted_ext"
      /\ down' = [down EXCEPT ![c] = Tail(down[c])]
      /\ UNCHANGED <<srvr, sess, held, now, gen>>
  BY DEF TlsEncExtProc
<1>2. \/ /\ r.ok /\ clnt' = [clnt EXCEPT ![c].st = "ready", ![c].tls = r]
         /\ up' = [up EXCEPT ![c] = Append(up[c], fin)]
      \/ clnt' = [clnt EXCEPT ![c].st = "error"] /\ up' = up
  BY DEF TlsEncExtProc
<1>3. /\ DOMAIN clnt = Conns /\ DOMAIN clnt[c] = ClntFields /\ DOMAIN t = TlsFields
      /\ DOMAIN down = Conns /\ IsSeq(down[c]) /\ DOMAIN up = Conns
  BY DEF ShapeInv, ClntShape, SrvrShape, SessShape
<1>4. Takes(c, down[c])
  BY <1>1, <1>3, TakesFacts
<1>5. m.ext = EncryptedExt(b, c)
  <2>1. m = down[c][1] /\ 1 \in 1 .. Len(down[c])
    <3> DEFINE n == Len(down[c])
    <3>1. n \in Nat /\ n >= 1 /\ m = down[c][1]
      BY <1>4 DEF Takes
    <3> HIDE DEF n
    <3>2. 1 \in 1 .. n
      BY <3>1
    <3> QED BY <3>1, <3>2 DEF n
  <2> HIDE DEF m
  <2>2. down[c][1].type = "encrypted_ext" => down[c][1].ext = EncryptedExt(srvr[c].tls, c)
    BY <2>1 DEF MessagesInv, MessagesAt, UpMessage, DownMessage
  <2> QED BY <1>1, <2>1, <2>2
<1>6. t.ok = TRUE /\ ZeroParams(t)
  BY <1>1 DEF ClientInv, ClientAt
<1>7. r = TlsClntParseExtensions(t, EncryptedExt(b, c), SessionOf(c))
  BY <1>5
<1>8. DownOnly(c) /\ down'[c] = Tail(down[c])
  BY <1>1, <1>3 DEF DownOnly
<1> HIDE DEF m, r, t, b
<1>9. CASE /\ r.ok /\ clnt' = [clnt EXCEPT ![c].st = "ready", ![c].tls = r]
           /\ up' = [up EXCEPT ![c] = Append(up[c], fin)]
  <2>1. Keeps(t, r, {"alpn_selected", "ok", "param"}) /\ Applies(r, SrvrParam)
    BY <1>3, <1>6, <1>7, <1>9, ReadsEncryptedExt
  <2>2. /\ r.hit = t.hit /\ r.cipher = t.cipher /\ r.secret = t.secret /\ r.group = t.group
        /\ DOMAIN r = TlsFields
    BY <2>1, FieldFacts DEF Keeps
  <2>3. /\ ClntOnly(c) /\ clnt'[c].st = "ready" /\ clnt'[c].tls = r
        /\ clnt'[c].param = clnt[c].param /\ clnt'[c].offer = clnt[c].offer
        /\ clnt'[c].session = clnt[c].session
    BY <1>3, <1>9 DEF ClntOnly, ClntFields
  <2>4. fin.type = "finished"
    OBVIOUS
  <2> HIDE DEF fin
  <2>5. UpOnly(c) /\ up'[c] = Append(up[c], fin)
    BY <1>3, <1>9 DEF UpOnly
  <2>6. EncRead(c)
    BY <2>1, <2>2, <2>3, <2>4, <2>5 DEF EncRead, t
  <2> QED BY <1>1, <1>4, <1>8, <2>3, <2>6
<1>10. CASE clnt' = [clnt EXCEPT ![c].st = "error"] /\ up' = up
  <2>1. /\ ClntOnly(c) /\ clnt'[c].st = "error" /\ clnt'[c].tls = clnt[c].tls
        /\ clnt'[c].session = clnt[c].session
        /\ clnt'[c].param = clnt[c].param /\ clnt'[c].offer = clnt[c].offer
    BY <1>3, <1>10 DEF ClntOnly, ClntFields
  <2>2. EncFailed(c)
    BY <1>10, <2>1 DEF EncFailed
  <2> QED BY <1>1, <1>4, <1>8, <2>1, <2>2
<1> QED BY <1>2, <1>9, <1>10

\* A ticket message of a server with this TLS record and this key.
Issued(m, tls, key) ==
    /\ m.type = "ticket" /\ IsTicket(m.ticket) /\ m.ticket.key = key
    /\ TicketKey(m.ticket) = MasterKeyGen(tls, m.nonce)

LEMMA TicketBuildFacts ==
    ASSUME NEW q, DOMAIN q = SrvrFields, DOMAIN q.session = SessFields,
           IsSeq(q.session.tickets), NEW r, r = TlsSrvrNewSessionTicketBuild(q)
    PROVE  /\ DOMAIN r.q = SrvrFields /\ r.q.tls = q.tls /\ r.q.gen = q.gen
           /\ DOMAIN r.q.session = SessFields /\ IsSeq(r.q.session.tickets)
           /\ Issued(r.msg, q.tls, q.gen)
<1> DEFINE key == MasterKeyGen(q.tls, q.nonce)
           t == [master_key |-> key]
           s == QuicSessionTicketAdd(q.session, t)
           e == i2dQuicSession(s)
           msg == [type |-> "ticket", key |-> q.tls.secret, nonce |-> q.nonce,
                   lifetime_hint |-> Lifetime, ticket |-> [key |-> q.gen, session |-> e],
                   early_data |-> TlsExtSrvrConstructEarlyData]
<1>1. r = [q |-> [q EXCEPT !.session = s, !.nonce = q.nonce + 1], msg |-> msg]
  BY DEF TlsSrvrNewSessionTicketBuild, TlsConstructStatelessTicket
<1>2. t.master_key = key
  OBVIOUS
<1> HIDE DEF t
<1>3. /\ DOMAIN s = SessFields /\ s.tickets = Append(q.session.tickets, t)
  BY FieldFacts DEF QuicSessionTicketAdd
<1>4. IsSeq(s.tickets) /\ Last(s.tickets) = t
  BY <1>3, AppendFacts
<1> HIDE DEF s
<1>5. DOMAIN e = SessFields /\ e.tickets = <<Last(s.tickets)>>
  BY FieldFacts DEF i2dQuicSession, QuicSessionCreate
<1>6. IsSeq(e.tickets) /\ Last(e.tickets) = t
  BY <1>4, <1>5, OneSeq
<1> HIDE DEF e, key
<1>7. /\ msg.type = "ticket" /\ msg.ticket.key = q.gen /\ msg.ticket.session = e
      /\ msg.nonce = q.nonce
  OBVIOUS
<1> HIDE DEF msg
<1>8. Issued(msg, q.tls, q.gen)
  BY <1>2, <1>5, <1>6, <1>7 DEF Issued, IsTicket, TicketKey, key
<1> DEFINE q2 == [q EXCEPT !.session = s, !.nonce = q.nonce + 1]
<1>9. DOMAIN q2 = SrvrFields /\ q2.tls = q.tls /\ q2.gen = q.gen /\ q2.session = s
  BY DEF SrvrFields
<1>10. r.q = q2 /\ r.msg = msg
  BY <1>1
<1> HIDE DEF q2
<1> QED BY <1>3, <1>4, <1>8, <1>9, <1>10

LEMMA FinishedEffect ==
    ASSUME ShapeInv, ServerInv, NEW c \in Conns, TlsSrvrFinishedProc(c)
    PROVE  /\ srvr[c].st = "flight" /\ Takes(c, up[c]) /\ up[c][1].type = "finished"
           /\ UpOnly(c) /\ up'[c] = Tail(up[c]) /\ SrvrOnly(c)
           /\ srvr'[c].st = "done" /\ srvr'[c].tls = srvr[c].tls /\ srvr'[c].gen = srvr[c].gen
           /\ DownOnly(c)
           /\ \E a, b : /\ down'[c] = Append(Append(down[c], a), b)
                        /\ Issued(a, srvr[c].tls, srvr[c].gen)
                        /\ Issued(b, srvr[c].tls, srvr[c].gen)
           /\ UNCHANGED <<clnt, sess, held, now, gen>>
<1> DEFINE m == Head(up[c])
           a == TlsSrvrNewSessionTicketBuild(srvr[c])
           b == TlsSrvrNewSessionTicketBuild(a.q)
           done == [b.q EXCEPT !.st = "done"]
<1>1. /\ srvr[c].st = "flight" /\ up[c] # <<>> /\ m.type = "finished"
      /\ up' = [up EXCEPT ![c] = Tail(up[c])]
      /\ srvr' = [srvr EXCEPT ![c] = done]
      /\ down' = [down EXCEPT ![c] = down[c] \o <<a.msg, b.msg>>]
      /\ UNCHANGED <<clnt, sess, held, now, gen>>
  BY DEF TlsSrvrFinishedProc
<1>2. /\ DOMAIN srvr = Conns /\ DOMAIN srvr[c] = SrvrFields /\ DOMAIN up = Conns
      /\ DOMAIN down = Conns /\ IsSeq(up[c]) /\ IsSeq(down[c])
  BY DEF ShapeInv, ClntShape, SrvrShape, SessShape
<1>3. DOMAIN srvr[c].session = SessFields /\ IsSeq(srvr[c].session.tickets)
  BY <1>1 DEF ServerInv, ServerAt
<1>4. Takes(c, up[c])
  BY <1>1, <1>2, TakesFacts
<1>5. up[c][1].type = "finished"
  BY <1>1, <1>4 DEF Takes
<1> HIDE DEF a, b, m
<1>6. /\ DOMAIN a.q = SrvrFields /\ a.q.tls = srvr[c].tls /\ a.q.gen = srvr[c].gen
      /\ DOMAIN a.q.session = SessFields /\ IsSeq(a.q.session.tickets)
      /\ Issued(a.msg, srvr[c].tls, srvr[c].gen)
  BY <1>2, <1>3, TicketBuildFacts DEF a
<1>7. /\ DOMAIN b.q = SrvrFields /\ b.q.tls = srvr[c].tls /\ b.q.gen = srvr[c].gen
      /\ Issued(b.msg, srvr[c].tls, srvr[c].gen)
  BY <1>6, TicketBuildFacts DEF b
<1>8. /\ SrvrOnly(c) /\ srvr'[c].st = "done" /\ srvr'[c].tls = srvr[c].tls
      /\ srvr'[c].gen = srvr[c].gen
  <2>1. DOMAIN done = SrvrFields /\ done.st = "done" /\ done.tls = b.q.tls /\ done.gen = b.q.gen
    BY <1>7 DEF SrvrFields
  <2> HIDE DEF done
  <2> QED BY <1>1, <1>2, <1>7, <2>1 DEF SrvrOnly
<1>9. UpOnly(c) /\ up'[c] = Tail(up[c])
  BY <1>1, <1>2 DEF UpOnly
<1>10. DownOnly(c) /\ down'[c] = Append(Append(down[c], a.msg), b.msg)
  <2> DEFINE q == down[c]
             S == ToSet(q) \cup {a.msg, b.msg}
             x == a.msg
             y == b.msg
  <2>1. q \in Seq(S) /\ x \in S /\ y \in S
    <3>1. q \in [1 .. Len(q) -> S] /\ Len(q) \in Nat
      BY <1>2, SeqFacts DEF ToSet, IsSeq
    <3> QED BY <3>1, SeqDef
  <2>2. DownOnly(c) /\ down'[c] = q \o <<x, y>>
    BY <1>1, <1>2 DEF DownOnly
  <2> HIDE DEF S, q, x, y
  <2>3. q \o <<x, y>> = Append(Append(q, x), y)
    BY <2>1
  <2> QED BY <2>2, <2>3 DEF q, x, y
<1> QED BY <1>1, <1>4, <1>5, <1>6, <1>7, <1>8, <1>9, <1>10

LEMMA TicketEffect ==
    ASSUME ShapeInv, ClientInv, NEW c \in Conns, TlsClntNewSessionTicketProc(c)
    PROVE  LET s == clnt[c].session
           IN  /\ clnt[c].st = "ready" /\ Takes(c, down[c]) /\ DownOnly(c)
               /\ down'[c] = Tail(down[c]) /\ down[c][1].type = "ticket"
               /\ s \in Conns /\ SessOnly(s) /\ sess'[s].references = sess[s].references
               /\ sess'[s].tick_identity = sess[s].tick_identity + 1
               /\ \E t : /\ t.ticket = down[c][1].ticket
                         /\ t.master_key = MasterKeyGen(clnt[c].tls, down[c][1].nonce)
                         /\ sess'[s].tickets = Append(sess[s].tickets, t)
               /\ UNCHANGED <<clnt, srvr, held, up, now, gen>>
<1> DEFINE s == clnt[c].session
           m == Head(down[c])
           t == [ticket |-> m.ticket, master_key |-> MasterKeyGen(clnt[c].tls, m.nonce),
                 time |-> now, lifetime_hint |-> m.lifetime_hint]
           add == QuicSessionTicketAdd(sess[s], t)
           new == TlsExtClntParseEarlyData(add, m.early_data)
<1>1. /\ clnt[c].st = "ready" /\ down[c] # <<>> /\ m.type = "ticket"
      /\ down' = [down EXCEPT ![c] = Tail(down[c])]
      /\ sess' = [sess EXCEPT ![s] = new]
      /\ UNCHANGED <<clnt, srvr, held, up, now, gen>>
  BY DEF TlsClntNewSessionTicketProc
<1>2. /\ DOMAIN sess = Conns /\ DOMAIN down = Conns /\ IsSeq(down[c])
  BY DEF ShapeInv, ClntShape, SrvrShape, SessShape
<1>3. s \in Conns
  BY <1>1 DEF ClientInv, ClientAt
<1>4. DOMAIN sess[s] = SessFields
  BY <1>3 DEF ShapeInv, ClntShape, SrvrShape, SessShape
<1>5. Takes(c, down[c])
  BY <1>1, <1>2, TakesFacts
<1>6. m = down[c][1]
  BY <1>5 DEF Takes
<1>7. t.ticket = m.ticket /\ t.master_key = MasterKeyGen(clnt[c].tls, m.nonce)
  OBVIOUS
<1> HIDE DEF t, m, s
<1>8. /\ DOMAIN add = SessFields /\ add.tickets = Append(sess[s].tickets, t)
      /\ add.tick_identity = sess[s].tick_identity + 1 /\ add.references = sess[s].references
  BY <1>4, FieldFacts DEF QuicSessionTicketAdd
<1> HIDE DEF add
<1>9. /\ DOMAIN new = SessFields /\ new.tickets = add.tickets
      /\ new.tick_identity = add.tick_identity /\ new.references = add.references
  BY <1>8, FieldFacts DEF TlsExtClntParseEarlyData
<1> HIDE DEF new
<1>10. SessOnly(s) /\ sess'[s] = new
  BY <1>1, <1>2, <1>3, <1>9 DEF SessOnly
<1>11. DownOnly(c) /\ down'[c] = Tail(down[c])
  BY <1>1, <1>2 DEF DownOnly
<1>12. \E u : /\ u.ticket = down[c][1].ticket
              /\ u.master_key = MasterKeyGen(clnt[c].tls, down[c][1].nonce)
              /\ sess'[s].tickets = Append(sess[s].tickets, u)
  BY <1>6, <1>7, <1>8, <1>9, <1>10
<1> QED BY <1>1, <1>3, <1>5, <1>6, <1>8, <1>9, <1>10, <1>11, <1>12 DEF s

-----------------------------------------------------------------------------
(* What a step leaves alone. *)

\* A server end that has answered keeps what it knows.
SrvrKept ==
    \A d \in Conns : srvr[d].st # "none" =>
        srvr'[d].st # "none" /\ srvr'[d].gen = srvr[d].gen /\ srvr'[d].tls = srvr[d].tls

LEMMA SealedStays ==
    ASSUME SrvrKept, NEW d \in Conns, NEW key, NEW x, Sealed(d, key, x)
    PROVE  Sealed(d, key, x)'
BY DEF SrvrKept, Sealed

LEMMA GoodStays ==
    ASSUME SrvrKept, NEW t, GoodTicket(t) PROVE GoodTicket(t)'
<1>1. PICK d \in Conns : Sealed(d, t.ticket.key, t.master_key.secret)
  BY DEF GoodTicket
<1>2. Sealed(d, t.ticket.key, t.master_key.secret)'
  BY <1>1, SealedStays
<1> QED BY <1>2 DEF GoodTicket, IsTicket, TicketKey

\* Sessions keep their tickets or lose them all.
LEMMA TicketsStay ==
    ASSUME SrvrKept, TicketsInv,
           \A s \in Conns :
             \/ /\ sess'[s].tickets = sess[s].tickets
                /\ sess'[s].tick_identity = sess[s].tick_identity
             \/ sess'[s].tickets = <<>> /\ sess'[s].tick_identity \in Nat
    PROVE  TicketsInv'
<1>1. ASSUME NEW s \in Conns
      PROVE  /\ Len(sess'[s].tickets) <= sess'[s].tick_identity
             /\ \A i \in 1 .. Len(sess'[s].tickets) : GoodTicket(sess[s].tickets[i])'
  <2>1. CASE /\ sess'[s].tickets = sess[s].tickets
             /\ sess'[s].tick_identity = sess[s].tick_identity
    <3>1. ASSUME NEW i \in 1 .. Len(sess'[s].tickets)
          PROVE  GoodTicket(sess[s].tickets[i])'
      <4>1. PICK t : t = sess[s].tickets[i]
        OBVIOUS
      <4>2. GoodTicket(t)
        BY <2>1, <4>1 DEF TicketsInv
      <4>3. GoodTicket(t)'
        BY <4>2, GoodStays
      <4> QED BY <2>1, <4>1, <4>3 DEF GoodTicket
    <3> QED BY <2>1, <3>1 DEF TicketsInv
  <2>2. CASE sess'[s].tickets = <<>> /\ sess'[s].tick_identity \in Nat
    BY <2>2
  <2> QED BY <2>1, <2>2
<1> QED BY <1>1 DEF TicketsInv

LEMMA OfferStays ==
    ASSUME SrvrKept, NEW c \in Conns, clnt'[c].offer = clnt[c].offer, OfferAt(c)
    PROVE  OfferAt(c)'
<1> SUFFICES ASSUME clnt[c].offer # <<>> PROVE OfferAt(c)'
  BY DEF OfferAt
<1> DEFINE o == clnt[c].offer[1]
<1>1. PICK d \in Conns \ {c} : Sealed(d, o.identity.key, TicketKey(o.identity).secret)
  BY DEF OfferAt
<1>2. PICK i : i = o.identity
  OBVIOUS
<1>3. Sealed(d, i.key, TicketKey(i).secret)'
  BY <1>1, <1>2, SealedStays DEF TicketKey
<1> QED BY <1>1, <1>2, <1>3 DEF OfferAt, IsTicket, TicketKey, PskSecret

LEMMA MessagesStay ==
    ASSUME NEW c \in Conns, MessagesAt(c), up'[c] = up[c], down'[c] = down[c],
           clnt'[c].st = clnt[c].st, clnt'[c].param = clnt[c].param,
           clnt'[c].offer = clnt[c].offer, srvr'[c].st = "none" <=> srvr[c].st = "none",
           srvr'[c].gen = srvr[c].gen, srvr'[c].tls = srvr[c].tls
    PROVE  MessagesAt(c)'
<1>1. up[c] # <<>> => UpMessage(c, up[c][1])'
  BY DEF MessagesAt, UpMessage
<1>2. \A m : DownMessage(c, m) => DownMessage(c, m)'
  BY DEF DownMessage
<1> QED BY <1>1, <1>2 DEF MessagesAt

LEMMA ClientStays ==
    ASSUME NEW c \in Conns, ClientAt(c), clnt'[c] = clnt[c], up'[c] = up[c],
           srvr'[c].st = "none" <=> srvr[c].st = "none", srvr'[c].tls = srvr[c].tls,
           clnt[c].session \in Conns /\ sess[clnt[c].session].tick_identity > 0 =>
             sess'[clnt[c].session].tick_identity > 0
    PROVE  ClientAt(c)'
BY DEF ClientAt

LEMMA ServerStays ==
    ASSUME NEW c \in Conns, ServerAt(c), clnt'[c].offer = clnt[c].offer,
           clnt'[c].param = clnt[c].param, srvr'[c].gen = srvr[c].gen,
           srvr'[c].tls = srvr[c].tls, srvr'[c].st = "none" <=> srvr[c].st = "none",
           srvr'[c].st \in {"flight", "done"} => srvr[c].st \in {"flight", "done"},
           srvr'[c].st = "flight" =>
             srvr[c].st = "flight" /\ srvr'[c].session = srvr[c].session
    PROVE  ServerAt(c)'
BY DEF ServerAt

-----------------------------------------------------------------------------
(* Counting the owners of a session. *)

Owners(s) == {c \in Conns : clnt[c].session = s}

LEMMA OwnersFinite ==
    \A s : IsFiniteSet(Owners(s)) /\ Cardinality(Owners(s)) \in Nat
BY ResumptionAssumption, FS_Subset, FS_CardinalityType DEF Owners

LEMMA OwnersFinite1 ==
    \A s : IsFiniteSet(Owners(s)') /\ Cardinality(Owners(s)') \in Nat
BY ResumptionAssumption, FS_Subset, FS_CardinalityType DEF Owners

LEMMA OwnersCounted ==
    RefsCountOwners <=> \A s \in Conns : sess[s].references = Cardinality(Owners(s)) + held[s]
BY DEF RefsCountOwners, Owners

LEMMA OwnersCounted1 ==
    RefsCountOwners' <=>
        \A s \in Conns : sess'[s].references = Cardinality(Owners(s)') + held'[s]
BY DEF RefsCountOwners, Owners

\* One owner, two owners and no owner.
LEMMA OwnersOne ==
    ASSUME NEW c \in Conns, NEW s, clnt[c].session = s PROVE Cardinality(Owners(s)) >= 1
<1>1. c \in Owners(s)
  BY DEF Owners
<1>2. /\ IsFiniteSet(Owners(s) \ {c}) /\ Cardinality(Owners(s) \ {c}) = Cardinality(Owners(s)) - 1
  BY <1>1, OwnersFinite, FS_RemoveElement
<1>3. Cardinality(Owners(s) \ {c}) \in Nat
  BY <1>2, FS_CardinalityType
<1> QED BY <1>2, <1>3, OwnersFinite

LEMMA OwnersTwo ==
    ASSUME NEW c \in Conns, NEW d \in Conns, c # d, NEW s, clnt[c].session = s,
           clnt[d].session = s
    PROVE  Cardinality(Owners(s)) >= 2
<1> DEFINE S == Owners(s) \ {c}
           T == S \ {d}
<1>1. c \in Owners(s) /\ d \in S
  BY DEF Owners
<1>2. IsFiniteSet(S) /\ Cardinality(S) = Cardinality(Owners(s)) - 1
  BY <1>1, OwnersFinite, FS_RemoveElement
<1> HIDE DEF S
<1>3. IsFiniteSet(T) /\ Cardinality(T) = Cardinality(S) - 1
  BY <1>1, <1>2, FS_RemoveElement
<1> HIDE DEF T
<1>4. Cardinality(T) \in Nat /\ Cardinality(S) \in Nat
  BY <1>2, <1>3, FS_CardinalityType
<1> QED BY <1>2, <1>3, <1>4, OwnersFinite

LEMMA OwnersNone ==
    ASSUME NEW s, \A c \in Conns : clnt[c].session # s PROVE Cardinality(Owners(s)) = 0
<1>1. Owners(s) = {}
  BY DEF Owners
<1> QED BY <1>1, FS_EmptySet

\* The connection c goes from the session a to the session b.
LEMMA OwnersSame ==
    ASSUME NEW c \in Conns, ClntOnly(c), NEW s,
           clnt'[c].session = s <=> clnt[c].session = s
    PROVE  Cardinality(Owners(s)') = Cardinality(Owners(s))
<1>1. Owners(s)' = Owners(s)
  BY DEF Owners, ClntOnly
<1> QED BY <1>1

LEMMA OwnersFewer ==
    ASSUME NEW c \in Conns, ClntOnly(c), NEW s, clnt[c].session = s, clnt'[c].session # s
    PROVE  Cardinality(Owners(s)') = Cardinality(Owners(s)) - 1
<1>1. Owners(s)' = Owners(s) \ {c} /\ c \in Owners(s)
  BY DEF Owners, ClntOnly
<1> QED BY <1>1, OwnersFinite, FS_RemoveElement

LEMMA OwnersMore ==
    ASSUME NEW c \in Conns, ClntOnly(c), NEW s, clnt[c].session # s, clnt'[c].session = s
    PROVE  Cardinality(Owners(s)') = Cardinality(Owners(s)) + 1
<1>1. Owners(s)' = Owners(s) \cup {c} /\ c \notin Owners(s)
  BY DEF Owners, ClntOnly
<1> QED BY <1>1, OwnersFinite, FS_AddElement

\* A session that another connection has outlives this one's reference.
LEMMA ReleaseSpares ==
    ASSUME ShapeInv, RefsCountOwners, NEW c \in Conns, Released(clnt[c].session),
           NEW d \in Conns, d # c, NEW s \in Conns, clnt[d].session = s
    PROVE  sess'[s].tick_identity = sess[s].tick_identity
<1>1. NoVal \notin Conns
  BY ResumptionAssumption
<1>2. CASE clnt[c].session = s
  <2>1. Cardinality(Owners(s)) >= 2
    BY <1>2, OwnersTwo
  <2>2. sess[s].references = Cardinality(Owners(s)) + held[s] /\ held[s] \in Nat
    BY OwnersCounted DEF ShapeInv
  <2>3. sess[s].references > 1
    BY <2>1, <2>2, OwnersFinite
  <2> QED BY <1>1, <1>2, <2>3 DEF Released
<1>3. CASE clnt[c].session # s
  BY <1>1, <1>3 DEF Released, SessOnly
<1> QED BY <1>2, <1>3

\* The shape and the tickets of sessions after one lost a reference.
LEMMA ReleaseShapes ==
    ASSUME ShapeInv, NEW a \in Conns \cup {NoVal}, Released(a)
    PROVE  /\ DOMAIN sess' = Conns /\ \A d \in Conns : SessShape(d)'
           /\ \A d \in Conns :
                \/ /\ sess'[d].tickets = sess[d].tickets
                   /\ sess'[d].tick_identity = sess[d].tick_identity
                \/ sess'[d].tickets = <<>> /\ sess'[d].tick_identity \in Nat
<1>1. DOMAIN sess = Conns /\ (\A d \in Conns : SessShape(d)) /\ NoVal \notin Conns
  BY ResumptionAssumption DEF ShapeInv
<1>2. CASE a = NoVal
  BY <1>1, <1>2 DEF Released, SessShape
<1>3. CASE a # NoVal /\ sess[a].references > 1
  <2>1. /\ SessOnly(a) /\ sess'[a].references = sess[a].references - 1
        /\ sess'[a].tickets = sess[a].tickets
        /\ sess'[a].tick_identity = sess[a].tick_identity
    BY <1>3 DEF Released
  <2>2. SessShape(a)
    BY <1>1, <1>3
  <2>3. SessShape(a)'
    BY <1>3, <2>1, <2>2 DEF SessShape, SessOnly
  <2> QED BY <1>1, <2>1, <2>3 DEF SessOnly, SessShape
<1>4. CASE a # NoVal /\ ~ (sess[a].references > 1)
  <2>1. SessOnly(a) /\ sess'[a] = NoSession
    BY <1>4 DEF Released
  <2>2. SessShape(a)'
    BY <2>1, SessionFacts, NothingIsSeq DEF SessShape
  <2> QED BY <1>1, <2>1, <2>2, SessionFacts DEF SessOnly, SessShape
<1> QED BY <1>2, <1>3, <1>4

-----------------------------------------------------------------------------
(* Every action keeps the invariant: the application. *)

LEMMA NewKeeps == ASSUME Inv, NEW c \in Conns, QuicNew(c) PROVE Inv'
<1>1. /\ ClntOnly(c) /\ clnt[c].st = "none" /\ clnt'[c].st = "new"
      /\ clnt'[c].tls = clnt[c].tls /\ clnt'[c].session = clnt[c].session
      /\ clnt'[c].offer = clnt[c].offer
      /\ UNCHANGED <<srvr, sess, held, up, down, now, gen>>
  BY NewEffect DEF Inv
<1>2. SrvrKept
  BY <1>1 DEF SrvrKept
<1>3. ShapeInv'
  BY <1>1 DEF Inv, ShapeInv, ClntOnly, ClntShape, SrvrShape, SessShape
<1>4. OwnersInv'
  <2>1. RefsCountOwners'
    BY <1>1, OwnersCounted, OwnersCounted1, OwnersSame DEF Inv, OwnersInv
  <2>2. NotYetMade'
    BY <1>1 DEF Inv, OwnersInv, NotYetMade, ClntOnly
  <2> QED BY <2>1, <2>2 DEF OwnersInv
<1>5. TicketsInv'
  BY <1>1, <1>2, TicketsStay DEF Inv
<1>6. OffersInv'
  BY <1>1, <1>2, OfferStays DEF Inv, OffersInv, ClntOnly
<1>7. /\ srvr[c].st = "none" /\ up[c] = <<>>
      /\ clnt[c].tls = TlsNew /\ clnt[c].offer = <<>>
  BY <1>1 DEF Inv, ClientInv, ClientAt
<1>8. MessagesInv'
  <2>1. MessagesAt(c)'
    BY <1>1, <1>7 DEF Inv, MessagesInv, MessagesAt, DownMessage
  <2>2. ASSUME NEW d \in Conns \ {c} PROVE MessagesAt(d)'
    BY <1>1, MessagesStay DEF Inv, MessagesInv, ClntOnly
  <2> QED BY <2>1, <2>2 DEF MessagesInv
<1>9. ClientInv'
  <2>1. ClientAt(c)'
    BY <1>1, <1>7 DEF ClientAt
  <2>2. ASSUME NEW d \in Conns \ {c} PROVE ClientAt(d)'
    BY <1>1, ClientStays DEF Inv, ClientInv, ClntOnly
  <2> QED BY <2>1, <2>2 DEF ClientInv
<1>10. ServerInv'
  <2>1. ServerAt(c)'
    BY <1>1, <1>7 DEF Inv, ServerInv, ServerAt
  <2>2. ASSUME NEW d \in Conns \ {c} PROVE ServerAt(d)'
    BY <1>1, ServerStays DEF Inv, ServerInv, ClntOnly
  <2> QED BY <2>1, <2>2 DEF ServerInv
<1> QED BY <1>3, <1>4, <1>5, <1>6, <1>8, <1>9, <1>10 DEF Inv

LEMMA GetKeeps == ASSUME Inv, NEW c \in Conns, QUIC_get1_session(c) PROVE Inv'
<1> DEFINE s == clnt[c].session
<1>1. /\ s \in Conns /\ SessOnly(s) /\ held' = [held EXCEPT ![s] = @ + 1]
      /\ sess'[s].references = sess[s].references + 1
      /\ sess'[s].tickets = sess[s].tickets
      /\ sess'[s].tick_identity = sess[s].tick_identity
      /\ UNCHANGED <<clnt, srvr, up, down, now, gen>>
  BY GetEffect DEF Inv
<1>2. SrvrKept
  BY <1>1 DEF SrvrKept
<1>3. \A d \in Conns : sess'[d].tickets = sess[d].tickets
                       /\ sess'[d].tick_identity = sess[d].tick_identity
  BY <1>1 DEF SessOnly
<1>4. ShapeInv'
  <2>1. \A d \in Conns : SessShape(d)'
    BY <1>1 DEF Inv, ShapeInv, SessShape, SessOnly
  <2> QED BY <1>1, <2>1 DEF Inv, ShapeInv, SessOnly, ClntShape, SrvrShape
<1>5. OwnersInv'
  <2>1. RefsCountOwners'
    <3>1. \A d \in Conns : Owners(d)' = Owners(d)
      BY <1>1 DEF Owners
    <3>2. ASSUME NEW d \in Conns
          PROVE  sess'[d].references = Cardinality(Owners(d)') + held'[d]
      <4>1. sess[d].references = Cardinality(Owners(d)) + held[d] /\ held[d] \in Nat
            /\ DOMAIN held = Conns
        BY OwnersCounted DEF Inv, OwnersInv, ShapeInv
      <4> QED BY <1>1, <3>1, <4>1, OwnersFinite DEF SessOnly
    <3> QED BY <3>2, OwnersCounted1
  <2>2. NotYetMade'
    BY <1>1 DEF Inv, OwnersInv, NotYetMade, ShapeInv
  <2> QED BY <2>1, <2>2 DEF OwnersInv
<1>6. TicketsInv'
  BY <1>2, <1>3, TicketsStay DEF Inv
<1>7. OffersInv'
  BY <1>1, <1>2, OfferStays DEF Inv, OffersInv
<1>8. MessagesInv'
  BY <1>1, MessagesStay DEF Inv, MessagesInv
<1>9. ClientInv'
  BY <1>1, <1>3, ClientStays DEF Inv, ClientInv
<1>10. ServerInv'
  BY <1>1, ServerStays DEF Inv, ServerInv
<1> QED BY <1>4, <1>5, <1>6, <1>7, <1>8, <1>9, <1>10 DEF Inv

LEMMA SetKeeps ==
    ASSUME Inv, NEW c \in Conns, NEW s \in Conns, QUIC_set_session(c, s) PROVE Inv'
<1> DEFINE a == clnt[c].session
<1>1. /\ clnt[c].st = "new" /\ held[s] > 0 /\ held' = [held EXCEPT ![s] = @ - 1]
      /\ ClntOnly(c) /\ clnt'[c].st = clnt[c].st /\ clnt'[c].tls = clnt[c].tls
      /\ clnt'[c].session = s /\ clnt'[c].param = clnt[c].param
      /\ clnt'[c].offer = clnt[c].offer /\ Released(a)
      /\ UNCHANGED <<srvr, up, down, now, gen>>
  BY SetEffect DEF Inv
<1>2. SrvrKept
  BY <1>1 DEF SrvrKept
<1>3. a \in Conns \cup {NoVal} /\ NoVal \notin Conns
  BY ResumptionAssumption DEF Inv, ShapeInv, ClntShape
<1>4. /\ DOMAIN sess' = Conns /\ \A d \in Conns : SessShape(d)'
      /\ \A d \in Conns :
           \/ /\ sess'[d].tickets = sess[d].tickets
              /\ sess'[d].tick_identity = sess[d].tick_identity
           \/ sess'[d].tickets = <<>> /\ sess'[d].tick_identity \in Nat
  BY <1>1, <1>3, ReleaseShapes DEF Inv
<1>5. ShapeInv'
  BY <1>1, <1>4 DEF Inv, ShapeInv, ClntOnly, ClntShape, SrvrShape
<1>6. OwnersInv'
  <2>1. ASSUME NEW d \in Conns
        PROVE  sess'[d].references = Cardinality(Owners(d)') + held'[d]
    <3>1. sess[d].references = Cardinality(Owners(d)) + held[d] /\ held[d] \in Nat
          /\ DOMAIN held = Conns /\ Cardinality(Owners(d)) \in Nat
      BY OwnersCounted, OwnersFinite DEF Inv, OwnersInv, ShapeInv
    <3>2. CASE d = a /\ d = s
      <4>1. Cardinality(Owners(d)') = Cardinality(Owners(d)) /\ held'[d] = held[d] - 1
        BY <1>1, <3>1, <3>2, OwnersSame
      <4>2. Cardinality(Owners(d)) >= 1
        BY <3>2, OwnersOne
      <4>3. sess'[d].references = sess[d].references - 1
        BY <1>1, <1>3, <3>1, <3>2, <4>2 DEF Released
      <4> QED BY <3>1, <4>1, <4>3
    <3>3. CASE d = a /\ d # s
      <4>1. Cardinality(Owners(d)') = Cardinality(Owners(d)) - 1 /\ held'[d] = held[d]
        BY <1>1, <3>1, <3>3, OwnersFewer
      <4>2. Cardinality(Owners(d)) >= 1
        BY <3>3, OwnersOne
      <4>3. CASE sess[d].references > 1
        <5>1. sess'[d].references = sess[d].references - 1
          BY <1>1, <1>3, <3>3, <4>3 DEF Released
        <5> QED BY <3>1, <4>1, <5>1
      <4>4. CASE ~ (sess[d].references > 1)
        <5>1. sess'[d].references = 0
          BY <1>1, <1>3, <3>3, <4>4, SessionFacts DEF Released
        <5> QED BY <3>1, <4>1, <4>2, <4>4, <5>1
      <4> QED BY <4>3, <4>4
    <3>4. CASE d # a /\ d = s
      <4>1. Cardinality(Owners(d)') = Cardinality(Owners(d)) + 1 /\ held'[d] = held[d] - 1
        BY <1>1, <3>1, <3>4, OwnersMore
      <4>2. sess'[d].references = sess[d].references
        BY <1>1, <3>4 DEF Released, SessOnly
      <4> QED BY <3>1, <4>1, <4>2
    <3>5. CASE d # a /\ d # s
      <4>1. Cardinality(Owners(d)') = Cardinality(Owners(d)) /\ held'[d] = held[d]
        BY <1>1, <3>1, <3>5, OwnersSame
      <4>2. sess'[d].references = sess[d].references
        BY <1>1, <3>5 DEF Released, SessOnly
      <4> QED BY <3>1, <4>1, <4>2
    <3> QED BY <3>2, <3>3, <3>4, <3>5
  <2>2. RefsCountOwners'
    BY <2>1, OwnersCounted1
  <2>3. NotYetMade'
    <3>1. held \in [Conns -> Nat]
      BY DEF Inv, ShapeInv
    <3> QED BY <1>1, <3>1 DEF Inv, OwnersInv, NotYetMade, ClntOnly
  <2> QED BY <2>2, <2>3 DEF OwnersInv
<1>7. TicketsInv'
  BY <1>2, <1>4, TicketsStay DEF Inv
<1>8. OffersInv'
  BY <1>1, <1>2, OfferStays DEF Inv, OffersInv, ClntOnly
<1>9. MessagesInv'
  BY <1>1, MessagesStay DEF Inv, MessagesInv, ClntOnly
<1>10. ClientInv'
  <2>1. ClientAt(c)'
    BY <1>1 DEF Inv, ClientInv, ClientAt
  <2>2. ASSUME NEW d \in Conns \ {c} PROVE ClientAt(d)'
    <3>1. ASSUME clnt[d].session \in Conns
          PROVE  sess'[clnt[d].session].tick_identity = sess[clnt[d].session].tick_identity
      BY <1>1, <3>1, ReleaseSpares DEF Inv, OwnersInv
    <3> QED BY <1>1, <3>1, ClientStays DEF Inv, ClientInv, ClntOnly
  <2> QED BY <2>1, <2>2 DEF ClientInv
<1>11. ServerInv'
  BY <1>1, ServerStays DEF Inv, ServerInv, ClntOnly
<1> QED BY <1>5, <1>6, <1>7, <1>8, <1>9, <1>10, <1>11 DEF Inv

\* Nothing is on its way from a connection that failed.
LEMMA NothingUp ==
    ASSUME Inv, NEW c \in Conns, clnt[c].st \in {"error", "hello"} PROVE up[c] = <<>>
BY DEF Inv, MessagesInv, MessagesAt, UpMessage

LEMMA FreeKeeps == ASSUME Inv, NEW c \in Conns, QuicFree(c) PROVE Inv'
<1> DEFINE a == clnt[c].session
<1>1. /\ clnt[c].st \in {"new", "ready", "error"} /\ ClntOnly(c)
      /\ clnt'[c].st = "free" /\ clnt'[c].tls = TlsNew /\ clnt'[c].session = NoVal
      /\ clnt'[c].param = clnt[c].param /\ clnt'[c].offer = clnt[c].offer
      /\ Released(a) /\ DownOnly(c) /\ down'[c] = <<>>
      /\ UNCHANGED <<srvr, held, up, now, gen>>
  BY FreeEffect DEF Inv
<1>2. SrvrKept
  BY <1>1 DEF SrvrKept
<1>3. a \in Conns \cup {NoVal} /\ NoVal \notin Conns
  BY ResumptionAssumption DEF Inv, ShapeInv, ClntShape
<1>4. /\ DOMAIN sess' = Conns /\ \A d \in Conns : SessShape(d)'
      /\ \A d \in Conns :
           \/ /\ sess'[d].tickets = sess[d].tickets
              /\ sess'[d].tick_identity = sess[d].tick_identity
           \/ sess'[d].tickets = <<>> /\ sess'[d].tick_identity \in Nat
  BY <1>1, <1>3, ReleaseShapes DEF Inv
<1>5. ShapeInv'
  BY <1>1, <1>4, TlsNewFacts, NothingIsSeq
     DEF Inv, ShapeInv, ClntOnly, DownOnly, ClntShape, SrvrShape
<1>6. OwnersInv'
  <2>1. ASSUME NEW d \in Conns
        PROVE  sess'[d].references = Cardinality(Owners(d)') + held'[d]
    <3>1. sess[d].references = Cardinality(Owners(d)) + held[d] /\ held[d] \in Nat
          /\ Cardinality(Owners(d)) \in Nat
      BY OwnersCounted, OwnersFinite DEF Inv, OwnersInv, ShapeInv
    <3>2. CASE d = a
      <4>1. Cardinality(Owners(d)') = Cardinality(Owners(d)) - 1 /\ held'[d] = held[d]
        BY <1>1, <1>3, <3>1, <3>2, OwnersFewer
      <4>2. Cardinality(Owners(d)) >= 1
        BY <3>2, OwnersOne
      <4>3. CASE sess[d].references > 1
        <5>1. sess'[d].references = sess[d].references - 1
          BY <1>1, <1>3, <3>2, <4>3 DEF Released
        <5> QED BY <3>1, <4>1, <5>1
      <4>4. CASE ~ (sess[d].references > 1)
        <5>1. sess'[d].references = 0
          BY <1>1, <1>3, <3>2, <4>4, SessionFacts DEF Released
        <5> QED BY <3>1, <4>1, <4>2, <4>4, <5>1
      <4> QED BY <4>3, <4>4
    <3>3. CASE d # a
      <4>1. Cardinality(Owners(d)') = Cardinality(Owners(d)) /\ held'[d] = held[d]
        BY <1>1, <1>3, <3>1, <3>3, OwnersSame
      <4>2. sess'[d].references = sess[d].references
        BY <1>1, <3>3 DEF Released, SessOnly
      <4> QED BY <3>1, <4>1, <4>2
    <3> QED BY <3>2, <3>3
  <2>2. RefsCountOwners'
    BY <2>1, OwnersCounted1
  <2>3. NotYetMade'
    BY <1>1, <1>3 DEF Inv, OwnersInv, NotYetMade, ClntOnly
  <2> QED BY <2>2, <2>3 DEF OwnersInv
<1>7. TicketsInv'
  BY <1>2, <1>4, TicketsStay DEF Inv
<1>8. OffersInv'
  BY <1>1, <1>2, OfferStays DEF Inv, OffersInv, ClntOnly
<1>9. MessagesInv'
  <2>1. MessagesAt(c)'
    <3>1. up[c] # <<>> => clnt[c].st = "ready"
      BY <1>1, NothingUp DEF Inv, ClientInv, ClientAt
    <3>2. /\ Len(up[c]) <= 1
          /\ up[c] # <<>> => up[c][1].type # "client_hello"
      BY <3>1 DEF Inv, MessagesInv, MessagesAt, UpMessage
    <3>3. UpMessage(c, up[c][1])' <=> (up[c][1].type # "client_hello")
      BY <1>1 DEF UpMessage
    <3>4. (up[c] # <<>> => UpMessage(c, up[c][1]))'
      BY <1>1, <3>2, <3>3
    <3>5. Len(up'[c]) <= 1 /\ \A i \in 1 .. Len(down'[c]) : FALSE
      BY <1>1, <3>2
    <3> QED BY <1>1, <3>4, <3>5 DEF MessagesAt
  <2>2. ASSUME NEW d \in Conns \ {c} PROVE MessagesAt(d)'
    BY <1>1, MessagesStay DEF Inv, MessagesInv, ClntOnly, DownOnly
  <2> QED BY <2>1, <2>2 DEF MessagesInv
<1>10. ClientInv'
  <2>1. ClientAt(c)'
    BY <1>1 DEF ClientAt
  <2>2. ASSUME NEW d \in Conns \ {c} PROVE ClientAt(d)'
    <3>1. ASSUME clnt[d].session \in Conns
          PROVE  sess'[clnt[d].session].tick_identity = sess[clnt[d].session].tick_identity
      BY <1>1, <3>1, ReleaseSpares DEF Inv, OwnersInv
    <3> QED BY <1>1, <3>1, ClientStays DEF Inv, ClientInv, ClntOnly
  <2> QED BY <2>1, <2>2 DEF ClientInv
<1>11. ServerInv'
  BY <1>1, ServerStays DEF Inv, ServerInv, ClntOnly
<1> QED BY <1>5, <1>6, <1>7, <1>8, <1>9, <1>10, <1>11 DEF Inv

-----------------------------------------------------------------------------
(* The hellos. *)

LEMMA BuildKeeps == ASSUME Inv, NEW c \in Conns, TlsClientHelloBuild(c) PROVE Inv'
<1>0. PICK s : s = clnt[c].session
  OBVIOUS
<1>1. /\ clnt[c].st = "new" /\ ClntOnly(c) /\ clnt'[c].st = "sent"
      /\ clnt'[c].session = s /\ clnt'[c].param = clnt[c].param
      /\ Keeps(clnt[c].tls, clnt'[c].tls, {"key", "group", "alpn_sent", "early"})
      /\ clnt'[c].tls.key = ClntKey(c) /\ clnt'[c].tls.group = ClntGroups[1]
      /\ clnt'[c].offer # <<>> =>
           /\ clnt'[c].tls.early = clnt'[c].offer[1].binder
           /\ s # NoVal
           /\ \E j \in 1 .. Len(sess[s].tickets) : \E md :
                clnt'[c].offer = << OfferOf(sess[s].tickets[j], md) >>
      /\ IF s = NoVal THEN sess' = sess ELSE Trimmed(s)
      /\ UpOnly(c)
      /\ \E m : /\ up'[c] = Append(up[c], m) /\ m.type = "client_hello"
                /\ m.ciphers = ClntCiphers
                /\ m.ext = ClientHelloExt(c, clnt[c].param, clnt'[c].offer)
      /\ UNCHANGED <<srvr, held, down, now, gen>>
  BY <1>0, BuildEffect DEF Inv
<1>2. SrvrKept
  BY <1>1 DEF SrvrKept
<1>3. s \in Conns \cup {NoVal} /\ NoVal \notin Conns
  BY <1>0, ResumptionAssumption DEF Inv, ShapeInv, ClntShape
<1>4. clnt[c].tls = TlsNew /\ clnt[c].offer = <<>> /\ srvr[c].st = "none" /\ up[c] = <<>>
  BY <1>1 DEF Inv, ClientInv, ClientAt
<1>5. /\ DOMAIN sess' = Conns /\ \A d \in Conns : SessShape(d)'
      /\ \A d \in Conns : /\ sess'[d].references = sess[d].references
                          /\ sess'[d].tick_identity = sess[d].tick_identity
                          /\ Len(sess'[d].tickets) <= Len(sess[d].tickets)
                          /\ \A i \in 1 .. Len(sess'[d].tickets) :
                               \E j \in 1 .. Len(sess[d].tickets) :
                                 sess'[d].tickets[i] = sess[d].tickets[j]
  <2>1. DOMAIN sess = Conns /\ \A d \in Conns : SessShape(d)
    BY DEF Inv, ShapeInv
  <2>2. \A d \in Conns : Len(sess[d].tickets) \in Nat
    BY <2>1, SeqFacts DEF SessShape
  <2>3. CASE s = NoVal
    BY <1>1, <2>1, <2>2, <2>3 DEF SessShape
  <2>4. CASE s # NoVal
    <3>1. Trimmed(s)
      BY <1>1, <2>4
    <3>2. SessShape(s)'
      BY <1>3, <2>1, <2>4, <3>1 DEF Trimmed, SessOnly, SessShape
    <3>3. \A d \in Conns \ {s} : sess'[d] = sess[d]
      BY <3>1 DEF Trimmed, SessOnly
    <3>4. \A d \in Conns : SessShape(d)'
      BY <2>1, <3>2, <3>3 DEF SessShape
    <3>5. /\ sess'[s].references = sess[s].references
          /\ sess'[s].tick_identity = sess[s].tick_identity
          /\ Len(sess'[s].tickets) <= Len(sess[s].tickets)
          /\ \A i \in 1 .. Len(sess'[s].tickets) :
               \E j \in 1 .. Len(sess[s].tickets) : sess'[s].tickets[i] = sess[s].tickets[j]
      BY <3>1 DEF Trimmed
    <3>6. \A d \in Conns \ {s} : Len(sess'[d].tickets) <= Len(sess[d].tickets)
      BY <2>2, <3>3
    <3>7. DOMAIN sess' = Conns
      BY <3>1 DEF Trimmed, SessOnly
    <3>8. ASSUME NEW d \in Conns
          PROVE  /\ sess'[d].references = sess[d].references
                 /\ sess'[d].tick_identity = sess[d].tick_identity
                 /\ Len(sess'[d].tickets) <= Len(sess[d].tickets)
                 /\ \A i \in 1 .. Len(sess'[d].tickets) :
                      \E j \in 1 .. Len(sess[d].tickets) :
                        sess'[d].tickets[i] = sess[d].tickets[j]
      <4>1. CASE d = s
        BY <3>5, <4>1
      <4>2. CASE d # s
        <5>1. sess'[d] = sess[d]
          BY <3>3, <4>2
        <5> QED BY <3>6, <4>2, <5>1
      <4> QED BY <4>1, <4>2
    <3> QED BY <3>4, <3>7, <3>8
  <2> QED BY <2>3, <2>4
<1>6. PICK m : /\ up'[c] = Append(up[c], m) /\ m.type = "client_hello"
               /\ m.ciphers = ClntCiphers
               /\ m.ext = ClientHelloExt(c, clnt[c].param, clnt'[c].offer)
  BY <1>1
<1>7. IsSeq(up'[c]) /\ Len(up'[c]) = 1 /\ up'[c][1] = m
  <2>1. IsSeq(up[c]) /\ Len(up[c]) = 0
    BY <1>4, NothingIsSeq
  <2> QED BY <1>6, <2>1, AppendFacts
<1>8. ShapeInv'
  <2>1. DOMAIN clnt'[c].tls = TlsFields
    BY <1>1 DEF Keeps
  <2>2. ASSUME NEW d \in Conns PROVE ClntShape(d)' /\ SrvrShape(d)'
    <3>1. ClntShape(d) /\ SrvrShape(d)
      BY DEF Inv, ShapeInv
    <3>2. CASE d = c
      BY <1>0, <1>1, <2>1, <3>1, <3>2 DEF ClntOnly, ClntShape, SrvrShape
    <3>3. CASE d # c
      BY <1>1, <3>1, <3>3 DEF ClntOnly, ClntShape, SrvrShape
    <3> QED BY <3>2, <3>3
  <2>3. \A d \in Conns : IsSeq(up'[d])
    BY <1>1, <1>7 DEF Inv, ShapeInv, UpOnly
  <2>4. \A d \in Conns : IsSeq(up[d])'
    BY <2>3 DEF IsSeq
  <2> QED BY <1>1, <1>5, <2>2, <2>4 DEF Inv, ShapeInv, ClntOnly, UpOnly, IsSeq
<1>9. OwnersInv'
  <2>1. RefsCountOwners'
    BY <1>0, <1>1, <1>5, OwnersCounted, OwnersCounted1, OwnersSame DEF Inv, OwnersInv
  <2>2. NotYetMade'
    BY <1>0, <1>1 DEF Inv, OwnersInv, NotYetMade, ClntOnly
  <2> QED BY <2>1, <2>2 DEF OwnersInv
<1>10. TicketsInv'
  <2>1. ASSUME NEW d \in Conns PROVE Len(sess'[d].tickets) <= sess'[d].tick_identity
    <3>1. /\ Len(sess[d].tickets) <= sess[d].tick_identity
          /\ sess[d].tick_identity \in Nat /\ IsSeq(sess[d].tickets)
          /\ IsSeq(sess'[d].tickets)
      BY <1>5 DEF Inv, TicketsInv, ShapeInv, SessShape
    <3>2. Len(sess[d].tickets) \in Nat /\ Len(sess'[d].tickets) \in Nat
      BY <3>1, SeqFacts
    <3>3. \A i, j, k \in Nat : i <= j /\ j <= k => i <= k
      OBVIOUS
    <3> QED BY <1>5, <3>1, <3>2, <3>3
  <2>2. ASSUME NEW d \in Conns, NEW i \in 1 .. Len(sess'[d].tickets)
        PROVE  GoodTicket(sess[d].tickets[i])'
    <3>1. PICK j \in 1 .. Len(sess[d].tickets) : sess'[d].tickets[i] = sess[d].tickets[j]
      BY <1>5
    <3>2. PICK t : t = sess[d].tickets[j]
      OBVIOUS
    <3>3. GoodTicket(t)
      BY <3>2 DEF Inv, TicketsInv
    <3>4. GoodTicket(t)'
      BY <1>2, <3>3, GoodStays
    <3> QED BY <3>1, <3>2, <3>4 DEF GoodTicket
  <2> QED BY <2>1, <2>2 DEF TicketsInv
<1>11. OffersInv'
  <2>1. OfferAt(c)'
    <3> SUFFICES ASSUME clnt'[c].offer # <<>> PROVE OfferAt(c)'
      BY DEF OfferAt
    <3>0. PICK j \in 1 .. Len(sess[s].tickets) :
            (\E md : clnt'[c].offer = << OfferOf(sess[s].tickets[j], md) >>) /\ s \in Conns
      BY <1>1, <1>3
    <3>1. PICK md : clnt'[c].offer = << OfferOf(sess[s].tickets[j], md) >> /\ s \in Conns
      BY <3>0
    <3>2. PICK t : t = sess[s].tickets[j]
      OBVIOUS
    <3>3. GoodTicket(t)
      BY <3>1, <3>2 DEF Inv, TicketsInv
    <3>4. PICK d \in Conns : Sealed(d, t.ticket.key, t.master_key.secret)
      BY <3>3 DEF GoodTicket
    <3>5. d # c
      BY <1>4, <3>4 DEF Sealed
    <3>6. Sealed(d, t.ticket.key, t.master_key.secret)'
      BY <1>2, <3>4, SealedStays
    <3> DEFINE o == OfferOf(t, md)
    <3>7. /\ o.identity = t.ticket /\ o.binder = PskSecret(md, t.master_key)
          /\ o.binder.md = md
      BY DEF OfferOf, PskSecret, TlsGenerateSecret
    <3> HIDE DEF o
    <3>8. clnt'[c].offer = <<o>> /\ clnt'[c].offer[1] = o
      BY <3>1, <3>2 DEF o
    <3>9. IsTicket(o.identity) /\ t.master_key = TicketKey(o.identity)
      BY <3>3, <3>7 DEF GoodTicket
    <3>10. IsTicket(o.identity)' /\ TicketKey(o.identity)' = TicketKey(o.identity)
      BY <3>9, <3>7 DEF IsTicket, TicketKey
    <3> QED BY <3>5, <3>6, <3>7, <3>8, <3>9, <3>10 DEF OfferAt, IsTicket, TicketKey, PskSecret
  <2>2. ASSUME NEW d \in Conns \ {c} PROVE OfferAt(d)'
    BY <1>1, <1>2, OfferStays DEF Inv, OffersInv, ClntOnly
  <2> QED BY <2>1, <2>2 DEF OffersInv
<1>12. MessagesInv'
  <2>1. MessagesAt(c)'
    <3>1. UpMessage(c, up[c][1])'
      BY <1>1, <1>4, <1>6, <1>7 DEF UpMessage
    <3>2. down[c] = <<>>
      BY <1>4 DEF Inv, MessagesInv, MessagesAt
    <3> QED BY <1>1, <1>7, <3>1, <3>2 DEF MessagesAt
  <2>2. ASSUME NEW d \in Conns \ {c} PROVE MessagesAt(d)'
    BY <1>1, MessagesStay DEF Inv, MessagesInv, ClntOnly, UpOnly
  <2> QED BY <2>1, <2>2 DEF MessagesInv
<1>13. ClientInv'
  <2>1. ClientAt(c)'
    <3> DEFINE t == clnt'[c].tls
    <3>1. /\ t.ok = TRUE /\ t.hit = FALSE /\ t.secret = NoVal /\ t.param = TlsNew.param
      BY <1>1, <1>4, TlsNewFacts, FieldFacts DEF Keeps
    <3>2. ZeroParams(clnt[c].tls)'
      BY <3>1, TlsNewFacts DEF ZeroParams
    <3>3. ASSUME clnt'[c].offer # <<>>
          PROVE  clnt'[c].session \in Conns /\ sess'[clnt'[c].session].tick_identity > 0
      <4>1. s \in Conns /\ Len(sess[s].tickets) # 0
        <5>1. PICK j \in 1 .. Len(sess[s].tickets) :
                (\E md : clnt'[c].offer = << OfferOf(sess[s].tickets[j], md) >>) /\ s \in Conns
          BY <1>1, <1>3, <3>3
        <5> QED BY <5>1
      <4>2. /\ IsSeq(sess[s].tickets) /\ sess[s].tick_identity \in Nat
            /\ Len(sess[s].tickets) <= sess[s].tick_identity
        BY <4>1 DEF Inv, ShapeInv, SessShape, TicketsInv
      <4>3. Len(sess[s].tickets) \in Nat
        BY <4>2, SeqFacts
      <4>4. \A i, j \in Nat : i # 0 /\ i <= j => j > 0
        OBVIOUS
      <4>5. sess[s].tick_identity > 0
        BY <4>1, <4>2, <4>3, <4>4
      <4> QED BY <1>1, <1>5, <4>1, <4>5
    <3> QED BY <1>1, <3>1, <3>2, <3>3 DEF ClientAt
  <2>2. ASSUME NEW d \in Conns \ {c} PROVE ClientAt(d)'
    BY <1>1, <1>5, ClientStays DEF Inv, ClientInv, ClntOnly, UpOnly
  <2> QED BY <2>1, <2>2 DEF ClientInv
<1>14. ServerInv'
  <2>1. ServerAt(c)'
    BY <1>1, <1>4 DEF Inv, ServerInv, ServerAt
  <2>2. ASSUME NEW d \in Conns \ {c} PROVE ServerAt(d)'
    BY <1>1, ServerStays DEF Inv, ServerInv, ClntOnly
  <2> QED BY <2>1, <2>2 DEF ServerInv
<1> QED BY <1>8, <1>9, <1>10, <1>11, <1>12, <1>13, <1>14 DEF Inv

LEMMA TwoSeq ==
    \A a, b : /\ IsSeq(<<a, b>>) /\ Len(<<a, b>>) = 2 /\ <<a, b>> # <<>>
              /\ <<a, b>>[1] = a /\ <<a, b>>[2] = b
<1> SUFFICES ASSUME NEW a, NEW b
             PROVE  /\ IsSeq(<<a, b>>) /\ Len(<<a, b>>) = 2 /\ <<a, b>> # <<>>
                    /\ <<a, b>>[1] = a /\ <<a, b>>[2] = b
  OBVIOUS
<1>1. <<a, b>> \in Seq({a, b})
  OBVIOUS
<1>2. IsSeq(<<a, b>>)
  BY <1>1, SeqIsSeq
<1> QED BY <1>2

LEMMA AcceptKeeps == ASSUME Inv, NEW c \in Conns, TlsAccept(c) PROVE Inv'
<1>1. /\ srvr[c].st = "none" /\ up[c] # <<>> /\ up[c][1].type = "client_hello"
      /\ SrvrOnly(c) /\ UpOnly(c) /\ up'[c] = <<>> /\ Answered(c)
      /\ \/ Refuses(c) /\ down' = down
         \/ Accepts(c) /\ DownOnly(c) /\ Flight(c)
      /\ UNCHANGED <<clnt, sess, held, now, gen>>
  BY AcceptEffect DEF Inv
<1>2. SrvrKept
  BY <1>1 DEF SrvrKept, SrvrOnly
<1>3. clnt[c].st = "sent" /\ down[c] = <<>>
  BY <1>1 DEF Inv, MessagesInv, MessagesAt, UpMessage
<1>4. /\ DOMAIN down' = Conns /\ \A d \in Conns \ {c} : down'[d] = down[d]
  BY <1>1 DEF Inv, ShapeInv, DownOnly
<1>5. /\ IsSeq(down'[c])
      /\ down'[c] # <<>> => srvr'[c].st # "none" /\ srvr'[c].tls.ok
      /\ \A i \in 1 .. Len(down'[c]) : DownMessage(c, down[c][i])'
  <2>1. CASE Refuses(c) /\ down' = down
    <3>1. down'[c] = <<>>
      BY <1>3, <2>1
    <3> QED BY <3>1, NothingIsSeq
  <2>2. CASE Accepts(c) /\ DownOnly(c) /\ Flight(c)
    <3>1. PICK sh, ee :
            /\ down'[c] = <<sh, ee>>
            /\ sh.type = "server_hello" /\ sh.cipher = srvr'[c].tls.cipher
            /\ sh.ext = ServerHelloExt(srvr'[c].tls, Share(srvr'[c].tls))
            /\ ee.type = "encrypted_ext" /\ ee.ext = EncryptedExt(srvr'[c].tls, c)
      BY <2>2 DEF Flight
    <3>2. DownMessage(c, sh)' /\ DownMessage(c, ee)'
      BY <3>1 DEF DownMessage
    <3>3. /\ IsSeq(down'[c]) /\ Len(down'[c]) = 2 /\ down'[c][1] = sh /\ down'[c][2] = ee
      BY <3>1, TwoSeq
    <3>4. ASSUME NEW i \in 1 .. Len(down'[c]) PROVE DownMessage(c, down[c][i])'
      <4>1. i = 1 \/ i = 2
        BY <3>3
      <4>2. down'[c][i] = sh \/ down'[c][i] = ee
        BY <3>3, <4>1
      <4> QED BY <3>2, <4>2 DEF DownMessage
    <3> QED BY <2>2, <3>3, <3>4 DEF Accepts
  <2> QED BY <1>1, <2>1, <2>2
<1>6. ShapeInv'
  <2>1. ASSUME NEW d \in Conns PROVE SrvrShape(d)' /\ IsSeq(up[d])' /\ IsSeq(down[d])'
    <3>1. SrvrShape(d) /\ IsSeq(up[d]) /\ IsSeq(down[d])
      BY DEF Inv, ShapeInv
    <3>2. CASE d = c
      BY <1>1, <1>5, <3>2, NothingIsSeq DEF SrvrOnly, SrvrShape, Answered, IsSeq
    <3>3. CASE d # c
      BY <1>1, <1>4, <3>1, <3>3 DEF SrvrOnly, UpOnly, SrvrShape, IsSeq
    <3> QED BY <3>2, <3>3
  <2> QED BY <1>1, <1>4, <2>1 DEF Inv, ShapeInv, SrvrOnly, UpOnly, ClntShape, SessShape
<1>7. OwnersInv'
  BY <1>1 DEF Inv, OwnersInv, RefsCountOwners, NotYetMade
<1>8. TicketsInv'
  BY <1>1, <1>2, TicketsStay DEF Inv
<1>9. OffersInv'
  BY <1>1, <1>2, OfferStays DEF Inv, OffersInv
<1>10. MessagesInv'
  <2>1. MessagesAt(c)'
    <3>1. Len(up'[c]) <= 1
      BY <1>1
    <3> QED BY <1>1, <1>5, <3>1 DEF MessagesAt
  <2>2. ASSUME NEW d \in Conns \ {c} PROVE MessagesAt(d)'
    BY <1>1, <1>4, MessagesStay DEF Inv, MessagesInv, SrvrOnly, UpOnly
  <2> QED BY <2>1, <2>2 DEF MessagesInv
<1>11. ClientInv'
  <2>1. ClientAt(c)'
    BY <1>1, <1>3 DEF Inv, ClientInv, ClientAt
  <2>2. ASSUME NEW d \in Conns \ {c} PROVE ClientAt(d)'
    BY <1>1, ClientStays DEF Inv, ClientInv, SrvrOnly, UpOnly
  <2> QED BY <2>1, <2>2 DEF ClientInv
<1>12. ServerInv'
  <2>1. ServerAt(c)'
    <3>1. CASE Refuses(c)
      BY <1>1, <3>1 DEF ServerAt, Answered, Refuses
    <3>2. CASE Accepts(c)
      <4>1. DOMAIN srvr'[c].session = SessFields /\ IsSeq(srvr'[c].session.tickets)
        <5>1. CASE \E x : srvr'[c].session = QuicSessionCreate(x)
          BY <5>1, SessionFacts, NothingIsSeq
        <5>2. CASE /\ clnt[c].offer # <<>>
                   /\ srvr'[c].session = clnt[c].offer[1].identity.session
          BY <5>2 DEF Inv, OffersInv, OfferAt, IsTicket
        <5> QED BY <3>2, <5>1, <5>2 DEF Accepts
      <4>2. IsSeq(srvr[c].session.tickets)'
        BY <4>1 DEF IsSeq
      <4>3. Applies(srvr[c].tls, clnt[c].param)' /\ Derived(srvr[c].tls)' = Derived(srvr'[c].tls)
        BY <1>1, <3>2 DEF Accepts, Applies, Derived
      <4> QED BY <1>1, <3>2, <4>1, <4>2, <4>3 DEF ServerAt, Answered, Accepts
    <3> QED BY <1>1, <3>1, <3>2
  <2>2. ASSUME NEW d \in Conns \ {c} PROVE ServerAt(d)'
    BY <1>1, ServerStays DEF Inv, ServerInv, SrvrOnly
  <2> QED BY <2>1, <2>2 DEF ServerInv
<1> QED BY <1>6, <1>7, <1>8, <1>9, <1>10, <1>11, <1>12 DEF Inv

\* The rest of the messages once the first is taken.
LEMMA TailMessages ==
    ASSUME NEW c \in Conns, MessagesAt(c), Takes(c, down[c]), down'[c] = Tail(down[c]),
           UNCHANGED srvr
    PROVE  /\ IsSeq(down[c])'
           /\ (down[c] # <<>> => srvr[c].st # "none" /\ srvr[c].tls.ok)'
           /\ \A i \in 1 .. Len(down'[c]) : DownMessage(c, down[c][i])'
           /\ srvr[c].st # "none" /\ srvr[c].tls.ok
<1>1. srvr[c].st # "none" /\ srvr[c].tls.ok
  <2>1. down[c] # <<>>
    BY DEF Takes
  <2> QED BY <2>1 DEF MessagesAt
<1>2. ASSUME NEW i \in 1 .. Len(down'[c]) PROVE DownMessage(c, down[c][i])'
  <2>1. down'[c][i] = down[c][i + 1] /\ i + 1 \in 1 .. Len(down[c])
    BY DEF Takes
  <2>2. PICK m : m = down[c][i + 1]
    OBVIOUS
  <2>3. DownMessage(c, m)
    BY <2>1, <2>2 DEF MessagesAt
  <2> QED BY <2>1, <2>2, <2>3 DEF DownMessage
<1>3. IsSeq(down[c])'
  BY DEF Takes, IsSeq
<1> QED BY <1>1, <1>2, <1>3

LEMMA HelloKeeps == ASSUME Inv, NEW c \in Conns, TlsServerHelloProc(c) PROVE Inv'
<1>1. /\ clnt[c].st = "sent" /\ Takes(c, down[c]) /\ DownOnly(c)
      /\ down'[c] = Tail(down[c]) /\ ClntOnly(c)
      /\ clnt'[c].param = clnt[c].param /\ clnt'[c].offer = clnt[c].offer
      /\ HelloRead(c) \/ HelloFailed(c)
      /\ UNCHANGED <<srvr, held, up, now, gen>>
  BY HelloEffect DEF Inv
<1>2. SrvrKept
  BY <1>1 DEF SrvrKept
<1>3. /\ IsSeq(down[c])'
      /\ (down[c] # <<>> => srvr[c].st # "none" /\ srvr[c].tls.ok)'
      /\ \A i \in 1 .. Len(down'[c]) : DownMessage(c, down[c][i])'
      /\ srvr[c].st # "none" /\ srvr[c].tls.ok
  BY <1>1, TailMessages DEF Inv, MessagesInv
<1>4. up[c] = <<>>
  BY <1>1, <1>3 DEF Inv, MessagesInv, MessagesAt, UpMessage
<1>5. held[c] = 0 /\ (\A d \in Conns : clnt[d].session # c) /\ NoVal \notin Conns
      /\ clnt[c].session \in Conns \cup {NoVal}
  BY <1>1, ResumptionAssumption DEF Inv, OwnersInv, NotYetMade, ShapeInv, ClntShape
<1>6. /\ DOMAIN sess' = Conns /\ \A d \in Conns : SessShape(d)'
      /\ \A d \in Conns \ {c} : sess'[d] = sess[d]
      /\ \A d \in Conns :
           \/ /\ sess'[d].tickets = sess[d].tickets
              /\ sess'[d].tick_identity = sess[d].tick_identity
           \/ sess'[d].tickets = <<>> /\ sess'[d].tick_identity \in Nat
  <2>1. CASE sess' = sess
    BY <2>1 DEF Inv, ShapeInv, SessShape
  <2>2. CASE SessOnly(c) /\ \E x : sess'[c] = QuicSessionCreate(x)
    <3>1. /\ DOMAIN sess'[c] = SessFields /\ sess'[c].references = 1
          /\ sess'[c].tickets = <<>> /\ sess'[c].tick_identity = 0
      BY <2>2, SessionFacts
    <3>2. SessShape(c)'
      BY <3>1, NothingIsSeq DEF SessShape
    <3> QED BY <2>2, <3>1, <3>2 DEF SessOnly, Inv, ShapeInv, SessShape
  <2> QED BY <1>1, <2>1, <2>2 DEF HelloRead, HelloFailed
<1>7. ShapeInv'
  <2>1. ASSUME NEW d \in Conns PROVE ClntShape(d)' /\ IsSeq(down[d])'
    <3>1. ClntShape(d) /\ IsSeq(down[d])
      BY DEF Inv, ShapeInv
    <3>2. CASE d = c
      BY <1>1, <1>3, <1>5, <3>1, <3>2 DEF ClntOnly, ClntShape, HelloRead, HelloFailed
    <3>3. CASE d # c
      BY <1>1, <3>1, <3>3 DEF ClntOnly, DownOnly, ClntShape, IsSeq
    <3> QED BY <3>2, <3>3
  <2> QED BY <1>1, <1>6, <2>1 DEF Inv, ShapeInv, ClntOnly, DownOnly, SrvrShape
<1>8. OwnersInv'
  <2>1. RefsCountOwners'
    <3>1. CASE clnt[c].session = NoVal /\ HelloRead(c)
      <4>1. clnt'[c].session = c /\ SessOnly(c) /\ sess'[c].references = 1
        BY <3>1, SessionFacts DEF HelloRead
      <4>2. ASSUME NEW d \in Conns
            PROVE  sess'[d].references = Cardinality(Owners(d)') + held'[d]
        <5>1. CASE d = c
          <6>1. Cardinality(Owners(c)) = 0
            BY <1>5, OwnersNone
          <6>2. Cardinality(Owners(c)') = Cardinality(Owners(c)) + 1
            BY <1>1, <1>5, <4>1, OwnersMore
          <6> QED BY <1>1, <1>5, <4>1, <5>1, <6>1, <6>2
        <5>2. CASE d # c
          <6>1. Cardinality(Owners(d)') = Cardinality(Owners(d))
            BY <1>1, <1>5, <3>1, <4>1, <5>2, OwnersSame
          <6> QED BY <1>1, <1>6, <5>2, <6>1, OwnersCounted DEF Inv, OwnersInv
        <5> QED BY <5>1, <5>2
      <4> QED BY <4>2, OwnersCounted1
    <3>2. CASE clnt'[c].session = clnt[c].session /\ sess' = sess
      BY <1>1, <3>2, OwnersCounted, OwnersCounted1, OwnersSame DEF Inv, OwnersInv
    <3> QED BY <1>1, <3>1, <3>2 DEF HelloRead, HelloFailed
  <2>2. NotYetMade'
    BY <1>1, <1>5 DEF Inv, OwnersInv, NotYetMade, ClntOnly, HelloRead, HelloFailed
  <2> QED BY <2>1, <2>2 DEF OwnersInv
<1>9. TicketsInv'
  BY <1>2, <1>6, TicketsStay DEF Inv
<1>10. OffersInv'
  BY <1>1, <1>2, OfferStays DEF Inv, OffersInv, ClntOnly
<1>11. MessagesInv'
  <2>1. MessagesAt(c)'
    <3>1. Len(up'[c]) <= 1 /\ up'[c] = <<>>
      BY <1>1, <1>4
    <3> QED BY <1>3, <3>1 DEF MessagesAt
  <2>2. ASSUME NEW d \in Conns \ {c} PROVE MessagesAt(d)'
    BY <1>1, MessagesStay DEF Inv, MessagesInv, ClntOnly, DownOnly
  <2> QED BY <2>1, <2>2 DEF MessagesInv
<1>12. ClientInv'
  <2>1. ClientAt(c)'
    <3>1. CASE HelloRead(c)
      <4>1. clnt'[c].session \in Conns
        BY <1>5, <3>1 DEF HelloRead
      <4>2. ZeroParams(clnt[c].tls)'
        BY <3>1 DEF HelloRead, ZeroParams
      <4> QED BY <1>1, <1>3, <1>4, <3>1, <4>1, <4>2 DEF ClientAt, HelloRead
    <3>2. CASE HelloFailed(c)
      BY <3>2 DEF ClientAt, HelloFailed
    <3> QED BY <1>1, <3>1, <3>2
  <2>2. ASSUME NEW d \in Conns \ {c} PROVE ClientAt(d)'
    <3>1. clnt[d].session \in Conns => sess'[clnt[d].session] = sess[clnt[d].session]
      BY <1>5, <1>6
    <3> QED BY <1>1, <3>1, ClientStays DEF Inv, ClientInv, ClntOnly
  <2> QED BY <2>1, <2>2 DEF ClientInv
<1>13. ServerInv'
  BY <1>1, ServerStays DEF Inv, ServerInv, ClntOnly
<1> QED BY <1>7, <1>8, <1>9, <1>10, <1>11, <1>12, <1>13 DEF Inv

LEMMA EncKeeps == ASSUME Inv, NEW c \in Conns, TlsEncExtProc(c) PROVE Inv'
<1>1. /\ clnt[c].st = "hello" /\ Takes(c, down[c]) /\ DownOnly(c)
      /\ down'[c] = Tail(down[c]) /\ ClntOnly(c)
      /\ clnt'[c].param = clnt[c].param /\ clnt'[c].offer = clnt[c].offer
      /\ clnt'[c].session = clnt[c].session
      /\ EncRead(c) \/ EncFailed(c)
      /\ UNCHANGED <<srvr, sess, held, now, gen>>
  BY EncEffect DEF Inv
<1>2. SrvrKept
  BY <1>1 DEF SrvrKept
<1>3. /\ IsSeq(down[c])'
      /\ (down[c] # <<>> => srvr[c].st # "none" /\ srvr[c].tls.ok)'
      /\ \A i \in 1 .. Len(down'[c]) : DownMessage(c, down[c][i])'
      /\ srvr[c].st # "none" /\ srvr[c].tls.ok
  BY <1>1, TailMessages DEF Inv, MessagesInv
<1>4. up[c] = <<>>
  BY <1>1 DEF Inv, ClientInv, ClientAt
<1>5. /\ DOMAIN up' = Conns /\ \A d \in Conns \ {c} : up'[d] = up[d]
      /\ IsSeq(up[c])' /\ Len(up'[c]) <= 1
      /\ up'[c] # <<>> => UpMessage(c, up[c][1])'
  <2>1. CASE EncRead(c)
    <3>1. PICK m : up'[c] = Append(up[c], m) /\ m.type = "finished"
      BY <2>1 DEF EncRead
    <3>2. IsSeq(up[c]) /\ Len(up[c]) = 0
      BY <1>4, NothingIsSeq
    <3>3. IsSeq(up'[c]) /\ Len(up'[c]) = 1 /\ up'[c][1] = m
      BY <3>1, <3>2, AppendFacts
    <3>4. UpMessage(c, up[c][1])'
      BY <2>1, <3>1, <3>3 DEF UpMessage, EncRead
    <3> QED BY <2>1, <3>3, <3>4 DEF EncRead, UpOnly, IsSeq
  <2>2. CASE EncFailed(c)
    BY <1>4, <2>2, NothingIsSeq DEF EncFailed, Inv, ShapeInv, IsSeq
  <2> QED BY <1>1, <2>1, <2>2
<1>6. ShapeInv'
  <2>1. ASSUME NEW d \in Conns PROVE ClntShape(d)' /\ IsSeq(down[d])' /\ IsSeq(up[d])'
    <3>1. ClntShape(d) /\ IsSeq(down[d]) /\ IsSeq(up[d])
      BY DEF Inv, ShapeInv
    <3>2. CASE d = c
      BY <1>1, <1>3, <1>5, <3>1, <3>2 DEF ClntOnly, ClntShape, EncRead, EncFailed
    <3>3. CASE d # c
      BY <1>1, <1>5, <3>1, <3>3 DEF ClntOnly, DownOnly, ClntShape, IsSeq
    <3> QED BY <3>2, <3>3
  <2> QED BY <1>1, <1>5, <2>1 DEF Inv, ShapeInv, ClntOnly, DownOnly, SrvrShape, SessShape
<1>7. OwnersInv'
  <2>1. RefsCountOwners'
    BY <1>1, OwnersCounted, OwnersCounted1, OwnersSame DEF Inv, OwnersInv
  <2>2. NotYetMade'
    BY <1>1 DEF Inv, OwnersInv, NotYetMade, ClntOnly, EncRead, EncFailed
  <2> QED BY <2>1, <2>2 DEF OwnersInv
<1>8. TicketsInv'
  BY <1>1, <1>2, TicketsStay DEF Inv
<1>9. OffersInv'
  BY <1>1, <1>2, OfferStays DEF Inv, OffersInv, ClntOnly
<1>10. MessagesInv'
  <2>1. MessagesAt(c)'
    BY <1>3, <1>5 DEF MessagesAt
  <2>2. ASSUME NEW d \in Conns \ {c} PROVE MessagesAt(d)'
    BY <1>1, <1>5, MessagesStay DEF Inv, MessagesInv, ClntOnly, DownOnly
  <2> QED BY <2>1, <2>2 DEF MessagesInv
<1>11. ClientInv'
  <2>1. ClientAt(c)'
    <3>1. CASE EncRead(c)
      <4>1. Applies(clnt[c].tls, SrvrParam)'
        BY <3>1 DEF EncRead, Applies
      <4>2. ClientAt(c)
        BY DEF Inv, ClientInv
      <4> QED BY <1>1, <3>1, <4>1, <4>2 DEF ClientAt, EncRead
    <3>2. CASE EncFailed(c)
      BY <3>2 DEF ClientAt, EncFailed
    <3> QED BY <1>1, <3>1, <3>2
  <2>2. ASSUME NEW d \in Conns \ {c} PROVE ClientAt(d)'
    BY <1>1, <1>5, ClientStays DEF Inv, ClientInv, ClntOnly
  <2> QED BY <2>1, <2>2 DEF ClientInv
<1>12. ServerInv'
  BY <1>1, ServerStays DEF Inv, ServerInv, ClntOnly
<1> QED BY <1>6, <1>7, <1>8, <1>9, <1>10, <1>11, <1>12 DEF Inv

-----------------------------------------------------------------------------
(* Tickets, time and faults. *)

LEMMA FinishedKeeps == ASSUME Inv, NEW c \in Conns, TlsSrvrFinishedProc(c) PROVE Inv'
<1>1. /\ srvr[c].st = "flight" /\ Takes(c, up[c])
      /\ UpOnly(c) /\ up'[c] = Tail(up[c]) /\ SrvrOnly(c)
      /\ srvr'[c].st = "done" /\ srvr'[c].tls = srvr[c].tls /\ srvr'[c].gen = srvr[c].gen
      /\ DownOnly(c)
      /\ \E a, b : /\ down'[c] = Append(Append(down[c], a), b)
                   /\ Issued(a, srvr[c].tls, srvr[c].gen)
                   /\ Issued(b, srvr[c].tls, srvr[c].gen)
      /\ UNCHANGED <<clnt, sess, held, now, gen>>
  BY FinishedEffect DEF Inv
<1>2. SrvrKept
  BY <1>1 DEF SrvrKept, SrvrOnly
<1>3. IsSeq(up[c])' /\ up'[c] = <<>>
  <2> DEFINE q == Tail(up[c])
             n == Len(up[c])
  <2>1. n \in Nat /\ n >= 1 /\ Len(q) = n - 1 /\ IsSeq(q)
    BY <1>1 DEF Takes
  <2>2. n <= 1
    BY DEF Inv, MessagesInv, MessagesAt
  <2> HIDE DEF q, n
  <2>3. Len(q) = 0
    BY <2>1, <2>2
  <2>4. q = <<>>
    BY <2>1, <2>3, SeqFacts
  <2>5. up'[c] = <<>>
    BY <1>1, <2>4 DEF q
  <2> QED BY <2>5, NothingIsSeq DEF IsSeq
<1>4. /\ IsSeq(down[c])'
      /\ \A i \in 1 .. Len(down'[c]) : DownMessage(c, down[c][i])'
  <2>1. PICK a, b : /\ down'[c] = Append(Append(down[c], a), b)
                    /\ Issued(a, srvr[c].tls, srvr[c].gen)
                    /\ Issued(b, srvr[c].tls, srvr[c].gen)
    BY <1>1
  <2>2. PICK p : p = down[c]
    OBVIOUS
  <2>3. IsSeq(p)
    BY <2>2 DEF Inv, ShapeInv
  <2>4. PICK q, r : q = Append(p, a) /\ r = Append(q, b)
    OBVIOUS
  <2>5. /\ IsSeq(q) /\ Len(q) = Len(p) + 1 /\ q[Len(p) + 1] = a
        /\ \A i \in 1 .. Len(p) : q[i] = p[i]
    BY <2>3, <2>4, AppendFacts
  <2>6. /\ IsSeq(r) /\ Len(r) = Len(q) + 1 /\ r[Len(q) + 1] = b
        /\ \A i \in 1 .. Len(q) : r[i] = q[i]
    BY <2>5, <2>4, AppendFacts
  <2>7. down'[c] = r
    BY <2>1, <2>2, <2>4
  <2>8. Len(p) \in Nat
    BY <2>3, SeqFacts
  <2>9. DownMessage(c, a)' /\ DownMessage(c, b)'
    BY <1>1, <2>1 DEF DownMessage, Issued
  <2>10. ASSUME NEW i \in 1 .. Len(r) PROVE DownMessage(c, r[i])'
    <3>1. i \in 1 .. Len(p) \/ i = Len(p) + 1 \/ i = Len(q) + 1
      BY <2>5, <2>6, <2>8
    <3>2. CASE i \in 1 .. Len(p)
      <4>1. r[i] = p[i]
        BY <2>5, <2>6, <2>8, <3>2
      <4>2. PICK m : m = p[i]
        OBVIOUS
      <4>3. DownMessage(c, m)
        BY <2>2, <3>2, <4>2 DEF Inv, MessagesInv, MessagesAt
      <4>4. DownMessage(c, m)'
        BY <1>1, <4>3 DEF DownMessage
      <4> QED BY <4>1, <4>2, <4>4
    <3>3. CASE i = Len(p) + 1
      <4>1. r[i] = a
        BY <2>5, <2>6, <2>8, <3>3
      <4> QED BY <2>9, <4>1
    <3>4. CASE i = Len(q) + 1
      <4>1. r[i] = b
        BY <2>6, <3>4
      <4> QED BY <2>9, <4>1
    <3> QED BY <3>1, <3>2, <3>3, <3>4
  <2> QED BY <2>6, <2>7, <2>10 DEF IsSeq
<1>5. ShapeInv'
  <2>1. ASSUME NEW d \in Conns PROVE SrvrShape(d)' /\ IsSeq(up[d])' /\ IsSeq(down[d])'
    <3>1. SrvrShape(d) /\ IsSeq(up[d]) /\ IsSeq(down[d])
      BY DEF Inv, ShapeInv
    <3>2. CASE d = c
      BY <1>1, <1>3, <1>4, <3>1, <3>2 DEF SrvrOnly, SrvrShape
    <3>3. CASE d # c
      BY <1>1, <3>1, <3>3 DEF SrvrOnly, UpOnly, DownOnly, SrvrShape, IsSeq
    <3> QED BY <3>2, <3>3
  <2> QED BY <1>1, <2>1 DEF Inv, ShapeInv, SrvrOnly, UpOnly, DownOnly, ClntShape, SessShape
<1>6. OwnersInv'
  BY <1>1 DEF Inv, OwnersInv, RefsCountOwners, NotYetMade
<1>7. TicketsInv'
  BY <1>1, <1>2, TicketsStay DEF Inv
<1>8. OffersInv'
  BY <1>1, <1>2, OfferStays DEF Inv, OffersInv
<1>9. srvr[c].tls.ok
  BY <1>1 DEF Inv, ServerInv, ServerAt
<1>10. MessagesInv'
  <2>1. MessagesAt(c)'
    <3>1. Len(up'[c]) <= 1
      BY <1>3
    <3> QED BY <1>1, <1>3, <1>4, <1>9, <3>1 DEF MessagesAt
  <2>2. ASSUME NEW d \in Conns \ {c} PROVE MessagesAt(d)'
    BY <1>1, MessagesStay DEF Inv, MessagesInv, SrvrOnly, UpOnly, DownOnly
  <2> QED BY <2>1, <2>2 DEF MessagesInv
<1>11. ClientInv'
  <2>1. ClientAt(c)'
    <3>1. ClientAt(c)
      BY DEF Inv, ClientInv
    <3>2. clnt[c].st \notin {"none", "new"}
      BY <1>1, <3>1 DEF ClientAt
    <3> QED BY <1>1, <1>3, <3>1, <3>2 DEF ClientAt
  <2>2. ASSUME NEW d \in Conns \ {c} PROVE ClientAt(d)'
    BY <1>1, ClientStays DEF Inv, ClientInv, SrvrOnly, UpOnly
  <2> QED BY <2>1, <2>2 DEF ClientInv
<1>12. ServerInv'
  <2>1. ServerAt(c)'
    BY <1>1, ServerStays DEF Inv, ServerInv
  <2>2. ASSUME NEW d \in Conns \ {c} PROVE ServerAt(d)'
    BY <1>1, ServerStays DEF Inv, ServerInv, SrvrOnly
  <2> QED BY <2>1, <2>2 DEF ServerInv
<1> QED BY <1>5, <1>6, <1>7, <1>8, <1>10, <1>11, <1>12 DEF Inv

LEMMA TicketKeeps == ASSUME Inv, NEW c \in Conns, TlsClntNewSessionTicketProc(c) PROVE Inv'
<1>0. PICK s, m : s = clnt[c].session /\ m = down[c][1]
  OBVIOUS
<1>1. /\ clnt[c].st = "ready" /\ Takes(c, down[c]) /\ DownOnly(c)
      /\ down'[c] = Tail(down[c]) /\ m.type = "ticket"
      /\ s \in Conns /\ SessOnly(s) /\ sess'[s].references = sess[s].references
      /\ sess'[s].tick_identity = sess[s].tick_identity + 1
      /\ \E t : /\ t.ticket = m.ticket
                /\ t.master_key = MasterKeyGen(clnt[c].tls, m.nonce)
                /\ sess'[s].tickets = Append(sess[s].tickets, t)
      /\ UNCHANGED <<clnt, srvr, held, up, now, gen>>
  BY <1>0, TicketEffect DEF Inv
<1>2. SrvrKept
  BY <1>1 DEF SrvrKept
<1>3. /\ IsSeq(down[c])'
      /\ (down[c] # <<>> => srvr[c].st # "none" /\ srvr[c].tls.ok)'
      /\ \A i \in 1 .. Len(down'[c]) : DownMessage(c, down[c][i])'
      /\ srvr[c].st # "none" /\ srvr[c].tls.ok
  BY <1>1, TailMessages DEF Inv, MessagesInv
<1>4. PICK t : /\ t.ticket = m.ticket
               /\ t.master_key = MasterKeyGen(clnt[c].tls, m.nonce)
               /\ sess'[s].tickets = Append(sess[s].tickets, t)
  BY <1>1
<1>5. GoodTicket(t)
  <2>1. DownMessage(c, m)
    <3> DEFINE n == Len(down[c])
    <3>1. n \in Nat /\ n >= 1
      BY <1>1 DEF Takes
    <3>2. \A i \in 1 .. n : DownMessage(c, down[c][i])
      BY DEF Inv, MessagesInv, MessagesAt
    <3> HIDE DEF n
    <3>3. 1 \in 1 .. n
      BY <3>1
    <3> QED BY <1>0, <3>2, <3>3
  <2>2. /\ IsTicket(m.ticket) /\ m.ticket.key = srvr[c].gen
        /\ TicketKey(m.ticket) = MasterKeyGen(srvr[c].tls, m.nonce)
    BY <1>1, <2>1 DEF DownMessage
  <2>3. clnt[c].tls.secret = srvr[c].tls.secret /\ clnt[c].tls.cipher = srvr[c].tls.cipher
    BY <1>1 DEF Inv, ClientInv, ClientAt
  <2>4. /\ t.master_key = MasterKeyGen(srvr[c].tls, m.nonce)
        /\ t.master_key.secret = srvr[c].tls.secret
    BY <1>4, <2>3 DEF MasterKeyGen
  <2>5. Sealed(c, t.ticket.key, t.master_key.secret)
    BY <1>3, <1>4, <2>2, <2>4 DEF Sealed
  <2> QED BY <1>4, <2>2, <2>4, <2>5 DEF GoodTicket
<1>6. SessShape(s) /\ Len(sess[s].tickets) <= sess[s].tick_identity
  BY <1>1 DEF Inv, ShapeInv, TicketsInv
<1>7. /\ IsSeq(sess'[s].tickets) /\ Len(sess'[s].tickets) = Len(sess[s].tickets) + 1
      /\ \A i \in 1 .. Len(sess[s].tickets) : sess'[s].tickets[i] = sess[s].tickets[i]
      /\ sess'[s].tickets[Len(sess[s].tickets) + 1] = t
  BY <1>4, <1>6, AppendFacts DEF SessShape
<1>8. Len(sess[s].tickets) \in Nat
  BY <1>6, SeqFacts DEF SessShape
<1>9. ShapeInv'
  <2>1. SessShape(s)'
    BY <1>1, <1>6, <1>7 DEF SessShape, SessOnly, IsSeq
  <2>2. ASSUME NEW d \in Conns PROVE SessShape(d)' /\ IsSeq(down[d])'
    <3>1. SessShape(d) /\ IsSeq(down[d])
      BY DEF Inv, ShapeInv
    <3>2. SessShape(d)'
      BY <1>1, <2>1, <3>1 DEF SessOnly, SessShape
    <3>3. IsSeq(down[d])'
      BY <1>1, <1>3, <3>1 DEF DownOnly, IsSeq
    <3> QED BY <3>2, <3>3
  <2> QED BY <1>1, <2>2 DEF Inv, ShapeInv, SessOnly, DownOnly, ClntShape, SrvrShape
<1>10. OwnersInv'
  <2>1. \A d \in Conns : sess'[d].references = sess[d].references
    BY <1>1 DEF SessOnly
  <2>2. RefsCountOwners'
    BY <1>1, <2>1 DEF Inv, OwnersInv, RefsCountOwners
  <2> QED BY <1>1, <2>2 DEF Inv, OwnersInv, NotYetMade
<1>11. TicketsInv'
  <2>1. ASSUME NEW d \in Conns PROVE Len(sess'[d].tickets) <= sess'[d].tick_identity
    <3>1. CASE d = s
      <4>1. \A i, j \in Nat : i <= j => i + 1 <= j + 1
        OBVIOUS
      <4>2. sess[s].tick_identity \in Nat
        BY <1>6 DEF SessShape
      <4> QED BY <1>1, <1>6, <1>7, <1>8, <3>1, <4>1, <4>2
    <3>2. CASE d # s
      BY <1>1, <3>2 DEF SessOnly, Inv, TicketsInv
    <3> QED BY <3>1, <3>2
  <2>2. ASSUME NEW d \in Conns, NEW i \in 1 .. Len(sess'[d].tickets)
        PROVE  GoodTicket(sess[d].tickets[i])'
    <3>1. PICK u : u = sess'[d].tickets[i]
      OBVIOUS
    <3>2. GoodTicket(u)
      <4>1. CASE d # s
        BY <1>1, <3>1, <4>1 DEF SessOnly, Inv, TicketsInv
      <4>2. CASE d = s /\ i \in 1 .. Len(sess[s].tickets)
        BY <1>7, <3>1, <4>2 DEF Inv, TicketsInv
      <4>3. CASE d = s /\ i = Len(sess[s].tickets) + 1
        BY <1>5, <1>7, <3>1, <4>3
      <4> QED BY <1>7, <1>8, <4>1, <4>2, <4>3
    <3>3. GoodTicket(u)'
      BY <1>2, <3>2, GoodStays
    <3> QED BY <3>1, <3>3 DEF GoodTicket
  <2> QED BY <2>1, <2>2 DEF TicketsInv
<1>12. OffersInv'
  BY <1>1, <1>2, OfferStays DEF Inv, OffersInv
<1>13. MessagesInv'
  <2>1. MessagesAt(c)'
    BY <1>1, <1>3 DEF Inv, MessagesInv, MessagesAt, UpMessage
  <2>2. ASSUME NEW d \in Conns \ {c} PROVE MessagesAt(d)'
    BY <1>1, MessagesStay DEF Inv, MessagesInv, DownOnly
  <2> QED BY <2>1, <2>2 DEF MessagesInv
<1>14. ClientInv'
  <2>1. ASSUME NEW d \in Conns, sess[d].tick_identity > 0 PROVE sess'[d].tick_identity > 0
    <3>1. CASE d = s
      <4>1. \A i \in Nat : i + 1 > 0
        OBVIOUS
      <4>2. sess[s].tick_identity \in Nat
        BY <1>6 DEF SessShape
      <4> QED BY <1>1, <3>1, <4>1, <4>2
    <3>2. CASE d # s
      BY <1>1, <2>1, <3>2 DEF SessOnly
    <3> QED BY <3>1, <3>2
  <2> QED BY <1>1, <2>1, ClientStays DEF Inv, ClientInv
<1>15. ServerInv'
  BY <1>1, ServerStays DEF Inv, ServerInv
<1> QED BY <1>9, <1>10, <1>11, <1>12, <1>13, <1>14, <1>15 DEF Inv

\* The clock is no part of the invariant.
LEMMA TickKeeps ==
    ASSUME Inv, UNCHANGED <<clnt, srvr, sess, held, up, down, gen>> PROVE Inv'
<1>1. ShapeInv'
  BY DEF Inv, ShapeInv, ClntShape, SrvrShape, SessShape, IsSeq
<1>2. OwnersInv'
  BY DEF Inv, OwnersInv, RefsCountOwners, NotYetMade
<1>3. SrvrKept
  BY DEF SrvrKept
<1>4. TicketsInv'
  BY <1>3, TicketsStay DEF Inv
<1>5. OffersInv'
  BY <1>3, OfferStays DEF Inv, OffersInv
<1>6. MessagesInv'
  BY MessagesStay DEF Inv, MessagesInv
<1>7. ClientInv'
  BY ClientStays DEF Inv, ClientInv
<1>8. ServerInv'
  BY ServerStays DEF Inv, ServerInv
<1> QED BY <1>1, <1>2, <1>4, <1>5, <1>6, <1>7, <1>8 DEF Inv

LEMMA RestartKeeps == ASSUME Inv, Restart PROVE Inv'
<1>1. /\ gen' \in Restarts /\ UNCHANGED <<clnt, sess, held, up, down, now>>
      /\ srvr' = [c \in Conns |-> IF srvr[c].st = "none" THEN srvr[c]
                                  ELSE [srvr[c] EXCEPT !.st = "lost"]]
  BY DEF Restart
<1>2. ASSUME NEW d \in Conns
      PROVE  /\ DOMAIN srvr'[d] = SrvrFields /\ srvr'[d].tls = srvr[d].tls
             /\ srvr'[d].gen = srvr[d].gen
             /\ srvr[d].st = "none" => srvr'[d].st = "none"
             /\ srvr[d].st # "none" => srvr'[d].st = "lost"
  <2>1. SrvrShape(d)
    BY DEF Inv, ShapeInv
  <2>2. srvr'[d] = IF srvr[d].st = "none" THEN srvr[d] ELSE [srvr[d] EXCEPT !.st = "lost"]
    BY <1>1
  <2>3. CASE srvr[d].st = "none"
    BY <2>1, <2>2, <2>3 DEF SrvrShape
  <2>4. CASE srvr[d].st # "none"
    <3>1. srvr'[d] = [srvr[d] EXCEPT !.st = "lost"]
      BY <2>2, <2>4
    <3> QED BY <2>1, <2>4, <3>1 DEF SrvrShape, SrvrFields
  <2> QED BY <2>3, <2>4
<1>3. DOMAIN srvr' = Conns
  BY <1>1
<1>4. SrvrKept
  BY <1>2 DEF SrvrKept
<1>5. ShapeInv'
  <2>1. \A d \in Conns : SrvrShape(d)'
    BY <1>2 DEF Inv, ShapeInv, SrvrShape
  <2> QED BY <1>1, <1>3, <2>1 DEF Inv, ShapeInv, ClntShape, SessShape, IsSeq
<1>6. OwnersInv'
  BY <1>1 DEF Inv, OwnersInv, RefsCountOwners, NotYetMade
<1>7. TicketsInv'
  BY <1>1, <1>4, TicketsStay DEF Inv
<1>8. OffersInv'
  BY <1>1, <1>4, OfferStays DEF Inv, OffersInv
<1>9. MessagesInv'
  BY <1>1, <1>2, MessagesStay DEF Inv, MessagesInv
<1>10. ClientInv'
  BY <1>1, <1>2, ClientStays DEF Inv, ClientInv
<1>11. ServerInv'
  <2>1. ASSUME NEW d \in Conns PROVE ServerAt(d)'
    <3>1. ServerAt(d)
      BY DEF Inv, ServerInv
    <3>2. srvr'[d].st \in {"none", "lost"}
      BY <1>2
    <3> QED BY <1>1, <1>2, <3>1, <3>2, ServerStays
  <2> QED BY <2>1 DEF ServerInv
<1> QED BY <1>5, <1>6, <1>7, <1>8, <1>9, <1>10, <1>11 DEF Inv

-----------------------------------------------------------------------------
(* The initial states, and all steps. *)

LEMMA InitInv == ASSUME Init PROVE Inv
<1>1. /\ clnt = [c \in Conns |-> NewClnt] /\ srvr = [c \in Conns |-> NewSrvr]
      /\ sess = [c \in Conns |-> NoSession] /\ held = [c \in Conns |-> 0]
      /\ up = [c \in Conns |-> <<>>] /\ down = [c \in Conns |-> <<>>] /\ gen = 0
  BY DEF Init
<1>2. /\ DOMAIN NewClnt = ClntFields /\ NewClnt.st = "none" /\ NewClnt.tls = TlsNew
      /\ NewClnt.session = NoVal /\ NewClnt.offer = <<>>
      /\ DOMAIN NewSrvr = SrvrFields /\ NewSrvr.st = "none" /\ NewSrvr.tls = TlsNew
  BY DEF NewClnt, NewSrvr, ClntFields, SrvrFields
<1>3. NoVal \notin Conns
  BY ResumptionAssumption
<1>4. ShapeInv
  <2>1. ASSUME NEW c \in Conns
        PROVE  ClntShape(c) /\ SrvrShape(c) /\ SessShape(c) /\ IsSeq(up[c]) /\ IsSeq(down[c])
    <3>1. clnt[c] = NewClnt /\ srvr[c] = NewSrvr /\ sess[c] = NoSession
          /\ up[c] = <<>> /\ down[c] = <<>>
      BY <1>1
    <3>2. SessShape(c) /\ IsSeq(up[c]) /\ IsSeq(down[c])
      BY <3>1, SessionFacts, NothingIsSeq DEF SessShape
    <3>3. SrvrShape(c)
      BY <1>2, <3>1, TlsNewFacts DEF SrvrShape
    <3>4. ClntShape(c)
      BY <1>2, <3>1, TlsNewFacts DEF ClntShape
    <3> QED BY <3>2, <3>3, <3>4
  <2>2. held \in [Conns -> Nat] /\ gen \in Restarts \cup {0}
    BY <1>1
  <2> QED BY <1>1, <2>1, <2>2 DEF ShapeInv
<1>5. OwnersInv
  <2>1. ASSUME NEW s \in Conns PROVE Cardinality(Owners(s)) = 0
    BY <1>1, <1>2, <1>3, OwnersNone
  <2>2. RefsCountOwners
    BY <1>1, <2>1, SessionFacts, OwnersCounted
  <2> QED BY <1>1, <1>2, <1>3, <2>2 DEF OwnersInv, NotYetMade
<1>6. TicketsInv
  BY <1>1, SessionFacts DEF TicketsInv
<1>7. OffersInv
  BY <1>1, <1>2 DEF OffersInv, OfferAt
<1>8. MessagesInv
  BY <1>1 DEF MessagesInv, MessagesAt
<1>9. ClientInv
  BY <1>1, <1>2 DEF ClientInv, ClientAt
<1>10. ServerInv
  BY <1>1, <1>2, TlsNewFacts DEF ServerInv, ServerAt
<1> QED BY <1>4, <1>5, <1>6, <1>7, <1>8, <1>9, <1>10 DEF Inv

LEMMA NextInv == ASSUME Inv, [Next]_vars PROVE Inv'
<1>1. CASE UNCHANGED vars
  BY <1>1, TickKeeps DEF vars
<1>2. CASE Tick
  BY <1>2, TickKeeps DEF Tick
<1>3. CASE Restart
  BY <1>3, RestartKeeps
<1>4. ASSUME NEW c \in Conns,
             \/ QuicNew(c) \/ QUIC_get1_session(c) \/ QuicFree(c)
             \/ \E s \in Conns : QUIC_set_session(c, s)
             \/ TlsClientHelloBuild(c) \/ TlsAccept(c) \/ TlsServerHelloProc(c)
             \/ TlsEncExtProc(c) \/ TlsSrvrFinishedProc(c)
             \/ TlsClntNewSessionTicketProc(c)
      PROVE  Inv'
  BY <1>4, NewKeeps, GetKeeps, FreeKeeps, SetKeeps, BuildKeeps, AcceptKeeps, HelloKeeps,
     EncKeeps, FinishedKeeps, TicketKeeps
<1> QED BY <1>1, <1>2, <1>3, <1>4 DEF Next

LEMMA Invariant == Spec => []Inv
BY InitInv, NextInv, PTL DEF Spec

-----------------------------------------------------------------------------
(* The theorems. *)

\* References are counted: a session object is freed exactly when its last
\* connection or handle lets go of it, however connections and handles of the
\* application share it (QuicSessionUpRef, QuicSessionFree, QUIC_set_session).
THEOREM SessionsCounted == Spec => []RefsCountOwners
<1>1. Inv => RefsCountOwners
  BY DEF Inv, OwnersInv
<1> QED BY <1>1, Invariant, PTL

\* Both ends have one secret, one cipher and one group, and agree on whether
\* the ticket was taken up, once the client has read the ServerHello, whatever
\* expired, was freed or restarted since (TlsKeyDerive, TlsServerHelloProc).
\* The client's first group must be one of the server's: TlsExtSrvrParseKeyShare
\* goes on without a share otherwise, and there is no HelloRetryRequest.
THEOREM EndsAgree ==
    ASSUME ClntGroups[1] \in ToSet(SrvrGroups) PROVE Spec => []SecretsAgree
<1>1. Inv => SecretsAgree
  BY DEF Inv, ClientInv, ClientAt, ServerInv, ServerAt, SecretsAgree
<1> QED BY <1>1, Invariant, PTL

\* A server resumes only tickets of its own generation, and from the secret of
\* an earlier connection (TlsDecryptTicket, TlsExtsrvrParsePsk, MasterKeyGen).
THEOREM OwnTicketsOnly == Spec => []ResumesOwnTickets
<1>1. ASSUME Inv PROVE ResumesOwnTickets
  <2>1. ASSUME NEW c \in Conns, srvr[c].tls.hit
        PROVE  /\ clnt[c].offer[1].identity.key = srvr[c].gen
               /\ \E d \in Conns : /\ d # c /\ srvr[d].gen = srvr[c].gen
                                   /\ srvr[d].tls.secret = srvr[c].tls.early.in.secret
    <3> DEFINE o == clnt[c].offer[1]
    <3>1. /\ clnt[c].offer # <<>> /\ o.identity.key = srvr[c].gen
          /\ srvr[c].tls.early = o.binder
      BY <1>1, <2>1 DEF Inv, ServerInv, ServerAt
    <3>2. /\ o.binder = PskSecret(o.binder.md, TicketKey(o.identity))
          /\ \E d \in Conns \ {c} :
               Sealed(d, o.identity.key, TicketKey(o.identity).secret)
      BY <1>1, <3>1 DEF Inv, OffersInv, OfferAt
    <3> HIDE DEF o
    <3>3. PICK d \in Conns \ {c} : Sealed(d, o.identity.key, TicketKey(o.identity).secret)
      BY <3>2
    <3>4. srvr[c].tls.early.in = TicketKey(o.identity)
      BY <3>1, <3>2 DEF PskSecret, TlsGenerateSecret
    <3> QED BY <3>1, <3>3, <3>4 DEF Sealed, o
  <2> QED BY <2>1 DEF ResumesOwnTickets
<1> QED BY <1>1, Invariant, PTL

\* The integer parameters one end was given are those the other applies, zero
\* where none was sent (TlsConstructQtpExtension, TlsParseQtpExtension).
THEOREM ParametersAgree == Spec => []ParamsArrive
<1>1. Inv => ParamsArrive
  BY DEF Inv, ClientInv, ClientAt, ServerInv, ServerAt, ParamsArrive, Applies
<1> QED BY <1>1, Invariant, PTL

\* A refusal is of a ticket that the server could not verify.
RefusedInv ==
    \A c \in Conns : srvr[c].st = "error" =>
        clnt[c].offer # <<>> /\ ~Verifies(clnt[c].offer[1], srvr[c].tls.cipher)

LEMMA RefusedStays ==
    ASSUME RefusedInv,
           \A d \in Conns : srvr'[d].st = "error" =>
             /\ srvr[d].st = "error" /\ srvr'[d].tls = srvr[d].tls
             /\ clnt'[d].offer = clnt[d].offer
    PROVE  RefusedInv'
<1>1. ASSUME NEW c \in Conns, srvr'[c].st = "error"
      PROVE  clnt'[c].offer # <<>> /\ ~Verifies(clnt[c].offer[1], srvr[c].tls.cipher)'
  <2>1. /\ clnt[c].offer # <<>> /\ ~Verifies(clnt[c].offer[1], srvr[c].tls.cipher)
        /\ srvr'[c].tls = srvr[c].tls /\ clnt'[c].offer = clnt[c].offer
    BY <1>1 DEF RefusedInv
  <2> QED BY <2>1 DEF Verifies, TicketKey, PskSecret
<1> QED BY <1>1 DEF RefusedInv

LEMMA RefusedNext ==
    ASSUME Compatible, Inv, RefusedInv, [Next]_vars PROVE RefusedInv'
<1>1. CASE UNCHANGED vars \/ Tick
  BY <1>1, RefusedStays DEF vars, Tick
<1>2. CASE Restart
  BY <1>2, RefusedStays DEF Restart
<1>3. ASSUME NEW c \in Conns, QuicNew(c) PROVE RefusedInv'
  BY <1>3, NewEffect, RefusedStays DEF Inv, ClntOnly
<1>4. ASSUME NEW c \in Conns, QUIC_get1_session(c) PROVE RefusedInv'
  BY <1>4, GetEffect, RefusedStays DEF Inv
<1>5. ASSUME NEW c \in Conns, QuicFree(c) PROVE RefusedInv'
  BY <1>5, FreeEffect, RefusedStays DEF Inv, ClntOnly
<1>6. ASSUME NEW c \in Conns, NEW s \in Conns, QUIC_set_session(c, s) PROVE RefusedInv'
  BY <1>6, SetEffect, RefusedStays DEF Inv, ClntOnly
<1>7. ASSUME NEW c \in Conns, TlsClientHelloBuild(c) PROVE RefusedInv'
  <2>1. ClntOnly(c) /\ clnt[c].st = "new" /\ srvr' = srvr
    BY <1>7, BuildEffect DEF Inv
  <2>2. srvr[c].st = "none"
    BY <2>1 DEF Inv, ClientInv, ClientAt
  <2> QED BY <2>1, <2>2, RefusedStays DEF ClntOnly
<1>8. ASSUME NEW c \in Conns, TlsAccept(c) PROVE RefusedInv'
  <2>1. /\ SrvrOnly(c) /\ clnt' = clnt
        /\ Refuses(c) \/ Accepts(c)
    BY <1>8, AcceptEffect DEF Inv
  <2>2. ASSUME NEW d \in Conns, srvr'[d].st = "error"
        PROVE  clnt'[d].offer # <<>> /\ ~Verifies(clnt[d].offer[1], srvr[d].tls.cipher)'
    <3>1. CASE d = c
      <4>1. Refuses(c)
        BY <2>1, <2>2, <3>1 DEF Accepts
      <4>2. clnt[c].offer # <<>> /\ ~Verifies(clnt[c].offer[1], srvr'[c].tls.cipher)
        BY <4>1 DEF Refuses
      <4> QED BY <2>1, <3>1, <4>2 DEF Verifies, TicketKey, PskSecret
    <3>2. CASE d # c
      <4>1. srvr'[d] = srvr[d]
        BY <2>1, <3>2 DEF SrvrOnly
      <4>2. clnt[d].offer # <<>> /\ ~Verifies(clnt[d].offer[1], srvr[d].tls.cipher)
        BY <2>2, <4>1 DEF RefusedInv
      <4> QED BY <2>1, <4>1, <4>2 DEF Verifies, TicketKey, PskSecret
    <3> QED BY <3>1, <3>2
  <2> QED BY <2>2 DEF RefusedInv
<1>9. ASSUME NEW c \in Conns, TlsServerHelloProc(c) PROVE RefusedInv'
  BY <1>9, HelloEffect, RefusedStays DEF Inv, ClntOnly
<1>10. ASSUME NEW c \in Conns, TlsEncExtProc(c) PROVE RefusedInv'
  BY <1>10, EncEffect, RefusedStays DEF Inv, ClntOnly
<1>11. ASSUME NEW c \in Conns, TlsSrvrFinishedProc(c) PROVE RefusedInv'
  BY <1>11, FinishedEffect, RefusedStays DEF Inv, SrvrOnly
<1>12. ASSUME NEW c \in Conns, TlsClntNewSessionTicketProc(c) PROVE RefusedInv'
  BY <1>12, TicketEffect, RefusedStays DEF Inv
<1> QED BY <1>1, <1>2, <1>3, <1>4, <1>5, <1>6, <1>7, <1>8, <1>9, <1>10, <1>11, <1>12
        DEF Next

\* A ticket the client offers never makes the handshake fail, but for a session
\* whose cipher has another digest than its ticket or than the connection
\* (TlsExtsrvrParsePsk, TlsPskDoBinder).  Both ends must be able to handshake
\* without a ticket in every generation.
THEOREM OffersAccepted == ASSUME Compatible PROVE Spec => []OffersVerify
<1>1. Init => RefusedInv
  BY DEF Init, NewSrvr, RefusedInv
<1>2. Inv /\ RefusedInv /\ [Next]_vars => RefusedInv'
  BY RefusedNext
<1>3. ASSUME Inv, RefusedInv PROVE OffersVerify
  <2>1. ASSUME NEW c \in Conns, srvr[c].st = "error"
        PROVE  /\ clnt[c].offer # <<>>
               /\ \/ clnt[c].offer[1].binder.md
                       # tls_ciphers[clnt[c].offer[1].identity.session.cipher]
                  \/ clnt[c].offer[1].binder.md # tls_ciphers[srvr[c].tls.cipher]
    <3> DEFINE o == clnt[c].offer[1]
    <3>1. clnt[c].offer # <<>> /\ ~Verifies(o, srvr[c].tls.cipher)
      BY <1>3, <2>1 DEF RefusedInv
    <3>2. o.binder = PskSecret(o.binder.md, TicketKey(o.identity))
      BY <1>3, <3>1 DEF Inv, OffersInv, OfferAt
    <3> HIDE DEF o
    <3>3. \/ o.binder.md # tls_ciphers[o.identity.session.cipher]
          \/ o.binder.md # tls_ciphers[srvr[c].tls.cipher]
      BY <3>1, <3>2 DEF Verifies
    <3> QED BY <3>1, <3>3 DEF o
  <2> QED BY <2>1 DEF OffersVerify
<1> QED BY <1>1, <1>2, <1>3, Invariant, PTL DEF Spec
=============================================================================
