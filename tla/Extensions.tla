---- MODULE Extensions ----
(* The negotiation inside the hellos (quic/tls/extension*.c, transport.c and    *)
(* the operators of tls_lib.c they call), as operators on the TLS record of one *)
(* end.  A parser takes and returns the record; `ok' becomes FALSE where the    *)
(* code returns -1.  A secret is the record of what it is derived from, a key   *)
(* is its curve and its owner.  Lists of the code are sequences, in order of    *)
(* preference.  Each extension of a message is the sequence of its value, empty *)
(* where the message does not have it.                                          *)
EXTENDS Naturals, FiniteSets, SequencesExt

CONSTANTS
  NoVal,          \* NULL
  ClntCiphers,    \* cipher list of the client
  ClntGroups,     \* supported groups of the client
  SrvrGroups,     \* supported groups of the server
  ClntSigAlgs,    \* signature algorithms of the client
  SrvrSigAlgs,    \* signature algorithms of the server
  CertAlgs,       \* signature algorithms some certificate of the server can use
  Hostname,       \* server_name of the client, or NoVal
  Alpn,           \* what the client passed to QUIC_set_alpn_protos, or NoVal
  SrvrParam,      \* transport parameters set on the server
  MaxEarlyData    \* QUIC_CTX_set_max_early_data of the server

(* The digest of each cipher suite. *)
tls_ciphers ==
  [AES_128_GCM_SHA256 |-> "SHA256", AES_256_GCM_SHA384 |-> "SHA384",
   CHACHA20_POLY1305_SHA256 |-> "SHA256"]

Ciphers == DOMAIN tls_ciphers

IntParams ==
  {"max_idle_timeout", "max_udp_payload_size", "initial_max_data",
   "max_stream_data_bidi_local", "max_stream_data_bidi_remote",
   "max_stream_data_uni", "max_streams_bidi", "max_streams_uni",
   "max_datagram_frame_size"}

(* The parameters QuicTransParamSet and QuicTransParamGet know. *)
trans_param_definition ==
  IntParams \cup {"active_connection_id_limit", "initial_source_connection_id"}

ASSUME ExtensionsAssumption ==
  /\ ClntCiphers \in Seq(Ciphers) /\ NoVal \notin Ciphers
  /\ ClntGroups \in Seq(ToSet(ClntGroups)) \ {<<>>} /\ SrvrGroups # <<>>
  /\ ClntSigAlgs \in Seq(ToSet(ClntSigAlgs)) /\ NoVal \notin ToSet(ClntSigAlgs)
  /\ SrvrParam \in [IntParams \cup {"active_connection_id_limit"} -> Nat]
  /\ MaxEarlyData \in Nat

(* The first element of s in T, or NoVal. *)
First(s, T) ==
  LET found == {i \in DOMAIN s : s[i] \in T}
  IN  IF found = {} THEN NoVal ELSE s[Min(found)]

-----------------------------------------------------------------------------
(* The TLS record. *)

NoKey == [curve |-> NoVal, owner |-> <<>>]

(* TlsInit and the zeroed fields of a new connection. *)
TlsNew ==
  [ok |-> TRUE, cipher |-> NoVal, hit |-> FALSE, early |-> NoVal,
   secret |-> NoVal, key |-> NoKey, peer_key |-> NoKey, group |-> NoVal,
   peer_groups |-> <<>>, peer_sigalgs |-> <<>>, sigalg |-> NoVal,
   alpn_sent |-> FALSE, alpn_selected |-> NoVal, identity |-> 0,
   hostname |-> NoVal, psk_dhe |-> FALSE,
   param |-> [p \in IntParams \cup {"active_connection_id_limit"} |->
                IF p \in IntParams THEN 0 ELSE 2]]

Fail(tls) == [tls EXCEPT !.ok = FALSE]

(* Extract: a secret from the digest, the secret before it and the new input. *)
TlsGenerateSecret(md, prev, in) == [md |-> md, prev |-> prev, in |-> in]

(* The Diffie-Hellman result is known by its two shares.  Unless a ticket was  *)
(* taken up the early secret starts again from zero.                           *)
TlsKeyDerive(tls, mine, peer) ==
  LET md    == tls_ciphers[tls.cipher]
      early == IF tls.hit THEN tls.early ELSE TlsGenerateSecret(md, NoVal, NoVal)
  IN  [tls EXCEPT !.early = early,
                  !.secret = TlsGenerateSecret(md, early, {mine, peer})]

(* The binder is a MAC under the early secret of the ticket; both ends compute *)
(* it over the same part of the ClientHello.  It replaces early_secret.        *)
PskSecret(md, master_key) == TlsGenerateSecret(md, NoVal, master_key)

MasterKeyGen(tls, nonce) ==
  [md |-> tls_ciphers[tls.cipher], secret |-> tls.secret, nonce |-> nonce]

-----------------------------------------------------------------------------
(* Transport parameters. *)

client_transport_param ==
  IntParams \cup {"stateless_reset_token", "initial_source_connection_id"}

server_transport_param ==
  IntParams \cup {"original_destination_connection_id", "initial_source_connection_id"}

(* Fault: only values above one are sent. *)
FaultCheckInteger(param, type) == param[type] > 1

TlsExtQtpCheckInteger(param, type) == param[type] # 0

(* Integers that are not zero and the connection ids, which are both the id    *)
(* this end chose; the client's check keeps it from sending a reset token.     *)
TlsConstructQtpExtension(table, param, scid) ==
  [type \in {t \in table : t \in IntParams => TlsExtQtpCheckInteger(param, t)}
             \ {"stateless_reset_token"} |->
     IF type \in IntParams THEN param[type] ELSE scid]

(* The server compares the client's source id with the id it answers to. *)
TlsExtQtpParseSourceConnId(tls, scid, dcid) == IF scid = dcid THEN tls ELSE Fail(tls)

(* A parameter that is not in the table of the receiver, that transport.c does *)
(* not know or that has no parser is skipped.  The rows do not depend on one    *)
(* another, and where one fails the connection ends.                           *)
TlsParseQtpExtension(tls, table, msg, server, dcid) ==
  LET read == DOMAIN msg \cap table \cap trans_param_definition
      t == [tls EXCEPT !.param = [p \in DOMAIN tls.param |->
                                    IF p \in read \cap IntParams THEN msg[p]
                                    ELSE tls.param[p]]]
  IN  IF server /\ "initial_source_connection_id" \in read
      THEN TlsExtQtpParseSourceConnId(t, msg["initial_source_connection_id"], dcid)
      ELSE t

-----------------------------------------------------------------------------
(* The client writes a ClientHello. *)

(* key_share_max_group_idx is never set, so only the first group has a share. *)
TlsExtClntConstructKeyShare(c) == [curve |-> ClntGroups[1], owner |-> <<"client", c>>]

TlsExtClntConstructAlpn == IF Alpn = NoVal THEN <<>> ELSE <<Alpn>>

TlsExtClntConstructServerName == IF Hostname = NoVal THEN <<>> ELSE <<Hostname>>

(* Expired tickets are dropped from the head; the first valid one is offered. *)
QuicSessionTicketGet(sess, now) ==
  LET valid == {i \in DOMAIN sess.tickets :
                  now - sess.tickets[i].time <= sess.tickets[i].lifetime_hint}
  IN  [sess EXCEPT !.tickets = IF valid = {} THEN <<>>
                               ELSE SubSeq(sess.tickets, Min(valid), Len(sess.tickets))]

TlsExtClntConstructPreSharedKey(sess) ==
  IF sess.tickets = <<>> THEN <<>>
  ELSE << [identity |-> Head(sess.tickets).ticket,
           binder   |-> PskSecret(tls_ciphers[sess.cipher],
                                  Head(sess.tickets).master_key)] >>

(* The rows of client_ext_construct. *)
ClientHelloExt(c, param, psk) ==
  [server_name            |-> TlsExtClntConstructServerName,
   supported_groups       |-> <<ClntGroups>>,
   signature_algorithms   |-> <<ClntSigAlgs>>,
   alpn                   |-> TlsExtClntConstructAlpn,
   supported_versions     |-> <<"TLS 1.3">>,
   psk_key_exchange_modes |-> << {"DHE"} >>,
   key_share              |-> << << [group |-> ClntGroups[1],
                                     point |-> TlsExtClntConstructKeyShare(c)] >> >>,
   quic_trans_params      |->
     << TlsConstructQtpExtension(client_transport_param, param, c) >>,
   pre_shared_key         |-> psk]

(* The TLS record and the session as the constructors leave them. *)
TlsClntConstructExtensions(tls, session, c, param, now) ==
  LET sess == QuicSessionTicketGet(session, now)
      psk  == TlsExtClntConstructPreSharedKey(sess)
  IN  [tls  |-> [tls EXCEPT !.key = TlsExtClntConstructKeyShare(c),
                            !.group = ClntGroups[1],
                            !.alpn_sent = TlsExtClntConstructAlpn # <<>>,
                            !.early = IF psk = <<>> THEN tls.early ELSE psk[1].binder],
       sess |-> sess,
       ext  |-> ClientHelloExt(c, param, psk)]

-----------------------------------------------------------------------------
(* A row of a table is applied to the extension if it is there, unless an      *)
(* earlier row failed.                                                         *)
Reads(tls, values) == tls.ok /\ values # <<>>

TlsParseSupportedVersion(tls, versions) ==
  IF Reads(tls, versions) /\ versions[1] # "TLS 1.3" THEN Fail(tls) ELSE tls

TlsParseQtp(tls, table, msgs, server, dcid) ==
  IF Reads(tls, msgs) THEN TlsParseQtpExtension(tls, table, msgs[1], server, dcid) ELSE tls

-----------------------------------------------------------------------------
(* The server reads it. *)

(* The rows that only store a list or a name: server_name, supported_groups    *)
(* and signature_algorithms.                                                   *)
TlsExtSrvrParseLists(tls, ext) ==
  LET kept(values, old) == IF values = <<>> THEN old ELSE values[1]
  IN  [tls EXCEPT !.hostname = kept(ext.server_name, tls.hostname),
                  !.peer_groups = kept(ext.supported_groups, tls.peer_groups),
                  !.peer_sigalgs = kept(ext.signature_algorithms, tls.peer_sigalgs)]

(* The client's first protocol is taken. *)
TlsExtSrvrParseAlpn(tls, protos) ==
  IF Reads(tls, protos) THEN [tls EXCEPT !.alpn_selected = protos[1]] ELSE tls

TlsExtSrvrParseKeyExchModes(tls, modes) ==
  IF ~Reads(tls, modes) THEN tls
  ELSE IF "DHE" \in modes[1] THEN [tls EXCEPT !.psk_dhe = TRUE] ELSE Fail(tls)

(* The first share of a group the server supports; shares up to it must be of  *)
(* groups the client listed.  The point must be one of that curve.             *)
TlsExtSrvrParseKeyShare(tls, shares) ==
  LET list  == shares[1]
      found == {i \in DOMAIN list : list[i].group \in ToSet(SrvrGroups)}
      seen  == {j \in DOMAIN list : \A i \in found : j <= i}
      share == list[Min(found)]
  IN  IF ~Reads(tls, shares) THEN tls
      ELSE IF \/ tls.peer_groups = <<>>
              \/ \E j \in seen : list[j].group \notin ToSet(tls.peer_groups)
      THEN Fail(tls)
      ELSE IF found = {} THEN tls
      ELSE IF share.point.curve # share.group THEN Fail(tls)
      ELSE [tls EXCEPT !.peer_key = share.point, !.group = share.group]

(* Fault: the key that sealed the ticket is not checked. *)
FaultDecryptTicket(identity, ticket_key) == <<identity.session>>

(* A ticket is read by the context whose key sealed it (name and MAC agree). *)
TlsDecryptTicket(identity, ticket_key) ==
  IF identity.key = ticket_key THEN <<identity.session>> ELSE <<>>

(* A ticket that cannot be read leaves a full handshake.  One made with        *)
(* another digest is passed over but stays in `sess', and the search for the   *)
(* binder after the last one fails.  Otherwise the binder is compared.  The    *)
(* session is the sequence of the one that is taken up, or empty.              *)
TlsExtsrvrParsePsk(tls, psks, ticket_key) ==
  LET psk  == psks[1]
      sess == TlsDecryptTicket(psk.identity, ticket_key)
      md   == tls_ciphers[sess[1].cipher]
      want == PskSecret(md, Last(sess[1].tickets).master_key)
  IN  IF ~Reads(tls, psks) \/ sess = <<>> THEN [tls |-> tls, sess |-> <<>>]
      ELSE IF md # tls_ciphers[tls.cipher] \/ psk.binder # want
           THEN [tls |-> Fail(tls), sess |-> <<>>]
      ELSE [tls |-> [tls EXCEPT !.early = want, !.hit = TRUE, !.identity = 0],
            sess |-> sess]

(* The rows of server_ext_parse in their order; early_data has no data and is  *)
(* passed over.                                                                *)
TlsSrvrParseExtensions(tls, ext, dcid, ticket_key) ==
  LET t == TlsExtSrvrParseKeyShare(
             TlsExtSrvrParseKeyExchModes(
               TlsParseSupportedVersion(
                 TlsExtSrvrParseAlpn(TlsExtSrvrParseLists(tls, ext), ext.alpn),
                 ext.supported_versions),
               ext.psk_key_exchange_modes),
             ext.key_share)
  IN  TlsExtsrvrParsePsk(
        TlsParseQtp(t, server_transport_param, ext.quic_trans_params, TRUE, dcid),
        ext.pre_shared_key, ticket_key)

(* The client's preference decides among the algorithms both ends list, and    *)
(* among those the first for which there is a certificate is taken.            *)
TlsSetServerSigAlgs(tls) == ToSet(tls.peer_sigalgs) \cap ToSet(SrvrSigAlgs)

TlsChooseSigalg(tls) == First(tls.peer_sigalgs, TlsSetServerSigAlgs(tls) \cap CertAlgs)

-----------------------------------------------------------------------------
(* The server answers. *)

(* The key of the server; the secret follows from it.  Without a share of the  *)
(* client nothing is written.                                                  *)
TlsExtSrvrConstructKeyShare(tls, c) ==
  LET key == [curve |-> tls.peer_key.curve, owner |-> <<"server", c>>]
  IN  IF tls.peer_key = NoKey THEN [tls |-> tls, share |-> <<>>]
      ELSE [tls   |-> TlsKeyDerive([tls EXCEPT !.key = key], key, tls.peer_key),
            share |-> << [group |-> tls.group, point |-> key] >>]

(* The rows of server_ext_construct for each message.  server_name is answered *)
(* without data, which the client passes over.                                 *)
ServerHelloExt(tls, share) ==
  [alpn |-> <<>>, supported_versions |-> <<"TLS 1.3">>, key_share |-> share,
   quic_trans_params |-> <<>>, pre_shared_key |-> IF tls.hit THEN <<tls.identity>> ELSE <<>>]

EncryptedExt(tls, c) ==
  [alpn |-> IF tls.alpn_selected = NoVal THEN <<>> ELSE <<tls.alpn_selected>>,
   supported_versions |-> <<>>, key_share |-> <<>>,
   quic_trans_params |-> << TlsConstructQtpExtension(server_transport_param, SrvrParam, c) >>,
   pre_shared_key |-> <<>>]

TlsExtSrvrConstructEarlyData == IF MaxEarlyData = 0 THEN <<>> ELSE <<MaxEarlyData>>

-----------------------------------------------------------------------------
(* The client reads ServerHello and EncryptedExtensions, with the same rows. *)

TlsExtClntParseAlpn(tls, protos) ==
  IF ~Reads(tls, protos) THEN tls
  ELSE IF tls.alpn_sent THEN [tls EXCEPT !.alpn_selected = protos[1]] ELSE Fail(tls)

TlsExtClntParsePreSharedKey(tls, identities, sess) ==
  IF ~Reads(tls, identities) THEN tls
  ELSE IF identities[1] < sess.tick_identity THEN [tls EXCEPT !.hit = TRUE] ELSE Fail(tls)

TlsExtClntParseKeyShare(tls, shares) ==
  LET share == shares[1]
  IN  IF ~Reads(tls, shares) THEN tls
      ELSE IF tls.key = NoKey \/ share.group # ClntGroups[1] \/ share.group # tls.group
      THEN Fail(tls)
      ELSE [TlsKeyDerive(tls, tls.key, share.point) EXCEPT !.peer_key = share.point]

(* Fault: the key share is read before it is known whether the ticket holds. *)
FaultParseExtensions(tls, ext, sess) ==
  TlsExtClntParsePreSharedKey(
    TlsParseQtp(
      TlsExtClntParseKeyShare(
        TlsParseSupportedVersion(TlsExtClntParseAlpn(tls, ext.alpn),
                                 ext.supported_versions),
        ext.key_share),
      client_transport_param, ext.quic_trans_params, FALSE, 0),
    ext.pre_shared_key, sess)

(* The rows of client_ext_parse in their order.  pre_shared_key stands twice   *)
(* in the table; the second row checks again.                                  *)
TlsClntParseExtensions(tls, ext, sess) ==
  LET t == TlsExtClntParsePreSharedKey(TlsExtClntParseAlpn(tls, ext.alpn),
                                       ext.pre_shared_key, sess)
      u == TlsExtClntParseKeyShare(TlsParseSupportedVersion(t, ext.supported_versions),
                                   ext.key_share)
  IN  TlsExtClntParsePreSharedKey(
        TlsParseQtp(u, client_transport_param, ext.quic_trans_params, FALSE, 0),
        ext.pre_shared_key, sess)
====
