---- MODULE Resumption ----
(* Sessions and tickets over the connections of one client program with one     *)
(* server address (quic/session.c, asn1.c, the session calls of quic_lib.c and  *)
(* the hello and ticket handlers of tls_clnt.c and tls_srvr.c).  Connections    *)
(* overlap in any way; a session object is shared by the client's connections   *)
(* and by handles of the application.  The server may be restarted, with a new  *)
(* ticket key and another list of ciphers.  Handshake messages arrive in order: *)
(* what the network does to them is the subject of Handshake.                   *)
EXTENDS Extensions

CONSTANTS
  Conns,          \* connections, in the order in which the client opens them
  SrvrCiphers,    \* cipher list of each generation of the server
  ParamValues,    \* initial_max_data the client may set with QUIC_set_transport_parameter
  Lifetime,       \* lifetime_hint, in ticks
  Restarts,       \* generations a restart may bring; bound: there is one restart
  MaxTime,        \* bound: the clock
  MaxHeld,        \* bound: handles of one session
  MaxOpen         \* bound: connections open at once

ASSUME ResumptionAssumption ==
  /\ IsFiniteSet(Conns) /\ Conns = 1..Cardinality(Conns) /\ NoVal \notin Conns
  /\ Restarts \subseteq Nat \ {0} /\ MaxTime \in Nat /\ MaxHeld \in Nat /\ MaxOpen \in Nat /\ Lifetime \in Nat
  /\ SrvrCiphers \in [Restarts \cup {0} -> Seq(Ciphers)]
  /\ ParamValues \subseteq Nat

VARIABLES
  clnt,     \* QUIC of the client for each connection, with what it offered
  srvr,     \* QUIC of the server for each connection
  sess,     \* QUIC_SESSION objects of the client, named by the connection that made them
  held,     \* references of the application, from QUIC_get1_session
  up,       \* messages on their way to the server
  down,     \* messages on their way to the client
  now,      \* time(NULL)
  gen       \* generation of the server, which is also its ticket key

vars == <<clnt, srvr, sess, held, up, down, now, gen>>

QuicSessionCreate(cipher) ==
  [references |-> 1, cipher |-> cipher, tickets |-> <<>>, tick_identity |-> 0,
   max_early_data |-> 0]

(* NULL, and what is left of a session that was freed. *)
NoSession == [QuicSessionCreate(NoVal) EXCEPT !.references = 0]

NewClnt == [st |-> "none", tls |-> TlsNew, session |-> NoVal, param |-> SrvrParam,
            offer |-> <<>>]
NewSrvr == [st |-> "none", tls |-> TlsNew, session |-> NoSession, nonce |-> 0, gen |-> 0]

Init ==
  /\ clnt = [c \in Conns |-> NewClnt]
  /\ srvr = [c \in Conns |-> NewSrvr]
  /\ sess = [c \in Conns |-> NoSession]
  /\ held = [c \in Conns |-> 0]
  /\ up = [c \in Conns |-> <<>>]
  /\ down = [c \in Conns |-> <<>>]
  /\ now = 0
  /\ gen = 0

-----------------------------------------------------------------------------
(* Session objects. *)

QuicSessionUpRef(heap, s) == [heap EXCEPT ![s].references = @ + 1]

(* The last reference destroys the session with its tickets. *)
QuicSessionFree(heap, s) ==
  IF s = NoVal THEN heap
  ELSE [heap EXCEPT ![s] = IF heap[s].references - 1 > 0
                           THEN [heap[s] EXCEPT !.references = @ - 1] ELSE NoSession]

QuicSessionTicketAdd(s, t) ==
  [s EXCEPT !.tickets = Append(@, t), !.tick_identity = @ + 1]

(* A connection that has a session keeps it, with the cipher it was made for. *)
QuicGetSession(heap, c, s, cipher) ==
  IF s # NoVal THEN heap ELSE [heap EXCEPT ![c] = QuicSessionCreate(cipher)]

SessionOf(c) == IF clnt[c].session = NoVal THEN NoSession ELSE sess[clnt[c].session]

-----------------------------------------------------------------------------
(* The application. *)

(* QuicNew, then QUIC_set_transport_parameter.  One connection is prepared at  *)
(* a time.                                                                     *)
QuicNew(c) ==
  /\ clnt[c].st = "none"
  /\ \A d \in Conns : d < c => clnt[d].st \notin {"none", "new"}
  /\ Cardinality({d \in Conns : clnt[d].st \notin {"none", "free"}}) < MaxOpen
  /\ \E v \in ParamValues :
       clnt' = [clnt EXCEPT ![c].st = "new", ![c].param["initial_max_data"] = v]
  /\ UNCHANGED <<srvr, sess, held, up, down, now, gen>>

(* Fault: the handle is given out without a reference. *)
FaultGetSession(c) ==
  /\ clnt[c].st \notin {"none", "free"}
  /\ clnt[c].session # NoVal
  /\ held[clnt[c].session] < MaxHeld
  /\ held' = [held EXCEPT ![clnt[c].session] = @ + 1]
  /\ UNCHANGED <<clnt, srvr, sess, up, down, now, gen>>

QUIC_get1_session(c) ==
  /\ clnt[c].st \notin {"none", "free"}
  /\ clnt[c].session # NoVal
  /\ held[clnt[c].session] < MaxHeld
  /\ held' = [held EXCEPT ![clnt[c].session] = @ + 1]
  /\ sess' = QuicSessionUpRef(sess, clnt[c].session)
  /\ UNCHANGED <<clnt, srvr, up, down, now, gen>>

(* Before connecting, as quic_client.c does.  The call takes no reference, so  *)
(* the application's handle passes to the connection.                          *)
QUIC_set_session(c, s) ==
  /\ clnt[c].st = "new"
  /\ held[s] > 0
  /\ held' = [held EXCEPT ![s] = @ - 1]
  /\ sess' = QuicSessionFree(sess, clnt[c].session)
  /\ clnt' = [clnt EXCEPT ![c].session = s]
  /\ UNCHANGED <<srvr, up, down, now, gen>>

(* Not while the handshake is under way: QuicDoHandshake has returned.         *)
QuicFree(c) ==
  /\ clnt[c].st \in {"new", "ready", "error"}
  /\ sess' = QuicSessionFree(sess, clnt[c].session)
  /\ clnt' = [clnt EXCEPT ![c].st = "free", ![c].tls = TlsNew, ![c].session = NoVal]
  /\ down' = [down EXCEPT ![c] = <<>>]
  /\ UNCHANGED <<srvr, held, up, now, gen>>

-----------------------------------------------------------------------------
(* The hellos. *)

TlsClientHelloBuild(c) ==
  LET a == TlsClntConstructExtensions(clnt[c].tls, SessionOf(c), c, clnt[c].param, now)
  IN  /\ clnt[c].st = "new"
      /\ clnt' = [clnt EXCEPT ![c].st = "sent", ![c].tls = a.tls,
                              ![c].offer = a.ext.pre_shared_key]
      /\ sess' = IF clnt[c].session = NoVal THEN sess
                 ELSE [sess EXCEPT ![clnt[c].session] = a.sess]
      /\ up' = [up EXCEPT ![c] = Append(@, [type |-> "client_hello",
                                            ciphers |-> ClntCiphers, ext |-> a.ext])]
      /\ UNCHANGED <<srvr, held, down, now, gen>>

(* The first of the server's own ciphers that the client lists, the            *)
(* extensions, then the signature algorithm; a session is made unless a ticket *)
(* brought one.                                                                *)
TlsClientHelloProc(m, c) ==
  LET cipher == First(SrvrCiphers[gen], ToSet(m.ciphers))
      a      == TlsSrvrParseExtensions([TlsNew EXCEPT !.cipher = cipher], m.ext, c, gen)
      alg    == TlsChooseSigalg(a.tls)
  IN  IF cipher = NoVal THEN [tls |-> Fail(TlsNew), sess |-> <<>>]
      ELSE IF ~a.tls.ok THEN a
      ELSE IF alg = NoVal THEN [a EXCEPT !.tls = Fail(@)]
      ELSE [tls |-> [a.tls EXCEPT !.sigalg = alg],
            sess |-> IF a.sess # <<>> THEN a.sess ELSE <<QuicSessionCreate(cipher)>>]

(* The server reads the ClientHello and writes ServerHello and                 *)
(* EncryptedExtensions, which travel under the handshake secret.               *)
TlsAccept(c) ==
  LET a   == TlsClientHelloProc(Head(up[c]), c)
      b   == TlsExtSrvrConstructKeyShare(a.tls, c)
      sh  == [type |-> "server_hello", cipher |-> a.tls.cipher,
              ext |-> ServerHelloExt(b.tls, b.share)]
      ee  == [type |-> "encrypted_ext", key |-> b.tls.secret, ext |-> EncryptedExt(b.tls, c)]
  IN  /\ up[c] # <<>> /\ Head(up[c]).type = "client_hello"
      /\ srvr[c].st = "none"
      /\ up' = [up EXCEPT ![c] = Tail(@)]
      /\ IF ~a.tls.ok
         THEN /\ srvr' = [srvr EXCEPT ![c] = [@ EXCEPT !.st = "error", !.tls = a.tls,
                                                       !.gen = gen]]
              /\ UNCHANGED down
         ELSE /\ srvr' = [srvr EXCEPT ![c] = [st |-> "flight", tls |-> b.tls,
                                              session |-> a.sess[1], nonce |-> 0,
                                              gen |-> gen]]
              /\ down' = [down EXCEPT ![c] = <<sh, ee>>]
      /\ UNCHANGED <<clnt, sess, held, now, gen>>

TlsServerHelloProc(c) ==
  LET m   == Head(down[c])
      tls == TlsClntParseExtensions([clnt[c].tls EXCEPT !.cipher = m.cipher], m.ext,
                                    SessionOf(c))
      ok  == Contains(ClntCiphers, m.cipher) /\ tls.ok
  IN  /\ clnt[c].st = "sent"
      /\ down[c] # <<>> /\ m.type = "server_hello"
      /\ down' = [down EXCEPT ![c] = Tail(@)]
      /\ IF ok
         THEN /\ sess' = QuicGetSession(sess, c, clnt[c].session, m.cipher)
              /\ clnt' = [clnt EXCEPT ![c].st = "hello", ![c].tls = tls,
                                      ![c].session = IF @ = NoVal THEN c ELSE @]
         ELSE /\ clnt' = [clnt EXCEPT ![c].st = "error"]
              /\ UNCHANGED sess
      /\ UNCHANGED <<srvr, held, up, now, gen>>

(* The packet opens only under the secret it was sealed with.  The client then *)
(* finishes; the rest of the flight is part of Handshake.                      *)
TlsEncExtProc(c) ==
  LET m   == Head(down[c])
      tls == TlsClntParseExtensions(clnt[c].tls, m.ext, SessionOf(c))
  IN  /\ clnt[c].st = "hello"
      /\ down[c] # <<>> /\ m.type = "encrypted_ext" /\ m.key = clnt[c].tls.secret
      /\ down' = [down EXCEPT ![c] = Tail(@)]
      /\ IF tls.ok
         THEN /\ clnt' = [clnt EXCEPT ![c].st = "ready", ![c].tls = tls]
              /\ up' = [up EXCEPT ![c] = Append(@, [type |-> "finished",
                                                    key |-> tls.secret])]
         ELSE clnt' = [clnt EXCEPT ![c].st = "error"] /\ UNCHANGED up
      /\ UNCHANGED <<srvr, sess, held, now, gen>>

-----------------------------------------------------------------------------
(* Tickets. *)

(* Fault: the ticket is made of the oldest ticket of the session. *)
FaultI2d(s) ==
  [QuicSessionCreate(s.cipher) EXCEPT
     !.tickets = <<Head(s.tickets)>>, !.tick_identity = 1,
     !.max_early_data = s.max_early_data]

(* What a session becomes when it is encoded and read again: its last ticket. *)
i2dQuicSession(s) ==
  [QuicSessionCreate(s.cipher) EXCEPT
     !.tickets = <<Last(s.tickets)>>, !.tick_identity = 1,
     !.max_early_data = s.max_early_data]

(* Sealed with the key of the context. *)
TlsConstructStatelessTicket(s, key) == [key |-> key, session |-> i2dQuicSession(s)]

TlsSrvrNewSessionTicketBuild(q) ==
  LET s == QuicSessionTicketAdd(q.session, [master_key |-> MasterKeyGen(q.tls, q.nonce)])
  IN  [q |-> [q EXCEPT !.session = s, !.nonce = @ + 1],
       msg |-> [type |-> "ticket", key |-> q.tls.secret, nonce |-> q.nonce,
                lifetime_hint |-> Lifetime,
                ticket |-> TlsConstructStatelessTicket(s, q.gen),
                early_data |-> TlsExtSrvrConstructEarlyData]]

(* One call of the TLS state machine reads the Finished and writes both        *)
(* tickets (TLS_NEW_SESS_TICKET_NUM).                                          *)
TlsSrvrFinishedProc(c) ==
  LET a == TlsSrvrNewSessionTicketBuild(srvr[c])
      b == TlsSrvrNewSessionTicketBuild(a.q)
  IN  /\ srvr[c].st = "flight"
      /\ up[c] # <<>> /\ Head(up[c]).type = "finished"
      /\ Head(up[c]).key = srvr[c].tls.secret
      /\ up' = [up EXCEPT ![c] = Tail(@)]
      /\ srvr' = [srvr EXCEPT ![c] = [b.q EXCEPT !.st = "done"]]
      /\ down' = [down EXCEPT ![c] = @ \o <<a.msg, b.msg>>]
      /\ UNCHANGED <<clnt, sess, held, now, gen>>

TlsExtClntParseEarlyData(s, values) ==
  IF values = <<>> THEN s ELSE [s EXCEPT !.max_early_data = values[1]]

TlsClntNewSessionTicketProc(c) ==
  LET m == Head(down[c])
      t == [ticket |-> m.ticket, master_key |-> MasterKeyGen(clnt[c].tls, m.nonce),
            time |-> now, lifetime_hint |-> m.lifetime_hint]
  IN  /\ clnt[c].st = "ready"
      /\ down[c] # <<>> /\ m.type = "ticket" /\ m.key = clnt[c].tls.secret
      /\ down' = [down EXCEPT ![c] = Tail(@)]
      /\ sess' = [sess EXCEPT ![clnt[c].session] =
                    TlsExtClntParseEarlyData(QuicSessionTicketAdd(@, t), m.early_data)]
      /\ UNCHANGED <<clnt, srvr, held, up, now, gen>>

-----------------------------------------------------------------------------
(* Time and faults. *)

(* Only the age of a ticket is ever read. *)
Tick ==
  /\ now < MaxTime
  /\ \E s \in Conns : sess[s].tickets # <<>>
  /\ now' = now + 1
  /\ UNCHANGED <<clnt, srvr, sess, held, up, down, gen>>

(* The server process ends and QuicCtxNew makes a new ticket key; connections  *)
(* and sessions it had are gone.  What it sent may still arrive.               *)
Restart ==
  /\ gen = 0
  /\ gen' \in Restarts
  /\ srvr' = [c \in Conns |-> IF srvr[c].st = "none" THEN srvr[c]
                              ELSE [srvr[c] EXCEPT !.st = "lost"]]
  /\ UNCHANGED <<clnt, sess, held, up, down, now>>

Next ==
  \/ \E c \in Conns :
       \/ QuicNew(c) \/ QUIC_get1_session(c) \/ QuicFree(c)
       \/ \E s \in Conns : QUIC_set_session(c, s)
       \/ TlsClientHelloBuild(c) \/ TlsAccept(c) \/ TlsServerHelloProc(c)
       \/ TlsEncExtProc(c) \/ TlsSrvrFinishedProc(c)
       \/ TlsClntNewSessionTicketProc(c)
  \/ Tick
  \/ Restart

Spec == Init /\ [][Next]_vars

-----------------------------------------------------------------------------
(* Properties. *)

(* QuicSessionFree frees a session exactly when its last owner is gone: the    *)
(* count is the number of connections and handles that point at it, and nobody *)
(* points at one that was freed, whose count is zero.                          *)
RefsCountOwners ==
  \A s \in Conns :
    sess[s].references = Cardinality({c \in Conns : clnt[c].session = s}) + held[s]

(* Once the client has read the ServerHello both ends agree: on the secret, in *)
(* which the cipher, the share and a resumed ticket are mixed, and on whether  *)
(* the certificate is left out (TlsKeyDerive, TlsExtClntParsePreSharedKey).    *)
(* Tickets expire, the session is shared and the server restarts meanwhile.    *)
SecretsAgree ==
  \A c \in Conns : clnt[c].st \in {"hello", "ready"} =>
    LET a == clnt[c].tls b == srvr[c].tls
    IN  /\ a.secret = b.secret
        /\ a.hit = b.hit
        /\ a.cipher = b.cipher
        /\ a.group = b.group

(* A ticket the client offers never makes the handshake fail, whichever        *)
(* session, connection or server generation it comes from: the server resumes  *)
(* it or, if it cannot read it, makes a full handshake.  The exception is a    *)
(* session whose cipher has another digest than the ticket or the connection   *)
(* (QuicGetSession keeps the first cipher of a session).                       *)
OffersVerify ==
  \A c \in Conns : srvr[c].st = "error" =>
    LET o == clnt[c].offer[1]
    IN  /\ clnt[c].offer # <<>>
        /\ \/ o.binder.md # tls_ciphers[o.identity.session.cipher]
           \/ o.binder.md # tls_ciphers[srvr[c].tls.cipher]

(* A server resumes only what it sealed itself: a ticket of an earlier         *)
(* generation ends in a full handshake, and a resumed connection starts from   *)
(* the secret of an earlier connection (TlsDecryptTicket, TlsExtsrvrParsePsk). *)
ResumesOwnTickets ==
  \A c \in Conns : srvr[c].tls.hit =>
    /\ clnt[c].offer[1].identity.key = srvr[c].gen
    /\ \E d \in Conns : /\ d # c /\ srvr[d].gen = srvr[c].gen
                        /\ srvr[d].tls.secret = srvr[c].tls.early.in.secret

(* The integer parameters each end was given are the ones the other applies,   *)
(* zero where none was sent (TlsConstructQtpExtension, TlsParseQtpExtension).  *)
ParamsArrive ==
  \A c \in Conns :
    /\ srvr[c].st \in {"flight", "done"} =>
         \A p \in IntParams : srvr[c].tls.param[p] = clnt[c].param[p]
    /\ clnt[c].st = "ready" =>
         \A p \in IntParams : clnt[c].tls.param[p] = SrvrParam[p]
====
