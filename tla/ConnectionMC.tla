---- MODULE ConnectionMC ----
(* An instance of Connection: packets of a peer that follows the protocol, sent *)
(* in any order and repeated, some damaged, some with HANDSHAKE_DONE where the  *)
(* protocol has none; a few datagrams hold two packets.                         *)
EXTENDS Connection

MCOwnLength == {"rand", "own"}

Pkt(form, dst, src, key, frames) ==
  [wf |-> TRUE, form |-> form, dcid |-> dst, scid |-> src, key |-> key,
   token |-> NoVal, frames |-> frames, last |-> NoVal]

Crypto(r) == [type |-> "crypto", tls |-> r]
Close == [type |-> "close"]
Id == <<"P1", "P2", "P3", "P4">>
NewCid(n, r) ==
  [type |-> "new_cid", seq |-> n, prior |-> r, id |-> Id[n], token |-> n, whole |-> TRUE]

Short(key, frames) == Pkt("1rtt", NoVal, NoVal, key, frames)

(* Common to both ends once the handshake is over. *)
AppPackets ==
  { Short("app", <<NewCid(1, 0)>>), Short("app", <<NewCid(2, 0)>>),
    Short("app", <<NewCid(3, 2), [NewCid(4, 4) EXCEPT !.whole = FALSE]>>),
    Short("app", <<NewCid(2, 1), [type |-> "other", ok |-> FALSE]>>),
    Short("app", <<[type |-> "retire_cid", seq |-> 1], [type |-> "other", ok |-> TRUE]>>),
    Short("app", <<Close>>), Short("app", <<Crypto("stay")>>),
    [Short("bad", <<>>) EXCEPT !.last = 1], [Short("bad", <<>>) EXCEPT !.last = ZeroToken] }

ClntInitial == Pkt("initial", Empty, "P0", Random, <<Crypto("advance")>>)
ClntHandshake == Pkt("handshake", Empty, "P0", "hs", <<Crypto("advance")>>)
HandshakeDone == Short("app", <<[type |-> "done"]>>)

ClntPackets ==
  AppPackets \cup
  { ClntInitial, ClntHandshake, HandshakeDone,
    [ClntInitial EXCEPT !.scid = "P8", !.key = "bad"],
    [ClntInitial EXCEPT !.scid = "P9", !.frames = <<Close>>],
    [ClntInitial EXCEPT !.scid = Empty],
    [ClntInitial EXCEPT !.token = "t"],
    [ClntHandshake EXCEPT !.scid = "P9"],
    [ClntHandshake EXCEPT !.scid = "P1", !.frames = <<Crypto("stay")>>],
    [ClntHandshake EXCEPT !.frames = <<Close>>],
    [ClntHandshake EXCEPT !.frames = <<Close, Crypto("advance")>>],
    [HandshakeDone EXCEPT !.frames = <<Close>> \o @],
    [ClntInitial EXCEPT !.frames = HandshakeDone.frames],
    [ClntHandshake EXCEPT !.frames = HandshakeDone.frames],
    [ClntHandshake EXCEPT !.frames = <<Crypto("fail")>>],
    [ClntHandshake EXCEPT !.frames = <<Crypto("stay")>>],
    [ClntHandshake EXCEPT !.key = "bad", !.last = ZeroToken],
    [ClntHandshake EXCEPT !.form = "retry"],
    Short("app", <<[type |-> "new_token", token |-> "t"]>>) }

SrvrInitial == Pkt("initial", "rand", "C0", "rand", <<Crypto("advance")>>)
SrvrHandshake == Pkt("handshake", "rand", "C0", "hs", <<Crypto("advance")>>)

SrvrPackets ==
  { [p EXCEPT !.dcid = IF IsLong(p) THEN @ ELSE "rand"] : p \in AppPackets } \cup
  { SrvrInitial, SrvrHandshake,
    [SrvrInitial EXCEPT !.dcid = "long", !.key = "long", !.scid = Empty],
    [SrvrInitial EXCEPT !.key = "bad"],
    [SrvrInitial EXCEPT !.token = "t"],
    [SrvrInitial EXCEPT !.wf = FALSE],
    [SrvrHandshake EXCEPT !.dcid = Fresh, !.scid = Empty],
    [SrvrHandshake EXCEPT !.scid = "C9"],
    [SrvrHandshake EXCEPT !.frames = <<Crypto("stay")>>],
    [SrvrHandshake EXCEPT !.form = "0rtt"],
    [SrvrHandshake EXCEPT !.frames = <<Close>>],
    [HandshakeDone EXCEPT !.dcid = "rand"],
    [SrvrInitial EXCEPT !.frames = HandshakeDone.frames],
    [HandshakeDone EXCEPT !.dcid = Fresh],
    [Short("app", <<[type |-> "new_token", token |-> "t"]>>) EXCEPT !.dcid = "rand"] }

MCDatagrams ==
  [s \in BOOLEAN |->
     IF s THEN { <<p>> : p \in SrvrPackets } \cup
               { <<SrvrInitial, SrvrHandshake>>,
                 <<SrvrHandshake, [SrvrHandshake EXCEPT !.frames = <<Close>>]>> }
          ELSE { <<p>> : p \in ClntPackets } \cup
               { <<ClntInitial, ClntHandshake>>,
                 <<[ClntHandshake EXCEPT !.frames = <<Close>>], ClntHandshake>>,
                 <<ClntHandshake, HandshakeDone>>,
                 <<[ClntInitial EXCEPT !.frames = <<Close>>], ClntHandshake>> }]
====
