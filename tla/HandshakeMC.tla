---------------------------- MODULE HandshakeMC ----------------------------
(* Instances of Handshake for TLC: message lengths, resumption and networks. *)
EXTENDS Handshake

\* Packets of three units cut the Certificate of a flight in two, and none ends where a
\* message does; packets of two units do.
LongMsgs == [t \in Types |-> IF t \in {"ENCRYPTED_EXTENSIONS", "CERTIFICATE"} THEN 2 ELSE 1]

\* Packets of two units cut every message of a flight but the first, and the Finished.
SplitMsgs ==
    [t \in Types |-> CASE t = "FINISHED" -> 3
                       [] t \in {"CERTIFICATE", "CERTIFICATE_VERIFY"} -> 2
                       [] OTHER -> 1]

Never == {FALSE}
Either == BOOLEAN
Server == {"server"}

Zero == [e \in Ends |-> 0]
One == [e \in Ends |-> 1]
=============================================================================
