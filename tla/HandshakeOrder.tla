--------------------------- MODULE HandshakeOrder ---------------------------
(* What a handshake promises its two applications: the server is the first   *)
(* to hold application keys, the client takes the same ones, the server is   *)
(* done only when the client holds them, the client only when the server is  *)
(* done.  Nothing here knows of messages, packets or losses.                 *)
CONSTANT Keys

VARIABLES stage, secret
vars == <<stage, secret>>

Ends == {"client", "server"}
Unset == <<>>

Init ==
    /\ stage = [e \in Ends |-> "start"] /\ secret = [e \in Ends |-> Unset]

ServerKeyed ==
    /\ stage["server"] = "start" /\ stage["client"] = "start"
    /\ stage' = [stage EXCEPT !["server"] = "keyed"]
    /\ secret' \in [Ends -> Keys] /\ secret'["client"] = secret["client"]

ClientKeyed ==
    /\ stage["client"] = "start" /\ stage["server"] = "keyed"
    /\ stage' = [stage EXCEPT !["client"] = "keyed"]
    /\ secret' = [secret EXCEPT !["client"] = secret["server"]]

ServerDone ==
    /\ stage["server"] = "keyed" /\ stage["client"] = "keyed"
    /\ stage' = [stage EXCEPT !["server"] = "done"] /\ UNCHANGED secret

ClientDone ==
    /\ stage["client"] = "keyed" /\ stage["server"] = "done"
    /\ stage' = [stage EXCEPT !["client"] = "done"] /\ UNCHANGED secret

Next == ServerKeyed \/ ClientKeyed \/ ServerDone \/ ClientDone

Spec == Init /\ [][Next]_vars
=============================================================================
