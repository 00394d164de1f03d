---- MODULE ResumptionMC ----
(* An instance of Resumption: a restarted server keeps its ciphers or prefers   *)
(* another digest, so the client's session can hold tickets of both.            *)
EXTENDS Resumption

MCConns == 1..3
MCClntCiphers == <<"AES_128_GCM_SHA256", "AES_256_GCM_SHA384", "CHACHA20_POLY1305_SHA256">>
MCRestarts == {1, 2}
MCSrvrCiphers == [g \in {0, 1, 2} |->
  IF g # 1 THEN MCClntCiphers ELSE <<"AES_256_GCM_SHA384", "AES_128_GCM_SHA256">>]
MCClntGroups == <<"X25519", "SECP256R1">>
MCSrvrGroups == <<"SECP256R1", "X25519">>
MCClntSigAlgs == <<"ECDSA", "RSA_PSS", "RSA">>
MCSrvrSigAlgs == <<"RSA", "RSA_PSS">>
MCCertAlgs == {"RSA_PSS", "RSA"}
MCSrvrParam ==
  [p \in IntParams \cup {"active_connection_id_limit"} |->
     CASE p = "initial_max_data" -> 7 [] p = "max_streams_bidi" -> 1
       [] p = "active_connection_id_limit" -> 4 [] OTHER -> 0]
MCParamValues == {1}
====
