------------------------------ MODULE StreamId ------------------------------
(* Stream identifiers and the stream table of one endpoint: the arithmetic   *)
(* of quic/stream.c and quic/stream.h.  Bit 0 of an id says that the server  *)
(* initiated the stream, bit 1 that the stream is unidirectional.            *)
EXTENDS Common

CONSTANTS
    IsServer,                       \* quic->quic_server
    LocalMaxBidi, LocalMaxUni,      \* tls.ext.trans_param.initial_max_stream_*
    PeerMaxBidi, PeerMaxUni         \* the peer's values when the table is made

ASSUME StreamIdAssumption ==
    /\ IsServer \in BOOLEAN
    /\ LocalMaxBidi \in Nat /\ LocalMaxUni \in Nat
    /\ PeerMaxBidi \in Nat /\ PeerMaxUni \in Nat

Bit(x, b) == (x \div b) % 2
SetBit(x, b) == IF Bit(x, b) = 1 THEN x ELSE x + b

\* QuicStreamComputeMaxId: the two low bits of num are or-ed with the type
\* bits, the rest of num is doubled.
ComputeMaxId(num, uni, server) ==
    LET base == num % 4
        typed == IF uni THEN SetBit(base, 2) ELSE base
    IN  2 * (num - base) + (IF server THEN SetBit(typed, 1) ELSE typed)

Uni(id) == Bit(id, 2) = 1
PeerOpened(id) == IsServer = (Bit(id, 1) = 0)

\* QuicStreamInit sizes the table by the larger of the two sides' limits.
MaxIdValue ==
    QUIC_MAX(ComputeMaxId(QUIC_MAX(LocalMaxBidi, PeerMaxBidi), FALSE, IsServer),
             ComputeMaxId(QUIC_MAX(LocalMaxUni, PeerMaxUni), TRUE, IsServer))

Ids == 0 .. MaxIdValue - 1

\* QuicStreamIdCheck, with QuicStreamIdCheckPeer: ids this endpoint initiates
\* are held to its own limits, ids the peer initiates only to the table.
IdCheck(id) ==
    /\ id \in Ids
    /\ \/ PeerOpened(id)
       \/ id < ComputeMaxId(IF Uni(id) THEN LocalMaxUni ELSE LocalMaxBidi,
                            Uni(id), IsServer)

\* The id QuicStreamIdGen makes from an allocation counter.
LocalId(n, uni) ==
    4 * n + (IF uni THEN 2 ELSE 0) + (IF IsServer THEN 1 ELSE 0)
=============================================================================
