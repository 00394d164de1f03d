\* Loss, duplication and reordering across the first wrap of the truncated number, the
\* packets before the wrap all lost among them; the packet that wraps may hold nothing
\* but an ACK.
SPECIFICATION Spec
CONSTANTS
    IntMod = 128
    PnBits = 3
    PnLimit = 1024
    PureAcks = {8}
    MaxPackets = 9
    MaxLag = 2
INVARIANTS
    FreedWasTaken
    EncodeAssert
    DecodedIsFull
PROPERTIES
    AckedNeverShrinks
