\* A client sending on stream 0 (bidirectional) and stream 2 (unidirectional)
\* while the server grants credit and stops streams.
SPECIFICATION Spec
CONSTANTS
    IntMod = 64
    IsServer = FALSE
    LocalMaxBidi = 1
    LocalMaxUni = 1
    PeerMaxBidi = 0
    PeerMaxUni = 1
    LocalDataBidiRemote = 1
    LocalDataUni = 1
    PeerDataBidiRemote = 1
    PeerDataUni = 2
    PeerMaxData = 3
    WireIds = {0}
    StreamSize = 1
    MinLen = 1
    MaxLen = 1
    Segments = {}
    DataCredits = {2, 4}
    StreamCredits = {2}
    ReadLens = {1}
    IovCounts = {1}
    SendLens = {0, 1, 3}
    FrameCap = 2
    FirstRooms = {1, 2}
    MaxQueue = 1
    MaxMsgs = 1
    MaxTx = 3
INVARIANTS
    SendWithinCredit
    SendConserved
    NoGapOnWire
    OpenedOnce
