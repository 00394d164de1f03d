\* A segment read in part is taken for out-of-order data.
SPECIFICATION Spec
CONSTANTS
    IntMod = 64
    IsServer = TRUE
    LocalMaxBidi = 3
    LocalMaxUni = 1
    PeerMaxBidi = 1
    PeerMaxUni = 1
    LocalDataBidiRemote = 4
    LocalDataUni = 3
    PeerDataBidiRemote = 4
    PeerDataUni = 3
    PeerMaxData = 5
    WireIds = {0}
    StreamSize = 3
    MinLen = 0
    MaxLen = 2
    Segments <- MCFrames
    DataCredits = {}
    StreamCredits = {}
    ReadLens = {1, 2}
    IovCounts = {1}
    SendLens = {}
    FrameCap = 1
    FirstRooms = {1}
    MaxQueue = 2
    MaxMsgs = 2
    MaxTx = 1
INVARIANT
    BreakMeansOutOfOrder
