\* QuicStreamReadV tells one stream's FIN of another stream.
SPECIFICATION Spec
CONSTANTS
    IntMod = 64
    IsServer = TRUE
    LocalMaxBidi = 3
    LocalMaxUni = 1
    PeerMaxBidi = 1
    PeerMaxUni = 1
    LocalDataBidiRemote = 4
    LocalDataUni = 3
    PeerDataBidiRemote = 4
    PeerDataUni = 3
    PeerMaxData = 4
    WireIds = {0, 2}
    StreamSize = 2
    MinLen = 1
    MaxLen = 1
    Segments <- MCFrames
    DataCredits = {}
    StreamCredits = {}
    ReadLens = {1}
    IovCounts = {2}
    SendLens = {}
    FrameCap = 1
    FirstRooms = {1}
    MaxQueue = 2
    MaxMsgs = 2
    MaxTx = 1
INVARIANT
    FlagsBelongToStream
