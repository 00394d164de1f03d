\* A server receiving on stream 0 (opened by the client) and, once it has opened
\* it, on stream 1, with buffers that one byte fills.  A call sends two packets;
\* there is credit for one, so the second is held back.
SPECIFICATION Spec
CONSTANTS
    IntMod = 64
    IsServer = TRUE
    LocalMaxBidi = 3
    LocalMaxUni = 1
    PeerMaxBidi = 1
    PeerMaxUni = 0
    LocalDataBidiRemote = 2
    LocalDataUni = 2
    PeerDataBidiRemote = 2
    PeerDataUni = 2
    PeerMaxData = 1
    WireIds = {0, 1}
    StreamSize = 2
    MinLen = 1
    MaxLen = 1
    Segments <- MCFrames
    DataCredits = {}
    StreamCredits = {}
    ReadLens = {1}
    IovCounts = {2}
    SendLens = {2}
    FrameCap = 1
    FirstRooms = {1}
    MaxQueue = 2
    MaxMsgs = 2
    MaxTx = 3
INVARIANTS
    
    MessagesAreFound
PROPERTIES
    CallsReturn
