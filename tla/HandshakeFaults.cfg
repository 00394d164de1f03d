\* Endpoints whose socket does not block and that call once, full and resumed handshakes,
\* packets that cut every message of a flight; datagrams are lost, overtake each other and
\* are repeated once in each direction.
SPECIFICATION Spec
CONSTANTS
    MsgLen <- SplitMsgs
    Mss = 2
    Resume <- Either
    Blocking = {}
    Reorder = TRUE
    MaxDups <- One
    MaxCalls <- One
CHECK_DEADLOCK FALSE
INVARIANTS
    KeysAgree
    HandshakeKeysAgree
PROPERTIES
    HandshakeOrdered
    HandshakeReturns
