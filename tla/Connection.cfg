CONSTANTS
  NoVal = NoVal
  Empty = Empty
  Random = "rand"
  Fresh = "own"
  OwnLength <- MCOwnLength
  ZeroToken = ZeroToken
  Datagrams <- MCDatagrams
  Limit = 3
SPECIFICATION Spec
INVARIANTS PoolWithinLimit RetiredUnlessOvertaken KeptUntilRetired PeerIdAuthentic  EstablishedHasCause
PROPERTIES IdsStable RevivedOnlyByReading
CHECK_DEADLOCK FALSE
