CONSTANTS
  Mss = 1209
  ScidLen = 8
  DcidLens <- MCDcidLens
  TokenLen = 0
  PnLen = 1
  Small <- MCSmall
  Notices <- MCNotices
  MaxPackets = 3
SPECIFICATION FairSpec
INVARIANTS DatagramFits InitialPadded BlockedLosesNoCrypto
PROPERTY FlightLeaves
