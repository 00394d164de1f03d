CONSTANTS
  NoVal = NoVal
  Conns <- MCConns
  ClntCiphers <- MCClntCiphers
  SrvrCiphers <- MCSrvrCiphers
  ClntGroups <- MCClntGroups
  SrvrGroups <- MCSrvrGroups
  ClntSigAlgs <- MCClntSigAlgs
  SrvrSigAlgs <- MCSrvrSigAlgs
  CertAlgs <- MCCertAlgs
  Hostname = "host"
  Alpn = "h3"
  SrvrParam <- MCSrvrParam
  ParamValues <- MCParamValues
  MaxEarlyData = 9
  Lifetime = 0
  Restarts <- MCRestarts
  MaxTime = 1
  MaxHeld = 1
  MaxOpen = 2
SPECIFICATION Spec
INVARIANTS RefsCountOwners SecretsAgree OffersVerify ResumesOwnTickets ParamsArrive
CHECK_DEADLOCK FALSE
