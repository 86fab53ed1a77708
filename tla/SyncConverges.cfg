CONSTANTS
  a1 = a1
  a2 = a2
  NoAddr = NoAddr
  Addr <- MCAddr
  MaxBlock = 3
  FromBlock = 1
  Confirmations = 1
  Lag = 2
  VerifyAttempts = 2
  Tolerance = 2
  MismatchesBeforeResync = 2
  FaultKinds <- AllFaultKinds
  MaxFaults = 3
SPECIFICATION FairSpec
PROPERTIES
  Converges
