CONSTANTS
  a1 = a1
  a2 = a2
  NoAddr = NoAddr
  Addr <- MCAddr
  MaxBlock = 5
  FromBlock = 2
  Confirmations = 1
  Lag = 1
  VerifyAttempts = 2
  Tolerance = 2
  MismatchesBeforeResync = 2
  FaultKinds <- HonestFaults
  MaxFaults = 3
SPECIFICATION Spec
SYMMETRY Symmetry
INVARIANTS
  TypeOK
  CheckpointCoversRows
  ServedCoversEvents
  AlarmsAreExplained
PROPERTIES
  VerifiedPublishIsExact
  MembersDoNotFlap
  OnlyFullReplayRewinds
