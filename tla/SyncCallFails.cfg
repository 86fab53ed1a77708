CONSTANTS
  a1 = a1
  a2 = a2
  NoAddr = NoAddr
  Addr <- MCAddr
  MaxBlock = 4
  FromBlock = 1
  Confirmations = 1
  Lag = 1
  VerifyAttempts = 2
  Tolerance = 2
  MismatchesBeforeResync = 2
  FaultKinds <- CallFaults
  MaxFaults = 1
SPECIFICATION Spec
SYMMETRY Symmetry
INVARIANTS
  CheckpointFullyApplied
