SPECIFICATION FairSpec
CONSTANTS
  MaxBlock = 4
  FromBlock = 2
  FaultKinds = {"sync", "refresh", "pool", "lag", "crash", "forget"}
  MaxFaults = 2
INVARIANT TypeOK
INVARIANT TotalsCoverPoolBlock
PROPERTY ImplementsLedger
PROPERTY ServedOnlyGrows
PROPERTY TotalsConverge
