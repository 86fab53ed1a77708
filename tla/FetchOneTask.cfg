SPECIFICATION FairSpec
CONSTANTS
  t1 = t1
  t2 = t2
  Task <- OneTask
  NumEndpoints = 2
  Limit <- LimitsOneTask
  Stuck <- StuckFirst
  Target = 6
  Window = 4
  MinSpan = 1
  MaxSpan = 4
  MaxAttempts = 2
  MaxFaults = 3
INVARIANT TypeOK
 
PROPERTY NotRejectedAgain
PROPERTY RetriesRunOut
PROPERTY CallsReturn
CHECK_DEADLOCK FALSE
