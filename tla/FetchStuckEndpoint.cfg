SPECIFICATION FairSpec
CONSTANTS
  t1 = t1
  t2 = t2
  Task <- OneTask
  NumEndpoints = 2
  Limit <- LimitsStuck
  Stuck <- StuckFirst
  Target = 4
  Window = 6
  MinSpan = 1
  MaxSpan = 4
  MaxAttempts = 2
  MaxFaults = 0
PROPERTY Completes
CHECK_DEADLOCK FALSE
