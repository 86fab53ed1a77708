SPECIFICATION FairSpec
CONSTANTS
  t1 = t1
  t2 = t2
  Task <- TwoTasks
  NumEndpoints = 2
  Limit <- LimitsComplete
  Stuck <- StuckFirst
  Target = 2
  Window = 4
  MinSpan = 1
  MaxSpan = 2
  MaxAttempts = 1
  MaxFaults = 1
PROPERTY SuccessStaysBelowRejected
PROPERTY Completes
CHECK_DEADLOCK FALSE
