SPECIFICATION FairSpec
CONSTANTS
    Nodes = {n1}
    Requests = {r1}
    n1 = n1
    r1 = r1
    NoCopy = NoCopy
    Ttl = 2
    StaleMax = 5
    Warm = 2
    MaxCheck = 1
    MaxBlock = 2
    MaxFaults = 1
INVARIANTS TypeOK ServedSound CurrentCopyIsRecent AnswersAreRecent WarmKeepsYoung
PROPERTIES Answered LatestCached
