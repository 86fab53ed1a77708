SPECIFICATION FairSpec
CONSTANTS
    Nodes = {n1}
    Urls = {u1, u2}
    n1 = n1
    u1 = u1
    u2 = u2
    None = None
    MaxEvents = 3
    MaxFlips = 1
    MaxFaults = 1
INVARIANTS TypeOK ServedIsStored MapFollowsRegistry MetricsHaveSubscription
PROPERTIES OnlyChainAdmits StatusConverges SubscriptionsSettle
