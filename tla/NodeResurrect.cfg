SPECIFICATION Spec
CONSTANTS
    Nodes = {n1}
    Urls = {u1, u2}
    n1 = n1
    u1 = u1
    u2 = u2
    None = None
    MaxEvents = 3
    MaxFlips = 2
    MaxFaults = 0
INVARIANTS RankingIsRegistered
