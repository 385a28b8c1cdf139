SPECIFICATION FairSpec
CONSTANTS
    p1 = p1  p2 = p2  r1 = r1  r2 = r2
    Producers = {p1, p2}
    Consumers = {r1, r2}
    N = 2
    MaxItems = 5
    INT_MAX = 5
INVARIANTS MutualExclusion Accounting
PROPERTIES IsFifo AllThrough
