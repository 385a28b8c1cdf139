SPECIFICATION FairSpec
CONSTANTS
    Clients = {k1, k2}
    Stale = {1, 2}
PROPERTY ConnectionAccepted
CHECK_DEADLOCK FALSE
