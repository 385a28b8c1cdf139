SPECIFICATION FairSpec
CONSTANTS
    Clients = {c1, c2, c3}
    MaxProcs = 2
INVARIANTS TypeOK HeldByUser ZombieIsKnown
PROPERTIES AllReaped ConnectionEnds
