SPECIFICATION FairSpec
CONSTANTS
    k1 = k1  k2 = k2  k3 = k3
    Clients = {k1, k2, k3}
    Patient = {k2, k3}
    Mortal = {k1}
    Script <- Talk
    RIO_BUFSIZE = 2
    MAXLINE = 4
    FD_SETSIZE = 4
INVARIANTS TypeOK PoolOK ReadyAccounted PatientExact
PROPERTIES ReadyIsServed AllEchoed
