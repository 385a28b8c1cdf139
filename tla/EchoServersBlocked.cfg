SPECIFICATION FairSpec
CONSTANTS
    k1 = k1  k2 = k2  k3 = k3
    Clients = {k1, k2}
    Patient = {k1, k2}
    Mortal = {}
    Script <- Unfinished
    RIO_BUFSIZE = 2
    MAXLINE = 4
    FD_SETSIZE = 4
PROPERTY ReadyIsServed
CHECK_DEADLOCK FALSE
