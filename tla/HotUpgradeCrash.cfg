SPECIFICATION FairServers
CONSTANTS
    k1 = k1  k2 = k2  c1 = c1  c2 = c2
    Clients = {k1, k2}
    Conns = {c1, c2}
    ClientFds <- TwoClients
    HEADER_LEN = 1
    READ_BUFFER_SIZE = 3
    MsgLen = 1
    MaxRounds = 1
    MaxFd = 5
    Faults = {"early_trigger", "stale_accept", "accept_fails", "kill_new", "kill_client", "stop_old"}
INVARIANT LossOnlyByCrash
PROPERTIES DroppedAtRest OldReturns
