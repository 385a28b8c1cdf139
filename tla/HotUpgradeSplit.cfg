SPECIFICATION Spec
CONSTANTS
    k1 = k1  k2 = k2  c1 = c1  c2 = c2
    Clients = {k1}
    Conns = {c1, c2}
    ClientFds <- OneClient
    HEADER_LEN = 2
    READ_BUFFER_SIZE = 5
    MsgLen = 3
    MaxRounds = 3
    MaxFd = 5
    Faults = {"early_trigger", "stale_accept", "accept_fails", "kill_new", "kill_client", "stop_old"}
INVARIANTS IInv BytesAccounted NeverDeaf
