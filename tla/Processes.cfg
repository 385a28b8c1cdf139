SPECIFICATION FairSpec
CONSTANTS
    Progs = {"signal1", "signal2", "signal3", "signal4", "waitpid1", "procmask1", "procmask2", "shellex"}
    N = 3
INVARIANTS TypeOK ErrorOnlyByRead ForegroundDone ReapedAfterAdd
PROPERTIES AllReaped InputProcessed
