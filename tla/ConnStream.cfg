SPECIFICATION Spec
CONSTANTS
    HEADER_LEN = 2
    READ_BUFFER_SIZE = 4
    Lengths = {0, 1, 2, 3}
    MaxRequests = 3
INVARIANTS TypeOK EchoExact Framed ClosedForAReason
PROPERTIES AllEchoed
CHECK_DEADLOCK FALSE
