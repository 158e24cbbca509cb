CONSTANTS
    Streams = {s1}
    NoStream = NoStream
    MaxQueue = 1
    MaxWrites = 1
    MaxReads = 1
    CallsCleanup = FALSE
SPECIFICATION Spec
INVARIANT NoUseAfterFree
CHECK_DEADLOCK FALSE
