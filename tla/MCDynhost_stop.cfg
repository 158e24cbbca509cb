SPECIFICATION MCSpec
CONSTANTS
    Streams = {s1}
    NoStream = NoStream
    MaxQueue = 1
    MaxWrites = 1
    MaxReads = 1
    CallsCleanup = FALSE
    Requests = {r1}
PROPERTY SettledAtShutdown
CHECK_DEADLOCK FALSE
