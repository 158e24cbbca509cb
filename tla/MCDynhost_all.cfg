SPECIFICATION MCSpec
CONSTANTS
    Streams = {s1}
    NoStream = NoStream
    MaxQueue = 2
    MaxWrites = 3
    MaxReads = 2
    CallsCleanup = TRUE
    Requests = {r1, r2}
INVARIANTS
    ListedHandlesLive
    FreedOnce
    CallbackOrder
    NoLeak
    WritesKept
PROPERTIES
    EveryStreamEnds
    ImplementsService
    EveryFetchAnswered
CHECK_DEADLOCK FALSE
