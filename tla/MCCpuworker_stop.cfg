SPECIFICATION FairSpec
CONSTANTS
    Circs = {c1}
    Others = {}
    Workers = {w1, w2}
    MaxTasks = {1}
    MaxGen = 0
    CanStop = TRUE
    NoJob = NoJob
PROPERTY ShutdownCompletes
CHECK_DEADLOCK FALSE
