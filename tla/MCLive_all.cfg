SPECIFICATION MCSpec
CONSTANTS
    Circs = {c1, c2}
    Others = {}
    Workers = {w1, w2}
    MaxTasks = {1, 2}
    MaxGen = 1
    CanStop = FALSE
    NoJob = NoJob
    Legs = {l1, l2}
    NoLeg = NoLeg
    SendmeInc = 1
    Cwnds = {1}
    Rtts = {1}
    RttMax = 9
    FailLegs = {l1}
    BlockLegs = {l1}
    StallLegs = {}
    PCircs = {k1, k2}
    NumLegs = 2
    MaxRetry = 0
    MaxLegs = 2
    Stops = {"exit"}
    ClientCfx = ClientCfx
    NoObj = NoObj
PROPERTIES
    FreshKeys
    StallsOnlyByCancel
    JobsSettle
    QueueDrains
    KeysReachWorkers
    AllDelivered
    WindowReopens
    CloseReachesPeer
    EveryLegSettles
    EveryEmptySetFreed
