SPECIFICATION Spec
CONSTANTS
    l1 = l1
    l2 = l2
    Legs = {l1, l2}
    NoLeg = NoLeg
    Order <- AnyOrder
    Alg <- LowRttAlg
    SendmeInc = 2
    Cwnds = {2}
    Rtts = {1}
    RttMax = 9
    FailLegs = {l1}
    BlockLegs <- SenderBlocks
    StallLegs = {}
    MaxMsgs <- OneWay
INVARIANTS
    NoStaleMsg
    SwitchNeverGoesBack
    QueueWaitsForHole
    WindowConserved
    LossBelowSendme
PROPERTY
    ImplementsFifo
CHECK_DEADLOCK FALSE
