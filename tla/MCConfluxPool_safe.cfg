SPECIFICATION Spec
CONSTANTS
    Circs = {c1, c2, c3}
    NumLegs = 2
    MaxRetry = 1
    MaxLegs = 2
    Stops = {"client"}
    ClientCfx = ClientCfx
    NoObj = NoObj
SYMMETRY CircSymmetry
INVARIANTS
    LivesWhileReferenced
    FreedByOne
    PooledSetsUsable
    OnePlace
    CellsExpected
CHECK_DEADLOCK FALSE
