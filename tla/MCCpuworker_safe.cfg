SPECIFICATION Spec
CONSTANTS
    Circs = {c1, c2, c3}
    Others = {o1}
    Workers = {w1, w2}
    MaxTasks = {1}
    MaxGen = 1
    CanStop = TRUE
    NoJob = NoJob
INVARIANTS NoLostAlert CountExact JobKeepsCircuit JoinedBeforeFree
SYMMETRY Symmetry
CHECK_DEADLOCK FALSE
