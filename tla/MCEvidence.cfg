SPECIFICATION Spec
CONSTANTS
    p1 = p1
    p2 = p2
    Policies = {p1, p2}
    ArmCount = 2
    MaxRevision = 2
    MaxAttempts = 2
    MaxSubmissions = 2
    MaxRuns = 2
    MaxOperations = 2
    MaxRecords = 7
    NoContract = NoContract
SYMMETRY PolicySymmetry
INVARIANTS TypeOK EdgeIsCurrent NoLoserReleased
PROPERTIES StartIsNewest WinnerKept IntegratedForward
CHECK_DEADLOCK FALSE
