SPECIFICATION Spec
CONSTANTS
    p1 = p1
    p2 = p2
    Policies = {p1}
    ArmCount = 2
    MaxRevision = 1
    MaxAttempts = 2
    MaxSubmissions = 2
    MaxRuns = 2
    MaxOperations = 1
    MaxRecords = 7
    NoContract = NoContract
INVARIANT EarlierArmSelectable
CHECK_DEADLOCK FALSE
