SPECIFICATION Spec
CONSTANTS
    notify = notify
    finalize = finalize
    script = script
    verify = verify
    integrate = integrate
    task = task
    control = control
    lane = lane
    j1 = j1
    j2 = j2
    None = None
    Lane = lane
    Kind <- MCKind
    ScopeOf <- MCScopeOf
    Ops = {notify, integrate}
    Scopes = {task}
    Jobs = {lane, j1}
    MaxAttempts = 2
    MaxRevision = 2
    MaxReset = 5
INVARIANTS
    TypeOK
    AtMostOneEffect
    ConfirmedMeansEffect
    EffectIsFenced
    NoReplay
    PendingHasBudget
PROPERTIES
    NoStaleCompletion
    PromiseKept
CHECK_DEADLOCK FALSE
