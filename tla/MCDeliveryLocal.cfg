SPECIFICATION Spec
CONSTANTS
    notify = notify
    finalize = finalize
    script = script
    verify = verify
    integrate = integrate
    task = task
    control = control
    lane = lane
    j1 = j1
    j2 = j2
    None = None
    Lane = lane
    Kind <- MCKind
    ScopeOf <- MCScopeOf
    Ops = {finalize, script, verify}
    Scopes = {task, control}
    Jobs = {lane, j1}
    MaxAttempts = 2
    MaxRevision = 1
    MaxReset = 4
INVARIANTS
    AtMostOneEffect
    ConfirmedMeansEffect
    NoReplay
PROPERTY NoStaleCompletion
CHECK_DEADLOCK FALSE
