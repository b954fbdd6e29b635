SPECIFICATION FairSpec
CONSTANTS
    notify = notify
    finalize = finalize
    script = script
    verify = verify
    integrate = integrate
    task = task
    control = control
    lane = lane
    j1 = j1
    j2 = j2
    None = None
    Lane = lane
    Kind <- MCKind
    ScopeOf <- MCScopeOf
    Ops = {script, integrate}
    Scopes = {task, control}
    Jobs = {lane, j1}
    MaxAttempts = 2
    MaxRevision = 2
    MaxReset = 0
PROPERTY
    ClaimResolves
    
CHECK_DEADLOCK FALSE
