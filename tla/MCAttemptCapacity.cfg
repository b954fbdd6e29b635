SPECIFICATION Spec
CONSTANTS
    t1 = t1
    t2 = t2
    a1 = a1
    a2 = a2
    None = None
    Tasks = {t1, t2}
    Attempts = {a1, a2}
    Trees = {FALSE}
    Kinds = {"direct"}
    MaxActiveWorkers = 1
    MaxEpoch = 1
    MaxRevision = 1
CHECK_DEADLOCK FALSE
SYMMETRY Symmetry
INVARIANTS
    OneWorkerPerTask
    WorkersWithinCapacity
    TaskOwnsAttempt
