SPECIFICATION FairSpec
CONSTANTS
    t1 = t1
    t2 = t2
    a1 = a1
    a2 = a2
    None = None
    Tasks = {t1}
    Attempts = {a1}
    Trees = {TRUE, FALSE}
    Kinds = {"direct", "stock", "layout"}
    MaxActiveWorkers = 1
    MaxEpoch = 3
    MaxRevision = 2
CHECK_DEADLOCK FALSE
INVARIANTS
    TypeOK
    ResumeIsClean
    EndedIsQuiet
PROPERTIES
    WithdrawnNeverStarts
    EndedStaysEnded
    CapacityReturns
