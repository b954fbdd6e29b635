SPECIFICATION FairSpec
CONSTANTS
    c1 = c1
    c2 = c2
    t1 = t1
    a1 = a1
    w1 = w1
    w2 = w2
    w3 = w3
    None = None
    Jobs = {c1, c2, t1}
    Workers = {w1, w3}
    WorkerLane <- MCWorkerLane
    Class <- MCClass
    Key <- MCKey
    Project <- MCProject
    Machine <- MCMachine
    Terminal <- MCTerminal
    Reserved <- MCReserved
    Outstanding <- MCOutstanding
    PerProject = 2
    PerMachine = 1
    MaxAdvisory = 1
PROPERTIES
    CanonicalAnswered
    StopDrains
