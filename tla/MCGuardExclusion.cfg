SPECIFICATION Spec
CONSTANTS
    t1 = t1
    t2 = t2
    cli = cli
    ticker = ticker
    shell = shell
    p1 = p1
    p2 = p2
    r1 = r1
    r2 = r2
    Threads = {t1, t2, cli}
    Processes = {ticker, shell}
    ProcessOf <- MCProcessOf
    Projects = {p1}
    Resources = {r1}
    Root = root
    Routine = routine
    None = none
INVARIANTS
    TypeOK
    EffectsExclude
    NoLeakedLock
