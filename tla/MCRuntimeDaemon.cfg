SPECIFICATION FairSpec
CONSTANTS
    c1 = c1
    c2 = c2
    c3 = c3
    p1 = p1
    p2 = p2
    p3 = p3
    Cmds = {c1, c2}
    Pids = {p1, p2}
    NoPid = NoPid
    Free = Free
    Orphan = Orphan
    Stale = Stale
    MaxCommands = 3
    MaxCrashes = 1
    Timely = FALSE
CHECK_DEADLOCK FALSE
INVARIANTS
    RunningIsTrue
    LockExclusive
PROPERTIES
    ReadyIsReal
    CommandsReturn
