SPECIFICATION Spec
CONSTANTS
    c1 = c1
    c2 = c2
    c3 = c3
    p1 = p1
    p2 = p2
    p3 = p3
    Cmds = {c1}
    Pids = {p1, p2, p3}
    NoPid = NoPid
    Free = Free
    Orphan = Orphan
    Stale = Stale
    MaxCommands = 4
    MaxCrashes = 0
    Timely = TRUE
CHECK_DEADLOCK FALSE
INVARIANT
    OneRuntime
