SPECIFICATION FairSpec
CONSTANTS
    c1 = c1
    c2 = c2
    p1 = p1
    p2 = p2
    Cmds = {c1, c2}
    Pids = {p1, p2}
    NoPid = NoPid
    MaxCommands = 2
    MaxFaults = 1
CHECK_DEADLOCK FALSE
INVARIANTS
    OneBroker
PROPERTIES
    CommandsReturn
    StopEnds
    OrphanEnds
