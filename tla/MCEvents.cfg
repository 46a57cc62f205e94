SPECIFICATION FairSpec
CONSTANTS
    c1 = c1
    p1 = p1
    p2 = p2
    t1 = t1
    t2 = t2
    Clients = {c1}
    Publishers = {p1, p2}
    Topics = {t1}
    NoMsg = NoMsg
    Free = Free
    Loop = Loop
    Cap = 1
    SockCap = 1
    MaxEvents = 3
    MaxChans = 2
CHECK_DEADLOCK FALSE
INVARIANTS
    NoSendOnClosed
    WholeLines
    InOrder
PROPERTIES
    PublishReturns
    SessionEnds
