SPECIFICATION FairSpec
CONSTANTS
    a1 = a1
    a2 = a2
    Agents = {a1, a2}
    NoAgent = NoAgent
    MaxMsgs = 2
    TTLs = {1}
    MaxTime = 1
    MaxClaims = 1
    Slow <- SlowConns
INVARIANTS
    WaitersLive
    OkMeansAcked
PROPERTIES
    TerminalUnlessInFlight
    SenderAnswered
