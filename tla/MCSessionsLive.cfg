SPECIFICATION FairSpec
CONSTANTS
    c1 = c1
    c2 = c2
    c3 = c3
    Conns = {c1, c2}
    NoConn = NoConn
    Bases = {alice}
    NoName = NoName
    Resources = {}
    Tasks = {t1}
    MaxTokens = 2
CHECK_DEADLOCK FALSE
PROPERTIES
    CleanupEnds
    ListenerFollows
