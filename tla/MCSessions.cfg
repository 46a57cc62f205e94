SPECIFICATION Spec
CONSTANTS
    c1 = c1
    c2 = c2
    c3 = c3
    Conns = {c1, c2, c3}
    NoConn = NoConn
    Bases = {alice}
    NoName = NoName
    Resources = {file}
    Tasks = {t1}
    MaxTokens = 2
SYMMETRY ConnSymmetry
CHECK_DEADLOCK FALSE
INVARIANTS
    NameHeld
    BaseHoldsLive
    OwnerHasToken
PROPERTIES
    HoldsUndisturbed
