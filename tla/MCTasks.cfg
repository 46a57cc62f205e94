SPECIFICATION Spec
CONSTANTS
    Agents = {a1, a2}
    NoAgent = NoAgent
    MaxTasks = 2
    Params <- KeyParams
    Keys = {NoKey, k1}
    NoKey = NoKey
    NoParams = NoParams
    Filters <- AnyFilter
    Prios = {}
    LeaseDuration = 1
    MaxTime = 0
    MaxTokens = 3
SYMMETRY AgentSymmetry
INVARIANTS ClaimsCoherent TokensUnique
PROPERTIES DurableFinished TokensFresh ImplementsLedger
