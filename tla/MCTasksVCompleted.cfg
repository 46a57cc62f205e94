SPECIFICATION Spec
CONSTANTS
    Agents = {a1, a2}
    NoAgent = NoAgent
    MaxTasks = 2
    Params <- DepParams
    Keys = {NoKey}
    NoKey = NoKey
    NoParams = NoParams
    Filters <- NoFilter
    Prios = {}
    LeaseDuration = 1
    MaxTime = 0
    MaxTokens = 3
SYMMETRY AgentSymmetry
PROPERTIES CompletedStays
