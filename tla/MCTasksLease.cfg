SPECIFICATION FairSpec
CONSTANTS
    Agents = {a1, a2}
    NoAgent = NoAgent
    MaxTasks = 1
    Params <- LeaseParams
    Keys = {NoKey}
    NoKey = NoKey
    NoParams = NoParams
    Filters <- NoFilter
    Prios = {1}
    LeaseDuration = 1
    MaxTime = 2
    MaxTokens = 2
INVARIANTS RetriesCharged
PROPERTIES LiveLeaseKept HandlerReturns OverdueReleased
