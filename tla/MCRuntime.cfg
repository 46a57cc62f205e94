SPECIFICATION Spec
CONSTANTS
    NWatches = 1
    NMsgs = 1
    Large = {}
    Rooms = {0, 2}
    Sources = {"session"}
    Commands = {"pull", "dismiss", "ack"}
    Aging = {1}
    BatchSize = 1
    RetryLimit = 1
    CatchUpMaxRetries = 1
    MaxFaults = 1
INVARIANTS
    InflightExclusive
    WorkersKnown
PROPERTIES
    LiveNotifiesOnce
    ImplementsDelivery
