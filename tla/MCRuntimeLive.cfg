SPECIFICATION FairSpec
CONSTANTS
    NWatches = 1
    NMsgs = 1
    Large = {}
    Rooms = {2}
    Sources = {"explicit"}
    Commands = {"unwatch", "bootstrap"}
    Aging = {}
    BatchSize = 1
    RetryLimit = 2
    CatchUpMaxRetries = 2
    MaxFaults = 0
PROPERTIES
    RetriesEnd
    WorkersFollow
    StopEnds
    StatusClears
