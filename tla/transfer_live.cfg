SPECIFICATION FairSpec
CONSTANTS
    v = v
    w = w
    NoWorker = NoWorker
    Workers <- MCWorkers
    LateRequests = TRUE
    MaxFaults = 3
PROPERTIES
    TerminationCompletes
    StartCompletes
