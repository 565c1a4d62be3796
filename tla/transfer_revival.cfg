SPECIFICATION Spec
CONSTANTS
    v = v
    w = w
    NoWorker = NoWorker
    Workers <- MCWorkers
    LateRequests = TRUE
    MaxFaults = 4
SYMMETRY MCSymmetry
INVARIANTS
    NoAccessAfterTermination
