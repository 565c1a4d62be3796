SPECIFICATION ProgressSpec
CONSTANTS
    e1 = e1
    e2 = e2
    w1 = w1
    w2 = w2
    i1 = i1
    i2 = i2
    Nobody = Nobody
    Gone = Gone
    Events <- AllEvents
    Invalid <- SecondEvent
    Workers <- TwoWorkers
    MaxAttempts = 2
    BatchSize = 2
    Archive = FALSE
    MaxFaults = 2
INVARIANT PublishedIsStored
PROPERTIES AnswersItsAttempt NothingIsForgotten ItemsSettle
CHECK_DEADLOCK FALSE
