SPECIFICATION QueuesSpec
CONSTANTS
    i1 = i1
    i2 = i2
    e1 = e1
    e2 = e2
    w1 = w1
    w2 = w2
    k1 = k1
    k2 = k2
    ra = ra
    rb = rb
    c1 = c1
    c2 = c2
    Nobody = Nobody
    Gone = Gone
    Items <- TwoItems
    Workers <- TwoWorkers
    Versions = 2
    Offered <- Moving
    FirstPage <- First
    MaxAttempts = 1
    MaxFaults = 1
    Parts = {"bridge", "archive", "discovery"}
    Events <- TwoEvents
    MaxClaims = 2
    BatchSize = 2
    MaxTroubles = 2
    Keys = {k1, k2}
    Order <- MCOrder
    Batches <- MCBatches
    Inputs <- MCInputs
    Registries = {ra, rb}
    GrantOf <- MCGrantOf
    Configs = {c1, c2}
    NamespaceOf <- MCNamespaceOf
    MaxTime = 1
    KeptPerChain = 1
    MaxCandidates = 2
    MaxCommands = 3
    Runs <- TwoWorkers
    NoGrant = NoGrant
    NoRun = NoRun
    Orphan = Orphan
INVARIANTS NothingIsHidden CompletedIsPublished ArchiveIsExact StateIsSound
PROPERTIES SettledIsFinal StateIsKept
SYMMETRY Symmetry
CHECK_DEADLOCK FALSE
