SPECIFICATION ServicesSpec
CONSTANTS
    None = None
    Workers = {"v", "w"}
    NoWorker = "nobody"
    LateRequests = TRUE
    MaxFaults = 3
    \* ScopedCutover
    Scopes <- MCScopes
    Keys <- MCKeys
    Proven <- MCProven
    Writers = {"w1", "w2"}
    Platform = "platform"
    NoScope = "none"
    MaxVersion = 2
    MaxSeq = 5
    \* TenantStore
    Tenants = {"t1", "t2"}
    TenantCalls = {"c1", "c2"}
    TenantRequests <- MCTenantRequests
    Consumers = {"w1", "w2"}
    MaxTime = 2
    MaxRev = 2
    Lease = 1
    MaxRevoked = 1
    \* FileState: audit events are pruned after the fourth
    FileCalls = {"c1", "c2"}
    Swallows = FALSE
    MaxAudit = 4
    MaxClock = 2
    \* UsageMeter
    UsageRequests = {q1, q2}
    Rebuilds = {"b1", "b2"}
    OperationOf <- MCOperationOf
    RangeOf <- MCRangeOf
    Hours = {1, 2}
    MaxAttempts = 2
    \* Scheduler: more targets than a tick takes
    Dataspaces = {1, 2, 3}
    MaxPerTick = 2
    \* ControlServer
    HttpRequests = {"r1", "r2"}
    Writes = {"r1"}
    Principals = {"admin", "tenant", "nobody"}
    RightsOf <- MCRightsOf
    TenantOf <- MCTenantOf
    ReadsDrain = TRUE
    MaxStarts = 2
    \* ManagementClient
    Publishers = {p1, p2}
    Malformed = {}
    Objects = {"policy", "asset", "definition"}
    Resources <- MCResources
    ContentOf <- MCContentOf
    Foreign = Foreign
    Nothing = Nothing
    Retries = 1
    Threshold = 2
    MaxTries = 2
    \* AddressPolicy
    WordBits = 3
    Words = 2
    Special4 <- MCSpecial4
    Special6 <- MCSpecial6
    Allocated6 <- MCAllocated6
INVARIANTS
    StartedHasEvidence
    TerminatedIsRevoked
    CutoverIsSafe
    AccessIsAudited
    FileIsSafe
    RollupAgrees
    TurnsAreTaken
    ServerIsSafe
    ClientIsSafe
    PinnedIsPermitted
PROPERTIES
    ImplementsPromise
    ReadyHasNoBacklog
SYMMETRY Symmetry
CHECK_DEADLOCK FALSE
