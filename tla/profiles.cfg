SPECIFICATION Spec
CONSTANTS
    Parts = {"network", "validation", "requirement", "release", "authority"}
    None = None
    Outside = Outside
    Torn = Torn
    \* NetworkReferences
    Subjects <- MCSubjects
    Targets = {"current", "superseded", "withdrawn"}
    FirstGraphs <- MCFirstGraphs
    Domain <- MCDomain
    NetworkEdits = 3
    \* ProfileValidation
    Artifacts = {"manifest", "shapes", "policy", "network"}
    Bytes = {1, 2}
    Documents = {"clean", "long", "geo", "public", "recommended"}
    Raised <- MCRaised
    Routed <- MCRouted
    Results <- MCResults
    NetworkHolds <- MCNetworkHolds
    Conformances = {"core", "network"}
    Publication = "publication-policy"
    ShapesOf <- MCShapesOf
    MaxResults = 1
    ValidationEdits = 2
    \* RequirementEvidence
    Keys = {"k1", "k2"}
    Ids = {"r1", "r2"}
    Rules = {"m1", "m2", "m3", "m4"}
    Shown <- MCShown
    Flaws <- MCFlaws
    Owner <- MCOwner
    Fixtures = {"good", "bad", "one", "both"}
    Breaks <- MCBreaks
    Activates <- MCActivates
    Mutations <- MCMutations
    FirstShapes <- MCFirstShapes
    FirstFixtures <- MCFirstFixtures
    FirstSource = "u1"
    Versions = {"u1", "u2", "u3", "u4"}
    Drifted = {"u3"}
    Entangled = {"u4"}
    RequirementEdits = 2
    \* ReleaseGate
    Revisions <- MCRevisions
    AcceptanceOf <- MCAcceptanceOf
    Pins <- MCPins
    Blindspots <- MCBlindspots
    Pinned = 1
    PassingPairs <- MCPassingPairs
    Decided <- MCDecided
    Unblocked = {1, 2}
    Plans = {{"gate"}, {"run"}, {"sign"}}
    ReleaseEdits = 2
    MaxCommits = 1
    MaxRuns = 1
    \* ProviderAuthority
    Authorities = {"a1", "a2"}
    Requests = {"r1", "r2"}
    Covers <- MCCovers
    ScopeOf <- MCScopeOf
    Terms <- MCTerms
    MaxAge = 1
    MaxTime = 1
    MaxSnapshots = 1
    MaxDate = 2
    MaxReceipts = 1
INVARIANTS
    AcceptedIsAHistory
    PassIsOneJudgement
    ReleaseIsOneLock
    AllowedWasInForce
    EvidenceIsReal
CHECK_DEADLOCK FALSE
