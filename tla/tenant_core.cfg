SPECIFICATION Spec
CONSTANTS
    a = a
    b = b
    p1 = p1
    p2 = p2
    Nobody = Nobody
    NoPlan = NoPlan
    Calls <- MCCalls
    Plans <- MCPlans
    FirstPlan = p1
    Requested = {"PROVISIONED", "SUSPENDED"}
    MaxGeneration = 3
    MaxDsGeneration = 2
    MaxToken = 3
SYMMETRY MCSymmetry
\* The bounded model stops once MaxToken leases have been granted.
CHECK_DEADLOCK FALSE
INVARIANTS SettledIsBacked OnlyRollbackEscapes
PROPERTY EnsureAnswerIsBacked
