SPECIFICATION Spec
CONSTANTS
    a = a
    b = b
    p1 = p1
    p2 = p2
    Nobody = Nobody
    NoPlan = NoPlan
    Calls <- MCOneCall
    Plans <- MCPlans
    FirstPlan = p1
    Requested = {"PROVISIONED", "SUSPENDED"}
    MaxGeneration = 5
    MaxDsGeneration = 2
    MaxToken = 5
\* The bounded model stops once MaxToken leases have been granted.
CHECK_DEADLOCK FALSE
INVARIANT DsaasIntentHolds
