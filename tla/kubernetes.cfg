SPECIFICATION Spec
CONSTANTS
    a = a
    b = b
    Nobody = Nobody
    NoIntent = "none"
    Calls <- MCCalls
    Intents = {"one", "two", "off", "pause"}
    Provisions = {"one", "two"}
    Suspends = {"pause"}
    Migrating = {"two"}
    MaxToken = 3
    MaxSecret = 1
    MaxLate = 1
SYMMETRY MCSymmetry
CHECK_DEADLOCK FALSE
INVARIANT FenceIsSafe
PROPERTY RuntimeIsKept
