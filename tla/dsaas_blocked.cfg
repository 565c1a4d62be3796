SPECIFICATION FairSpec
CONSTANTS
    Calls = {a}
    Nobody = nobody
    Participants = {p, q}
    Wants <- MCWants
    Admins = {x, y}
    MaxSupersessions = 2
    Submitter <- MCSubmitter
    Budgets <- MCBlocked
PROPERTY SuspensionReaches
CHECK_DEADLOCK FALSE
