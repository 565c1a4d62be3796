SPECIFICATION FairSpec
CONSTANTS
    Calls = {a, b}
    Nobody = nobody
    Participants = {p, q}
    Wants <- MCWants
    Admins = {x, y}
    MaxSupersessions = 2
    Submitter <- MCSubmitter
    Budgets <- MCBudgets
CHECK_DEADLOCK FALSE
INVARIANT RecordIsTrue
PROPERTY IntentReaches
