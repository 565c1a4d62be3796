SPECIFICATION FairSpec
CONSTANTS
    a = a
    b = b
    w = w
    s1 = s1
    s2 = s2
    NoSession = NoSession
    Clients <- MCClients
    Leased <- MCLeased
    Sessions <- MCSessions
    MaxWrites = 1
    MaxToken = 3
    MaxDepth = 2
INVARIANTS AnswersAreTrue LocksAreSound
PROPERTIES ImplementsRegister LockIsFreedEventually
