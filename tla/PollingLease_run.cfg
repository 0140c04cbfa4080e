SPECIFICATION FairSpec
CONSTANTS
    p1 = p1
    p2 = p2
    p3 = p3
    None = None
    Pollers <- ThreePollers
    Account <- TwoAccounts
    Stops = {s1, s2}
INVARIANT LeaseMatchesPollers
PROPERTY ImplementsExclusivePolling
PROPERTY StartIsDecided
CHECK_DEADLOCK FALSE
