CONSTANTS
    p1 = p1
    p2 = p2
    None = None
    Order <- TwoProviders
    Policies = {{p1}, {p1, p2}}
    MaxAttempts = 2
    Backoff <- NoDelayFirst
    ProbeInterval = 1
    ResetWindow = 1
SPECIFICATION FairSpec
INVARIANTS
    SupervisorInv
    
PROPERTIES
    DownIsRetried
    StableIsForgiven
