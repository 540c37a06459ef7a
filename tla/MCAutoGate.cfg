CONSTANTS
    r = r
    a = a
    b = b
    None = None
    Threads = {r, a, b}
    Restarter = r
SPECIFICATION FairSpec
INVARIANTS
    AutoGateInv
PROPERTIES
    FaultNeverRefused
    FaultReached
    UnsafeAutoEnds
