CONSTANTS
    Bits = 4
    Exact = 2
    Configs <- MCConfigs
    MaxQueued = 2
    Delay = 1
    Pulse = 1
    KeepAlive = 3
    MinSpacing = 1
    MinInterval = 2
    Limit = 2
    MaxPosts = 2
SPECIFICATION FairSpec
INVARIANTS
    AutomationInv
    
PROPERTIES
    
    PulseEndArrives
