CONSTANTS
    Starter = starter
    Routers = {router}
    Readers = {poller}
    Probers = {probe}
    Nobody = nobody
    MaxRequests = 3
    MaxFaults = 1
    MaxStops = 2
SPECIFICATION FairSpec
CHECK_DEADLOCK FALSE
INVARIANTS
    SessionInv
    ProcessInv

    
    
