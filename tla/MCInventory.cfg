CONSTANTS
    Providers = {"p", "q"}
    Names = {"d", "e"}
    Claims = {"k", "l"}
    Specs <- MCSpecs
    Listings <- MCListings
    Safeties <- MCSafeties
    FaultHooks <- MCFaultHooks
    Requests <- MCRequests
    BehindStop <- MCBehindStop
    MaxProcs <- MCMaxProcs
SPECIFICATION Spec
CHECK_DEADLOCK FALSE
INVARIANTS
    InventoryInv
    
    VerdictIsTrue
    CoverageIsTrue
