CONSTANTS
    op = op
    caller = caller
    tree = tree
    main = main
    d1 = d1
    d2 = d2
    p1 = p1
    None = None
    Threads = {op, caller, tree, main}
    Outputs = {d1, d2}
    Providers = {p1}
    ProviderOf <- OneProvider
    AllowedModes <- ManualD2
    RateLimited = {d2}
    ManualOverride = FALSE
    Deployments = {"stop", "chain", "none", "loss"}
    Ops <- Roles
    Present <- Given
    Covered <- Rung
    BeforeHookOutputs <- Before
    AfterHookOutputs <- After_
    Losable <- Dark
SPECIFICATION Spec
INVARIANTS
    SafeStopInv
    SafeStateHolds
    ChainHoldsLatch
PROPERTIES
    TreeStaysOff
