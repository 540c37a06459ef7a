CONSTANTS
    Producers = {p1, p2}
    Clients = {c1, c2}
    Sink = sink
    Scopes = {"a", "b"}
    Filters = {"all", "b"}
    Emissions <- SomeEmissions
    MaxClients = 1
    QueueSize <- QueueSizes
    BatchSize = 2
    MaxRetry = 1
    MaxEvents = 2
    MaxHealth = 1
SPECIFICATION FairSpec
CHECK_DEADLOCK FALSE
INVARIANTS
    TelemetryInv
    
PROPERTIES
    ShutdownEnds
