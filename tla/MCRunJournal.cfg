CONSTANTS
    MaxRuns = 2
    MaxLines = 2
    MaxTicks = 1
    MaxFailures = 2
    MaxLives = 2
    MaxQueue = 1
    AskedReasons = {"operator_stop"}
    Failures = {"no_file", "torn", "unterminated", "unsynced", "entry_unsynced"}
    EntryLoss = FALSE
SPECIFICATION FairSpec
CHECK_DEADLOCK FALSE

    
PROPERTIES
    QueueDrains
    
