CONSTANTS
    Pollers = {"loop", "call"}
    Polls <- MCPolls
    Stale = 2
    MaxDelay = 1
    LoopPeriod = 1
    Expects = {"power_loss", "reports_estop"}
    Answers <- MCAnswers
SPECIFICATION Spec
INVARIANTS
    MonitorInv

    
