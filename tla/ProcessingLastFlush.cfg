CONSTANTS
    Senders = {w1}
    QueueFactor = 1
    NTargets = 1
    Tag <- SameTag
    NScanners = 1
    Trigger <- AllTriggered
    ConnectionsPerHost = 1
    ContinueOnError = TRUE
    BreakOnSuccess = FALSE
    Flush = FALSE
    Faults = {"write"}
SPECIFICATION Spec
INVARIANT FinishedMeansWritten
