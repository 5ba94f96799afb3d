CONSTANTS
    Senders = {w1, w2}
    QueueFactor = 1
    NTargets = 3
    Tag <- SameTag
    NScanners = 1
    Trigger <- AllTriggered
    ConnectionsPerHost = 1
    ContinueOnError = TRUE
    BreakOnSuccess = FALSE
    Flush = TRUE
    Faults = {"csv", "panic", "write", "profile", "marshal"}
SPECIFICATION Spec
INVARIANT TypeOK
INVARIANT NoSendOnClosed
INVARIANT OneSenderPerTarget
INVARIANT FlushIsDurable
PROPERTY ImplementsService
