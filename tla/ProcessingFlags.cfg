CONSTANTS
    Senders = {w1, w2}
    QueueFactor = 1
    NTargets = 3
    Tag <- MixedTag
    NScanners = 3
    Trigger <- MixedTrigger
    ConnectionsPerHost = 1
    ContinueOnError = FALSE
    BreakOnSuccess = TRUE
    Flush = FALSE
    Faults = {}
SPECIFICATION FairSpec
INVARIANT GrabFollowsFlags
INVARIANT SummaryMatchesOutput
INVARIANT AllLinesWritten
PROPERTY Completes
