SPECIFICATION Spec
CONSTANTS
    Kinds = {"conn", "dial", "context"}
    Timeouts = {1}
    OpTimeouts = {1}
    Limits = {0, 2}
    Actions = {"", "error", "panic"}
    DefaultSessionTimeout = 1
    DefaultBytesReadLimit = 3
    Sizes = {1, 3}
    Uses <- Setters
    MaxClock = 2
    MaxSent = 3
INVARIANTS
    LimitRespected
    BogusEOFOnlyAtLimit
