SPECIFICATION FairLoopSpec
CONSTANTS
    Kinds = {"conn"}
    Timeouts = {0, 2}
    OpTimeouts = {0}
    Limits = {0}
    Actions = {""}
    DefaultSessionTimeout = 2
    DefaultBytesReadLimit = 3
    Sizes = {1, 4}
    Uses <- ReadSetter
    ReadTimeouts = {1}
    MaxClock = 4
    MaxSent = 3
INVARIANTS
    ReadDeadlineOneShot
    SessionOvershoot
    LoopsBounded
PROPERTIES
    OperationsReturn
    LoopsEnd
