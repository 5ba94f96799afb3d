SPECIFICATION FairSpec
CONSTANTS
    AuthConfigs <- AllAuthConfigs
    MaxCachedPubKeys = 1
    Scenarios <- AllScenarios
    Cases <- AllCases
    WindowSize = 2
    WindowMod = 8
    QueueCap = 1
CHECK_DEADLOCK FALSE
INVARIANTS
    AuthSound
    FlowIsExact
    ChannelsSound
PROPERTIES
    ConnectionEnds
