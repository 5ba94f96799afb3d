SPECIFICATION FairSpec
CONSTANTS
    Callers = {1, 2}
    Conns = {1, 2, 3}
    Hops = {0, 1, 2}
    Settings <- TheSettings
    Requests = {1, 2}
    Conns2 = {1, 2}
    Streams = {1, 2}
    InitialWindow = 2
    StreamFlow = 2
    ConnFlow = 4
    MinRefresh = 1
    MaxWindow = 9
    Plays <- ThePlays
    Cases <- TheCases
CHECK_DEADLOCK FALSE
INVARIANTS
    AnswersBelong
    NothingTwice
    PoolKept
    FlowKept
PROPERTY CallsReturn
