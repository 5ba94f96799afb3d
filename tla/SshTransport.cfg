SPECIFICATION FairSpec
CONSTANTS
    Configs <- Pairs
    RekeyThreshold = 0
    IncomingCap = 1
    WireCap = 1
    MaxData = 2
CHECK_DEADLOCK FALSE
INVARIANTS
    KeysAgree
    PacketsDelivered
PROPERTIES
    TransportReturns
