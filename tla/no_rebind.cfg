SPECIFICATION FairSpec
CONSTANTS
    LU = {1}
    LuList <- MCOneLU
    CommandLines = {{"bind", "target"}}
    SnfMod = 16
    MaxRequests = 6
    Restarted = FALSE
    InboundCap = 1
    SweepLen = 2
    MaxScreens = 0
PROPERTIES
    ReconnectBinds
