SPECIFICATION FairSpec
CONSTANTS
    LU = {1}
    LuList <- MCOneLU
    CommandLines = {{"menu"}, {"uss-test", "target"}, {"bind", "target"}, {"bind", "bind-sweep"}}
    SnfMod = 4
    MaxRequests = 7
    Restarted = TRUE
    InboundCap = 1
    SweepLen = 3
    MaxScreens = 1
INVARIANTS
    TypeOK
    OneOpenSession
    OwnInput
    OneScreenPerPrompt
    SdtAfterBind
PROPERTIES
    RequestServed
    UsesRelay
    ReturnsToObserve
