SPECIFICATION Spec
CONSTANTS
    LU = {1, 2, 3, 4}
    LuList <- MCFourLUs
    CommandLines = {{"menu"}, {"echo-test"}, {"show-file"}, {"uss-test"}}
    SnfMod = 16
    MaxRequests = 7
    Restarted = FALSE
    InboundCap = 1
    SweepLen = 2
    MaxScreens = 0
INVARIANTS
    EveryRequestAnswered
    OneScreenPerPrompt
    SnfOrder
    MenuOwner
