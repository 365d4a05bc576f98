SPECIFICATION Spec
CONSTANTS
    LU = {1, 2}
    LuList <- MCTwoLUs
    CommandLines = {{"bind"}}
    SnfMod = 16
    MaxRequests = 6
    Restarted = FALSE
    InboundCap = 1
    SweepLen = 2
    MaxScreens = 0
INVARIANTS
    EveryRequestAnswered
