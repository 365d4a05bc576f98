SPECIFICATION FairSpec
CONSTANTS
    LU = {1, 2}
    LuLu = {2}
    MaxSessions = 2
    MaxSeg = 2
    BiuLen = {2, 4, 5}
    Window = 2
    MaxScreens = 3
    HdrLen = 3
    Piu <- MCPiu
    MaxPius = 4
CHECK_DEADLOCK FALSE
INVARIANTS
    ScreensReassembled
    PiusFit
    PiusIntact
PROPERTIES
    ScreenArrives
