SPECIFICATION FairSpec
CONSTANTS
    InboundCap = 2
    SocketCap = 1
    MaxInputs = 4
    MaxRecords = 2
INVARIANTS
    TypeOK
    InputInOrder
    ScreensInOrder
    NoDoubleClose
PROPERTIES
    DeliverReturns
    EndsTogether
    KeepsRelay
