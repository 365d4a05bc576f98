SPECIFICATION FairSpec
CONSTANTS
    Data = {"x"}
    Payload <- MCPayload
    MaxRecords = 2
    MaxInputs = 2
CHECK_DEADLOCK FALSE
INVARIANTS
    OffersAnswered
    Agreement
    RecordsRead
    RecordsWritten
PROPERTIES
    NegotiationEnds
