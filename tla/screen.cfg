SPECIFICATION FairSpec
CONSTANTS
    Size = 4
    AddrLimit = 5
    TextRows = 2
    TextCols = 2
    TabWidth = 2
    Glyph = {"a"}
    Line <- MCLine
    MaxLines = 3
    MaxRecords = 2
    MaxOrders = 3
CHECK_DEADLOCK FALSE
INVARIANTS
    ShownAsFlattened
    LinesShown
PROPERTIES
    ApplyEnds
