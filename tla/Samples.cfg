SPECIFICATION FairSpec
CONSTANTS
    Dev = Dev
    Junk = Junk
    Values <- MCValues
    Interval = 1
    MaxTime = 2
INVARIANTS
    TypeOK
    RowsAreFiled
    WindowIsAveraged
PROPERTIES
    AverageIsClose
    StatementsEnd
