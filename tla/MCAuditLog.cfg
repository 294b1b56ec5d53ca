SPECIFICATION FairSpec
CONSTANTS
    Capacity = 2
    MaxRecords = 4
    MaxStarts = 2
INVARIANTS
    EveryRecordAccounted
    CleanStopDrains
PROPERTIES
    LedgerSpec
    FullPageStable
    StopReturns
