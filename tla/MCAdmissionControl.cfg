SPECIFICATION FairSpec
CONSTANTS
    c1 = c1
    c2 = c2
    c3 = c3
    Callers <- MCCallers
    MaxConcurrent = 2
INVARIANTS
    SlotConservation
    CeilingRespected
    NoLostWakeUp
PROPERTIES
    AcquireReturns
    FirstComeFirstServed
    PoolSpec
