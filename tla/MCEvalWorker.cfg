SPECIFICATION FairSpec
CONSTANTS
    t1 = t1
    t2 = t2
    t3 = t3
    w1 = w1
    w2 = w2
    Tasks <- MCTasks
    Workers <- MCWorkers
    NoTask = NoTask
    MaxRetries = 2
    MaxStarts = 2
INVARIANTS
    OneThreadPerJob
    NoRowForgotten
PROPERTIES
    StatusMachine
    ShutdownReturns
