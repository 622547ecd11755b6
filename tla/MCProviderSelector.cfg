CONSTANTS
    t1 = t1
    t2 = t2
    Threads <- TwoThreads
    NumProviders = 2
    Spawns <- SecondSpawns
    Does <- RunsAndAll
    MaxCalls <- TwiceAndOnce
    MaxGeneration = 1
SPECIFICATION FairSpec
INVARIANTS HonestRefusal HonestReport
PROPERTIES OfferedOnce OperationEnds
CHECK_DEADLOCK FALSE
