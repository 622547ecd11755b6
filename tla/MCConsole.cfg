SPECIFICATION Run
CONSTANTS
    t1 = t1
    t2 = t2
    Threads <- Two
    Nobody = Nobody
    WriteErrors <- Plain
    ReadErrors <- Refusing
    MaxCalls = 2
INVARIANTS
    ExecutorSafe
    OwnOutput
    TypedWhole
    Delivered
PROPERTY
    ConsoleEnds
CHECK_DEADLOCK FALSE
