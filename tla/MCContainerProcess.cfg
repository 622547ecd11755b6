SPECIFICATION Run
CONSTANTS
    Outputs <- SomeOutputs
    MaxCalls = 3
INVARIANTS
    ReadsWhole
    NothingLeft
PROPERTIES
    CallsEnd
CHECK_DEADLOCK FALSE
