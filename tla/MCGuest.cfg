SPECIFICATION Run
CONSTANTS
    Parts = {"guest", "agent"}
    t1 = t1
    t2 = t2
    runA = runA
    runC = runC
    pathA = pathA
    OverA = A
    OverC = C
    Threads <- NoSet
    Nobody = Nobody
    NoProvider = NoProvider
    Transports <- NoSet
    TransportOf <- NoFunction
    ExecutorSets = {{}}
    Paths <- NoSet
    MaxCalls <- NoFunction
    Asks <- NoSet
    MaxProcs = 1
    MaxPrints = 0
    Callers = {1, 2}
    Kinds <- EitherTransport
    GuestHelps = TRUE
    MaxOps <- Ops
    MaxTransports = 2
    MaxConns = 3
    MaxIds = 7
    MaxJobs = 2
    Size = 2
    Chunk = 2
    Leftovers <- AnyLeft
    Begun = TRUE
INVARIANTS
    StrayByOverlap
    FindsWhole
    AgentSound
PROPERTY
    CallsEnd
CHECK_DEADLOCK FALSE
