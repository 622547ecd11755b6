CONSTANTS
    Parts = {"host", "local"}
    t1 = t1
    t2 = t2
    Threads <- Two
    Nobody = Nobody
    NoProvider = NoProvider
    runA = runA
    runC = runC
    pathA = pathA
    OverA = A
    OverC = C
    Transports <- AC
    TransportOf <- OneOver
    ExecutorSets <- Sets
    Paths <- OnePath
    MaxCalls <- OnceAndThrice
    Asks <- LocalCalls
    MaxProcs = 3
    MaxPrints = 1
    Callers = {1}
    Kinds = {"framed"}
    GuestHelps = FALSE
    MaxOps = 0
    MaxTransports = 0
    MaxConns = 0
    MaxIds = 0
    MaxJobs = 0
    Size = 1
    Chunk = 1
    Leftovers = {}
    Begun = FALSE
SPECIFICATION Run
INVARIANTS TransportsAccounted InitializedFirst LocalSound
PROPERTY HostEnds
CHECK_DEADLOCK FALSE
