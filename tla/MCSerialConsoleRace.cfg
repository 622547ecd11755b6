CONSTANTS
    t1 = t1
    t2 = t2
    Threads <- Two
    NoPort = NoPort
    NoToken = NoToken
    Does <- UsesAndCloses
    MaxPorts = 3
    MaxCalls <- ThreeAndTwo
    Callers = {1, 2}
    MaxUses = 5
    Users = 2
    MaxBytes = 2
    MaxTransfers = 3
SPECIFICATION Run
INVARIANT CommandAfterLogin
CHECK_DEADLOCK FALSE
