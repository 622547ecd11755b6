SPECIFICATION RunApart
CONSTANTS
    x = x
    y = y
    A = A
    B = B
    Nowhere = Nowhere
    Paths <- TwoPaths
    Routes <- OneHost
    Caps <- MostCaps
    Does <- AllOps
    MaxCalls = 3
    FileKinds = {"winrm", "archive", "qga"}
    Callers = {1, 2}
    Parts = 2
    MaxOutside = 2
    Hops = 8
    MaxChain = 10
    Forms <- ThreeForms
INVARIANTS
    RoutingSound
    WrittenWhole
    SameEnd
PROPERTIES
    OfferedOnce
    Spares
CHECK_DEADLOCK FALSE
