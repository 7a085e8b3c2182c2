SPECIFICATION Spec
CONSTANTS
    r1 = r1
    r2 = r2
    r3 = r3
    p1 = p1
    p2 = p2
    Requests <- MCRequests
    Processes <- MCProcesses
    Home <- MCHome
    FailureThreshold = 2
    HalfOpenMaxCalls = 1
INVARIANTS FallbackBounded
PROPERTIES ImplementsCircuit
