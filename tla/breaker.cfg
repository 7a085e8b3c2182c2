SPECIFICATION FairSpec
CONSTANTS
    Requests = {r1, r2, r3, r4}
    FailureThreshold = 2
    HalfOpenMaxCalls = 2
INVARIANTS ProbesBounded
PROPERTIES TripsOnThreshold NeverStuck
