SPECIFICATION RateSpec
CONSTANTS
    Processes = {p1}
    Redis = redis
    Calls = {r1, r2}
    Burst = 2
    Rate = 1
    Token = 2
    CleanupInterval = 1
    Grace = 1
    MaxTime = 5
INVARIANTS WithinRate RefusedOnlyInExcess
CHECK_DEADLOCK FALSE
