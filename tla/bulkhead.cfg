SPECIFICATION BulkheadSpec
CONSTANTS
    Callers = {c1, c2, c3, c4}
    Limits = {1, 2}
    Calls = {c1, c2, c3}
    Leases = {l1, l2, l3}
    NoLease = NoLease
    Limit = 2
    Reaper = TRUE
INVARIANTS NoSlotLost HoldersKeepLease
PROPERTIES NoStarvation ImplementsLocalPool ImplementsPool OrphansReclaimed
