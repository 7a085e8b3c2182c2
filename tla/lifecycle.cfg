SPECIFICATION FairSpec
CONSTANTS
    Requests = {r1}
    Plugins = {p1, p2}
    Mounts = {m1}
    UserHooks = {h1, h2}
    HasContext = TRUE
CHECK_DEADLOCK FALSE
INVARIANTS StopsClean
PROPERTIES ClosesInOrder ShutdownEnds
