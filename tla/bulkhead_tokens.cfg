SPECIFICATION TokensSpec
CONSTANTS
    Tasks = {t0, t1, t2}
    Root = t0
    NoTask = NoTask
    MaxDepth = 2
INVARIANTS TokensPaired
SYMMETRY ChildSymmetry
