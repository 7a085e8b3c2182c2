SPECIFICATION AdaptiveFairSpec
CONSTANTS
    Slots = {r1, r2, r3}
    Units = 4
    InitialLimit = 8
    MinLimit = 5
    MaxLimit = 7
    Buffer = 2
    Inertia = 2
    Window = 2
    ResetInterval = 3
    MaxRtt = 3
INVARIANTS InFlightBounded
PROPERTIES NoLockOut
