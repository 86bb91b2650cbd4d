SPECIFICATION Spec
CONSTANTS
    r1 = r1
    r2 = r2
    r3 = r3
    k1 = k1
    k2 = k2
    Request = {r1, r2}
    Key = {k1}
    MaxLimit = 2
    Window = 3
    TicksPerSecond = 2
    Faults = {"redis", "config", "aof", "gateway", "evict", "tamper"}
SYMMETRY RequestSymmetry
INVARIANTS
    TypeOK
    ExactCount
    WindowBound
    ChargedOnce
    RetryAfterCovers
PROPERTIES
    ImplementsWindow
