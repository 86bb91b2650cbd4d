SPECIFICATION FairSpec
CONSTANTS
    r1 = r1
    r2 = r2
    r3 = r3
    k1 = k1
    k2 = k2
    Request = {r1, r2}
    Key = {k1}
    MaxLimit = 2
    Window = 1
    TicksPerSecond = 1
    Faults = {"gateway", "redis", "config"}
PROPERTIES
    Answered
    QuotaComesBack
