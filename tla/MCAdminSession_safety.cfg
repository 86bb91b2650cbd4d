SPECIFICATION Spec
CONSTANTS
    l1 = l1
    l2 = l2
    a1 = a1
    r1 = r1
    r2 = r2
    s1 = s1
    Login = {l1, l2}
    Address = {a1}
    Request = {r1, r2}
    Session = {s1}
    Limit = 1
    Minute = 2
    Idle = 2
    Absolute = 3
    MaxTime = 4
    Faults = {"redis", "store", "crash"}
SYMMETRY Symmetric
INVARIANTS
    GuessesBounded
    LogoutFinal
    LoginsAudited
    QuietAddressAdmitted
PROPERTIES
    SessionBounded
CHECK_DEADLOCK FALSE
