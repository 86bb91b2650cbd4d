SPECIFICATION FairSpec
CONSTANTS
    Nothing = Nothing
    t1 = t1
    t2 = t2
    s1 = s1
    s2 = s2
    Tab = {t1, t2}
    Session = {s1, s2}
    MaxCalls = 5
    Faults = {"network", "store"}
INVARIANTS
    TypeOK
    TokenKept
PROPERTIES
    LogoutEndsSession
    PageSettles
CHECK_DEADLOCK FALSE
