SPECIFICATION Spec
CONSTANTS
    p1 = p1
    p2 = p2
    p3 = p3
    ta = ta
    tb = tb
    tc = tc
    Process = {p1, p2}
    Client = {ta, tb, tc}
    Home <- Home21
    Caching = TRUE
    Ops = {"read", "jump", "write", "release", "try", "shutdown"}
    Wait = {"timeout", "no_wait"}
    Guarded = FALSE
    Spurious = FALSE
SYMMETRY Sym21
CHECK_DEADLOCK FALSE
INVARIANT TypeOK
INVARIANT Exclusive
INVARIANT NoticeRemembered
PROPERTY IsOneLock
