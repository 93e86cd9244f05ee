SPECIFICATION FairSpec
CONSTANTS
    p1 = p1
    p2 = p2
    p3 = p3
    ta = ta
    tb = tb
    tc = tc
    Process = {p1, p2, p3}
    Client = {ta, tb, tc}
    Home <- Home111
    Caching = TRUE
    Ops = {"read", "write"}
    Wait = {"wait"}
    Guarded = TRUE
    Spurious = FALSE
PROPERTY CallsReturn
