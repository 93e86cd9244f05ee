SPECIFICATION Spec
CONSTANTS
    p1 = p1
    p2 = p2
    oa = oa
    ob = ob
    oc = oc
    ca = ca
    cb = cb
    cc = cc
    k1 = k1
    k2 = k2
    r1 = r1
    r2 = r2
    r3 = r3
    r4 = r4
    Nobody = Nobody
    Process = {p1, p2}
    Owner = {oa, ob, oc}
    Client = {ca, cb, cc}
    Key = {k1}
    Request = {r1, r2, r3}
    ProcOf <- ProcOf3
    Home <- Home3
    Level = {6}
    Mode = {"wait"}
    HasAst = {TRUE}
    Calls = {"enqueue", "dequeue"}
    MaxCount = 1
    MaxRepost = 1
    LblCapacity = 2
    Mortal = {}
    Present = {oa, ob, oc}
SYMMETRY Sym3
INVARIANT NoticesUnderWay
INVARIANT BlockersKnow
INVARIANT NoLostWakeup
