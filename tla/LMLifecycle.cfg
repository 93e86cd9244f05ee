SPECIFICATION Spec
CONSTANTS
    p1 = p1
    p2 = p2
    oa = oa
    ob = ob
    oc = oc
    ca = ca
    cb = cb
    cc = cc
    k1 = k1
    k2 = k2
    r1 = r1
    r2 = r2
    r3 = r3
    r4 = r4
    Nobody = Nobody
    Process = {p1, p2}
    Owner = {oa, oc}
    Client = {ca, cc}
    Key = {k1, k2}
    Request = {r1, r2}
    ProcOf <- ProcOf2
    Home <- Home2
    Level = {6}
    Mode = {"wait"}
    HasAst = {TRUE}
    Calls = {"initialize", "enqueue", "requeue", "dequeue", "shutdown", "repost", "downgrade"}
    MaxCount = 2
    MaxRepost = 1
    LblCapacity = 1
    Mortal = {p2}
    Present = {oa, oc}
SYMMETRY Sym2
INVARIANT NoAstForGoneOwner
INVARIANT PurgedOwnersAreClean
PROPERTY HeldIsKept
