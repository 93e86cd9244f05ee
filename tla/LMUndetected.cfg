SPECIFICATION FairSpec
CONSTANTS
    p1 = p1
    p2 = p2
    oa = oa
    ob = ob
    oc = oc
    ca = ca
    cb = cb
    cc = cc
    k1 = k1
    k2 = k2
    r1 = r1
    r2 = r2
    r3 = r3
    r4 = r4
    Nobody = Nobody
    Process = {p1, p2}
    Owner = {oa, oc}
    Client = {ca, cc}
    Key = {k1}
    Request = {r1, r2, r3}
    ProcOf <- ProcOf2
    Home <- Home2
    Level = {2,3,4}
    Mode = {"wait"}
    HasAst = {FALSE}
    Calls = {"enqueue"}
    MaxCount = 1
    MaxRepost = 1
    LblCapacity = 2
    Mortal = {}
    Present = {oa, oc}
PROPERTY DeadlocksBroken
