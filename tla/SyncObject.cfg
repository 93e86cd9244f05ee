SPECIFICATION Spec
CONSTANTS
    t1 = t1
    t2 = t2
    t3 = t3
    NoThread = NoThread
    Thread <- Threads
    Timeouts = {"none", "some", "forever"}
    MaxDepth = 1
SYMMETRY Sym
INVARIANT TypeOK
INVARIANT WaitersCount
INVARIANT StateCounts
INVARIANT NoLostWakeup
PROPERTY IsOneLock
