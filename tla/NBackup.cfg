CONSTANTS
    p1 = p1
    p2 = p2
    c1 = c1
    c2 = c2
    A = A
    hdr = hdr
    Nobody = Nobody
    Process = {p1, p2}
    Client = {c1, c2}
    Home <- Home11
    Page = {A}
    Header = hdr
    Reads <- OneReads
    Changes <- BothChange
    Controllers = {c1}
    Mortal = {p1}
    Overlap = FALSE
    Torn = FALSE
    MaxChanges = 2
    MaxCalls = 3
    MaxDeaths = 1

SPECIFICATION Spec
CHECK_DEADLOCK FALSE
INVARIANT TypeOK
INVARIANT Fresh
INVARIANT Recoverable
INVARIANT StateKnown
INVARIANT IncrementalSees
INVARIANT TableCurrent
PROPERTY MainFrozen
