SPECIFICATION FairLockSpec
CONSTANTS
    p1 = p1  p2 = p2  p3 = p3
    a = a  b = b  c = c  d = d
    NoOwner = NoOwner
    Processes = {p1, p2, p3}
    Calls = {a, b, c, d}
    PidOf <- ThreeProcs
    SyncCalls = {d}
    MayCrash = {p1, p2}
    MaxPolls = 1
INVARIANTS
    LockTypeOK
    ExclusionUnlessRaced
PROPERTIES
    EveryCallSettles
