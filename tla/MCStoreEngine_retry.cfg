SPECIFICATION FairSpec
CONSTANTS
    P = P  Q = Q
    c1 = c1  c2 = c2  c3 = c3
    x = x  mk = mk  up1 = up1  up2 = up2
    None = None
    Procs = {P, Q}
    Clients = {c1, c2}
    EngineOf <- TwoProcesses
    Ops = {mk, up1}
    MayRun <- OneOpEach
    Ids = {x}
    ActionOf <- Actions
    TargetOf <- Targets
    LockTimesOut = TRUE
    WritesFail = TRUE
    MaxCrashes = 1
    MaxFaults = 1
INVARIANTS
    MutationsAreWhole
    RetriesAreIdempotentUnlessMisled
PROPERTIES
    RetryReconciles
