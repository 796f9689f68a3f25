SPECIFICATION Spec
CONSTANTS
    P = P  Q = Q
    c1 = c1  c2 = c2  c3 = c3
    x = x  mk = mk  up1 = up1  up2 = up2
    None = None
    Procs = {P}
    Clients = {c1, c2}
    EngineOf <- SameProcess
    Ops = {mk, up1, up2}
    MayRun <- AnyOp
    Ids = {x}
    ActionOf <- Actions
    TargetOf <- Targets
    LockTimesOut = FALSE
    WritesFail = FALSE
    MaxCrashes = 2
    MaxFaults = 0
INVARIANTS
    TypeOK
    BootIsHarmless
PROPERTIES
    ImplementsObjectLog
