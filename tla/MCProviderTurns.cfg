SPECIFICATION Spec
CONSTANTS
    c = c
    i = i
    Bare = Bare
    None = None
    Controllers = {c}
    Systems = {i}
    Modes = {"startup"}
    MaxOrdinal = 2
    MaxSnapshots = 2
    MaxGeneration = 4
    MaxFaults = 1
    MaxCrashes = 1
INVARIANTS
    TypeOK
    RecordsAgree
    CompletableUnlessInterrupted
PROPERTIES
    RunMovesForward
CHECK_DEADLOCK FALSE
