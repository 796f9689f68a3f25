\* Two commands of any kind, one sent again, with two failures.
SPECIFICATION Spec
CONSTANTS
    Calls = {c1, c2}
    Root = root
    None = none
    Kinds = {"spawn", "continue", "stop", "stopTree", "repair"}
    MaxTroubles = 2
    MaxRetries = 1
SYMMETRY Symmetry
CHECK_DEADLOCK FALSE
INVARIANTS
    TypeOK
    NoSilentOrphanUnlessUnjournalled
    AgentKeepsARunUnlessUnwound
PROPERTIES
    FencesServeTheirStop
