SPECIFICATION Spec
CONSTANTS
    Checkers = {c1}
    Prints = {p1, p2}
    NoPrint = NoPrint
    MaxEpisodes = 2
SYMMETRY Symmetry
\* The agent may stay quiet for good and everybody stop.
CHECK_DEADLOCK FALSE
INVARIANTS
    TypeOK
    HalvesAgree
    SilenceIsReal
PROPERTIES
    CancellationHolds
