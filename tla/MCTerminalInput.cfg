SPECIFICATION Spec
CONSTANTS
    c1 = c1
    c2 = c2
    n1 = n1
    t1 = t1
    p1 = p1
    None = None
    Controllers = {c1, c2}
    Notices = {n1}
    Turns = {t1}
    Plain = {p1}
    MaxLeases = 2
    MaxWrites = 1
    MaxFaults = 1
SYMMETRY Interchangeable
VIEW WhatMatters
INVARIANTS
    TypeOK
    OneGenerationWrites
    BoundaryHasOneOwnerUnlessCrossed
    KeyboardIsRecorded
CHECK_DEADLOCK FALSE
