SPECIFICATION ReceiptSpec
CONSTANTS
    P = P  Q = Q
    c1 = c1  c2 = c2  c3 = c3
    Runners = {P, Q}
    Attempts = {c1, c2, c3}
    ProcOf <- TwoInOne
    Requests = {r1, r2}
    MaxDeaths = 1
    MaxStoreFaults = 1
CHECK_DEADLOCK FALSE
INVARIANTS
    ReceiptTypeOK
    KeyIsOneCommand
    AnswersAreReal
    SettledIsFinalUnlessRaced
