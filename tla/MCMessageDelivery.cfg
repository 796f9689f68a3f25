SPECIFICATION Spec
CONSTANTS
    h1 = h1
    d1 = d1
    d2 = d2
    k1 = k1
    k2 = k2
    router = router
    s1 = s1
    s2 = s2
    None = None
    Hosts = {h1}
    Deliveries = {d1}
    Lookalikes = {h1, d1}
    Callers = {k1, k2}
    Router = router
    Sessions = {s1, s2}
    MaxLines = 2
    MaxTyped = 1
    MaxTroubles = 1
SYMMETRY Interchangeable
INVARIANTS
    TypeOK
    SentOnceUnderClaim
    ConfirmationsAreHonest
PROPERTIES
    FreshEvidenceWinsUnlessRaced
CHECK_DEADLOCK FALSE
