SPECIFICATION Spec
CONSTANTS
    cli = cli  server = server
    put1 = put1  put2 = put2  sweep1 = sweep1
    report = report  draft = draft  letter = letter  text = text  other = other
    None = None
    Procs = {cli, server}
    Puts = {put1, put2}
    Sweeps = {sweep1}
    ProcOf <- MCProcOf
    Inputs = {report, draft, letter}
    BytesOf <- MCBytesOf
    MaxCrashes = 1
    MaxFaults = 1
SYMMETRY Alike
INVARIANTS
    TypeOK
    PublicationIsExclusiveUnlessRaced
    RecordedBytesStayUnlessMisread
CHECK_DEADLOCK FALSE
