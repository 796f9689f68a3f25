SPECIFICATION Spec
CONSTANTS
    host1 = host1
    host2 = host2
    host3 = host3
    pid1 = pid1
    pid2 = pid2
    None = None
    Hosts <- MCHosts
    PidOf <- MCPidOf
    MaxEpochs = 3
    MaxFaults = 1
    MaxStops = 1
INVARIANTS
    TypeOK
    OneHostRulesUnlessRaced
    EnsuredIsRecoveredUnlessHalfway
PROPERTIES
CHECK_DEADLOCK FALSE
