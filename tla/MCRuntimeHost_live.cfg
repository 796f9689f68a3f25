SPECIFICATION FairSpec
CONSTANTS
    host1 = host1
    host2 = host2
    host3 = host3
    pid1 = pid1
    pid2 = pid2
    None = None
    Hosts <- MCTwoHosts
    PidOf <- MCPidOf
    MaxEpochs = 7
    MaxFaults = 1
    MaxStops = 1
PROPERTIES
    ServedIfAsked
CHECK_DEADLOCK FALSE
