SPECIFICATION FairSpec
CONSTANTS
    p1 = p1
    p2 = p2
    c1 = c1
    c2 = c2
    Ports <- MCPorts
    Calls <- MCCalls
    Wants <- MCWants
    QueueSize = 1
    MaxOutside = 1
    MaxBreaks = 1
INVARIANT TypeOK
INVARIANT WritesFreshMask
PROPERTY ServiceSpec
PROPERTY CallsAnswered
CHECK_DEADLOCK FALSE
