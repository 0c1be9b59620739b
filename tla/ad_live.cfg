SPECIFICATION FairSpec
CONSTANTS
    d1 = d1
    d2 = d2
    d3 = d3
    Devices <- MCTwo
    Env <- EnvNone
    ConnectLimit = 1
    L1Before = 1
INVARIANT TypeOK
INVARIANT LadderNoSkip
INVARIANT LiveIsTrue
PROPERTY CycleIsSafe
PROPERTY AdapterGoesOn
