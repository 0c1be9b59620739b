SPECIFICATION Spec
CONSTANTS
    d1 = d1
    d2 = d2
    d3 = d3
    Devices <- MCTwo
    Env <- EnvNone
    ConnectLimit = 2
    L1Before = 1
PROPERTY PowerOffSparesLive
SYMMETRY DeviceSymmetry
