SPECIFICATION Spec
CONSTANTS
    d1 = d1
    d2 = d2
    d3 = d3
    Devices <- MCThree
    Env <- EnvDisableInDrop
    ConnectLimit = 2
    L1Before = 0
SYMMETRY DeviceSymmetry
INVARIANT SlotsConserved
INVARIANT LiveIsClean
