SPECIFICATION Spec
CONSTANTS
    Parts = {"restart"}
    LoginAttempts = 2
    LowValues = 8
    MaxGap = 2
    MaxNoise = 2
    MaxFails = 3
    Devices = {"d1", "d2"}
    QueueMax = 2
    MaxStatus = 2
    MaxEvents = 2
    StatusRequests = {"r1"}
    MaxVersion = 3
    MaxMishaps = 0
    MaxLost = 3
    MaxFlight = 2
    MaxFlaws = 2
    Ports = {"c1"}
    OffAttempts = 4
    QueueSize = 3
    MaxSaves = 1
    Requests = {"r1", "r2"}
    Ttl = 4
    Limit = 4
    Budget = 3
    ConnectTime = 1
    ReadTime = 2
    MaxCalls = 2
    Callers = {"t1", "t2", "t3", "t4"}
INVARIANT NoGhosts
CHECK_DEADLOCK FALSE
