SPECIFICATION Spec
CONSTANTS
    Parts = {"stream"}
    LoginAttempts = 2
    LowValues = 8
    MaxGap = 2
    MaxNoise = 2
    MaxFails = 3
    Devices = {"d1", "d2"}
    QueueMax = 2
    MaxStatus = 3
    MaxEvents = 2
    StatusRequests = {"r1"}
    MaxVersion = 3
    MaxMishaps = 2
    MaxLost = 3
    MaxFlight = 2
    MaxFlaws = 2
    Ports = {"c1"}
    OffAttempts = 4
    QueueSize = 3
    MaxSaves = 2
    Requests = {"r1", "r2"}
    Ttl = 4
    Limit = 4
    Budget = 3
    ConnectTime = 1
    ReadTime = 2
    MaxCalls = 2
    Callers = {"t1", "t2", "t3", "t4"}
PROPERTY NeverBackwards
CHECK_DEADLOCK FALSE
