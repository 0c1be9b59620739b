SPECIFICATION MCSpec
CONSTANTS
    Ports = {p1, p2}
    Requests = {r1, r2}
    Threads = {"t1", "t2"}
    Clients = {"a", "b"}
    MaxRequests = 2
    MaxJobs = 1
    MaxFaults = 1
    BatchSize = 2
    MaxRows = 3
    Switches = {"c1.pd", "c1.pps", "c2.pd"}
    Other = "other"
    Writes = {{}, {"c1.pd", "c2.pd", "other"}, {"c1.pps"}}
    MaxCommands = 2
    MaxMishaps = 2
    Powers = {0, 50, 600}
    MaxGap = 2
    Fast = 1
    Slow = 3
    Assess = 4
    Recent = 2
    HoldTime = 4
    GraceTime = 3
    Recover = 2
    MinAge = 2
    StartHold = 1
    Debounce = 1
SYMMETRY Symmetry
INVARIANT TypesOK
INVARIANT SettingsAgree
INVARIANT HistoryKept
INVARIANT SwitchesTrue
PROPERTY ReadsAreTrue
PROPERTY RulesHold
