SPECIFICATION MCSpec
CONSTANTS
    c1 = c1
    c2 = c2
    Callers <- MCOneCaller
    Env <- EnvLocking
    NTasks = 3
    NRebuilds = 3
    MaxRebuilds = 2
INVARIANT TypesOK
INVARIANT LoopIsHeldLocking
INVARIANT LastCommandSticks
PROPERTY NoRevival
PROPERTY SupervisorGoesOn
