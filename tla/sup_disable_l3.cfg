SPECIFICATION Spec
CONSTANTS
    NTasks = 3
    NRebuilds = 3
    Callers = {c1}
    MaxRebuilds = 2
    Env = {"l3", "disable_l3"}
INVARIANT StopSticks
CHECK_DEADLOCK FALSE
