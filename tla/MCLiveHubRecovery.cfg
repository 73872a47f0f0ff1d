CONSTANTS
    Conns = {c1}
    Loops = {l1}
    NoLoop = NoLoop
    Callers = {r1}
    Cap = 2
    MaxWorld = 0
    Threshold = 1
    Primed = {TRUE}
    None = None
    Failed = Failed
    Degraded = Degraded
SPECIFICATION Spec
PROPERTY
    RecoveryReachesViewers
CHECK_DEADLOCK FALSE
