CONSTANTS
    Conns = {c1}
    Loops = {l1}
    NoLoop = NoLoop
    Callers = {r1}
    Cap = 2
    MaxWorld = 1
    Threshold = 1
    Primed = {TRUE, FALSE}
    None = None
    Failed = Failed
    Degraded = Degraded
SPECIFICATION Spec
PROPERTIES
    FirstFrame
    ImplementsHubSubs
CHECK_DEADLOCK FALSE
