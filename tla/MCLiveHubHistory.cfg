CONSTANTS
    Conns = {c1, c2}
    Loops = {l1, l2}
    NoLoop = NoLoop
    Callers = {}
    Cap = 1
    MaxWorld = 1
    Threshold = 1
    Primed = {TRUE}
    None = None
    Failed = Failed
    Degraded = Degraded
    MaxLog = 2
SPECIFICATION MCSpec
INVARIANTS
    TypeOK
    ToldShowsHub
    CaughtUpShowsLog
SYMMETRY Alike
CHECK_DEADLOCK FALSE
