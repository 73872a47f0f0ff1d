CONSTANTS
    Conns = {c1, c2, c3}
    Loops = {l1, l2, l3}
    NoLoop = NoLoop
    Events = {e}
    Cap = 2
SPECIFICATION Spec
INVARIANT
    NoOrphanLoop
CHECK_DEADLOCK FALSE
