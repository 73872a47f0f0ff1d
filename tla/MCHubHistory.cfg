CONSTANTS
    Conns = {c1, c2}
    Loops = {l1, l2}
    NoLoop = NoLoop
    Events = {update, degraded}
    Cap = 2
    MaxLog = 4
SPECIFICATION FairHSpec
INVARIANTS
    NothingNamedIsClosed
    WatchedIsPolled
    IdleHubHasNoStop
    OrphansAreOwedToDrops
PROPERTIES
    ClosedStreamReturns
    ImplementsBroadcast
CHECK_DEADLOCK FALSE
