CONSTANTS
    Plays = {p1}
    MaxDuration = 2
    MaxTime = 3
SPECIFICATION Spec
INVARIANTS TypeOK SkipIsSound PagesAgree
PROPERTIES HistoryOutlivesPlugin CatchesUp
