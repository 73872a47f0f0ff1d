CONSTANTS
    Plays = {p1}
    MaxDuration = 2
    MaxTime = 3
SPECIFICATION SafeSpec
INVARIANT CrashSelfHeals
