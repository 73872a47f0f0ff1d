CONSTANTS
    MaxVersion = 3
    MaxTime = 3
SPECIFICATION SafeSpec
INVARIANT SkipIsSound
