CONSTANTS
    MaxVersion = 2
    MaxTime = 2
    QueueCap = 1
    MaxPlugin = 1
    MaxCrashes = 1
SPECIFICATION JobsSpec
INVARIANTS
    SchedulerTypeOK
    SkipIsSoundAfterSuccess
    OwedIsQueued
    
PROPERTY RequestIsServed
