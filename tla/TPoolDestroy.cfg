SPECIFICATION Spec
CONSTANTS
    NumThreads = 2
    Schedules <- OneBatch
INVARIANT FreedAfterLastUse
