SPECIFICATION Spec
CONSTANTS
    NumThreads = 4
    Schedules <- DefaultSchedule
INVARIANT BarrierSafe
