\* The pool under schedules whose batches do not shrink.
SPECIFICATION FairSpec
CONSTANTS
    NumThreads = 3
    Schedules <- GrowingSchedules
INVARIANTS TypeOK BarrierSafe QuietBetweenBatches DestroyJoins
PROPERTIES EveryWaitReturns EveryThreadEnds ForkJoinSpec
