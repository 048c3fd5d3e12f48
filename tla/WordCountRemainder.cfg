SPECIFICATION FairSpec
CONSTANTS
    Jobs <- RemainderJobs
    MaxProcs = 3
    START_ARRAY_SIZE = 1
INVARIANT EveryWordCounted
