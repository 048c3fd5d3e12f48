SPECIFICATION FairSpec
CONSTANTS
    NumThreads = 2
    NumKeys = 2
    DEFAULT_VALS_ARR_LEN = 2
    MaxValues = 7
    NULL = NULL
INVARIANTS TypeOK PointerValid WalkComplete AllFreed ChunksFit
PROPERTY Terminates
