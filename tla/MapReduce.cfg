SPECIFICATION FairSpec
CONSTANTS
    Args <- Calls
    Programs <- Pairs
    MaxThreads = 3
INVARIANTS TypeOK EmissionOnce GatherComplete ArraysSorted ResultCorrect FailsOnlyIfShort
PROPERTY Terminates
