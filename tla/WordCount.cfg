SPECIFICATION FairSpec
CONSTANTS
    Jobs <- WholeJobs
    MaxProcs = 5
    START_ARRAY_SIZE = 1
INVARIANTS TypeOK WordsIntact TablesOK EveryWordCounted TopWordsFirst
PROPERTY Terminates
