SPECIFICATION FairSpec
CONSTANTS
    NumQueues = 3
    Workers = {w1, w2}
    Rounds <- TwoRounds
    Nobody = Nobody
    NoTask = NoTask
    m1 = m1
    m2 = m2
    r1 = r1
INVARIANTS TypeOK EachEntryOnce EveryTaskRan
PROPERTIES NoWorkLeftBehind Drained BagSpec
