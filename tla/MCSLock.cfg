SPECIFICATION FairSpec
CONSTANTS
    Workers = {w1, w2, w3}
    Null = Null
INVARIANTS TypeOK FlagCleared FirstComeFirstServed
PROPERTIES EveryWaiterEnters MutexSpec
