SPECIFICATION Spec
CONSTANTS
    Args <- FewerReducers
    Programs <- FewerReducersOnce
    MaxThreads = 3
INVARIANT EveryKeyProcessed
