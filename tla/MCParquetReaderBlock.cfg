SPECIFICATION Spec
CONSTANTS
    None = None
    Foreign = Foreign
    Consumer = consumer
    Width = 2
    Closers = {c1}
    BatchSize = 2
    PrefetchDepth = 2
    Files <- MCFiles
    Predicates <- MiddlePredicates
CHECK_DEADLOCK FALSE
INVARIANT CloseNeverBlocks
