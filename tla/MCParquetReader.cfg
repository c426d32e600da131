SPECIFICATION FairSpec
CONSTANTS
    None = None
    Foreign = Foreign
    Consumer = consumer
    Width = 2
    Closers = {c1}
    BatchSize = 2
    PrefetchDepth = 2
    Files <- MCFiles
    Predicates <- MiddlePredicates
\* The enumeration ends and the reader is collected.
CHECK_DEADLOCK FALSE
INVARIANTS
    ReaderConsistent
    DeliversAnswer
PROPERTIES
    ReaderReleased
