SPECIFICATION FairSpec
CONSTANTS
    None = None
    MaxRowGroupRows = 2
    MaxBatchRows = 3
    MaxBatches = 3
    Cancellers = {c1, c2}
\* The file is published or discarded and the writer collected.
CHECK_DEADLOCK FALSE
INVARIANTS
    WriterConsistent
    PublishedIsExact
    AnswersHonest
PROPERTIES
    CancelStopsPublish
    WriterReleased
