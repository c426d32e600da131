\* Three partitions for two open parts, so that the least recently used one is
\* completed; row and byte limits small enough for both kinds of rotation, and
\* a row larger than the byte limit.
SPECIFICATION Spec
CONSTANTS
    Timestamps = {0, 1, 2, 4}
    PartitionWidth = 2
    RowSizes = {1, 3}
    MaxOpenPartitions = 2
    MaxRowsPerFile = 2
    MaxBytesPerFile = 2
    BatchRows = 2
    MaxRows = 4
    MaxCallRows = 2
\* The server stops for good after close, cancel, a failure or the owner's exit.
CHECK_DEADLOCK FALSE
INVARIANTS
    ServerConsistent
    ExactlyOnce
    PartsWithinLimits
    ReportSound
PROPERTIES
    ImplementsDataset
