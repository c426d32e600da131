SPECIFICATION Spec
CONSTANTS
    Timestamps = {0, 2}
    PartitionWidth = 2
    RowSizes = {1}
    MaxOpenPartitions = 1
    MaxRowsPerFile = 2
    MaxBytesPerFile = 9
    BatchRows = 2
    MaxRows = 3
    MaxCallRows = 2
INVARIANTS
    CloseFailureReportsAll
CHECK_DEADLOCK FALSE
