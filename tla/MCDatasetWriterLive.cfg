SPECIFICATION FairSpec
CONSTANTS
    Timestamps = {0, 2, 4}
    PartitionWidth = 2
    RowSizes = {1}
    MaxOpenPartitions = 2
    MaxRowsPerFile = 2
    MaxBytesPerFile = 9
    BatchRows = 1
    MaxRows = 4
    MaxCallRows = 2
PROPERTIES
    StoppedReleases
CHECK_DEADLOCK FALSE
