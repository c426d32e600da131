SPECIFICATION Spec
CONSTANTS
    Backend = "s3"
    Files = {1, 2, 3, 4}
    FileTimes <- MCFileTimes
    PartitionWidth = 2
    From = 3
    Until = 5
    BatchSize = 2
    PathPrefixes <- MCPathPrefixes
    Closers = {c1}
INVARIANTS
    CloseClosesReader
\* The enumeration ends, and every process may have closed the stream.
CHECK_DEADLOCK FALSE
