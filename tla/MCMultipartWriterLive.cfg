\* One upload under fairness: parts larger than a chunk, two in flight, and more
\* data than the limit holds at once.
SPECIFICATION FairSpec
CONSTANTS
    Writers = {w1}
    Keys = {k1}
    Absent = Absent
    PartSize = 2
    MaxInFlight = 2
    MaxChunk = 2
    MaxUnits = 8
    MaxCrashes = 1
\* The run may end with the instance down or the writer closed.
CHECK_DEADLOCK FALSE
INVARIANT BufferWithinLimit
PROPERTY OwnerExitReleases
