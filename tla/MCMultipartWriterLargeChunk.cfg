SPECIFICATION Spec
CONSTANTS
    Writers = {w1}
    Keys = {k1}
    Absent = Absent
    PartSize = 2
    MaxInFlight = 2
    MaxChunk = 8
    MaxUnits = 8
    MaxCrashes = 0
CHECK_DEADLOCK FALSE
INVARIANT BufferWithinLimit
