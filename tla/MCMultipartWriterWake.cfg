SPECIFICATION Spec
CONSTANTS
    Writers = {w1}
    Keys = {k1}
    Absent = Absent
    PartSize = 2
    MaxInFlight = 1
    MaxChunk = 2
    MaxUnits = 2
    MaxCrashes = 0
CHECK_DEADLOCK FALSE
INVARIANT CancelWakesCall
