SPECIFICATION Spec
CONSTANTS
    Writers = {w1, w2}
    Keys = {k1}
    Absent = Absent
    PartSize = 2
    MaxInFlight = 1
    MaxChunk = 2
    MaxUnits = 3
    MaxCrashes = 1
SYMMETRY Symmetry
CHECK_DEADLOCK FALSE
INVARIANTS
    UploadConsistent
    CompletedWhole
    ReplyHonest
PROPERTIES
    CancelStopsPublish
    ImplementsObjectStore
