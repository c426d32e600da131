\* A chunk fails halfway and the caller publishes all the same.
SPECIFICATION Spec
CONSTANTS
    Nodes = {n1}
    w1 = w1
    w2 = w2
    Writers = {w1}
    Keys = {k1}
    Absent = Absent
    RemovesFirst = {}
    Sync <- NoSync
    MaxAttempts = 1
    MaxSequence = 1
    MaxChunks = 2
    MaxCrashes = 0
INVARIANTS
    PublishedComplete
CHECK_DEADLOCK FALSE
