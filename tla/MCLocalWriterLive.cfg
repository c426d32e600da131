\* Liveness, with the sync policy that can fail after the rename.
SPECIFICATION FairSpec
CONSTANTS
    Nodes = {n1}
    w1 = w1
    w2 = w2
    Writers = {w1, w2}
    Keys = {k1}
    Absent = Absent
    RemovesFirst = {n1}
    Sync <- MixedSync
    MaxAttempts = 1
    MaxSequence = 1
    MaxChunks = 0
    MaxCrashes = 1
INVARIANTS
    ReplyHonest
PROPERTIES
    OwnerExitReleases
CHECK_DEADLOCK FALSE
