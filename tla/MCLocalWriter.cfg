\* A Unix and a Windows instance with the same process id, two writers, one key: names clash
\* after a crash, after a failed removal and between the instances.
SPECIFICATION Spec
CONSTANTS
    Nodes = {n1, n2}
    w1 = w1
    w2 = w2
    Writers = {w1, w2}
    Keys = {k1}
    Absent = Absent
    RemovesFirst = {n2}
    Sync <- MixedSync
    MaxAttempts = 2
    MaxSequence = 2
    MaxChunks = 1
    MaxCrashes = 1
\* Every writer has been used and every object deleted: nothing is left to do.
CHECK_DEADLOCK FALSE
INVARIANTS
    CountersConsistent
    StagingSound
    ReplyHonest
PROPERTIES
    CancelStopsPublish
    PublishedFrozen
    ImplementsObjectStore
