\* Reads of none, one, three and four ranges, the last one shorter.
SPECIFICATION StoreSpec
CONSTANTS
    Backends = {"local", "s3"}
    Absent = Absent
    MaxRangeBytes = 2
    MaxVersions = 3
    Sizes = {0, 2, 5, 7}
    ListBackends = {"local", "s3"}
    Keys <- MCKeys
    StageName <- MCStageName
    Extends <- MCExtends
    PathOrder <- MCPathOrder
    AskedPrefixes <- MCPrefixes
    Links <- MCLinks
    OutsideLinks <- MCOutside
    LinkTarget <- MCTarget
    PageSize = 2
    MaxChanges = 2
\* The call has been answered and no change is left to make.
CHECK_DEADLOCK FALSE
INVARIANTS
    ReadConsistent
    ListExact
    ListErrorCaused
PROPERTIES
    ReadEndsUnlessStalled
