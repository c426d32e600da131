SPECIFICATION Spec
CONSTANTS
    Backends = {"local"}
    Absent = Absent
    MaxRangeBytes = 2
    MaxVersions = 3
    Sizes = {0, 2, 5, 7}
CHECK_DEADLOCK FALSE
INVARIANT ReadIsOneObject
