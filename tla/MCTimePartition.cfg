SPECIFICATION PlanSpec
CONSTANTS
    TicksPerSecond = 8
    FirstYear = 1965
    LastYear = 1976
    MaxYear = 1972
    NotCanonical = NotCanonical
    Invalid = Invalid
    Requests <- Calls
CHECK_DEADLOCK FALSE
INVARIANTS
    PlanTiles
    RoutedIsPlanned
    PathsIdentify
