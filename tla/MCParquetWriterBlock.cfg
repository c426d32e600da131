SPECIFICATION Spec
CONSTANTS
    None = None
    MaxRowGroupRows = 2
    MaxBatchRows = 3
    MaxBatches = 1
    Cancellers = {c1}
CHECK_DEADLOCK FALSE
INVARIANT CancelNeverBlocks
