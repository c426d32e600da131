SPECIFICATION Spec
CONSTANTS
    None = None
    Schemas <- MCSchemas
    Batches <- MCBatches
    MaxRows = 3
\* One batch is written and read.
CHECK_DEADLOCK FALSE
INVARIANTS
    AcceptsExactly
    ReadsBack
