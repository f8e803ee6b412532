\* A body that stops early.
SPECIFICATION RequestSpec
CONSTANTS
    MaxRetries = 2
    MaxLines = 3
    Indices <- TwoIndices
INVARIANTS
    CompleteIsWhole
CHECK_DEADLOCK FALSE
