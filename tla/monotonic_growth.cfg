\* One goroutine's snapshots of a class that may shrink and grow.
SPECIFICATION HeapSpec
CONSTANTS
    HeapTakers = {g1}
    HeapClasses = {heap}
    HeapBytes = {0, 2, 3, 4}
    HeapMax = 3
    MaxHeapTakes = 3
CHECK_DEADLOCK FALSE
INVARIANTS
    MonotonicThroughout
