\* A batch and a coverage report.
SPECIFICATION TestSpec
CONSTANTS
    Testers = {g1}
    Engines = {"gin"}
    Paths = {"x", "y"}
    TestBatches <- ThreeBatches
    MaxBatches = 2
CHECK_DEADLOCK FALSE
INVARIANTS
    TestedRoutesTold
