\* One sample, taken once or twice.
SPECIFICATION FuncSpec
CONSTANTS
    Stacks <- FourStacks
    Period = 2
    TopShown = 2
    MaxSamples = 1
    MaxTaken = 2
CHECK_DEADLOCK FALSE
INVARIANTS
    TimesAreNanoseconds
