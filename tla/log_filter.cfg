\* Entries of one source and of two spellings of a level.
SPECIFICATION BufSpec
CONSTANTS
    BufferMax = 3
    MaxSlow = 2
    DefaultErrors = 2
    BufLimits = {0, 1}
    RequestTimes = {1, 2}
    Thresholds = {0}
    ErrorKinds = {io}
    ErrorForms = {a}
    LogSources = {app}
    MaxRecorded = 2
CHECK_DEADLOCK FALSE
INVARIANTS
    EntriesFound
