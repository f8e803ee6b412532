\* One job, stopped and started again.
SPECIFICATION JobFairSpec
CONSTANTS
    j1 = j1
    n1 = n1
    Jobs <- OneJob
    JobNames <- OneName
    MaxStarts = 2
    MaxHistory = 2
    NoJob = NoJob
    NoChannel = NoChannel
CHECK_DEADLOCK FALSE
PROPERTIES
    StartedRuns
