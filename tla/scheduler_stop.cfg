\* One job: Stop may come while fn runs.
SPECIFICATION JobFairSpec
CONSTANTS
    j1 = j1
    n1 = n1
    Jobs <- OneJob
    JobNames <- OneName
    MaxStarts = 1
    MaxHistory = 2
    NoJob = NoJob
    NoChannel = NoChannel
CHECK_DEADLOCK FALSE
PROPERTIES
    StopStops
