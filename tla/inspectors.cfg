\* One inspector at a time, each on a small instance: buffers of three, two
\* goroutines, two names, one job, three or four calls.
SPECIFICATION AllFairSpec
CONSTANTS
    Durations <- ThreeDurations
    MaxDuration = 3
    MaxTime = 7
    MaxProfiles = 3
    BufferMax = 3
    MaxSlow = 2
    DefaultErrors = 2
    BufLimits <- FourLimits
    RequestTimes = {1, 2}
    Thresholds = {0, 2}
    ErrorKinds = {io, panic}
    ErrorForms = {a, b}
    LogSources = {app, lib}
    MaxRecorded = 4
    LogGoroutines = {g1, g2}
    LogPieces <- FourPieces
    MaxLogCalls = 3
    LevelTools = {g1, g2}
    SetLevels = {"debug", "error"}
    MaxLoggers = 2
    WsIds = {c1, c2}
    WsRooms = {r1, r2}
    Sizes = {1, 4}
    MaxConnects = 3
    MaxMessages = 2
    HeapTakers = {g1, g2}
    HeapClasses = {heap}
    HeapBytes = {0, 2, 3, 4}
    HeapMax = 3
    MaxHeapTakes = 4
    SnapTakers = {g1, g2}
    Levels = {0, 3}
    SnapMax = 3
    MaxSnapshots = 4
    MaxMeter = 1
    Registrars = {g1, g2}
    Callers = {g3}
    Hosts = {h1, h2}
    MaxCalls = 2
    MaxChanges = 1
    HealthTools = {g1, g2}
    HealthRegistrars = {g3}
    CheckNames = {n1, n2}
    MaxHealthCalls = 4
    CacheCallers = {g1, g2}
    CacheKeys = {k1, k2}
    PrefixKeys = {k1}
    KeyLimit = 1
    MaxCaches = 2
    MaxCacheOps = 3
    DbNames <- TwoDatabases
    MaxPoolSteps = 6
    Goroutines = {g1, g2, g3}
    Testers = {g1, g2}
    Engines = {"gin", "echo"}
    Paths = {"x", "y"}
    TestBatches <- ThreeBatches
    MaxBatches = 2
    j1 = j1
    n1 = n1
    Jobs <- OneJob
    JobNames <- OneName
    MaxStarts = 2
    MaxHistory = 2
    NoJob = NoJob
    NoChannel = NoChannel
    Stacks <- FourStacks
    Period = 2
    TopShown = 2
    MaxSamples = 2
    MaxTaken = 2
    StackDumps <- ThreeStackDumps
    GroupsAsked = {1, 3}
    MaxGoroutines = 3
CHECK_DEADLOCK FALSE
INVARIANTS
    EveryTypeOK
    FlagIsTrue
    LastIsOneProfile
    NewestKept
    AnswersRight
    LogsRight
    SocketsAgree
    HeapReportsRight
    SnapshotReportsRight
    OutboundRight
    ReportTells
    CacheRight
    ReportsAgree
    
    NoDoubleClose
    ErrorsAgree
PROPERTIES
    EndsInTime
    HealthAnswers
    RunsOn
