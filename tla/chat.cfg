\* The engine: clients take turns on a session, two chats on one session id,
\* the second continues the first one's history.  The client: two retries,
\* bodies of up to three lines with up to two tool calls.  The page: two
\* messages, tools may be called twice.
SPECIFICATION ChatFairSpec
CONSTANTS
    c1 = c1
    c2 = c2
    k1 = k1
    t1 = t1
    t2 = t2
    Chats <- TwoChats
    Keys <- OneKey
    MaxToolRounds = 3
    MaxCalls = 2
    KeepRounds = 2
    ChatsMayOverlap = FALSE
    ClearMayOverlap = FALSE
    NoSession = NoSession
    MaxRetries = 2
    MaxLines = 3
    Indices <- TwoIndices
    Tools <- TwoTools
    MaxSends = 2
    MaxAsks = 1
    MaxEvents = 3
CHECK_DEADLOCK FALSE
INVARIANTS
    TypeOK
    RequestsPaired
    NudgesSeparated
    OpensWithQuestion
    OneSessionPerKey
    UnseenResultsKept
    RequestTypeOK
    HeardOnce
    CallsWhole
    RetriesEarned
    PageTypeOK
    EventsInOrder
    TextShown
    
    TurnsKept
PROPERTIES
    AnswersEnd
    KeepsStreamContract
