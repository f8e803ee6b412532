\* Nobody waits: two chats on one session id interleave at every read and
\* write of the session object, and it may be cleared at any time.
SPECIFICATION Spec
CONSTANTS
    c1 = c1
    c2 = c2
    k1 = k1
    Chats <- TwoChats
    Keys <- OneKey
    MaxToolRounds = 2
    MaxCalls = 1
    KeepRounds = 1
    ChatsMayOverlap = TRUE
    ClearMayOverlap = TRUE
    NoSession = NoSession
SYMMETRY ChatSymmetry
PROPERTIES
    KeepsContract
