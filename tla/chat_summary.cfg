\* Clients take turns; a chat long enough to compress its history twice.
SPECIFICATION Spec
CONSTANTS
    c1 = c1
    c2 = c2
    k1 = k1
    Chats <- TwoChats
    Keys <- OneKey
    MaxToolRounds = 3
    MaxCalls = 2
    KeepRounds = 2
    ChatsMayOverlap = FALSE
    ClearMayOverlap = FALSE
    NoSession = NoSession
PROPERTIES
    QuestionsRemembered
