SPECIFICATION Spec
CONSTANTS
    m1 = m1
    m2 = m2
    m3 = m3
    m4 = m4
    Msgs <- MCMsgs
    Part <- MCParts
    Channel <- MCChannel
    ChatId <- MCChatId
    MaxReplies = 2
    NoSession = NoSession
INVARIANT SavedMeansAnswered
INVARIANT SessionOfOwnChat
INVARIANT ConversationIsRemembered
CHECK_DEADLOCK FALSE
