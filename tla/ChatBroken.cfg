SPECIFICATION Spec
CONSTANTS
    Turns = {t1}
    Conversations = {c1}
    NoConversation = NoConversation
    Limit = 1
    RoundCost = 1
    RoundCosts = {0, 1}
    MaxTokens = 1
    MaxCalls = 1
    MaxQuestions = 1
    MaxEvents = 3
    Env = {"broken"}
CHECK_DEADLOCK FALSE
INVARIANT
    ShownIsKept
