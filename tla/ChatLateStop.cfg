SPECIFICATION Spec
CONSTANTS
    Turns = {t1}
    Conversations = {c1}
    NoConversation = NoConversation
    Limit = 2
    RoundCost = 1
    RoundCosts = {0, 1}
    MaxTokens = 1
    MaxCalls = 1
    MaxQuestions = 2
    MaxEvents = 3
    Env = {"stop"}
CHECK_DEADLOCK FALSE
INVARIANT
    NoPhantomStop
