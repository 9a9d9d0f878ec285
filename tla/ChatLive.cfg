SPECIFICATION FairSpec
CONSTANTS
    Turns = {t1, t2}
    Conversations = {c1}
    NoConversation = NoConversation
    Limit = 1
    RoundCost = 1
    RoundCosts = {0, 1}
    MaxTokens = 1
    MaxCalls = 1
    MaxQuestions = 2
    MaxEvents = 3
    Env = {"stop", "disconnect", "refused", "broken", "delete"}
CHECK_DEADLOCK FALSE
PROPERTIES
    TurnEnds
    BudgetReturns
