SPECIFICATION MCSpec
CONSTANTS
    Turns = {t1, t2}
    Conversations = {c1, c2}
    NoConversation = NoConversation
    Limit = 1
    RoundCost = 1
    RoundCosts = {0, 1}
    MaxTokens = 1
    MaxCalls = 1
    MaxQuestions = 2
    MaxEvents = 3
    Env = {"stop", "refused", "broken", "delete"}
    ModelPricing <- MCPricing
    Models = {"dear", "other"}
    MaxToolRounds = 3
    SystemTokens = 7
    QuestionTokens = 2
    ErrorTokens = 1
    DeltaTokens = 3
    RowsTokens = {4}
    Surcharge = 4
    ToolsSurcharge = 11
    LimitMicros = 60
    MaxDeltas = 2
    MaxListed = 1
    MaxAsked = 2
SYMMETRY Symmetry
CHECK_DEADLOCK FALSE
INVARIANTS
    FairlyCharged
    NoDanglingQuestion
    BooksBalance
    WindowArmed
