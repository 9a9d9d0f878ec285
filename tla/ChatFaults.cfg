SPECIFICATION Spec
CONSTANTS
    Turns = {t1, t2}
    Conversations = {c1}
    NoConversation = NoConversation
    Limit = 1
    RoundCost = 1
    RoundCosts = {1}
    MaxTokens = 1
    MaxCalls = 1
    MaxQuestions = 2
    MaxEvents = 2
    Env = {"stop", "disconnect", "redis", "db", "crash", "overlap"}
SYMMETRY Symmetry
CHECK_DEADLOCK FALSE
INVARIANTS
    OneReply
    StopBoundsOutput
    SettledBeforeLastEvent
PROPERTIES
    PolicySpec
