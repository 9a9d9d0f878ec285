SPECIFICATION MCSpec
CONSTANTS
    c1 = c1
    c2 = c2
    c3 = c3
    Conversations = {c1, c2, c3}
    Old = {c1}
    None = None
    Texts = {x, y}
    MaxTurns = 2
    MaxEvents = 2
    Characters = {"a", "wide", "newline"}
    Payloads <- Texts2
    MaxSent = 3
    Cases <- Letters3
    NameChars <- Keyboard
    DataSet <- Rows
    Companies <- Names
    Sectors <- SectorNames
    Years = {1, 2}
    MaxCalls = 1
    MaxSeeds = 2
SYMMETRY Symmetry
CHECK_DEADLOCK FALSE
INVARIANTS
    ShownUnderItsOwn
    StopHitsItsTurn
    SettledView
    QuestionStays
    ReplyAsStored
    NothingLeftOut
