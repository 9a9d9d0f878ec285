SPECIFICATION MCSpec
CONSTANTS
    k1 = k1
    k2 = k2
    Keys = {k1, k2}
    Body <- MCBody
    Requests = {r1, r2}
    Pages = {p1, p2}
    None = None
    MaxIds = 3
    MaxFaults = 1
    MaxExpiries = 1
    RowIds = {1, 2, 3}
    TimeOf <- Times
    Texts = {1, 2}
    Filters <- Terms
    PerPages <- Sizes
    MaxWrites = 2
    MaxPage = 3
    Types = {"string", "Date", "array"}
    NoFile = NoFile
    MaxEdits = 2
    MaxRuns = 2
    Names <- MCNames
    Dirs <- MCDirs
    Contents = {v1, v2}
    Initial = v1
    Absent = Absent
    Clients = {d1, d2}
    PerPage = 1
    MaxOps = 2
    MaxErrors = 1
SYMMETRY Symmetry
CHECK_DEADLOCK FALSE
INVARIANTS
    NoHalfAccount
    AnswersAreTrue
    MailedUserExists
    StrayTokensOverlap
    FreshLinkWorks
    PagesAddUp
    GeneratedKeeps
    BucketAsTold
