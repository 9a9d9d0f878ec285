SPECIFICATION MCSpec
CONSTANTS
    a = a
    b = b
    s1 = s1
    s2 = s2
    MaxFiles = 3
    IsPublic = {3}
    Owners = {o1, o2}
    Unmade = {o2}
    Savers = {s1, s2}
    PageSize = 1
    MaxFaults = 1
    MaxCleanups = 1
    MaxEvents = 1
    XKey = x
    Keys = {a, b, c}
    Numbers = {n1, n2}
    Numeral = numeral
    Text = text
    MaxRows = 2
    Holders = {h1, h2}
    MaxEdits = 2
    MaxRefused = 1
SYMMETRY Symmetry
CHECK_DEADLOCK FALSE
INVARIANTS
    CleanupSparesStored
    CleanupCollects
    SavedFilesStay
    ChartTraceable
    EditsKept
