SPECIFICATION MCSpec
CONSTANTS
    t1 = t1
    t2 = t2
    c1 = c1
    c2 = c2
    c3 = c3
    Requests = {r1, r2}
    Accounts = {a1, a2}
    Devices = {d1}
    None = None
    MaxSessions = 3
    MaxExpiries = 1
    Tabs = {t1, t2}
    Calls = {c1, c2, c3}
    TabOf <- Owners
SYMMETRY Symmetry
CHECK_DEADLOCK FALSE
INVARIANTS
    LiveSessionRemains
    OneLiveUnlessOverlap
    RedeemedOnce
    TokenMatchesUser
    CookieSurvives
    NoCallStranded
