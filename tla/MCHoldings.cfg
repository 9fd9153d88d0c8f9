SPECIFICATION PartSpec
CONSTANTS
    a = a
    b = b
    q1 = q1
    s1 = s1
    s2 = s2
    g1 = g1
    g2 = g2
    g3 = g3
    h1 = h1
    h2 = h2
    Users = {a, b}
    Requests = {q1}
    Slots = {s1, s2}
    Signatures = {g1, g2, g3}
    Handlers = {h1, h2}
    None = None
    Sizes = {1, 2}
    Quota = 3
    Members = {one}
    Txs = {one}
    Cap = 1
    Amounts = {1, 2}
    DailyCap = 3
    Least = 1
    Reserve = 1
    Rates = {1, 2}
    Events = {1, 2, 3}
    Take = 2
    LastTime = 2
    Alerts = {one, two}
    Mailed = {one}
SYMMETRY Symmetry
INVARIANTS
    TypesOK
    SignedIsBacked
    SlotsAreSignedOnce
    ContentStays
    OneActiveUnlessCrossed
    RowsMirrorReports
    
    EventsAreAccountedFor
PROPERTIES
    SigningIsFinal
CHECK_DEADLOCK FALSE
