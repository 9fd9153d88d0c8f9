SPECIFICATION PartSpec
CONSTANTS
    k1 = k1
    low = low
    draft = draft
    risky = risky
    g = g
    h1 = h1
    h2 = h2
    p1 = p1
    p2 = p2
    o1 = o1
    o2 = o2
    Keys = {k1}
    Actions = {low, draft, risky}
    LowRisk = {low, draft}
    ForAgents = {draft, risky}
    Agents = {g}
    Handlers = {h1, h2}
    Pair = {p1, p2}
    Other = {o1, o2}
    Few = {one}
    More = {two, three}
    Lone = {two}
    Reviewers = {three}
    Offered = {"OWNER"}
    MaxDevices = 2
    MaxRevoked = 4
    Changes = 6
    Copies = {one, two}
    Main = one
    None = None
SYMMETRY Symmetry
INVARIANTS
    TypesOK
    
    WorkIsDoneOnceAndLogged
    UsedOnce
    SomeWayIn
    TokensWereConsented
    AccessFollowsGrant
    MembersWereInvited
    OutcomesAreTold
    ProfileCatchesUp
    ScoreIsCurrentConfidence
    BrowserKeepsInStep
PROPERTIES
    
    TicketsAreImplemented
    LevelsAreEarnedAndKept
CHECK_DEADLOCK FALSE
