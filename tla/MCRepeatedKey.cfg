SPECIFICATION Spec
CONSTANTS
    k1 = k1
    low = low
    draft = draft
    risky = risky
    g = g
    h1 = h1
    h2 = h2
    Keys = {k1}
    Actions = {low, draft, risky}
    LowRisk = {low, draft}
    ForAgents = {draft, risky}
    Agents = {g}
    Handlers = {h1, h2}
    None = None
INVARIANTS
    RepeatedKeyRunsNothing
CHECK_DEADLOCK FALSE
