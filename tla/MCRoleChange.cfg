SPECIFICATION Spec
CONSTANTS
    a = a
    b = b
    q1 = q1
    q2 = q2
    h1 = h1
    h2 = h2
    Users = {a, b}
    Requests = {q1, q2}
    Handlers = {h1, h2}
    None = None
SYMMETRY Symmetry
INVARIANTS
    TwoFoundersBehindEachGrant
    UncontestedOutcome
    AuditShowsTheRoleReplaced
CHECK_DEADLOCK FALSE
