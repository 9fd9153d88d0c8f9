SPECIFICATION FairSpec
CONSTANTS
    t1 = t1
    t2 = t2
    u1 = u1
    p1 = p1
    x1 = x1
    a1 = a1
    Tokens = {t1, t2}
    Users = {u1}
    Polls = {p1}
    Exchanges = {x1}
    Apps = {a1}
    None = None
PROPERTIES
    WaitingEnds
CHECK_DEADLOCK FALSE
