SPECIFICATION Spec
CONSTANTS
    u1 = u1
    q1 = q1
    q2 = q2
    c1 = c1
    c2 = c2
    h1 = h1
    h2 = h2
    Users = {u1}
    Requests = {q1, q2}
    Codes = {c1, c2}
    Handlers = {h1, h2}
    None = None
PROPERTIES
    SmsNeverDowngrades
CHECK_DEADLOCK FALSE
