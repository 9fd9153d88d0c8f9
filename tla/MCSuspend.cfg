SPECIFICATION Spec
CONSTANTS
    u1 = u1
    r1 = r1
    r2 = r2
    r3 = r3
    h1 = h1
    h2 = h2
    Users = {u1}
    Devices = {}
    Rows = {r1, r2, r3}
    Handlers = {h1, h2}
    Sweepers = {}
    None = None
SYMMETRY Symmetry
INVARIANTS
    SuspendLocksOut
CHECK_DEADLOCK FALSE
