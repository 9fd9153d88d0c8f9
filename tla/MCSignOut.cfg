SPECIFICATION Spec
CONSTANTS
    u1 = u1
    d1 = d1
    r1 = r1
    r2 = r2
    h1 = h1
    Users = {u1}
    Devices = {d1}
    Rows = {r1, r2}
    Handlers = {h1}
    Sweepers = {u1}
    None = None
SYMMETRY Symmetry
INVARIANTS
    SignOutAllSweeps
    OnlyStragglersOutliveTheirDevice
CHECK_DEADLOCK FALSE
