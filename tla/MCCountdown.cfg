SPECIFICATION Spec
CONSTANTS
    Emails = {"ann"}
    Calls = {1}
    Ttl = 1
    None = None
PROPERTIES
    CountdownRestarts
CHECK_DEADLOCK FALSE
