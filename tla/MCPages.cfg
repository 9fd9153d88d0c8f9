SPECIFICATION PartSpec
CONSTANTS
    d1 = d1
    f1 = f1
    f2 = f2
    g1 = g1
    c1 = c1
    c2 = c2
    Drafts = {d1}
    Own = {f1, f2}
    Foreign = {g1}
    Calls = {c1, c2}
    None = None
    Tabs = {"INBOX", "TRASH"}
    Most = 2
    Ttl = 2
    Days = {1, 2}
    Hours = {0, 2, 3, 23}
    Zones <- WorldZones
SYMMETRY Symmetry
INVARIANTS
    TypesOK
    DialogsAreTheirOwn
    WhatIsWrittenStays
    PagesTellTheTruth
    ButtonsDoWhatTheySay
    
CHECK_DEADLOCK FALSE
