\* The comment at recovery_server.cpp:131.
CONSTANTS
    c1 = c1
    c2 = c2
    Nobody = Nobody
    Clients <- MCOne
    Requesters <- MCOne
    H = 2
    KBatch = 2
    FirstSeq = 1
    MaxSeq = 4
SPECIFICATION Spec
INVARIANTS ConnectionKeptOpen
CHECK_DEADLOCK FALSE
