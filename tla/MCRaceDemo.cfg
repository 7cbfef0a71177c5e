\* Two producers of two items; a shared ring of two, and queues of one, so that
\* each of them fills.
CONSTANTS
    N = 2
    Per = 2
    Capacity = 2
    OwnCapacity = 1
    W = 8
SPECIFICATION FairSpec
INVARIANTS VerdictSound FixedAccounts
PROPERTY Ends
CHECK_DEADLOCK FALSE
