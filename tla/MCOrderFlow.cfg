\* Two prices a side, pools of two orders, and a message lost before one that arrives.
CONSTANTS
    MinPrice = 8
    MaxPrice = 12
    Mid = 10
    Depth = 2
    Lots = {10, 20}
    VenueOrders = 2
    EngineOrders = 2
    MaxMessages = 5
    MaxLag = 2
SPECIFICATION Spec
INVARIANTS LiveMatchesBook BooksAgree LossIsIsolated
PROPERTY RejectionsExplained
CHECK_DEADLOCK FALSE
