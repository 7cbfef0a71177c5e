\* Three orders for a pool of two on two price levels a side: orders shrink in
\* place and move to another level, and an Add meets a full pool.
CONSTANTS
    Ids = {1, 2, 3}
    Size = 8
    MinPrice = 10
    MaxPrice = 11
    MaxOrders = 2
    MaxQuantity = 2
    Hashes <- MCSpread
SPECIFICATION Spec
INVARIANT LevelsConsistent
PROPERTY ImplementsBook
