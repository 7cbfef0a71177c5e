\* Four ids compete for three slots of the pool on three price levels a side.
CONSTANTS
    Ids = {1, 2, 3, 4}
    Size = 8
    MinPrice = 10
    MaxPrice = 12
    MaxOrders = 3
    MaxQuantity = 1
    Hashes <- MCColliding
SPECIFICATION Spec
INVARIANTS BestLevelsCorrect PoolPartitioned IndexMatchesPool
