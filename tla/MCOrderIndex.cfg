\* Three live orders at most: a table of round_up_pow2(6) slots.
CONSTANTS
    Ids = {1, 2, 3, 4}
    Size = 8
    MaxOrders = 3
SPECIFICATION Spec
INVARIANT FindsExactlyTheHeld
