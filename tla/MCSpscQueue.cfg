\* Four slots, counters of three bits.
CONSTANTS
    a = a
    b = b
    Zero = Zero
    Capacity = 4
    W = 8
    Values <- MCValues
SPECIFICATION FairSpec
INVARIANTS IndInv NeverOverfull NoSlotRace
PROPERTIES ImplementsFifo EveryEntryPopped
