\* A window of five and requests of at most two messages: a gap of up to four is
\* asked for in two chunks, full or not, and either may fail or come short.
CONSTANTS
    N = 5
    KBatch = 2
    FirstSeq = 1
    MaxSeq = 12
    MaxAccepts = 5
SPECIFICATION Spec
INVARIANTS SeqInv SlotsHoldTheirWindow NoSilentLoss Conservation
PROPERTIES InOrderOnce GapSettled
