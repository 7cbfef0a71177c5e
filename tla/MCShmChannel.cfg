\* Three runs, so that a run follows one that follows a killed one.
CONSTANTS
    MaxRuns = 3
    MaxEvents = 2
SPECIFICATION FairSpec
INVARIANTS AttachesToOwnRun AttachedIsConstructed ReachableWhileOpen
PROPERTY EngineEndsAfterRun
CHECK_DEADLOCK FALSE
