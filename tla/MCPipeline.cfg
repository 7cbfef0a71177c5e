\* Packets of two, a window of four, a history of two messages, --expect 4,
\* under the fairness of the two polling loops.
CONSTANTS
    N = 4
    KBatch = 1
    FirstSeq = 1
    MaxSeq = 5
    MaxAccepts = 6
    H = 2
    Batch = 2
    Capacity = 1
    Expect = 4
    MaxIdle = 2
    MaxPackets = 3
SPECIFICATION PipelineFairSpec
INVARIANTS DrainedClean LostOnlyIfAgedOut EngineDrainsAll CountsAgree
PROPERTIES ImplementsFeed HandlerEnds EngineFinishes
CHECK_DEADLOCK FALSE
