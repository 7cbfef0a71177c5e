\* The comment at sequence_manager.cpp:40-41, with a window of three.
CONSTANTS
    N = 3
    KBatch = 2
    FirstSeq = 1
    MaxSeq = 6
    MaxAccepts = 6
    H = 6
    Batch = 2
    Capacity = 1
    Expect = 0
    MaxIdle = 1
    MaxPackets = 3
SPECIFICATION PipelineSpec
PROPERTY NothingUsefulLeft
CHECK_DEADLOCK FALSE
