\* One client that makes requests and one that holds a connection, a ring of two messages,
\* under the fairness of the threads.
CONSTANTS
    c1 = c1
    c2 = c2
    Nobody = Nobody
    Clients <- MCTwo
    Requesters <- MCOne
    H = 2
    KBatch = 2
    FirstSeq = 1
    MaxSeq = 3
SPECIFICATION FairSpec
INVARIANTS WindowIntact AnswersMatch ShortMeansAgedOut
PROPERTIES StopReturns RequestReturns
CHECK_DEADLOCK FALSE
