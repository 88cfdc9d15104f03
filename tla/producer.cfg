CONSTANTS
    s1 = s1
    s2 = s2
    s3 = s3
    Sender = {s1, s2, s3}
    Count <- TwoAndOne
    QueueCap = 3
    MaxFaults = 1
SPECIFICATION FairSpec
CHECK_DEADLOCK FALSE
INVARIANTS
    TypeOK
    CountedWereAcked
    SuccessTogether
    NoReportLeaks
PROPERTIES
    OnlyFullQueueHolds
