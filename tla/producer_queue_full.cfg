CONSTANTS
    s1 = s1
    s2 = s2
    s3 = s3
    Sender = {s1}
    Count <- OneBatch
    QueueCap = 3
    MaxFaults = 0
SPECIFICATION FairSpec
CHECK_DEADLOCK FALSE
PROPERTIES
    EveryCallReturns
