CONSTANTS
    s1 = s1
    s2 = s2
    s3 = s3
    Sender = {s1, s2}
    Count <- OneMessageEach
    QueueCap = 4
    MaxFaults = 1
SPECIFICATION Spec
CHECK_DEADLOCK FALSE
INVARIANTS
    SuccessIsOwn
