CONSTANTS
    c1 = c1
    c2 = c2
    p1 = p1
    p2 = p2
    NoOwner = NoOwner
    Consumer = {c1, c2}
    Partition = {p1, p2}
    LogEnd = 2
    BatchSize = 2
    Undecodable <- OnePoison
    UseProcessor = FALSE
    MaxFaults = 1
SPECIFICATION FairSpec
CHECK_DEADLOCK FALSE
PROPERTIES
    EverythingHandled
