CONSTANTS
    c1 = c1
    c2 = c2
    p1 = p1
    p2 = p2
    NoOwner = NoOwner
    Consumer = {c1, c2}
    Partition = {p1, p2}
    LogEnd = 2
    BatchSize = 2
    Undecodable <- NonePoison
    UseProcessor = TRUE
    MaxFaults = 1
SPECIFICATION Spec
CHECK_DEADLOCK FALSE
SYMMETRY GroupSymmetry
INVARIANTS
    NoLoss
    NoSilentDrop
    RepeatsOnlyAfterFault
