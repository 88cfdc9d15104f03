CONSTANTS
    c1 = c1
    c2 = c2
    p1 = p1
    p2 = p2
    NoOwner = NoOwner
    Consumer = {c1, c2}
    Partition = {p1}
    LogEnd = 3
    BatchSize = 2
    Undecodable <- OnePoison
    UseProcessor = FALSE
    MaxFaults = 3
SPECIFICATION Spec
CHECK_DEADLOCK FALSE
SYMMETRY ConsumerSymmetry
INVARIANTS
    TypeOK
    NoLoss
    InFlight
    NoHoles
    StageSound
    RepeatsOnlyAfterFault
PROPERTIES
    FallsBackOnlyAfterFault
    LedgerRefined
