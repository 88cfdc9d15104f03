CONSTANTS
    c1 = c1
    c2 = c2
    c3 = c3
    p = p
    Call = {c1, c2, c3}
    ProductOf <- OneProduct
    Request = {c1, c2, c3}
    LastSecond = 2
    MaxFaults = 2
    NoFile = NoFile
    Partial = Partial
SPECIFICATION Spec
CHECK_DEADLOCK FALSE
SYMMETRY CallSymmetry
INVARIANTS
    TypeOK
    AckedIsWhole
    NativeKeeps
PROPERTIES
    FinalStays
