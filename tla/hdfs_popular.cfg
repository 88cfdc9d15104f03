CONSTANTS
    c1 = c1
    c2 = c2
    c3 = c3
    p = p
    Call = {c1}
    ProductOf <- OneProduct
    Request = {c1}
    LastSecond = 1
    MaxFaults = 0
    NoFile = NoFile
    Partial = Partial
SPECIFICATION Spec
CHECK_DEADLOCK FALSE
PROPERTIES
    JobReachesService
