CONSTANTS
    s1 = s1
    a = a
    b = b
    Script = {s1}
    Product = {a, b}
    Initial <- OneListed
    MaxFiles = 4
    MaxFaults = 0
SPECIFICATION Spec
INVARIANTS
    AddedIsListed
