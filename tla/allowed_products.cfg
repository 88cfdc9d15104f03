CONSTANTS
    s1 = s1
    s2 = s2
    a = a
    b = b
    Script = {s1, s2}
    Product = {a, b}
    Initial <- OneListed
    MaxFiles = 3
    MaxFaults = 1
    Log <- Topic
    MaxBatch = 2
    MaxLines = 4
    MaxSessions = 2
    MaxFailures = 1
SPECIFICATION SinkSpec
SYMMETRY Terminals
CONSTRAINT Small
CHECK_DEADLOCK FALSE
INVARIANTS
    TypeOK
    ReportsAreTrue
    RestartApplies
    NothingForgotten
    OncePerSession
PROPERTIES
    LostForGood
    OnlyListed
