CONSTANTS
    s1 = s1
    r1 = r1
    r2 = r2
    q1 = q1
    phone = phone
    smartphone = smartphone
    watch = watch
    case = case
    Process = {s1, r1, r2}
    Command <- Commands
    Partition = {q1}
    Term = {phone, smartphone, watch, case}
    Searched = {smartphone, watch}
    Contains <- Inside
    Lists <- NoneOneFour
    MaxFaults = 3
    NoOne = NoOne
SPECIFICATION FairSpec
CHECK_DEADLOCK FALSE
INVARIANTS
    TypeOK
    OneCommits
    AnswersFit
PROPERTIES
    SearchIsAnswered
    LedgerRefined
