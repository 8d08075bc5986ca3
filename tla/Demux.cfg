CONSTANTS
    r1 = r1
    C = 2
    Requests = {r1}
SPECIFICATION FairSpec
CHECK_DEADLOCK FALSE
INVARIANTS RequestsAccounted
PROPERTIES CallersReturn
