SPECIFICATION FairSpec
CONSTANTS
    N = 1
    Handles = {}
PROPERTY
    WaitSeesFinish
CHECK_DEADLOCK FALSE
