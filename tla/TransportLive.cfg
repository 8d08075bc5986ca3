CONSTANTS
    IDX = 4
    MaxSize = 2
    Starts = {3}
    Sizes = {0, 3}
    Requests = 2
    Restores = 1
    Lengths = {7}
SPECIFICATION FairSpec
PROPERTY RequestAnswered
CHECK_DEADLOCK FALSE
