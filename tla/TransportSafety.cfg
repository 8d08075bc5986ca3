CONSTANTS
    IDX = 4
    MaxSize = 2
    Starts = {2}
    Sizes = {0, 3}
    Requests = 3
    Restores = 1
    small = small
    large = large
    Lengths = {small, large}
SPECIFICATION Spec
SYMMETRY Symmetry
CHECK_DEADLOCK FALSE
INVARIANTS RingSound ConfigNotTorn
