SPECIFICATION FairSpec
CONSTANTS
    N = 1
    Handles = {h1}
INVARIANTS HeldStill ShutdownIsFinal
PROPERTIES OrdersArrive
