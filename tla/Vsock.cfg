CONSTANTS
    c1 = c1
    Conns = {c1}
    WINDOW = 1
    GuestWindow = 1
    Wrap = 2
    WAITING = 1
    CONNECTIONS = 1
    TxMax = 1
SPECIFICATION Spec
INVARIANTS CreditSound StreamIntact 
