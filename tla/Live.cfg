SPECIFICATION LiveSpec
CONSTANTS
    EVENTS = 3
    BODIES = {0, 1}
    SOCKET = 1
    HANDLES = {1, 2}
    CONNECTIONS = 1
    BYTES = 2
    BUFFER = 1
    PORTS = {1, 2}
    PACKETS = 1
    STREAMS = 3
CHECK_DEADLOCK FALSE
INVARIANTS FramesIntact ConnectionsSound TeardownSound ExitSound 
PROPERTIES RoundsMove StackWakes  SignalEnds
