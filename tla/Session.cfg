CONSTANTS
    plain = plain
    pty = pty
    Cmds = {plain, pty}
    Ptys = {pty}
    Timed = {plain}
    PUMP_CAP = 1
    SockCap = 1
    MaxOut = 2
SPECIFICATION FairSpec
CHECK_DEADLOCK FALSE
INVARIANTS CommandsSound
PROPERTIES CommandsEnd
