SPECIFICATION HostSpec
CONSTANTS
    LINES <- CommandLines
    ROOTS = {75, 76, 77}
    SCRIPTS <- Orders
    MOMENTS = 2
    ARCHES = {"x86_64", "aarch64", "riscv64"}
    DIALERS = {1, 2, 3}
    SPEECH <- Speeches
    LISTENED <- ListenedPorts
    ARRIVALS = 2
    LINE = 3
    OUTPUT_BOUND = 3
    TAP_WRITES = 2
    TAPS = {1, 2}
    WRITES = {1, 2, 4}
    OUTPUT = 5
    PAYLOADS <- PayloadLengths
    FOREIGN = {5}
    HEADER = 2
    MAX_PAYLOAD = 2
    TOP = 10
    PLACEMENTS <- DevicePlacements
    STORES = {"reset", "off", "bits"}
    a = a
    b = b
    Nobody = Nobody
    WATCHED = 2
    Pages = 2
    Clones = {a, b}
CHECK_DEADLOCK FALSE
SYMMETRY Symmetry
INVARIANTS  SlotsExclusive QuietFaultIsTold ProcessSurvives
