SPECIFICATION SafeSpec
CONSTANTS
    NAMES = {"a", "b"}
    DEPTH = 2
    INODES = 3
    NODES = 3
    HANDLES = 1
    SOCKETS = {1}
    PEERS = 1
    TOKENS = 1
    ADDRESSES = {1, 2}
    ISSUES = 2
    TIME = 2
    INPUT_BOUND = 2
    TYPED = 4
    SENT = 2
    PORTS = 2
    HELD = 1
    BYTES = 2
    BUFFERS = 1
    BUSY = {1}
    CLONES = {"c1","c2"}
    ROUNDS = 1
    TIMES = {1, 6}
    TARGETS = {0, 4}
    STEP_PAST = 1
    COUNT = 2
    VALUES = {1, 2}
    ORDERS = 3
    SOURCES = 1
    FIRST = 4
    IRQFDS = 2
    WORDS = {0, 1}
    MEMORIES = {65536, 131072, 201326592, 201326848}
    IMAGES = {64, 65536}
    OFFSETS = {0, 131072}
    INITRDS = {0, 1, 65536}
    LIMITS = {0, 131072}
    CMDLINES = {8192}
    VCPUS = {1, 37, 38, 123, 124}
    COUNTS = {0, 8, 9}
    DISKS = 8
    SHARES = 8
    TABLES = {64, 4096, 16384}
    LISTS <- DeviceLists
    CPUS = 2
    DRIFTS <- ClockDrifts
    INDICES <- MsrIndices
    MSR_BATCH = 2
    TSC = 1
    DEADLINE = 3
    TYPES = {0, 11}
    ELAPSED <- ClockDrifts
    CHIP_SOURCES = {31, 32}
    HARTS = 2
    REGIONS <- RamRegions
    CHUNK = 2
    HOST_PAGE = 1
    CHANGES = 3
    KEYS <- Keystrokes
    ROOM = 1
    SIGNALS = 1
CHECK_DEADLOCK FALSE
INVARIANTS
     ServiceSound   VcpuSound RoutesSound  RestoreSound
    StateSurvives ImageIsRam ProgramSound
