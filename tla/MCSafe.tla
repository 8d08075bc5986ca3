------------------------------ MODULE MCSafe ------------------------------
(***************************************************************************)
(* The components whose properties are all safety, checked side by side:   *)
(* they share no state, and a behaviour is one of the component it starts  *)
(* with.                                                                   *)
(***************************************************************************)
EXTENDS Vcpu, Routing, Dirty, Program, Identity, Integers, Sequences, FiniteSets

CONSTANTS
    NAMES, DEPTH, INODES, NODES, HANDLES,                                      \* Fs
    SOCKETS, PEERS, TOKENS, ADDRESSES, ISSUES, TIME,                           \* Metadata
    INPUT_BOUND, TYPED, SENT,                                                  \* Serial
    PORTS, HELD, BYTES, BUSY, BUFFERS,                                         \* Console
    MEMORIES, IMAGES, OFFSETS, INITRDS, LIMITS, CMDLINES, VCPUS, COUNTS, DISKS, SHARES, TABLES, \* Boot
    LISTS, CPUS, DRIFTS,                                                       \* Restore
    INDICES, MSR_BATCH, TSC, DEADLINE, TYPES,                                  \* Registers
    ELAPSED,                                                                   \* OneReg
    CHIP_SOURCES, HARTS                                                        \* Controllers

\* Instances: two regions of RAM; what is typed, with the escape character among it; MSRs as
\* KVM lists them; devices by type; and the host clock between capture and restore.
RamRegions == <<1, 3>>
Keystrokes == {<<>>, <<1, 2, 29, 3>>}
MsrIndices == <<3, 1, 2>>
DeviceLists == {<<1>>, <<1, 1>>, <<1, 2>>, <<1, 1, 2>>, <<1, 2, 3>>}
ClockDrifts == {-2, 3}

VARIABLES
    active,
    tree, kind, full, nodes, numbers, next, open, handle, writable, told, moved,
    sock, issued, peers, nearby, replies, inner, elapsed, given, last,
    ier, latched, divisor, asking, input, out, pulse, uartAt, typedIn, got, transmitted,
    reach, host, toHost, toGuest, announced, pending, ready, rx, control, heard, said, typed,
    read, written, room, dropped,
    want, pc, conn, held, child, kept, pipe, set, ran, outcome,
    config, step, laid, windows, ports, lines, described, entered,
    snap, part, index, irqchip, cpu, slots, raised, genid, vmClock, refused,
    old, new, doing, left, blob, armedTsc, regsOutcome,
    isa, regStage, regs, timerAt, refuses, saved, togo, regError,
    wiring, harts, chipStage, hw, chipState, writes, delivered

F == INSTANCE Fs
M == INSTANCE Metadata
U == INSTANCE Serial
C == INSTANCE Console
S == INSTANCE Spawn
B == INSTANCE Boot
T == INSTANCE Restore
G == INSTANCE Registers
O == INSTANCE OneReg
L == INSTANCE Controllers

fsVars == <<tree, kind, full, nodes, numbers, next, open, handle, writable, told, moved>>
metadataVars == <<sock, issued, peers, nearby, replies, inner, elapsed, given, last>>
serialVars == <<ier, latched, divisor, asking, input, out, pulse, uartAt, typedIn, got,
        transmitted>>
consoleVars == <<reach, host, toHost, toGuest, announced, pending, ready, rx, control, heard,
        said, typed, read, written, room, dropped>>
spawnVars == <<want, pc, conn, held, child, kept, pipe, set, ran, outcome>>
bootVars == <<config, step, laid, windows, ports, lines, described, entered>>
restoreVars == <<snap, part, index, irqchip, cpu, slots, raised, genid, vmClock, refused>>
registersVars == <<old, new, doing, left, blob, armedTsc, regsOutcome>>
oneregVars == <<isa, regStage, regs, timerAt, refuses, saved, togo, regError>>
controllersVars == <<wiring, harts, chipStage, hw, chipState, writes, delivered>>
safeVars == <<active, fsVars, metadataVars, serialVars, consoleVars, spawnVars, identityVars,
    vcpuVars, routingVars, bootVars, restoreVars, registersVars, oneregVars, controllersVars,
    dirtyVars, programVars>>

Components ==
    {"fs", "metadata", "serial", "console", "spawn", "identity", "vcpu", "routing", "boot",
     "restore", "registers", "onereg", "controllers", "dirty", "program"}

SafeInit ==
    /\ active \in Components
    /\ F!Init /\ M!Init /\ U!Init /\ C!Init /\ S!Init /\ IdentityInit /\ VcpuInit /\ RoutingInit
    /\ B!Init /\ T!Init /\ G!Init /\ O!Init /\ L!Init /\ DirtyInit /\ ProgramInit
    \* a component that does not act sits in one of its initial states
    /\ active # "fs" => writable
    /\ active # "console" => \A p \in DOMAIN reach : reach[p] = "listen"
    /\ active # "spawn" => \A option \in DOMAIN want : want[option]
    /\ active # "identity" => \A c, d \in CLONES : guestClock[c] < target[d]

Only(name) ==
    /\ active = name /\ UNCHANGED active
    /\ IF name = "fs" THEN TRUE ELSE UNCHANGED fsVars
    /\ IF name = "metadata" THEN TRUE ELSE UNCHANGED metadataVars
    /\ IF name = "serial" THEN TRUE ELSE UNCHANGED serialVars
    /\ IF name = "console" THEN TRUE ELSE UNCHANGED consoleVars
    /\ IF name = "spawn" THEN TRUE ELSE UNCHANGED spawnVars
    /\ IF name = "identity" THEN TRUE ELSE UNCHANGED identityVars
    /\ IF name = "vcpu" THEN TRUE ELSE UNCHANGED vcpuVars
    /\ IF name = "routing" THEN TRUE ELSE UNCHANGED routingVars
    /\ IF name = "boot" THEN TRUE ELSE UNCHANGED bootVars
    /\ IF name = "restore" THEN TRUE ELSE UNCHANGED restoreVars
    /\ IF name = "registers" THEN TRUE ELSE UNCHANGED registersVars
    /\ IF name = "onereg" THEN TRUE ELSE UNCHANGED oneregVars
    /\ IF name = "controllers" THEN TRUE ELSE UNCHANGED controllersVars
    /\ IF name = "dirty" THEN TRUE ELSE UNCHANGED dirtyVars
    /\ IF name = "program" THEN TRUE ELSE UNCHANGED programVars

SafeNext ==
    \/ Only("fs") /\ F!Next
    \/ Only("metadata") /\ M!Next
    \/ Only("serial") /\ U!Next
    \/ Only("console") /\ C!Next
    \/ Only("spawn") /\ S!Next
    \/ Only("identity") /\ IdentityNext
    \/ Only("vcpu") /\ VcpuNext
    \/ Only("routing") /\ RoutingNext
    \/ Only("boot") /\ B!Next
    \/ Only("restore") /\ T!Next
    \/ Only("registers") /\ G!Next
    \/ Only("onereg") /\ O!Next
    \/ Only("controllers") /\ L!Next
    \/ Only("dirty") /\ DirtyNext
    \/ Only("program") /\ ProgramNext

SafeSpec == SafeInit /\ [][SafeNext]_safeVars

-----------------------------------------------------------------------------
Of(name, property) == active = name => property

\* Fs: node numbers, paths and handles of the share agree, a listing is of one moment, and a
\* read-only share is never written.
ShareSound == Of("fs", F!ShareSound)

\* Metadata: the document is only given for a token in its lifetime, each request is answered
\* once, and no table of the service outgrows its bound.
ServiceSound == Of("metadata", M!ServiceSound)

\* Serial and Console: bytes arrive in order and once, the guest is asked to look at what
\* waits, and ports are announced, opened and spoken to in an order the guest can follow.
ConsolesSound == Of("serial", U!SerialSound) /\ Of("console", C!PortsSound)

\* Spawn and Identity: a command that fails to start leaves nothing behind and its report is
\* true, and two clones of a template take different identities or the host is told.
AgentSound == Of("spawn", S!StartSound) /\ Of("identity", ClonesSound)

\* Boot: what is laid, placed and described of a machine that assembles does not overlap and
\* agrees, on each architecture.
BootSound == Of("boot", B!BootSound)

\* Restore: a machine restored has the state captured, with a new identity, or is refused.
RestoreSound == Of("restore", T!RestoreSound)

\* Registers, OneReg and Controllers: the registers of a vCPU and of the interrupt controller
\* survive a snapshot on each architecture, in an order KVM can take.
StateSurvives ==
    Of("registers", G!RegistersSound) /\ Of("onereg", O!OneRegSound) /\ Of("controllers", L!ControllersSound)
=============================================================================
