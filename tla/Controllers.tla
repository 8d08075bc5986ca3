---------------------------- MODULE Controllers ----------------------------
(* The in-kernel interrupt controller of each architecture over a snapshot:  *)
(* the PICs, I/O APIC and PIT of x86_64 (x86_64/irqchip.rs), the GICv3 of    *)
(* aarch64 (aarch64/gic.rs, gicstate.rs, vm.rs) and the AIA of riscv64       *)
(* (riscv64/aia.rs, vm.rs).  One interrupt is followed through the words its *)
(* registers sit in.  The guest, and what KVM does with a register, are      *)
(* external.                                                                 *)
EXTENDS Integers, Sequences, SequencesExt, FiniteSets

CONSTANTS
    CHIP_SOURCES, \* wired sources a controller is made for
    HARTS

VARIABLES
    wiring,       \* arch, sources, vcpus, and the interrupt followed: line, hart
    harts,        \* vCPUs adopted, and those of them left stopped
    chipStage,
    hw,           \* the registers of the interrupt, and the files it is pending in
    chipState,    \* the blob
    writes,       \* writes restore has still to do
    delivered     \* deliveries of the interrupt since the restore

chipVars == <<wiring, harts, chipStage, hw, chipState, writes, delivered>>

PRIVATE_IDS == 32
ID_STEP == 32
PINS == 24
LINE_MASKED == 2
Absent == -1

DivCeil(a, b) == (a + b - 1) \div b
AtLeast(a, b) == IF a > b THEN a ELSE b

-----------------------------------------------------------------------------
\* gic.rs ids: interrupt ids for the shared sources, in the steps KVM takes.
Ids(sources) == AtLeast(DivCeil(PRIVATE_IDS + sources, ID_STEP), 2) * ID_STEP

\* Registers of the GIC that hold a field per interrupt, with the ids one word covers.
PerWord ==
    [group |-> 32, enabled |-> 32, pending |-> 32, active |-> 32, priority |-> 4, cfg |-> 16]
GicKinds == <<"group", "enabled", "pending", "active", "priority", "cfg">>

DistOffsets(kind, ids) ==
    LET first == PRIVATE_IDS \div PerWord[kind]
    IN  {first + word : word \in 0 .. DivCeil(ids - PRIVATE_IDS, PerWord[kind]) - 1}

RedistOffsets(kind) == 0 .. (PRIVATE_IDS \div PerWord[kind]) - 1

GicHolds(kind) ==
    LET word == wiring.line \div PerWord[kind]
    IN  IF wiring.line < PRIVATE_IDS THEN word \in RedistOffsets(kind)
        ELSE word \in DistOffsets(kind, Ids(wiring.sources))

\* aia.rs words: 32-bit words of a source bitmap, source 0 included.
Words(sources) == DivCeil(sources + 1, 32)

AiaHolds(kind) ==
    CASE kind \in {"enabled", "pending"} -> wiring.line \div 32 \in 0 .. Words(wiring.sources) - 1
      [] kind \in {"sourcecfg", "target"} -> wiring.line - 1 \in 0 .. wiring.sources - 1
      [] OTHER -> TRUE
-----------------------------------------------------------------------------

\* Registers captured, in the order the capture reads them.
GicReads == <<"on">> \o (IF wiring.line < PRIVATE_IDS THEN GicKinds \o <<"cpu">> ELSE <<"cpu">> \o GicKinds)
AiaReads == <<"on", "sourcecfg", "target", "enabled", "pending", "files">>
IrqChipReads == <<"master", "slave", "ioapic", "pit">>

Reads ==
    CASE wiring.arch = "x86_64" -> IrqChipReads
      [] wiring.arch = "aarch64" -> GicReads
      [] wiring.arch = "riscv64" -> AiaReads

Holds(kind) ==
    CASE wiring.arch = "x86_64" -> TRUE
      [] wiring.arch = "aarch64" -> kind \in {"on", "cpu"} \/ GicHolds(kind)
      [] wiring.arch = "riscv64" -> AiaHolds(kind)

\* Writes of a restore in order.  GICD_CTLR is captured first and goes in last.
GicWrites == SelectSeq(GicReads, LAMBDA kind : kind # "on") \o <<"on">>

\* The domain is off while its sources go in, and the bitmaps are cleared before bits are set.
AiaWrites == <<"off", "sourcecfg", "target", "clear", "enabled", "pending", "files", "on">>

IrqChipWrites == <<"pit", "master", "slave", "ioapic">>

Writes ==
    CASE wiring.arch = "x86_64" -> IrqChipWrites
      [] wiring.arch = "aarch64" -> GicWrites
      [] wiring.arch = "riscv64" -> AiaWrites

\* What a register holds that the blob does not name: the I/O APIC table starts masked, a
\* bitmap starts clear, any other register is as KVM made it.
Unnamed(kind) == IF kind = "ioapic" THEN LINE_MASKED ELSE 0
-----------------------------------------------------------------------------

Fresh ==
    [regs |-> [kind \in ToSet(Reads) \ {"files"} |-> IF kind = "ioapic" THEN LINE_MASKED ELSE 0], files |-> {}]

Init ==
    /\ wiring = << >> /\ harts = [made |-> 0, stopped |-> {}]
    /\ chipStage = "new" /\ hw = << >> /\ chipState = << >> /\ writes = <<>> /\ delivered = 0

New ==
    /\ chipStage = "new" /\ chipStage' = "vcpus"
    /\ \E arch \in {"x86_64", "aarch64", "riscv64"}, sources \in CHIP_SOURCES, vcpus \in 1 .. HARTS :
        \E line \in CASE arch = "x86_64" -> {0, PINS - 1}
                      [] arch = "aarch64" -> {0, 31, 32, 31 + sources, Ids(sources) - 1}
                      [] arch = "riscv64" -> {1, sources} :
            wiring' = [arch |-> arch, sources |-> sources, vcpus |-> vcpus, line |-> line]
    /\ UNCHANGED <<harts, hw, chipState, writes, delivered>>

\* Platform::adopt of aarch64 and riscv64: every vCPU but the first waits for the guest to
\* start it.  vCPUs are adopted in order, before the controller is made.
Adopt ==
    /\ chipStage \in {"vcpus", "again"} /\ wiring.arch # "x86_64" /\ harts.made < wiring.vcpus
    /\ harts' = [made |-> harts.made + 1,
                 stopped |-> IF harts.made = 0 THEN harts.stopped ELSE harts.stopped \cup {harts.made}]
    /\ UNCHANGED <<wiring, chipStage, hw, chipState, writes, delivered>>

\* create_gic, create_aia: a controller for the vCPUs counted.  x86 makes it before them.
CreateChip ==
    /\ chipStage \in {"vcpus", "again"} /\ (wiring.arch = "x86_64" \/ harts.made = wiring.vcpus)
    /\ hw' = Fresh
    /\ chipStage' = IF chipStage = "vcpus" THEN "up" ELSE "made"
    /\ UNCHANGED <<wiring, harts, chipState, writes, delivered>>

\* The guest has set the controller up and the interrupt may be on its way.  A source that
\* is inactive is not pending.  Registers of one interrupt that do not act on each other are
\* alike.
GuestRuns ==
    /\ chipStage = "up" /\ chipStage' = "ran"
    /\ \E regs \in [DOMAIN hw.regs -> 0 .. 1], files \in SUBSET (0 .. harts.made - 1) :
        /\ wiring.arch = "riscv64" => regs.target < harts.made /\ regs.pending <= regs.sourcecfg
        /\ wiring.arch # "riscv64" =>
            files = {} /\ \A a, b \in DOMAIN regs \ {"on"} : regs[a] = regs[b]
        /\ hw' = [regs |-> regs, files |-> files]
    /\ UNCHANGED <<wiring, harts, chipState, writes, delivered>>

\* KVM delivers a pending, enabled source of a domain that is on: the AIA forwards it to the
\* file of the hart it targets.
Deliver ==
    /\ chipStage \in {"restoring", "ok"} /\ wiring.arch = "riscv64"
    /\ hw.regs.on = 1 /\ hw.regs.enabled = 1 /\ hw.regs.pending = 1
    /\ hw' = [regs |-> [hw.regs EXCEPT !.pending = 0], files |-> hw.files \cup {hw.regs.target}]
    /\ delivered' = delivered + 1
    /\ UNCHANGED <<wiring, harts, chipStage, chipState, writes>>

-----------------------------------------------------------------------------
\* capture: every register a captured word holds.  The blob then goes to a new machine with
\* as many vCPUs.
Capture ==
    /\ chipStage = "ran" /\ chipStage' = "again"
    /\ chipState' =
        [regs |-> [kind \in DOMAIN hw.regs |-> IF Holds(kind) THEN hw.regs[kind] ELSE Absent], files |-> hw.files]
    /\ harts' = [made |-> 0, stopped |-> {}]
    /\ hw' = << >>
    /\ UNCHANGED <<wiring, writes, delivered>>

\* restore decodes the blob: one of another backend, arch or version is refused.  A field the
\* writer of the blob did not have takes its default.
Decode ==
    /\ chipStage = "made"
    /\ \/ /\ chipStage' = "restoring" /\ writes' = Writes
          /\ \/ UNCHANGED chipState
             \/ \E kind \in DOMAIN chipState.regs \ {"on"} : chipState' = [chipState EXCEPT !.regs[kind] = Absent]
       \/ chipStage' = "refused" /\ UNCHANGED <<writes, chipState>>
    /\ UNCHANGED <<wiring, harts, hw, delivered>>

\* KVM takes a write.  ISENABLER, ISPENDR and ISACTIVER, and the AIA bitmaps, only set bits;
\* an inactive source does not become pending.
Taken(kind, value) ==
    IF wiring.arch = "riscv64" /\ kind = "pending" /\ hw.regs.sourcecfg = 0 THEN hw.regs.pending
    ELSE IF wiring.arch # "x86_64" /\ kind \in {"enabled", "pending", "active"} THEN AtLeast(hw.regs[kind], value)
    ELSE value

\* One write of the restore, or of a run of them to one kind of register.
Written(kind) ==
    CASE kind = "off" -> [hw EXCEPT !.regs.on = 0]
      [] kind = "clear" -> [hw EXCEPT !.regs.pending = 0, !.regs.enabled = 0]
      [] kind = "files" -> [hw EXCEPT !.files = chipState.files]
      [] kind \in DOMAIN hw.regs /\ chipState.regs[kind] # Absent ->
            [hw EXCEPT !.regs[kind] = Taken(kind, chipState.regs[kind])]
      [] kind = "ioapic" /\ chipState.regs.ioapic = Absent -> [hw EXCEPT !.regs.ioapic = Unnamed("ioapic")]
      [] OTHER -> hw

Write ==
    /\ chipStage = "restoring" /\ writes # <<>>
    /\ hw' = Written(Head(writes)) /\ writes' = Tail(writes)
    /\ UNCHANGED <<wiring, harts, chipStage, chipState, delivered>>

\* A write KVM refuses ends the restore with its error.
WriteFails ==
    /\ chipStage = "restoring" /\ writes # <<>>
    /\ chipStage' = "failed" /\ writes' = <<>>
    /\ UNCHANGED <<wiring, harts, hw, chipState, delivered>>

Restored ==
    /\ chipStage = "restoring" /\ writes = <<>> /\ chipStage' = "ok"
    /\ UNCHANGED <<wiring, harts, hw, chipState, writes, delivered>>

Next ==
    \/ New \/ Adopt \/ CreateChip \/ GuestRuns \/ Deliver \/ Capture \/ Decode \/ Write \/ WriteFails \/ Restored

Spec == Init /\ [][Next]_chipVars
-----------------------------------------------------------------------------

Named(kind) == chipState.regs[kind] # Absent

\* A restore that reports success leaves every register of the interrupt as captured, and
\* one the blob does not name masked or clear, wherever its word falls.
LineAsCaptured ==
    chipStage = "ok" =>
        \A kind \in DOMAIN hw.regs :
            \/ hw.regs[kind] = IF Named(kind) THEN chipState.regs[kind] ELSE Unnamed(kind)
            \/ kind = "pending" /\ wiring.arch = "riscv64"

\* An interrupt pending in the AIA when captured is delivered once after the restore: it is
\* still pending or it was forwarded to the hart it targets, and no file loses or gains
\* another.
PendingIsDeliveredOnce ==
    chipStage = "ok" /\ wiring.arch = "riscv64" /\ Named("sourcecfg") =>
        /\ delivered + hw.regs.pending = IF Named("pending") THEN chipState.regs.pending ELSE 0
        /\ hw.files = chipState.files \cup (IF delivered = 1 THEN {hw.regs.target} ELSE {})

\* No controller is on while a register of it is still to be written, so nothing is
\* delivered to a half-restored vCPU.
OnWhenWhole == chipStage = "restoring" /\ writes # <<>> /\ wiring.arch # "x86_64" => hw.regs.on = 0

\* Only words of the interrupt that a capture holds reach the new machine: each is held.
EveryWordHeld == chipStage \in {"again", "made"} => \A kind \in DOMAIN chipState.regs : Named(kind)

\* Every vCPU a restored controller was made for is adopted, and only the first runs by itself.
FirstRuns ==
    chipStage \in {"up", "made", "ok"} /\ wiring.arch # "x86_64" =>
        harts.made = wiring.vcpus /\ harts.stopped = 1 .. wiring.vcpus - 1

\* A restored controller delivers what was pending exactly once, never from a half-written
\* one, and holds every captured register.
ControllersSound ==
    LineAsCaptured /\ PendingIsDeliveredOnce /\ OnWhenWhole /\ EveryWordHeld /\ FirstRuns
=============================================================================
