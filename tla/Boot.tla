-------------------------------- MODULE Boot --------------------------------
(* Assembly of a guest that boots a kernel: Machine::assemble, the parts of *)
(* it that differ per architecture (machine/<arch>, boot), and the tables   *)
(* or the device tree that describe it (acpi.rs, mptable.rs, fdt.rs).       *)
(* Addresses and sizes are in units of 16 bytes.  What a table or tree      *)
(* takes is external, it is laid out by a library.                          *)
EXTENDS Integers, Sequences, FiniteSets, FiniteSetsExt

CONSTANTS
    MEMORIES,     \* RAM of a guest
    IMAGES,       \* what a kernel takes, the bss of an Image included
    OFFSETS,      \* text_offset of an Image
    INITRDS,      \* sizes of an initramfs, 0 for none
    LIMITS,       \* initrd_addr_max of a bzImage plus one, 0 when it names none
    CMDLINES, VCPUS, COUNTS,
    DISKS, SHARES,
    TABLES        \* what the ACPI tables, or the device tree, may take

VARIABLES
    config,       \* Config, and the files it names
    step,         \* how far the assembly is
    laid,         \* what is in guest RAM: name -> first and one past the last
    windows,      \* what answers in the MMIO space, controllers included
    ports,        \* what answers in the port space, in bytes
    lines,        \* name -> interrupt line
    described,    \* what the tables or the tree name
    entered       \* where vCPU 0 starts and what it is handed

bootVars == <<config, step, laid, windows, ports, lines, described, entered>>

Span(from, size) == [from |-> from, to |-> from + size]
Apart(a, b) == a.to <= b.from \/ b.to <= a.from
Within(a, b) == b.from <= a.from /\ a.to <= b.to
With(f, name, value) == [n \in DOMAIN f \cup {name} |-> IF n = name THEN value ELSE f[n]]

Configs ==
    [arch : {"x86_64", "riscv64", "aarch64"}, memory : MEMORIES, image : IMAGES, offset : OFFSETS,
     initrd : INITRDS, limit : LIMITS, elf : BOOLEAN, cmdline : CMDLINES, vcpus : VCPUS, disks : COUNTS, shares : COUNTS,
     others : {0, 4}]

Init ==
    /\ config = << >>
    /\ step = "new"
    /\ laid = << >> /\ windows = << >> /\ ports = << >> /\ lines = << >> /\ described = << >> /\ entered = << >>

\* Machine::new
New ==
    /\ step = "new" /\ step' = "check"
    /\ config' \in {c \in Configs : /\ c.arch = "x86_64" => c.offset = 0
                                    /\ c.arch # "x86_64" => c.limit = 0 /\ ~c.elf
                                    /\ c.elf => c.limit = 0}
    /\ UNCHANGED <<laid, windows, ports, lines, described, entered>>

X86 == config.arch = "x86_64"

-----------------------------------------------------------------------------
\* Names beside the virtio slots: two windows of the controller, console and identifier.
CTL_A == -1
CTL_B == -2
COM1 == -3
EVENTS == -4
I8042 == -5
PM1 == -6

\* The constants of the three machines.
COM1_AT == IF config.arch = "riscv64" THEN \h800000 ELSE \h900000
COM1_IRQ == CASE X86 -> 4 [] config.arch = "riscv64" -> 1 [] OTHER -> 0
EVENTS_IRQ == CASE X86 -> 9 [] config.arch = "riscv64" -> 2 [] OTHER -> 1
SCI_IRQ == 10
VIRTIO_AT == IF X86 THEN \hd000000 ELSE \ha00000
RAM_AT == \h4000000
FDT_ROOM == \h1000
GENID_AT == IF X86 THEN \hdfff ELSE RAM_AT + FDT_ROOM
KERNEL_AT == IF config.arch = "riscv64" THEN RAM_AT ELSE RAM_AT + \h20000
LOAD_ADDRESS == \h10000
MP_TABLE == \h9fc0
TABLES_AT == \ha000
POINTER_AT == \he000
PM1_EVENTS == 4
PM1_CONTROL == 2
PM1_SIZE == 6

VIRTIO_LINES == <<5, 6, 7, 8, 11, 12, 13, 14, 15, 16, 17, 18, 19, 20, 21, 22, 23>>
VIRTIO_DEVICES == CASE X86 -> Len(VIRTIO_LINES) [] config.arch = "riscv64" -> 29 [] OTHER -> 30

X86Line(slot) == VIRTIO_LINES[slot + 1]
RiscvLine(slot) == 3 + slot
ArmLine(slot) == 2 + slot

VirtioLine(slot) ==
    CASE X86 -> X86Line(slot) [] config.arch = "riscv64" -> RiscvLine(slot) [] OTHER -> ArmLine(slot)

VirtioAt(slot) == VIRTIO_AT + slot * \h20
VirtioCount == 1 + config.disks + config.shares + config.others
Slots == 0 .. VirtioCount - 1

\* layout: x86 leaves a hole for the devices below 4 GiB.
X86Layout ==
    IF config.memory <= \hc000000 THEN {Span(0, config.memory)}
    ELSE {Span(0, \hc000000), Span(\h10000000, config.memory - \hc000000)}
FlatLayout == {Span(RAM_AT, config.memory)}
Regions == IF X86 THEN X86Layout ELSE FlatLayout

\* GuestRam::write and holds: a range within one region.
Holds(span) == \E region \in Regions : Within(span, region)

-----------------------------------------------------------------------------
Goes(from, to) == step = from /\ step' = to
Refuses == step' = "refused" /\ UNCHANGED <<laid, windows, ports, lines, described, entered>>
Lays(name, span) == laid' = With(laid, name, span)
Elsewhere == UNCHANGED <<config, windows, ports, lines, described, entered>>

\* The checks of assemble, before anything is created.
Check ==
    /\ step = "check"
    /\ UNCHANGED config
    /\ IF config.disks > DISKS \/ config.shares > SHARES \/ VirtioCount > VIRTIO_DEVICES
       THEN Refuses
       ELSE step' = "kernel" /\ UNCHANGED <<laid, windows, ports, lines, described, entered>>

\* load_kernel of a bzImage or an ELF, and of an Image.
BzImageSpan == Span(LOAD_ADDRESS, config.image)
ImageSpan == Span(KERNEL_AT + config.offset, config.image)
KernelSpan == IF X86 THEN BzImageSpan ELSE ImageSpan

LoadKernel ==
    /\ Goes("kernel", "initrd") /\ Holds(KernelSpan)
    /\ Lays("kernel", KernelSpan)
    /\ Elsewhere

\* A file that is no kernel, or does not fit.
RefuseKernel == step = "kernel" /\ UNCHANGED config /\ Refuses

\* initrd_address: as high as the region of the kernel allows and, for a bzImage, its limit.
KernelRegion == CHOOSE r \in Regions : laid["kernel"].to > r.from /\ laid["kernel"].to <= r.to
BzInitrdTop == Min({IF config.limit = 0 THEN \h3800000 ELSE config.limit, KernelRegion.to})
ImageInitrdTop == KernelRegion.to
InitrdTop == IF X86 THEN BzInitrdTop ELSE ImageInitrdTop
InitrdAddress == ((InitrdTop - config.initrd) \div \h100) * \h100

AfterInitrd == IF X86 THEN "params" ELSE "vcpus"

LoadInitrdUnchecked ==
    /\ step = "initrd" /\ config.initrd > 0 /\ step' = AfterInitrd
    /\ Lays("initrd", Span(InitrdAddress, config.initrd))
    /\ Elsewhere

InitrdFits == InitrdTop >= config.initrd /\ InitrdAddress >= laid["kernel"].to

LoadInitrd ==
    /\ step = "initrd" /\ config.initrd > 0 /\ step' = AfterInitrd /\ InitrdFits
    /\ Lays("initrd", Span(InitrdAddress, config.initrd))
    /\ Elsewhere

NoInitrd == step = "initrd" /\ config.initrd = 0 /\ step' = AfterInitrd /\ Elsewhere /\ UNCHANGED laid

RefuseInitrd == step = "initrd" /\ config.initrd > 0 /\ ~InitrdFits /\ UNCHANGED config /\ Refuses

\* ram_ranges: usable memory leaves out the window of the firmware.
RamRanges ==
    UNION {{Span(r.from, Min({r.to, MP_TABLE}) - r.from),
            Span(Max({r.from, LOAD_ADDRESS}), r.to - Max({r.from, LOAD_ADDRESS}))} : r \in Regions}

\* write_boot_params: the command line with its terminator, and the page that points at it.
\* A command line with a NUL is refused.
WriteBootParams ==
    /\ step = "params"
    /\ \/ /\ step' = "mptable"
          /\ laid' = With(With(laid, "cmdline", Span(\h2000, config.cmdline + 1)), "params", Span(\h700, \h100))
          /\ described' = [memory |-> RamRanges]
          /\ UNCHANGED <<config, windows, ports, lines, entered>>
       \/ Refuses /\ UNCHANGED config

\* mptable::write: it fits a kilobyte or is refused (bytes here).
MpBytes == 16 + 44 + 20 * config.vcpus + 8 + 8 + 24 * 8 + 2 * 8

WriteMpTable ==
    /\ step = "mptable"
    /\ IF MpBytes > 1024 THEN Refuses /\ UNCHANGED config
       ELSE step' = "vcpus" /\ Lays("mptable", Span(MP_TABLE, (MpBytes + 15) \div 16)) /\ Elsewhere

\* create_vcpus: the interrupt controllers KVM answers for.
Pair(a, b) == [n \in {CTL_A, CTL_B} |-> IF n = CTL_A THEN a ELSE b]
X86Chips == Pair(Span(\hfec0000, \h100), Span(\hfee0000, \h100))
RiscvChips == Pair(Span(\h40000, \h400), Span(\h400000, \h100 * config.vcpus))
ArmChips == Pair(Span(\h800000, \h1000), Span(\h80a000, \h2000 * config.vcpus))

CreateVcpus ==
    /\ Goes("vcpus", "fixed")
    /\ windows' = CASE X86 -> X86Chips [] config.arch = "riscv64" -> RiscvChips [] OTHER -> ArmChips
    /\ UNCHANGED <<config, laid, ports, lines, described, entered>>

\* place_fixed, and the lines of the console and the identifier.
X86Fixed == [n \in {COM1, I8042, PM1} |-> CASE n = COM1 -> Span(\h3f8, 8) [] n = I8042 -> Span(\h64, 1)
                                           [] OTHER -> Span(\h600, PM1_SIZE)]

PlaceFixed ==
    /\ Goes("fixed", "genid")
    /\ windows' = IF X86 THEN windows ELSE With(windows, COM1, Span(COM1_AT, 1))
    /\ ports' = IF X86 THEN X86Fixed ELSE ports
    /\ lines' = With(With(lines, COM1, COM1_IRQ), EVENTS, EVENTS_IRQ)
    /\ UNCHANGED <<config, laid, described, entered>>

\* VmGenId::lay
LayGenId == Goes("genid", "virtio") /\ Lays("genid", Span(GENID_AT, 1)) /\ Elsewhere

\* place_virtio for every device: a register block and a line each.
PlaceVirtio ==
    /\ Goes("virtio", "tables")
    /\ windows' = [n \in DOMAIN windows \cup Slots |->
                      IF n \in Slots THEN Span(VirtioAt(n), \h20) ELSE windows[n]]
    /\ lines' = [n \in DOMAIN lines \cup Slots |-> IF n \in Slots THEN VirtioLine(n) ELSE lines[n]]
    /\ UNCHANGED <<config, laid, ports, described, entered>>
-----------------------------------------------------------------------------

\* What enter hands the tables: each part with where it is and its line.
Named(at, line) == [at |-> at, line |-> line]
VirtioParts == [slot \in Slots |-> Named(Span(VirtioAt(slot), \h20), VirtioLine(slot))]

X86Parts ==
    [genid |-> Named(laid["genid"], EVENTS_IRQ), console |-> Named(Span(\h3f8, 8), COM1_IRQ), virtio |-> VirtioParts,
     sci |-> SCI_IRQ, pm1 |-> \h600, reset |-> \h64, vcpus |-> config.vcpus]
TreeParts ==
    [genid |-> Named(laid["genid"], EVENTS_IRQ), console |-> Named(Span(COM1_AT, 1), COM1_IRQ), virtio |-> VirtioParts,
     memory |-> Span(laid["kernel"].from, RAM_AT + config.memory - laid["kernel"].from), vcpus |-> config.vcpus]

\* Devices a namespace or a tree names, with their lines.
Namespace(parts) ==
    [n \in {EVENTS, COM1} \cup DOMAIN parts.virtio |->
        CASE n = EVENTS -> parts.genid [] n = COM1 -> parts.console [] OTHER -> parts.virtio[n]]

\* The FADT names the PM1 block, event registers before control ones, the SCI and the port
\* of the reset.
Fadt(parts) == [events |-> Span(parts.pm1, PM1_EVENTS), control |-> Span(parts.pm1 + PM1_EVENTS, PM1_CONTROL),
                reset |-> Span(parts.reset, 1), sci |-> parts.sci]

\* Processors listed: local APIC ids, harts, or affinities in the order of the vCPUs.
Processors(parts) == 0 .. parts.vcpus - 1
Harts(parts) == 0 .. parts.vcpus - 1
Cpus(parts) == 0 .. parts.vcpus - 1

\* The controllers a tree names.
AiaNode(parts) == Pair(Span(\h40000, \h400), Span(\h400000, \h100 * parts.vcpus))
GicNode(parts) == Pair(Span(\h800000, \h1000), Span(\h80a000, \h2000 * parts.vcpus))

\* acpi::lay below the identifier; a table that reaches it is refused.
LayAcpi ==
    /\ step = "tables" /\ X86
    /\ \E taken \in TABLES :
        IF taken > GENID_AT - TABLES_AT THEN Refuses /\ UNCHANGED config
        ELSE /\ step' = "enter"
             /\ laid' = With(With(laid, "tables", Span(TABLES_AT, taken)), "pointer", Span(POINTER_AT, 3))
             /\ described' = [devices |-> Namespace(X86Parts), fadt |-> Fadt(X86Parts), cpus |-> Processors(X86Parts),
                              memory |-> described.memory]
             /\ UNCHANGED <<config, windows, ports, lines, entered>>

RiscvTree ==
    [devices |-> Namespace(TreeParts), chips |-> AiaNode(TreeParts), cpus |-> Harts(TreeParts),
     memory |-> {TreeParts.memory}]
ArmTree ==
    [devices |-> Namespace(TreeParts), chips |-> GicNode(TreeParts), cpus |-> Cpus(TreeParts),
     memory |-> {TreeParts.memory}]

\* enter of riscv64 and aarch64 refuse a kernel that leaves no room for the tree and the
\* identifier under it, and fdt::lay a tree over its room.
TreeFits(taken) == taken <= FDT_ROOM

LayTree ==
    /\ step = "tables" /\ ~X86
    /\ \E taken \in TABLES :
        IF ~TreeFits(taken) \/ laid["kernel"].from < GENID_AT + 1 THEN Refuses /\ UNCHANGED config
        ELSE /\ step' = "enter"
             /\ laid' = With(laid, "tables", Span(RAM_AT, taken))
             /\ described' = IF config.arch = "riscv64" THEN RiscvTree ELSE ArmTree
             /\ UNCHANGED <<config, windows, ports, lines, entered>>

\* enter_long_mode: descriptor tables, page tables and a stack.
WriteTables == Span(\h50, 3)
WritePageTables == [at |-> Span(\h900, \h300), maps |-> Span(0, \h200 * \h20000)]

EnterLongMode ==
    /\ Goes("enter", "ready") /\ X86
    /\ laid' = With(With(With(laid, "gdt", WriteTables), "pages", WritePageTables.at), "stack", Span(\h800, \hff))
    /\ entered' = [entry |-> laid["kernel"].from + IF config.elf THEN 0 ELSE \h20, handed |-> \h700]
    /\ UNCHANGED <<config, windows, ports, lines, described>>

\* enter_kernel: with the tree in a register.
EnterKernel ==
    /\ Goes("enter", "ready") /\ ~X86
    /\ entered' = [entry |-> laid["kernel"].from, handed |-> RAM_AT]
    /\ UNCHANGED <<config, laid, windows, ports, lines, described>>

Next ==
    \/ New \/ Check \/ LoadKernel \/ RefuseKernel \/ LoadInitrd \/ NoInitrd \/ RefuseInitrd \/ WriteBootParams
    \/ WriteMpTable \/ CreateVcpus \/ PlaceFixed \/ LayGenId \/ PlaceVirtio \/ LayAcpi \/ LayTree
    \/ EnterLongMode \/ EnterKernel

Spec == Init /\ [][Next]_bootVars
-----------------------------------------------------------------------------
Ready == step = "ready"

\* Nothing laid out in the RAM of a machine that assembles overwrites another part of it,
\* or lies outside of RAM, whatever the sizes of RAM, kernel and initramfs.
LaidApart ==
    Ready => /\ \A n \in DOMAIN laid : Holds(laid[n])
             /\ \A m, n \in DOMAIN laid : m # n => Apart(laid[m], laid[n])

\* The kernel is told of memory that holds it and its initramfs, and of none that holds
\* the tables, the tree or the identifier it reads later.
UsableIsFree ==
    Ready => /\ \A n \in DOMAIN laid \cap {"kernel", "initrd"} : \E u \in described.memory : Within(laid[n], u)
             /\ \A n \in DOMAIN laid \cap {"mptable", "tables", "pointer", "genid"} :
                    \A u \in described.memory : u.from < u.to => Apart(laid[n], u)

\* Redistributor frames run into the console window past this many vCPUs, which assemble
\* does not refuse.
REDISTS == (\h900000 - \h80a000) \div \h2000

\* No register window of a device lies in RAM, in a controller's or in another device's.
WindowsApart ==
    Ready /\ (config.arch = "aarch64" => config.vcpus <= REDISTS) =>
        /\ \A m, n \in DOMAIN windows : m # n => Apart(windows[m], windows[n])
        /\ \A n \in DOMAIN windows, r \in Regions : Apart(windows[n], r)

\* Every device has a line of its own that the controller has and the SCI does not hold.
LinesOwned ==
    Ready => /\ \A m, n \in DOMAIN lines : m # n => lines[m] # lines[n]
             /\ X86 => \A n \in DOMAIN lines : lines[n] # SCI_IRQ /\ lines[n] < 24
             /\ ~X86 => \A n \in DOMAIN lines : lines[n] <= 31
             /\ \A m, n \in DOMAIN ports : m # n => Apart(ports[m], ports[n])

\* The tables and the tree name every device, port and controller where it was placed, with
\* the line it raises, and a processor for every vCPU.
DescribedAsPlaced ==
    Ready =>
        /\ DOMAIN described.devices = DOMAIN lines
        /\ \A n \in DOMAIN lines :
            /\ described.devices[n].line = lines[n]
            /\ described.devices[n].at = CASE n = EVENTS -> laid["genid"]
                                           [] n = COM1 /\ X86 -> ports[COM1]
                                           [] OTHER -> windows[n]
        /\ Cardinality(described.cpus) = config.vcpus
        /\ ~X86 => \A n \in {CTL_A, CTL_B} : described.chips[n] = windows[n]
        /\ X86 => /\ described.fadt.events.from = ports[PM1].from /\ described.fadt.control.to = ports[PM1].to
                  /\ described.fadt.reset = ports[I8042]

\* vCPU 0 starts inside the kernel, at an address its page tables map, and is handed the boot
\* parameters or the tree.
EntersTheKernel ==
    Ready => /\ Within(Span(entered.entry, 1), laid["kernel"])
             /\ entered.handed = IF X86 THEN laid["params"].from ELSE laid["tables"].from
             /\ X86 => Within(Span(entered.entry, 1), WritePageTables.maps)

\* A machine that assembles is laid out soundly.
BootSound == LaidApart /\ UsableIsFree /\ WindowsApart /\ LinesOwned /\ DescribedAsPlaced /\ EntersTheKernel
=============================================================================
