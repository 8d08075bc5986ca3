------------------------------- MODULE Dirty -------------------------------
(* The RAM image of a paused guest, whole (Machine::write_memory) or the     *)
(* pages written since assembly (Machine::write_dirty), over the marks of    *)
(* GuestRam (mem/mod.rs), the hypervisor's log (kvm/memory.rs) and the pages *)
(* the balloon drops (virtio/balloon.rs).  The device threads run on while   *)
(* the vCPUs are held.  A page is 4 KiB; KVM and its log are external.       *)
EXTENDS Integers, Sequences

CONSTANTS
    REGIONS,      \* pages of each region, with a hole between two
    CHUNK,        \* pages of IMAGE_CHUNK
    HOST_PAGE,    \* pages of one host page
    CHANGES       \* bound: changes to RAM

ASSUME DirtyAssumption == REGIONS \in Seq(Nat) /\ REGIONS # <<>> /\ CHUNK \in Nat

VARIABLES
    base,         \* RAM at assembly: zeroes, or the template a clone maps
    ram,
    log,          \* pages KVM logged since the log was read
    marks,        \* pages marked in the bitmap of their region
    phase,        \* run, hold, log, walk
    whole,        \* whether write_memory walks, not write_dirty
    near,         \* the region, and the pages of it passed
    image,        \* pages written to the file; the rest are holes
    heldPages,    \* values a page had since the capture began
    changes

dirtyVars == <<base, ram, log, marks, phase, whole, near, image, heldPages, changes>>

Pages == UNION {{<<r, p>> : p \in 1 .. REGIONS[r]} : r \in 1 .. Len(REGIONS)}
Clean == [p \in {} |-> 0]

DirtyInit ==
    /\ base = [p \in Pages |-> 0] /\ ram = [p \in Pages |-> 0]
    /\ log = {} /\ marks = {}
    /\ phase = "new" /\ whole = FALSE
    /\ near = <<1, 0>> /\ image = Clean
    /\ heldPages = [p \in Pages |-> {}]
    /\ changes = 0

\* GuestRam::new, zeroes, or GuestRam::cloned_from, the pages of a template.
Map ==
    /\ phase = "new" /\ phase' = "run"
    /\ base' \in {[p \in Pages |-> 0], [p \in Pages |-> 1]}
    /\ ram' = base'
    /\ UNCHANGED <<log, marks, whole, near, image, heldPages, changes>>

Capturing == phase \in {"log", "walk"}
Changed(new) ==
    /\ changes < CHANGES /\ changes' = changes + 1
    /\ ram' = new
    /\ heldPages' = IF Capturing THEN [p \in Pages |-> heldPages[p] \cup {new[p]}] ELSE heldPages

\* A vCPU stores to RAM: KVM logs the page.
GuestWrite ==
    /\ phase = "run"
    /\ \E p \in Pages, v \in {0, 2} : Changed([ram EXCEPT ![p] = v]) /\ log' = log \cup {p}
    /\ UNCHANGED <<base, marks, phase, whole, near, image>>

\* GuestRam::write of a device, a kernel loader or a restore: the page is marked.
HostWrite ==
    /\ phase # "new"
    /\ \E p \in Pages : Changed([ram EXCEPT ![p] = 3]) /\ marks' = marks \cup {p}
    /\ UNCHANGED <<base, log, phase, whole, near, image>>

\* GuestRam::discard of a range reported free: whole host pages within a region, which
\* read as at assembly afterwards, and are no longer marked.
Reported ==
    UNION {{{<<r, p>> : p \in first .. last} :
              first \in {p \in 1 .. REGIONS[r] : (p - 1) % HOST_PAGE = 0},
              last \in {p \in 1 .. REGIONS[r] : p % HOST_PAGE = 0}} : r \in 1 .. Len(REGIONS)} \ {{}}

Discard ==
    /\ phase # "new"
    /\ \E range \in Reported :
        /\ Changed([p \in Pages |-> IF p \in range THEN base[p] ELSE ram[p]])
        /\ marks' = marks \ range
    /\ UNCHANGED <<base, log, phase, whole, near, image>>

\* The guest is paused, or goes on.
Pause == phase = "run" /\ phase' = "hold" /\ UNCHANGED <<base, ram, log, marks, whole, near, image, heldPages, changes>>
Resume == phase = "hold" /\ phase' = "run" /\ UNCHANGED <<base, ram, log, marks, whole, near, image, heldPages, changes>>

Begin(all) ==
    /\ phase = "hold"
    /\ whole' = all /\ near' = <<1, 0>> /\ image' = Clean
    /\ heldPages' = [p \in Pages |-> {ram[p]}]
    /\ UNCHANGED <<base, ram, log, marks, changes>>

WriteMemory == Begin(TRUE) /\ phase' = "walk"
WriteDirty == Begin(FALSE) /\ phase' = "log"

\* The log of the next region is read, which empties it, and marked (GuestRam::mark).
MarkNothing(region) == UNCHANGED marks
Mark(region) == marks' = marks \cup {p \in log : p[1] = region}

GetDirtyLog ==
    /\ phase = "log"
    /\ Mark(near[1])
    /\ log' = {p \in log : p[1] # near[1]}
    /\ IF near[1] = Len(REGIONS) THEN near' = <<1, 0>> /\ phase' = "walk"
       ELSE near' = <<near[1] + 1, 0>> /\ UNCHANGED phase
    /\ UNCHANGED <<base, ram, whole, image, heldPages, changes>>

\* The pages of the next chunk; a chunk ends with its region.
ChunkEnd == IF near[2] + CHUNK < REGIONS[near[1]] THEN near[2] + CHUNK ELSE REGIONS[near[1]]
Chunk == {<<near[1], p>> : p \in near[2] + 1 .. ChunkEnd}

\* What of a chunk is written: all of it unless it is zero, or the runs of marked pages.
Kept == IF whole THEN IF \E p \in Chunk : ram[p] # 0 THEN Chunk ELSE {}
        ELSE Chunk \cap marks

WriteChunk ==
    /\ phase = "walk"
    /\ image' = [p \in DOMAIN image \cup Kept |-> IF p \in Kept THEN ram[p] ELSE image[p]]
    /\ IF ChunkEnd < REGIONS[near[1]] THEN near' = <<near[1], ChunkEnd>> /\ UNCHANGED phase
       ELSE IF near[1] < Len(REGIONS) THEN near' = <<near[1] + 1, 0>> /\ UNCHANGED phase
       ELSE near' = <<1, 0>> /\ phase' = "done"
    /\ UNCHANGED <<base, ram, log, marks, whole, heldPages, changes>>

\* The file is closed and the guest stays held; or a log, a write or a seek failed.
Forget == near' = <<1, 0>> /\ image' = Clean /\ heldPages' = [p \in Pages |-> {}]
CloseImage == phase = "done" /\ phase' = "hold" /\ Forget /\ UNCHANGED <<base, ram, log, marks, whole, changes>>
Fail == Capturing /\ phase' = "hold" /\ Forget /\ UNCHANGED <<base, ram, log, marks, whole, changes>>

DirtyNext ==
    \/ Map \/ GuestWrite \/ HostWrite \/ Discard \/ Pause \/ Resume
    \/ WriteMemory \/ WriteDirty \/ GetDirtyLog \/ WriteChunk \/ CloseImage \/ Fail

DirtySpec == DirtyInit /\ [][DirtyNext]_dirtyVars
-----------------------------------------------------------------------------
\* How an image reads: a hole of a whole one is zero (read_memory), one of dirty pages
\* leaves the page as at assembly.
Reads(p) == IF p \in DOMAIN image THEN image[p] ELSE IF whole THEN 0 ELSE base[p]

\* A complete image, over the RAM the guest was assembled on, gives every page a value it
\* had during the capture, and so the guest's RAM where no device wrote meanwhile; after
\* captures that failed half-way and pages dropped in between too.
ImageIsRam == phase = "done" => \A p \in Pages : Reads(p) \in heldPages[p]
=============================================================================
