------------------------------ MODULE Restore ------------------------------
(* A clone takes up a snapshot: Machine::restore (machine/mod.rs) over the  *)
(* controller, the vCPUs, the bus (devices/bus.rs), the generation          *)
(* identifier (vmgenid.rs) and the clock (kvm/x86_64/clock.rs).  The        *)
(* snapshot is of a machine that may have had other devices, and every part *)
(* may refuse its blob.                                                     *)
EXTENDS Integers, Sequences, SequencesExt, FiniteSets

CONSTANTS
    LISTS,        \* virtio devices of a machine: the queue counts, in slot order
    CPUS,         \* vCPUs of the clone
    DRIFTS        \* how far the host's clock moved between capture and restore

VARIABLES
    snap,         \* the Snapshot
    part,         \* what is restored next
    index,        \* how far within it
    irqchip,      \* interrupts pending in the controller
    cpu,          \* state of each vCPU
    slots,        \* the bus, in placement order
    raised,       \* lines raised since the restore began
    genid,        \* generation of the identifier in RAM
    vmClock,
    refused       \* the part that refused, if one did

restoreVars == <<snap, part, index, irqchip, cpu, slots, raised, genid, vmClock, refused>>

\* Fixed devices of x86, the keyboard controller has no state, and the virtio transports.
Kinds(list) == <<"serial", "none", "pm1">> \o [i \in 1 .. Len(list) |-> "virtio"]
Queues(list, i) == IF i > 3 THEN list[i - 3] ELSE 0
Placed(list) == [i \in 1 .. Len(list) + 3 |-> [kind |-> Kinds(list)[i], queues |-> Queues(list, i), state |-> 0]]

\* Machine::capture: a blob for each device with state, numbered here.
Blobs(list) ==
    [i \in 1 .. Len(list) + 3 |-> [kind |-> Kinds(list)[i], queues |-> Queues(list, i), state |-> i]]

LINE_GENID == 0
PENDING == 4      \* a line pending when the controller was captured
ABSENT == -1      \* a part the backend does not report
CAPTURED == 5     \* the clock when it was captured
FORMAT == 1

Snapshots ==
    [format : {FORMAT, FORMAT + 1}, cpus : {CPUS, CPUS + 1}, irqchip : {{ABSENT}, {}, {PENDING}},
     vmClock : {ABSENT, CAPTURED}, realtime : BOOLEAN, drift : DRIFTS, genid : {0},
     devices : {Blobs(list) : list \in LISTS}]

Init ==
    /\ snap = << >>
    /\ part = "assemble" /\ index = 1
    /\ irqchip = {} /\ cpu = [i \in 1 .. CPUS |-> 0]
    /\ slots = <<>>
    /\ raised = {}
    /\ genid = 0            \* the RAM is the template's
    /\ vmClock = 0
    /\ refused = "nothing"

\* Machine::cloned, which draws an identifier as every assembly does, and a document read.
Assemble ==
    /\ part = "assemble" /\ part' = "read"
    /\ \E list \in LISTS : slots' = Placed(list)
    /\ snap' \in Snapshots
    /\ genid' = 1
    /\ UNCHANGED <<index, irqchip, cpu, raised, vmClock, refused>>

Refuse(what) ==
    /\ part' = "failed" /\ refused' = what /\ index' = 1
    /\ UNCHANGED <<snap, irqchip, cpu, slots, raised, genid, vmClock>>

Goes(to) == part' = to /\ index' = 1 /\ UNCHANGED <<snap, refused>>

\* Snapshot::read_from
ReadFrom ==
    /\ part = "read"
    /\ IF snap.format # FORMAT THEN Refuse("format")
       ELSE Goes("fits") /\ UNCHANGED <<irqchip, cpu, slots, raised, genid, vmClock>>

\* Snapshot::fits
Fits ==
    /\ part = "fits"
    /\ IF snap.cpus # CPUS THEN Refuse("shape")
       ELSE Goes("chip") /\ UNCHANGED <<irqchip, cpu, slots, raised, genid, vmClock>>

\* set_irqchip_state: whatever was pending is what the capture held.
SetIrqchipState ==
    /\ part = "chip"
    /\ \/ Refuse("chip")
       \/ /\ irqchip' = IF snap.irqchip = {ABSENT} THEN irqchip ELSE snap.irqchip
          /\ Goes("cpus") /\ UNCHANGED <<cpu, slots, raised, genid, vmClock>>

\* set_state of each vCPU, in creation order.
SetState ==
    /\ part = "cpus"
    /\ \/ Refuse("cpus")
       \/ /\ cpu' = [cpu EXCEPT ![index] = index]
          /\ IF index = CPUS THEN Goes("match") ELSE index' = index + 1 /\ UNCHANGED <<part, snap, refused>>
          /\ UNCHANGED <<irqchip, slots, raised, genid, vmClock>>

-----------------------------------------------------------------------------
\* Bus::restore.  Blobs are matched by kind, in order; a kind with more blobs than devices
\* is refused before any is applied.
OfKind(s, kind) == SelectSeq(s, LAMBDA d : d.kind = kind)

MatchAny == TRUE

Match == \A kind \in {"serial", "pm1", "virtio"} : Len(OfKind(snap.devices, kind)) <= Len(OfKind(slots, kind))

BusMatch ==
    /\ part = "match"
    /\ IF ~Match THEN Refuse("match")
       ELSE Goes("devices") /\ UNCHANGED <<irqchip, cpu, slots, raised, genid, vmClock>>

\* The blob of a placed device: the first of its kind not taken by an earlier one.
Ordinal(i) == Cardinality({j \in 1 .. i : slots[j].kind = slots[i].kind})
HasBlob(i) == slots[i].kind # "none" /\ Ordinal(i) <= Len(OfKind(snap.devices, slots[i].kind))
BlobOf(i) == OfKind(snap.devices, slots[i].kind)[Ordinal(i)]

\* Device::restore, of a transport through take_up: another count of queues is refused.
RestoreDevice ==
    /\ part = "devices"
    /\ \/ HasBlob(index) /\ Refuse("device")
       \/ /\ HasBlob(index) => BlobOf(index).queues = slots[index].queues
          /\ slots' = IF HasBlob(index) THEN [slots EXCEPT ![index].state = BlobOf(index).state] ELSE slots
          /\ IF index = Len(slots) THEN Goes("restored") ELSE index' = index + 1 /\ UNCHANGED <<part, snap, refused>>
          /\ UNCHANGED <<irqchip, cpu, raised, genid, vmClock>>

\* Device::restored on every device: a transport with work left, or whose configuration
\* reads otherwise than captured, raises its line; a raise that fails is only logged.
Restored ==
    /\ part = "restored"
    /\ \E lines \in SUBSET {i \in 1 .. Len(slots) : slots[i].kind = "virtio" /\ slots[i].state # 0} :
        /\ raised' = raised \cup lines
        /\ irqchip' = irqchip \cup lines
    /\ Goes("genid")
    /\ UNCHANGED <<cpu, slots, genid, vmClock>>

\* VmGenId::renew: drawn into RAM, and then the line.
Renew ==
    /\ part = "genid"
    /\ \/ Refuse("genid")
       \/ /\ genid' = genid + 1
          /\ raised' = raised \cup {LINE_GENID}
          /\ irqchip' = irqchip \cup {LINE_GENID}
          /\ Goes("clock")
          /\ UNCHANGED <<cpu, slots, vmClock>>

\* set_clock_elapsed, where KVM adds the host time that went by, forward only, and
\* set_clock where that is refused, as it is for a blob without a reading of the host's clock.
ForwardOnly(drift) == IF drift > 0 THEN drift ELSE 0

RestoredClocks == {snap.vmClock} \cup (IF snap.realtime THEN {snap.vmClock + ForwardOnly(snap.drift)} ELSE {})

SetClock ==
    /\ part = "clock"
    /\ \/ snap.vmClock # ABSENT /\ Refuse("clock")
       \/ /\ vmClock' \in IF snap.vmClock = ABSENT THEN {vmClock} ELSE RestoredClocks
          /\ Goes("done")
          /\ UNCHANGED <<irqchip, cpu, slots, raised, genid>>

Next ==
    \/ Assemble \/ ReadFrom \/ Fits \/ SetIrqchipState \/ SetState \/ BusMatch \/ RestoreDevice \/ Restored
    \/ Renew \/ SetClock

Spec == Init /\ [][Next]_restoreVars
-----------------------------------------------------------------------------
\* A restore that succeeds leaves every device of a kind with the blob the device of the
\* same rank was captured with, from a transport of as many queues, leaves no blob unused,
\* and every vCPU with its own state.
RestoredIsCaptured ==
    part = "done" =>
        /\ \A i \in 1 .. CPUS : cpu[i] = i
        /\ \A i \in 1 .. Len(slots) :
            IF HasBlob(i) THEN slots[i].state = BlobOf(i).state /\ slots[i].queues = BlobOf(i).queues
            ELSE slots[i].state = 0
        /\ {slots[i].state : i \in 1 .. Len(slots)} \ {0} =
             {snap.devices[i].state : i \in {j \in 1 .. Len(snap.devices) : snap.devices[j].kind # "none"}}

\* An interrupt a device or the identifier raised during the restore is still pending when
\* the guest starts, next to those that were pending at capture.
RaisedIsPending == part = "done" => irqchip = (snap.irqchip \ {ABSENT}) \cup raised /\ LINE_GENID \in raised

\* A device missing from the clone is noticed before the bus changes.
RefusedUntouched == refused \in {"format", "shape", "chip", "cpus", "match"} => \A i \in 1 .. Len(slots) : slots[i].state = 0

\* The guest of a restored clone never keeps the template's identifier, and its clock never
\* runs backwards nor past the host time that went by.
RestoredAnew ==
    part = "done" =>
        /\ genid # snap.genid
        /\ snap.vmClock # ABSENT => vmClock - snap.vmClock \in 0 .. ForwardOnly(snap.drift)

\* A snapshot is restored soundly: matched, with its interrupts, or refused in time.
RestoreSound == RestoredIsCaptured /\ RaisedIsPending /\ RefusedUntouched /\ RestoredAnew
=============================================================================
