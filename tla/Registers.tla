----------------------------- MODULE Registers -----------------------------
(* Registers of an x86 vCPU over a snapshot: VcpuState::capture and restore *)
(* (kvm/x86_64/state.rs) with the batched walk over the model-specific       *)
(* registers and the packed segment attributes (kvm/vcpu.rs).  Both vCPUs,   *)
(* and what KVM reads, accepts and refuses, are external.                    *)
EXTENDS Integers, Sequences, SequencesExt, FiniteSets

CONSTANTS
    INDICES,      \* msr_indices, in the order KVM lists them
    MSR_BATCH,
    TSC, DEADLINE,\* two of the indices
    TYPES         \* segment types

VARIABLES
    old,          \* the vCPU captured: sections, segment, msrs, and what it can read
    new,          \* the vCPU restored, with the registers it refuses to write
    doing,        \* the section read or written next
    left,         \* MSRs the walk has still to pass
    blob,         \* the state captured
    armedTsc,     \* the TSC when the deadline was set
    regsOutcome

registerVars == <<old, new, doing, left, blob, armedTsc, regsOutcome>>

Msrs == ToSet(INDICES)

\* Sections in the order KVM_GET_* reads them, and in the order KVM_SET_* writes them.
Reads == <<"lapic", "regs", "sregs", "xcrs", "debug", "xsave", "mp_state", "events", "msrs", "cpuid">>
Writes == <<"cpuid", "regs", "sregs", "xcrs", "debug", "xsave", "mp_state", "events", "lapic", "msrs">>

After(order, section) ==
    LET i == CHOOSE i \in 1 .. Len(order) : order[i] = section
    IN  IF i = Len(order) THEN "end" ELSE order[i + 1]

-----------------------------------------------------------------------------
\* pack_attr and kvm_seg: the access rights of a segment as one word and back.  KVM reports
\* a segment that is not present as unusable.
Bit(word, n) == (word \div 2 ^ n) % 2

PackAttr(seg) ==
    seg.type + seg.s * 2 ^ 4 + seg.dpl * 2 ^ 5 + seg.present * 2 ^ 7
      + seg.avl * 2 ^ 12 + seg.l * 2 ^ 13 + seg.db * 2 ^ 14 + seg.g * 2 ^ 15

KvmSeg(attr) ==
    [type |-> attr % 16, s |-> Bit(attr, 4), dpl |-> (attr \div 2 ^ 5) % 4, present |-> Bit(attr, 7),
     avl |-> Bit(attr, 12), l |-> Bit(attr, 13), db |-> Bit(attr, 14), g |-> Bit(attr, 15)]

Segments ==
    [type : TYPES, s : 0 .. 1, dpl : {0, 3}, present : 0 .. 1, avl : 0 .. 1, l : 0 .. 1, db : 0 .. 1, g : 0 .. 1]
Flat == [type |-> 11, s |-> 1, dpl |-> 0, present |-> 1, avl |-> 0, l |-> 1, db |-> 0, g |-> 1]
None == [Flat EXCEPT !.present = 0]
-----------------------------------------------------------------------------

Vcpu(seg, msrs, can, held) ==
    [seg |-> seg, msrs |-> msrs, reads |-> can, refuses |-> {}, set |-> {}, irqchip |-> held]

Init ==
    /\ old = << >> /\ new = << >>
    /\ doing = "create" /\ left = <<>> /\ blob = << >>
    /\ armedTsc = 0 /\ regsOutcome = "none"

\* Two vCPUs: of one, the registers it reads; of the other, those it refuses and what a new
\* one holds there.
Create ==
    /\ doing = "create" /\ doing' = Head(Reads)
    /\ \E irqchip \in BOOLEAN, reads \in SUBSET Msrs, refuses \in SUBSET Msrs :
        \/ \E values \in [Msrs -> 0 .. 1], fresh \in 0 .. 1 :
            /\ irqchip
            /\ old' = Vcpu(Flat, values, reads, irqchip)
            /\ new' = [Vcpu(None, [i \in Msrs |-> fresh], reads, irqchip) EXCEPT !.refuses = refuses]
        \/ \E seg \in Segments :
            /\ reads = Msrs /\ refuses = {}
            /\ old' = Vcpu(seg, [i \in Msrs |-> 1], reads, irqchip)
            /\ new' = Vcpu(None, [i \in Msrs |-> 0], reads, irqchip)
    /\ left' = INDICES
    /\ blob' = [sections |-> {}, attr |-> 0, msrs |-> [i \in {} |-> 0]]
    /\ UNCHANGED <<armedTsc, regsOutcome>>

\* KVM_GET_MSRS and KVM_SET_MSRS stop a batch at the first register not read, or refused.
Batch(rest) == SubSeq(rest, 1, IF Len(rest) < MSR_BATCH THEN Len(rest) ELSE MSR_BATCH)
Passed(batch, fine) ==
    LET bad == {i \in 1 .. Len(batch) : batch[i] \notin fine}
    IN  IF bad = {} THEN Len(batch) ELSE (CHOOSE i \in bad : \A j \in bad : i <= j) - 1

\* What remains after a batch: the one it stopped at is stepped over.
RestBatch(rest, batch, read) == SubSeq(rest, Len(batch) + 1, Len(rest))
Rest(rest, batch, read) ==
    SubSeq(rest, (IF read + 1 < Len(batch) THEN read + 1 ELSE Len(batch)) + 1, Len(rest))

Capturing == blob # << >> /\ regsOutcome = "none"

\* capture_msrs, a batch at a time.
CaptureMsrs ==
    /\ Capturing /\ doing = "msrs" /\ left # <<>>
    /\ LET batch == Batch(left)
           read == Passed(batch, old.reads)
           taken == DOMAIN blob.msrs \cup ToSet(SubSeq(batch, 1, read))
       IN  /\ blob' = [blob EXCEPT !.msrs = [i \in taken |-> old.msrs[i]]]
           /\ left' = Rest(left, batch, read)
    /\ UNCHANGED <<old, new, doing, armedTsc, regsOutcome>>

\* A KVM_GET_* that fails fails the capture.
CaptureFails ==
    /\ Capturing /\ regsOutcome' = "uncaptured"
    /\ UNCHANGED <<old, new, doing, left, blob, armedTsc>>

\* from_kvm: the section as the blob holds it, every field of it, segments packed.
FromKvm ==
    [blob EXCEPT !.sections = IF doing = "lapic" /\ ~old.irqchip THEN @ ELSE @ \cup {doing},
                 !.attr = IF doing = "sregs" THEN PackAttr(old.seg) ELSE @]

\* The other sections of capture; without a controller there is no LAPIC to read.
Capture ==
    /\ Capturing /\ doing \in ToSet(Reads)
    /\ doing = "msrs" => left = <<>>
    /\ blob' = FromKvm
    /\ IF After(Reads, doing) = "end"
       THEN doing' = Head(Writes) /\ regsOutcome' = "captured"
       ELSE doing' = After(Reads, doing) /\ UNCHANGED regsOutcome
    /\ UNCHANGED <<old, new, left, armedTsc>>

-----------------------------------------------------------------------------
Fail(what) == regsOutcome' = what /\ UNCHANGED <<old, new, doing, left, blob, armedTsc>>

\* Captured registers go in by ascending index.
Ascending == SetToSortSeq(DOMAIN blob.msrs, <)

\* A section of restore.  Leaf 0xD bounds the XCR0 that KVM_SET_XCRS accepts, so the section
\* is refused before the leaves are in; any section may be refused for KVM's own reasons.
Restore ==
    /\ regsOutcome = "captured" /\ doing \in ToSet(Writes) \ {"msrs"}
    /\ \/ doing \in blob.sections /\ doing # "xcrs" /\ Fail("refused")
       \/ doing = "xcrs" /\ "cpuid" \notin new.set /\ Fail("unsupported")
       \/ /\ doing = "xcrs" => "cpuid" \in new.set
          /\ new' = [new EXCEPT
                       !.set = IF doing \in blob.sections THEN @ \cup {doing} ELSE @,
                       !.seg = IF doing = "sregs" THEN KvmSeg(blob.attr) ELSE @]
          /\ doing' = After(Writes, doing)
          /\ left' = IF After(Writes, doing) = "msrs" THEN Ascending ELSE left
          /\ UNCHANGED <<old, blob, armedTsc, regsOutcome>>

\* held_msr: the register as the new vCPU reads it, if it does.
HeldMsr(i) == i \in new.reads /\ new.msrs[i] = blob.msrs[i]

\* A refused register may be stepped over where zero is written, or what it holds already.
SteppedOver(i) == blob.msrs[i] = 0 \/ HeldMsr(i)

\* restore_msrs, a batch at a time.
RestoreMsrs ==
    /\ regsOutcome = "captured" /\ doing = "msrs" /\ left # <<>>
    /\ LET batch == Batch(left)
           written == Passed(batch, Msrs \ new.refuses)
           put == ToSet(SubSeq(batch, 1, written))
       IN  /\ new' = [new EXCEPT !.msrs = [i \in Msrs |-> IF i \in put THEN blob.msrs[i] ELSE @[i]]]
           /\ armedTsc' = IF DEADLINE \in put
                       THEN IF TSC \in put THEN blob.msrs[TSC] ELSE new.msrs[TSC]
                       ELSE armedTsc
           /\ IF written < Len(batch) /\ ~SteppedOver(batch[written + 1])
              THEN regsOutcome' = "partial" /\ UNCHANGED left
              ELSE left' = Rest(left, batch, written) /\ UNCHANGED regsOutcome
    /\ UNCHANGED <<old, doing, blob>>

RestoreEnds ==
    /\ regsOutcome = "captured" /\ doing = "msrs" /\ left = <<>>
    /\ new' = [new EXCEPT !.set = @ \cup {"msrs"}]
    /\ regsOutcome' = "restored"
    /\ UNCHANGED <<old, doing, left, blob, armedTsc>>

Next == Create \/ CaptureFails \/ CaptureMsrs \/ Capture \/ Restore \/ RestoreMsrs \/ RestoreEnds

Spec == Init /\ [][Next]_registerVars
-----------------------------------------------------------------------------
\* The walk of capture_msrs over batches that stop short misses no register the vCPU reads.
CaptureIsWhole == regsOutcome \notin {"none", "uncaptured"} => DOMAIN blob.msrs = old.reads

\* After a restore that succeeds every captured register reads as captured, except a zero
\* the new vCPU refuses; segments come back through the packed attributes; and a register
\* neither written nor held is reported.
RestoreIsTrue ==
    regsOutcome = "restored" =>
        /\ \A i \in DOMAIN blob.msrs : new.msrs[i] = old.msrs[i] \/ (old.msrs[i] = 0 /\ i \in new.refuses)
        /\ new.seg = old.seg
        /\ new.set = IF old.irqchip THEN ToSet(Writes) ELSE ToSet(Writes) \ {"lapic"}

\* Sections go in in an order KVM can take: leaves before the extended registers they bound,
\* the TSC before the deadline measured against it.
OrderFits ==
    /\ regsOutcome # "unsupported"
    /\ regsOutcome = "restored" /\ {TSC, DEADLINE} \subseteq DOMAIN blob.msrs \ new.refuses => armedTsc = old.msrs[TSC]

\* Registers of a vCPU survive a capture and a restore.
RegistersSound == CaptureIsWhole /\ RestoreIsTrue /\ OrderFits
=============================================================================
