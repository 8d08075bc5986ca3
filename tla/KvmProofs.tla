----------------------------- MODULE KvmProofs -----------------------------
(***************************************************************************)
(* What the engine keeps with KVM, in four parts that share no state: the  *)
(* accesses of a vCPU, the routes of interrupts, the log of dirty pages    *)
(* and the bus an access is dispatched on.  They hold for any number of    *)
(* accesses, values and orders, of pins and irqfds, for any regions of RAM *)
(* and size of the chunks an image is written in, and for any devices.     *)
(***************************************************************************)
EXTENDS Vcpu, Routing, Dirty, Bus, TLAPS

Kinds == {"none", "in", "out", "mmio_read", "mmio_write"}
ReadKinds == {"in", "mmio_read"}
WriteKinds == {"out", "mmio_write"}

\* The types of what the thread keeps of an instruction.
AccessType ==
    /\ page \in [kind : Kinds, slots : Seq(Int)]
    /\ vcpuPending \in Nat /\ entry \in Int
    /\ answers \in Seq(Int) /\ wrote \in Seq(Int) /\ seen \in Seq(Int)

OrderType ==
    /\ immediate \in BOOLEAN /\ intr \in BOOLEAN
    /\ thread \in {"run", "entering", "guest", "eintr", "order", "parked", "bus", "ended"}
    /\ order \in {"run", "hold", "stop"} /\ asker \in {"idle", "stopper", "kick"}

\* No instruction is open, and nothing is left of the last one.
NothingOpen ==
    /\ page.kind = "none" /\ vcpuPending = 0 /\ entry = Run
    /\ answers = <<>> /\ wrote = <<>> /\ seen = <<>>

\* n of the accesses of the open instruction are done: those before the last have their
\* answer in their slot, and a device saw what was written.
DoneBefore(n) ==
    /\ page.kind # "none"
    /\ page.kind \in ReadKinds =>
        /\ Len(answers) = n /\ n <= Len(page.slots)
        /\ \A i \in 1 .. Len(answers) : i < vcpuPending => page.slots[i] = answers[i]
    /\ page.kind \in WriteKinds =>
        /\ page.slots = wrote /\ Len(seen) = n /\ n <= Len(wrote)
        /\ \A i \in 1 .. Len(seen) : seen[i] = wrote[i]

\* The access reported last: the first and only one of a write to memory has no number.
LastReported ==
    IF page.kind = "mmio_write" THEN vcpuPending = 0 /\ Len(page.slots) = 1
    ELSE /\ vcpuPending \in 1 .. Len(page.slots)
         /\ page.kind = "mmio_read" => Len(page.slots) = 1
PlaceOf == IF page.kind = "mmio_write" THEN 1 ELSE vcpuPending

\* What holds of the open instruction at each place of the thread.
Stage ==
    /\ thread \in {"guest", "eintr", "order", "parked"} => NothingOpen
    /\ thread = "bus" => LastReported /\ DoneBefore(PlaceOf - 1)
    /\ thread = "run" =>
        \/ NothingOpen
        \/ /\ LastReported /\ DoneBefore(PlaceOf)
           /\ page.kind \in ReadKinds => entry = answers[vcpuPending] /\ entry # Run
    /\ thread = "entering" =>
        /\ entry = Run /\ vcpuPending = 0
        /\ page.kind \in ReadKinds => page.slots = answers
        /\ page.kind \in WriteKinds => seen = wrote

\* The flag is set wherever the thread would go into the guest, from the moment the asking
\* thread set it; and once that thread sent its signal, a vCPU in the guest has it.
OrderHeard ==
    order # "run" /\ asker # "stopper" =>
        /\ thread \in {"run", "bus", "entering"} => immediate
        /\ thread = "parked" /\ order = "stop" => immediate
        /\ thread = "guest" => IF asker = "kick" THEN immediate ELSE intr

VcpuInv == AccessType /\ OrderType /\ Stage /\ OrderHeard

-----------------------------------------------------------------------------
\* A page of slots filled one by one is a sequence of them.
LEMMA Filled ==
    ASSUME NEW n \in Nat, NEW f \in [1 .. n -> Int]
    PROVE  f \in Seq(Int) /\ Len(f) = n
OBVIOUS

\* Two sequences that agree place by place are one.
LEMMA SameSeq ==
    ASSUME NEW s \in Seq(Int), NEW t \in Seq(Int), Len(s) = Len(t),
           \A i \in 1 .. Len(s) : s[i] = t[i]
    PROVE  s = t
BY SMTT(60)

\* Passing an answer in changes its slot only (write_slot, complete_mmio).
LEMMA AnsweredIs ==
    ASSUME AccessType, page.kind \in ReadKinds, entry # Run, vcpuPending \in 1 .. Len(page.slots)
    PROVE  /\ Answered \in [kind : Kinds, slots : Seq(Int)]
           /\ Answered.kind = page.kind
           /\ Len(Answered.slots) = Len(page.slots)
           /\ \A i \in 1 .. Len(page.slots) :
                Answered.slots[i] = IF i = vcpuPending THEN entry ELSE page.slots[i]
<1> DEFINE slots == [page.slots EXCEPT ![vcpuPending] = entry]
<1>1. Answered = [kind |-> page.kind, slots |-> slots]
  BY Zenon DEF Answered, AccessType, ReadKinds, WriteSlot
<1>2. slots \in Seq(Int) /\ Len(slots) = Len(page.slots)
  BY DEF AccessType
<1>3. QED BY <1>1, <1>2 DEF AccessType

-----------------------------------------------------------------------------
\* The thread begins with no instruction open and no order given.
LEMMA InitVcpu == VcpuInit => VcpuInv
<1> SUFFICES ASSUME VcpuInit PROVE VcpuInv
  OBVIOUS
<1>1. AccessType
  BY DEF VcpuInit, AccessType, NoExit, Run, Kinds
<1>2. OrderType /\ OrderHeard
  BY Zenon DEF VcpuInit, OrderType, OrderHeard
<1>3. Stage
  BY Zenon DEF VcpuInit, Stage, NothingOpen, NoExit
<1>4. QED BY <1>1, <1>2, <1>3, Zenon DEF VcpuInv

\* An order given stays heard: the flag is cleared only where the order is read next, and a
\* signal finds a vCPU in the guest or the flag still set (tell, ask_out, the loop of a vCPU).
LEMMA OrderStep ==
    ASSUME OrderType, OrderHeard, [VcpuNext]_vcpuVars
    PROVE  OrderType' /\ OrderHeard'
<1> USE DEF OrderType, OrderHeard, Asking
<1>1. CASE Report BY <1>1, Zenon DEF Report
<1>2. CASE Enter BY <1>2, Zenon DEF Enter
<1>3. CASE KvmEntered BY <1>3, Zenon DEF KvmEntered
<1>4. CASE GuestAccess BY <1>4, Zenon DEF GuestAccess
<1>5. CASE GuestEnds BY <1>5, Zenon DEF GuestEnds
<1>6. CASE KvmInterrupted BY <1>6, Zenon DEF KvmInterrupted
<1>7. CASE ClearImmediate BY <1>7, Zenon DEF ClearImmediate
<1>8. CASE Dispatch BY <1>8, Zenon DEF Dispatch
<1>9. CASE DispatchEnds BY <1>9, Zenon DEF DispatchEnds
<1>10. CASE ReadOrder BY <1>10, Zenon DEF ReadOrder
<1>11. CASE LeaveHold BY <1>11, Zenon DEF LeaveHold
<1>12. ASSUME NEW o \in {"run", "hold", "stop"}, Tell(o) PROVE OrderType' /\ OrderHeard'
  BY <1>12, Zenon DEF Tell
<1>13. CASE Stopper BY <1>13, Zenon DEF Stopper
<1>14. CASE Kick BY <1>14, Zenon DEF Kick
<1>15. CASE StraySignal BY <1>15, Zenon DEF StraySignal
<1>16. CASE UNCHANGED vcpuVars BY <1>16, Zenon DEF vcpuVars
<1>17. QED
  BY <1>1, <1>2, <1>3, <1>4, <1>5, <1>6, <1>7, <1>8, <1>9, <1>10, <1>11, <1>12, <1>13, <1>14, <1>15,
     <1>16, Zenon DEF VcpuNext

-----------------------------------------------------------------------------
\* The next access of an instruction is reported with the answer to the last one in its slot.
LEMMA ReportStep ==
    ASSUME AccessType, Stage, Report
    PROVE  AccessType' /\ Stage'
<1>1. /\ LastReported /\ DoneBefore(PlaceOf) /\ page.kind \in {"in", "out"} /\ thread' = "bus"
      /\ page.kind \in ReadKinds => entry = answers[vcpuPending] /\ entry # Run
  BY Zenon DEF Report, MoreToReport, Stage, NothingOpen
<1>2. UNCHANGED <<entry, answers, wrote, seen>> /\ vcpuPending' = vcpuPending + 1 /\ page' = Answered
  BY Zenon DEF Report
<1>3. vcpuPending \in 1 .. Len(page.slots) /\ vcpuPending + 1 \in 1 .. Len(page.slots) /\ PlaceOf = vcpuPending
  BY <1>1 DEF Report, MoreToReport, LastReported, PlaceOf, AccessType
<1>4. CASE page.kind = "in"
  <2>1. /\ page' \in [kind : Kinds, slots : Seq(Int)] /\ page'.kind = "in"
        /\ Len(page'.slots) = Len(page.slots)
        /\ \A i \in 1 .. Len(page.slots) :
            page'.slots[i] = IF i = vcpuPending THEN entry ELSE page.slots[i]
    BY <1>1, <1>2, <1>3, <1>4, AnsweredIs, Zenon DEF ReadKinds
  <2>2. AccessType' BY <1>2, <2>1 DEF AccessType
  <2>3. LastReported' /\ PlaceOf' = vcpuPending + 1 BY <1>2, <1>3, <2>1, Zenon DEF LastReported, PlaceOf
  <2>4. /\ Len(answers) = vcpuPending
        /\ \A i \in 1 .. Len(answers) : i < vcpuPending + 1 => page'.slots[i] = answers[i]
    <3>1. /\ Len(answers) = vcpuPending /\ vcpuPending \in 1 .. Len(page.slots)
          /\ entry = answers[vcpuPending]
          /\ \A i \in 1 .. Len(answers) : i < vcpuPending => page.slots[i] = answers[i]
      BY <1>1, <1>3, <1>4, Zenon DEF DoneBefore, ReadKinds
    <3>2. QED BY <2>1, <3>1, SMTT(30)
  <2>5. DoneBefore(PlaceOf - 1)'
    BY <1>2, <1>3, <2>1, <2>3, <2>4 DEF DoneBefore, ReadKinds, WriteKinds
  <2>6. QED BY <1>1, <2>2, <2>3, <2>5, Zenon DEF Stage
<1>5. CASE page.kind = "out"
  <2>1. page' = page BY <1>2, <1>5, Zenon DEF Answered
  <2>2. AccessType' BY <1>2, <2>1 DEF AccessType
  <2>3. LastReported' /\ PlaceOf' = vcpuPending + 1 BY <1>2, <1>3, <1>5, <2>1, Zenon DEF LastReported, PlaceOf
  <2>4. DoneBefore(PlaceOf - 1)'
    BY <1>1, <1>2, <1>3, <1>5, <2>1, <2>3, SMTT(30) DEF DoneBefore, ReadKinds, WriteKinds, AccessType
  <2>5. QED BY <1>1, <2>2, <2>3, <2>4, Zenon DEF Stage
<1>6. QED BY <1>1, <1>4, <1>5, Zenon

\* KVM is entered once every access of the instruction is answered, the last answer included.
LEMMA EnterStep ==
    ASSUME AccessType, Stage, Enter
    PROVE  AccessType' /\ Stage'
<1>1. /\ UNCHANGED <<answers, wrote, seen>> /\ vcpuPending' = 0 /\ entry' = Run /\ page' = Answered
      /\ thread' = "entering"
  BY Zenon DEF Enter
<1>2. CASE NothingOpen
  <2>1. page' = page BY <1>1, <1>2, Zenon DEF NothingOpen, Answered
  <2>2. QED BY <1>1, <1>2, <2>1, Zenon DEF Stage, AccessType, NothingOpen, ReadKinds, WriteKinds, Run
<1>3. CASE ~NothingOpen
  <2>1. /\ LastReported /\ DoneBefore(PlaceOf)
        /\ page.kind \in ReadKinds => entry = answers[vcpuPending] /\ entry # Run
    BY <1>3, Zenon DEF Enter, Stage
  <2>2. CASE page.kind \in ReadKinds
    <3>1. vcpuPending = Len(page.slots) /\ vcpuPending \in 1 .. Len(page.slots) /\ PlaceOf = vcpuPending
      <4>1. vcpuPending \in 1 .. Len(page.slots) /\ PlaceOf = vcpuPending
        BY <2>1, <2>2, Zenon DEF LastReported, PlaceOf, ReadKinds
      <4>2. Len(page.slots) \in Nat BY DEF AccessType
      <4>3. CASE page.kind = "in"
        <5>1. ~(vcpuPending > 0 /\ vcpuPending < Len(page.slots)) BY <4>3, Zenon DEF Enter, MoreToReport
        <5>2. QED BY <4>1, <4>2, <5>1
      <4>4. CASE page.kind = "mmio_read"
        <5>1. Len(page.slots) = 1 BY <2>1, <4>4, Zenon DEF LastReported
        <5>2. QED BY <4>1, <5>1
      <4>5. QED BY <2>2, <4>1, <4>3, <4>4, Zenon DEF ReadKinds
    <3>2. /\ page' \in [kind : Kinds, slots : Seq(Int)] /\ page'.kind = page.kind
          /\ Len(page'.slots) = Len(page.slots)
          /\ \A i \in 1 .. Len(page.slots) :
              page'.slots[i] = IF i = vcpuPending THEN entry ELSE page.slots[i]
      BY <1>1, <2>1, <2>2, <3>1, AnsweredIs, Zenon
    <3>3. AccessType' BY <1>1, <3>2 DEF AccessType, Run
    <3>4. Len(answers) = Len(page'.slots) /\ \A i \in 1 .. Len(answers) : page'.slots[i] = answers[i]
      <4>1. Len(answers) = Len(page.slots) /\ \A i \in 1 .. Len(answers) : i < vcpuPending => page.slots[i] = answers[i]
        BY <2>1, <2>2, <3>1, Zenon DEF DoneBefore
      <4>2. QED BY <2>1, <2>2, <3>1, <3>2, <4>1
    <3>5. page'.slots = answers BY <3>2, <3>4, SameSeq DEF AccessType
    <3>6. QED BY <1>1, <2>2, <3>2, <3>3, <3>5, Zenon DEF Stage, ReadKinds, WriteKinds
  <2>3. CASE page.kind \in WriteKinds
    <3>1. PlaceOf = Len(wrote) /\ page' = page
      BY <1>1, <2>1, <2>3 DEF Enter, MoreToReport, LastReported, PlaceOf, AccessType, WriteKinds, ReadKinds,
         DoneBefore, Answered
    <3>2. seen = wrote
      BY <2>1, <2>3, <3>1, SameSeq, Zenon DEF DoneBefore, AccessType
    <3>3. QED BY <1>1, <2>3, <3>1, <3>2 DEF Stage, AccessType, ReadKinds, WriteKinds, Run
  <2>4. QED BY <2>1, <2>2, <2>3, Zenon DEF DoneBefore, AccessType, Kinds, ReadKinds, WriteKinds
<1>4. QED BY <1>2, <1>3, Zenon

\* The guest opens an instruction, none of its accesses done.
LEMMA GuestStep ==
    ASSUME AccessType, Stage, GuestAccess
    PROVE  AccessType' /\ Stage'
<1>1. PICK kind \in {"in", "out", "mmio_read", "mmio_write"}, n \in 1 .. COUNT, v \in VALUES :
        /\ kind \in {"mmio_read", "mmio_write"} => n = 1
        /\ wrote' = IF kind \in {"out", "mmio_write"} THEN [i \in 1 .. n |-> v + i] ELSE <<>>
        /\ page' = [kind |-> kind, slots |-> IF wrote' = <<>> THEN [i \in 1 .. n |-> Unset] ELSE wrote']
  BY Zenon DEF GuestAccess
<1>2. /\ thread' = "bus" /\ UNCHANGED <<entry, answers, seen>> /\ answers = <<>> /\ seen = <<>>
      /\ vcpuPending' = (IF kind = "mmio_write" THEN 0 ELSE 1)
  BY <1>1, Zenon DEF GuestAccess, Stage, NothingOpen
<1>3. n \in Nat /\ n >= 1 /\ v \in Int
  BY VcpuAssumption
<1>4. CASE kind \in ReadKinds
  <2>1. wrote' = <<>> /\ page' = [kind |-> kind, slots |-> [i \in 1 .. n |-> Unset]]
    BY <1>1, <1>4, Zenon DEF ReadKinds
  <2>2. page'.slots \in Seq(Int) /\ Len(page'.slots) = n
    BY <2>1, <1>3, Filled DEF Unset
  <2>3. AccessType'
    <3>1. page' \in [kind : Kinds, slots : Seq(Int)]
      BY <2>1, <2>2, Zenon DEF Kinds
    <3>2. vcpuPending' \in Nat /\ entry' \in Int /\ answers' \in Seq(Int) /\ seen' \in Seq(Int)
      BY <1>2, Zenon DEF AccessType
    <3>3. QED BY <2>1, <3>1, <3>2 DEF AccessType
  <2>4. QED BY <1>1, <1>2, <1>3, <1>4, <2>1, <2>2, <2>3 DEF Stage, LastReported, PlaceOf,
               DoneBefore, ReadKinds, WriteKinds
<1>5. CASE kind \in WriteKinds
  <2>1. wrote' = [i \in 1 .. n |-> v + i]
    BY <1>1, <1>5, Zenon DEF WriteKinds
  <2>2. wrote' \in Seq(Int) /\ Len(wrote') = n
    BY <2>1, <1>3, Filled
  <2>3. page' = [kind |-> kind, slots |-> wrote']
    <3>1. wrote' # <<>> BY <1>3, <2>2
    <3>2. QED BY <1>1, <3>1, Zenon
  <2>4. AccessType'
    <3>1. page'.kind \in Kinds /\ page' \in [kind : Kinds, slots : Seq(Int)]
      BY <2>2, <2>3, Zenon DEF Kinds
    <3>2. QED BY <1>2, <2>2, <3>1, Zenon DEF AccessType
  <2>5. QED BY <1>1, <1>2, <1>3, <1>5, <2>2, <2>3, <2>4 DEF Stage, LastReported, PlaceOf,
               DoneBefore, ReadKinds, WriteKinds
<1>6. QED BY <1>4, <1>5, Zenon DEF ReadKinds, WriteKinds

\* A device answers or sees the access reported, the next in order.
LEMMA DispatchStep ==
    ASSUME AccessType, Stage, Dispatch
    PROVE  AccessType' /\ Stage'
<1>1. /\ LastReported /\ DoneBefore(PlaceOf - 1) /\ thread' = "run"
      /\ UNCHANGED <<page, vcpuPending, wrote>>
  BY Zenon DEF Dispatch, Stage
<1>2. CASE page.kind \in ReadKinds
  <2>1. PICK v \in VALUES : entry' = v /\ answers' = Append(answers, v) /\ seen' = seen
    BY <1>2, Zenon DEF Dispatch, ReadKinds
  <2>2. v \in Int /\ v # Run BY VcpuAssumption DEF Run
  <2>3. AccessType' BY <1>1, <2>1, <2>2 DEF AccessType
  <2>4. PlaceOf = vcpuPending /\ vcpuPending \in 1 .. Len(page.slots) /\ Len(answers) = vcpuPending - 1
    BY <1>1, <1>2, Zenon DEF LastReported, PlaceOf, DoneBefore, ReadKinds, WriteKinds
  <2>5. /\ Len(answers') = vcpuPending /\ answers'[vcpuPending] = v
        /\ \A i \in 1 .. Len(answers) : answers'[i] = answers[i]
    BY <2>1, <2>2, <2>4 DEF AccessType
  <2>6. DoneBefore(vcpuPending)'
    BY <1>1, <1>2, <2>1, <2>4, <2>5 DEF DoneBefore, ReadKinds, WriteKinds, AccessType
  <2>7. LastReported' /\ PlaceOf' = vcpuPending
    BY <1>1, <2>4, Zenon DEF LastReported, PlaceOf
  <2>8. QED BY <1>1, <1>2, <2>1, <2>2, <2>3, <2>5, <2>6, <2>7, Zenon DEF Stage, DoneBefore
<1>3. CASE page.kind \in WriteKinds
  <2>1. entry' = Run /\ answers' = answers /\ seen' = Append(seen, page.slots[PlaceOf])
    BY <1>1, <1>3 DEF Dispatch, ReadKinds, WriteKinds, LastReported, PlaceOf
  <2>2. PlaceOf \in 1 .. Len(wrote) /\ Len(seen) = PlaceOf - 1 /\ page.slots = wrote
    <3>1. page.slots = wrote /\ Len(seen) = PlaceOf - 1
      BY <1>1, <1>3, Zenon DEF DoneBefore
    <3>2. LastReported BY <1>1, Zenon
    <3>3. PlaceOf \in 1 .. Len(page.slots)
      <4>1. CASE page.kind = "mmio_write" BY <3>2, <4>1, SMTT(60) DEF LastReported, PlaceOf
      <4>2. CASE page.kind = "out" BY <3>2, <4>2, Zenon DEF LastReported, PlaceOf
      <4>3. QED BY <1>3, <4>1, <4>2, Zenon DEF WriteKinds
    <3>4. QED BY <3>1, <3>3, Zenon
  <2>3. AccessType' BY <1>1, <2>1, <2>2 DEF AccessType, Run
  <2>4. /\ Len(seen') = PlaceOf /\ seen'[PlaceOf] = wrote[PlaceOf]
        /\ \A i \in 1 .. Len(seen) : seen'[i] = seen[i]
    BY <2>1, <2>2, SMTT(60) DEF AccessType
  <2>5. LastReported' /\ PlaceOf' = PlaceOf
    BY <1>1, <2>2, Zenon DEF LastReported, PlaceOf
  <2>6. \A i \in 1 .. Len(seen') : seen'[i] = wrote[i]
    <3>1. \A i \in 1 .. Len(seen) : seen[i] = wrote[i]
      BY <1>1, <1>3, Zenon DEF DoneBefore
    <3>2. QED BY <2>2, <2>4, <3>1
  <2>7. DoneBefore(PlaceOf)'
    BY <1>1, <1>3, <2>2, <2>4, <2>5, <2>6 DEF DoneBefore, ReadKinds, WriteKinds
  <2>8. QED BY <1>1, <1>3, <2>3, <2>7, <2>5, Zenon DEF Stage, DoneBefore, ReadKinds, WriteKinds
<1>4. QED BY <1>2, <1>3, Zenon DEF Dispatch, ReadKinds, WriteKinds

\* Every step keeps the open instruction in order.
LEMMA AccessStep ==
    ASSUME AccessType, Stage, [VcpuNext]_vcpuVars
    PROVE  AccessType' /\ Stage'
<1>1. CASE KvmEntered
  BY <1>1 DEF KvmEntered, AccessType, Stage, NothingOpen, NoExit, Kinds
<1>2. ASSUME UNCHANGED <<page, vcpuPending, entry, answers, wrote, seen>>,
             \/ thread' = thread
             \/ thread' = "ended"
             \/ /\ thread \in {"guest", "eintr", "order", "parked"}
                /\ thread' \in {"eintr", "order", "parked", "run", "ended"}
      PROVE  AccessType' /\ Stage'
  <2>1. AccessType' BY <1>2, Zenon DEF AccessType
  <2>2. /\ NothingOpen' <=> NothingOpen
        /\ LastReported' <=> LastReported
        /\ DoneBefore(PlaceOf - 1)' <=> DoneBefore(PlaceOf - 1)
        /\ DoneBefore(PlaceOf)' <=> DoneBefore(PlaceOf)
    BY <1>2, Zenon DEF NothingOpen, LastReported, DoneBefore, PlaceOf
  <2>3. QED BY <1>2, <2>1, <2>2, Zenon DEF Stage
<1>3. CASE GuestEnds BY <1>2, <1>3, Zenon DEF GuestEnds
<1>4. CASE KvmInterrupted BY <1>2, <1>4, Zenon DEF KvmInterrupted
<1>5. CASE ClearImmediate BY <1>2, <1>5, Zenon DEF ClearImmediate
<1>6. CASE DispatchEnds BY <1>2, <1>6, Zenon DEF DispatchEnds
<1>7. CASE ReadOrder BY <1>2, <1>7, Zenon DEF ReadOrder
<1>8. CASE LeaveHold BY <1>2, <1>8, Zenon DEF LeaveHold
<1>9. CASE \E o \in {"run", "hold", "stop"} : Tell(o) BY <1>2, <1>9, Zenon DEF Tell
<1>10. CASE Stopper \/ Kick \/ StraySignal BY <1>2, <1>10, Zenon DEF Stopper, Kick, StraySignal
<1>11. CASE UNCHANGED vcpuVars BY <1>2, <1>11, Zenon DEF vcpuVars
<1>12. QED
  BY <1>1, <1>3, <1>4, <1>5, <1>6, <1>7, <1>8, <1>9, <1>10, <1>11, ReportStep, EnterStep, GuestStep,
     DispatchStep, Zenon DEF VcpuNext

\* For any instruction, any values and any number of orders: KVM completes an instruction
\* with the answers given to its accesses, a held vCPU is between two instructions, and no
\* vCPU runs on past an order (vcpu/mod.rs run, kvm/vcpu.rs, machine/mod.rs ask_out).
THEOREM VcpuIsSound == VcpuSpec => []VcpuSound
<1>1. VcpuInit => VcpuInv
  BY InitVcpu, Zenon
<1>2. VcpuInv /\ [VcpuNext]_vcpuVars => VcpuInv'
  BY OrderStep, AccessStep, Zenon DEF VcpuInv
<1>3. VcpuInv => VcpuSound
  BY Zenon DEF VcpuInv, OrderType, OrderHeard, Stage, NothingOpen, VcpuSound, AccessesWhole,
     HeldBetweenAccesses,
         OrderReaches, Open, ReadKinds, WriteKinds
<1>4. QED BY <1>1, <1>2, <1>3, PTL DEF VcpuSpec

-----------------------------------------------------------------------------
\* The routes and the numbers given out.
RouteType ==
    /\ pins \in {0, SOURCES} /\ nextGsi \in Nat
    /\ msi = [g \in DOMAIN msi |-> msi[g]]
    /\ DOMAIN msi \subseteq FIRST .. FIRST + nextGsi - 1
    /\ \A g \in DOMAIN msi : msi[g] = [addr |-> msi[g].addr, data |-> msi[g].data, masked |-> msi[g].masked]
                             /\ msi[g].masked \in BOOLEAN
    /\ calls \in {<<>>, <<"apply">>, <<"register">>, <<"unregister", "apply">>, <<"apply", "register">>}
    /\ calls # <<>> => at \in DOMAIN msi

\* The pins are in every table, and a number is never given out twice.
PinsCarried ==
    /\ \A p \in 0 .. pins - 1 : p \in DOMAIN table /\ table[p] = <<"pin", p>>
    /\ senders \subseteq 0 .. pins - 1
    /\ pins = 0 => DOMAIN msi = {}
    /\ registered \subseteq DOMAIN msi \cup closing
    /\ closing \subseteq FIRST .. FIRST + nextGsi - 1
    /\ closing \cap DOMAIN msi = {}

\* Route g is what KVM has.
InTable(g) == g \in DOMAIN table /\ table[g] = <<msi[g].addr, msi[g].data>>
Synced(g) == IF msi[g].masked THEN g \notin registered ELSE g \in registered /\ InTable(g)

\* Where the change of a route is: what is still to be called makes it what KVM has.
InChange(g) ==
    /\ calls = <<"apply">> =>
        IF msi[g].masked THEN g \notin registered ELSE g \in registered /\ g \in DOMAIN table
    /\ calls = <<"unregister", "apply">> => msi[g].masked /\ (g \in registered => g \in DOMAIN table)
    /\ calls = <<"apply", "register">> => ~msi[g].masked /\ g \notin registered
    /\ calls = <<"register">> => ~msi[g].masked /\ g \notin registered /\ InTable(g)

RouteKept(g) == g \in DOMAIN msi /\ g \notin broken => IF calls # <<>> /\ g = at THEN InChange(g) ELSE Synced(g)

RoutesKept == RouteType /\ PinsCarried /\ \A g \in DOMAIN msi : RouteKept(g)

\* A step that leaves KVM and the calls to make as they are, and the route of g.
LEMMA RouteSame ==
    ASSUME NEW g, RouteKept(g), g \in DOMAIN msi, g \in DOMAIN msi', msi'[g] = msi[g],
           g \in registered' <=> g \in registered,
           UNCHANGED <<table, calls, at, broken>>
    PROVE  RouteKept(g)'
BY Zenon DEF RouteKept, InChange, Synced, InTable

\* A change of the address or the data of a route, or of its mask.
LEMMA ChangeStep ==
    ASSUME RoutesKept, NEW g \in Gsis, Update(g) \/ SetMasked(g)
    PROVE  RoutesKept'
<1>1. PICK new, todo :
        /\ Change(g, new, todo) /\ g \in DOMAIN msi /\ Free
        /\ new = [addr |-> new.addr, data |-> new.data, masked |-> new.masked]
        /\ new.masked \in BOOLEAN
        /\ \/ todo = <<"apply">> /\ new.masked = msi[g].masked
           \/ /\ new.addr = msi[g].addr /\ new.data = msi[g].data /\ new.masked = ~msi[g].masked
              /\ todo = IF new.masked THEN <<"unregister", "apply">> ELSE <<"apply", "register">>
  <2>1. g \in DOMAIN msi /\ Free
        /\ msi[g] = [addr |-> msi[g].addr, data |-> msi[g].data, masked |-> msi[g].masked]
        /\ msi[g].masked \in BOOLEAN
    BY Zenon DEF RoutesKept, RouteType, Update, SetMasked
  <2>2. CASE Update(g)
    <3>1. PICK w \in WORDS : Change(g, [msi[g] EXCEPT !.addr = w], <<"apply">>)
                             \/ Change(g, [msi[g] EXCEPT !.data = w], <<"apply">>)
      BY <2>2, Zenon DEF Update
    <3>2. QED BY <2>1, <3>1
  <2>3. CASE SetMasked(g)
    <3>1. Change(g, [msi[g] EXCEPT !.masked = ~@], CallsTo(~msi[g].masked)) BY <2>3, Zenon DEF SetMasked
    <3>2. [msi[g] EXCEPT !.masked = ~@]
            = [addr |-> msi[g].addr, data |-> msi[g].data, masked |-> ~msi[g].masked]
      BY <2>1
    <3>3. CallsTo(~msi[g].masked) = IF ~msi[g].masked THEN <<"unregister", "apply">> ELSE <<"apply", "register">>
      BY Zenon DEF CallsTo
    <3>4. QED BY <2>1, <3>1, <3>2, <3>3, ZenonT(60)
  <2>4. QED BY <2>2, <2>3, Zenon
<1>2. /\ msi' = [msi EXCEPT ![g] = new] /\ at' = g /\ calls' = todo
      /\ UNCHANGED <<pins, nextGsi, table, registered, senders, closing, broken>>
  BY <1>1, Zenon DEF Change
<1>3. DOMAIN msi' = DOMAIN msi /\ msi'[g] = new /\ \A h \in DOMAIN msi : h # g => msi'[h] = msi[h]
  BY <1>1, <1>2, Zenon DEF RoutesKept, RouteType
<1>4. RouteType'
  BY <1>1, <1>2, <1>3, ZenonT(30) DEF RoutesKept, RouteType
<1>5. PinsCarried'
  BY <1>2, <1>3, Zenon DEF RoutesKept, PinsCarried
<1>6. ASSUME NEW h \in DOMAIN msi PROVE RouteKept(h)'
  <2>1. RouteKept(h) /\ calls = <<>> BY <1>1, Zenon DEF RoutesKept, Free
  <2>2. h \notin broken => Synced(h) BY <2>1, Zenon DEF RouteKept
  <2>3. CASE h # g BY <1>2, <1>3, <2>2, <2>3, Zenon DEF RouteKept, Synced, InTable
  <2>4. CASE h = g
    <3>1. h \notin broken => InChange(h)'
      BY <1>1, <1>2, <1>3, <2>2, <2>4 DEF InChange, Synced, InTable
    <3>2. QED BY <1>2, <2>4, <3>1, <1>1 DEF RouteKept
  <2>5. QED BY <2>3, <2>4, Zenon
<1>7. QED BY <1>3, <1>4, <1>5, <1>6, Zenon DEF RoutesKept

\* The next call of a change, or its failure.
LEMMA CallStep ==
    ASSUME RoutesKept, Call
    PROVE  RoutesKept'
<1>1. /\ calls # <<>> /\ at \in DOMAIN msi
      /\ calls \in {<<"apply">>, <<"register">>, <<"unregister", "apply">>, <<"apply", "register">>}
      /\ UNCHANGED <<pins, msi, nextGsi, senders, closing>>
  BY Zenon DEF Call, Free, RoutesKept, RouteType
<1>2. CASE calls' = <<>> /\ broken' = broken \cup {at} /\ UNCHANGED <<table, registered>>
  <2>1. RouteType' BY <1>1, <1>2, Zenon DEF RoutesKept, RouteType
  <2>2. PinsCarried' BY <1>1, <1>2, Zenon DEF RoutesKept, PinsCarried
  <2>3. ASSUME NEW h \in DOMAIN msi PROVE RouteKept(h)'
    BY <1>1, <1>2, Zenon DEF RoutesKept, RouteKept, Synced, InTable
  <2>4. QED BY <1>1, <2>1, <2>2, <2>3, Zenon DEF RoutesKept
<1>3. CASE /\ calls' = Tail(calls)
           /\ table' = IF Head(calls) = "apply" THEN Table ELSE table
           /\ registered' = IF Head(calls) = "register" THEN registered \cup {at}
                            ELSE IF Head(calls) = "unregister" THEN registered \ {at} ELSE registered
           /\ UNCHANGED broken
  <2>1. at' = IF calls' = <<>> THEN 0 ELSE at BY Zenon DEF Call
  <2>2. \/ calls = <<"apply">> /\ calls' = <<>> /\ table' = Table /\ registered' = registered
        \/ calls = <<"register">> /\ calls' = <<>> /\ table' = table /\ registered' = registered \cup {at}
        \/ calls = <<"unregister", "apply">> /\ calls' = <<"apply">> /\ table' = table
           /\ registered' = registered \ {at}
        \/ calls = <<"apply", "register">> /\ calls' = <<"register">> /\ table' = Table
           /\ registered' = registered
    <3>1. CASE calls = <<"apply">> BY <1>3, <3>1
    <3>2. CASE calls = <<"register">> BY <1>3, <3>2
    <3>3. CASE calls = <<"unregister", "apply">> BY <1>3, <3>3
    <3>4. CASE calls = <<"apply", "register">> BY <1>3, <3>4
    <3>5. QED BY <1>1, <3>1, <3>2, <3>3, <3>4, Zenon
  <2>3. RouteType' BY <1>1, <2>1, <2>2, Zenon DEF RoutesKept, RouteType
  <2>4. /\ pins \in Nat /\ pins < FIRST /\ nextGsi \in Nat /\ FIRST \in Nat
        /\ \A g \in DOMAIN msi : g \in Int /\ FIRST <= g
    BY RoutingAssumption DEF RoutesKept, RouteType
  <2>5. /\ \A p \in 0 .. pins - 1 : p \in DOMAIN Table /\ Table[p] = <<"pin", p>>
        /\ \A g \in DOMAIN msi : ~msi[g].masked =>
             g \in DOMAIN Table /\ Table[g] = <<msi[g].addr, msi[g].data>>
    <3>1. ASSUME NEW p \in 0 .. pins - 1 PROVE p \in DOMAIN Table /\ Table[p] = <<"pin", p>>
      <4>1. p < FIRST BY <2>4, SMTT(30)
      <4>2. QED BY <4>1, Zenon DEF Table
    <3>2. ASSUME NEW g \in DOMAIN msi, ~msi[g].masked
          PROVE  g \in DOMAIN Table /\ Table[g] = <<msi[g].addr, msi[g].data>>
      <4>1. ~(g < FIRST) BY <2>4, SMTT(30)
      <4>2. QED BY <3>2, <4>1, Zenon DEF Table
    <3>3. QED BY <3>1, <3>2, Zenon
  <2>6. PinsCarried' BY <1>1, <2>2, <2>5, Zenon DEF RoutesKept, PinsCarried
  <2>7. ASSUME NEW h \in DOMAIN msi PROVE RouteKept(h)'
    <3>1. RouteKept(h) /\ msi[h].masked \in BOOLEAN BY Zenon DEF RoutesKept, RouteType
    <3>2. CASE h # at
      BY <1>1, <1>3, <2>1, <2>2, <2>5, <3>1, <3>2, Zenon DEF RouteKept, Synced, InTable
    <3>3. CASE h = at
      <4>1. h \notin broken => InChange(h) BY <1>1, <3>1, <3>3, Zenon DEF RouteKept
      <4>2. CASE calls' = <<>>
        <5>1. h \notin broken => Synced(h)'
          BY <1>1, <2>2, <2>5, <3>1, <3>3, <4>1, <4>2, Zenon DEF InChange, Synced, InTable
        <5>2. QED BY <1>3, <4>2, <5>1, Zenon DEF RouteKept
      <4>3. CASE calls' # <<>>
        <5>1. h \notin broken => InChange(h)'
          BY <1>1, <2>2, <2>5, <3>1, <3>3, <4>1, <4>3 DEF InChange, InTable
        <5>2. QED BY <1>3, <2>1, <3>3, <4>3, <5>1, Zenon DEF RouteKept
      <4>4. QED BY <4>2, <4>3, Zenon
    <3>4. QED BY <3>2, <3>3, Zenon
  <2>8. QED BY <1>1, <2>3, <2>6, <2>7, Zenon DEF RoutesKept
<1>4. QED BY <1>2, <1>3, Zenon DEF Call

\* Every step keeps the routes.
LEMMA RoutingStep ==
    ASSUME RoutesKept, [RoutingNext]_routingVars
    PROVE  RoutesKept'
<1>1. CASE EnableIrqchip
  <2>1. DOMAIN msi = {} /\ DOMAIN msi' = {}
    BY <1>1, Zenon DEF EnableIrqchip, RoutesKept, PinsCarried
  <2>2. RouteType' BY <1>1, <2>1, RoutingAssumption, Zenon DEF EnableIrqchip, RoutesKept, RouteType
  <2>3. \A p \in 0 .. SOURCES - 1 : p \in DOMAIN table' /\ table'[p] = <<"pin", p>>
    BY <1>1, Zenon DEF EnableIrqchip
  <2>4. PinsCarried'
    BY <1>1, <2>1, <2>3, RoutingAssumption DEF EnableIrqchip, RoutesKept, PinsCarried
  <2>5. QED BY <2>1, <2>2, <2>4, Zenon DEF RoutesKept
<1>2. ASSUME NEW pin \in 0 .. SOURCES - 1, CreateIrqSender(pin) PROVE RoutesKept'
  <2>1. RouteType' BY <1>2, Zenon DEF CreateIrqSender, RoutesKept, RouteType
  <2>2. PinsCarried' BY <1>2, RoutingAssumption DEF CreateIrqSender, RoutesKept, RouteType, PinsCarried
  <2>3. QED BY <1>2, <2>1, <2>2, RouteSame, Zenon DEF CreateIrqSender, RoutesKept
<1>3. CASE CreateIrqfd
  <2>0. PICK new : new = FIRST + nextGsi OBVIOUS
  <2>1. /\ new \notin DOMAIN msi /\ new \notin closing /\ new \notin registered /\ new \in Int
        /\ nextGsi \in Nat /\ FIRST \in Nat
    BY <2>0, RoutingAssumption DEF RoutesKept, RouteType, PinsCarried
  <2>2. /\ DOMAIN msi' = DOMAIN msi \cup {new} /\ msi'[new] = Masked /\ calls = <<>>
        /\ \A h \in DOMAIN msi : msi'[h] = msi[h]
        /\ nextGsi' = nextGsi + 1 /\ pins > 0
        /\ UNCHANGED <<pins, table, registered, senders, closing, calls, at, broken>>
    BY <1>3, <2>0, <2>1, Zenon DEF CreateIrqfd, Free
  <2>3. RouteType'
    <3>1. msi' = [g \in DOMAIN msi' |-> msi'[g]] BY <1>3, Zenon DEF CreateIrqfd
    <3>2. DOMAIN msi' \subseteq FIRST .. FIRST + nextGsi' - 1
      BY <2>0, <2>1, <2>2 DEF RoutesKept, RouteType
    <3>3. ASSUME NEW g \in DOMAIN msi'
          PROVE  /\ msi'[g] = [addr |-> msi'[g].addr, data |-> msi'[g].data, masked |-> msi'[g].masked]
                 /\ msi'[g].masked \in BOOLEAN
      <4>1. CASE g = new
        <5>1. Masked.addr = 0 /\ Masked.data = 0 /\ Masked.masked = TRUE BY Zenon DEF Masked
        <5>2. Masked = [addr |-> Masked.addr, data |-> Masked.data, masked |-> Masked.masked]
          BY <5>1, Zenon DEF Masked
        <5>3. msi'[g] = Masked BY <2>2, <4>1, Zenon
        <5>4. QED BY <5>1, <5>2, <5>3, ZenonT(30)
      <4>2. CASE g # new BY <2>2, <4>2, Zenon DEF RoutesKept, RouteType
      <4>3. QED BY <4>1, <4>2, Zenon
    <3>4. /\ pins' \in {0, SOURCES} /\ nextGsi' \in Nat
          /\ calls' \in {<<>>, <<"apply">>, <<"register">>, <<"unregister", "apply">>, <<"apply", "register">>}
          /\ calls' # <<>> => at' \in DOMAIN msi'
      BY <2>1, <2>2 DEF RoutesKept, RouteType
    <3>5. QED BY <3>1, <3>2, <3>3, <3>4, Zenon DEF RouteType
  <2>4. PinsCarried'
    BY <2>0, <2>1, <2>2 DEF RoutesKept, RouteType, PinsCarried
  <2>5. RouteKept(new)'
    <3>1. Masked.masked = TRUE BY Zenon DEF Masked
    <3>2. msi'[new].masked = TRUE /\ calls' = <<>> /\ new \notin registered' BY <2>1, <2>2, <3>1, Zenon
    <3>3. QED BY <3>2, Zenon DEF RouteKept, Synced
  <2>6. \A h \in DOMAIN msi : RouteKept(h)' BY <2>2, RouteSame, Zenon DEF RoutesKept
  <2>7. QED BY <2>2, <2>3, <2>4, <2>5, <2>6, Zenon DEF RoutesKept
<1>4. ASSUME NEW g \in Gsis, Drop(g) PROVE RoutesKept'
  <2>1. /\ DOMAIN msi' = DOMAIN msi \ {g} /\ \A h \in DOMAIN msi' : msi'[h] = msi[h]
        /\ calls = <<>> /\ closing' = closing \cup {g} /\ g \in DOMAIN msi
        /\ UNCHANGED <<pins, nextGsi, table, registered, senders, calls, at, broken>>
    BY <1>4, Zenon DEF Drop, Free
  <2>2. msi' = [h \in DOMAIN msi' |-> msi'[h]] BY <1>4, Zenon DEF Drop
  <2>3. RouteType' BY <2>1, <2>2, Zenon DEF RoutesKept, RouteType
  <2>4. PinsCarried' BY <2>1, Zenon DEF RoutesKept, RouteType, PinsCarried
  <2>5. QED BY <2>1, <2>3, <2>4, RouteSame, Zenon DEF RoutesKept
<1>5. ASSUME NEW g \in Gsis, CloseEventfd(g) PROVE RoutesKept'
  <2>1. /\ g \in closing /\ closing' = closing \ {g} /\ registered' = registered \ {g}
        /\ UNCHANGED <<pins, msi, nextGsi, table, senders, calls, at, broken>>
    BY <1>5, Zenon DEF CloseEventfd
  <2>2. RouteType' BY <2>1, Zenon DEF RoutesKept, RouteType
  <2>3. PinsCarried' BY <2>1, Zenon DEF RoutesKept, PinsCarried
  <2>4. \A h \in DOMAIN msi : h \in registered' <=> h \in registered
    BY <2>1, Zenon DEF RoutesKept, PinsCarried
  <2>5. QED BY <2>1, <2>2, <2>3, <2>4, RouteSame, Zenon DEF RoutesKept
<1>6. CASE UNCHANGED routingVars
  BY <1>6, ZenonT(60) DEF routingVars, RoutesKept, RouteType, PinsCarried, RouteKept, InChange, Synced, InTable
<1>7. QED BY <1>1, <1>2, <1>3, <1>4, <1>5, <1>6, CallStep, ChangeStep, Zenon DEF RoutingNext

\* For any controller, any number of irqfds and any addresses and data: a pin stays routed,
\* no eventfd is bound to a GSI without a route, and between two changes a route is live
\* exactly when it is not masked, as last written (irq.rs Routing, IrqFd).
THEOREM RoutesAreSound == RoutingSpec => []RoutesSound
<1>1. RoutingInit => RoutesKept
  BY RoutingAssumption DEF RoutingInit, RoutesKept, RouteType, PinsCarried
<1>2. RoutesKept /\ [RoutingNext]_routingVars => RoutesKept'
  BY RoutingStep, Zenon
<1>3. RoutesKept => RoutesSound
  <2> SUFFICES ASSUME RoutesKept PROVE RoutesSound OBVIOUS
  <2>1. PinsStayRouted BY Zenon DEF RoutesKept, PinsCarried, PinsStayRouted
  <2>2. UnmaskedIsLive BY Zenon DEF RoutesKept, RouteKept, Synced, InTable, UnmaskedIsLive, Free
  <2>3. ASSUME NEW g \in DOMAIN msi, g \in registered, g \notin broken PROVE g \in DOMAIN table
    BY <2>3, Zenon DEF RoutesKept, RouteType, RouteKept, Synced, InTable, InChange
  <2>4. BoundIsRouted BY <2>3, Zenon DEF RoutesKept, PinsCarried, BoundIsRouted
  <2>5. QED BY <2>1, <2>2, <2>4, Zenon DEF RoutesSound
<1>4. QED BY <1>1, <1>2, <1>3, PTL DEF RoutingSpec

-----------------------------------------------------------------------------
\* The pages a walk has passed.
Copied(p) == p[1] < near[1] \/ (p[1] = near[1] /\ p[2] <= near[2])

RamType ==
    /\ phase \in {"new", "run", "hold", "log", "walk", "done"}
    /\ whole \in BOOLEAN /\ log \subseteq Pages
    /\ near = <<near[1], near[2]>> /\ near[1] \in 1 .. Len(REGIONS) /\ near[2] \in 0 .. REGIONS[near[1]]
    /\ ram = [p \in Pages |-> ram[p]] /\ base = [p \in Pages |-> base[p]]
    /\ heldPages = [p \in Pages |-> heldPages[p]]

\* A page neither marked nor logged is as at assembly; the log of the regions passed is read.
Tracked ==
    /\ \A p \in Pages : p \notin marks /\ p \notin log => ram[p] = base[p]
    /\ phase = "log" => ~whole /\ \A p \in log : p[1] >= near[1]
    /\ phase = "walk" /\ ~whole => log = {}

\* While an image is written, RAM now, and what the image has, are values of the capture.
Captured(p) ==
    /\ Capturing => ram[p] \in heldPages[p]
    /\ (Capturing \/ phase = "done") /\ p \in DOMAIN image => image[p] \in heldPages[p]
    /\ (phase = "walk" /\ Copied(p)) \/ phase = "done" => Reads(p) \in heldPages[p]

CaptureKept == RamType /\ Tracked /\ \A p \in Pages : Captured(p)

\* A page is a region and a place in it, both from one.
LEMMA PageFacts ==
    ASSUME NEW p
    PROVE  p \in Pages <=> /\ p = <<p[1], p[2]>> /\ p[1] \in 1 .. Len(REGIONS)
                           /\ p[2] \in 1 .. REGIONS[p[1]]
<1>1. ASSUME p \in Pages
      PROVE  p = <<p[1], p[2]>> /\ p[1] \in 1 .. Len(REGIONS) /\ p[2] \in 1 .. REGIONS[p[1]]
  <2>1. PICK r \in 1 .. Len(REGIONS) : \E n \in 1 .. REGIONS[r] : p = <<r, n>> BY <1>1, Zenon DEF Pages
  <2>2. PICK n \in 1 .. REGIONS[r] : p = <<r, n>> BY <2>1, Zenon
  <2>3. QED BY <2>2, Zenon
<1>2. ASSUME p = <<p[1], p[2]>>, p[1] \in 1 .. Len(REGIONS), p[2] \in 1 .. REGIONS[p[1]]
      PROVE  p \in Pages
  BY <1>2 DEF Pages
<1>3. QED BY <1>1, <1>2, Zenon

\* There is a region, and each has a number of pages.
LEMMA RegionFacts ==
    /\ Len(REGIONS) \in Nat /\ Len(REGIONS) > 0
    /\ \A r \in 1 .. Len(REGIONS) : REGIONS[r] \in Nat
BY DirtyAssumption

\* A change to RAM that leaves every page neither marked nor logged as at assembly.
LEMMA ChangedStep ==
    ASSUME CaptureKept, NEW new, Changed(new), new = [p \in Pages |-> new[p]],
           UNCHANGED <<base, phase, whole, near, image>>,
           log' \subseteq Pages, log' = log \/ phase = "run",
           \A p \in Pages : p \notin marks' /\ p \notin log' => new[p] = base[p]
    PROVE  CaptureKept'
<1>1. /\ ram' = new
      /\ heldPages' = IF Capturing THEN [p \in Pages |-> heldPages[p] \cup {new[p]}] ELSE heldPages
  BY Zenon DEF Changed
<1>2. RamType' BY <1>1, ZenonT(30) DEF CaptureKept, RamType
<1>3. Tracked' BY <1>1, Zenon DEF CaptureKept, Tracked
<1>4. ASSUME NEW p \in Pages PROVE Captured(p)'
  <2>1. Captured(p) BY Zenon DEF CaptureKept
  <2>2. heldPages[p] \subseteq heldPages'[p] BY <1>1, Zenon
  <2>3. Capturing' => new[p] \in heldPages'[p] BY <1>1, Zenon DEF Capturing
  <2>4. /\ Capturing' <=> Capturing
        /\ Copied(p)' <=> Copied(p)
        /\ Reads(p)' = Reads(p)
    BY Zenon DEF Capturing, Copied, Reads
  <2>5. QED BY <1>1, <2>1, <2>2, <2>3, <2>4, Zenon DEF Captured
<1>5. QED BY <1>2, <1>3, <1>4, Zenon DEF CaptureKept

\* A vCPU, a device or the balloon changes RAM.
LEMMA WriteSteps ==
    ASSUME CaptureKept, GuestWrite \/ HostWrite \/ Discard
    PROVE  CaptureKept'
<1>0. /\ log \subseteq Pages /\ ram = [p \in Pages |-> ram[p]]
      /\ \A p \in Pages : p \notin marks /\ p \notin log => ram[p] = base[p]
  BY Zenon DEF CaptureKept, RamType, Tracked
<1>1. CASE GuestWrite
  <2>1. PICK q \in Pages, v \in {0, 2} : Changed([ram EXCEPT ![q] = v]) /\ log' = log \cup {q}
    BY <1>1, Zenon DEF GuestWrite
  <2>2. phase = "run" /\ UNCHANGED <<base, marks, phase, whole, near, image>> BY <1>1, Zenon DEF GuestWrite
  <2>3. PICK new : new = [ram EXCEPT ![q] = v] BY ZenonT(30)
  <2>4. new = [p \in Pages |-> new[p]] /\ \A p \in Pages : p # q => new[p] = ram[p] BY <1>0, <2>3, Zenon
  <2>5. QED BY <1>0, <2>1, <2>2, <2>3, <2>4, ChangedStep, Zenon
<1>2. CASE HostWrite
  <2>1. PICK q \in Pages : Changed([ram EXCEPT ![q] = 3]) /\ marks' = marks \cup {q}
    BY <1>2, Zenon DEF HostWrite
  <2>2. UNCHANGED <<base, log, phase, whole, near, image>> BY <1>2, Zenon DEF HostWrite
  <2>3. PICK new : new = [ram EXCEPT ![q] = 3] BY ZenonT(30)
  <2>4. new = [p \in Pages |-> new[p]] /\ \A p \in Pages : p # q => new[p] = ram[p] BY <1>0, <2>3, Zenon
  <2>5. QED BY <1>0, <2>1, <2>2, <2>3, <2>4, ChangedStep, Zenon
<1>3. CASE Discard
  <2>1. PICK range \in Reported :
          /\ Changed([p \in Pages |-> IF p \in range THEN base[p] ELSE ram[p]])
          /\ marks' = marks \ range
    BY <1>3, Zenon DEF Discard
  <2>2. UNCHANGED <<base, log, phase, whole, near, image>> BY <1>3, Zenon DEF Discard
  <2>3. PICK new : new = [p \in Pages |-> IF p \in range THEN base[p] ELSE ram[p]] BY ZenonT(30)
  <2>4. new = [p \in Pages |-> new[p]]
        /\ \A p \in Pages : new[p] = IF p \in range THEN base[p] ELSE ram[p]
    BY <2>3, Zenon
  <2>5. QED BY <1>0, <2>1, <2>2, <2>3, <2>4, ChangedStep, Zenon
<1>4. QED BY <1>1, <1>2, <1>3, Zenon

\* The log of the next region is read and marked.
LEMMA LogStep ==
    ASSUME CaptureKept, GetDirtyLog
    PROVE  CaptureKept'
<1>1. /\ phase = "log" /\ ~whole /\ marks' = marks \cup {p \in log : p[1] = near[1]}
      /\ log' = {p \in log : p[1] # near[1]}
      /\ UNCHANGED <<base, ram, whole, image, heldPages, changes>>
      /\ IF near[1] = Len(REGIONS) THEN near' = <<1, 0>> /\ phase' = "walk"
         ELSE near' = <<near[1] + 1, 0>> /\ phase' = phase
  BY Zenon DEF GetDirtyLog, Mark, CaptureKept, Tracked
<1>2. near[1] \in 1 .. Len(REGIONS) /\ log \subseteq Pages BY Zenon DEF CaptureKept, RamType
<1>3. RamType' BY <1>1, <1>2, RegionFacts, SMTT(60) DEF CaptureKept, RamType
<1>4. Tracked'
  <2>1. \A p \in Pages : p \notin marks' /\ p \notin log' => ram'[p] = base'[p]
    BY <1>1, Zenon DEF CaptureKept, Tracked
  <2>2. \A p \in log : p[1] \in Int /\ near[1] <= p[1] /\ p[1] <= Len(REGIONS)
    BY <1>1, <1>2, RegionFacts, PageFacts DEF CaptureKept, Tracked
  <2>3. phase' = "walk" => log' = {} BY <1>1, <1>2, <2>2, RegionFacts
  <2>4. phase' = "log" => \A p \in log' : p[1] >= near'[1] BY <1>1, <1>2, <2>2, RegionFacts
  <2>5. QED BY <1>1, <2>1, <2>3, <2>4, Zenon DEF Tracked
<1>5. ASSUME NEW p \in Pages PROVE Captured(p)'
  <2>1. Captured(p) /\ p[1] >= 1 /\ p[2] >= 1 /\ p[1] \in Int /\ p[2] \in Int
    BY PageFacts, RegionFacts DEF CaptureKept
  <2>2. phase' = "walk" => ~Copied(p)' BY <1>1, <2>1 DEF Copied
  <2>3. QED BY <1>1, <2>1, <2>2, Zenon DEF Captured, Capturing
<1>6. QED BY <1>3, <1>4, <1>5, Zenon DEF CaptureKept

\* A chunk is written.
LEMMA ChunkStep ==
    ASSUME CaptureKept, WriteChunk
    PROVE  CaptureKept'
<1>1. /\ phase = "walk" /\ near = <<near[1], near[2]>> /\ near[1] \in 1 .. Len(REGIONS)
      /\ near[2] \in 0 .. REGIONS[near[1]] /\ REGIONS[near[1]] \in Nat /\ Len(REGIONS) \in Nat
      /\ Len(REGIONS) > 0
  BY RegionFacts, Zenon DEF WriteChunk, CaptureKept, RamType
<1>2. ChunkEnd \in near[2] .. REGIONS[near[1]]
  BY <1>1, DirtyAssumption, SMTT(60) DEF ChunkEnd
<1>3. /\ IF ChunkEnd < REGIONS[near[1]] THEN near' = <<near[1], ChunkEnd>> /\ phase' = phase
         ELSE IF near[1] < Len(REGIONS) THEN near' = <<near[1] + 1, 0>> /\ phase' = phase
         ELSE near' = <<1, 0>> /\ phase' = "done"
      /\ UNCHANGED <<base, ram, log, marks, whole, heldPages, changes>>
      /\ DOMAIN image' = DOMAIN image \cup Kept
      /\ \A p \in DOMAIN image' : image'[p] = IF p \in Kept THEN ram[p] ELSE image[p]
  BY Zenon DEF WriteChunk
<1>4. RamType' BY <1>1, <1>2, <1>3, RegionFacts DEF CaptureKept, RamType
<1>5. Tracked' BY <1>1, <1>3, Zenon DEF CaptureKept, Tracked
<1>6. ASSUME NEW p \in Pages PROVE Captured(p)'
  <2>1. /\ Captured(p) /\ p = <<p[1], p[2]>> /\ p[1] \in 1 .. Len(REGIONS)
        /\ p[2] \in 1 .. REGIONS[p[1]] /\ REGIONS[p[1]] \in Nat
    BY PageFacts, RegionFacts, Zenon DEF CaptureKept
  <2>2. /\ ram[p] \in heldPages[p]
        /\ p \in DOMAIN image => image[p] \in heldPages[p]
        /\ Copied(p) => Reads(p) \in heldPages[p]
    BY <1>1, <2>1, Zenon DEF Captured, Capturing
  <2>3. p \in DOMAIN image' => image'[p] \in heldPages'[p]
    BY <1>3, <2>2, Zenon
  <2>4. ASSUME phase' = "done" \/ Copied(p)' PROVE Copied(p) \/ p \in Chunk
    <3>1. p[1] < near[1] \/ (p[1] = near[1] /\ p[2] <= ChunkEnd)
      BY <1>1, <1>2, <1>3, <2>1, <2>4, SMTT(60) DEF Copied
    <3>2. p[1] = near[1] /\ p[2] \in near[2] + 1 .. ChunkEnd => p \in Chunk
      BY <2>1, Zenon DEF Chunk
    <3>3. QED BY <1>1, <1>2, <2>1, <3>1, <3>2 DEF Copied
  <2>5. ASSUME Copied(p) PROVE Reads(p)' \in heldPages'[p]
    BY <1>3, <2>2, <2>5, Zenon DEF Reads
  <2>6. ASSUME p \in Chunk PROVE Reads(p)' \in heldPages'[p]
    <3>1. CASE p \in DOMAIN image' BY <1>3, <2>3, <3>1, Zenon DEF Reads
    <3>2. CASE p \notin DOMAIN image'
      <4>1. whole => ram[p] = 0 BY <1>3, <2>6, <3>2, Zenon DEF Kept
      <4>2. ~whole => p \notin marks /\ log = {}
        BY <1>1, <1>3, <2>6, <3>2, Zenon DEF Kept, CaptureKept, Tracked
      <4>3. ~whole => ram[p] = base[p] BY <4>2, Zenon DEF CaptureKept, Tracked
      <4>4. QED BY <1>3, <2>2, <3>2, <4>1, <4>3, Zenon DEF Reads
    <3>3. QED BY <3>1, <3>2, Zenon
  <2>7. QED BY <1>3, <2>2, <2>3, <2>4, <2>5, <2>6, Zenon DEF Captured
<1>7. QED BY <1>4, <1>5, <1>6, Zenon DEF CaptureKept

\* Every step keeps what a capture has.
LEMMA DirtyStep ==
    ASSUME CaptureKept, [DirtyNext]_dirtyVars
    PROVE  CaptureKept'
<1>0. /\ Len(REGIONS) \in Nat /\ Len(REGIONS) > 0 /\ REGIONS[1] \in Nat BY RegionFacts
<1>1. CASE Map
  <2>1. /\ phase' = "run" /\ ram' = base' /\ base' = [p \in Pages |-> base'[p]]
        /\ UNCHANGED <<log, marks, whole, near, image, heldPages, changes>>
    BY <1>1, Zenon DEF Map
  <2>2. RamType' /\ Tracked' BY <2>1, Zenon DEF CaptureKept, RamType, Tracked
  <2>3. QED BY <2>1, <2>2, Zenon DEF CaptureKept, Captured, Capturing
<1>2. CASE Pause \/ Resume
  <2>1. /\ phase' \in {"run", "hold"}
        /\ UNCHANGED <<base, ram, log, marks, whole, near, image, heldPages, changes>>
    BY <1>2, Zenon DEF Pause, Resume
  <2>2. RamType' /\ Tracked' BY <2>1, Zenon DEF CaptureKept, RamType, Tracked
  <2>3. QED BY <2>1, <2>2, Zenon DEF CaptureKept, Captured, Capturing
<1>3. CASE WriteMemory \/ WriteDirty
  <2>1. /\ whole' \in BOOLEAN /\ phase' = IF whole' THEN "walk" ELSE "log"
        /\ near' = <<1, 0>> /\ image' = Clean /\ heldPages' = [p \in Pages |-> {ram[p]}]
        /\ UNCHANGED <<base, ram, log, marks, changes>>
    BY <1>3, ZenonT(30) DEF WriteMemory, WriteDirty, Begin
  <2>2. RamType' BY <1>0, <2>1 DEF CaptureKept, RamType
  <2>3. \A p \in Pages : p[1] >= 1 /\ p[2] >= 1 /\ p[1] \in Int /\ p[2] \in Int
    BY PageFacts, RegionFacts
  <2>4. \A p \in log' : p[1] >= near'[1] BY <2>1, <2>3, Zenon DEF CaptureKept, RamType
  <2>5. Tracked' BY <2>1, <2>4, Zenon DEF CaptureKept, Tracked
  <2>6. ASSUME NEW p \in Pages PROVE Captured(p)'
    <3>1. ~Copied(p)' BY <2>1, <2>3 DEF Copied
    <3>2. p \notin DOMAIN image' /\ ram'[p] \in heldPages'[p] BY <2>1, Zenon DEF Clean
    <3>3. QED BY <2>1, <3>1, <3>2, Zenon DEF Captured
  <2>7. QED BY <2>2, <2>5, <2>6, Zenon DEF CaptureKept
<1>4. CASE CloseImage \/ Fail
  <2>1. /\ phase' = "hold" /\ near' = <<1, 0>> /\ heldPages' = [p \in Pages |-> {}]
        /\ UNCHANGED <<base, ram, log, marks, whole, changes>>
    BY <1>4, Zenon DEF CloseImage, Fail, Forget
  <2>2. RamType' /\ Tracked' BY <1>0, <2>1 DEF CaptureKept, RamType, Tracked
  <2>3. QED BY <2>1, <2>2, Zenon DEF CaptureKept, Captured, Capturing
<1>5. CASE UNCHANGED dirtyVars
  BY <1>5, Zenon DEF dirtyVars, CaptureKept, RamType, Tracked, Captured, Capturing, Copied, Reads
<1>6. QED BY <1>1, <1>2, <1>3, <1>4, <1>5, WriteSteps, LogStep, ChunkStep, Zenon DEF DirtyNext

\* For any regions, chunk and host page, and however many changes: a complete image, over
\* the RAM the guest was assembled on, gives every page a value it had during the capture
\* (Machine::write_memory, write_dirty, GuestRam::mark and discard).
THEOREM ImagesAreRam == DirtySpec => []ImageIsRam
<1>1. DirtyInit => CaptureKept
  <2> SUFFICES ASSUME DirtyInit PROVE CaptureKept OBVIOUS
  <2>1. near[1] = 1 /\ near[2] = 0 /\ near = <<1, 0>> /\ REGIONS[1] \in Nat /\ 1 \in 1 .. Len(REGIONS)
    BY RegionFacts DEF DirtyInit
  <2>2. RamType
    <3>1. /\ ram = [p \in Pages |-> ram[p]] /\ base = [p \in Pages |-> base[p]]
          /\ heldPages = [p \in Pages |-> heldPages[p]]
      BY Zenon DEF DirtyInit
    <3>2. near[1] \in 1 .. Len(REGIONS) /\ near[2] \in 0 .. REGIONS[near[1]] /\ near = <<near[1], near[2]>>
      BY <2>1
    <3>3. phase = "new" /\ whole = FALSE /\ log = {} BY Zenon DEF DirtyInit
    <3>4. QED BY <3>1, <3>2, <3>3, Zenon DEF RamType
  <2>3. Tracked BY Zenon DEF DirtyInit, Tracked
  <2>4. QED BY <2>2, <2>3, Zenon DEF DirtyInit, CaptureKept, Captured, Capturing
<1>2. CaptureKept /\ [DirtyNext]_dirtyVars => CaptureKept'
  BY DirtyStep, Zenon
<1>3. CaptureKept => ImageIsRam
  BY Zenon DEF CaptureKept, Captured, ImageIsRam
<1>4. QED BY <1>1, <1>2, <1>3, PTL DEF DirtySpec

-----------------------------------------------------------------------------
Placement == [space : Spaces, base : Nat, size : Nat, device : {"pm1", "i8042", "other"}]

Refused == Nat \X {"bad range", "overlap"}

\* What `place` keeps of a space: the ranges it accepted are in bounds and pairwise apart.
RangesKept(devices) ==
    /\ devices \in Seq(Placement)
    /\ \A i \in DOMAIN devices : devices[i].size > 0 /\ devices[i].base + devices[i].size <= TOP
    /\ \A i, j \in DOMAIN devices : i # j => ~Overlaps(devices[i], devices[j])

\* A refusal names a placement and, for an overlap, the accepted range it meets.
RefusalKept(r) ==
    r[2] = "overlap" =>
        /\ r[1] \in 1..Len(PLACEMENTS)
        /\ PLACEMENTS[r[1]].size > 0 /\ PLACEMENTS[r[1]].base + PLACEMENTS[r[1]].size <= TOP
        /\ \E i \in DOMAIN placed[PLACEMENTS[r[1]].space] :
               Overlaps(PLACEMENTS[r[1]], placed[PLACEMENTS[r[1]].space][i])

\* The last access is what `find` says of it today, and an exit belongs to that access.
AccessKept ==
    access # Unclaimed =>
        /\ access.space \in Spaces /\ access.addr \in Nat
        /\ building > Len(PLACEMENTS)
        /\ access = Find(access.space, access.addr)
        /\ busExit = "shutdown" => access.device = "pm1" /\ access.offset = 4
        /\ busExit = "reboot" => access.device = "i8042"

BusKept ==
    /\ building \in Nat \ {0}
    /\ placed \in [Spaces -> Seq(Placement)]
    /\ \A s \in Spaces : RangesKept(placed[s])
    /\ refusals \in Seq(Refused)
    /\ \A k \in DOMAIN refusals : RefusalKept(refusals[k])
    /\ enable # "all ones" /\ pm1Blob # "all ones"
    /\ AccessKept

\* Two ranges that overlap share an address: the higher of the two bases.
LEMMA SharedAddress ==
    ASSUME NEW p \in Placement, NEW q \in Placement, p.size > 0, q.size > 0, Overlaps(p, q),
           p.base + p.size <= TOP, q.base + q.size <= TOP
    PROVE  \E addr \in 0..TOP : Covers(p, addr) /\ Covers(q, addr)
<1>1. p.base \in Nat /\ q.base \in Nat /\ p.size \in Nat /\ q.size \in Nat BY Zenon DEF Placement
<1>2. TOP \in Nat BY BusAssumption, Zenon
<1>3. CASE p.base <= q.base
    <2>1. q.base \in 0..TOP /\ Covers(p, q.base) /\ Covers(q, q.base)
        BY <1>1, <1>2, <1>3 DEF Overlaps, Covers
    <2> QED BY <2>1, Zenon
<1>4. CASE q.base < p.base
    <2>1. p.base \in 0..TOP /\ Covers(p, p.base) /\ Covers(q, p.base)
        BY <1>1, <1>2, <1>4 DEF Overlaps, Covers
    <2> QED BY <2>1, Zenon
<1> QED BY <1>1, <1>3, <1>4

\* Two ranges that share an address overlap, which `place` refuses.
LEMMA SharedOverlaps ==
    ASSUME NEW p \in Placement, NEW q \in Placement, NEW addr \in Int, Covers(p, addr), Covers(q, addr)
    PROVE  Overlaps(p, q)
<1>1. p.base \in Nat /\ q.base \in Nat /\ p.size \in Nat /\ q.size \in Nat BY Zenon DEF Placement
<1> QED BY <1>1 DEF Overlaps, Covers

\* In kept ranges at most one device has an address, so the first that `find` meets is the owner.
LEMMA FoundOwner ==
    ASSUME NEW space \in Spaces, NEW addr \in Nat, RangesKept(placed[space]), Hits(space, addr) # {}
    PROVE  First(Hits(space, addr)) \in Hits(space, addr)
<1>1. PICK i \in Hits(space, addr) : TRUE OBVIOUS
<1>2. ASSUME NEW j \in Hits(space, addr) PROVE j = i
    <2>1. i \in DOMAIN placed[space] /\ j \in DOMAIN placed[space]
        BY <1>1, Zenon DEF Hits
    <2>2. placed[space][i] \in Placement /\ placed[space][j] \in Placement
        BY <2>1 DEF RangesKept
    <2>3. Covers(placed[space][i], addr) /\ Covers(placed[space][j], addr)
        BY <1>1, Zenon DEF Hits
    <2>4. Overlaps(placed[space][i], placed[space][j])
        BY <2>2, <2>3, SharedOverlaps
    <2> QED BY <2>1, <2>4, Zenon DEF RangesKept
<1>3. i \in Nat BY <1>1 DEF Hits, RangesKept
<1>4. \A j \in Hits(space, addr) : i <= j BY <1>2, <1>3
<1> QED BY <1>1, <1>4, Zenon DEF First

\* Nobody's address is answered by the floating bus, an owned one by its owner.
LEMMA FoundDevice ==
    ASSUME NEW space \in Spaces, NEW addr \in Nat, RangesKept(placed[space])
    PROVE  /\ Find(space, addr).space = space /\ Find(space, addr).addr = addr
           /\ Find(space, addr).device = "none" <=> ~\E p \in Devices(space) : Covers(p, addr)
           /\ Find(space, addr).device \in {"none", "pm1", "i8042", "other"}
<1>1. CASE Hits(space, addr) = {}
    <2>1. ~\E p \in Devices(space) : Covers(p, addr) BY <1>1, Zenon DEF Hits, Devices
    <2> QED BY <1>1, <2>1, Zenon DEF Find
<1>2. CASE Hits(space, addr) # {}
    <2>1. PICK i \in Hits(space, addr) : i = First(Hits(space, addr)) BY <1>2, FoundOwner, Zenon
    <2>2. i \in DOMAIN placed[space] /\ Covers(placed[space][i], addr) BY <2>1, Zenon DEF Hits
    <2>3. placed[space][i] \in Placement BY <2>2 DEF RangesKept
    <2>4. placed[space][i].device \in {"pm1", "i8042", "other"} BY <2>3, Zenon DEF Placement
    <2>5. \E p \in Devices(space) : Covers(p, addr) BY <2>2, Zenon DEF Devices
    <2>6. Find(space, addr) = [space |-> space, addr |-> addr, device |-> placed[space][i].device,
                               offset |-> addr - placed[space][i].base]
        BY <1>2, <2>1, Zenon DEF Find
    <2>7. /\ Find(space, addr).space = space /\ Find(space, addr).addr = addr
          /\ Find(space, addr).device = placed[space][i].device
        BY <2>6, SMTT(30)
    <2> QED BY <2>4, <2>5, <2>7, Zenon
<1> QED BY <1>1, <1>2, Zenon

\* A placement either joins its space apart from every device in it or is refused for a reason.
LEMMA PlaceStep == ASSUME BusKept, PlaceDevice PROVE BusKept'
<1> DEFINE p == PLACEMENTS[building]
<1>1. PLACEMENTS \in Seq(Placement) BY BusAssumption, Zenon DEF Placement
<1>2. building \in Nat \ {0} /\ building <= Len(PLACEMENTS) BY Zenon DEF PlaceDevice, BusKept
<1>3. Len(PLACEMENTS) \in Nat /\ building \in Nat \ {0} /\ building <= Len(PLACEMENTS) BY <1>1, <1>2
<1>4. building \in 1..Len(PLACEMENTS) /\ PLACEMENTS \in Seq(Placement) BY <1>1, <1>3
<1>5. p \in Placement BY <1>4
<1>6. p.space \in Spaces /\ p.base \in Nat /\ p.size \in Nat /\ TOP \in Nat
    BY <1>5, BusAssumption, Zenon DEF Placement
<1>7. building' \in Nat \ {0} BY <1>4 DEF PlaceDevice
<1>8. enable' # "all ones" /\ pm1Blob' # "all ones" BY Zenon DEF PlaceDevice, BusKept
<1>9. AccessKept'
    <2>1. ~(building > Len(PLACEMENTS)) BY <1>3
    <2>2. access = Unclaimed BY <2>1, Zenon DEF BusKept, AccessKept
    <2>3. access' = Unclaimed' BY <2>2, Zenon DEF PlaceDevice, Unclaimed
    <2> QED BY <2>3, Zenon DEF AccessKept
<1>10. CASE Refusal(p) = "none"
    <2>1. placed' = [placed EXCEPT ![p.space] = Append(placed[p.space], p)] /\ refusals' = refusals
        BY <1>10, Zenon DEF PlaceDevice
    <2>2. p.size > 0 /\ p.base + p.size <= TOP /\ ~\E q \in Devices(p.space) : Overlaps(p, q)
        BY <1>6, <1>10 DEF Refusal
    <2>3. \A i \in DOMAIN placed[p.space] : ~Overlaps(p, placed[p.space][i])
        BY <2>2, Zenon DEF Devices
    <2>4. placed[p.space] \in Seq(Placement) /\ RangesKept(placed[p.space])
        BY <1>6, Zenon DEF BusKept
    <2>5. Append(placed[p.space], p) \in Seq(Placement) BY <1>5, <2>4
    <2>6. placed' \in [Spaces -> Seq(Placement)]
        BY <1>6, <2>1, <2>5, Zenon DEF BusKept
    <2>7. RangesKept(Append(placed[p.space], p))
        <3> DEFINE n == Len(placed[p.space]) + 1  d == Append(placed[p.space], p)
        <3>1. /\ DOMAIN d = 1..n /\ DOMAIN placed[p.space] = 1..(n - 1) /\ n \in Nat
              /\ d[n] = p /\ \A i \in 1..(n - 1) : d[i] = placed[p.space][i]
            BY <1>5, <2>4
        <3> HIDE DEF d
        <3>2. \A i \in DOMAIN d : i = n \/ i \in 1..(n - 1) BY <3>1
        <3>3. \A i \in DOMAIN d : d[i].size > 0 /\ d[i].base + d[i].size <= TOP
            BY <2>2, <2>4, <3>1, <3>2, Zenon DEF RangesKept
        <3>4. ASSUME NEW i \in DOMAIN d, NEW j \in DOMAIN d, i # j PROVE ~Overlaps(d[i], d[j])
            <4>1. CASE i = n
                <5>1. j \in DOMAIN placed[p.space] /\ d[j] = placed[p.space][j] BY <3>1, <3>2, <3>4, <4>1, Zenon
                <5> QED BY <2>3, <3>1, <4>1, <5>1, Zenon
            <4>2. CASE j = n
                <5>1. i \in DOMAIN placed[p.space] /\ d[i] = placed[p.space][i] BY <3>1, <3>2, <3>4, <4>2, Zenon
                <5>2. ~Overlaps(p, d[i]) BY <2>3, <5>1, Zenon
                <5> QED BY <3>1, <4>2, <5>2, Zenon DEF Overlaps
            <4>3. CASE i # n /\ j # n
                <5>1. /\ i \in DOMAIN placed[p.space] /\ d[i] = placed[p.space][i]
                      /\ j \in DOMAIN placed[p.space] /\ d[j] = placed[p.space][j]
                    BY <3>1, <3>2, <4>3, Zenon
                <5> QED BY <2>4, <3>4, <5>1, Zenon DEF RangesKept
            <4> QED BY <4>1, <4>2, <4>3, Zenon
        <3>5. d \in Seq(Placement) BY <2>5, Zenon DEF d
        <3>6. RangesKept(d) BY <3>3, <3>4, <3>5, Zenon DEF RangesKept
        <3> QED BY <3>6, Zenon DEF d
    <2>8. \A s \in Spaces : placed'[s] = IF s = p.space THEN Append(placed[p.space], p) ELSE placed[s]
        BY <2>1, Zenon DEF BusKept
    <2>9. \A s \in Spaces : RangesKept(placed'[s])
        BY <2>7, <2>8, Zenon DEF BusKept
    <2>10. (\A s \in Spaces : RangesKept(placed[s]))' BY <2>9, Zenon DEF RangesKept, Overlaps
    <2>11. ASSUME NEW k \in DOMAIN refusals PROVE RefusalKept(refusals[k])'
        <3> DEFINE r == PLACEMENTS[refusals[k][1]]
        <3>1. SUFFICES ASSUME refusals[k][2] = "overlap"
                       PROVE \E i \in DOMAIN placed'[r.space] : Overlaps(r, placed'[r.space][i])
            BY <2>1, <2>11, Zenon DEF RefusalKept, BusKept, Overlaps
        <3>2. PICK i \in DOMAIN placed[r.space] : Overlaps(r, placed[r.space][i])
            BY <2>11, <3>1, Zenon DEF RefusalKept, BusKept
        <3>3. refusals[k][1] \in 1..Len(PLACEMENTS) BY <2>11, <3>1, Zenon DEF RefusalKept, BusKept
        <3>4. r \in Placement BY <1>1, <3>3
        <3>5. r.space \in Spaces BY <3>4, Zenon DEF Placement
        <3>6. placed[r.space] \in Seq(Placement) BY <3>5, Zenon DEF BusKept
        <3>7. CASE r.space = p.space
            <4>1. placed'[r.space] = Append(placed[r.space], p) BY <2>8, <3>5, <3>7, Zenon
            <4>2. i \in DOMAIN Append(placed[r.space], p) /\ Append(placed[r.space], p)[i] = placed[r.space][i]
                <5> DEFINE d == placed[r.space]
                <5>1. d \in Seq(Placement) /\ i \in DOMAIN d BY <3>2, <3>6, Zenon
                <5> HIDE DEF d, p
                <5>2. i \in DOMAIN Append(d, p) /\ Append(d, p)[i] = d[i] BY <1>5, <5>1
                <5> QED BY <5>2, Zenon DEF d
            <4> QED BY <3>2, <4>1, <4>2, Zenon
        <3>8. CASE r.space # p.space
            <4>1. placed'[r.space] = placed[r.space] BY <2>8, <3>5, <3>8, Zenon
            <4> QED BY <3>2, <4>1, Zenon
        <3> QED BY <3>7, <3>8, Zenon
    <2>12. (\A k \in DOMAIN refusals : RefusalKept(refusals[k]))' BY <2>1, <2>11, Zenon
    <2>13. (refusals \in Seq(Refused))' BY <2>1, Zenon DEF BusKept
    <2> QED BY <1>7, <1>8, <1>9, <2>6, <2>10, <2>12, <2>13, Zenon DEF BusKept, Placement, Spaces
<1>11. CASE Refusal(p) # "none"
    <2>1. refusals' = Append(refusals, <<building, Refusal(p)>>) /\ placed' = placed
        BY <1>11, Zenon DEF PlaceDevice
    <2>2. Refusal(p) \in {"bad range", "overlap"} BY <1>11, Zenon DEF Refusal
    <2> DEFINE e == <<building, Refusal(p)>>
    <2>3. e \in Refused BY <1>3, <2>2, Zenon DEF Refused
    <2> HIDE DEF e
    <2>4. refusals \in Seq(Refused) BY Zenon DEF BusKept
    <2>5. /\ Append(refusals, e) \in Seq(Refused)
          /\ \A k \in DOMAIN Append(refusals, e) :
                 Append(refusals, e)[k] = IF k \in DOMAIN refusals THEN refusals[k] ELSE e
        BY <2>3, <2>4
    <2>6. refusals' = Append(refusals, e) BY <2>1, Zenon DEF e
    <2>7. refusals' \in Seq(Refused) BY <2>5, <2>6, Zenon
    <2>8. (\A s \in Spaces : RangesKept(placed[s]))' BY <2>1, ZenonT(30) DEF BusKept, RangesKept, Overlaps
    <2>9. ASSUME NEW k \in DOMAIN refusals' PROVE RefusalKept(refusals[k])'
        <3>1. CASE k \in DOMAIN refusals
            <4>1. refusals'[k] = refusals[k] BY <2>9, <2>5, <2>6, <3>1, Zenon
            <4>2. RefusalKept(refusals[k]) BY <3>1, Zenon DEF BusKept
            <4> QED BY <2>1, <4>1, <4>2, Zenon DEF RefusalKept, Overlaps
        <3>2. CASE k \notin DOMAIN refusals
            <4>1. refusals'[k] = e BY <2>9, <2>5, <2>6, <3>2, Zenon
            <4>2. e[1] = building /\ e[2] = Refusal(p) BY Zenon DEF e
            <4>3. refusals'[k][1] = building /\ refusals'[k][2] = Refusal(p) BY <4>1, <4>2, Zenon
            <4>4. SUFFICES ASSUME Refusal(p) = "overlap"
                           PROVE /\ p.size > 0 /\ p.base + p.size <= TOP
                                 /\ \E i \in DOMAIN placed[p.space] : Overlaps(p, placed[p.space][i])
                BY <1>4, <2>1, <4>3, Zenon DEF RefusalKept, Overlaps
            <4>5. p.size > 0 /\ p.base + p.size <= TOP /\ \E q \in Devices(p.space) : Overlaps(p, q)
                BY <1>6, <4>4, Zenon DEF Refusal
            <4> QED BY <4>5, Zenon DEF Devices
        <3> QED BY <3>1, <3>2, Zenon
    <2>10. (\A k \in DOMAIN refusals : RefusalKept(refusals[k]))' BY <2>9, Zenon
    <2>11. placed' \in [Spaces -> Seq(Placement)] BY <2>1, Zenon DEF BusKept
    <2> QED BY <1>7, <1>8, <1>9, <2>7, <2>8, <2>10, <2>11, Zenon DEF BusKept, Placement, Spaces
<1> QED BY <1>10, <1>11, Zenon

\* An access goes where `find` says, and ends the run only at a register that does.
LEMMA WriteStep ==
    ASSUME BusKept, NEW space \in Spaces, NEW addr \in 0..TOP, NEW word \in STORES,
           Write(space, addr, word)
    PROVE  BusKept'
<1>1. TOP \in Nat BY BusAssumption, Zenon
<1>2. addr \in Nat BY <1>1
<1>3. word # "all ones" BY BusAssumption, Zenon
<1>4. /\ placed' = placed /\ refusals' = refusals /\ building' = building /\ pm1Blob' = pm1Blob
      /\ access' = Find(space, addr) /\ enable' \in {word, enable}
      /\ building > Len(PLACEMENTS)
    BY Zenon DEF Write, Assembled
<1>5. /\ busExit' = "shutdown" => access'.device = "pm1" /\ access'.offset = 4
      /\ busExit' = "reboot" => access'.device = "i8042"
    BY Zenon DEF Write
<1>6. access'.space = space /\ access'.addr = addr
    BY <1>2, <1>4, FoundDevice, Zenon DEF BusKept
<1>7. Find(space, addr)' = Find(space, addr)
    BY <1>4, ZenonT(30) DEF Find, Hits, Covers, First
<1>8. Find(access.space, access.addr)' = access'
    BY <1>4, <1>6, <1>7, ZenonT(60) DEF Find, Hits, Covers, First
<1>9. AccessKept' BY <1>2, <1>4, <1>5, <1>6, <1>8, Zenon DEF AccessKept, Spaces
<1>10. enable' # "all ones" /\ pm1Blob' # "all ones" BY <1>3, <1>4, Zenon DEF BusKept
<1>11. (\A s \in Spaces : RangesKept(placed[s]))' BY <1>4, Zenon DEF BusKept, RangesKept, Overlaps
<1>12. (\A k \in DOMAIN refusals : RefusalKept(refusals[k]))'
    BY <1>4, Zenon DEF BusKept, RefusalKept, Overlaps
<1>13. /\ (building \in Nat \ {0})' /\ (placed \in [Spaces -> Seq(Placement)])'
       /\ (refusals \in Seq(Refused))'
    BY <1>4, Zenon DEF BusKept
<1> QED BY <1>9, <1>10, <1>11, <1>12, <1>13, Zenon DEF BusKept

\* Capture and restore carry the enable bits over and leave the ranges alone.
LEMMA Pm1Step == ASSUME BusKept, CapturePm1 \/ RestorePm1 PROVE BusKept'
<1>1. placed' = placed /\ refusals' = refusals /\ building' = building
    BY Zenon DEF CapturePm1, RestorePm1
<1>2. enable' # "all ones" /\ pm1Blob' # "all ones"
    BY Zenon DEF BusKept, CapturePm1, RestorePm1
<1>3. AccessKept'
    <2>1. CASE CapturePm1
        <3>1. access' = access /\ busExit' = busExit BY <2>1, Zenon DEF CapturePm1
        <3> QED BY <1>1, <3>1, ZenonT(30) DEF BusKept, AccessKept, Find, Hits, Covers, First, Unclaimed
    <2>2. CASE RestorePm1 BY <2>2, Zenon DEF RestorePm1, AccessKept, Unclaimed
    <2> QED BY <2>1, <2>2, ZenonT(30)
<1>4. (\A s \in Spaces : RangesKept(placed[s]))' BY <1>1, ZenonT(30) DEF BusKept, RangesKept, Overlaps
<1>5. (\A k \in DOMAIN refusals : RefusalKept(refusals[k]))'
    BY <1>1, Zenon DEF BusKept, RefusalKept, Overlaps
<1>6. /\ (building \in Nat \ {0})' /\ (placed \in [Spaces -> Seq(Placement)])'
      /\ (refusals \in Seq(Refused))'
    BY <1>1, Zenon DEF BusKept
<1> QED BY <1>2, <1>3, <1>4, <1>5, <1>6, Zenon DEF BusKept

\* The kept ranges own their addresses.
LEMMA RangesOwn == ASSUME BusKept PROVE AddressesOwned
<1>1. ASSUME NEW s \in Spaces, NEW i \in DOMAIN placed[s], NEW j \in DOMAIN placed[s], i # j,
             NEW addr \in 0..TOP, Covers(placed[s][i], addr), Covers(placed[s][j], addr)
      PROVE  FALSE
    <2>1. RangesKept(placed[s]) BY Zenon DEF BusKept
    <2>2. placed[s][i] \in Placement /\ placed[s][j] \in Placement BY <2>1 DEF RangesKept
    <2>3. TOP \in Nat BY BusAssumption, Zenon
    <2>4. addr \in Int BY <2>3
    <2>5. Overlaps(placed[s][i], placed[s][j]) BY <1>1, <2>2, <2>4, SharedOverlaps, Zenon
    <2> QED BY <1>1, <2>1, <2>5, Zenon DEF RangesKept
<1>2. \A s \in Spaces : \A p \in Devices(s) : p.size > 0 /\ p.base + p.size <= TOP
    BY Zenon DEF BusKept, RangesKept, Devices
<1>3. ASSUME NEW k \in DOMAIN refusals, refusals[k][2] = "overlap"
      PROVE  \E q \in Devices(PLACEMENTS[refusals[k][1]].space), addr \in 0..TOP :
                 Covers(PLACEMENTS[refusals[k][1]], addr) /\ Covers(q, addr)
    <2> DEFINE p == PLACEMENTS[refusals[k][1]]
    <2>1. RefusalKept(refusals[k]) BY Zenon DEF BusKept
    <2>2. PLACEMENTS \in Seq(Placement) BY BusAssumption, ZenonT(30) DEF Placement
    <2>3. p \in Placement BY <1>3, <2>1, <2>2 DEF RefusalKept
    <2>4. p.size > 0 /\ p.base + p.size <= TOP BY <1>3, <2>1, Zenon DEF RefusalKept
    <2>5. PICK i \in DOMAIN placed[p.space] : Overlaps(p, placed[p.space][i])
        BY <1>3, <2>1, Zenon DEF RefusalKept
    <2>6. p.space \in Spaces BY <2>3, Zenon DEF Placement
    <2>7. RangesKept(placed[p.space]) BY <2>6, Zenon DEF BusKept
    <2>8. placed[p.space][i] \in Devices(p.space) BY <2>5, Zenon DEF Devices
    <2> HIDE DEF p
    <2>9. /\ placed[p.space][i] \in Placement /\ placed[p.space][i].size > 0
          /\ placed[p.space][i].base + placed[p.space][i].size <= TOP
        <3>1. placed[p.space] \in Seq(Placement) BY <2>7, Zenon DEF RangesKept
        <3>2. placed[p.space][i] \in Placement BY <2>5, <3>1
        <3> QED BY <2>5, <2>7, <3>2, Zenon DEF RangesKept
    <2>10. \E addr \in 0..TOP : Covers(p, addr) /\ Covers(placed[p.space][i], addr)
        BY <2>3, <2>4, <2>5, <2>9, SharedAddress, Zenon
    <2>11. \E q \in Devices(p.space), addr \in 0..TOP : Covers(p, addr) /\ Covers(q, addr)
        BY <2>8, <2>10, Zenon
    <2> QED BY <2>11, Zenon DEF p
<1> QED BY <1>1, <1>2, <1>3, Zenon DEF AddressesOwned

\* For any list of placements and any highest address: no two devices own an address,
\* what is refused would have broken that, a read floats exactly where no device was placed, and
\* a run ends only at the power-off register of PM1 or the command port of the i8042 (Bus).
THEOREM BusIsSound == BusSpec => []BusSound
<1>1. BusInit => BusKept
    <2> SUFFICES ASSUME BusInit PROVE BusKept OBVIOUS
    <2>1. placed = [s \in Spaces |-> <<>>] /\ refusals = <<>> /\ building = 1 BY Zenon DEF BusInit
    <2>2. placed \in [Spaces -> Seq(Placement)] /\ \A s \in Spaces : placed[s] = <<>> BY <2>1
    <2>3. \A s \in Spaces : RangesKept(placed[s]) BY <2>2 DEF RangesKept
    <2>4. refusals \in Seq(Refused) /\ DOMAIN refusals = {} BY <2>1
    <2>5. enable # "all ones" /\ pm1Blob # "all ones" /\ AccessKept BY Zenon DEF BusInit, AccessKept
    <2>6. building \in Nat \ {0} BY <2>1
    <2>7. \A k \in DOMAIN refusals : RefusalKept(refusals[k]) BY <2>4, Zenon
    <2> QED BY <2>2, <2>3, <2>4, <2>5, <2>6, <2>7, Zenon DEF BusKept
<1>2. BusKept /\ [BusNext]_busVars => BusKept'
    <2> SUFFICES ASSUME BusKept, [BusNext]_busVars PROVE BusKept' OBVIOUS
    <2>1. CASE UNCHANGED busVars
        <3>1. /\ placed' = placed /\ refusals' = refusals /\ building' = building /\ enable' = enable
              /\ pm1Blob' = pm1Blob /\ access' = access /\ busExit' = busExit
            BY <2>1, Zenon DEF busVars
        <3>2. AccessKept' BY <3>1, Zenon DEF BusKept, AccessKept, Find, Hits, Covers, First, Unclaimed
        <3>3. (\A s \in Spaces : RangesKept(placed[s]))' BY <3>1, Zenon DEF BusKept, RangesKept, Overlaps
        <3>4. (\A k \in DOMAIN refusals : RefusalKept(refusals[k]))'
            BY <3>1, Zenon DEF BusKept, RefusalKept, Overlaps
        <3> QED BY <3>1, <3>2, <3>3, <3>4, Zenon DEF BusKept
    <2> QED BY <2>1, PlaceStep, WriteStep, Pm1Step, Zenon DEF BusNext
<1>3. BusKept => BusSound
    <2> SUFFICES ASSUME BusKept PROVE BusSound OBVIOUS
    <2>1. ASSUME access # Unclaimed PROVE EndsAtItsRegister
        <3>1. /\ access.space \in Spaces /\ access.addr \in Nat
              /\ access = Find(access.space, access.addr)
              /\ busExit = "shutdown" => access.device = "pm1" /\ access.offset = 4
              /\ busExit = "reboot" => access.device = "i8042"
            BY <2>1, Zenon DEF BusKept, AccessKept
        <3>2. RangesKept(placed[access.space]) BY <3>1, Zenon DEF BusKept
        <3>3. access.device = "none" <=> ~\E p \in Devices(access.space) : Covers(p, access.addr)
            BY <3>1, <3>2, FoundDevice
        <3>4. ReadsAs(access) = "all ones" <=> access.device = "none"
            BY Zenon DEF ReadsAs, BusKept
        <3> QED BY <3>1, <3>3, <3>4, Zenon DEF EndsAtItsRegister
    <2> QED BY <2>1, RangesOwn, Zenon DEF BusSound
<1> QED BY <1>1, <1>2, <1>3, PTL DEF BusSpec
=============================================================================
