-------------------------------- MODULE Vcpu --------------------------------
(* One vCPU thread: the loop of machine/mod.rs around vcpu::run, which      *)
(* dispatches accesses to the bus and passes answers back, around           *)
(* KvmVcpu::run, which keeps an access open until KVM is entered again.  A  *)
(* string instruction is one KVM exit of several accesses.  Another thread  *)
(* orders the vCPU out: the order, the flag in the run page, a signal.      *)
(* KVM is external: entering it completes the open instruction from the run *)
(* page, and it then leaves at once when the flag is set.                   *)
EXTENDS Integers, Sequences

CONSTANTS
    COUNT,        \* accesses of the longest string instruction
    VALUES,       \* what a device may answer and a guest may write
    ORDERS        \* how many orders are given

\* Answers and writes are machine words, and an instruction has finitely many accesses.
ASSUME VcpuAssumption == VALUES \subseteq Nat /\ COUNT \in Nat

VARIABLES
    page,         \* the exit in the run page: kind, and a slot for each access
    vcpuPending,  \* Pending: the access waiting for its value, 0 for none
    entry,        \* VmEntry: the answer passed in, or Run
    immediate,    \* immediate_exit
    intr,         \* a signal landed inside KVM_RUN
    answers,      \* the bus's answers to the open instruction
    wrote,        \* what the guest writes with it
    seen,         \* what the bus saw of those
    thread,       \* where the thread is
    order,
    asker,        \* where the ordering thread is
    asked         \* orders given

vcpuVars == <<page, vcpuPending, entry, immediate, intr, answers, wrote, seen, thread, order, asker, asked>>

Run == -1       \* VmEntry::Run, no answer
Unset == -2     \* a slot nobody wrote
NoExit == [kind |-> "none", slots |-> <<>>]
Open == page.kind # "none"

VcpuInit ==
    /\ page = NoExit
    /\ vcpuPending = 0
    /\ entry = Run
    /\ immediate = FALSE
    /\ intr = FALSE
    /\ answers = <<>>
    /\ wrote = <<>>
    /\ seen = <<>>
    /\ thread = "run"
    /\ order = "run"
    /\ asker = "idle"
    /\ asked = 0

Asking == <<order, asker, asked>>

-----------------------------------------------------------------------------
\* write_slot and complete_mmio: the answer goes where KVM reads it.
WriteSlot(slots, next, value) == [slots EXCEPT ![next] = value]

\* The answer to the access reported last, if it was a read.
Answered ==
    IF page.kind \in {"in", "mmio_read"} /\ entry # Run
    THEN [page EXCEPT !.slots = WriteSlot(@, vcpuPending, entry)]
    ELSE page

MoreToReport == page.kind \in {"in", "out"} /\ vcpuPending > 0 /\ vcpuPending < Len(page.slots)

\* KvmVcpu::run until KVM is entered: the next access of the instruction is reported
\* without entering the guest.
Report ==
    /\ thread = "run" /\ MoreToReport
    /\ page' = Answered
    /\ vcpuPending' = vcpuPending + 1
    /\ thread' = "bus"
    /\ UNCHANGED <<entry, immediate, intr, answers, wrote, seen, Asking>>

Enter ==
    /\ thread = "run" /\ ~MoreToReport
    /\ page' = Answered
    /\ vcpuPending' = 0
    /\ entry' = Run
    /\ thread' = "entering"
    /\ UNCHANGED <<immediate, intr, answers, wrote, seen, Asking>>

\* KVM_RUN completes the instruction; with the flag set it goes no further.
KvmEntered ==
    /\ thread = "entering"
    /\ page' = NoExit
    /\ answers' = <<>> /\ wrote' = <<>> /\ seen' = <<>>
    /\ thread' = IF immediate THEN "eintr" ELSE "guest"
    /\ UNCHANGED <<vcpuPending, entry, immediate, intr, Asking>>

\* The guest runs until it accesses a device; a page of slots is filled for what it writes.
GuestAccess ==
    /\ thread = "guest" /\ ~intr
    /\ \E kind \in {"in", "out", "mmio_read", "mmio_write"}, n \in 1 .. COUNT, v \in VALUES :
        /\ kind \in {"mmio_read", "mmio_write"} => n = 1
        /\ wrote' = IF kind \in {"out", "mmio_write"} THEN [i \in 1 .. n |-> v + i] ELSE <<>>
        /\ page' = [kind |-> kind, slots |-> IF wrote' = <<>> THEN [i \in 1 .. n |-> Unset] ELSE wrote']
    /\ vcpuPending' = IF page'.kind = "mmio_write" THEN 0 ELSE 1
    /\ thread' = "bus"
    /\ UNCHANGED <<entry, immediate, intr, answers, seen, Asking>>

\* Any other exit ends the thread: a halt, a shutdown, an error.
GuestEnds ==
    /\ thread = "guest" /\ ~intr
    /\ thread' = "ended"
    /\ UNCHANGED <<page, vcpuPending, entry, immediate, intr, answers, wrote, seen, Asking>>

\* A signal ends the run, EAGAIN without one only repeats it.
KvmInterrupted ==
    /\ thread = "guest" /\ intr
    /\ thread' = "eintr"
    /\ intr' = FALSE
    /\ UNCHANGED <<page, vcpuPending, entry, immediate, answers, wrote, seen, Asking>>

\* EINTR: the flag is cleared, whoever set it, and the run is Interrupted.
ClearImmediate ==
    /\ thread = "eintr"
    /\ immediate' = FALSE
    /\ thread' = "order"
    /\ UNCHANGED <<page, vcpuPending, entry, intr, answers, wrote, seen, Asking>>

-----------------------------------------------------------------------------
\* vcpu::run: the access goes to the bus, and the answer to a read into the next entry.
Dispatch ==
    /\ thread = "bus"
    /\ \/ /\ page.kind \in {"in", "mmio_read"}
          /\ \E v \in VALUES : entry' = v /\ answers' = Append(answers, v)
          /\ UNCHANGED seen
       \/ /\ page.kind \in {"out", "mmio_write"}
          /\ seen' = Append(seen, page.slots[IF vcpuPending = 0 THEN 1 ELSE vcpuPending])
          /\ entry' = Run
          /\ UNCHANGED answers
    /\ thread' = "run"
    /\ UNCHANGED <<page, vcpuPending, immediate, intr, wrote, Asking>>

\* A write that ends the guest, or a device that fails: the run returns as it stands.
DispatchEnds ==
    /\ thread = "bus"
    /\ thread' = "ended"
    /\ UNCHANGED <<page, vcpuPending, entry, immediate, intr, answers, wrote, seen, Asking>>

\* The loop of the thread after an Interrupted.
ReadOrder ==
    /\ thread = "order"
    /\ \/ order = "run" /\ thread' = "run"
       \/ order = "hold" /\ thread' = "parked"
       \/ order = "stop" /\ thread' = "ended"
    /\ UNCHANGED <<page, vcpuPending, entry, immediate, intr, answers, wrote, seen, Asking>>

LeaveHold ==
    /\ thread = "parked" /\ order # "hold"
    /\ thread' = "run"
    /\ UNCHANGED <<page, vcpuPending, entry, immediate, intr, answers, wrote, seen, Asking>>

-----------------------------------------------------------------------------
\* tell, and then ask_out: the flag of the Stopper, and the signal.  A signal outside
\* KVM_RUN runs its empty handler and is gone.
Tell(o) ==
    /\ asker = "idle" /\ asked < ORDERS /\ order # "stop" /\ o # order
    /\ order' = o
    /\ asked' = asked + 1
    /\ asker' = IF o = "run" THEN "idle" ELSE "stopper"
    /\ UNCHANGED <<page, vcpuPending, entry, immediate, intr, answers, wrote, seen, thread>>

\* Mutant: the flag is left alone.
StopperNone ==
    /\ asker = "stopper"
    /\ asker' = "kick"
    /\ UNCHANGED <<page, vcpuPending, entry, immediate, intr, answers, wrote, seen, thread, order, asked>>

Stopper ==
    /\ asker = "stopper"
    /\ immediate' = TRUE
    /\ asker' = "kick"
    /\ UNCHANGED <<page, vcpuPending, entry, intr, answers, wrote, seen, thread, order, asked>>

Kick ==
    /\ asker = "kick"
    /\ intr' = (intr \/ thread = "guest")
    /\ asker' = "idle"
    /\ UNCHANGED <<page, vcpuPending, entry, immediate, answers, wrote, seen, thread, order, asked>>

StraySignal ==
    /\ thread = "guest" /\ ~intr
    /\ intr' = TRUE
    /\ UNCHANGED <<page, vcpuPending, entry, immediate, answers, wrote, seen, thread, Asking>>

VcpuNext ==
    \/ Report \/ Enter \/ KvmEntered \/ GuestAccess \/ GuestEnds \/ KvmInterrupted \/ ClearImmediate
    \/ Dispatch \/ DispatchEnds \/ ReadOrder \/ LeaveHold
    \/ (\E o \in {"run", "hold", "stop"} : Tell(o)) \/ Stopper \/ Kick \/ StraySignal

VcpuSpec == VcpuInit /\ [][VcpuNext]_vcpuVars
-----------------------------------------------------------------------------
\* Every access is answered before KVM completes the instruction, and with the value the
\* device gave to that access; a device saw every write of it, once and in order.
AccessesWhole ==
    thread = "entering" =>
        /\ page.kind \in {"in", "mmio_read"} => page.slots = answers
        /\ page.kind \in {"out", "mmio_write"} => seen = wrote

\* A thread that waits on a hold has no access open, so that registers read then are those
\* between two instructions.
HeldBetweenAccesses == thread \in {"order", "parked"} => ~Open /\ vcpuPending = 0 /\ entry = Run

\* An order is not lost between the flag, the signal and the clearing of the flag: once it
\* is given, no vCPU is in the guest or about to enter it with neither.
OrderReaches ==
    asker = "idle" /\ order # "run" =>
        /\ thread = "guest" => intr
        /\ thread = "entering" => immediate

\* The vCPU thread is sound: accesses, holds and orders.
VcpuSound == AccessesWhole /\ HeldBetweenAccesses /\ OrderReaches
=============================================================================
