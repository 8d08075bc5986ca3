------------------------------ MODULE OneReg ------------------------------
(* vCPU registers of aarch64 and riscv64 over a snapshot, read and written   *)
(* one at a time by id (kvm/onereg.rs, aarch64/state.rs, riscv64/state.rs),  *)
(* and the riscv64 clock, a timer register of every vCPU                     *)
(* (riscv64/clock.rs).  The guest, and what KVM does with a register, are    *)
(* external.                                                                 *)
EXTENDS Integers, Sequences, SequencesExt, FiniteSets

CONSTANTS
    ELAPSED       \* host time from the capture to the restore, in ticks

VARIABLES
    isa,          \* "aarch64" or "riscv64"
    regStage,
    regs,         \* registers of the vCPU
    timerAt,      \* what the timer was armed with, 0 when off
    refuses,      \* registers KVM refuses
    saved,        \* the blobs of the vCPU and of the clock
    togo,         \* registers restore has still to write
    regError      \* the register a Partial names

oneRegVars == <<isa, regStage, regs, timerAt, refuses, saved, togo, regError>>

\* reg_list: ids as BTreeMap orders them, the type of a riscv64 register being the high part
\* of its id.  A register over eight bytes is kept apart, so are core registers of riscv64.
RiscvIds == <<"config", "csr", "frequency", "time", "compare", "state", "fp", "extension", "sbi">>
ArmIds == <<"core", "timer", "sysreg">>
RegList ==
    IF isa = "riscv64" THEN RiscvIds \o <<"vector", "pc", "mp_state">> ELSE ArmIds \o <<"vector", "mp_state">>

Shaping(id) == id \in {"config", "extension", "sbi"}

\* Registers in the order VcpuState::restore writes them.  A timer that was off is left as
\* it is in a new vCPU, and a core register the build does not know is skipped.
RiscvWrites(blob) ==
    SelectSeq(RiscvIds, Shaping)
      \o SelectSeq(RiscvIds, LAMBDA id : ~Shaping(id) /\ ~(id = "state" /\ blob["state"] = 0))
      \o <<"vector", "pc", "mp_state">>
ArmWrites == ArmIds \o <<"vector", "mp_state">>

RegWrites(blob) == IF isa = "riscv64" THEN RiscvWrites(blob) ELSE ArmWrites
-----------------------------------------------------------------------------

Init ==
    /\ isa = "none" /\ regStage = "new" /\ regs = << >> /\ timerAt = 0
    /\ refuses = {} /\ saved = << >> /\ togo = <<>> /\ regError = "none"

\* A vCPU as KVM makes it, with every extension of the host on and its timer off.
Made == [id \in ToSet(RegList) |-> IF id \in {"frequency", "extension"} THEN 1 ELSE 0]

New ==
    /\ regStage = "new" /\ regStage' = "running" /\ isa' \in {"aarch64", "riscv64"}
    /\ UNCHANGED <<regs, timerAt, refuses, saved, togo, regError>>

\* The guest leaves any value behind.  Floating point is empty while its extension is off.
GuestRan ==
    /\ regStage = "running" /\ regStage' = "paused"
    /\ \E values \in [ToSet(RegList) -> 0 .. 1] :
        /\ isa = "riscv64" =>
            /\ values["frequency"] = 1 /\ values["fp"] <= values["extension"]
            /\ values["csr"] = values["vector"] /\ values["vector"] = values["pc"] /\ values["sbi"] = values["config"]
        /\ regs' = values
    /\ UNCHANGED <<isa, timerAt, refuses, saved, togo, regError>>

\* VcpuState::capture and ClockState::capture.  A new vCPU of the host that restores is
\* made, whose timer may run at another rate and which may refuse any register.
Capture ==
    /\ regStage = "paused" /\ regStage' = "made"
    /\ saved' = regs
    /\ \E rate \in 1 .. 2 : regs' = [id \in DOMAIN Made |-> IF id = "frequency" THEN rate ELSE Made[id]]
    /\ refuses' \in {{}} \cup {{id} : id \in DOMAIN Made}
    /\ UNCHANGED <<isa, timerAt, togo, regError>>

\* A blob of another backend, arch or version is refused.
Decode ==
    /\ regStage = "made"
    /\ \/ regStage' = "restoring" /\ togo' = RegWrites(saved)
       \/ regStage' = "refused" /\ UNCHANGED togo
    /\ UNCHANGED <<isa, regs, timerAt, refuses, saved, regError>>

\* KVM refuses a timer frequency other than its own, and OFF for a timer that is off.
Refused(id) ==
    \/ id \in refuses
    \/ id = "frequency" /\ saved[id] # regs[id]
    \/ id = "state" /\ saved[id] = 0 /\ regs[id] = 0

\* KVM takes a register.  Enabling or disabling an extension resets floating point, and ON
\* arms the timer with what compare then holds.
Taken(id) ==
    [regs EXCEPT ![id] = saved[id],
                 !["fp"] = IF id = "extension" /\ saved[id] # regs[id] THEN 0
                           ELSE IF id = "fp" THEN saved["fp"] ELSE @]

SetReg ==
    /\ regStage = "restoring" /\ togo # <<>> /\ ~Refused(Head(togo))
    /\ regs' = IF isa = "riscv64" THEN Taken(Head(togo)) ELSE [regs EXCEPT ![Head(togo)] = saved[Head(togo)]]
    /\ timerAt' = IF Head(togo) = "state" THEN 1 + regs["compare"] ELSE timerAt
    /\ togo' = Tail(togo)
    /\ UNCHANGED <<isa, regStage, refuses, saved, regError>>

\* refused: the restore ends with Partial and names the register, other than for mp_state.
SetRegRefused ==
    /\ regStage = "restoring" /\ togo # <<>> /\ Refused(Head(togo))
    /\ regStage' = "failed" /\ togo' = <<>>
    /\ regError' = IF Head(togo) = "mp_state" THEN "os" ELSE Head(togo)
    /\ UNCHANGED <<isa, regs, timerAt, refuses, saved>>

Restored ==
    /\ regStage = "restoring" /\ togo = <<>> /\ regStage' = "restored"
    /\ UNCHANGED <<isa, regs, timerAt, refuses, saved, togo, regError>>

\* ClockState::restore_elapsed, and restore when the blob has no host time: the clock goes
\* on from the captured value, by the time elapsed, never backward.
SetClock ==
    /\ regStage = "restored" /\ isa = "riscv64" /\ regStage' = "ok"
    /\ \E elapsed \in {0} \cup ELAPSED :
        regs' = [regs EXCEPT !["time"] = saved["time"] + IF elapsed < 0 THEN 0 ELSE elapsed]
    /\ UNCHANGED <<isa, timerAt, refuses, saved, togo, regError>>

Next == New \/ GuestRan \/ Capture \/ Decode \/ SetReg \/ SetRegRefused \/ Restored \/ SetClock

Spec == Init /\ [][Next]_oneRegVars
-----------------------------------------------------------------------------

\* A restore that reports success leaves every register as captured, whichever of them KVM
\* resets or arms on the way, and a timer that ran is armed at the captured deadline.
RegistersAsCaptured ==
    regStage \in {"restored", "ok"} =>
        /\ \A id \in DOMAIN regs \ {"time"} : regs[id] = saved[id]
        /\ isa = "riscv64" => timerAt = IF saved["state"] = 1 THEN 1 + saved["compare"] ELSE 0

\* The guest's clock is not set back by a restore.
TimeGoesOn == regStage \in {"restored", "ok"} /\ isa = "riscv64" => regs["time"] >= saved["time"]

\* A register KVM refuses is never passed over: the error names it.
RefusedIsNamed ==
    /\ regStage = "failed" /\ regError # "os" => regError \in refuses \cup {"frequency"}
    /\ regStage \in {"restored", "ok"} => refuses \subseteq {"state"}

OneRegSound == RegistersAsCaptured /\ TimeGoesOn /\ RefusedIsNamed
=============================================================================
