------------------------------ MODULE Confine ------------------------------
(* The allowlists of the threads that run a guest (seccomp/mod.rs and        *)
(* seccomp/report.rs, Machine::start): each thread puts its own list on      *)
(* before it serves the guest, and from then on a call outside of it is      *)
(* refused, in the SIGSYS and SIGBUS handlers as well.  Calls that appear    *)
(* together in every list are one name here.                                 *)
EXTENDS Integers, FiniteSets

CONSTANT
    ARCHES        \* the architectures of a build

VARIABLES
    arch,
    hostStack,    \* whether the network link is the stack in this process
    sharing,      \* whether a directory is shared
    refusal,      \* none, trap or errno: Config::confine
    duty,         \* what each thread does: spawned, armed, serving, bus, sys, failed
    filter,       \* the calls each thread is allowed, or all of them
    tag,          \* TAG of each thread
    sigsys,       \* whether the SIGSYS handler is registered
    reported,     \* the thread a report named, and the one refused
    process       \* running, reported (exit after a report), killed, or lost (exit on SIGBUS)

confineVars == <<arch, hostStack, sharing, refusal, duty, filter, tag, sigsys, reported, process>>

ServingThreads == {"vcpu", "device"}

\* `mapping` is brk, madvise and the mmap family, `returning` is rt_sigreturn and
\* sigaltstack, `ending` is exit and exit_group, `waiting` is futex and sched_yield.
COMMON == {"mapping", "clock_gettime", "ending", "waiting", "restart_syscall", "rt_sigprocmask",
           "returning", "write"}

\* `ring` is poll and read, `disk` is lseek and fdatasync, `channel` is what a host socket is
\* accepted, connected, used and closed with.  An argument compared is part of the name.
RaisesLine == IF arch = "riscv64" THEN {"ioctl KVM_IRQ_LINE"} ELSE {}
VcpuExtras == {"ioctl KVM_RUN"} \union RaisesLine \union (IF arch = "riscv64" THEN {"getrandom"} ELSE {})
DeviceExtras == {"ring", "disk", "channel", "ioctl FIONBIO", "socket AF_UNIX"} \union RaisesLine
\* `directory` is openat, statx and the calls a share is served with, `named` the ones of
\* x86_64 that name a path of their own.
SharingExtras ==
    DeviceExtras \union {"directory"} \union (IF arch = "x86_64" THEN {"named"} ELSE {})
StackExtras ==
    DeviceExtras \union {"bind", "getrandom", "getpeername", "getsockopt", "socket AF_INET"}

\* The kind of the device thread, as Machine::start picks it.
Working == IF hostStack THEN "stack" ELSE IF sharing THEN "sharing" ELSE "device"
KindOf(t) == IF t = "vcpu" THEN "vcpu" ELSE Working
ExtrasOf(kind) ==
    CASE kind = "vcpu" -> VcpuExtras
      [] kind = "device" -> DeviceExtras
      [] kind = "sharing" -> SharingExtras
      [] kind = "stack" -> StackExtras
FilterOf(kind) == COMMON \union ExtrasOf(kind)

\* What serving the guest calls: a vCPU thread enters the guest, parks and writes the console;
\* the device thread waits on rings, moves sectors and connections, and with them frames of
\* the stack (sockets set nonblocking, bound and asked how a connect went) and files of a share.
DevicesCall ==
    {"ring", "write", "waiting", "disk", "channel", "ioctl FIONBIO", "socket AF_UNIX"} \union RaisesLine
StackCalls ==
    {"socket AF_INET", "ioctl FIONBIO", "bind", "channel", "getpeername", "getsockopt", "getrandom"}
ShareCalls == {"directory"} \union (IF arch = "x86_64" THEN {"named"} ELSE {})
Serving(t) ==
    IF t = "vcpu" THEN {"ioctl KVM_RUN", "waiting", "write", "mapping"} \union RaisesLine
    ELSE DevicesCall \union (IF hostStack THEN StackCalls ELSE {}) \union (IF sharing THEN ShareCalls ELSE {})

Everything ==
    COMMON \union {"execve", "ioctl KVM_RUN", "ioctl KVM_IRQ_LINE", "ioctl FIONBIO", "ring", "disk", "channel",
                   "socket AF_UNIX", "socket AF_INET", "directory", "named", "bind",
                   "getrandom", "getpeername", "getsockopt"}

Init ==
    /\ arch \in ARCHES /\ hostStack \in BOOLEAN /\ sharing \in BOOLEAN
    /\ refusal \in {"none", "trap", "errno"}
    /\ duty = [t \in ServingThreads |-> "spawned"] /\ filter = [t \in ServingThreads |-> Everything]
    /\ tag = [t \in ServingThreads |-> "unnamed"] /\ sigsys = FALSE
    /\ reported = {} /\ process = "running"

Config == <<arch, hostStack, sharing, refusal>>
Becomes(t, now) == duty' = [duty EXCEPT ![t] = now]

\* SIGSYS to the process: the handler runs on the thread refused, with SIGSYS blocked.  With no
\* handler, or from inside it, the signal ends the process.
Refused(t) ==
    IF sigsys /\ duty[t] # "sys"
    THEN Becomes(t, "sys") /\ UNCHANGED process
    ELSE process' = "killed" /\ UNCHANGED duty

\* A call of thread t that has `done` once it returns.
CallOf(t, call, done) ==
    IF call \in filter[t] THEN done
    ELSE IF refusal = "errno" THEN UNCHANGED <<duty, process>>
    ELSE Refused(t)

\* confine: under Trap the handler is registered first, since rt_sigaction is on no list.
Arm(t) ==
    /\ process = "running" /\ duty[t] = "spawned" /\ refusal = "trap"
    /\ tag' = [tag EXCEPT ![t] = KindOf(t)]
    /\ \/ sigsys' = TRUE /\ Becomes(t, "armed")
       \/ Becomes(t, "failed") /\ UNCHANGED sigsys
    /\ UNCHANGED <<filter, reported, process, Config>>
Install(t) ==
    /\ process = "running" /\ refusal # "none"
    /\ duty[t] = IF refusal = "trap" THEN "armed" ELSE "spawned"
    /\ \/ filter' = [filter EXCEPT ![t] = FilterOf(KindOf(t))] /\ Becomes(t, "serving")
       \/ Becomes(t, "failed") /\ UNCHANGED filter
    /\ UNCHANGED <<tag, sigsys, reported, process, Config>>
Unconfined(t) ==
    /\ process = "running" /\ refusal = "none" /\ duty[t] = "spawned"
    /\ Becomes(t, "serving")
    /\ UNCHANGED <<filter, tag, sigsys, reported, process, Config>>

\* The thread serves the guest, or is made to call something else.
Serve(t) ==
    /\ process = "running" /\ duty[t] = "serving"
    /\ \E call \in Serving(t) \union {"execve"} : CallOf(t, call, UNCHANGED <<duty, process>>)
    /\ UNCHANGED <<filter, tag, sigsys, reported, Config>>

\* on_bus: a page lost is repaired with mmap, and the handler returns.
BusFault(t) ==
    /\ process = "running" /\ duty[t] = "serving"
    /\ Becomes(t, "bus")
    /\ UNCHANGED <<filter, tag, sigsys, reported, process, Config>>
Repair(t) ==
    /\ process = "running" /\ duty[t] = "bus"
    /\ IF {"mapping", "returning"} \subseteq filter[t]
       THEN Becomes(t, "serving") /\ UNCHANGED process
       ELSE IF refusal = "errno" THEN process' = "lost" /\ UNCHANGED duty ELSE Refused(t)
    /\ UNCHANGED <<filter, tag, sigsys, reported, Config>>

\* handler: it names the thread and ends the process.
Report(t) ==
    /\ process = "running" /\ duty[t] = "sys"
    /\ IF "write" \in filter[t] /\ "ending" \in filter[t]
       THEN reported' = {<<tag[t], t>>} /\ process' = "reported"
       ELSE process' = "killed" /\ UNCHANGED reported
    /\ UNCHANGED <<duty, filter, tag, sigsys, Config>>

Next ==
    \E t \in ServingThreads :
        Arm(t) \/ Install(t) \/ Unconfined(t) \/ Serve(t) \/ BusFault(t) \/ Repair(t) \/ Report(t)

Spec == Init /\ [][Next]_confineVars

-----------------------------------------------------------------------------
\* A refused call ends the process with a report that names its thread: the handler is in
\* place before the list is, and what it calls is on every list (report.rs).
RefusedIsReported ==
    /\ process # "killed"
    /\ \A pair \in reported : pair[1] = KindOf(pair[2])

\* A page truncated out of a RAM image is repaired under every list (seccomp/mod.rs, the
\* comment on SIGBUS).
BusIsRepaired == process # "lost" /\ \A t \in ServingThreads : duty[t] = "bus" => "mapping" \in filter[t]

\* A thread serves the guest with its list on.
ServesConfined ==
    \A t \in ServingThreads :
        duty[t] \in {"serving", "bus"} /\ refusal # "none" => filter[t] = FilterOf(KindOf(t))

\* What serving the guest calls is on the list of the thread that serves it, unless the
\* machine has both the stack and a share.
ListsCover ==
    ~(hostStack /\ sharing) =>
        \A t \in ServingThreads : duty[t] = "serving" => Serving(t) \subseteq filter[t]

\* "Set if a directory of the host is served, device thread then takes the wider allowlist"
\* (Machine::sharing): the calls a share is served with are allowed.
ShareIsServed ==
    sharing /\ duty["device"] = "serving" => ShareCalls \subseteq filter["device"]

ConfineSound == RefusedIsReported /\ BusIsRepaired /\ ServesConfined /\ ListsCover
=============================================================================
