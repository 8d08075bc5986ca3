------------------------------ MODULE Machine ------------------------------
(***************************************************************************)
(* The lingcore machine: N vCPU threads and one device thread, the order   *)
(* they all read (`Orders`), the thread that owns the `Machine` and calls  *)
(* its operations one at a time, and the detached stop handles that a      *)
(* signal or the terminal fires at any moment (src/lingcore/src/machine).  *)
(*                                                                         *)
(* Guest code, host descriptors, deadlines and errors of the kernel are    *)
(* the environment: they are nondeterministic.  An operation refused by    *)
(* `valid_transition` changes nothing and is a disabled action here.       *)
(***************************************************************************)
EXTENDS Naturals, FiniteSets

CONSTANTS N,        \* number of vCPUs
          Handles   \* detached stop handles

\* `Machine::assemble` refuses a configuration without vCPUs.
ASSUME NAssumption == N \in Nat \ {0}

Vcpus == 0 .. N - 1
Device == N
Threads == 0 .. N

VARIABLES
    state,           \* Machine::state
    order,           \* Standing::order
    parked,          \* Standing::parked
    pc,              \* where each thread is
    immediate_exit,  \* the flag in the run page of each vCPU, set by its Stopper
    signal,          \* a kick signal sent to the vCPU thread, not yet delivered
    kick,            \* an ioeventfd of the device thread has a count to read
    handles,         \* join handles kept in Machine::threads and device_threads
    op,              \* the operation the owner is in
    step,            \* where the owner is in it
    at,              \* the index its current loop is at
    answer,          \* how its last operation ended
    stopping         \* where each stop handle is in StopHandle::stop

orders == <<order, parked>>
kicks == <<immediate_exit, signal, kick>>
owner == <<op, step, at, answer>>
vars == <<state, orders, pc, kicks, handles, owner, stopping>>

States == {"Created", "Running", "Paused", "Shutdown"}
Orders == {"Run", "Hold", "Stop"}

\* "lock": about to lock the vCPU; "enter": vCPU locked, about to issue
\* KVM_RUN; "guest": in KVM_RUN or in the access it exited for; "cut":
\* KVM_RUN returned EINTR; "poll" and "serve": the device thread waits, or
\* serves rings; "read": about to read the order; "hold": about to park.
PCs == {"absent", "confine", "lock", "enter", "guest", "cut", "poll", "serve",
        "read", "hold", "parked", "ending", "unwinding", "done", "panicked"}

Finished == {"done", "panicked"}
Alive(t) == pc[t] \notin Finished \cup {"absent"}

\* The thread holds the lock of its vCPU, a `try_lock` on it fails.
Locked == {"enter", "guest", "cut"}

Ops == {"none", "start", "pause", "snapshot", "stop", "wait", "wait_timeout"}
Steps == {"idle", "spawn", "flag", "signal", "kick", "still", "await", "join",
          "directory", "capture", "memory", "document"}
Answers == {"none", "Ok", "Err", "StoppedWhileHeld", "NotHeld", "VcpuThread",
            "TimedOut", "Held", "Mutated", "Joined"}

Init ==
    /\ state = "Created"
    /\ order = "Run"
    /\ parked = 0
    /\ pc = [t \in Threads |-> "absent"]
    /\ immediate_exit = [v \in Vcpus |-> FALSE]
    /\ signal = [v \in Vcpus |-> FALSE]
    /\ kick = FALSE
    /\ handles = {}
    /\ op = "none" /\ step = "idle" /\ at = 0 /\ answer = "none"
    /\ stopping = [h \in Handles |-> 0]

----------------------------------------------------------------------------
(* vCPU threads and the device thread.                                     *)

\* The head of the loop of thread t: lock the vCPU and run it, or wait on the
\* ioeventfds, host descriptors and deadlines.
Loop(t) == IF t = Device THEN "poll" ELSE "lock"

Goto(t, from, to) == pc[t] = from /\ pc' = [pc EXCEPT ![t] = to]

\* The allowlist goes on first, a thread which fails to install it ends.
Confine(t) ==
    /\ Goto(t, "confine", Loop(t)) \/ Goto(t, "confine", "ending")
    /\ UNCHANGED <<state, orders, kicks, handles, owner, stopping>>

Lock(v) ==
    /\ Goto(v, "lock", "enter")
    /\ UNCHANGED <<state, orders, kicks, handles, owner, stopping>>

\* KVM_RUN returns EINTR at once when `immediate_exit` is set.
Enter(v) ==
    /\ Goto(v, "enter", IF immediate_exit[v] THEN "cut" ELSE "guest")
    /\ UNCHANGED <<state, orders, kicks, handles, owner, stopping>>

\* A port or MMIO access served on the bus re-enters KVM_RUN.  An exit the
\* bus does not handle, an error of KVM or of the bus ends the thread, a
\* panic of a device unwinds it.  A signal from elsewhere cuts the run short.
LeaveGuest(v) ==
    /\ \E to \in {"enter", "cut", "ending", "unwinding"} : Goto(v, "guest", to)
    /\ UNCHANGED <<state, orders, kicks, handles, owner, stopping>>

\* A guest store to QUEUE_NOTIFY signals the ioeventfd without leaving the run.
GuestKick(v) ==
    /\ pc[v] = "guest"
    /\ ~kick
    /\ kick' = TRUE
    /\ UNCHANGED <<state, orders, pc, immediate_exit, signal, handles, owner, stopping>>

\* The kick signal is delivered.  KVM_RUN returns EINTR; anywhere else, an
\* access served on the bus included, the handler `take_kick` does nothing.
TakeSignal(v) ==
    /\ signal[v]
    /\ signal' = [signal EXCEPT ![v] = FALSE]
    /\ IF pc[v] = "guest" THEN \E to \in {"cut", "enter"} : Goto(v, "guest", to) ELSE pc' = pc
    /\ UNCHANGED <<state, orders, immediate_exit, kick, handles, owner, stopping>>

\* EINTR clears the flag, and the run returns `Interrupted`.
ClearExit(v) ==
    /\ Goto(v, "cut", "read")
    /\ immediate_exit' = [immediate_exit EXCEPT ![v] = FALSE]
    /\ UNCHANGED <<state, orders, signal, kick, handles, owner, stopping>>

\* A descriptor is ready or a deadline passed.  Counts of the signalled
\* ioeventfds are read before the rings are served.
Poll ==
    /\ Goto(Device, "poll", "serve")
    /\ kick' = FALSE
    /\ UNCHANGED <<state, orders, immediate_exit, signal, handles, owner, stopping>>

\* A failed poll, EINTR included, or a failed read ends the device thread.
PollFails ==
    /\ Goto(Device, "poll", "ending")
    /\ UNCHANGED <<state, orders, kicks, handles, owner, stopping>>

Serve ==
    /\ \E to \in {"read", "ending", "unwinding"} : Goto(Device, "serve", to)
    /\ UNCHANGED <<state, orders, kicks, handles, owner, stopping>>

\* The match on `orders.standing()` at the end of both loops.
ReadOrder(t) ==
    /\ Goto(t, "read", CASE order = "Run" -> Loop(t)
                         [] order = "Hold" -> "hold"
                         [] order = "Stop" -> "ending")
    /\ UNCHANGED <<state, orders, kicks, handles, owner, stopping>>

\* Orders::wait_out_a_hold up to its wait on the condition variable.
Park(t) ==
    /\ Goto(t, "hold", IF order = "Hold" THEN "parked" ELSE Loop(t))
    /\ parked' = IF order = "Hold" THEN parked + 1 ELSE parked
    /\ UNCHANGED <<state, order, kicks, handles, owner, stopping>>

\* The rest of it: the order left Hold and every waiter was notified.  The
\* thread returns to the head of its loop and does not look at the order.
Unpark(t) ==
    /\ order # "Hold"
    /\ Goto(t, "parked", Loop(t))
    /\ parked' = parked - 1
    /\ UNCHANGED <<state, order, kicks, handles, owner, stopping>>

\* The thread ends, or unwinds from a panic: SignalOnDrop tells Stop.
End(t) ==
    /\ Goto(t, "ending", "done") \/ Goto(t, "unwinding", "panicked")
    /\ order' = "Stop"
    /\ UNCHANGED <<state, parked, kicks, handles, owner, stopping>>

----------------------------------------------------------------------------
(* The owner of the machine.                                               *)

Idle == step = "idle"

\* The owner returns from its operation.
Return(how) == op' = "none" /\ step' = "idle" /\ at' = 0 /\ answer' = how

\* The owner goes on inside its operation.
Goes(where, index) == step' = where /\ at' = index /\ UNCHANGED <<op, answer>>

Call(what, where) == op' = what /\ step' = where /\ at' = 0 /\ answer' = "none"

\* Machine::start up to its loop over the vCPUs.  A machine is started once:
\* one whose failed start met a panic stays Created and is dropped.
Start ==
    /\ Idle /\ state = "Created"
    /\ \A t \in Threads : pc[t] = "absent"
    /\ Call("start", "spawn")
    /\ UNCHANGED <<state, orders, pc, kicks, handles, stopping>>

\* One thread is spawned, the device thread last, and then the guest runs.
Spawn ==
    /\ step = "spawn"
    /\ pc' = [pc EXCEPT ![at] = "confine"]
    /\ handles' = handles \cup {at}
    /\ IF at = Device
       THEN state' = "Running" /\ Return("Ok")
       ELSE state' = state /\ Goes("spawn", at + 1)
    /\ UNCHANGED <<orders, kicks, stopping>>

\* A spawn fails: the threads started so far are told to stop and joined.
SpawnFails ==
    /\ step = "spawn"
    /\ order' = "Stop"
    /\ Goes("flag", 0)
    /\ UNCHANGED <<state, parked, pc, kicks, handles, stopping>>

\* Machine::pause tells Hold, then asks every thread out.
Pause ==
    /\ Idle /\ state = "Running"
    /\ order' = "Hold"
    /\ Call("pause", "flag")
    /\ UNCHANGED <<state, parked, pc, kicks, handles, stopping>>

\* ask_out: the stopper of each vCPU ...
AskFlag ==
    /\ step = "flag"
    /\ IF at < N
       THEN /\ immediate_exit' = [immediate_exit EXCEPT ![at] = TRUE]
            /\ Goes("flag", at + 1)
       ELSE immediate_exit' = immediate_exit /\ Goes("signal", 0)
    /\ UNCHANGED <<state, orders, pc, signal, kick, handles, stopping>>

\* Mutant: the vCPU threads are not signalled, as StopHandle::stop leaves them.
AskSignalNone ==
    /\ step = "signal"
    /\ Goes("kick", 0)
    /\ UNCHANGED <<state, orders, pc, kicks, handles, stopping>>

\* ... a signal to each vCPU thread whose handle is kept ...
AskSignal ==
    /\ step = "signal"
    /\ IF at < N
       THEN /\ signal' = [signal EXCEPT ![at] = @ \/ (at \in handles /\ Alive(at))]
            /\ Goes("signal", at + 1)
       ELSE signal' = signal /\ Goes("kick", 0)
    /\ UNCHANGED <<state, orders, pc, immediate_exit, kick, handles, stopping>>

\* ... and the ioeventfds of the device thread.  The caller goes on.
AskKick ==
    /\ step = "kick"
    /\ kick' = TRUE
    /\ \/ op \in {"pause", "snapshot"} /\ Goes("still", 0)
       \/ op \in {"start", "wait", "wait_timeout"} /\ Goes("join", 0)
       \/ op = "stop" /\ Return("Ok")
    /\ UNCHANGED <<state, orders, pc, immediate_exit, signal, handles, stopping>>

\* A signal or an ioeventfd write fails, the error is returned as it is.
AskFails ==
    /\ step \in {"signal", "kick"}
    /\ Return(IF op = "snapshot" THEN "Held" ELSE "Err")
    /\ UNCHANGED <<state, orders, pc, kicks, handles, stopping>>

\* Mutant: only the vCPU threads are waited for.
StillHeldVcpus ==
    /\ step = "still"
    /\ parked >= Cardinality(handles \cap Vcpus)
    /\ state' = "Paused"
    /\ IF op = "snapshot" THEN Goes("directory", 0) ELSE Return("Ok")
    /\ UNCHANGED <<orders, pc, kicks, handles, stopping>>

\* wait_until_still finds every thread parked.
StillHeld ==
    /\ step = "still"
    /\ parked >= Cardinality(handles)
    /\ state' = "Paused"
    /\ IF op = "snapshot" THEN Goes("directory", 0) ELSE Return("Ok")
    /\ UNCHANGED <<orders, pc, kicks, handles, stopping>>

\* It finds the order changed, or its time runs out.
StillNot ==
    /\ step = "still"
    /\ parked < Cardinality(handles)
    /\ Return(CASE op = "snapshot" -> "Held"
                [] order # "Hold" -> "StoppedWhileHeld"
                [] OTHER -> "NotHeld")
    /\ UNCHANGED <<state, orders, pc, kicks, handles, stopping>>

\* Machine::resume.  A guest in state Running is left as it is.
Resume ==
    /\ Idle /\ state \in {"Paused", "Running"}
    /\ order' = IF state = "Paused" THEN "Run" ELSE order
    /\ state' = "Running"
    /\ Return("Ok")
    /\ UNCHANGED <<parked, pc, kicks, handles, stopping>>

\* Machine::stop.
Stop ==
    /\ Idle /\ state \in {"Running", "Paused"}
    /\ order' = "Stop"
    /\ Call("stop", "flag")
    /\ UNCHANGED <<state, parked, pc, kicks, handles, stopping>>

\* Machine::wait, and Machine::wait_timeout, which gives up after a while.
Wait ==
    /\ Idle /\ state \in {"Running", "Paused"}
    /\ \E which \in {"wait", "wait_timeout"} : Call(which, "await")
    /\ UNCHANGED <<state, orders, pc, kicks, handles, stopping>>

StopStands ==
    /\ step = "await"
    /\ order = "Stop"
    /\ Goes("flag", 0)
    /\ UNCHANGED <<state, orders, pc, kicks, handles, stopping>>

WaitTimesOut ==
    /\ step = "await" /\ op = "wait_timeout"
    /\ order # "Stop"
    /\ Return("TimedOut")
    /\ UNCHANGED <<state, orders, pc, kicks, handles, stopping>>

\* Mutant: a handle is dropped without waiting for its thread.
JoinDropped ==
    /\ step = "join"
    /\ handles' = handles \ {at}
    /\ IF at = Device
       THEN state' = "Shutdown" /\ Return(IF op = "start" THEN "Err" ELSE "Joined")
       ELSE state' = state /\ Goes("join", at + 1)
    /\ UNCHANGED <<orders, pc, kicks, stopping>>

\* Machine::join: each handle is joined in turn.  A vCPU thread which
\* panicked returns at once and drops the other vCPU handles unjoined.
\* "Joined" stands for the exit or the error the threads ended with.
Join ==
    /\ step = "join"
    /\ at \in handles => pc[at] \in Finished
    /\ IF at \in handles /\ at # Device /\ pc[at] = "panicked"
       THEN handles' = handles \ Vcpus /\ state' = state /\ Return("VcpuThread")
       ELSE /\ handles' = handles \ {at}
            /\ IF at = Device
               THEN state' = "Shutdown" /\ Return(IF op = "start" THEN "Err" ELSE "Joined")
               ELSE state' = state /\ Goes("join", at + 1)
    /\ UNCHANGED <<orders, pc, kicks, stopping>>

----------------------------------------------------------------------------
(* The snapshot order of the control socket (control::snapshot).           *)

Snapshot ==
    /\ Idle /\ state \in {"Running", "Paused"}
    /\ order' = IF state = "Running" THEN "Hold" ELSE order
    /\ Call("snapshot", IF state = "Running" THEN "flag" ELSE "directory")
    /\ UNCHANGED <<state, parked, pc, kicks, handles, stopping>>

MakeDirectory ==
    /\ step = "directory"
    /\ Goes("capture", 0) \/ Return("Held")
    /\ UNCHANGED <<state, orders, pc, kicks, handles, stopping>>

\* Machine::capture tries the lock of each vCPU in turn, then reads the
\* devices and the irqchip and creates the memory file.
CaptureVcpu ==
    /\ step = "capture"
    /\ \/ at < N /\ pc[at] \notin Locked \cup {"unwinding", "panicked"} /\ Goes("capture", at + 1)
       \/ at = N /\ Goes("memory", 0)
       \/ Return("Held")
    /\ UNCHANGED <<state, orders, pc, kicks, handles, stopping>>

WriteMemory ==
    /\ step = "memory"
    /\ Goes("document", 0) \/ Return("Mutated")
    /\ UNCHANGED <<state, orders, pc, kicks, handles, stopping>>

WriteDocument ==
    /\ step = "document"
    /\ Return("Ok") \/ Return("Mutated")
    /\ UNCHANGED <<state, orders, pc, kicks, handles, stopping>>

----------------------------------------------------------------------------
(* StopHandle::stop, fired by a signal or by the terminal.  stopping[h] is  *)
(* 0 outside the call, k in 1..N before the stopper of vCPU k - 1, and     *)
(* N + 1 before the ioeventfds.  No thread is signalled.                   *)

HandleStop(h) ==
    /\ stopping[h] = 0
    /\ order' = "Stop"
    /\ stopping' = [stopping EXCEPT ![h] = 1]
    /\ UNCHANGED <<state, parked, pc, kicks, handles, owner>>

HandleFlag(h) ==
    /\ stopping[h] \in 1 .. N
    /\ immediate_exit' = [immediate_exit EXCEPT ![stopping[h] - 1] = TRUE]
    /\ stopping' = [stopping EXCEPT ![h] = @ + 1]
    /\ UNCHANGED <<state, orders, pc, signal, kick, handles, owner>>

\* A failed ioeventfd write is reported, the call is over all the same.
HandleKick(h) ==
    /\ stopping[h] = N + 1
    /\ kick' \in {kick, TRUE}
    /\ stopping' = [stopping EXCEPT ![h] = 0]
    /\ UNCHANGED <<state, orders, pc, immediate_exit, signal, handles, owner>>

----------------------------------------------------------------------------

VcpuStep(v) ==
    \/ Lock(v) \/ Enter(v) \/ LeaveGuest(v) \/ GuestKick(v) \/ TakeSignal(v) \/ ClearExit(v)

DeviceStep == Poll \/ PollFails \/ Serve

ThreadStep(t) == Confine(t) \/ ReadOrder(t) \/ Park(t) \/ Unpark(t) \/ End(t)

\* Steps inside an operation of the owner.
OwnerStep ==
    \/ Spawn \/ SpawnFails \/ AskFlag \/ AskSignal \/ AskKick \/ AskFails
    \/ StillHeld \/ StillNot \/ StopStands \/ WaitTimesOut \/ Join
    \/ MakeDirectory \/ CaptureVcpu \/ WriteMemory \/ WriteDocument

OwnerCall == Start \/ Pause \/ Resume \/ Stop \/ Wait \/ Snapshot

HandleStep(h) == HandleStop(h) \/ HandleFlag(h) \/ HandleKick(h)

Next ==
    \/ \E v \in Vcpus : VcpuStep(v)
    \/ DeviceStep
    \/ \E t \in Threads : ThreadStep(t)
    \/ OwnerStep
    \/ OwnerCall
    \/ \E h \in Handles : HandleStep(h)

Spec == Init /\ [][Next]_vars

\* Every runnable host thread is scheduled, a signal sent is delivered, and a
\* poll with a count to read returns.  The guest may run for ever, a host
\* descriptor may stay silent, nobody has to call an operation or fire a
\* handle, and the ten seconds of `pause` need never pass.
Fairness ==
    /\ \A v \in Vcpus : /\ WF_vars(Lock(v)) /\ WF_vars(Enter(v))
                        /\ WF_vars(TakeSignal(v)) /\ WF_vars(ClearExit(v))
    /\ WF_vars(kick /\ Poll) /\ WF_vars(Serve)
    /\ \A t \in Threads : WF_vars(ThreadStep(t))
    /\ WF_vars(OwnerStep /\ step # "still") /\ WF_vars(StillHeld)
    /\ WF_vars(order # "Hold" /\ StillNot)
    /\ \A h \in Handles : WF_vars(HandleFlag(h) \/ HandleKick(h))

FairSpec == Spec /\ Fairness

----------------------------------------------------------------------------
(* Properties.                                                             *)

\* Every variable stays in its type; the index of the owner stays in range.
TypeOK ==
    /\ state \in States
    /\ order \in Orders
    /\ parked \in Nat
    /\ pc \in [Threads -> PCs]
    /\ \A t \in Threads : pc[t] \in {"poll", "serve"} => t = Device
    /\ \A t \in Threads : pc[t] \in Locked \cup {"lock"} => t # Device
    /\ immediate_exit \in [Vcpus -> BOOLEAN]
    /\ signal \in [Vcpus -> BOOLEAN]
    /\ kick \in BOOLEAN
    /\ handles \subseteq Threads
    /\ op \in Ops
    /\ step \in Steps
    /\ at \in Threads
    /\ answer \in Answers
    /\ stopping \in [Handles -> 0 .. N + 1]

Parked == {t \in Threads : pc[t] = "parked"}

\* `parked` counts the parked threads exactly, through every interleaving of
\* parking, waking and telling (Orders::wait_out_a_hold).
ParkedExact == parked = Cardinality(Parked)

\* No thread runs on without a handle to join it by.
NoneDetached == \A t \in Threads : Alive(t) => t \in handles

\* A guest reported Paused whose hold stands has each living thread parked,
\* outside `run` and between kicks: what pause counted is what capture reads.
HeldStill ==
    (state = "Paused" /\ order = "Hold" /\ NoneDetached)
        => \A t \in Threads : Alive(t) => pc[t] = "parked"

\* Once `wait`, or a failed start, reports the machine shut down no thread
\* runs the guest or serves a device any more, unless a vCPU thread panicked.
ShutdownIsFinal ==
    (state = "Shutdown" /\ \A v \in Vcpus : pc[v] # "panicked")
        => \A t \in Threads : ~Alive(t)

\* Joining returns: one round of ask_out brings every thread out, whether a
\* vCPU is inside KVM_RUN, about to enter it, clearing its flag or parked
\* ("One call covers both cases, so `wait` joins without retry").
JoinReturns ==
    (step \in {"flag", "signal", "kick", "join"} /\ op \in {"start", "wait", "wait_timeout"})
        ~> (step = "idle")

\* A pause of a guest with every thread alive settles without its timeout:
\* each thread parks, or one of them ends and the pause reports it.
PauseSettles ==
    (step = "still" /\ \A t \in Threads : Alive(t)) ~> (step # "still")

\* Orders arrive: a join returns after one round of ask_out, and a pause settles by itself.
OrdersArrive == JoinReturns /\ PauseSettles

\* Machine::wait "blocks on the stop flag, which a thread sets when it
\* finishes": a wait on a guest with a finished thread returns.
WaitSeesFinish ==
    (step = "await" /\ \E t \in Threads : pc[t] \in Finished) ~> (step # "await")

=============================================================================
