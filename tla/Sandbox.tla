------------------------------ MODULE Sandbox ------------------------------
(***************************************************************************)
(* A sandbox (src/lingcage/src/sandbox) under `lingcage run`: the thread   *)
(* that starts it, runs one command and shuts it down, the thread that     *)
(* tears it down on a signal, and the guest.  Both threads may come to the *)
(* same teardown; a reference count decides who drops what is shared.      *)
(*                                                                         *)
(* The machine and the demultiplexer are here what they promise to the     *)
(* sandbox; Machine and Demux model them in full.                          *)
(***************************************************************************)
EXTENDS Naturals, Sequences, FiniteSets

CONSTANT STREAMS    \* stream connections of a command

Main == "main"
Signal == "signal"
Threads == {Main, Signal}
None == "none"

VARIABLES
    pc,         \* where each thread is
    back,       \* where it goes on after a teardown
    inner,      \* threads with a reference on Inner
    torn,       \* Inner.torn
    tornBy,     \* who holds its lock
    machineBy,  \* who holds the lock of Inner.machine
    machine,    \* Inner.machine is there
    guest,      \* its threads: none, running, ended by themselves, joined
    failed,     \* a step of the teardown under way failed
    lost,       \* the machine was given up with threads not joined
    demux,      \* none, up, stopped
    link,       \* control connection of the agent: none, up, lost
    dir,        \* the run directory exists
    image,      \* the flock on the RAM image is held
    sig,        \* handlers: off, armed, a signal in the pipe
    signalled,  \* SIGNALLED
    wire,       \* frames on their way to the agent
    heard,      \* frames on the answer channel of the command
    cmd,        \* the command in the guest: none, running, ended unheard or reported
    opened,     \* streams the agent has connected
    accepted,   \* streams the host has accepted
    gaveUp,     \* exec asked for the command and returned an error
    status,     \* what wait returned
    result      \* what the program exits with

lock == <<torn, tornBy, machineBy>>
resources == <<machine, guest, failed, lost, demux, dir, image>>
signals == <<sig, signalled>>
channel == <<link, wire, heard>>
command == <<cmd, opened, accepted, gaveUp, status>>
vars == <<pc, back, inner, lock, resources, signals, channel, command, result>>

Init ==
    /\ pc = [t \in Threads |-> IF t = Main THEN "start" ELSE "read"]
    /\ back = [t \in Threads |-> None] /\ inner = {}
    /\ torn = FALSE /\ tornBy = None /\ machineBy = None
    /\ machine = FALSE /\ guest = "none" /\ failed = FALSE /\ lost = FALSE
    /\ demux = "none" /\ dir = FALSE /\ image = FALSE
    /\ sig = "off" /\ signalled = FALSE
    /\ link = "none" /\ wire = <<>> /\ heard = <<>>
    /\ cmd = "none" /\ opened = 0 /\ accepted = 0 /\ gaveUp = FALSE /\ status = None
    /\ result = None

Exited == pc[Main] = "exited"
At(t, step) == pc[t] = step /\ ~Exited
Go(t, step) == pc' = [pc EXCEPT ![t] = step]

\* The thread goes into a teardown and on to step afterwards.
Teardown(t, step) == Go(t, "teardown") /\ back' = [back EXCEPT ![t] = step]

\* The owner is done with the sandbox and has what it will exit with.
Leave(why) == Go(Main, "drop") /\ result' = why

Up == link = "up"
Cut(l) == IF l = "up" THEN "lost" ELSE l

-----------------------------------------------------------------------------
(* Sandbox::start, assemble and Starting::ready.                           *)

Start ==
    /\ At(Main, "start")
    /\ dir' = TRUE /\ Go(Main, "assemble")
    /\ UNCHANGED <<back, inner, lock, machine, guest, failed, lost, demux, image, signals, channel, command, result>>

\* The machine is cloned, restored and started last; no step before leaves a thread.
Assemble ==
    /\ At(Main, "assemble")
    /\ machine' = TRUE /\ guest' = "runs" /\ demux' = "up" /\ image' = TRUE
    /\ inner' = {Main} /\ Go(Main, "ready")
    /\ UNCHANGED <<back, lock, failed, lost, dir, signals, channel, command, result>>

AssembleFails ==
    /\ At(Main, "assemble")
    /\ dir' \in BOOLEAN
    /\ result' = "error" /\ Go(Main, "exited")
    /\ UNCHANGED <<back, inner, lock, machine, guest, failed, lost, demux, image, signals, channel, command>>

Ready ==
    /\ At(Main, "ready") /\ guest = "runs"
    /\ link' = "up" /\ Go(Main, "arm")
    /\ UNCHANGED <<back, inner, lock, resources, signals, wire, heard, command, result>>

\* No agent within the deadline, or the image is lost.
NotReady ==
    /\ At(Main, "ready")
    /\ Teardown(Main, "drop") /\ result' = "error"
    /\ UNCHANGED <<inner, lock, resources, signals, channel, command>>

-----------------------------------------------------------------------------
(* run_verb: exec, the copies, wait, and the way out.                      *)

ArmSignals ==
    /\ At(Main, "arm")
    /\ \/ sig' = "armed" /\ Go(Main, "sound") /\ UNCHANGED result
       \/ sig' = sig /\ Leave("error")
    /\ UNCHANGED <<back, inner, lock, resources, signalled, channel, command>>

MachineFree == machineBy = None

\* exec: the image is looked at under the lock of the machine.
Sound ==
    /\ At(Main, "sound") /\ MachineFree
    /\ Go(Main, "bind") \/ (machine /\ Go(Main, "exec error"))
    /\ UNCHANGED <<back, inner, lock, resources, signals, channel, command, result>>

\* The stream listeners, in the run directory.
BindStreams ==
    /\ At(Main, "bind")
    /\ (dir /\ Go(Main, "request")) \/ Go(Main, "exec error")
    /\ UNCHANGED <<back, inner, lock, resources, signals, channel, command, result>>

Request ==
    /\ At(Main, "request")
    /\ \/ Up /\ wire' = Append(wire, "exec") /\ Go(Main, "started")
       \/ Go(Main, "exec error") /\ UNCHANGED wire
    /\ UNCHANGED <<back, inner, lock, resources, signals, link, heard, command, result>>

\* Mutant: the command is forgotten without a word to the agent.
KillNothing == gaveUp' = TRUE /\ UNCHANGED wire

\* kill_command: the command may run though its start was not heard of.
KillCommand == gaveUp' = TRUE /\ wire' = IF Up THEN Append(wire, "kill") ELSE wire

Started ==
    /\ At(Main, "started") /\ heard # <<>> /\ Head(heard) = "started"
    /\ heard' = Tail(heard) /\ Go(Main, "accept")
    /\ UNCHANGED <<back, inner, lock, resources, signals, link, wire, command, result>>

\* EXEC_FAILED, an error, the deadline or a closed channel.
NotStarted ==
    /\ At(Main, "started")
    /\ KillCommand /\ Go(Main, "blame")
    /\ UNCHANGED <<back, inner, lock, resources, signals, link, heard, cmd, opened, accepted, status, result>>

\* The error is replaced if the image is lost.
Blame ==
    /\ At(Main, "blame") /\ MachineFree
    /\ Go(Main, "exec error")
    /\ UNCHANGED <<back, inner, lock, resources, signals, channel, command, result>>

\* A connection with another nonce is closed and the wait goes on.
AcceptStream ==
    /\ At(Main, "accept") /\ accepted < STREAMS /\ accepted < opened
    /\ accepted' = accepted + 1
    /\ Go(Main, IF accepted' = STREAMS THEN "copy" ELSE "accept")
    /\ UNCHANGED <<back, inner, lock, resources, signals, channel, cmd, opened, gaveUp, status, result>>

AcceptFails ==
    /\ At(Main, "accept")
    /\ KillCommand /\ Go(Main, "exec error")
    /\ UNCHANGED <<back, inner, lock, resources, signals, link, heard, cmd, opened, accepted, status, result>>

\* exec failed: a signal is reported in place of its error.
ExecError ==
    /\ At(Main, "exec error")
    /\ Leave(IF signalled THEN "signal" ELSE "error")
    /\ UNCHANGED <<back, inner, lock, resources, signals, channel, command>>

\* The streams are at their end once the command or the machine is.
CopyOut ==
    /\ At(Main, "copy") /\ (cmd \in {"reported", "ended"} \/ guest = "joined")
    /\ Go(Main, "wait")
    /\ UNCHANGED <<back, inner, lock, resources, signals, channel, command, result>>

\* Mutant: a closed channel is taken for an exit.
ClosedExit == "exit"

\* A channel that closed without an exit.
ClosedStatus == "error"

Wait ==
    /\ At(Main, "wait")
    /\ \/ heard # <<>> /\ status' = "exit" /\ heard' = Tail(heard)
       \/ heard = <<>> /\ (~Up \/ demux = "stopped") /\ status' = ClosedStatus /\ UNCHANGED heard
    /\ Go(Main, "check")
    /\ UNCHANGED <<back, inner, lock, resources, signals, link, wire, cmd, opened, accepted, gaveUp, result>>

\* A signal comes before the status, and its teardown is waited for.
Check ==
    /\ At(Main, "check")
    /\ \/ signalled /\ Teardown(Main, "drop") /\ result' = "signal"
       \/ ~signalled /\ status = "error" /\ Leave("error") /\ UNCHANGED back
       \/ ~signalled /\ status = "exit" /\ Go(Main, "shutdown") /\ UNCHANGED <<back, result>>
    /\ UNCHANGED <<inner, lock, resources, signals, channel, command>>

\* Sandbox::shutdown: nothing is left to do, or the guest is asked to power off.
Shutdown ==
    /\ At(Main, "shutdown") /\ tornBy = None
    /\ \/ torn /\ Leave("command") /\ UNCHANGED wire
       \/ ~torn /\ Go(Main, "await") /\ wire' = (IF Up THEN Append(wire, "off") ELSE wire) /\ UNCHANGED result
    /\ UNCHANGED <<back, inner, lock, resources, signals, link, heard, command>>

\* await_exit: the lock of the machine is held for all of the wait.
Await ==
    /\ At(Main, "await") /\ MachineFree
    /\ \/ machine /\ machineBy' = Main /\ Go(Main, "awaiting") /\ UNCHANGED <<back, result>>
       \/ ~machine /\ Teardown(Main, "drop") /\ result' = "command" /\ UNCHANGED machineBy
    /\ UNCHANGED <<inner, torn, tornBy, resources, signals, channel, command>>

\* The guest ended, or is stopped at the deadline; either may fail.
Awaited ==
    /\ At(Main, "awaiting")
    /\ machineBy' = None
    /\ \/ guest' = "joined" /\ link' = Cut(link) /\ Teardown(Main, "drop") /\ result' = "command"
       \/ Leave("error") /\ UNCHANGED <<guest, link, back>>
    /\ UNCHANGED <<inner, torn, tornBy, machine, failed, lost, demux, dir, image, signals, wire, heard, command>>

-----------------------------------------------------------------------------
(* Inner::teardown, on either thread.                                      *)

Frame == UNCHANGED <<inner, signals, heard, command>>

\* The flag is read under its lock, which a teardown holds to its end.
TornRead == torn /\ tornBy = None

TakeTorn(t) ==
    /\ At(t, "teardown")
    /\ \/ TornRead /\ Go(t, back[t]) /\ UNCHANGED <<tornBy, failed>>
       \/ ~torn /\ tornBy = None /\ tornBy' = t /\ failed' = FALSE /\ Go(t, "take")
    /\ UNCHANGED <<back, torn, machineBy, machine, guest, lost, demux, dir, image, link, wire, result>> /\ Frame

\* Mutant: the image goes before the machine.
TakeMachineLast(t) ==
    /\ At(t, "take") /\ MachineFree
    /\ machineBy' = t /\ image' = FALSE /\ Go(t, "stop")
    /\ UNCHANGED <<back, torn, tornBy, machine, guest, failed, lost, demux, dir, link, wire, result>> /\ Frame

TakeMachine(t) ==
    /\ At(t, "take") /\ MachineFree
    /\ machineBy' = t /\ Go(t, "stop")
    /\ UNCHANGED <<back, torn, tornBy, resources, link, wire, result>> /\ Frame

\* With its threads the machine ends its side of every connection.
StopMachine(t) ==
    /\ At(t, "stop")
    /\ machine' = FALSE /\ machineBy' = None /\ Go(t, "demux")
    /\ \/ /\ guest' = (IF machine THEN "joined" ELSE guest)
          /\ link' = (IF machine THEN Cut(link) ELSE link)
          /\ UNCHANGED <<failed, lost>>
       \/ /\ machine /\ guest # "joined"
          /\ failed' = TRUE /\ lost' = TRUE /\ UNCHANGED <<guest, link>>
    /\ UNCHANGED <<back, torn, tornBy, demux, dir, image, wire, result>> /\ Frame

StopDemux(t) ==
    /\ At(t, "demux")
    /\ demux' = "stopped" /\ link' = Cut(link) /\ wire' = <<>> /\ Go(t, "remove")
    /\ UNCHANGED <<back, lock, machine, guest, failed, lost, dir, image, result>> /\ Frame

\* A socket bound meanwhile makes the removal fail, as any error may.
RemoveDir(t) ==
    /\ At(t, "remove")
    /\ dir' \in {FALSE, dir}
    /\ failed' = (failed \/ dir')
    /\ Go(t, "release")
    /\ UNCHANGED <<back, lock, machine, guest, lost, demux, image, link, wire, result>> /\ Frame

\* The flag is not set if a step failed.
TornNow == ~failed

\* The owner takes a failed teardown for its result, unless it is dropping already.
Release(t) ==
    /\ At(t, "release")
    /\ image' = FALSE /\ torn' = TornNow /\ tornBy' = None
    /\ result' = (IF t = Main /\ failed /\ back[t] = "drop" THEN "error" ELSE result)
    /\ Go(t, back[t])
    /\ UNCHANGED <<back, machineBy, machine, guest, failed, lost, demux, dir, link, wire>> /\ Frame

\* A reference is dropped, and the last one tears down once more.
DropInner(t) ==
    /\ At(t, "drop")
    /\ inner' = inner \ {t}
    /\ IF inner = {t} THEN Teardown(t, "exited") ELSE Go(t, "exited") /\ UNCHANGED back
    /\ UNCHANGED <<lock, resources, signals, channel, command, result>>

-----------------------------------------------------------------------------
(* The signal thread.                                                      *)

OnSignal ==
    /\ ~Exited /\ sig = "armed" /\ sig' = "sent"
    /\ UNCHANGED <<pc, back, inner, lock, resources, signalled, channel, command, result>>

ReadPipe ==
    /\ At(Signal, "read") /\ sig = "sent"
    /\ signalled' = TRUE /\ Go(Signal, "upgrade")
    /\ UNCHANGED <<back, inner, lock, resources, sig, channel, command, result>>

\* Mutant: a guest that has ended is not torn down.
StopperKillRunning ==
    /\ At(Signal, "upgrade")
    /\ \/ (inner = {} \/ guest # "runs") /\ Go(Signal, "exited") /\ UNCHANGED <<inner, back>>
       \/ inner # {} /\ guest = "runs" /\ inner' = inner \cup {Signal} /\ Teardown(Signal, "drop")
    /\ UNCHANGED <<lock, resources, signals, channel, command, result>>

\* Stopper::kill, with nothing to do once the sandbox is dropped.
StopperKill ==
    /\ At(Signal, "upgrade")
    /\ \/ inner = {} /\ Go(Signal, "exited") /\ UNCHANGED <<inner, back>>
       \/ inner # {} /\ inner' = inner \cup {Signal} /\ Teardown(Signal, "drop")
    /\ UNCHANGED <<lock, resources, signals, channel, command, result>>

-----------------------------------------------------------------------------
(* The guest.                                                              *)

Lives == ~Exited /\ guest = "runs"
Hear(frame) == heard' = IF gaveUp THEN heard ELSE Append(heard, frame)

\* The agent opens the streams and starts the command.
AgentExec ==
    /\ Lives /\ Up /\ wire # <<>> /\ Head(wire) = "exec"
    /\ wire' = Tail(wire)
    /\ \/ cmd' = "running" /\ opened' = STREAMS /\ Hear("started")
       \/ cmd' = cmd /\ opened' \in 0..STREAMS /\ Hear("failed")
    /\ UNCHANGED <<pc, back, inner, lock, resources, signals, link, accepted, gaveUp, status, result>>

AgentKill ==
    /\ Lives /\ Up /\ wire # <<>> /\ Head(wire) = "kill"
    /\ wire' = Tail(wire)
    /\ cmd' = (IF cmd = "running" THEN "ended" ELSE cmd)
    /\ UNCHANGED <<pc, back, inner, lock, resources, signals, link, heard, opened, accepted, gaveUp, status, result>>

CommandEnds ==
    /\ Lives /\ cmd = "running"
    /\ IF Up THEN cmd' = "reported" /\ Hear("exit") ELSE cmd' = "ended" /\ UNCHANGED heard
    /\ UNCHANGED <<pc, back, inner, lock, resources, signals, link, wire, opened, accepted, gaveUp, status, result>>

\* A power-off, asked for or not, or a crash: the device thread keeps the connections.
GuestEnds ==
    /\ Lives /\ guest' = "ended"
    /\ UNCHANGED <<pc, back, inner, lock, machine, failed, lost, demux, dir, image, signals, channel, command, result>>

LinkLost ==
    /\ Lives /\ Up /\ link' = "lost" /\ wire' = <<>>
    /\ UNCHANGED <<pc, back, inner, lock, resources, signals, heard, command, result>>

TeardownStep(t) ==
    \/ TakeTorn(t) \/ TakeMachine(t) \/ StopMachine(t) \/ StopDemux(t) \/ RemoveDir(t) \/ Release(t)
    \/ DropInner(t)
MainStep ==
    \/ Start \/ Assemble \/ AssembleFails \/ Ready \/ NotReady \/ ArmSignals
    \/ Sound \/ BindStreams \/ Request \/ Started \/ NotStarted \/ Blame \/ AcceptStream \/ AcceptFails
    \/ ExecError \/ CopyOut \/ Wait \/ Check \/ Shutdown \/ Await \/ Awaited
    \/ TeardownStep(Main)
SignalStep == ReadPipe \/ StopperKill \/ TeardownStep(Signal)
GuestStep == AgentExec \/ AgentKill \/ CommandEnds \/ GuestEnds \/ LinkLost
Next == MainStep \/ SignalStep \/ OnSignal \/ GuestStep

Spec == Init /\ [][Next]_vars

-----------------------------------------------------------------------------
\* Every variable has its type, and no one holds a lock outside the steps that use it.
TypeOK ==
    /\ inner \subseteq Threads /\ torn \in BOOLEAN /\ machine \in BOOLEAN
    /\ guest \in {"none", "runs", "ended", "joined"} /\ link \in {"none", "up", "lost"}
    /\ opened \in 0..STREAMS /\ accepted \in 0..STREAMS
    /\ \A t \in Threads : tornBy = t <=> pc[t] \in {"take", "stop", "demux", "remove", "release"}
    /\ \A t \in Threads : machineBy = t <=> pc[t] \in {"stop", "awaiting"}
    /\ result \in {None, "error", "signal", "command"} /\ status \in {None, "error", "exit"}

\* A sandbox marked torn has left no directory, no demultiplexer, no lock on the image and
\* no machine, and no guest thread but those a failed stop had to give up (teardown).
TornLeavesNothing ==
    torn => /\ ~dir /\ demux = "stopped" /\ ~image /\ ~machine
            /\ guest = "joined" \/ lost

\* The template stays locked in the store for as long as a guest maps its RAM image: the
\* lock goes after the threads, unless stopping them failed (Inner::image).
ImageHeldWhileMapped == guest \in {"runs", "ended"} /\ ~lost => image

\* A program that got as far as the exit of its command ends with the command's code or the
\* signal's only once the sandbox is torn down, even if the other thread does it (run_verb).
ExitWaitsForTeardown == Exited /\ status # None /\ result # "error" => torn

\* The code of the command is only returned if the agent reported its exit, and the signal's
\* only if a signal was read (run_verb).
CodeIsTrue ==
    Exited => /\ result = "command" => cmd = "reported"
              /\ result = "signal" => signalled

\* A command exec gave up on does not stay behind in a live guest: as long as the agent is
\* connected a kill follows the request on the wire (kill_command).
AbandonedIsKilled ==
    gaveUp /\ Up /\ Lives /\ (cmd = "running" \/ \E i \in DOMAIN wire : wire[i] = "exec")
        => \E i \in DOMAIN wire : wire[i] = "kill"

\* A signal ends the program whatever the guest does, a wedged agent and a command that
\* never ends included, unless the machine could not be stopped (arm_signals, teardown).
SignalEnds == sig = "sent" ~> Exited \/ lost

\* A teardown on either thread is whole, and the image outlives the guest.
TeardownSound == TornLeavesNothing /\ ImageHeldWhileMapped

\* The program ends after its teardown and with a true code.
ExitSound == ExitWaitsForTeardown /\ CodeIsTrue
=============================================================================
