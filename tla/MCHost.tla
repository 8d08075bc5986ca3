------------------------------ MODULE MCHost ------------------------------
(***************************************************************************)
(* The parts that face the host, checked side by side as in MCSafe: the    *)
(* programs, the control socket, the allowlists of the threads, what a     *)
(* process of the host says to a guest, and the table of watched mappings, *)
(* with an entry for every clone and with one for two.                     *)
(***************************************************************************)
EXTENDS FaultWatch, Bus, Integers, Sequences, FiniteSets, TLC

CONSTANTS
    LINES, ROOTS,                                                              \* Cli
    SCRIPTS, MOMENTS,                                                          \* Control
    ARCHES,                                                                    \* Confine
    DIALERS, SPEECH, LISTENED, ARRIVALS, LINE,                                 \* Incoming
    OUTPUT_BOUND, TAP_WRITES, TAPS, WRITES, OUTPUT,                            \* Sink
    PAYLOADS, FOREIGN, HEADER, MAX_PAYLOAD                                     \* Frames

\* What three processes say when they dial ("c" CONNECT, "n" newline, "d" data) and the ports
\* listened on; what two clients order; payload lengths of frames; devices to be placed.
Speeches == <<<<"c", "1", "n", "d">>, <<"c", "1", "2", "n">>, <<"d", "n">>>>
ListenedPorts == <<<<"1">>, <<"2">>>>
Orders == <<<<"whole", "resume">>, <<"blank", "dirty", "word", "pause">>>>
PayloadLengths == <<1, 3, 0, 2, 1>>
At(space, first, count, device) == [space |-> space, base |-> first, size |-> count, device |-> device]
DevicePlacements ==
    <<At("ports", 1, 6, "pm1"), At("ports", 0, 2, "other"), At("ports", 8, 1, "i8042"),
      At("mmio", 4, 3, "other"), At("mmio", 2, 4, "other"), At("mmio", 7, 0, "other"),
      At("mmio", 9, 2, "other"), At("mmio", 8, 2, "other")>>

VARIABLES
    active,
    line, cliStage, cliAt, global, rest, verb, parsed, dashed, root, effects, passed, error,
    status,
    linesWritten, quitters, calling, talking, linesRead, mailbox, reply, answered, guestState,
    moment, savedFiles, promise, holder, bound,
    arch, hostStack, sharing, refusal, duty, filter, tag, sigsys, reported, process,
    endpoint, dials, spoken, hung, backlog, arriving, dialLines, handed, droppedPeers,
    output, ring, taps, buffered, tapped, since, missed, closedTaps, between,
    putting, wire, gone, shut, refusedPut, late, header, payload, frames, readOutcome

A == INSTANCE Cli
N == INSTANCE Control
E == INSTANCE Confine
H == INSTANCE Incoming
K == INSTANCE Sink
W == INSTANCE Frames
Full == INSTANCE FaultWatch WITH WATCHED <- 1, Pages <- 3

\* Command lines: every verb behind global options and before up to two arguments, `run` with
\* a template and three.
Given(text) == [name |-> text, value |-> "none"]
Template == [name |-> "--template", value |-> "x"]
Arguments ==
    {Given(w) : w \in {"--", "--help", "-v", "--store", "--log-file", "x", "5", "--timeout", "--format"}}
    \union {Template, [name |-> "--kernel", value |-> "x"]}
Tails == UNION {[1..n -> Arguments] : n \in 0..2}
Starts == {<<>>, <<[name |-> "--event-monitor", value |-> "path"]>>, <<Given("--log-file"), Given("x")>>}
Verbs ==
    {<<Given("template"), Given(v)>> : v \in {"build", "list", "inspect", "verify", "rm"}}
    \union {<<Given("run")>>, <<Given("check")>>}
CommandLines ==
    {s \o v \o t : s \in Starts, v \in Verbs, t \in Tails}
    \union {<<Given("run"), Template>> \o t : t \in [1..3 -> Arguments]}
    \union Tails

\* Clones are interchangeable.
Symmetry == Permutations(Clones)

cliVars == <<line, cliStage, cliAt, global, rest, verb, parsed, dashed, root, effects, passed,
        error, status>>
controlVars == <<linesWritten, quitters, calling, talking, linesRead, mailbox, reply, answered,
        guestState, moment, savedFiles, promise, holder, bound>>
confineVars == <<arch, hostStack, sharing, refusal, duty, filter, tag, sigsys, reported,
        process>>
incomingVars == <<endpoint, dials, spoken, hung, backlog, arriving, dialLines, handed,
        droppedPeers>>
sinkVars == <<output, ring, taps, buffered, tapped, since, missed, closedTaps, between>>
framesVars == <<putting, wire, gone, shut, refusedPut, late, header, payload, frames,
        readOutcome>>
hostVars == <<active, cliVars, controlVars, confineVars, incomingVars, sinkVars, framesVars,
    busVars, vars>>

Components ==
    {"cli", "control", "confine", "incoming", "sink", "frames", "bus", "watch", "watch full"}

HostInit ==
    /\ active \in Components
    \* a component that does not act sits in one of its initial states
    /\ E!Init /\ (active # "confine" => <<arch, hostStack, sharing, refusal>> = <<"x86_64", TRUE, TRUE, "none">>)
    /\ H!Init /\ (active # "incoming" => endpoint = "sockets")
    /\ N!Init /\ K!Init /\ W!Init /\ BusInit /\ (IF active = "watch full" THEN Full!Init ELSE Init)
    /\ IF active = "cli" THEN A!Init ELSE line = <<>> /\ A!Init

Only(name) ==
    /\ active = name /\ UNCHANGED active
    /\ IF name = "cli" THEN TRUE ELSE UNCHANGED cliVars
    /\ IF name = "control" THEN TRUE ELSE UNCHANGED controlVars
    /\ IF name = "confine" THEN TRUE ELSE UNCHANGED confineVars
    /\ IF name = "incoming" THEN TRUE ELSE UNCHANGED incomingVars
    /\ IF name = "sink" THEN TRUE ELSE UNCHANGED sinkVars
    /\ IF name = "frames" THEN TRUE ELSE UNCHANGED framesVars
    /\ IF name = "bus" THEN TRUE ELSE UNCHANGED busVars
    /\ IF name \in {"watch", "watch full"} THEN TRUE ELSE UNCHANGED vars

HostNext ==
    \/ Only("cli") /\ A!Next
    \/ Only("control") /\ N!Next
    \/ Only("confine") /\ E!Next
    \/ Only("incoming") /\ H!Next
    \/ Only("sink") /\ K!Next
    \/ Only("frames") /\ W!Next
    \/ Only("bus") /\ BusNext
    \/ Only("watch") /\ Next
    \/ Only("watch full") /\ Full!Next

HostSpec == HostInit /\ [][HostNext]_hostVars

-----------------------------------------------------------------------------
Of(name, property) == active = name => property

\* Cli, Control, Confine, Incoming, Sink, Frames and Bus: a command line acts only on what it
\* checked and ends with the code of its error, an order on the control socket is answered
\* once, in order and by what became of it, a thread is never refused a call it serves the
\* guest with, a process of the host reaches the port it named, console output keeps its end
\* and every byte for a tap that keeps up, frames are read as they were written, and an
\* address of the guest belongs to one device.
HostSound ==
    /\ Of("cli", A!CliSound) /\ Of("control", N!ControlSound) /\ Of("confine", E!ConfineSound)
    /\ Of("incoming", H!IncomingSound) /\ Of("sink", K!SinkSound)
    /\ Of("frames", W!FramingSound) /\ Of("bus", BusSound)
=============================================================================
