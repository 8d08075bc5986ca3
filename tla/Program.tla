------------------------------ MODULE Program ------------------------------
(* The lingcore program (bin/lingcore.rs): boot goes through its steps and   *)
(* waits on the guest, a thread forwards what is typed, another waits for a  *)
(* signal, and the three race to say how the program ended.  The machine is  *)
(* what Machine models: it ends by itself, or once told to stop.             *)
EXTENDS Integers, Sequences

CONSTANTS
    KEYS,         \* what may be typed, a set of sequences
    ROOM,         \* bytes the console holds for the guest
    SIGNALS       \* bound: signals sent

ASSUME ProgramAssumption == KEYS \subseteq Seq(Nat) /\ ROOM \in Nat

VARIABLES
    stage,        \* where boot is
    timeout,      \* whether --timeout is given
    tty,          \* whether stdin is a terminal
    raw,          \* whether it is in raw mode
    caught,       \* whether the handlers are in place
    sigpipe,      \* signals written to SIGNAL_PIPE
    signals,      \* signals sent
    watcher,      \* the thread reading the pipe: none, read, store, stop, gone
    signalled,    \* SIGNALLED
    typist,       \* the thread reading stdin: none, read, queue, store, stop, gone
    stdin,        \* bytes stdin has left
    chunk,        \* bytes read and not yet queued
    escape,       \* whether an ESCAPE followed them
    escaped,      \* ESCAPED
    console,      \* bytes queued for the guest
    echoed,       \* bytes the guest read
    gap,          \* whether a receive failed
    vm,           \* created, running, or the VmExit: shutdown, reboot, other, interrupted
    toldVm,       \* who told the guest to stop
    ended,        \* what drive returned
    code

programVars == <<stage, timeout, tty, raw, caught, sigpipe, signals, watcher, signalled, typist, stdin, chunk,
                 escape, escaped, console, echoed, gap, vm, toldVm, ended, code>>
threads == <<watcher, signalled, typist, stdin, chunk, escape, escaped, console, echoed, gap>>

ESCAPE == 29
SIGTERM == 15
EXIT_USAGE == 1
EXIT_FAILURE == 2
EXIT_REBOOT == 3
EXIT_TIMEOUT == 124

ProgramInit ==
    /\ stage = "args"
    /\ timeout = FALSE /\ tty = FALSE /\ raw = FALSE /\ caught = FALSE
    /\ sigpipe = <<>> /\ signals = 0 /\ watcher = "none" /\ signalled = 0
    /\ typist = "none" /\ stdin = <<>> /\ chunk = <<>> /\ escape = FALSE /\ escaped = FALSE
    /\ console = <<>> /\ echoed = <<>> /\ gap = FALSE
    /\ vm = "created" /\ toldVm = {} /\ ended = "nothing" /\ code = 0

\* Returning from boot drops the Terminal, which puts the settings back.
Exit(status) == stage' = "exited" /\ code' = status /\ raw' = FALSE

\* cli and parse: help and version only print, a bad flag ends in the usage.
Unstarted == <<caught, sigpipe, signals, watcher, signalled, typist, chunk, escape, escaped, console, echoed, gap, vm, toldVm, ended>>

Cli ==
    /\ stage = "args"
    /\ \/ stage' \in {"config", "printed"} /\ UNCHANGED <<raw, code>>
       \/ Exit(EXIT_USAGE)
    /\ UNCHANGED <<timeout, tty, stdin, Unstarted>>

\* config_of and timeout_of: a bad value, or a set of flags that do not go together, ends in
\* the usage.
ConfigOf ==
    /\ stage = "config"
    /\ \/ /\ stage' = "assemble" /\ timeout' \in BOOLEAN /\ tty' \in BOOLEAN /\ stdin' \in KEYS
          /\ UNCHANGED <<raw, code>>
       \/ Exit(EXIT_USAGE) /\ UNCHANGED <<timeout, tty, stdin>>
    /\ UNCHANGED Unstarted

\* The steps of boot before the guest runs; each may fail.
Fails == Exit(EXIT_FAILURE) /\ UNCHANGED <<caught, watcher, vm, typist>>
Goes(from, to) == stage = from /\ stage' = to /\ UNCHANGED code

\* log_to, the machine, restored or new, and control::listen.
Assemble == Goes("assemble", "arm") /\ UNCHANGED <<raw, caught, watcher, vm, typist>>

\* arm_signals
ArmSignals == Goes("arm", "raw") /\ caught' = TRUE /\ watcher' = "read" /\ UNCHANGED <<raw, vm, typist>>

\* Terminal::raw
Raw == Goes("raw", "start") /\ raw' = tty /\ UNCHANGED <<caught, watcher, vm, typist>>

Start == Goes("start", "forward") /\ vm' = "running" /\ UNCHANGED <<raw, caught, watcher, typist>>
ForwardInput == Goes("forward", "drive") /\ typist' = "read" /\ UNCHANGED <<raw, caught, watcher, vm>>

BootStep ==
    /\ \/ Assemble \/ ArmSignals \/ Raw \/ Start \/ ForwardInput
       \/ stage \in {"assemble", "arm", "raw", "start"} /\ Fails
    /\ UNCHANGED <<timeout, tty, sigpipe, signals, signalled, stdin, chunk, escape, escaped, console, echoed, gap, toldVm, ended>>

-----------------------------------------------------------------------------
\* The guest ends by itself, or comes out of run once told.
MachineEnds ==
    /\ vm = "running"
    /\ \/ vm' \in {"shutdown", "reboot", "other"}
       \/ toldVm # {} /\ vm' = "interrupted"
    /\ UNCHANGED <<stage, timeout, tty, raw, caught, sigpipe, signals, threads, toldVm, ended, code>>

GuestReads ==
    /\ vm = "running" /\ console # <<>>
    /\ echoed' = Append(echoed, Head(console)) /\ console' = Tail(console)
    /\ UNCHANGED <<stage, timeout, tty, raw, caught, sigpipe, signals, watcher, signalled, typist, stdin, chunk, escape,
                   escaped, gap, vm, toldVm, ended, code>>

TellVm(who) == toldVm' = toldVm \cup {who}

\* drive: an order from the control socket, the end of the guest, a lost page, the deadline.
ControlStop ==
    /\ stage = "drive" /\ TellVm("control")
    /\ UNCHANGED <<stage, timeout, tty, raw, caught, sigpipe, signals, threads, vm, ended, code>>

Drive ==
    /\ stage = "drive"
    /\ \/ /\ vm # "running" /\ stage' = "report" /\ ended' = vm /\ UNCHANGED toldVm
       \/ /\ vm # "running" /\ stage' = "report" /\ ended' = "error" /\ UNCHANGED toldVm
       \/ stage' = "fault" /\ TellVm("fault") /\ UNCHANGED ended
       \/ timeout /\ stage' = "deadline" /\ TellVm("timeout") /\ UNCHANGED ended
    /\ UNCHANGED <<timeout, tty, raw, caught, sigpipe, signals, threads, vm, code>>

\* The wait after a stop of drive's own.
DriveWait ==
    /\ stage \in {"fault", "deadline"} /\ vm # "running"
    /\ stage' = "report"
    /\ ended' \in {IF stage = "fault" THEN "error" ELSE "nothing", "error"}
    /\ UNCHANGED <<timeout, tty, raw, caught, sigpipe, signals, threads, vm, toldVm, code>>

\* exit_code
ExitCode(exit) == IF exit = "shutdown" THEN 0 ELSE IF exit = "reboot" THEN EXIT_REBOOT ELSE EXIT_FAILURE

\* What boot returns: an error, the signal, the timeout, the escape, and then the guest's own.
Status ==
    IF ended = "error" THEN EXIT_FAILURE
    ELSE IF signalled # 0 THEN 128 + signalled
    ELSE IF ended = "nothing" THEN EXIT_TIMEOUT
    ELSE IF escaped THEN 0
    ELSE ExitCode(ended)

ReturnCode ==
    /\ stage = "report" /\ Exit(Status)
    /\ UNCHANGED <<timeout, tty, caught, sigpipe, signals, threads, vm, toldVm, ended>>

-----------------------------------------------------------------------------
Alive == stage \notin {"printed", "exited", "killed"}

\* A signal: by default it ends the process; on_signal writes it to the pipe.
Signal ==
    /\ Alive
    /\ signals < SIGNALS /\ signals' = signals + 1
    /\ IF caught THEN sigpipe' = Append(sigpipe, SIGTERM) /\ UNCHANGED stage
       ELSE stage' = "killed" /\ UNCHANGED sigpipe
    /\ UNCHANGED <<timeout, tty, raw, caught, threads, vm, toldVm, ended, code>>

\* The signal thread: one byte, SIGNALLED, then the stop.
WatcherOrderSwapped == <<"read", "stop", "store", "gone">>
WatcherOrder == <<"read", "store", "stop", "gone">>
After(order, at) == order[1 + CHOOSE i \in 1 .. Len(order) : order[i] = at]

Watch ==
    /\ Alive /\ watcher \in {"read", "store", "stop"}
    /\ watcher = "read" => sigpipe # <<>>
    /\ watcher' = After(WatcherOrder, watcher)
    /\ sigpipe' = IF watcher = "read" THEN Tail(sigpipe) ELSE sigpipe
    /\ signalled' = IF watcher = "store" THEN SIGTERM ELSE signalled
    /\ toldVm' = IF watcher = "stop" THEN toldVm \cup {"signal"} ELSE toldVm
    /\ UNCHANGED <<stage, timeout, tty, raw, caught, signals, typist, stdin, chunk, escape, escaped, console, echoed,
                   gap, vm, ended, code>>

\* The input thread reads what there is, up to the escape on a terminal.
HasEscape(bytes) == \E i \in DOMAIN bytes : bytes[i] = ESCAPE
EscapesAt(bytes) ==
    IF tty /\ HasEscape(bytes)
    THEN {i \in 1 .. Len(bytes) : bytes[i] = ESCAPE /\ \A j \in 1 .. i - 1 : bytes[j] # ESCAPE}
    ELSE {0}

ReadInput ==
    /\ Alive /\ typist = "read" /\ stdin # <<>>
    /\ \E n \in 1 .. Len(stdin) : \E at \in EscapesAt(SubSeq(stdin, 1, n)) :
        /\ chunk' = SubSeq(stdin, 1, IF at = 0 THEN n ELSE at - 1)
        /\ escape' = (at # 0)
        /\ stdin' = SubSeq(stdin, n + 1, Len(stdin))
    /\ typist' = "queue"
    /\ UNCHANGED <<stage, timeout, tty, raw, caught, sigpipe, signals, watcher, signalled, escaped, console, echoed, gap,
                   vm, toldVm, ended, code>>

\* queue: receive takes what there is room for; the rest is tried again, unless it failed.
Queue ==
    /\ Alive /\ typist = "queue"
    /\ \/ /\ chunk # <<>> /\ Len(console) < ROOM
          /\ LET n == IF Len(chunk) < ROOM - Len(console) THEN Len(chunk) ELSE ROOM - Len(console)
             IN  console' = console \o SubSeq(chunk, 1, n) /\ chunk' = SubSeq(chunk, n + 1, Len(chunk))
          /\ UNCHANGED <<typist, gap>>
       \/ chunk # <<>> /\ chunk' = <<>> /\ gap' = TRUE /\ UNCHANGED <<typist, console>>
       \/ chunk = <<>> /\ typist' = (IF escape THEN "store" ELSE "read") /\ UNCHANGED <<chunk, console, gap>>
    /\ UNCHANGED <<stage, timeout, tty, raw, caught, sigpipe, signals, watcher, signalled, stdin, escape, escaped, echoed,
                   vm, toldVm, ended, code>>

\* Ctrl-]: ESCAPED, then the stop.
Escape ==
    /\ Alive /\ typist \in {"store", "stop"}
    /\ typist' = IF typist = "store" THEN "stop" ELSE "gone"
    /\ escaped' = (escaped \/ typist = "store")
    /\ toldVm' = IF typist = "stop" THEN toldVm \cup {"escape"} ELSE toldVm
    /\ UNCHANGED <<stage, timeout, tty, raw, caught, sigpipe, signals, watcher, signalled, stdin, chunk, escape, console,
                   echoed, gap, vm, ended, code>>

ProgramNext ==
    \/ Cli \/ ConfigOf \/ BootStep \/ MachineEnds \/ GuestReads \/ ControlStop \/ Drive \/ DriveWait \/ ReturnCode
    \/ Signal \/ Watch \/ ReadInput \/ Queue \/ Escape

ProgramSpec == ProgramInit /\ [][ProgramNext]_programVars
-----------------------------------------------------------------------------
\* However the program ends, on an error, an exit or a signal, the terminal is not left raw.
TerminalIsRestored == ~Alive => ~raw

\* The exit code says what ended the guest: 128 + N only after a signal, 124 only after the
\* deadline, 0 only for a guest that powered off or was ended by Ctrl-], and a guest that
\* came out of run because a signal or Ctrl-] told it never counts as failed.
CodeIsTrue ==
    stage = "exited" =>
        /\ code = 128 + SIGTERM => signals > 0
        /\ code = EXIT_TIMEOUT => "timeout" \in toldVm
        /\ code = 0 => vm = "shutdown" \/ escaped
        /\ vm = "interrupted" /\ ended # "error" /\ toldVm = {"signal"} => code = 128 + SIGTERM
        /\ vm = "interrupted" /\ ended # "error" /\ toldVm = {"escape"} => code \in {0, 128 + SIGTERM}

\* The guest reads what was typed, in order and without a gap a failed receive did not
\* make, and everything before Ctrl-] is queued before the guest is told to stop.
InputInOrder ==
    ~gap =>
        /\ \E typed \in KEYS \cup {<<>>} : \E n \in 0 .. Len(typed) :
                echoed \o console \o chunk = SubSeq(typed, 1, n)
        /\ "escape" \in toldVm =>
            \E typed \in KEYS : \E at \in EscapesAt(typed) \ {0} : echoed \o console = SubSeq(typed, 1, at - 1)

\* The program ends as it should: terminal, exit code and input.
ProgramSound == TerminalIsRestored /\ CodeIsTrue /\ InputInOrder
=============================================================================
