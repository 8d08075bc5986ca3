------------------------------ MODULE Session ------------------------------
(***************************************************************************)
(* The guest agent (src/lingcage/src/agent): the loop that serves one      *)
(* control session after another, starts commands, pumps the ptys of those *)
(* that have one, reaps what exits, kills what is past its time and        *)
(* reports each end, with processes that write, fork off and die when they *)
(* will and a host that may leave at any moment.                           *)
(*                                                                         *)
(* Bytes are counted.  A command's id names its process too, and is used   *)
(* once.                                                                   *)
(***************************************************************************)
EXTENDS Naturals, Sequences, FiniteSets

CONSTANTS Cmds,       \* ids of commands
          Ptys,       \* those with a pty
          Timed,      \* those with a timeout
          PUMP_CAP,   \* bytes of a pump buffer
          SockCap,    \* bytes a stream connection holds
          MaxOut      \* bytes a command has written and the host not at most

ASSUME SessionAssumption ==
    /\ Ptys \subseteq Cmds /\ Timed \subseteq Cmds
    /\ {PUMP_CAP, SockCap} \subseteq Nat \ {0} /\ MaxOut \in Nat

None == "none"

VARIABLES
    pc,         \* where the agent is
    current,    \* the command a step of the loop is about
    seen,       \* children the reap or the cleanup has passed
    ready,      \* slots poll reported
    children,   \* commands of the session
    killAt,     \* timers: none, set or due
    timedOut,   \* commands killed for their timeout
    outBuf,     \* bytes read from the master
    inBuf,      \* bytes for the master
    output,     \* ptys with their output connection open
    input,      \* ptys with their input connection open
    masterDone, \* ptys whose master is at its end
    proc,       \* each process: none, running, zombie, gone
    tty,        \* bytes written to a pty and not read
    owing,      \* bytes written and not passed on to the host
    up,         \* the host is there on the control connection
    wire,       \* frames of the host not yet read
    said,       \* answers to each command
    sock,       \* bytes on the output connections
    listens,    \* ptys whose host end of the output is open
    late        \* ptys whose last output the host did not take in time

loop == <<pc, current, seen, ready>>
child == <<children, killAt, timedOut>>
pump == <<outBuf, inBuf, output, input, masterDone>>
process == <<proc, tty, owing>>
control == <<up, wire, said>>
host == <<sock, listens>>
vars == <<loop, child, pump, process, control, host, late>>

Init ==
    /\ pc = "connect" /\ current = None /\ seen = {} /\ ready = {}
    /\ children = {} /\ killAt = [c \in Cmds |-> None] /\ timedOut = {}
    /\ outBuf = [c \in Cmds |-> 0] /\ inBuf = [c \in Cmds |-> 0]
    /\ output = {} /\ input = {} /\ masterDone = {}
    /\ proc = [c \in Cmds |-> None] /\ tty = [c \in Cmds |-> 0] /\ owing = [c \in Cmds |-> 0]
    /\ up = FALSE /\ wire = <<>> /\ said = [c \in Cmds |-> <<>>]
    /\ sock = [c \in Cmds |-> 0] /\ listens = {}
    /\ late = {}

\* A command killed, its group with it.
Killed(cs) == [c \in Cmds |-> IF c \in cs /\ proc[c] = "running" THEN "zombie" ELSE proc[c]]

\* A write to a control connection the host has left may still succeed.
Written(ok) == ok \/ ~up

-----------------------------------------------------------------------------
(* run and serve.                                                          *)

\* A session begins: READY is written.
Serve ==
    /\ pc = "connect"
    /\ pc' = "reap" /\ seen' = {}
    /\ up' = TRUE /\ wire' = <<>>
    /\ UNCHANGED <<current, ready, child, pump, process, said, host, late>>

\* The session is over: the commands still listed are killed, and waited for.
Ends == pc' = "kill" /\ current' = None /\ seen' = {} /\ ready' = {}

KillAll ==
    /\ pc = "kill"
    /\ proc' = Killed(children)
    /\ pc' = "wait"
    /\ UNCHANGED <<current, seen, ready, child, pump, tty, owing, control, host, late>>

WaitDead ==
    /\ pc = "wait" /\ \A c \in children : proc[c] # "running"
    /\ proc' = [c \in Cmds |-> IF c \in children THEN "gone" ELSE proc[c]]
    /\ children' = {} /\ killAt' = [c \in Cmds |-> None] /\ timedOut' = {}
    /\ output' = {} /\ input' = {}
    /\ outBuf' = [c \in Cmds |-> 0] /\ inBuf' = [c \in Cmds |-> 0]
    /\ pc' = "connect"
    /\ UNCHANGED <<current, seen, ready, masterDone, tty, owing, control, host, late>>

-----------------------------------------------------------------------------
(* reap, drain and enforce_timeouts.                                       *)

\* The children without one reaped.
Unlisted(c) == children \ {c}

\* Nothing is read of the pty of a reaped child.
LastReadNot(c) == 0

\* What the pty of a reaped child still holds.
LastRead(c) == tty[c]

\* The next child has exited: it leaves the list and what its pty still
\* holds is read.
Reap(c) ==
    /\ pc = "reap" /\ c \in children \ seen /\ proc[c] = "zombie"
    /\ proc' = [proc EXCEPT ![c] = "gone"]
    /\ children' = Unlisted(c)
    /\ current' = c /\ pc' = "drain"
    /\ outBuf' = [outBuf EXCEPT ![c] = @ + LastRead(c)]
    /\ tty' = [tty EXCEPT ![c] = 0]
    /\ UNCHANGED <<seen, ready, killAt, timedOut, inBuf, output, input, masterDone, owing, control, host, late>>

StillRuns(c) ==
    /\ pc = "reap" /\ c \in children \ seen /\ proc[c] = "running"
    /\ seen' = seen \cup {c}
    /\ UNCHANGED <<pc, current, ready, child, pump, process, control, host, late>>

\* The last output is pushed while the connection takes it.
Push ==
    /\ pc = "drain" /\ current \in output \cap listens
    /\ outBuf[current] > 0 /\ sock[current] < SockCap
    /\ outBuf' = [outBuf EXCEPT ![current] = @ - 1]
    /\ sock' = [sock EXCEPT ![current] = @ + 1]
    /\ owing' = [owing EXCEPT ![current] = @ - 1]
    /\ UNCHANGED <<loop, child, inBuf, output, input, masterDone, proc, tty, control, listens, late>>

\* It is given up: the connection is closed, or DRAIN_WITHIN has passed.
GiveUp ==
    /\ pc = "drain" /\ outBuf[current] > 0
    /\ current \in output \cap listens => sock[current] = SockCap
    /\ outBuf' = [outBuf EXCEPT ![current] = 0]
    /\ late' = late \cup {c \in {current} : c \in output \cap listens}
    /\ UNCHANGED <<loop, child, inBuf, output, input, masterDone, process, control, host>>

\* EXEC_EXIT is written, the child with its connections dropped.
Exit ==
    /\ pc = "drain" /\ outBuf[current] = 0
    /\ output' = output \ {current} /\ input' = input \ {current}
    /\ inBuf' = [inBuf EXCEPT ![current] = 0]
    /\ killAt' = [killAt EXCEPT ![current] = None] /\ timedOut' = timedOut \ {current}
    /\ \E ok \in BOOLEAN :
        /\ Written(ok)
        /\ IF ok
           THEN /\ said' = [said EXCEPT ![current] = Append(@, IF current \in timedOut THEN "timed out" ELSE "exit")]
                /\ pc' = "reap" /\ current' = None /\ UNCHANGED <<seen, ready>>
           ELSE Ends /\ UNCHANGED said
    /\ UNCHANGED <<children, outBuf, masterDone, process, up, wire, host, late>>

\* Children past their deadline.
Due == {c \in children : killAt[c] = "due"}

\* They are killed.
EnforceTimeouts ==
    /\ pc = "reap" /\ children \subseteq seen
    /\ proc' = Killed(Due)
    /\ killAt' = [c \in Cmds |-> IF c \in Due THEN None ELSE killAt[c]]
    /\ timedOut' = timedOut \cup Due
    /\ pc' = "poll" /\ seen' = {}
    /\ UNCHANGED <<current, ready, children, pump, tty, owing, control, host, late>>

-----------------------------------------------------------------------------
(* poll_set, poll and pump.                                                *)

Master(c) == <<c, "master">>
Input(c) == <<c, "input">>
Output(c) == <<c, "output">>
Control == <<None, "control">>

\* The descriptors of a pty that are waited on and have something.
Slots(c) ==
    {s \in {Master(c)} :
        /\ c \notin masterDone
        /\ \/ (outBuf[c] < PUMP_CAP \/ c \notin output) /\ (tty[c] > 0 \/ proc[c] # "running")
           \/ inBuf[c] > 0}
    \cup {s \in {Output(c)} : c \in output /\ outBuf[c] > 0 /\ (sock[c] < SockCap \/ c \notin listens)}

ReadySlots ==
    (UNION {Slots(c) : c \in children \cap Ptys}) \cup {s \in {Control} : wire # <<>> \/ ~up}

\* A wait that has no end while commands run.
TimesOutIdle == children = {}

\* A wait in which nothing comes ready ends at the nearest deadline, and
\* within BUSY_POLL_MS while commands run.
TimesOut == TRUE

\* The host may have written to an input with room, or closed it.
Typed == {Input(c) : c \in {k \in children \cap input : inBuf[k] < PUMP_CAP}}

\* The wait ends with what is ready, or with nothing: a timeout or SIGCHLD.
Poll ==
    /\ pc = "poll"
    /\ \E typed \in SUBSET Typed : ready' = ReadySlots \cup typed
    /\ IF ready' = {} THEN TimesOut /\ pc' = "reap" ELSE pc' = "pump"
    /\ UNCHANGED <<current, seen, child, pump, process, control, host, late>>

\* A pump of a pty is over: an output with nothing to come is closed.
Closes(c, outLeft, done, open) == IF c \in done /\ outLeft = 0 THEN open \ {c} ELSE open

\* The master is read, as far as the output buffer has room, and written.
PumpMaster(c) ==
    /\ pc = "pump" /\ Master(c) \in ready
    /\ ready' = ready \ {Master(c)}
    /\ LET room == c \notin output \/ outBuf[c] < PUMP_CAP
           reads == c \notin masterDone /\ room /\ tty[c] > 0
           held == outBuf[c] + (IF reads /\ c \in output THEN 1 ELSE 0)
       IN \E atEnd, wroteOne, failed \in BOOLEAN :
            /\ atEnd => room /\ tty[c] = 0 /\ proc[c] # "running"
            /\ wroteOne \/ failed => c \notin masterDone /\ ~atEnd /\ inBuf[c] > 0
            /\ failed => proc[c] # "running" /\ tty[c] = 0 /\ ~wroteOne
            /\ tty' = [tty EXCEPT ![c] = IF reads THEN @ - 1 ELSE @]
            /\ outBuf' = [outBuf EXCEPT ![c] = held]
            /\ inBuf' = [inBuf EXCEPT ![c] = IF failed THEN 0 ELSE IF wroteOne THEN @ - 1 ELSE @]
            /\ masterDone' = masterDone \cup {k \in {c} : atEnd \/ failed}
            /\ output' = Closes(c, held, masterDone', output)
    /\ UNCHANGED <<pc, current, seen, child, input, proc, owing, control, host, late>>

\* Bytes of the host for the pty, or their end, passed on as an EOT.
PumpInput(c) ==
    /\ pc = "pump" /\ Input(c) \in ready
    /\ ready' = ready \ {Input(c)}
    /\ inBuf' = [inBuf EXCEPT ![c] = @ + 1]
    /\ input' \in {input, input \ {c}}
    /\ output' = Closes(c, outBuf[c], masterDone, output)
    /\ UNCHANGED <<pc, current, seen, child, outBuf, masterDone, process, control, host, late>>

\* Output for the host, or none once its end is closed.
PumpOutput(c) ==
    /\ pc = "pump" /\ Output(c) \in ready
    /\ ready' = ready \ {Output(c)}
    /\ IF c \in listens
       THEN /\ outBuf' = [outBuf EXCEPT ![c] = @ - 1]
            /\ sock' = [sock EXCEPT ![c] = @ + 1]
            /\ owing' = [owing EXCEPT ![c] = @ - 1]
            /\ output' = Closes(c, outBuf[c] - 1, masterDone, output)
       ELSE /\ outBuf' = [outBuf EXCEPT ![c] = 0]
            /\ output' = output \ {c}
            /\ UNCHANGED <<sock, owing>>
    /\ UNCHANGED <<pc, current, seen, child, inBuf, input, masterDone, proc, tty, control, listens, late>>

-----------------------------------------------------------------------------
(* dispatch.                                                               *)

\* The control connection is next, once the slots are served.
AtControl == pc = "pump" /\ ready \subseteq {Control}

Again == pc' = "reap" /\ seen' = {} /\ ready' = {} /\ current' = None

NoFrame ==
    /\ AtControl /\ (ready = {} \/ wire = <<>>)
    /\ IF ready = {} THEN Again ELSE Ends
    /\ UNCHANGED <<child, pump, process, control, host, late>>

Read(op) == AtControl /\ ready # {} /\ wire # <<>> /\ Head(wire).op = op /\ wire' = Tail(wire)

Says(c, kind) == Append(said[c], kind)

\* The answer to a command is written, or the session ends.
Answer(c, kind) ==
    \E ok \in BOOLEAN :
        /\ Written(ok)
        /\ IF ok THEN Again /\ said' = [said EXCEPT ![c] = Says(c, kind)]
           ELSE Ends /\ UNCHANGED said

\* EXEC: the streams are opened and the process forked; an exec that fails is
\* reaped at once.  A command started is listed after the host is told of it.
Exec ==
    /\ Read("exec")
    /\ LET c == Head(wire).id
       IN  \/ /\ proc' = [proc EXCEPT ![c] = "running"]
              /\ Answer(c, "started")
              /\ LET listed == said' # said
                 IN  /\ children' = IF listed THEN children \cup {c} ELSE children
                     /\ killAt' = [killAt EXCEPT ![c] = IF listed /\ c \in Timed THEN "set" ELSE None]
                     /\ output' = output \cup {k \in {c} : listed /\ c \in Ptys}
                     /\ input' = input \cup {k \in {c} : listed /\ c \in Ptys}
                     /\ listens' = listens \cup {k \in {c} : listed /\ c \in Ptys}
           \/ /\ proc' = [proc EXCEPT ![c] = "gone"]
              /\ Answer(c, "failed")
              /\ UNCHANGED <<children, killAt, output, input, listens>>
    /\ UNCHANGED <<timedOut, outBuf, inBuf, masterDone, tty, owing, up, sock, late>>

\* EXEC_SIGNAL: the process group of the command, if it is still listed.
SignalCommand ==
    /\ Read("signal")
    /\ proc' \in {proc, Killed({Head(wire).id} \cap children)}
    /\ Again
    /\ UNCHANGED <<child, pump, tty, owing, up, said, host, late>>

\* IDENTIFY, PING, an unknown kind or a bad payload: an answer is written.
OtherFrame ==
    /\ Read("other")
    /\ \E ok \in BOOLEAN : Written(ok) /\ IF ok THEN Again ELSE Ends
    /\ UNCHANGED <<child, pump, process, up, said, host, late>>

\* SHUTDOWN: the guest powers off, unless that fails.
PowerOff ==
    /\ Read("shutdown")
    /\ \/ Again
       \/ pc' = "off" /\ current' = None /\ seen' = {} /\ ready' = {}
    /\ UNCHANGED <<child, pump, process, up, said, host, late>>

-----------------------------------------------------------------------------
(* Processes, time and the host.                                           *)

Alive == pc # "off"

Writes(c) ==
    /\ Alive /\ c \in Ptys /\ proc[c] = "running" /\ owing[c] < MaxOut
    /\ owing' = [owing EXCEPT ![c] = @ + 1]
    /\ tty' = [tty EXCEPT ![c] = @ + 1]
    /\ UNCHANGED <<loop, child, pump, proc, control, host, late>>

Dies(c) ==
    /\ Alive /\ proc[c] = "running"
    /\ proc' = [proc EXCEPT ![c] = "zombie"]
    /\ UNCHANGED <<loop, child, pump, tty, owing, control, host, late>>

Expires(c) ==
    /\ killAt[c] = "set"
    /\ killAt' = [killAt EXCEPT ![c] = "due"]
    /\ UNCHANGED <<loop, children, timedOut, pump, process, control, host, late>>

\* The host sends a frame: a command once, a signal for one it sent.
HostSends ==
    /\ up /\ wire = <<>>
    /\ \/ \E c \in Cmds : proc[c] = None /\ wire' = <<[op |-> "exec", id |-> c]>>
       \/ \E c \in Cmds : said[c] # <<>> /\ wire' = <<[op |-> "signal", id |-> c]>>
       \/ \E op \in {"other", "shutdown"} : wire' = <<[op |-> op, id |-> None]>>
    /\ UNCHANGED <<loop, child, pump, process, up, said, host, late>>

\* The host leaves the control connection.
HostLeaves ==
    /\ up
    /\ up' = FALSE
    /\ UNCHANGED <<loop, child, pump, process, wire, said, host, late>>

HostReads(c) ==
    /\ sock[c] > 0
    /\ sock' = [sock EXCEPT ![c] = @ - 1]
    /\ UNCHANGED <<loop, child, pump, process, control, listens, late>>

HostStops(c) ==
    /\ c \in listens
    /\ listens' = listens \ {c}
    /\ UNCHANGED <<loop, child, pump, process, control, sock, late>>

AgentStep ==
    \/ Serve \/ KillAll \/ WaitDead \/ Push \/ GiveUp \/ Exit \/ EnforceTimeouts \/ Poll
    \/ NoFrame \/ Exec \/ SignalCommand \/ OtherFrame \/ PowerOff
    \/ \E c \in Cmds : Reap(c) \/ StillRuns(c) \/ PumpMaster(c) \/ PumpInput(c) \/ PumpOutput(c)

Next ==
    \/ AgentStep
    \/ HostSends \/ HostLeaves
    \/ \E c \in Cmds : Writes(c) \/ Dies(c) \/ Expires(c) \/ HostReads(c) \/ HostStops(c)

Spec == Init /\ [][Next]_vars

FairSpec == Spec /\ WF_vars(AgentStep) /\ \A c \in Cmds : WF_vars(Expires(c))

-----------------------------------------------------------------------------
\* The agent, its commands and the connections hold values of their types.
TypeOK ==
    /\ pc \in {"connect", "kill", "wait", "reap", "drain", "poll", "pump", "off"}
    /\ children \subseteq Cmds /\ \A c \in Cmds : killAt[c] \in {None, "set", "due"}
    /\ \A c \in Cmds : proc[c] \in {None, "running", "zombie", "gone"} /\ inBuf[c] <= PUMP_CAP
    /\ output \subseteq Ptys /\ input \subseteq Ptys /\ seen \subseteq Cmds

\* Every command is answered once: started and then exited, or failed.
OneAnswer ==
    \A c \in Cmds : said[c] \in {<<>>, <<"started">>, <<"started", "exit">>, <<"started", "timed out">>, <<"failed">>}

\* A pid the agent signals or waits for is its own: no listed command has
\* been reaped, so the number cannot have gone to another process.
PidsOwned == \A c \in children : proc[c] \in {"running", "zombie"}

\* The host has the whole output of a pty when it is told of the exit, unless
\* it closed its end or did not read for DRAIN_WITHIN.
LastOutputFirst ==
    \A c \in Ptys \ late :
        Len(said[c]) = 2 /\ c \in listens => owing[c] = 0

\* A command the host was told of does not outlive its session.
ToldAreKilled == pc = "connect" => \A c \in Cmds : said[c] # <<>> => proc[c] = "gone"

\* The books on commands are right: one answer each, pids the agent owns, output ahead of
\* the exit report, and nothing the host was told of left running behind a session.
CommandsSound == OneAnswer /\ PidsOwned /\ LastOutputFirst /\ ToldAreKilled

\* A command that has exited is reaped, though SIGCHLD may come between the
\* reap and the poll.
ExitedIsReaped == \A c \in Cmds : (c \in children /\ proc[c] = "zombie") ~> (proc[c] = "gone" \/ pc = "off")

\* A command past its time does not go on.
TimeoutIsKept == \A c \in Timed : (killAt[c] = "due") ~> (proc[c] # "running" \/ pc = "off")

\* Commands end: an exit is noticed and a timeout is kept, whatever else goes on.
CommandsEnd == ExitedIsReaped /\ TimeoutIsKept
=============================================================================
