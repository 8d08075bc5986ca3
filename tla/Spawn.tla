------------------------------- MODULE Spawn -------------------------------
(* The agent starts one command (agent/exec.rs: start, spawn, child_main)   *)
(* over streams it connects to the host (agent/connect.rs).  Parent and     *)
(* child run side by side after the fork and meet at the report pipe.  Any  *)
(* system call may fail, the host may refuse or never answer a connect, and *)
(* the child may be killed at any moment.  `held` is what the agent has     *)
(* open for this command, `kept` what the child has, `outcome` what `start` *)
(* returned; a File that goes out of scope is closed.                       *)

VARIABLES want, pc, conn, held, child, kept, pipe, set, ran, outcome

vars == <<want, pc, conn, held, child, kept, pipe, set, ran, outcome>>

Stdio == {"0", "1", "2"}
Streams == {"stdout", "stderr", "stdin"}
Pump == {"master", "stdout", "stdin"}

\* The streams come in this order, the last one only if the command reads.
NextStep(at) ==
    CASE at = "stdout" -> "stderr"
      [] at = "stderr" -> IF want.stdin THEN "stdin" ELSE "pty"
      [] at = "stdin" -> "pty"

Init ==
    /\ want \in [stdin : BOOLEAN, pty : BOOLEAN, user : BOOLEAN, nul : BOOLEAN]
    /\ pc = "start"
    /\ conn = "none"
    /\ held = {}
    /\ child = "none"
    /\ kept = {}
    /\ pipe = "empty"
    /\ set = {}
    /\ ran = FALSE
    /\ outcome = "none"

\* Every error return drops what was opened.
Fails(why) ==
    /\ pc' = "returned"
    /\ outcome' = why
    /\ held' = {}
    /\ conn' = "none"

Kept == <<want, child, kept, pipe, set, ran>>

Goes(to) == pc' = to /\ UNCHANGED outcome

Start ==
    /\ pc = "start"
    /\ \/ want.user /\ Fails("unsupported")
       \/ ~want.user /\ Goes("stdout") /\ UNCHANGED <<held, conn>>
    /\ UNCHANGED Kept

-----------------------------------------------------------------------------
\* connect: a socket that is told to connect without waiting.
Connect ==
    /\ pc \in Streams /\ conn = "none"
    /\ \/ Fails("connect")
       \/ conn' = "connecting" /\ held' = held \cup {pc} /\ UNCHANGED <<pc, outcome>>
       \/ conn' = "connected" /\ held' = held \cup {pc} /\ UNCHANGED <<pc, outcome>>
    /\ UNCHANGED Kept

\* The host answers or refuses, in its own time.
HostAnswers ==
    /\ conn = "connecting"
    /\ conn' \in {"writable", "refused"}
    /\ UNCHANGED <<want, pc, held, child, kept, pipe, set, ran, outcome>>

\* wait_writable and pending_error: the wait is over once the socket is writable or refused,
\* and refused is read off the socket; no answer in time is an error too.
WaitWritable ==
    /\ pc \in Streams
    /\ \/ conn = "connecting" /\ Fails("connect")
       \/ conn = "refused" /\ Fails("connect")
       \/ conn = "writable" /\ conn' = "connected" /\ UNCHANGED <<pc, held, outcome>>
    /\ UNCHANGED Kept

\* set_blocking, and the nonce of the stream ahead of everything else.
OpenStream ==
    /\ pc \in Streams /\ conn = "connected"
    /\ \/ Fails("connect")
       \/ Goes(NextStep(pc)) /\ conn' = "none" /\ UNCHANGED held
    /\ UNCHANGED Kept

-----------------------------------------------------------------------------
\* A terminal if one is asked for; /dev/null stands in for an input nobody gave.
OpenPty ==
    /\ pc = "pty"
    /\ \/ want.pty /\ Fails("spawn")
       \/ want.pty /\ held' = held \cup {"master", "slave"} /\ Goes("spec") /\ UNCHANGED conn
       \/ ~want.pty /\ Goes(IF want.stdin THEN "spec" ELSE "null") /\ UNCHANGED <<held, conn>>
    /\ UNCHANGED Kept

OpenDevnull ==
    /\ pc = "null"
    /\ \/ Fails("spawn")
       \/ held' = held \cup {"null"} /\ Goes("spec") /\ UNCHANGED conn
    /\ UNCHANGED Kept

\* The strings of the command, ready before the fork.
MakeSpec ==
    /\ pc = "spec"
    /\ IF want.nul THEN Fails("spawn") ELSE Goes("pipe") /\ UNCHANGED <<held, conn>>
    /\ UNCHANGED Kept

ReportPipe ==
    /\ pc = "pipe"
    /\ \/ Fails("spawn")
       \/ held' = held \cup {"read", "write"} /\ Goes("fork") /\ UNCHANGED conn
    /\ UNCHANGED Kept

Fork ==
    /\ pc = "fork"
    /\ \/ Fails("spawn") /\ UNCHANGED <<child, kept>>
       \/ /\ child' = "dup" /\ kept' = held \cup Stdio
          /\ Goes("close") /\ UNCHANGED <<held, conn>>
    /\ UNCHANGED <<want, pipe, set, ran>>

DropNothing ==
    /\ pc = "close"
    /\ Goes("report")
    /\ UNCHANGED <<conn, held, Kept>>

\* The agent closes its own end first, or it would wait for itself.
DropWrite ==
    /\ pc = "close"
    /\ held' = held \ {"write"}
    /\ Goes("report")
    /\ UNCHANGED <<conn, Kept>>

\* Nobody is left who could write to the pipe.
AtEnd == "write" \notin held /\ "write" \notin kept

\* Reap the child that reported a failure: it is about to exit and is waited for.
Reported ==
    /\ pc = "report" /\ pipe = "errno"
    /\ pc' = "reap"
    /\ UNCHANGED <<conn, held, outcome, Kept>>

ReapFailed ==
    /\ pc = "reap" /\ child = "exited"
    /\ child' = "none"
    /\ Fails("failed")
    /\ UNCHANGED <<want, kept, pipe, set, ran>>

\* The end of the pipe with nothing in it: the program runs, or its process is gone.
Started ==
    /\ pc = "report" /\ pipe = "empty" /\ AtEnd
    /\ IF want.pty
       THEN held' = held \ {"slave", "stderr", "read"} /\ Goes("pump")
       ELSE held' = {} /\ pc' = "returned" /\ outcome' = "child"
    /\ UNCHANGED <<conn, Kept>>

\* The pumped files stop blocking, or the command is killed and reaped.
SetNonblocking ==
    /\ pc = "pump"
    /\ \/ pc' = "returned" /\ outcome' = "child" /\ UNCHANGED <<held, child, kept>>
       \/ pc' = "killed" /\ child' = "exited" /\ kept' = {} /\ UNCHANGED <<held, outcome>>
    /\ UNCHANGED <<want, conn, pipe, set, ran>>

ReapKilled ==
    /\ pc = "killed" /\ child = "exited"
    /\ child' = "none"
    /\ Fails("spawn")
    /\ UNCHANGED <<want, kept, pipe, set, ran>>

-----------------------------------------------------------------------------
Dies ==
    /\ child' = "exited"
    /\ kept' = {}
    /\ pipe' = "errno"
    /\ UNCHANGED <<want, pc, conn, held, set, ran, outcome>>

ChildGoes(to) ==
    /\ child' = to
    /\ UNCHANGED <<want, pc, conn, held, pipe, ran, outcome>>

\* The streams onto 0, 1 and 2, and nothing else but the pipe stays open.
Dup == child = "dup" /\ (Dies \/ (ChildGoes("range") /\ UNCHANGED <<kept, set>>))

CloseRange ==
    /\ child = "range"
    /\ Dies \/ (ChildGoes("session") /\ kept' = Stdio \cup (kept \cap {"write"}) /\ UNCHANGED set)

\* A session of its own, with the terminal if there is one; directory and environment.
Session ==
    /\ child = "session"
    /\ Dies \/ (ChildGoes("place") /\ set' = set \cup {"session"} \cup (IF want.pty THEN {"tty"} ELSE {})
                /\ UNCHANGED kept)

Place == child = "place" /\ (Dies \/ (ChildGoes("filter") /\ UNCHANGED <<kept, set>>))

DenyVsock ==
    /\ child = "filter"
    /\ Dies \/ (ChildGoes("exec") /\ set' = set \cup {"filter"} /\ UNCHANGED kept)

\* exec closes the pipe, which was opened to be closed by it.
Exec ==
    /\ child = "exec"
    /\ \/ Dies
       \/ /\ child' = "running" /\ ran' = TRUE /\ kept' = kept \ {"write"}
          /\ UNCHANGED <<want, pc, conn, held, pipe, set, outcome>>

\* The child is killed, or the command ends.
ChildEnds ==
    /\ child \notin {"none", "exited"}
    /\ child' = "exited"
    /\ kept' = {}
    /\ UNCHANGED <<want, pc, conn, held, pipe, set, ran, outcome>>

Parent ==
    \/ Start \/ Connect \/ WaitWritable \/ OpenStream \/ OpenPty \/ OpenDevnull \/ MakeSpec
    \/ ReportPipe \/ Fork \/ DropWrite \/ Reported \/ ReapFailed \/ Started \/ SetNonblocking
    \/ ReapKilled

Child == Dup \/ CloseRange \/ Session \/ Place \/ DenyVsock \/ Exec \/ ChildEnds

Next == Parent \/ Child \/ HostAnswers

Spec == Init /\ [][Next]_vars
-----------------------------------------------------------------------------
\* A start that failed leaves nothing: no descriptor, and no child, not even one to be waited
\* for; one that succeeded keeps what it pumps and no more.
StartLeavesNothing ==
    pc = "returned" =>
        IF outcome = "child" THEN held \subseteq (IF want.pty THEN Pump ELSE {})
        ELSE held = {} /\ child = "none"

\* The report is true: a command reported as failed never ran, and one that is running has
\* its own streams and nothing else, a session and the filter.
ReportIsTrue ==
    /\ outcome = "failed" => ~ran
    /\ child = "running" => kept = Stdio /\ {"session", "filter"} \subseteq set
    /\ child = "running" /\ want.pty => "tty" \in set

\* The agent does not wait for a report nobody can end: while it reads the pipe there is
\* something in it, or only a child that will exec or exit holds it.
ReportEnds == pc = "report" /\ child \in {"running", "exited"} => pipe = "errno" \/ AtEnd

\* Starting a command is sound: what it leaves, what it reports, and that it returns.
StartSound == StartLeavesNothing /\ ReportIsTrue /\ ReportEnds
=============================================================================
