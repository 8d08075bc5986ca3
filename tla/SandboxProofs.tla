--------------------------- MODULE SandboxProofs ---------------------------
(***************************************************************************)
(* A teardown on either thread is whole, the program ends after it and     *)
(* with a true code, and a command given up on is killed: for any number   *)
(* of streams and along every interleaving of the two threads, the agent   *)
(* and the guest.                                                          *)
(***************************************************************************)
EXTENDS Sandbox, TLAPS

Held == {"take", "stop", "demux", "remove", "release"}   \* steps of a teardown under its lock
Tearing == Held \cup {"teardown"}
Before == {"start", "assemble", "ready", "arm", "sound", "bind", "request"}
Running == {"accept", "copy", "wait"}
Ending == {"check", "shutdown"}
Awaiting == {"await", "awaiting"}

\* The two threads, and the locks they hold.
Locks ==
    /\ pc = [t \in Threads |-> pc[t]] /\ back = [t \in Threads |-> back[t]]
    /\ torn \in BOOLEAN
    /\ \A t \in Threads : pc[t] \in Tearing => back[t] \in {"drop", "exited"}
    /\ \A t \in Threads : tornBy = t <=> pc[t] \in Held
    /\ tornBy \in Threads => ~torn

\* There is nothing to tear down before the guest runs, and nobody who would.
Unborn ==
    /\ guest = "none" => /\ pc[Main] \in {"start", "assemble", "exited"} /\ pc[Signal] = "read"
                         /\ sig = "off" /\ ~torn
    /\ pc[Main] \in {"start", "assemble"} => guest = "none"

\* What the steps of a teardown have behind them.  A failed step is remembered,
\* a machine that was not joined as well.
Torn ==
    /\ machine \/ guest \in {"none", "joined"} \/ lost
    /\ \A t \in Threads :
        /\ pc[t] \in {"demux", "remove", "release"} => ~machine
        /\ pc[t] \in {"remove", "release"} => demux = "stopped"
        /\ pc[t] = "release" /\ ~failed => ~dir

\* What may be on the wire at a time.
Wires == {<<>>, <<"off">>, <<"kill">>, <<"exec">>, <<"exec", "kill">>}

\* What the agent was told and what it answered, by where the thread of the command is.
Talk ==
    /\ pc[Main] \in Before => wire = <<>> /\ heard = <<>> /\ cmd = "none"
    /\ pc[Main] = "started" =>
        \/ wire = <<"exec">> /\ heard = <<>> /\ cmd = "none"
        \/ wire = <<>> /\ heard \in {<<>>, <<"failed">>} /\ cmd = "none"
        \/ wire = <<>> /\ heard = <<"started">> /\ cmd \in {"running", "ended"}
        \/ wire = <<>> /\ heard = <<"started", "exit">> /\ cmd = "reported"
    /\ pc[Main] \in Running =>
        /\ wire = <<>>
        /\ \/ heard = <<>> /\ cmd \in {"running", "ended"}
           \/ heard = <<"exit">> /\ cmd = "reported"
    /\ pc[Main] \in Ending => wire = <<>>
    /\ pc[Main] \in Awaiting => wire \in {<<>>, <<"off">>}
    /\ wire \in {<<>>, <<"off">>, <<"kill">>} \/ cmd = "none"
    /\ wire \in Wires

\* Exec gives up once, and then says so as long as there is somebody to hear it.
Given ==
    /\ gaveUp => pc[Main] \in {"blame", "exec error", "drop", "exited"} \cup Tearing
    /\ gaveUp /\ Up => \/ wire \in {<<"exec", "kill">>, <<"kill">>}
                       \/ wire = <<>> /\ cmd # "running"

\* Where the thread is says what it knows of the command, and what is torn down.
Codes ==
    /\ pc[Main] \in Before \cup Running \cup {"started", "blame", "exec error"} => status = None
    /\ pc[Main] \in {"shutdown", "await", "awaiting"} => status = "exit"
    /\ status = "exit" => cmd = "reported"
    /\ result = "command" => cmd = "reported"
    /\ result = "signal" => signalled
    /\ status # None /\ result # "error" =>
        \/ pc[Main] \notin {"drop", "exited"} \cup Tearing
        \/ pc[Main] \in Tearing /\ back[Main] = "drop"
        \/ torn

SandboxInv == Locks /\ Unborn /\ TeardownSound /\ Torn /\ Talk /\ Given /\ Codes

-----------------------------------------------------------------------------

\* The program begins with nothing to tear down.
LEMMA InitSandbox == Init => SandboxInv
<1> SUFFICES ASSUME Init PROVE SandboxInv
  OBVIOUS
<1> USE DEF Init, Threads, Main, Signal, None
<1>1. Locks BY Zenon DEF Locks, Tearing, Held
<1>2. Unborn /\ Torn /\ TeardownSound
  BY Zenon DEF Unborn, Torn, TeardownSound, TornLeavesNothing, ImageHeldWhileMapped
<1>3. Talk /\ Given /\ Codes
  BY Zenon DEF Talk, Given, Codes, Wires, Before, Running, Ending, Awaiting, Tearing, Held, Up
<1>4. QED BY <1>1, <1>2, <1>3, Zenon DEF SandboxInv

\* The lock of the flag is held through a teardown, and by one thread.
LEMMA LocksStep ==
    ASSUME Locks, [Next]_vars
    PROVE  Locks'
<1> USE DEF Locks, Held, Tearing, At, Exited, Go, Threads, Main, Signal, None, lock, resources, signals, channel, command
<1>1. CASE Start
  BY <1>1, Zenon DEF Start
<1>2. CASE Assemble
  BY <1>2, Zenon DEF Assemble
<1>3. CASE AssembleFails
  BY <1>3, Zenon DEF AssembleFails
<1>4. CASE Ready \/ NotReady \/ ArmSignals
  BY <1>4 DEF Ready, NotReady, Teardown, ArmSignals, Leave
<1>5. CASE Sound
  BY <1>5, ZenonT(30) DEF Sound, MachineFree
<1>6. CASE BindStreams
  BY <1>6, ZenonT(30) DEF BindStreams
<1>7. CASE Request
  BY <1>7, ZenonT(30) DEF Request, Up
<1>8. CASE Started
  BY <1>8, Zenon DEF Started
<1>9. CASE NotStarted
  BY <1>9, Zenon DEF NotStarted, KillCommand, Up
<1>10. CASE Blame
  BY <1>10, Zenon DEF Blame, MachineFree
<1>11. CASE AcceptStream
  BY <1>11, Zenon DEF AcceptStream
<1>12. CASE AcceptFails
  BY <1>12, Zenon DEF AcceptFails, KillCommand, Up
<1>13. CASE ExecError
  BY <1>13, Zenon DEF ExecError, Leave
<1>14. CASE CopyOut
  BY <1>14, Zenon DEF CopyOut
<1>15. CASE Wait
  BY <1>15, Zenon DEF Wait, Up, ClosedStatus
<1>16. CASE Check
  BY <1>16, ZenonT(30) DEF Check, Teardown, Leave
<1>17. CASE Shutdown
  BY <1>17, ZenonT(30) DEF Shutdown, Leave, Up
<1>18. CASE Await
  BY <1>18, ZenonT(30) DEF Await, MachineFree, Teardown
<1>19. CASE Awaited
  BY <1>19, ZenonT(30) DEF Awaited, Teardown, Leave, Cut
<1>20. ASSUME NEW t \in Threads, TakeTorn(t) PROVE Locks'
  BY <1>20, ZenonT(30) DEF TakeTorn, TornRead, Frame
<1>21. ASSUME NEW t \in Threads, TakeMachine(t) PROVE Locks'
  BY <1>21, Zenon DEF TakeMachine, MachineFree, Frame
<1>22. ASSUME NEW t \in Threads, StopMachine(t) PROVE Locks'
  BY <1>22, Zenon DEF StopMachine, Cut, Frame
<1>23. ASSUME NEW t \in Threads, StopDemux(t) PROVE Locks'
  BY <1>23, Zenon DEF StopDemux, Cut, Frame
<1>24. ASSUME NEW t \in Threads, RemoveDir(t) PROVE Locks'
  BY <1>24, Zenon DEF RemoveDir, Frame
<1>25. ASSUME NEW t \in Threads, Release(t) PROVE Locks'
  BY <1>25, Zenon DEF Release, TornNow, Frame
<1>26. ASSUME NEW t \in Threads, DropInner(t) PROVE Locks'
  BY <1>26, ZenonT(30) DEF DropInner, Teardown
<1>27. CASE ReadPipe
  BY <1>27, ZenonT(30) DEF ReadPipe
<1>28. CASE StopperKill
  BY <1>28, ZenonT(30) DEF StopperKill, Teardown
<1>29. CASE OnSignal
  BY <1>29, Zenon DEF OnSignal
<1>30. CASE AgentExec \/ AgentKill \/ CommandEnds \/ GuestEnds \/ LinkLost
  BY <1>30 DEF AgentExec, Lives, Up, Hear, AgentKill, CommandEnds, GuestEnds, LinkLost
<1>31. CASE UNCHANGED vars
  BY <1>31, Zenon DEF vars
<1>32. QED
  BY ZenonT(30), <1>1, <1>2, <1>3, <1>4, <1>5, <1>6, <1>7, <1>8, <1>9, <1>10, <1>11, <1>12, <1>13, <1>14,
     <1>15, <1>16, <1>17, <1>18, <1>19, <1>20, <1>21, <1>22, <1>23, <1>24, <1>25, <1>26, <1>27,
     <1>28, <1>29, <1>30, <1>31
     DEF Next, MainStep, SignalStep, TeardownStep, GuestStep, Threads

\* Until the guest runs the signal thread waits, and after that there is something to tear down
\* (start, arm_signals).
LEMMA UnbornStep ==
    ASSUME Locks, Unborn, [Next]_vars
    PROVE  Unborn'
<1> USE DEF Locks, Unborn, Held, Tearing, At, Exited, Go, Threads, Main, Signal, None, lock, resources,
        signals, channel, command
<1>1. CASE Start
  BY <1>1, Zenon DEF Start
<1>2. CASE Assemble
  BY <1>2, Zenon DEF Assemble
<1>3. CASE AssembleFails
  BY <1>3, Zenon DEF AssembleFails
<1>4. CASE Ready \/ NotReady \/ ArmSignals
  BY <1>4, Zenon DEF Ready, NotReady, Teardown, ArmSignals, Leave
<1>5. CASE Sound \/ BindStreams \/ Request \/ Started \/ NotStarted \/ Blame \/ AcceptStream
           \/ AcceptFails \/ CopyOut \/ Wait
  BY <1>5, ZenonT(30) DEF Sound, MachineFree, BindStreams, Request, Up, Started, NotStarted, KillCommand,
         Blame, AcceptStream, AcceptFails, CopyOut, Wait, ClosedStatus
<1>6. CASE ExecError \/ Check \/ Shutdown \/ Await
  BY <1>6, Zenon DEF ExecError, Leave, Check, Teardown, Shutdown, Up, Await, MachineFree
<1>7. CASE Awaited
  BY <1>7, Zenon DEF Awaited, Teardown, Leave, Cut
<1>8. ASSUME NEW t \in Threads, TakeTorn(t) PROVE Unborn'
  BY <1>8, Zenon DEF TakeTorn, TornRead, Frame
<1>9. ASSUME NEW t \in Threads, TakeMachine(t) PROVE Unborn'
  BY <1>9, Zenon DEF TakeMachine, MachineFree, Frame
<1>10. ASSUME NEW t \in Threads, StopMachine(t) PROVE Unborn'
  BY <1>10, Zenon DEF StopMachine, Cut, Frame
<1>11. ASSUME NEW t \in Threads, StopDemux(t) PROVE Unborn'
  BY <1>11, Zenon DEF StopDemux, Cut, Frame
<1>12. ASSUME NEW t \in Threads, RemoveDir(t) PROVE Unborn'
  BY <1>12, Zenon DEF RemoveDir, Frame
<1>13. ASSUME NEW t \in Threads, Release(t) PROVE Unborn'
  BY <1>13, Zenon DEF Release, TornNow, Frame
<1>14. ASSUME NEW t \in Threads, DropInner(t) PROVE Unborn'
  BY <1>14, Zenon DEF DropInner, Teardown
<1>15. CASE ReadPipe
  BY <1>15, Zenon DEF ReadPipe
<1>16. CASE StopperKill
  BY <1>16, Zenon DEF StopperKill, Teardown
<1>17. CASE OnSignal
  BY <1>17, Zenon DEF OnSignal
<1>18. CASE AgentExec \/ AgentKill \/ CommandEnds \/ GuestEnds \/ LinkLost
  BY <1>18, Zenon DEF AgentExec, Lives, Up, Hear, AgentKill, CommandEnds, GuestEnds, LinkLost
<1>19. CASE UNCHANGED vars
  BY <1>19, Zenon DEF vars
<1>20. QED
  BY <1>1, <1>2, <1>3, <1>4, <1>5, <1>6, <1>7, <1>8, <1>9, <1>10, <1>11, <1>12, <1>13, <1>14,
     <1>15, <1>16, <1>17, <1>18, <1>19, Zenon
     DEF Next, MainStep, SignalStep, TeardownStep, GuestStep, Threads

\* A teardown takes the machine, then the demultiplexer, the directory and the image, each
\* after the one before, and marks the sandbox torn if none failed (Inner::teardown).
LEMMA TornStep ==
    ASSUME Locks, Unborn, Torn, TeardownSound, [Next]_vars
    PROVE  Torn' /\ TeardownSound'
<1> USE DEF Locks, Unborn, Torn, TeardownSound, TornLeavesNothing, ImageHeldWhileMapped, Held, Tearing,
        At, Exited, Go, Threads, Main, Signal, None, lock, resources, signals, channel, command
<1>1. CASE Start
  BY <1>1, Zenon DEF Start
<1>2. CASE Assemble
  BY <1>2, Zenon DEF Assemble
<1>3. CASE AssembleFails
  BY <1>3, Zenon DEF AssembleFails
<1>4. CASE Ready \/ NotReady \/ ArmSignals
  BY <1>4 DEF Ready, NotReady, Teardown, ArmSignals, Leave
<1>5. CASE Sound
  BY <1>5, ZenonT(30) DEF Sound, MachineFree
<1>6. CASE BindStreams
  BY <1>6, ZenonT(30) DEF BindStreams
<1>7. CASE Request
  BY <1>7, ZenonT(30) DEF Request, Up
<1>8. CASE Started
  BY <1>8, Zenon DEF Started
<1>9. CASE NotStarted
  BY <1>9, Zenon DEF NotStarted, KillCommand, Up
<1>10. CASE Blame
  BY <1>10, Zenon DEF Blame, MachineFree
<1>11. CASE AcceptStream
  BY <1>11, Zenon DEF AcceptStream
<1>12. CASE AcceptFails
  BY <1>12, Zenon DEF AcceptFails, KillCommand, Up
<1>13. CASE ExecError
  BY <1>13, Zenon DEF ExecError, Leave
<1>14. CASE CopyOut
  BY <1>14, Zenon DEF CopyOut
<1>15. CASE Wait
  BY <1>15, Zenon DEF Wait, Up, ClosedStatus
<1>16. CASE Check
  BY <1>16 DEF Check, Teardown, Leave
<1>17. CASE Shutdown
  BY <1>17, ZenonT(30) DEF Shutdown, Leave, Up
<1>18. CASE Await
  BY <1>18 DEF Await, MachineFree, Teardown
<1>19. CASE Awaited
  BY <1>19 DEF Awaited, Teardown, Leave, Cut
<1>20. ASSUME NEW t \in Threads, TakeTorn(t) PROVE Torn' /\ TeardownSound'
  BY <1>20, ZenonT(30) DEF TakeTorn, TornRead, Frame
<1>21. ASSUME NEW t \in Threads, TakeMachine(t) PROVE Torn' /\ TeardownSound'
  BY <1>21, ZenonT(30) DEF TakeMachine, MachineFree, Frame
<1>22. ASSUME NEW t \in Threads, StopMachine(t) PROVE Torn' /\ TeardownSound'
  BY <1>22 DEF StopMachine, Cut, Frame
<1>23. ASSUME NEW t \in Threads, StopDemux(t) PROVE Torn' /\ TeardownSound'
  BY <1>23, Zenon DEF StopDemux, Cut, Frame
<1>24. ASSUME NEW t \in Threads, RemoveDir(t) PROVE Torn' /\ TeardownSound'
  BY <1>24, Zenon DEF RemoveDir, Frame
<1>25. ASSUME NEW t \in Threads, Release(t) PROVE Torn' /\ TeardownSound'
  BY <1>25, Zenon DEF Release, TornNow, Frame
<1>26. ASSUME NEW t \in Threads, DropInner(t) PROVE Torn' /\ TeardownSound'
  BY <1>26 DEF DropInner, Teardown
<1>27. CASE ReadPipe
  BY <1>27, Zenon DEF ReadPipe
<1>28. CASE StopperKill
  BY <1>28 DEF StopperKill, Teardown
<1>29. CASE OnSignal
  BY <1>29, Zenon DEF OnSignal
<1>30. CASE AgentExec \/ AgentKill \/ CommandEnds \/ LinkLost
  BY <1>30 DEF AgentExec, Lives, Up, Hear, AgentKill, CommandEnds, LinkLost
<1>31. CASE GuestEnds
  BY <1>31, Zenon DEF GuestEnds, Lives
<1>32. CASE UNCHANGED vars
  BY <1>32, Zenon DEF vars
<1>33. QED
  BY ZenonT(30), <1>1, <1>2, <1>3, <1>4, <1>5, <1>6, <1>7, <1>8, <1>9, <1>10, <1>11, <1>12, <1>13, <1>14,
     <1>15, <1>16, <1>17, <1>18, <1>19, <1>20, <1>21, <1>22, <1>23, <1>24, <1>25, <1>26, <1>27,
     <1>28, <1>29, <1>30, <1>31, <1>32
     DEF Next, MainStep, SignalStep, TeardownStep, GuestStep, Threads

-----------------------------------------------------------------------------
\* Two channels with the same frames in the same places are one.
LEMMA SameFrames ==
    ASSUME NEW S, NEW s \in Seq(S), NEW t \in Seq(S), Len(s) = Len(t),
           \A i \in 1 .. Len(s) : s[i] = t[i]
    PROVE  s = t
OBVIOUS

\* A frame put behind another.
LEMMA Behind ==
    ASSUME NEW x, NEW y
    PROVE  Append(<<x>>, y) = <<x, y>>
<1> DEFINE s == Append(<<x>>, y)
           t == <<x, y>>
<1>1. s \in Seq({x, y}) /\ t \in Seq({x, y})
  OBVIOUS
<1>2. Len(s) = 2 /\ Len(t) = 2
  OBVIOUS
<1>3. s[1] = x /\ s[2] = y /\ t[1] = x /\ t[2] = y
  OBVIOUS
<1>4. \A i \in 1 .. Len(s) : s[i] = t[i]
  BY <1>2, <1>3
<1> HIDE DEF s, t
<1>5. s = t BY <1>1, <1>2, <1>4, SameFrames, Zenon
<1>6. QED BY <1>5, Zenon DEF s, t

\* What is put on the wire, and on the channel of the command.
LEMMA Puts ==
    /\ Append(<<>>, "exec") = <<"exec">> /\ Append(<<>>, "kill") = <<"kill">>
    /\ Append(<<>>, "off") = <<"off">> /\ Append(<<"exec">>, "kill") = <<"exec", "kill">>
    /\ Append(<<>>, "started") = <<"started">> /\ Append(<<>>, "failed") = <<"failed">>
    /\ Append(<<>>, "exit") = <<"exit">> /\ Append(<<"started">>, "exit") = <<"started", "exit">>
<1>1. Append(<<"exec">>, "kill") = <<"exec", "kill">> BY Behind, Zenon
<1>2. Append(<<"started">>, "exit") = <<"started", "exit">> BY Behind, Zenon
<1>3. QED BY <1>1, <1>2

\* What the agent takes from the wire.
LEMMA TakesExec ==
    ASSUME NEW w \in Wires, w # <<>>, Head(w) = "exec"
    PROVE  \/ w = <<"exec">> /\ Tail(w) = <<>>
           \/ w = <<"exec", "kill">> /\ Tail(w) = <<"kill">>
<1>1. CASE w \in {<<"off">>, <<"kill">>} BY <1>1
<1>2. CASE w = <<"exec">> BY <1>2
<1>3. CASE w = <<"exec", "kill">> BY <1>3
<1>4. QED BY <1>1, <1>2, <1>3, Zenon DEF Wires

\* A kill on its way is still on its way once the agent read the frame ahead of it.
LEMMA TakesKill ==
    ASSUME NEW w \in Wires, w # <<>>, Head(w) = "kill"
    PROVE  w = <<"kill">> /\ Tail(w) = <<>>
<1>1. CASE w \in {<<"off">>, <<"exec">>} BY <1>1
<1>2. CASE w = <<"kill">> BY <1>2
<1>3. CASE w = <<"exec", "kill">> BY <1>3
<1>4. QED BY <1>1, <1>2, <1>3, Zenon DEF Wires

\* What the command's thread takes from its channel.
LEMMA TakesStarted ==
    ASSUME NEW h \in {<<>>, <<"failed">>, <<"started">>, <<"started", "exit">>},
           h # <<>>, Head(h) = "started"
    PROVE  \/ h = <<"started">> /\ Tail(h) = <<>>
           \/ h = <<"started", "exit">> /\ Tail(h) = <<"exit">>
<1>1. CASE h = <<"failed">> BY <1>1
<1>2. CASE h = <<"started">> BY <1>2
<1>3. CASE h = <<"started", "exit">> BY <1>3
<1>4. QED BY <1>1, <1>2, <1>3, Zenon

\* What the channel holds is told apart:
LEMMA Heard ==
    /\ <<"started">> # <<>> /\ <<"started">> # <<"failed">> /\ <<"started">> # <<"started", "exit">>
    /\ <<"started", "exit">> # <<>> /\ <<"started", "exit">> # <<"failed">>
BY SMTT(30)

\* a request still on its way is told apart from the rest.
LEMMA Unheard ==
    /\ <<"exec">> # <<>> /\ <<"exec">> # <<"kill">> /\ <<"exec">> # <<"exec", "kill">>
    /\ <<"exec", "kill">> # <<>> /\ <<"exec", "kill">> # <<"kill">>
BY SMTT(30)

\* The wire and the channel of the command follow the thread (exec, wait, shutdown, the agent).
LEMMA TalkStep ==
    ASSUME Locks, Talk, Given, Codes, [Next]_vars
    PROVE  Talk'
<1> USE DEF Locks, Talk, Given, Codes, Wires, Before, Running, Ending, Awaiting,
        Held, Tearing, Up,
        At, Exited, Go, Threads, Main, Signal, None, lock, resources, signals, channel, command
<1>1. CASE Start
  BY <1>1, Zenon DEF Start
<1>2. CASE Assemble
  BY <1>2, Zenon DEF Assemble
<1>3. CASE AssembleFails
  BY <1>3, Zenon DEF AssembleFails
<1>4. CASE Ready
  BY <1>4, Zenon DEF Ready
<1>5. CASE NotReady
  BY <1>5, Zenon DEF NotReady, Teardown
<1>6. CASE ArmSignals
  BY <1>6, Zenon DEF ArmSignals, Leave
<1>7. CASE Sound
  BY <1>7, Zenon DEF Sound, MachineFree
<1>8. CASE BindStreams
  BY <1>8, Zenon DEF BindStreams
<1>9. CASE Request
  <2> HIDE DEF Talk, Given, Codes, Wires, Before, Running, Ending, Awaiting, Held,
                  Tearing, Up
  <2>1. pc[Main] = "request" /\ wire = <<>> /\ heard = <<>> /\ cmd = "none"
    BY <1>9, Zenon DEF Request, Talk, Before
  <2>2. /\ UNCHANGED <<heard, cmd>>
        /\ \/ wire' = <<"exec">> /\ pc'[Main] = "started"
           \/ wire' = <<>> /\ pc'[Main] = "exec error"
    BY <1>9, <2>1, Puts, Zenon DEF Request
  <2>3. QED BY <2>1, <2>2, Zenon DEF Talk, Wires, Before, Running, Ending, Awaiting
<1>10. CASE Started
  <2> HIDE DEF Talk, Given, Codes, Wires, Before, Running, Ending, Awaiting, Held,
                  Tearing, Up
  <2>1. /\ pc[Main] = "started" /\ pc'[Main] = "accept" /\ UNCHANGED <<wire, cmd>>
        /\ heard # <<>> /\ Head(heard) = "started" /\ heard' = Tail(heard)
    BY <1>10, Zenon DEF Started
  <2>2. heard \in {<<>>, <<"failed">>, <<"started">>, <<"started", "exit">>}
    BY <2>1, Zenon DEF Talk
  <2>3. \/ heard = <<"started">> /\ heard' = <<>>
        \/ heard = <<"started", "exit">> /\ heard' = <<"exit">>
    BY <2>1, <2>2, TakesStarted, Zenon
  <2>4. /\ wire = <<>>
        /\ heard = <<"started">> => cmd \in {"running", "ended"}
        /\ heard = <<"started", "exit">> => cmd = "reported"
    BY <2>1, <2>3, Heard, Zenon DEF Talk
  <2>5. QED BY <2>1, <2>3, <2>4, Zenon DEF Talk, Wires, Before, Running, Ending, Awaiting
<1>11. CASE NotStarted
  <2> HIDE DEF Talk, Given, Codes, Wires, Before, Running, Ending, Awaiting, Held,
                  Tearing, Up
  <2>1. pc[Main] = "started" /\ pc'[Main] = "blame" /\ UNCHANGED cmd
    BY <1>11, Zenon DEF NotStarted
  <2>2. (wire = <<"exec">> /\ cmd = "none") \/ wire = <<>>
    BY <2>1, Zenon DEF Talk
  <2>3. wire' = Append(wire, "kill") \/ wire' = wire
    BY <1>11, Zenon DEF NotStarted, KillCommand
  <2>4. \/ wire' \in {<<"exec">>, <<"exec", "kill">>} /\ cmd = "none"
        \/ wire' \in {<<>>, <<"kill">>}
    BY <2>2, <2>3, Puts, Zenon
  <2>5. QED BY <2>1, <2>4, Zenon DEF Talk, Wires, Before, Running, Ending, Awaiting
<1>12. CASE Blame
  BY <1>12, Zenon DEF Blame, MachineFree
<1>13. CASE AcceptStream
  BY <1>13, Zenon DEF AcceptStream
<1>14. CASE AcceptFails
  <2> HIDE DEF Talk, Given, Codes, Wires, Before, Running, Ending, Awaiting, Held,
                  Tearing, Up
  <2>1. pc[Main] = "accept" /\ pc'[Main] = "exec error" /\ wire = <<>> /\ UNCHANGED cmd
    BY <1>14, Zenon DEF AcceptFails, Talk, Running
  <2>2. wire' = Append(wire, "kill") \/ wire' = wire
    BY <1>14, Zenon DEF AcceptFails, KillCommand
  <2>3. wire' \in {<<>>, <<"kill">>}
    BY <2>1, <2>2, Puts, Zenon
  <2>4. QED BY <2>1, <2>3, Zenon DEF Talk, Wires, Before, Running, Ending, Awaiting
<1>15. CASE ExecError
  BY <1>15, Zenon DEF ExecError, Leave
<1>16. CASE CopyOut
  BY <1>16, Zenon DEF CopyOut
<1>17. CASE Wait
  BY <1>17, Zenon DEF Wait, Up, ClosedStatus
<1>18. CASE Check
  BY <1>18, ZenonT(30) DEF Check, Teardown, Leave
<1>19. CASE Shutdown
  <2> HIDE DEF Talk, Given, Codes, Wires, Before, Running, Ending, Awaiting, Held,
                  Tearing, Up
  <2>1. pc[Main] = "shutdown" /\ pc'[Main] \in {"drop", "await"} /\ UNCHANGED cmd
    BY <1>19, Zenon DEF Shutdown, Leave
  <2>2. wire' = Append(wire, "off") \/ wire' = wire
    BY <1>19, Zenon DEF Shutdown
  <2>3. wire = <<>>
    BY <2>1, Zenon DEF Talk, Ending
  <2>4. wire' \in {<<>>, <<"off">>}
    BY <2>2, <2>3, Puts, Zenon
  <2>5. QED BY <2>1, <2>4, Zenon DEF Talk, Wires, Before, Running, Ending, Awaiting
<1>20. CASE Await
  BY <1>20, ZenonT(30) DEF Await, MachineFree, Teardown
<1>21. CASE Awaited
  BY <1>21, ZenonT(30) DEF Awaited, Teardown, Leave, Cut
<1>22. ASSUME NEW t \in Threads, TakeTorn(t) PROVE Talk'
  BY <1>22, ZenonT(30) DEF TakeTorn, TornRead, Frame
<1>23. ASSUME NEW t \in Threads, TakeMachine(t) PROVE Talk'
  BY <1>23, ZenonT(30) DEF TakeMachine, MachineFree, Frame
<1>24. ASSUME NEW t \in Threads, StopMachine(t) PROVE Talk'
  BY <1>24, ZenonT(30) DEF StopMachine, Cut, Frame
<1>25. ASSUME NEW t \in Threads, StopDemux(t) PROVE Talk'
  BY <1>25, ZenonT(30) DEF StopDemux, Cut, Frame
<1>26. ASSUME NEW t \in Threads, RemoveDir(t) PROVE Talk'
  BY <1>26, ZenonT(30) DEF RemoveDir, Frame
<1>27. ASSUME NEW t \in Threads, Release(t) PROVE Talk'
  BY <1>27, ZenonT(30) DEF Release, TornNow, Frame
<1>28. ASSUME NEW t \in Threads, DropInner(t) PROVE Talk'
  BY <1>28, ZenonT(60) DEF DropInner, Teardown
<1>29. CASE ReadPipe
  BY <1>29, ZenonT(30) DEF ReadPipe
<1>30. CASE StopperKill
  BY <1>30, ZenonT(30) DEF StopperKill, Teardown
<1>31. CASE OnSignal
  BY <1>31, ZenonT(30) DEF OnSignal
<1>32. CASE AgentExec
  <2> HIDE DEF Talk, Given, Codes, Wires, Before, Running, Ending, Awaiting, Held,
                  Tearing, Up
  <2>1. /\ UNCHANGED <<pc, gaveUp>> /\ wire' = Tail(wire) /\ wire # <<>> /\ Head(wire) = "exec"
        /\ \/ cmd' = "running" /\ (~gaveUp => heard' = Append(heard, "started"))
           \/ cmd' = cmd /\ (~gaveUp => heard' = Append(heard, "failed"))
    BY <1>32, Zenon DEF AgentExec, Hear
  <2>2. \/ wire = <<"exec">> /\ wire' = <<>>
        \/ wire = <<"exec", "kill">> /\ wire' = <<"kill">>
    BY <2>1, TakesExec, Zenon DEF Talk
  <2>3. pc[Main] \notin Before \cup Running \cup Ending \cup Awaiting
    BY <2>2, Unheard DEF Talk
  <2>4. ASSUME pc[Main] = "started"
        PROVE  /\ wire' = <<>>
               /\ \/ cmd' = "running" /\ heard' = <<"started">>
                  \/ cmd' = "none" /\ heard' = <<"failed">>
    <3>1. wire = <<"exec">> /\ heard = <<>> /\ cmd = "none"
      BY <2>2, <2>4, Unheard, Zenon DEF Talk
    <3>2. ~gaveUp
      BY <2>4, Zenon DEF Given, Tearing, Held
    <3>3. wire' = <<>>
      BY <2>2, <3>1, Unheard, Zenon
    <3>4. QED BY <2>1, <3>1, <3>2, <3>3, Puts, Zenon
  <2>5. QED BY <2>1, <2>2, <2>3, <2>4, Zenon DEF Talk, Wires
<1>33. CASE AgentKill
  <2> HIDE DEF Talk, Given, Codes, Wires, Before, Running, Ending, Awaiting, Held,
                  Tearing, Up
  <2>1. /\ UNCHANGED <<pc, heard>> /\ wire' = Tail(wire) /\ wire # <<>> /\ Head(wire) = "kill"
    BY <1>33, Zenon DEF AgentKill
  <2>2. wire = <<"kill">> /\ wire' = <<>>
    BY <2>1, TakesKill, Zenon DEF Talk
  <2>3. pc[Main] \notin Before \cup Running \cup Ending \cup Awaiting \cup {"started"}
    BY <2>2, Unheard, Zenon DEF Talk
  <2>4. QED BY <2>1, <2>2, <2>3, Zenon DEF Talk, Wires
<1>34. CASE CommandEnds
  <2> HIDE DEF Talk, Given, Codes, Wires, Before, Running, Ending, Awaiting, Held,
                  Tearing, Up
  <2>1. /\ cmd = "running" /\ UNCHANGED <<pc, wire>>
        /\ \/ cmd' = "reported" /\ (~gaveUp => heard' = Append(heard, "exit"))
           \/ cmd' = "ended" /\ heard' = heard
    BY <1>34, Zenon DEF CommandEnds, Hear
  <2>2. pc[Main] \notin Before /\ wire \in {<<>>, <<"off">>, <<"kill">>}
    BY <2>1, Zenon DEF Talk
  <2>3. ASSUME pc[Main] = "started"
        PROVE  /\ wire = <<>>
               /\ \/ cmd' = "reported" /\ heard' = <<"started", "exit">>
                  \/ cmd' = "ended" /\ heard' = <<"started">>
    <3>1. wire = <<>> /\ heard = <<"started">> /\ ~gaveUp
      BY <2>1, <2>3, Zenon DEF Talk, Given, Tearing, Held
    <3>2. QED BY <2>1, <3>1, Puts, Zenon
  <2>4. ASSUME pc[Main] \in Running
        PROVE  /\ wire = <<>>
               /\ \/ cmd' = "reported" /\ heard' = <<"exit">>
                  \/ cmd' = "ended" /\ heard' = <<>>
    <3>1. wire = <<>> /\ heard = <<>> /\ ~gaveUp
      BY <2>1, <2>4, Zenon DEF Talk, Given, Tearing, Held, Running
    <3>2. QED BY <2>1, <3>1, Puts, Zenon
  <2>5. QED BY <2>1, <2>2, <2>3, <2>4, Zenon DEF Talk, Wires
<1>35. CASE GuestEnds
  BY <1>35, Zenon DEF GuestEnds, Lives
<1>36. CASE LinkLost
  BY <1>36, ZenonT(30) DEF LinkLost, Lives, Up
<1>37. CASE UNCHANGED vars
  BY <1>37, ZenonT(30) DEF vars
<1>38. QED
  BY ZenonT(30), <1>1, <1>2, <1>3, <1>4, <1>5, <1>6, <1>7, <1>8, <1>9, <1>10, <1>11, <1>12, <1>13, <1>14,
     <1>15, <1>16, <1>17, <1>18, <1>19, <1>20, <1>21, <1>22, <1>23, <1>24, <1>25, <1>26, <1>27,
     <1>28, <1>29, <1>30, <1>31, <1>32, <1>33, <1>34, <1>35, <1>36, <1>37
     DEF Next, MainStep, SignalStep, TeardownStep, GuestStep, Threads

\* A command given up on has its kill behind it (kill_command).
LEMMA GivenStep ==
    ASSUME Locks, Talk, Given, Codes, [Next]_vars
    PROVE  Given'
<1> USE DEF Locks, Talk, Given, Codes, Wires, Before, Running, Ending, Awaiting,
        Held, Tearing, Up,
        At, Exited, Go, Threads, Main, Signal, None, lock, resources, signals, channel, command
<1>1. CASE Start
  BY <1>1, Zenon DEF Start
<1>2. CASE Assemble
  BY <1>2, Zenon DEF Assemble
<1>3. CASE AssembleFails
  BY <1>3, Zenon DEF AssembleFails
<1>4. CASE Ready
  BY <1>4, Zenon DEF Ready
<1>5. CASE NotReady
  BY <1>5, Zenon DEF NotReady, Teardown
<1>6. CASE ArmSignals
  BY <1>6, Zenon DEF ArmSignals, Leave
<1>7. CASE Sound
  BY <1>7, Zenon DEF Sound, MachineFree
<1>8. CASE BindStreams
  BY <1>8, Zenon DEF BindStreams
<1>9. CASE Request
  BY <1>9, Zenon DEF Request, Up
<1>10. CASE Started
  BY <1>10, Zenon DEF Started
<1>11. CASE NotStarted
  <2> HIDE DEF Talk, Given, Codes, Wires, Before, Running, Ending, Awaiting, Held,
                  Tearing, Up
  <2>1. pc[Main] = "started" /\ pc'[Main] = "blame" /\ UNCHANGED link
    BY <1>11, Zenon DEF NotStarted
  <2>2. wire \in {<<>>, <<"exec">>}
    BY <2>1, Zenon DEF Talk
  <2>3. Up => wire' = Append(wire, "kill")
    BY <1>11, Zenon DEF NotStarted, KillCommand
  <2>4. Up => wire' \in {<<"exec", "kill">>, <<"kill">>}
    BY <2>2, <2>3, Puts, Zenon
  <2>5. QED BY <2>1, <2>4, Zenon DEF Given, Up
<1>12. CASE Blame
  BY <1>12, Zenon DEF Blame, MachineFree
<1>13. CASE AcceptStream
  BY <1>13, Zenon DEF AcceptStream
<1>14. CASE AcceptFails
  <2> HIDE DEF Talk, Given, Codes, Wires, Before, Running, Ending, Awaiting, Held,
                  Tearing, Up
  <2>1. pc'[Main] = "exec error" /\ wire = <<>> /\ UNCHANGED link
    BY <1>14, Zenon DEF AcceptFails, Talk, Running
  <2>2. Up => wire' = Append(wire, "kill")
    BY <1>14, Zenon DEF AcceptFails, KillCommand
  <2>3. Up => wire' = <<"kill">>
    BY <2>1, <2>2, Puts, Zenon
  <2>4. QED BY <2>1, <2>3, Zenon DEF Given, Up
<1>15. CASE ExecError
  BY <1>15, Zenon DEF ExecError, Leave
<1>16. CASE CopyOut
  BY <1>16, Zenon DEF CopyOut
<1>17. CASE Wait
  BY <1>17, Zenon DEF Wait, Up, ClosedStatus
<1>18. CASE Check
  BY <1>18, Zenon DEF Check, Teardown, Leave
<1>19. CASE Shutdown
  BY <1>19, Zenon DEF Shutdown, Leave, Up
<1>20. CASE Await
  BY <1>20, Zenon DEF Await, MachineFree, Teardown
<1>21. CASE Awaited
  BY <1>21, Zenon DEF Awaited, Teardown, Leave, Cut
<1>22. ASSUME NEW t \in Threads, TakeTorn(t) PROVE Given'
  BY <1>22, ZenonT(30) DEF TakeTorn, TornRead, Frame
<1>23. ASSUME NEW t \in Threads, TakeMachine(t) PROVE Given'
  BY <1>23, Zenon DEF TakeMachine, MachineFree, Frame
<1>24. ASSUME NEW t \in Threads, StopMachine(t) PROVE Given'
  BY <1>24, Zenon DEF StopMachine, Cut, Frame
<1>25. ASSUME NEW t \in Threads, StopDemux(t) PROVE Given'
  BY <1>25, Zenon DEF StopDemux, Cut, Frame
<1>26. ASSUME NEW t \in Threads, RemoveDir(t) PROVE Given'
  BY <1>26, Zenon DEF RemoveDir, Frame
<1>27. ASSUME NEW t \in Threads, Release(t) PROVE Given'
  BY <1>27, Zenon DEF Release, TornNow, Frame
<1>28. ASSUME NEW t \in Threads, DropInner(t) PROVE Given'
  BY <1>28, ZenonT(30) DEF DropInner, Teardown
<1>29. CASE ReadPipe
  BY <1>29, Zenon DEF ReadPipe
<1>30. CASE StopperKill
  BY <1>30, Zenon DEF StopperKill, Teardown
<1>31. CASE OnSignal
  BY <1>31, Zenon DEF OnSignal
<1>32. CASE AgentExec
  <2> HIDE DEF Talk, Given, Codes, Wires, Before, Running, Ending, Awaiting, Held,
                  Tearing, Up
  <2>1. UNCHANGED <<pc, gaveUp, link>> /\ wire' = Tail(wire) /\ wire # <<>> /\ Head(wire) = "exec"
    BY <1>32, Zenon DEF AgentExec
  <2>2. \/ wire = <<"exec">> /\ wire' = <<>>
        \/ wire = <<"exec", "kill">> /\ wire' = <<"kill">>
    BY <2>1, TakesExec, Zenon DEF Talk
  <2>3. gaveUp /\ Up => wire' = <<"kill">>
    BY <2>2, Unheard, Zenon DEF Given
  <2>4. QED BY <2>1, <2>3, Zenon DEF Given, Up
<1>33. CASE AgentKill
  <2> HIDE DEF Talk, Given, Codes, Wires, Before, Running, Ending, Awaiting, Held,
                  Tearing, Up
  <2>1. /\ UNCHANGED <<pc, gaveUp, link>> /\ cmd' # "running"
        /\ wire' = Tail(wire) /\ wire # <<>> /\ Head(wire) = "kill"
    BY <1>33, Zenon DEF AgentKill
  <2>2. wire' = <<>>
    BY <2>1, TakesKill, Zenon DEF Talk
  <2>3. QED BY <2>1, <2>2, Zenon DEF Given, Up
<1>34. CASE CommandEnds
  BY <1>34, Zenon DEF CommandEnds, Lives, Up, Hear
<1>35. CASE GuestEnds
  BY <1>35, Zenon DEF GuestEnds, Lives
<1>36. CASE LinkLost
  BY <1>36, Zenon DEF LinkLost, Lives, Up
<1>37. CASE UNCHANGED vars
  BY <1>37, ZenonT(30) DEF vars
<1>38. QED
  BY ZenonT(30), <1>1, <1>2, <1>3, <1>4, <1>5, <1>6, <1>7, <1>8, <1>9, <1>10, <1>11, <1>12, <1>13, <1>14,
     <1>15, <1>16, <1>17, <1>18, <1>19, <1>20, <1>21, <1>22, <1>23, <1>24, <1>25, <1>26, <1>27,
     <1>28, <1>29, <1>30, <1>31, <1>32, <1>33, <1>34, <1>35, <1>36, <1>37
     DEF Next, MainStep, SignalStep, TeardownStep, GuestStep, Threads

\* The thread leaves with a code only once the command is reported and the sandbox torn
\* (run_verb).
LEMMA CodesStep ==
    ASSUME Locks, Talk, Given, Codes, [Next]_vars
    PROVE  Codes'
<1> USE DEF Locks, Talk, Given, Codes, Wires, Before, Running, Ending, Awaiting,
        Held, Tearing, Up,
        At, Exited, Go, Threads, Main, Signal, None, lock, resources, signals, channel, command
<1>1. CASE Start
  BY <1>1, Zenon DEF Start
<1>2. CASE Assemble
  BY <1>2, Zenon DEF Assemble
<1>3. CASE AssembleFails
  BY <1>3, Zenon DEF AssembleFails
<1>4. CASE Ready \/ NotReady \/ ArmSignals
  BY <1>4, ZenonT(30) DEF Ready, NotReady, Teardown, ArmSignals, Leave
<1>5. CASE Sound \/ BindStreams \/ Request \/ Started \/ NotStarted \/ Blame \/ AcceptStream
           \/ AcceptFails \/ CopyOut \/ Wait
  BY <1>5, ZenonT(30) DEF Sound, MachineFree, BindStreams, Request, Up, Started, NotStarted, KillCommand,
         Blame, AcceptStream, AcceptFails, CopyOut, Wait, ClosedStatus
<1>6. CASE ExecError
  BY <1>6, Zenon DEF ExecError, Leave
<1>7. CASE Check
  BY <1>7, ZenonT(30) DEF Check, Teardown, Leave
<1>8. CASE Shutdown
  BY <1>8, ZenonT(30) DEF Shutdown, Leave, Up
<1>9. CASE Await
  BY <1>9, ZenonT(30) DEF Await, MachineFree, Teardown
<1>10. CASE Awaited
  BY <1>10, ZenonT(30) DEF Awaited, Teardown, Leave, Cut
<1>11. ASSUME NEW t \in Threads, TakeTorn(t) PROVE Codes'
  BY <1>11, ZenonT(30) DEF TakeTorn, TornRead, Frame
<1>12. ASSUME NEW t \in Threads, TakeMachine(t) PROVE Codes'
  BY <1>12, ZenonT(30) DEF TakeMachine, MachineFree, Frame
<1>13. ASSUME NEW t \in Threads, StopMachine(t) PROVE Codes'
  BY <1>13, ZenonT(30) DEF StopMachine, Cut, Frame
<1>14. ASSUME NEW t \in Threads, StopDemux(t) PROVE Codes'
  BY <1>14, ZenonT(30) DEF StopDemux, Cut, Frame
<1>15. ASSUME NEW t \in Threads, RemoveDir(t) PROVE Codes'
  BY <1>15, ZenonT(30) DEF RemoveDir, Frame
<1>16. ASSUME NEW t \in Threads, Release(t) PROVE Codes'
  BY <1>16, ZenonT(30) DEF Release, TornNow, Frame
<1>17. ASSUME NEW t \in Threads, DropInner(t) PROVE Codes'
  BY <1>17, ZenonT(60) DEF DropInner, Teardown
<1>18. CASE ReadPipe
  BY <1>18, Zenon DEF ReadPipe
<1>19. CASE StopperKill
  BY <1>19, ZenonT(30) DEF StopperKill, Teardown
<1>20. CASE OnSignal
  BY <1>20, Zenon DEF OnSignal
<1>21. CASE AgentExec
  <2> HIDE DEF Talk, Given, Codes, Wires, Before, Running, Ending, Awaiting, Held,
                  Tearing, Up
  <2>1. /\ UNCHANGED <<pc, back, status, result, signals, lock>>
        /\ wire # <<>> /\ Head(wire) = "exec"
    BY <1>21, Zenon DEF AgentExec
  <2>2. wire = <<"exec">> \/ wire = <<"exec", "kill">>
    BY <2>1, TakesExec, Zenon DEF Talk
  <2>3. cmd = "none"
    BY <2>2, Unheard DEF Talk
  <2>4. QED BY <2>1, <2>3, Zenon DEF Codes
<1>22. CASE AgentKill
  BY <1>22, ZenonT(30) DEF AgentKill, Lives, Up
<1>23. CASE CommandEnds
  BY <1>23, Zenon DEF CommandEnds, Lives, Up, Hear
<1>24. CASE GuestEnds
  BY <1>24, Zenon DEF GuestEnds, Lives
<1>25. CASE LinkLost
  BY <1>25, ZenonT(30) DEF LinkLost, Lives, Up
<1>26. CASE UNCHANGED vars
  BY <1>26, Zenon DEF vars
<1>27. QED
  BY ZenonT(30), <1>1, <1>2, <1>3, <1>4, <1>5, <1>6, <1>7, <1>8, <1>9, <1>10, <1>11, <1>12, <1>13, <1>14,
     <1>15, <1>16, <1>17, <1>18, <1>19, <1>20, <1>21, <1>22, <1>23, <1>24, <1>25, <1>26
     DEF Next, MainStep, SignalStep, TeardownStep, GuestStep, Threads

-----------------------------------------------------------------------------
\* The inductive invariant holds in every state.
LEMMA SandboxKeeps == Spec => []SandboxInv
<1>1. Init => SandboxInv
  BY InitSandbox, Zenon
<1>2. SandboxInv /\ [Next]_vars => SandboxInv'
  BY LocksStep, UnbornStep, TornStep, TalkStep, GivenStep, CodesStep, Zenon DEF SandboxInv
<1>3. QED BY <1>1, <1>2, PTL DEF Spec

\* Whichever thread tears a sandbox down, and however often one failed before: a sandbox marked
\* torn has left nothing, and the lock on the image outlives the guest (Inner::teardown).
THEOREM TeardownIsSound == Spec => []TeardownSound
<1>1. SandboxInv => TeardownSound BY Zenon DEF SandboxInv
<1>2. QED BY <1>1, SandboxKeeps, PTL

\* A program that heard its command end leaves after the teardown, with the command's code only
\* if the agent reported it and with the signal's only if one came (run_verb).
THEOREM ExitIsSound == Spec => []ExitSound
<1>1. SandboxInv => ExitSound
  BY Zenon DEF SandboxInv, Codes, ExitSound, ExitWaitsForTeardown, CodeIsTrue, Exited, Tearing, Held
<1>2. QED BY <1>1, SandboxKeeps, PTL

\* A command given up on is killed for as long as its agent is connected (kill_command).
THEOREM AbandonedAreKilled == Spec => []AbandonedIsKilled
<1>1. SandboxInv => AbandonedIsKilled
  <2> SUFFICES ASSUME SandboxInv, gaveUp, Up, cmd = "running" \/ \E i \in DOMAIN wire : wire[i] = "exec"
               PROVE  \E i \in DOMAIN wire : wire[i] = "kill"
    BY Zenon DEF AbandonedIsKilled
  <2>1. wire \in {<<"exec", "kill">>, <<"kill">>} \/ (wire = <<>> /\ cmd # "running")
    BY Zenon DEF SandboxInv, Given
  <2>2. CASE wire = <<"exec", "kill">>
    <3>1. 2 \in DOMAIN wire /\ wire[2] = "kill" BY <2>2
    <3>2. QED BY <3>1, Zenon
  <2>3. CASE wire = <<"kill">>
    <3>1. 1 \in DOMAIN wire /\ wire[1] = "kill" BY <2>3
    <3>2. QED BY <3>1, Zenon
  <2>4. CASE wire = <<>> /\ cmd # "running" BY <2>4
  <2>5. QED BY <2>1, <2>2, <2>3, <2>4, Zenon
<1>2. QED BY <1>1, SandboxKeeps, PTL
=============================================================================
