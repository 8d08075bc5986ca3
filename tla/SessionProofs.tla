--------------------------- MODULE SessionProofs ---------------------------
(***************************************************************************)
(* The agent's books on its commands, proved for any set of commands: one  *)
(* answer each, pids the agent owns, a command's output ahead of the       *)
(* report of its exit, and nothing the host was told of left running.      *)
(* Then the identity the agent gives a clone, for any set of clones, of    *)
(* clocks and of times the host sends.                                     *)
(***************************************************************************)
EXTENDS Session, Identity, Integers, TLAPS

Answers == {<<>>, <<"started">>, <<"started", "exit">>, <<"started", "timed out">>, <<"failed">>}
Frames == {<<>>} \cup {<<f>> : f \in [op : {"exec", "signal", "other", "shutdown"}, id : Cmds \cup {None}]}

\* What the variables hold that the argument is about.
Types ==
    /\ children \subseteq Cmds /\ pc \in {"connect", "kill", "wait", "reap", "drain", "poll", "pump", "off"}
    /\ proc \in [Cmds -> {None, "running", "zombie", "gone"}]
    /\ said \in [Cmds -> Answers] /\ wire \in Frames
    /\ outBuf \in [Cmds -> Nat] /\ tty \in [Cmds -> Nat] /\ owing \in [Cmds -> Int]

\* A listed command was reported started and is not reaped; one reported is listed or gone; one
\* that was never forked has nothing to its name.
Listed(c) ==
    /\ c \in children => said[c] = <<"started">> /\ proc[c] \in {"running", "zombie"}
    /\ said[c] # <<>> => c \in children \/ proc[c] = "gone"
    /\ proc[c] = None => said[c] = <<>> /\ owing[c] = 0 /\ tty[c] = 0 /\ outBuf[c] = 0
    /\ c \in masterDone => tty[c] = 0 /\ proc[c] \in {"zombie", "gone"}

\* A command asked for on the wire was never forked.
Asked == wire # <<>> /\ wire[1].op = "exec" => wire[1].id \in Cmds /\ proc[wire[1].id] = None

\* The child drained is off the list, reaped and reported started only.
Draining ==
    /\ pc = "connect" => children = {}
    /\ pc = "drain" =>
        /\ current \in Cmds \ children /\ said[current] = <<"started">>
        /\ proc[current] = "gone" /\ tty[current] = 0

\* The slots still to be pumped are those of listed ptys, an output one with bytes to push.
Polled ==
    /\ pc # "pump" => ready = {}
    /\ \A c \in Cmds : Master(c) \in ready \/ Input(c) \in ready \/ Output(c) \in ready => c \in children
    /\ \A c \in Cmds : Output(c) \in ready => c \in Ptys /\ c \in output /\ outBuf[c] > 0

\* While the host listens and took what it was sent in time, what a listed or a draining pty
\* owes it is in the pty or in the buffer; the output is closed only once both are empty.
Owes(c) ==
    c \in Ptys /\ c \in listens /\ c \notin late /\ (c \in children \/ (pc = "drain" /\ c = current)) =>
        /\ owing[c] = tty[c] + outBuf[c]
        /\ c \notin output => c \in masterDone /\ outBuf[c] = 0

\* After the report nothing is owed.
Paid(c) == c \in Ptys /\ c \notin late /\ Len(said[c]) = 2 /\ c \in listens => owing[c] = 0

BooksKept ==
    /\ Types /\ Asked /\ Draining /\ Polled
    /\ \A c \in Cmds : Listed(c) /\ Owes(c) /\ Paid(c)

-----------------------------------------------------------------------------
\* A second answer.
LEMMA Appended == ASSUME NEW a, NEW b PROVE Append(<<a>>, b) = <<a, b>>
<1> DEFINE s == <<a>>  t == <<a, b>>
<1>1. s \in Seq({a, b}) /\ t \in Seq({a, b}) /\ b \in {a, b} /\ Len(s) = 1 /\ Len(t) = 2
  OBVIOUS
<1>2. s[1] = a /\ t[1] = a /\ t[2] = b
  OBVIOUS
<1> HIDE DEF s, t
<1>3. Append(s, b) \in Seq({a, b}) /\ Len(Append(s, b)) = 2 /\ Append(s, b)[1] = s[1] /\ Append(s, b)[2] = b
  BY <1>1
<1>4. Append(s, b) = t
  BY <1>1, <1>2, <1>3
<1> QED
  BY <1>4, Zenon DEF s, t

\* Answers, as sequences.
LEMMA AnswerFacts ==
    /\ <<>> \in Answers /\ <<"started">> \in Answers /\ <<"failed">> \in Answers
    /\ Append(<<"started">>, "exit") \in Answers /\ Append(<<"started">>, "timed out") \in Answers
    /\ <<"started">> # <<>> /\ <<"failed">> # <<>>
    /\ Append(<<"started">>, "exit") # <<>> /\ Append(<<"started">>, "timed out") # <<>>
    /\ Len(<<>>) # 2 /\ Len(<<"started">>) # 2 /\ Len(<<"failed">>) # 2
<1>1. Append(<<"started">>, "exit") = <<"started", "exit">> /\ Append(<<"started">>, "timed out") = <<"started", "timed out">>
  BY Appended, Zenon
<1>2. Len(<<>>) = 0 /\ Len(<<"started">>) = 1 /\ Len(<<"failed">>) = 1
  OBVIOUS
<1>3. <<"started">> # <<>> /\ <<"failed">> # <<>> /\ <<"started", "exit">> # <<>> /\ <<"started", "timed out">> # <<>>
  OBVIOUS
<1>4. 0 # 2 /\ 1 # 2
  OBVIOUS
<1>5. /\ <<>> \in Answers /\ <<"started">> \in Answers /\ <<"failed">> \in Answers
      /\ <<"started", "exit">> \in Answers /\ <<"started", "timed out">> \in Answers
  BY Zenon DEF Answers
<1> QED
  BY <1>1, <1>2, <1>3, <1>4, <1>5, Zenon

\* The first answer to a command.
LEMMA FirstAnswer == \A kind : Append(<<>>, kind) = <<kind>>
  OBVIOUS

\* A frame is read off a wire that held it alone.
LEMMA ReadFrame ==
    ASSUME Types, NEW op, Read(op)
    PROVE  /\ wire' = <<>> /\ wire # <<>> /\ Head(wire) = wire[1] /\ wire[1].op = op
           /\ pc = "pump" /\ ready # {} /\ ready \subseteq {Control}
<1>1. PICK f \in [op : {"exec", "signal", "other", "shutdown"}, id : Cmds \cup {None}] : wire = <<f>>
  BY Zenon DEF Types, Frames, Read
<1> QED
  BY <1>1 DEF Read, AtControl

\* Steps that at most kill: the books stay kept.
LEMMA KeptBy ==
    ASSUME BooksKept,
           UNCHANGED <<children, said, outBuf, tty, owing, masterDone, output, late>>,
           listens' \subseteq listens, wire' \in Frames, Asked', Polled',
           proc' \in [Cmds -> {None, "running", "zombie", "gone"}],
           \A c \in Cmds : proc'[c] = proc[c] \/ (proc[c] = "running" /\ proc'[c] = "zombie"),
           \/ pc' = pc /\ current' = current
           \/ pc' \in {"kill", "wait", "reap", "poll", "pump", "off"}
    PROVE  BooksKept'
<1> USE DEF BooksKept
<1>1. Types'
  BY Zenon DEF Types
<1>2. Draining'
  BY Zenon DEF Types, Draining, None
<1>3. ASSUME NEW c \in Cmds PROVE Listed(c)'
  BY Zenon DEF Types, Listed, None
<1>4. ASSUME NEW c \in Cmds PROVE Owes(c)' /\ Paid(c)'
  BY Zenon DEF Owes, Paid
<1> QED
  BY <1>1, <1>2, <1>3, <1>4, Zenon

\* Such a step that empties the wire or leaves it, and is done with the slots or leaves them.
LEMMA QuietStep ==
    ASSUME BooksKept,
           UNCHANGED <<children, said, outBuf, tty, owing, masterDone, output, late>>,
           listens' \subseteq listens, wire' \in {wire, <<>>},
           proc' \in [Cmds -> {None, "running", "zombie", "gone"}],
           \A c \in Cmds : proc'[c] = proc[c] \/ (proc[c] = "running" /\ proc'[c] = "zombie"),
           \/ pc' = pc /\ current' = current /\ ready' = ready
           \/ pc' \in {"kill", "wait", "reap", "poll", "off"} /\ ready' = {}
    PROVE  BooksKept'
<1> USE DEF BooksKept
<1>1. wire' \in Frames
  BY Zenon DEF Types, Frames
<1>2. Asked'
  BY Zenon DEF Types, Asked, None
<1>3. Polled'
  BY Zenon DEF Polled
<1> QED
  BY <1>1, <1>2, <1>3, KeptBy, Zenon

\* What is killed at most goes from running to zombie.
LEMMA KilledMoves ==
    ASSUME Types, NEW S
    PROVE  /\ Killed(S) \in [Cmds -> {None, "running", "zombie", "gone"}]
           /\ \A c \in Cmds : Killed(S)[c] = proc[c] \/ (proc[c] = "running" /\ Killed(S)[c] = "zombie")
  BY Zenon DEF Types, Killed

\* The steps of the loop, of time and of the host that kill at most.
LEMMA QuietSteps ==
    ASSUME BooksKept,
           \/ Serve \/ KillAll \/ EnforceTimeouts \/ NoFrame \/ SignalCommand \/ OtherFrame \/ PowerOff \/ HostLeaves
           \/ \E d \in Cmds : StillRuns(d) \/ Dies(d) \/ Expires(d) \/ HostReads(d) \/ HostStops(d)
    PROVE  BooksKept'
<1> USE DEF BooksKept, loop, child, pump, process, control, host
<1>t. Types /\ proc \in [Cmds -> {None, "running", "zombie", "gone"}]
  BY Zenon DEF Types
<1>p. pc # "pump" => ready = {}
  BY Zenon DEF Polled
<1>1. CASE Serve
  BY <1>1, <1>t, <1>p, QuietStep, Zenon DEF Serve
<1>2. CASE KillAll
  BY <1>2, <1>t, <1>p, QuietStep, KilledMoves, Zenon DEF KillAll
<1>3. CASE EnforceTimeouts
  BY <1>3, <1>t, <1>p, QuietStep, KilledMoves, Zenon DEF EnforceTimeouts
<1>4. CASE NoFrame
  BY <1>4, <1>t, QuietStep, Zenon DEF NoFrame, Again, Ends
<1>5. CASE SignalCommand
  <2>1. wire' = <<>> /\ pc' = "reap" /\ ready' = {}
    BY <1>5, <1>t, ReadFrame, Zenon DEF SignalCommand, Again
  <2>2. /\ proc' \in [Cmds -> {None, "running", "zombie", "gone"}]
        /\ \A c \in Cmds : proc'[c] = proc[c] \/ (proc[c] = "running" /\ proc'[c] = "zombie")
    <3>1. proc' = proc \/ proc' = Killed({Head(wire).id} \cap children)
      BY <1>5, Zenon DEF SignalCommand
    <3>2. CASE proc' = proc
      BY <1>t, <3>2, Zenon
    <3>3. CASE proc' = Killed({Head(wire).id} \cap children)
      <4>1. PICK S : S = {Head(wire).id} \cap children
        BY Zenon
      <4> QED
        BY <1>t, <3>3, <4>1, KilledMoves, Zenon
    <3> QED
      BY <3>1, <3>2, <3>3, Zenon
  <2>3. listens' = listens /\ UNCHANGED <<children, said, outBuf, tty, owing, masterDone, output, late>>
    BY <1>5, Zenon DEF SignalCommand
  <2> QED
    BY <2>1, <2>2, <2>3, QuietStep, Zenon
<1>6. CASE OtherFrame
  BY <1>6, <1>t, QuietStep, ReadFrame, Zenon DEF OtherFrame, Again, Ends
<1>7. CASE PowerOff
  BY <1>7, <1>t, QuietStep, ReadFrame, Zenon DEF PowerOff, Again
<1>8. CASE HostLeaves
  BY <1>8, <1>t, QuietStep, Zenon DEF HostLeaves
<1>9. ASSUME NEW d \in Cmds, StillRuns(d) \/ Expires(d) \/ HostReads(d) PROVE BooksKept'
  BY <1>9, <1>t, QuietStep, Zenon DEF StillRuns, Expires, HostReads
<1>10. ASSUME NEW d \in Cmds, Dies(d) PROVE BooksKept'
  BY <1>10, <1>t, QuietStep, Zenon DEF Dies
<1>11. ASSUME NEW d \in Cmds, HostStops(d) PROVE BooksKept'
  BY <1>11, <1>t, QuietStep, Zenon DEF HostStops
<1> QED
  BY <1>1, <1>2, <1>3, <1>4, <1>5, <1>6, <1>7, <1>8, <1>9, <1>10, <1>11, Zenon

\* The host sends a command that was never forked, once.
LEMMA HostSendsStep == ASSUME BooksKept, HostSends PROVE BooksKept'
<1> USE DEF BooksKept, loop, child, pump, process, control, host
<1>t. proc \in [Cmds -> {None, "running", "zombie", "gone"}]
  BY Zenon DEF Types
<1>1. PICK f \in [op : {"exec", "signal", "other", "shutdown"}, id : Cmds \cup {None}] :
        /\ wire' = <<f>>
        /\ f.op = "exec" => f.id \in Cmds /\ proc[f.id] = None
  <2>1. CASE \E c \in Cmds : proc[c] = None /\ wire' = <<[op |-> "exec", id |-> c]>>
    BY <2>1
  <2>2. CASE \E c \in Cmds : said[c] # <<>> /\ wire' = <<[op |-> "signal", id |-> c]>>
    BY <2>2
  <2>3. CASE \E op \in {"other", "shutdown"} : wire' = <<[op |-> op, id |-> None]>>
    BY <2>3
  <2> QED
    BY <2>1, <2>2, <2>3, Zenon DEF HostSends
<1>2. wire' \in Frames
  BY <1>1, Zenon DEF Frames
<1>3. wire'[1] = f /\ proc' = proc
  BY <1>1, Zenon DEF HostSends
<1>4. Asked'
  BY <1>1, <1>3, Zenon DEF Asked
<1>5. Polled'
  BY Zenon DEF Polled, HostSends
<1> QED
  BY <1>t, <1>2, <1>4, <1>5, KeptBy, Zenon DEF HostSends

\* poll reports slots of listed ptys, an output only with bytes to push.
LEMMA PollStep == ASSUME BooksKept, Poll PROVE BooksKept'
<1> USE DEF BooksKept, loop, child, pump, process, control, host
<1>t. proc \in [Cmds -> {None, "running", "zombie", "gone"}] /\ wire' \in Frames
  BY Zenon DEF Types, Poll
<1>1. PICK typed \in SUBSET Typed : ready' = ReadySlots \cup typed
  BY Zenon DEF Poll
<1>s. ASSUME NEW slot \in ready'
      PROVE  slot \in typed \/ slot = Control \/ \E k \in children \cap Ptys : slot \in Slots(k)
  <2> HIDE DEF BooksKept
  <2>1. slot \in typed \/ slot \in {s \in {Control} : wire # <<>> \/ ~up} \/ slot \in UNION {Slots(c) : c \in children \cap Ptys}
    BY <1>1, <1>s, Zenon DEF ReadySlots
  <2> QED
    BY <2>1, Zenon
<1>2. ASSUME NEW c \in Cmds, Master(c) \in ready' \/ Input(c) \in ready' \/ Output(c) \in ready' PROVE c \in children
  <2>1. ASSUME NEW k \in children \cap Ptys, NEW slot \in Slots(k) PROVE slot[1] = k
    BY <2>1 DEF Slots, Master, Output
  <2>2. ASSUME NEW slot \in Typed PROVE slot[1] \in children
    BY <2>2 DEF Typed, Input
  <2>3. ASSUME NEW slot \in ready', slot # Control PROVE slot[1] \in children
    BY <1>s, <2>1, <2>2, <2>3, Zenon
  <2>4. /\ Master(c)[1] = c /\ Input(c)[1] = c /\ Output(c)[1] = c
        /\ Master(c) # Control /\ Input(c) # Control /\ Output(c) # Control
    BY Zenon DEF Master, Input, Output, Control
  <2> QED
    BY <1>2, <2>3, <2>4, Zenon
<1>3. ASSUME NEW c \in Cmds, Output(c) \in ready' PROVE c \in Ptys /\ c \in output /\ outBuf[c] > 0
  <2>1. Output(c) \notin typed /\ Output(c) # Control
    BY Zenon DEF Typed, Input, Output, Control
  <2>2. PICK k \in children \cap Ptys : Output(c) \in Slots(k)
    BY <1>s, <1>3, <2>1, Zenon
  <2> QED
    BY <2>2, Zenon DEF Slots, Master, Output
<1>4. Polled'
  BY <1>2, <1>3, Zenon DEF Polled, Poll, Master, Input, Output
<1>5. Asked'
  BY Zenon DEF Asked, Poll
<1> QED
  BY <1>t, <1>4, <1>5, KeptBy, Zenon DEF Poll

\* The session is over and its commands are gone.
LEMMA WaitDeadStep == ASSUME BooksKept, WaitDead PROVE BooksKept'
<1> USE DEF BooksKept, loop, child, pump, process, control, host
<1>1. Types'
  BY Zenon DEF Types, WaitDead
<1>2. Asked' /\ Draining' /\ Polled'
  BY Zenon DEF Types, Asked, Draining, Polled, Listed, WaitDead, None
<1>3. ASSUME NEW c \in Cmds PROVE Listed(c)'
  BY Zenon DEF Types, Listed, WaitDead, None
<1>4. ASSUME NEW c \in Cmds PROVE Owes(c)' /\ Paid(c)'
  BY Zenon DEF Owes, Paid, WaitDead
<1> QED
  BY <1>1, <1>2, <1>3, <1>4, Zenon

\* A child reaped: what its pty held goes to the buffer, so what it owes does not change.
LEMMA ReapStep == ASSUME BooksKept, NEW d \in Cmds, Reap(d) PROVE BooksKept'
<1> USE DEF BooksKept, loop, child, pump, process, control, host
<1>1. /\ outBuf'[d] = outBuf[d] + tty[d] /\ tty'[d] = 0 /\ proc'[d] = "gone"
      /\ \A c \in Cmds : c # d => outBuf'[c] = outBuf[c] /\ tty'[c] = tty[c] /\ proc'[c] = proc[c]
      /\ outBuf' \in [Cmds -> Nat] /\ tty' \in [Cmds -> Nat]
      /\ proc' \in [Cmds -> {None, "running", "zombie", "gone"}]
  BY DEF Types, Reap, LastRead
<1>2. /\ children' = children \ {d} /\ d \in children /\ proc[d] = "zombie" /\ pc = "reap" /\ pc' = "drain" /\ current' = d
      /\ UNCHANGED <<said, wire, owing, masterDone, output, listens, late, ready>>
  BY Zenon DEF Reap, Unlisted
<1>t. outBuf[d] \in Nat /\ tty[d] \in Nat
  BY Zenon DEF Types
<1>3. Types'
  BY <1>1, <1>2, Zenon DEF Types
<1>4. Asked' /\ Draining' /\ Polled'
  BY <1>1, <1>2, Zenon DEF Asked, Draining, Polled, Listed, None
<1>5. ASSUME NEW c \in Cmds PROVE Listed(c)'
  BY <1>1, <1>2, Zenon DEF Listed, None
<1>6. ASSUME NEW c \in Cmds PROVE Owes(c)'
  <2>1. CASE c = d
    <3>1. tty'[d] + outBuf'[d] = tty[d] + outBuf[d] /\ (tty[d] = 0 /\ outBuf[d] = 0 => outBuf'[d] = 0)
      BY <1>1, <1>t, SMTT(30)
    <3> QED
      BY <1>1, <1>2, <2>1, <3>1, Zenon DEF Owes, Listed
  <2>2. CASE c # d
    BY <1>1, <1>2, <2>2, Zenon DEF Owes
  <2> QED
    BY <2>1, <2>2, Zenon
<1>7. ASSUME NEW c \in Cmds PROVE Paid(c)'
  BY <1>2, Zenon DEF Paid
<1> QED
  BY <1>3, <1>4, <1>5, <1>6, <1>7, Zenon

\* A byte of the buffer is passed on: the host is owed one less.
LEMMA PushStep == ASSUME BooksKept, Push PROVE BooksKept'
<1> USE DEF BooksKept, loop, child, pump, process, control, host
<1>1. /\ pc = "drain" /\ current \in Cmds /\ current \in listens /\ outBuf[current] > 0
      /\ UNCHANGED <<pc, current, ready, children, said, wire, proc, tty, masterDone, output, listens, late>>
  BY Zenon DEF Push, Draining
<1>2. outBuf[current] \in Nat /\ owing[current] \in Int /\ tty[current] \in Nat
  BY <1>1, Zenon DEF Types
<1>3. outBuf[current] - 1 \in Nat /\ owing[current] - 1 \in Int
  BY <1>1, <1>2
<1>4. /\ outBuf'[current] = outBuf[current] - 1 /\ owing'[current] = owing[current] - 1
      /\ \A c \in Cmds : c # current => outBuf'[c] = outBuf[c] /\ owing'[c] = owing[c]
      /\ outBuf' \in [Cmds -> Nat] /\ owing' \in [Cmds -> Int]
  BY <1>1, <1>3, Zenon DEF Types, Push
<1>5. Types'
  BY <1>1, <1>4, Zenon DEF Types
<1>6. Asked' /\ Draining'
  BY <1>1, Zenon DEF Asked, Draining
<1>7. Polled'
  BY <1>1, Zenon DEF Polled
<1>8. ASSUME NEW c \in Cmds PROVE Listed(c)'
  BY <1>1, <1>4, Zenon DEF Listed, Draining, None
<1>9. ASSUME NEW c \in Cmds PROVE Owes(c)'
  BY <1>1, <1>2, <1>4, SMTT(30) DEF Owes
<1>10. ASSUME NEW c \in Cmds PROVE Paid(c)'
  BY <1>1, <1>4, AnswerFacts, Zenon DEF Paid, Draining
<1> QED
  BY <1>5, <1>6, <1>7, <1>8, <1>9, <1>10, Zenon

\* The rest is given up: the host was late, or had closed its end.
LEMMA GiveUpStep == ASSUME BooksKept, GiveUp PROVE BooksKept'
<1> USE DEF BooksKept, loop, child, pump, process, control, host
<1>1. Types'
  BY Zenon DEF Types, GiveUp
<1>2. Asked' /\ Draining' /\ Polled'
  BY Zenon DEF Types, Asked, Draining, Polled, GiveUp
<1>3. ASSUME NEW c \in Cmds PROVE Listed(c)'
  BY Zenon DEF Types, Listed, GiveUp, None
<1>4. ASSUME NEW c \in Cmds PROVE Owes(c)'
  BY Zenon DEF Types, Owes, Draining, GiveUp
<1>5. ASSUME NEW c \in Cmds PROVE Paid(c)'
  BY Zenon DEF Types, Paid, GiveUp
<1> QED
  BY <1>1, <1>2, <1>3, <1>4, <1>5, Zenon

\* EXEC_EXIT: the buffer and the pty are empty, so nothing is owed.
LEMMA ExitStep == ASSUME BooksKept, Exit PROVE BooksKept'
<1> USE DEF BooksKept, loop, child, pump, process, control, host
<1>1. /\ pc = "drain" /\ current \in Cmds /\ current \notin children /\ outBuf[current] = 0 /\ tty[current] = 0
      /\ proc[current] = "gone" /\ said[current] = <<"started">> /\ ready = {}
      /\ UNCHANGED <<children, wire, proc, tty, outBuf, owing, masterDone, listens, late>>
      /\ output' = output \ {current}
  BY Zenon DEF Exit, Draining, Polled
<1>2. /\ pc' \in {"reap", "kill"} /\ ready' = {}
      /\ \/ said' = said
         \/ said' = [said EXCEPT ![current] = Append(@, "exit")]
         \/ said' = [said EXCEPT ![current] = Append(@, "timed out")]
  BY <1>1, Zenon DEF Exit, Ends
<1>3. /\ said' \in [Cmds -> Answers]
      /\ said'[current] # <<>>
      /\ \A c \in Cmds : c # current => said'[c] = said[c]
  <2>1. PICK a \in Answers : a # <<>> /\ said' = [said EXCEPT ![current] = a]
    <3>1. said \in [Cmds -> Answers]
      BY Zenon DEF Types
    <3>2. CASE said' = said
      BY <1>1, <3>1, <3>2, AnswerFacts, Zenon
    <3>3. CASE said' = [said EXCEPT ![current] = Append(@, "exit")]
      BY <1>1, <3>1, <3>3, AnswerFacts, Zenon
    <3>4. CASE said' = [said EXCEPT ![current] = Append(@, "timed out")]
      BY <1>1, <3>1, <3>4, AnswerFacts, Zenon
    <3> QED
      BY <1>2, <3>2, <3>3, <3>4, Zenon
  <2> QED
    BY <1>1, <2>1, Zenon DEF Types
<1>4. Types'
  BY <1>1, <1>2, <1>3, Zenon DEF Types
<1>5. Asked' /\ Draining' /\ Polled'
  BY <1>1, <1>2, Zenon DEF Asked, Draining, Polled
<1>6. ASSUME NEW c \in Cmds PROVE Listed(c)'
  BY <1>1, <1>3, Zenon DEF Listed, None
<1>7. ASSUME NEW c \in Cmds PROVE Owes(c)'
  BY <1>1, <1>2, Zenon DEF Owes
<1>8. ASSUME NEW c \in Cmds PROVE Paid(c)'
  BY <1>1, <1>3, SMTT(30) DEF Paid, Owes
<1> QED
  BY <1>4, <1>5, <1>6, <1>7, <1>8, Zenon

\* The master is read: a byte goes from the pty to the buffer, and an output is closed only once
\* the master is at its end and the buffer empty.
LEMMA PumpMasterStep == ASSUME BooksKept, NEW d \in Cmds, PumpMaster(d) PROVE BooksKept'
<1> USE DEF BooksKept, loop, child, pump, process, control, host
<1>1. /\ pc = "pump" /\ d \in children /\ ready' \subseteq ready /\ said[d] = <<"started">>
      /\ UNCHANGED <<pc, current, children, said, wire, proc, owing, listens, late>>
  BY Zenon DEF PumpMaster, Polled, Listed
<1>t. outBuf[d] \in Nat /\ tty[d] \in Nat /\ proc[d] \in {"running", "zombie"}
  BY <1>1, Zenon DEF Types, Listed
<1> DEFINE reads == d \notin masterDone /\ (d \notin output \/ outBuf[d] < PUMP_CAP) /\ tty[d] > 0
           held == outBuf[d] + (IF reads /\ d \in output THEN 1 ELSE 0)
<1>2. PICK atEnd, broke \in BOOLEAN :
        /\ atEnd \/ broke => tty[d] = 0 /\ proc[d] # "running"
        /\ tty' = [tty EXCEPT ![d] = IF reads THEN @ - 1 ELSE @]
        /\ outBuf' = [outBuf EXCEPT ![d] = held]
        /\ masterDone' = masterDone \cup {k \in {d} : atEnd \/ broke}
        /\ output' = Closes(d, held, masterDone', output)
  BY Zenon DEF PumpMaster
<1>3. held \in Nat /\ held >= outBuf[d] /\ (IF reads THEN tty[d] - 1 ELSE tty[d]) \in Nat
  BY <1>t
<1>4. /\ tty'[d] = (IF reads THEN tty[d] - 1 ELSE tty[d]) /\ outBuf'[d] = held
      /\ \A c \in Cmds : c # d => tty'[c] = tty[c] /\ outBuf'[c] = outBuf[c]
      /\ tty' \in [Cmds -> Nat] /\ outBuf' \in [Cmds -> Nat]
  BY <1>2, <1>3, Zenon DEF Types
<1>5. /\ masterDone \subseteq masterDone' /\ output' \subseteq output
      /\ \A c \in Cmds : c # d => (c \in masterDone' <=> c \in masterDone) /\ (c \in output' <=> c \in output)
      /\ d \in masterDone' /\ d \notin masterDone => tty[d] = 0 /\ proc[d] # "running"
      /\ d \in output /\ d \notin output' => d \in masterDone' /\ held = 0
  BY <1>2, Zenon DEF Closes
<1>6. Types'
  BY <1>1, <1>4, Zenon DEF Types
<1>7. Asked' /\ Draining'
  BY <1>1, ZenonT(30) DEF Asked, Draining
<1>8. Polled'
  BY <1>1, <1>3, <1>4, <1>5, <1>t DEF Polled
<1>9. d \in masterDone => tty[d] = 0
  BY Zenon DEF Listed
<1>10. ASSUME NEW c \in Cmds PROVE Listed(c)'
  BY <1>1, <1>t, <1>4, <1>5, <1>9, SMTT(30) DEF Listed, None
<1>11. ASSUME NEW c \in Cmds PROVE Owes(c)'
  BY <1>1, <1>t, <1>4, <1>5, <1>9, SMTT(30) DEF Owes
<1>12. ASSUME NEW c \in Cmds PROVE Paid(c)'
  BY <1>1, Zenon DEF Paid
<1> QED
  BY <1>6, <1>7, <1>8, <1>10, <1>11, <1>12, Zenon

\* Bytes for the pty: of the output, only one with nothing to come is closed.
LEMMA PumpInputStep == ASSUME BooksKept, NEW d \in Cmds, PumpInput(d) PROVE BooksKept'
<1> USE DEF BooksKept, loop, child, pump, process, control, host
<1>1. Types' /\ Asked' /\ Draining'
  BY Zenon DEF Types, Asked, Draining, PumpInput
<1>2. Polled'
  BY DEF Types, Polled, PumpInput, Closes
<1>3. ASSUME NEW c \in Cmds PROVE Listed(c)' /\ Paid(c)'
  BY Zenon DEF Listed, Paid, PumpInput
<1>4. ASSUME NEW c \in Cmds PROVE Owes(c)'
  BY Zenon DEF Owes, PumpInput, Closes
<1> QED
  BY <1>1, <1>2, <1>3, <1>4, Zenon

\* A byte of the buffer is passed on, or the output is closed because the host closed its end.
LEMMA PumpOutputStep == ASSUME BooksKept, NEW d \in Cmds, PumpOutput(d) PROVE BooksKept'
<1> USE DEF BooksKept, loop, child, pump, process, control, host
<1>1. /\ pc = "pump" /\ d \in children /\ d \in Ptys /\ d \in output /\ outBuf[d] > 0
      /\ ready' = ready \ {Output(d)} /\ said[d] = <<"started">> /\ proc[d] \in {"running", "zombie"}
      /\ UNCHANGED <<pc, current, children, said, wire, proc, tty, masterDone, listens, late>>
  BY Zenon DEF PumpOutput, Polled, Listed
<1>t. outBuf[d] \in Nat /\ tty[d] \in Nat /\ owing[d] \in Int /\ outBuf[d] - 1 \in Nat /\ owing[d] - 1 \in Int
  BY <1>1 DEF Types
<1>2. /\ IF d \in listens
         THEN /\ outBuf'[d] = outBuf[d] - 1 /\ owing'[d] = owing[d] - 1
              /\ d \notin output' => d \in masterDone /\ outBuf'[d] = 0
         ELSE outBuf'[d] = 0 /\ owing' = owing
      /\ \A c \in Cmds : c # d => outBuf'[c] = outBuf[c] /\ owing'[c] = owing[c] /\ (c \in output' <=> c \in output)
      /\ outBuf' \in [Cmds -> Nat] /\ owing' \in [Cmds -> Int]
  BY <1>1, <1>t DEF Types, PumpOutput, Closes
<1>3. Types'
  BY <1>1, <1>2, Zenon DEF Types
<1>4. Asked' /\ Draining'
  BY <1>1, Zenon DEF Asked, Draining
<1>5. Polled'
  BY <1>1, <1>2, Zenon DEF Polled, Output
<1>6. ASSUME NEW c \in Cmds PROVE Listed(c)'
  BY <1>1, <1>2, ZenonT(30) DEF Listed, None
<1>7. ASSUME NEW c \in Cmds PROVE Owes(c)'
  BY <1>1, <1>t, <1>2, SMTT(30) DEF Owes
<1>8. ASSUME NEW c \in Cmds PROVE Paid(c)'
  BY <1>1, <1>2, AnswerFacts, Zenon DEF Paid
<1> QED
  BY <1>3, <1>4, <1>5, <1>6, <1>7, <1>8, Zenon

\* A process writes: the byte is in the pty, and owed.
LEMMA WritesStep == ASSUME BooksKept, NEW d \in Cmds, Writes(d) PROVE BooksKept'
<1> USE DEF BooksKept, loop, child, pump, process, control, host
<1>1. /\ proc[d] = "running"
      /\ UNCHANGED <<pc, current, ready, children, said, wire, proc, outBuf, masterDone, output, listens, late>>
  BY Zenon DEF Writes
<1>t. outBuf[d] \in Nat /\ tty[d] \in Nat /\ owing[d] \in Int /\ tty[d] + 1 \in Nat /\ owing[d] + 1 \in Int
  BY DEF Types
<1>2. /\ tty'[d] = tty[d] + 1 /\ owing'[d] = owing[d] + 1
      /\ \A c \in Cmds : c # d => tty'[c] = tty[c] /\ owing'[c] = owing[c]
      /\ tty' \in [Cmds -> Nat] /\ owing' \in [Cmds -> Int]
  BY <1>t, Zenon DEF Types, Writes
<1>3. Types'
  BY <1>1, <1>2, Zenon DEF Types
<1>4. Asked' /\ Draining' /\ Polled'
  BY <1>1, <1>2, Zenon DEF Asked, Draining, Polled
<1>5. d \notin masterDone /\ ~(pc = "drain" /\ d = current)
  BY <1>1, Zenon DEF Listed, Draining
<1>6. ASSUME NEW c \in Cmds PROVE Listed(c)'
  BY <1>1, <1>2, <1>5, ZenonT(30) DEF Listed, None
<1>7. ASSUME NEW c \in Cmds PROVE Owes(c)'
  BY <1>1, <1>t, <1>2, <1>5, SMTT(30) DEF Owes
<1>8. ASSUME NEW c \in Cmds PROVE Paid(c)'
  <2>1. said[d] \in {<<>>, <<"started">>}
    BY <1>1, Zenon DEF Listed
  <2> QED
    BY <1>1, <1>2, <2>1, AnswerFacts, Zenon DEF Paid
<1> QED
  BY <1>3, <1>4, <1>6, <1>7, <1>8, Zenon

\* EXEC of a command never forked: it is listed once the host was told, or left unlisted when the
\* answer could not be written; an exec that failed is gone at once.
LEMMA ExecStep == ASSUME BooksKept, Exec PROVE BooksKept'
<1> USE DEF BooksKept, loop, child, pump, process, control, host
<1> DEFINE d == wire[1].id
<1>1. /\ d \in Cmds /\ proc[d] = None /\ wire' = <<>> /\ Head(wire) = wire[1]
      /\ pc = "pump" /\ said[d] = <<>> /\ d \notin children
      /\ owing[d] = 0 /\ tty[d] = 0 /\ outBuf[d] = 0 /\ d \notin masterDone
  <2>1. wire' = <<>> /\ wire # <<>> /\ Head(wire) = wire[1] /\ wire[1].op = "exec" /\ pc = "pump"
    BY ReadFrame, Zenon DEF Exec
  <2>2. d \in Cmds /\ proc[d] = None
    BY <2>1, Zenon DEF Asked
  <2> QED
    BY <2>1, <2>2, AnswerFacts, Zenon DEF Listed, None
<1>2. UNCHANGED <<outBuf, tty, owing, masterDone, late>>
  BY ZenonT(60) DEF Exec
<1>3. PICK kind \in {"started", "failed"}, ok \in BOOLEAN :
        /\ pc' \in {"reap", "kill"} /\ ready' = {}
        /\ said' = IF ok THEN [said EXCEPT ![d] = <<kind>>] ELSE said
        /\ proc' = [proc EXCEPT ![d] = IF kind = "started" THEN "running" ELSE "gone"]
        /\ children' = IF ok /\ kind = "started" THEN children \cup {d} ELSE children
        /\ IF ok /\ kind = "started" /\ d \in Ptys
           THEN output' = output \cup {d} /\ listens' = listens \cup {d}
           ELSE output' = output /\ listens' = listens
  <2>0. \A kind : Says(d, kind) = <<kind>>
    BY <1>1, FirstAnswer, Zenon DEF Says
  <2>1. CASE /\ proc' = [proc EXCEPT ![d] = "gone"]
             /\ Answer(d, "failed")
             /\ UNCHANGED <<children, killAt, output, input, listens>>
    BY <2>0, <2>1, Zenon DEF Answer, Again, Ends
  <2>2. CASE /\ proc' = [proc EXCEPT ![d] = "running"]
             /\ Answer(d, "started")
             /\ children' = (IF said' # said THEN children \cup {d} ELSE children)
             /\ output' = output \cup {k \in {d} : said' # said /\ d \in Ptys}
             /\ listens' = listens \cup {k \in {d} : said' # said /\ d \in Ptys}
    <3>1. PICK ok \in BOOLEAN :
            IF ok THEN Again /\ said' = [said EXCEPT ![d] = <<"started">>] ELSE Ends /\ said' = said
      BY <2>0, <2>2, Zenon DEF Answer
    <3>2. ok <=> said' # said
      <4>1. said \in [Cmds -> Answers]
        BY Zenon DEF Types
      <4>2. CASE ok
        <5>1. said'[d] = <<"started">>
          BY <1>1, <3>1, <4>1, <4>2, Zenon
        <5> QED
          BY <1>1, <4>2, <5>1, AnswerFacts, Zenon
      <4>3. CASE ~ok
        BY <3>1, <4>3, Zenon
      <4> QED
        BY <4>2, <4>3, Zenon
    <3> QED
      BY <2>2, <3>1, <3>2, Zenon DEF Again, Ends
  <2> QED
    BY <1>1, <2>1, <2>2, Zenon DEF Exec
<1>4. /\ proc' \in [Cmds -> {None, "running", "zombie", "gone"}]
      /\ said' \in [Cmds -> Answers]
      /\ proc'[d] = (IF kind = "started" THEN "running" ELSE "gone")
      /\ said'[d] = (IF ok THEN <<kind>> ELSE <<>>)
      /\ \A c \in Cmds : c # d => proc'[c] = proc[c] /\ said'[c] = said[c]
  BY <1>1, <1>3, AnswerFacts, ZenonT(30) DEF Types
<1>5. Types'
  BY <1>1, <1>2, <1>3, <1>4, SMTT(30) DEF Types, Frames
<1>6. Asked' /\ Draining' /\ Polled'
  BY <1>1, <1>3, ZenonT(60) DEF Asked, Draining, Polled
<1>7. ASSUME NEW c \in Cmds PROVE Listed(c)'
  BY <1>1, <1>2, <1>3, <1>4, AnswerFacts, ZenonT(60) DEF Listed, None
<1>8. ASSUME NEW c \in Cmds PROVE Owes(c)'
  <2>1. CASE c = d
    BY <1>1, <1>2, <1>3, <2>1, SMTT(30) DEF Owes
  <2>2. CASE c # d
    <3>1. /\ c \in children' <=> c \in children
          /\ c \in output' <=> c \in output
          /\ c \in listens' <=> c \in listens
      BY <1>3, <2>2, SMTT(30)
    <3>2. pc' # "drain"
      BY <1>3, Zenon
    <3> QED
      BY <1>2, <3>1, <3>2, ZenonT(30) DEF Owes
  <2> QED
    BY <2>1, <2>2, Zenon
<1>9. ASSUME NEW c \in Cmds PROVE Paid(c)'
  <2>1. c # d => (c \in listens' <=> c \in listens)
    BY <1>3, Zenon
  <2>2. Len(said'[d]) # 2
    BY <1>4, AnswerFacts, Zenon
  <2> QED
    BY <1>2, <1>4, <2>1, <2>2, Zenon DEF Paid
<1> QED
  BY <1>5, <1>6, <1>7, <1>8, <1>9, Zenon

\* No command, no session: the books are empty.
LEMMA BooksBegin == Init => BooksKept
<1> SUFFICES ASSUME Init PROVE BooksKept
  OBVIOUS
<1>1. Types
  <2>1. /\ children \subseteq Cmds /\ proc \in [Cmds -> {None, "running", "zombie", "gone"}]
        /\ outBuf \in [Cmds -> Nat] /\ tty \in [Cmds -> Nat] /\ owing \in [Cmds -> Int]
    BY DEF Init
  <2>2. wire \in Frames
    BY Zenon DEF Init, Frames
  <2>3. said \in [Cmds -> Answers]
    BY AnswerFacts, Zenon DEF Init
  <2> QED
    BY <2>1, <2>2, <2>3, Zenon DEF Init, Types
<1>2. Asked /\ Draining /\ Polled
  BY Zenon DEF Init, Asked, Draining, Polled
<1>3. ASSUME NEW c \in Cmds PROVE Listed(c) /\ Owes(c) /\ Paid(c)
  BY AnswerFacts, Zenon DEF Init, Listed, Owes, Paid, None
<1> QED
  BY <1>1, <1>2, <1>3, Zenon DEF BooksKept

\* A step that changes nothing.
LEMMA BooksStutter == BooksKept /\ UNCHANGED vars => BooksKept'
<1> SUFFICES ASSUME BooksKept, UNCHANGED vars PROVE BooksKept'
  OBVIOUS
<1>1. /\ pc' = pc /\ current' = current /\ seen' = seen /\ ready' = ready
      /\ children' = children /\ killAt' = killAt /\ timedOut' = timedOut
      /\ outBuf' = outBuf /\ inBuf' = inBuf /\ output' = output /\ input' = input
      /\ masterDone' = masterDone /\ proc' = proc /\ tty' = tty /\ owing' = owing
      /\ up' = up /\ wire' = wire /\ said' = said /\ sock' = sock /\ listens' = listens /\ late' = late
  BY Zenon DEF vars, loop, child, pump, process, control, host
<1>2. QED BY <1>1, ZenonT(30) DEF BooksKept, Types, Asked, Draining, Polled, Listed, Owes, Paid

\* Every step of the agent, of the processes and of the host keeps the books.
LEMMA BooksStep == BooksKept /\ [Next]_vars => BooksKept'
  BY QuietSteps, HostSendsStep, PollStep, WaitDeadStep, ReapStep, PushStep, GiveUpStep, ExitStep,
     PumpMasterStep,
     PumpInputStep, PumpOutputStep, WritesStep, ExecStep, BooksStutter, Zenon DEF Next, AgentStep

\* The agent's books on commands are right in every reachable state, for any commands, ptys and
\* timeouts, any sizes of its buffers and any moment at which a process dies or the host leaves:
\* one answer to each command, no pid signalled or waited for that is not the agent's, the output
\* ahead of the report of the exit, and nothing reported left running behind a session (agent run,
\* reap, drain, pump and dispatch).
THEOREM CommandsAreSound == Spec => []CommandsSound
<1>1. BooksKept => CommandsSound
  <2> SUFFICES ASSUME BooksKept PROVE CommandsSound
    OBVIOUS
  <2>1. OneAnswer
    BY Zenon DEF BooksKept, Types, Answers, OneAnswer
  <2>2. PidsOwned
    BY Zenon DEF BooksKept, Types, Listed, PidsOwned
  <2>3. LastOutputFirst
    BY SessionAssumption, Zenon DEF BooksKept, Paid, LastOutputFirst
  <2>4. ToldAreKilled
    BY Zenon DEF BooksKept, Draining, Listed, ToldAreKilled
  <2> QED
    BY <2>1, <2>2, <2>3, <2>4, Zenon DEF CommandsSound
<1> QED
  BY BooksBegin, BooksStep, <1>1, PTL DEF Spec

-----------------------------------------------------------------------------
\* The steps of apply at or behind which a clone has mixed its entropy, stepped its clock and
\* replaced its boot id; a clone that was told who it is has all of them behind it.
Behind(c, steps) == guestAt[c] \in steps \/ Applied(c)
Notes == {"hostname", "entropy", "clock", "boot", "readback"}

CloneTypes ==
    /\ guestAt \in [CLONES -> {"idle", "hostname", "entropy", "clock", "boot", "answer"}]
    /\ round \in [CLONES -> Nat] /\ failed \in [CLONES -> SUBSET Notes] /\ mounted \in [CLONES -> BOOLEAN]
    /\ pool \in [CLONES -> SUBSET CLONES] /\ crng \in [CLONES -> SUBSET CLONES] /\ file \in [CLONES -> SUBSET CLONES]
    /\ hostname \in [CLONES -> CLONES \cup {Unnamed}] /\ answer \in [CLONES -> CLONES \cup {Unnamed}]
    /\ guestClock \in [CLONES -> Nat] /\ target \in [CLONES -> TARGETS]

\* No entropy but its own is in a clone, and what a step did not note as failed it did.
CloneKept(c) ==
    /\ pool[c] \subseteq {c} /\ crng[c] \subseteq {c} /\ file[c] \subseteq {c}
    /\ Behind(c, {"clock", "boot", "answer"}) /\ "entropy" \notin failed[c] => crng[c] = {c}
    /\ Behind(c, {"boot", "answer"}) /\ "clock" \notin failed[c] /\ target[c] # 0 =>
        AbsDiff(guestClock[c], target[c]) <= STEP_PAST
    /\ Behind(c, {"answer"}) /\ failed[c] \cap {"entropy", "boot"} = {} => mounted[c] /\ file[c] = {c}
    /\ Applied(c) /\ "readback" \notin failed[c] => answer[c] = hostname[c]

ClonesKept == CloneTypes /\ \A c \in CLONES : CloneKept(c)

\* A step of one clone leaves the others as they are.
LEMMA OtherClones ==
    ASSUME NEW c, CloneKept(c),
           guestAt'[c] = guestAt[c], round'[c] = round[c], pool'[c] = pool[c], crng'[c] = crng[c],
           file'[c] = file[c], mounted'[c] = mounted[c], hostname'[c] = hostname[c],
           guestClock'[c] = guestClock[c], target'[c] = target[c], failed'[c] = failed[c], answer'[c] = answer[c]
    PROVE  CloneKept(c)'
BY Zenon DEF CloneKept, Behind, Applied

\* A new round of apply starts with nothing noted as failed and the identity still to set (apply).
LEMMA ToldStep == ASSUME ClonesKept, NEW d \in CLONES, Told(d) PROVE ClonesKept'
<1>1. CloneTypes' BY DEF ClonesKept, CloneTypes, Told, From
<1>2. /\ guestAt'[d] = "hostname" /\ \A c \in CLONES : c # d =>
             guestAt'[c] = guestAt[c] /\ round'[c] = round[c] /\ failed'[c] = failed[c]
      /\ UNCHANGED <<pool, crng, file, mounted, hostname, guestClock, target, answer>>
  BY Zenon DEF ClonesKept, CloneTypes, Told, From
<1>3. CloneKept(d)' BY <1>2, Zenon DEF ClonesKept, CloneKept, Behind, Applied
<1>4. \A c \in CLONES \ {d} : CloneKept(c)' BY <1>2, OtherClones, Zenon DEF ClonesKept
<1> QED BY <1>1, <1>3, <1>4, Zenon DEF ClonesKept

\* The name is set or the failure noted; the rest of the clone is untouched (set_hostname).
LEMMA HostnameStep == ASSUME ClonesKept, NEW d \in CLONES, SetHostname(d) PROVE ClonesKept'
<1>1. CloneTypes' BY DEF ClonesKept, CloneTypes, SetHostname, From, Note, Notes
<1>2. /\ guestAt'[d] = "entropy" /\ \A c \in CLONES : c # d =>
             guestAt'[c] = guestAt[c] /\ hostname'[c] = hostname[c] /\ failed'[c] = failed[c]
      /\ UNCHANGED <<round, pool, crng, file, mounted, guestClock, target, answer>>
  BY Zenon DEF ClonesKept, CloneTypes, SetHostname, From, Note
<1>3. CloneKept(d)' BY <1>2, Zenon DEF ClonesKept, CloneKept, Behind, Applied
<1>4. \A c \in CLONES \ {d} : CloneKept(c)' BY <1>2, OtherClones, Zenon DEF ClonesKept
<1> QED BY <1>1, <1>3, <1>4, Zenon DEF ClonesKept

\* The entropy of its own reaches the pool and the reseeded generator, or the step is noted (mix_entropy).
LEMMA EntropyStep == ASSUME ClonesKept, NEW d \in CLONES, MixEntropy(d) PROVE ClonesKept'
<1>1. CloneTypes' BY DEF ClonesKept, CloneTypes, MixEntropy, From, Note, Notes
<1>2. /\ guestAt'[d] = "clock"
      /\ \A c \in CLONES : c # d =>
             guestAt'[c] = guestAt[c] /\ pool'[c] = pool[c] /\ crng'[c] = crng[c] /\ failed'[c] = failed[c]
      /\ UNCHANGED <<round, file, mounted, hostname, guestClock, target, answer>>
  BY Zenon DEF ClonesKept, CloneTypes, MixEntropy, From, Note
<1>3. /\ pool'[d] \in {pool[d], pool[d] \cup {d}}
      /\ crng'[d] \in {crng[d], pool[d] \cup {d}}
      /\ "entropy" \notin failed'[d] => crng'[d] = pool[d] \cup {d}
  BY DEF ClonesKept, CloneTypes, MixEntropy, From, Note
<1>4. CloneKept(d)' BY <1>2, <1>3, Zenon DEF ClonesKept, CloneKept, Behind, Applied
<1>5. \A c \in CLONES \ {d} : CloneKept(c)' BY <1>2, OtherClones, Zenon DEF ClonesKept
<1> QED BY <1>1, <1>4, <1>5, Zenon DEF ClonesKept

\* A clock that was read is close or stepped; one that could not be reads 0, far from any time
\* a host sends.
LEMMA ClockStep == ASSUME ClonesKept, NEW d \in CLONES, StepClock(d) PROVE ClonesKept'
<1>0. /\ guestAt' = [guestAt EXCEPT ![d] = "boot"] /\ UNCHANGED <<round, pool, crng, file, mounted, hostname, target, answer>>
      /\ guestClock' \in {guestClock, [guestClock EXCEPT ![d] = target[d]]} /\ target[d] \in Nat
      /\ failed' \in {failed, [failed EXCEPT ![d] = @ \cup {"clock"}]}
  BY IdentityAssumption, Zenon DEF ClonesKept, CloneTypes, StepClock, From, Note
<1>1. CloneTypes' BY <1>0 DEF ClonesKept, CloneTypes, Notes
<1>2. /\ guestAt[d] = "clock" /\ guestAt'[d] = "boot"
      /\ \A c \in CLONES : c # d =>
             guestAt'[c] = guestAt[c] /\ guestClock'[c] = guestClock[c] /\ failed'[c] = failed[c]
      /\ UNCHANGED <<round, pool, crng, file, mounted, hostname, target, answer>>
  BY Zenon DEF ClonesKept, CloneTypes, StepClock, From, Note
<1>3. guestClock[d] \in Nat /\ target[d] \in Nat /\ STEP_PAST \in Nat /\ (target[d] = 0 \/ target[d] > STEP_PAST)
  BY IdentityAssumption, Zenon DEF ClonesKept, CloneTypes
<1>4. "clock" \notin failed'[d] /\ target[d] # 0 => AbsDiff(guestClock'[d], target[d]) <= STEP_PAST
  <2>1. PICK now \in {guestClock[d], 0} :
            \/ ~StepNeeded(now, target[d]) /\ UNCHANGED guestClock
            \/ guestClock'[d] = target[d]
            \/ "clock" \in failed'[d]
    BY Zenon DEF ClonesKept, CloneTypes, StepClock, Note
  <2> QED BY <1>3, <2>1 DEF StepNeeded, AbsDiff
<1>5. failed[d] \subseteq failed'[d] BY ZenonT(30) DEF ClonesKept, CloneTypes, StepClock, Note
<1>6. CloneKept(d)' BY <1>2, <1>4, <1>5, Zenon DEF ClonesKept, CloneKept, Behind, Applied
<1>7. \A c \in CLONES \ {d} : CloneKept(c)' BY <1>2, OtherClones, Zenon DEF ClonesKept
<1> QED BY <1>1, <1>6, <1>7, Zenon DEF ClonesKept

\* A boot id file drawn from the clone's own entropy is mounted, or the step is noted (replace_boot_id).
LEMMA BootIdStep == ASSUME ClonesKept, NEW d \in CLONES, ReplaceBootId(d) PROVE ClonesKept'
<1>0. /\ guestAt' = [guestAt EXCEPT ![d] = "answer"]
      /\ UNCHANGED <<round, pool, crng, hostname, guestClock, target, answer>>
      /\ file' \in {file, [file EXCEPT ![d] = crng[d]]} /\ mounted' \in {mounted, [mounted EXCEPT ![d] = TRUE]}
      /\ failed' \in {failed, [failed EXCEPT ![d] = @ \cup {"boot"}]} /\ crng[d] \in SUBSET CLONES
  BY Zenon DEF ClonesKept, CloneTypes, ReplaceBootId, From, Note
<1>t. CloneTypes BY Zenon DEF ClonesKept
<1>f. file' \in [CLONES -> SUBSET CLONES] /\ failed' \in [CLONES -> SUBSET Notes] BY <1>0, <1>t DEF CloneTypes, Notes
<1>m. mounted' \in [CLONES -> BOOLEAN] BY <1>0, <1>t, Zenon DEF CloneTypes
<1>g. guestAt' \in [CLONES -> {"idle", "hostname", "entropy", "clock", "boot", "answer"}] BY <1>0, <1>t, Zenon DEF CloneTypes
<1>1. CloneTypes' BY <1>0, <1>t, <1>f, <1>m, <1>g, Zenon DEF CloneTypes
<1>2. /\ guestAt[d] = "boot" /\ guestAt'[d] = "answer"
      /\ \A c \in CLONES : c # d =>
             guestAt'[c] = guestAt[c] /\ file'[c] = file[c] /\ mounted'[c] = mounted[c] /\ failed'[c] = failed[c]
      /\ UNCHANGED <<round, pool, crng, hostname, guestClock, target, answer>>
  BY Zenon DEF ClonesKept, CloneTypes, ReplaceBootId, From, Note
<1>3. /\ failed[d] \subseteq failed'[d] /\ file'[d] \in {file[d], crng[d]}
      /\ "boot" \notin failed'[d] => file'[d] = crng[d] /\ mounted'[d]
  BY ZenonT(60) DEF ClonesKept, CloneTypes, ReplaceBootId, Note
<1>4. CloneKept(d)' BY <1>2, <1>3, Zenon DEF ClonesKept, CloneKept, Behind, Applied
<1>5. \A c \in CLONES \ {d} : CloneKept(c)' BY <1>2, OtherClones, Zenon DEF ClonesKept
<1> QED BY <1>1, <1>4, <1>5, Zenon DEF ClonesKept

\* The answer is the name the kernel has, or the read is noted as failed (the end of apply).
LEMMA ReadBackStep == ASSUME ClonesKept, NEW d \in CLONES, ReadBackHostname(d) PROVE ClonesKept'
<1>1. CloneTypes' BY DEF ClonesKept, CloneTypes, ReadBackHostname, From, Note, Notes
<1>2. /\ guestAt[d] = "answer" /\ guestAt'[d] = "idle"
      /\ \A c \in CLONES : c # d =>
             guestAt'[c] = guestAt[c] /\ answer'[c] = answer[c] /\ failed'[c] = failed[c]
      /\ UNCHANGED <<round, pool, crng, file, mounted, hostname, guestClock, target>>
  BY Zenon DEF ClonesKept, CloneTypes, ReadBackHostname, From, Note
<1>3. failed[d] \subseteq failed'[d] /\ ("readback" \notin failed'[d] => answer'[d] = hostname[d])
  BY DEF ClonesKept, CloneTypes, ReadBackHostname, Note
<1>4. CloneKept(d)' BY <1>2, <1>3, ZenonT(30) DEF ClonesKept, CloneKept, Behind, Applied
<1>5. \A c \in CLONES \ {d} : CloneKept(c)' BY <1>2, OtherClones, Zenon DEF ClonesKept
<1> QED BY <1>1, <1>4, <1>5, Zenon DEF ClonesKept

\* Identity: for any clones of a template, told who they are any number of times, with any step of
\* `apply` failing: a clone that mixed its entropy and replaced its boot id shares the id with
\* no other, the host hears the name in effect, and the clock is close to the time it was sent.
THEOREM ClonesAreSound == IdentitySpec => []ClonesSound
<1>1. IdentityInit => ClonesKept
  <2> SUFFICES ASSUME IdentityInit PROVE ClonesKept OBVIOUS
  <2>1. CloneTypes BY IdentityAssumption, Zenon DEF IdentityInit, CloneTypes, Template
  <2>2. ASSUME NEW c \in CLONES PROVE CloneKept(c)
    <3>1. guestAt[c] = "idle" /\ ~(round[c] > 0) /\ pool[c] = {} /\ crng[c] = {} /\ file[c] = {}
      BY DEF IdentityInit, Template
    <3> QED BY <3>1, Zenon DEF CloneKept, Behind, Applied
  <2> QED BY <2>1, <2>2, Zenon DEF ClonesKept
<1>2. ClonesKept /\ [IdentityNext]_identityVars => ClonesKept'
  <2> SUFFICES ASSUME ClonesKept, [IdentityNext]_identityVars PROVE ClonesKept' OBVIOUS
  <2>1. CASE UNCHANGED identityVars
    BY <2>1, Zenon DEF identityVars, ClonesKept, CloneTypes, CloneKept, Behind, Applied
  <2>2. CASE IdentityNext
    BY <2>2, ToldStep, HostnameStep, EntropyStep, ClockStep, BootIdStep, ReadBackStep, Zenon DEF IdentityNext
  <2> QED BY <2>1, <2>2, Zenon
<1>3. ClonesKept => ClonesSound
  <2> SUFFICES ASSUME ClonesKept PROVE ClonesSound OBVIOUS
  <2>1. BootIdsDiffer BY DEF ClonesKept, CloneKept, Behind, BootIdsDiffer, BootId, Template
  <2>2. HostIsTold BY Zenon DEF ClonesKept, CloneKept, Behind, HostIsTold
  <2> QED BY <2>1, <2>2, Zenon DEF ClonesSound
<1> QED BY <1>1, <1>2, <1>3, PTL DEF IdentitySpec
=============================================================================
