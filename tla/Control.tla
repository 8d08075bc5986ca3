------------------------------ MODULE Control ------------------------------
(* The control socket of a machine (machine/control.rs): clients write one   *)
(* order per line, the control thread talks to one client at a time, and the *)
(* holder of the machine serves orders between two waits on the guest        *)
(* (bin/lingcore.rs: drive).  A snapshot here is one step with the call of   *)
(* it that fails; Machine has its steps beside the threads of the guest.     *)
EXTENDS Integers, Sequences, SequencesExt

CONSTANTS
    SCRIPTS,      \* what each client writes, a sequence of sequences of lines
    MOMENTS       \* bound: changes of the guest

VARIABLES
    linesWritten, \* lines each client has written
    quitters,     \* clients that closed their end
    calling,      \* connections nobody accepted, in order
    talking,      \* the client `talk` reads, 0 for none
    linesRead,    \* lines read of each client
    mailbox,      \* the order sent to the holder, with the sender of its answer
    reply,        \* the answer on its way back, or None
    answered,     \* what each client was written
    guestState,   \* Machine::state, "running" or "paused"
    moment,       \* how far the guest is
    savedFiles,   \* the directory of the snapshot: [memory, document]
    promise,      \* the moment the last snapshot was said to be of, 0 for none
    holder,       \* the loop that serves orders: "drives" or "gone"
    bound         \* the socket has its name

controlVars == <<linesWritten, quitters, calling, talking, linesRead, mailbox, reply, answered, guestState, moment, savedFiles,
                 promise, holder, bound>>

Clients == DOMAIN SCRIPTS
None == <<>>
Nothing == 0      \* no file
Partial == -1     \* a file cut short

Init ==
    /\ linesWritten = [c \in Clients |-> 0] /\ quitters = {} /\ calling = <<>> /\ talking = 0
    /\ linesRead = [c \in Clients |-> 0] /\ mailbox = None /\ reply = None /\ answered = [c \in Clients |-> <<>>]
    /\ guestState = "running" /\ moment = 1 /\ savedFiles = [memory |-> Nothing, document |-> Nothing]
    /\ promise = 0 /\ holder = "drives" /\ bound = TRUE

clientSide == <<linesWritten, quitters, calling>>
threadSide == <<talking, linesRead>>
machineSide == <<guestState, moment, savedFiles, promise>>

-----------------------------------------------------------------------------
Connected(c) == c \in ToSet(calling) \/ c = talking

Call(c) ==
    /\ bound /\ linesWritten[c] = 0 /\ c \notin quitters /\ ~Connected(c)
    /\ calling' = Append(calling, c)
    /\ UNCHANGED <<linesWritten, quitters, threadSide, mailbox, reply, answered, machineSide, holder, bound>>

\* A client need not wait for an answer before it writes its next line.
Say(c) ==
    /\ Connected(c) /\ c \notin quitters /\ linesWritten[c] < Len(SCRIPTS[c])
    /\ linesWritten' = [linesWritten EXCEPT ![c] = @ + 1]
    /\ UNCHANGED <<quitters, calling, threadSide, mailbox, reply, answered, machineSide, holder, bound>>

Quit(c) ==
    /\ Connected(c) /\ c \notin quitters
    /\ quitters' = quitters \union {c}
    /\ UNCHANGED <<linesWritten, calling, threadSide, mailbox, reply, answered, machineSide, holder, bound>>

\* serve: the next connection, once `talk` is done with the last.
Accept ==
    /\ talking = 0 /\ calling # <<>>
    /\ talking' = Head(calling) /\ calling' = Tail(calling)
    /\ UNCHANGED <<linesWritten, quitters, linesRead, mailbox, reply, answered, machineSide, holder, bound>>

\* field and parse: a snapshot without a place and a word nobody knows are no orders.
Orders == {"state", "pause", "resume", "whole", "dirty", "stop"}
Parse(line) == IF line \in Orders THEN line ELSE "none"

\* talk: a blank line is passed over, any other goes to the holder with the way back.
ReadLine ==
    /\ talking # 0 /\ mailbox = None /\ reply = None /\ linesRead[talking] < linesWritten[talking]
    /\ linesRead' = [linesRead EXCEPT ![talking] = @ + 1]
    /\ LET line == SCRIPTS[talking][linesRead'[talking]]
       IN  CASE line = "blank" -> UNCHANGED <<mailbox, talking>>
             [] line # "blank" /\ holder = "gone" -> talking' = 0 /\ UNCHANGED mailbox
             [] OTHER -> /\ mailbox' = <<[of |-> talking, at |-> linesRead'[talking], do |-> Parse(line)]>>
                         /\ UNCHANGED talking
    /\ UNCHANGED <<clientSide, reply, answered, machineSide, holder, bound>>

\* The end of the connection, or a write to a client that is gone.
Hangup ==
    /\ talking # 0 /\ mailbox = None /\ talking \in quitters
    /\ reply # None \/ linesRead[talking] = linesWritten[talking]
    /\ talking' = 0 /\ reply' = None
    /\ UNCHANGED <<clientSide, linesRead, mailbox, answered, machineSide, holder, bound>>

WriteAnswer ==
    /\ talking # 0 /\ reply # None
    /\ answered' = [answered EXCEPT ![talking] = @ \o reply]
    /\ reply' = None
    /\ UNCHANGED <<clientSide, threadSide, mailbox, machineSide, holder, bound>>

\* The order was dropped with the receiver of the holder.
Unanswered ==
    /\ holder = "gone" /\ mailbox # None
    /\ mailbox' = None /\ talking' = 0
    /\ UNCHANGED <<clientSide, linesRead, reply, answered, machineSide, holder, bound>>

-----------------------------------------------------------------------------
\* Order::serve: one line goes back, whatever became of the order.
Answer(word, mutated) ==
    reply' = <<[of |-> mailbox[1].of, at |-> mailbox[1].at, word |-> word, mutated |-> mutated]>>

\* apply: pause of a guest that runs and does not stop meanwhile, resume of one that is held
\* or runs, stop of either.
Applied(do) ==
    CASE do = "state" -> {[word |-> guestState, to |-> guestState]}
      [] do = "pause" -> {[word |-> "error", to |-> guestState]}
                         \union (IF guestState = "running" THEN {[word |-> "ok", to |-> "paused"]} ELSE {})
      [] do = "resume" -> {[word |-> "ok", to |-> "running"]}
      [] do = "stop" -> {[word |-> "ok", to |-> guestState]}
      [] do = "none" -> {[word |-> "error", to |-> guestState]}

Simple ==
    /\ mailbox[1].do \notin {"whole", "dirty"}
    /\ \E done \in Applied(mailbox[1].do) : Answer(done.word, FALSE) /\ guestState' = done.to
    /\ UNCHANGED <<savedFiles, promise>>

\* What a page is read of while the guest is as it is.
Moments(state) == IF state = "paused" THEN {moment} ELSE {moment, moment + 1}

\* snapshot: where it ends.  The guest is held first unless it is held, and stays so.
Steps == <<"pause", "directory", "capture", "create memory", "write memory", "create document", "write document", "end">>
Place(step) == CHOOSE i \in DOMAIN Steps : Steps[i] = step
\* Mutant: the guest runs on while it is written.
HoldsNot(step) == guestState
Holds(step) == IF step = "pause" THEN guestState ELSE "paused"

Document(step) ==
    CASE Place(step) < Place("write document") -> savedFiles.document
      [] step = "write document" -> Partial
      [] OTHER -> moment
Memory(step) ==
    CASE Place(step) < Place("write memory") -> {savedFiles.memory}
      [] step = "write memory" -> {Partial}
      [] OTHER -> Moments(Holds(step))

\* Refused::Mutated, said of a failure past the first byte of the memory.
Changed(step) == Place(step) \in Place("write memory")..Place("write document")

Snapshot ==
    /\ mailbox[1].do \in {"whole", "dirty"}
    /\ \E step \in ToSet(Steps) :
        /\ guestState = "paused" => step # "pause"
        /\ guestState' = Holds(step)
        /\ \E of \in Memory(step) : savedFiles' = [memory |-> of, document |-> Document(step)]
        /\ Answer(IF step = "end" THEN "ok" ELSE "error", Changed(step))
        /\ promise' = IF step = "end" THEN moment ELSE IF Changed(step) THEN 0 ELSE promise

Serve ==
    /\ holder = "drives" /\ mailbox # None
    /\ Simple \/ Snapshot
    /\ mailbox' = None
    /\ UNCHANGED <<clientSide, threadSide, answered, moment, holder, bound>>

\* The guest ends, by itself, by the order or at the deadline: drive returns, and with the
\* last of the program the socket loses its name.
DriveEnds ==
    /\ holder = "drives" /\ holder' = "gone" /\ bound' = FALSE
    /\ UNCHANGED <<clientSide, threadSide, mailbox, reply, answered, machineSide>>

GuestMoves ==
    /\ guestState = "running" /\ holder = "drives" /\ moment < MOMENTS
    /\ moment' = moment + 1
    /\ UNCHANGED <<clientSide, threadSide, mailbox, reply, answered, guestState, savedFiles, promise, holder, bound>>

Next ==
    \/ \E c \in Clients : Call(c) \/ Say(c) \/ Quit(c)
    \/ Accept \/ ReadLine \/ Hangup \/ WriteAnswer \/ Unanswered
    \/ Serve \/ DriveEnds \/ GuestMoves

-----------------------------------------------------------------------------
Asked(c) == {i \in 1..linesRead[c] : SCRIPTS[c][i] # "blank"}

\* A client is answered its own lines, in the order it wrote them, and none twice: the k-th
\* answer is that of its k-th order (talk).
AnswersInOrder ==
    \A c \in Clients : \A k \in DOMAIN answered[c] :
        /\ answered[c][k].of = c /\ answered[c][k].at \in Asked(c)
        /\ Len(SelectSeq(SubSeq(SCRIPTS[c], 1, answered[c][k].at), LAMBDA line : line # "blank")) = k

\* A snapshot answered with ok is whole, memory and document of one moment, and stays so
\* through every later order but one that is answered as having changed it (snapshot).
SnapshotWhole == promise # 0 => savedFiles.memory = promise /\ savedFiles.document = promise

\* A guest said to be held is held until an order lets it go.
HeldAsTold ==
    reply # None /\ holder = "drives" => LET last == Head(reply) IN
        last.word = "ok" /\ SCRIPTS[last.of][last.at] \in {"pause", "whole", "dirty"} => guestState = "paused"

\* The control socket is sound: answers, snapshots and holds.
ControlSound == AnswersInOrder /\ SnapshotWhole /\ HeldAsTold
=============================================================================
