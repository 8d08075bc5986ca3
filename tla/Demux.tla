------------------------------- MODULE Demux -------------------------------
(***************************************************************************)
(* The demultiplexer of a sandbox (src/lingcage/src/sandbox/demux.rs): the *)
(* callers that send requests over the live connection, one reader thread  *)
(* per connection, the thread that accepts and installs connections, the   *)
(* log drainer, and `stop`.                                                *)
(*                                                                         *)
(* Request ids are drawn once and never again, so a request is its id.     *)
(* A frame is told apart by the request it answers and by its place among  *)
(* the answers: the first (PONG, EXEC_STARTED), then the last (EXEC_EXIT). *)
(* The agent has one connection open at a time, and answers on it what it  *)
(* was asked on it.  A write may fail or time out whatever the peer does.  *)
(***************************************************************************)
EXTENDS Naturals, FiniteSets

CONSTANTS C,         \* connections the agent opens (bound)
          Requests   \* requests made (bound)

ASSUME CAssumption == C \in Nat \ {0}

\* A request is told apart from the lock held by nobody.
ASSUME RequestsAssumption == 0 \notin Requests

Conns == 1 .. C
None == 0

VARIABLES
    guest,      \* what the agent did with each connection
    shut,       \* connections the host shut down or dropped
    generation, \* generation each connection was given, 0 before
    reader,     \* where the reader thread of each connection is
    handle,     \* connection whose reader Demux::reader joins, or None
    link,       \* Demux::link, the live connection or None
    lock,       \* request that holds the lock of the link, or None
    acceptor,   \* where the thread that accepts connections is
    adopting,   \* connection it works on, or None
    old,        \* connection its install replaced, or None
    pending,    \* Demux::pending: generation each request is registered on, or 0
    caller,     \* where the caller of each request is
    made,       \* connection each request was made on
    sent,       \* answers the agent sent to each request
    routed,     \* those of them its reader took off the connection
    channel,    \* answers waiting in the channel of each request
    drainer,    \* log drain thread
    stop,       \* where Demux::stop is
    wake        \* the connect which wakes the accept loop

conns == <<guest, shut>>
accepting == <<acceptor, adopting, old>>
calls == <<caller, made>>
answers == <<sent, routed, channel>>
stopping == <<drainer, stop, wake>>
vars == <<conns, generation, reader, handle, link, lock, accepting, pending, calls, answers, stopping>>

Init ==
    /\ guest = [c \in Conns |-> "none"]
    /\ shut = {}
    /\ generation = [c \in Conns |-> 0]
    /\ reader = [c \in Conns |-> "absent"]
    /\ handle = None /\ link = None /\ lock = None
    /\ acceptor = "first" /\ adopting = None /\ old = None
    /\ pending = [r \in Requests |-> 0]
    /\ caller = [r \in Requests |-> "idle"]
    /\ made = [r \in Requests |-> None]
    /\ sent = [r \in Requests |-> 0]
    /\ routed = [r \in Requests |-> 0]
    /\ channel = [r \in Requests |-> 0]
    /\ drainer = "absent" /\ stop = "no" /\ wake = "no"

----------------------------------------------------------------------------
(* The agent.  `gone` is reached when the machine is dropped, which          *)
(* teardown does before it calls `stop`.                                     *)

\* The agent opens its next connection once it closed the one before.  The
\* answer to a request may arrive while its write is still returning.
Connect(c) ==
    /\ guest[c] = "none"
    /\ \A d \in Conns : d < c => guest[d] = "ended"
    /\ guest' = [guest EXCEPT ![c] = "queued"]
    /\ UNCHANGED <<shut, generation, reader, handle, link, lock, accepting, pending, calls, answers, stopping>>

\* It closes one: of itself, or because the host did.
Hangup(c) ==
    /\ guest[c] \in {"queued", "open"}
    /\ guest' = [guest EXCEPT ![c] = "ended"]
    /\ UNCHANGED <<shut, generation, reader, handle, link, lock, accepting, pending, calls, answers, stopping>>

Answer(r) ==
    /\ caller[r] \in {"writing", "asked", "started", "given up"}
    /\ guest[made[r]] = "open" /\ made[r] \notin shut
    /\ sent[r] < 2
    /\ sent' = [sent EXCEPT ![r] = @ + 1]
    /\ UNCHANGED <<conns, generation, reader, handle, link, lock, accepting, pending, calls, routed, channel, stopping>>

\* The machine is dropped, and with it the device end of every connection.
MachineDropped ==
    /\ \E c \in Conns : guest[c] # "ended"
    /\ stop = "no"
    /\ guest' = [c \in Conns |-> "ended"]
    /\ UNCHANGED <<shut, generation, reader, handle, link, lock, accepting, pending, calls, answers, stopping>>

----------------------------------------------------------------------------
(* Callers: request, ask, complete, Sandbox::exec and Process.               *)

Unlocked == lock = None

\* Demux::request takes the lock of the link and registers the answer channel.
Register(r) ==
    /\ caller[r] = "idle" /\ Unlocked /\ link # None
    /\ lock' = r
    /\ pending' = [pending EXCEPT ![r] = generation[link]]
    /\ made' = [made EXCEPT ![r] = link]
    /\ caller' = [caller EXCEPT ![r] = "writing"]
    /\ UNCHANGED <<conns, generation, reader, handle, link, accepting, answers, stopping>>

Refuse(r) ==
    /\ caller[r] = "idle" /\ Unlocked /\ link = None
    /\ caller' = [caller EXCEPT ![r] = "refused"]
    /\ UNCHANGED <<conns, generation, reader, handle, link, lock, accepting, pending, made, answers, stopping>>

Write(r) ==
    /\ caller[r] = "writing"
    /\ lock' = None
    /\ \/ caller' = [caller EXCEPT ![r] = "asked"] /\ pending' = pending
       \/ /\ caller' = [caller EXCEPT ![r] = "refused"]
          /\ pending' = [pending EXCEPT ![r] = 0]
    /\ UNCHANGED <<conns, generation, reader, handle, link, accepting, made, answers, stopping>>

\* The first answer ends an `ask`, which unregisters the request; it makes an
\* `exec` a Process, whose `wait` has no deadline.
Receive(r) ==
    /\ caller[r] = "asked" /\ channel[r] > 0
    /\ channel' = [channel EXCEPT ![r] = @ - 1]
    /\ \/ caller' = [caller EXCEPT ![r] = "started"] /\ pending' = pending
       \/ caller' = [caller EXCEPT ![r] = "answered"] /\ pending' = [pending EXCEPT ![r] = 0]
    /\ UNCHANGED <<conns, generation, reader, handle, link, lock, accepting, made, sent, routed, stopping>>

\* The exit report ends `Process::wait`, and Drop unregisters the request.
Exited(r) ==
    /\ caller[r] = "started" /\ channel[r] > 0
    /\ channel' = [channel EXCEPT ![r] = @ - 1]
    /\ caller' = [caller EXCEPT ![r] = "answered"]
    /\ pending' = [pending EXCEPT ![r] = 0]
    /\ UNCHANGED <<conns, generation, reader, handle, link, lock, accepting, made, sent, routed, stopping>>

\* The deadline of `ask` or of `exec` passes, or a Process is dropped.
GiveUp(r) ==
    /\ caller[r] \in {"asked", "started"}
    /\ caller' = [caller EXCEPT ![r] = "given up"]
    /\ pending' = [pending EXCEPT ![r] = 0]
    /\ UNCHANGED <<conns, generation, reader, handle, link, lock, accepting, made, answers, stopping>>

\* The only sender was dropped with the registration: the channel is closed.
Disconnected(r) ==
    /\ caller[r] \in {"asked", "started"} /\ channel[r] = 0 /\ pending[r] = 0
    /\ caller' = [caller EXCEPT ![r] = "closed"]
    /\ UNCHANGED <<conns, generation, reader, handle, link, lock, accepting, pending, made, answers, stopping>>

----------------------------------------------------------------------------
(* Reader threads.                                                           *)

\* Demux::route sends a frame to the request with its id, if that is still
\* registered on the generation of this connection.
Route(r) ==
    LET c == made[r] IN
    /\ routed[r] < sent[r]
    /\ reader[c] = "reading"
    /\ routed' = [routed EXCEPT ![r] = @ + 1]
    /\ channel' = IF pending[r] = generation[c] THEN [channel EXCEPT ![r] = @ + 1] ELSE channel
    /\ UNCHANGED <<conns, generation, reader, handle, link, lock, accepting, pending, calls, sent, stopping>>

\* A read meets the end of the connection.
ReadEnds(c) ==
    /\ reader[c] = "reading"
    /\ guest[c] = "ended" \/ c \in shut
    /\ reader' = [reader EXCEPT ![c] = "failing"]
    /\ UNCHANGED <<conns, generation, handle, link, lock, accepting, pending, calls, answers, stopping>>

\* The requests `fail` leaves registered.
Retained(g) == [r \in Requests |-> IF pending[r] = g THEN 0 ELSE pending[r]]

\* Mutant: the reader drops the link and leaves the requests to their callers.
ReaderFailsNobody(c) ==
    /\ reader[c] = "failing"
    /\ reader' = [reader EXCEPT ![c] = "dropping"]
    /\ UNCHANGED <<conns, generation, handle, link, lock, accepting, pending, calls, answers, stopping>>

\* Demux::fail of the reader: first the requests, under their lock ...
ReaderFails(c) ==
    /\ reader[c] = "failing"
    /\ pending' = Retained(generation[c])
    /\ reader' = [reader EXCEPT ![c] = "dropping"]
    /\ UNCHANGED <<conns, generation, handle, link, lock, accepting, calls, answers, stopping>>

\* ... then the link, under its own, if it has the same generation.
ReaderDrops(c) ==
    /\ reader[c] = "dropping" /\ Unlocked
    /\ link' = IF link # None /\ generation[link] = generation[c] THEN None ELSE link
    /\ reader' = [reader EXCEPT ![c] = "done"]
    /\ UNCHANGED <<conns, generation, handle, lock, accepting, pending, calls, answers, stopping>>

----------------------------------------------------------------------------
(* The thread that accepts: `identify_first`, then the accept loop.          *)

Goto(where) == acceptor' = where /\ UNCHANGED <<adopting, old>>

\* accept_within takes the first connection; it gets generation 1.
AcceptFirst(c) ==
    /\ acceptor = "first" /\ guest[c] = "queued"
    /\ guest' = [guest EXCEPT ![c] = "open"]
    /\ generation' = [generation EXCEPT ![c] = 1]
    /\ acceptor' = "identify" /\ adopting' = c /\ old' = old
    /\ UNCHANGED <<shut, reader, handle, link, lock, pending, calls, answers, stopping>>

\* Nobody connects in time, and `ready` gives up.
FirstTimesOut ==
    /\ acceptor = "first"
    /\ Goto("absent")
    /\ UNCHANGED <<conns, generation, reader, handle, link, lock, pending, calls, answers, stopping>>

CheckStop ==
    /\ acceptor = "check"
    /\ Goto(IF stop # "no" THEN "done" ELSE "accept")
    /\ UNCHANGED <<conns, generation, reader, handle, link, lock, pending, calls, answers, stopping>>

\* The accept loop looks at the flag once more after each accept.
Accept(c) ==
    /\ acceptor = "accept" /\ guest[c] = "queued"
    /\ guest' = [guest EXCEPT ![c] = "open"]
    /\ acceptor' = IF stop # "no" THEN "done" ELSE "adopt"
    /\ adopting' = c /\ old' = old
    /\ shut' = IF stop # "no" THEN shut \cup {c} ELSE shut
    /\ UNCHANGED <<generation, reader, handle, link, lock, pending, calls, answers, stopping>>

\* The connection of `stop` itself is accepted.
AcceptWake ==
    /\ acceptor = "accept" /\ wake = "sent"
    /\ Goto("done")
    /\ UNCHANGED <<conns, generation, reader, handle, link, lock, pending, calls, answers, stopping>>

\* Demux::generation: one more than the live connection, 1 without one.
Generation ==
    /\ acceptor = "adopt" /\ Unlocked
    /\ generation' = [generation EXCEPT ![adopting] = IF link = None THEN 1 ELSE generation[link] + 1]
    /\ Goto("identify")
    /\ UNCHANGED <<conns, reader, handle, link, lock, pending, calls, answers, stopping>>

\* The handshake fails or times out, or no reader can be spawned: the
\* connection is dropped, the live one kept.
AdoptFails ==
    /\ acceptor = "identify"
    /\ shut' = shut \cup {adopting}
    /\ Goto(IF handle = None THEN "absent" ELSE "check")
    /\ UNCHANGED <<guest, generation, reader, handle, link, lock, pending, calls, answers, stopping>>

\* The handshake passes, and `install` spawns the reader.
Identified ==
    /\ acceptor = "identify"
    /\ reader' = [reader EXCEPT ![adopting] = "reading"]
    /\ Goto("install")
    /\ UNCHANGED <<conns, generation, handle, link, lock, pending, calls, answers, stopping>>

\* `install` puts the connection in place of the live one.  After the first
\* one the accept loop and the drainer are spawned, either may fail to be.
Install ==
    /\ acceptor = "install" /\ Unlocked
    /\ link' = adopting /\ handle' = adopting
    /\ old' = link /\ adopting' = adopting
    /\ \/ handle # None /\ acceptor' = (IF link = None THEN "check" ELSE "fail") /\ drainer' = drainer
       \/ handle = None /\ acceptor' = "check" /\ drainer' \in {"running", "absent"}
       \/ handle = None /\ acceptor' = "absent" /\ drainer' = "absent"
    /\ UNCHANGED <<conns, generation, reader, lock, pending, calls, answers, stop, wake>>

\* The rest of `install`: `fail` for the replaced connection, then its shutdown.
FailOld ==
    /\ acceptor = "fail"
    /\ pending' = Retained(generation[old])
    /\ Goto("drop")
    /\ UNCHANGED <<conns, generation, reader, handle, link, lock, calls, answers, stopping>>

DropOld ==
    /\ acceptor = "drop" /\ Unlocked
    /\ link' = IF link # None /\ generation[link] = generation[old] THEN None ELSE link
    /\ shut' = shut \cup {old}
    /\ Goto("check")
    /\ UNCHANGED <<guest, generation, reader, handle, lock, pending, calls, answers, stopping>>

----------------------------------------------------------------------------
(* Demux::stop and the log drainer.                                          *)

Goes(where) == stop' = where /\ UNCHANGED <<drainer, wake>>

\* Teardown stops the demux once the machine is dropped and `ready` returned.
Stop ==
    /\ stop = "no"
    /\ \A c \in Conns : guest[c] = "ended"
    /\ handle # None \/ acceptor = "absent"
    /\ Goes("drainer")
    /\ UNCHANGED <<conns, generation, reader, handle, link, lock, accepting, pending, calls, answers>>

\* The drainer looks at the flag at least every DRAIN_ROUND.
DrainEnds ==
    /\ drainer = "running" /\ stop # "no"
    /\ drainer' = "done"
    /\ UNCHANGED <<conns, generation, reader, handle, link, lock, accepting, pending, calls, answers, stop, wake>>

JoinDrainer ==
    /\ stop = "drainer" /\ drainer # "running"
    /\ Goes("wake")
    /\ UNCHANGED <<conns, generation, reader, handle, link, lock, accepting, pending, calls, answers>>

\* A connect to the own socket wakes the accept loop; it may fail.
Wake ==
    /\ stop = "wake"
    /\ stop' = "acceptor" /\ wake' \in {"sent", "failed"} /\ drainer' = drainer
    /\ UNCHANGED <<conns, generation, reader, handle, link, lock, accepting, pending, calls, answers>>

\* Mutant: the link is taken without waiting for the accept loop.
JoinAcceptorNot ==
    /\ stop = "acceptor"
    /\ Goes("link")
    /\ UNCHANGED <<conns, generation, reader, handle, link, lock, accepting, pending, calls, answers>>

JoinAcceptor ==
    /\ stop = "acceptor" /\ acceptor \in {"done", "absent"}
    /\ Goes("link")
    /\ UNCHANGED <<conns, generation, reader, handle, link, lock, accepting, pending, calls, answers>>

TakeLink ==
    /\ stop = "link" /\ Unlocked
    /\ link' = None
    /\ shut' = IF link = None THEN shut ELSE shut \cup {link}
    /\ Goes("reader")
    /\ UNCHANGED <<guest, generation, reader, handle, lock, accepting, pending, calls, answers>>

JoinReader ==
    /\ stop = "reader"
    /\ handle # None => reader[handle] = "done"
    /\ Goes("clear")
    /\ UNCHANGED <<conns, generation, reader, handle, link, lock, accepting, pending, calls, answers>>

Clear ==
    /\ stop = "clear"
    /\ pending' = [r \in Requests |-> 0]
    /\ Goes("stopped")
    /\ UNCHANGED <<conns, generation, reader, handle, link, lock, accepting, calls, answers>>

----------------------------------------------------------------------------

AgentStep ==
    \/ \E c \in Conns : Connect(c) \/ Hangup(c)
    \/ \E r \in Requests : Answer(r)
    \/ MachineDropped

CallerStep(r) ==
    \/ Register(r) \/ Refuse(r) \/ Write(r) \/ Receive(r) \/ Exited(r) \/ GiveUp(r)
    \/ Disconnected(r)

ReaderStep(c) == ReadEnds(c) \/ ReaderFails(c) \/ ReaderDrops(c)

AcceptorStep ==
    \/ \E c \in Conns : AcceptFirst(c) \/ Accept(c)
    \/ FirstTimesOut \/ CheckStop \/ AcceptWake \/ Generation \/ AdoptFails \/ Identified
    \/ Install \/ FailOld \/ DropOld

StopStep ==
    \/ DrainEnds \/ JoinDrainer \/ Wake \/ JoinAcceptor \/ TakeLink \/ JoinReader \/ Clear

Next ==
    \/ AgentStep
    \/ \E r \in Requests : CallerStep(r) \/ Route(r)
    \/ \E c \in Conns : ReaderStep(c)
    \/ AcceptorStep
    \/ Stop
    \/ StopStep

Spec == Init /\ [][Next]_vars

\* Every thread of the host that can go on does.  The agent need not answer
\* or connect, no caller has to ask or to give up, nobody has to call `stop`.
Fairness ==
    /\ \A r \in Requests : /\ WF_vars(Write(r)) /\ WF_vars(Route(r))
                           /\ WF_vars(Exited(r)) /\ WF_vars(Disconnected(r))
    /\ \A c \in Conns : WF_vars(ReaderStep(c))
    /\ WF_vars(AcceptorStep)
    /\ WF_vars(StopStep)

FairSpec == Spec /\ Fairness

----------------------------------------------------------------------------
(* Properties.                                                               *)

Gone == {"answered", "given up", "closed", "refused"}

\* Every variable stays in its type; a generation is at most the number of
\* connections installed before it and itself (Demux::generation).
TypeOK ==
    /\ guest \in [Conns -> {"none", "queued", "open", "ended"}]
    /\ shut \subseteq Conns
    /\ generation \in [Conns -> 0 .. C]
    /\ reader \in [Conns -> {"absent", "reading", "failing", "dropping", "done"}]
    /\ {handle, link, adopting, old} \subseteq Conns \cup {None}
    /\ lock \in Requests \cup {None}
    /\ acceptor \in {"first", "check", "accept", "adopt", "identify", "install", "fail", "drop",
                    "absent", "done"}
    /\ pending \in [Requests -> 0 .. C]
    /\ caller \in [Requests -> {"idle", "writing", "asked", "started"} \cup Gone]
    /\ made \in [Requests -> Conns \cup {None}]
    /\ sent \in [Requests -> 0 .. 2]
    /\ routed \in [Requests -> 0 .. 2]
    /\ channel \in [Requests -> 0 .. 2]
    /\ drainer \in {"absent", "running", "done"}
    /\ stop \in {"no", "drainer", "wake", "acceptor", "link", "reader", "clear", "stopped"}
    /\ wake \in {"no", "sent", "failed"}

Taken(r) == IF caller[r] = "started" THEN 1 ELSE 0

\* No answer is lost: while a request is registered each frame read for it is
\* in its channel or was taken from there, whether its connection is the
\* live one, is being replaced, or has ended (request, route, install).
NoAnswerLost ==
    \A r \in Requests : pending[r] # 0 => channel[r] + Taken(r) = routed[r]

\* Once `stop` returns nothing is left: no live connection, no registered
\* request, no thread that could bring either back.
StopLeavesNothing ==
    stop = "stopped" =>
        /\ link = None
        /\ acceptor \in {"done", "absent"} /\ drainer # "running"
        /\ handle # None => reader[handle] = "done"
        /\ \A r \in Requests : pending[r] = 0 /\ caller[r] # "writing"

\* `Process::wait` has no deadline of its own, and needs none: once the
\* connection of the command ended it gets the exit report or an error.
WaitReturns ==
    \A r \in Requests :
        (caller[r] = "started" /\ guest[made[r]] = "ended") ~> (caller[r] # "started")

\* `stop` returns, from wherever the accept loop, the drainer, the readers and
\* the callers are, unless its wake-up connect failed.
StopReturns == (stop # "no") ~> (stop = "stopped" \/ wake = "failed")

\* Every request is accounted for, answered, registered or closed, and none after `stop`.
RequestsAccounted == NoAnswerLost /\ StopLeavesNothing

\* Neither a wait for an exit report nor `stop` blocks for ever.
CallersReturn == WaitReturns /\ StopReturns

=============================================================================
