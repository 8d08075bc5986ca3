------------------------------ MODULE Console ------------------------------
(* The virtio console (devices/virtio/console.rs): named ports, each        *)
(* carried to a stream socket of the host, and the control queues that      *)
(* name them.  `notify` is one step; the device thread notifies a queue     *)
(* when the guest kicks it, and all of them when a descriptor is ready or   *)
(* the time of wake_after is over.  `heard` is what the guest was told,     *)
(* `said` and `typed` count the bytes of the guest and of the host end,     *)
(* `room` is what the socket of a host end still takes.                     *)
EXTENDS Integers, Sequences, FiniteSets, SequencesExt

CONSTANTS
    PORTS,       \* number of ports
    HELD,        \* bytes held for a host end
    BYTES,       \* bound: bytes of either end of a port
    BUSY,        \* bound: ports that carry bytes
    BUFFERS      \* bound: buffers the guest has on a receive queue

VARIABLES reach, host, toHost, toGuest, announced, pending, ready, rx, control,
          heard, said, typed, read, written, room, dropped

vars == <<reach, host, toHost, toGuest, announced, pending, ready, rx, control,
          heard, said, typed, read, written, room, dropped>>

ends == <<said, typed, read, written, room>>

Ids == 0 .. PORTS - 1

\* The queues of a port: the control pair lies between port zero and the others.
ReceiveOf(p) == IF p = 0 THEN 0 ELSE 2 + p * 2
TransmitOf(p) == IF p = 0 THEN 1 ELSE 3 + p * 2
Queues == 0 .. 1 + 2 * PORTS

PortOf(q) == IF q \in {0, 1} THEN 0 ELSE (q - 2) \div 2

Init ==
    /\ reach \in {r \in [Ids -> {"listen", "dial"}] : \A p \in Ids \ BUSY : r[p] = "listen"}
    /\ host = [p \in Ids |-> FALSE]
    /\ toHost = [p \in Ids |-> << >>]
    /\ toGuest = [p \in Ids |-> << >>]
    /\ announced = [p \in Ids |-> FALSE]
    /\ pending = << >>
    /\ ready = FALSE
    /\ rx = [p \in Ids |-> 0]
    /\ control = 0
    /\ heard = << >>
    /\ said = [p \in Ids |-> 0]
    /\ typed = [p \in Ids |-> << >>]
    /\ read = [p \in Ids |-> << >>]
    /\ written = [p \in Ids |-> << >>]
    /\ room = [p \in Ids |-> 0]
    /\ dropped = [p \in Ids |-> FALSE]

Message(p, event) == [port |-> p, event |-> event]

\* The messages about the ports that were not announced, once the guest is ready.
Announcement ==
    LET Of(p) == IF announced[p] THEN << >> ELSE <<Message(p, "add"), Message(p, "name")>>
    IN  FlattenSeq([i \in 1 .. PORTS |-> Of(i - 1)])

Announced(isReady) == IF isReady THEN pending \o Announcement ELSE pending

\* The oldest bytes go past HELD; then as much is written as the host end takes.
Kept(bytes) == IF Len(bytes) > HELD THEN SubSeq(bytes, Len(bytes) - HELD + 1, Len(bytes)) ELSE bytes

Put(p, bytes) == IF room[p] < Len(bytes) THEN room[p] ELSE Len(bytes)

Push(p, bytes, up) ==
    LET kept == Kept(bytes)
        put == IF up THEN Put(p, kept) ELSE 0
    IN /\ written' = [written EXCEPT ![p] = @ \o SubSeq(kept, 1, put)]
       /\ toHost' = [toHost EXCEPT ![p] = SubSeq(kept, put + 1, Len(kept))]
       /\ room' = [room EXCEPT ![p] = @ - put]
       /\ dropped' = [dropped EXCEPT ![p] = @ \/ kept # bytes]

\* A host end that has arrived, on the socket of the port or on the one it dials, is given
\* what the guest said before.  Every notify accepts first.
Accept(p) ==
    /\ ~host[p]
    /\ host' = [host EXCEPT ![p] = TRUE]
    /\ Push(p, toHost[p], TRUE)
    /\ UNCHANGED <<reach, toGuest, announced, pending, ready, rx, control, heard, said, typed, read>>

\* The guest writes one byte to a port.
TakeFromGuest(q) ==
    LET p == PortOf(q)
    IN /\ q = TransmitOf(p)
       /\ p \in BUSY /\ said[p] < BYTES
       /\ said' = [said EXCEPT ![p] = @ + 1]
       /\ Push(p, Append(toHost[p], said[p] + 1), host[p])
       /\ UNCHANGED <<reach, host, toGuest, announced, pending, ready, rx, control, heard, typed, read>>

\* A read of the host end, and the bytes that wait into the buffers of the guest.
GiveToGuest(q) ==
    LET p == PortOf(q)
        waiting == toGuest[p] \o (IF host[p] THEN typed[p] ELSE << >>)
        given == IF Len(waiting) < rx[p] THEN Len(waiting) ELSE rx[p]
    IN /\ p \in Ids
       /\ q = ReceiveOf(p)
       /\ typed' = [typed EXCEPT ![p] = IF host[p] THEN << >> ELSE @]
       /\ read' = [read EXCEPT ![p] = @ \o SubSeq(waiting, 1, given)]
       /\ toGuest' = [toGuest EXCEPT ![p] = SubSeq(waiting, given + 1, Len(waiting))]
       /\ rx' = [rx EXCEPT ![p] = @ - given]
       /\ UNCHANGED <<reach, host, toHost, announced, pending, ready, control, heard, said,
                      written, room, dropped>>

\* What the guest says on the control queue: it is ready, or a port is.
ControlFromGuest(message) ==
    /\ IF message.event = "device"
       THEN /\ ready' = TRUE
            /\ pending' = Announced(TRUE)
            /\ announced' = [p \in Ids |-> TRUE]
       ELSE /\ pending' = pending \o <<Message(message.port, "console"), Message(message.port, "open")>>
            /\ UNCHANGED <<ready, announced>>
    /\ UNCHANGED <<reach, host, toHost, toGuest, rx, control, heard, dropped, ends>>

\* The control messages that wait, into as many buffers as there are; ports not announced
\* are announced first.
ControlToGuest ==
    LET waiting == Announced(ready)
        given == IF Len(waiting) < control THEN Len(waiting) ELSE control
    IN /\ given > 0
       /\ heard' = heard \o SubSeq(waiting, 1, given)
       /\ pending' = SubSeq(waiting, given + 1, Len(waiting))
       /\ announced' = [p \in Ids |-> announced[p] \/ waiting # pending]
       /\ control' = control - given
       /\ UNCHANGED <<reach, host, toHost, toGuest, ready, rx, dropped, ends>>

-----------------------------------------------------------------------------
\* The guest: buffers for its queues, and a port it was told of is reported ready once.
PostControl ==
    /\ control < BUFFERS
    /\ control' = control + 1
    /\ UNCHANGED <<reach, host, toHost, toGuest, announced, pending, ready, rx, heard, dropped, ends>>

PostBuffer(p) ==
    /\ rx[p] < BUFFERS
    /\ rx' = [rx EXCEPT ![p] = @ + 1]
    /\ UNCHANGED <<reach, host, toHost, toGuest, announced, pending, ready, control, heard, dropped, ends>>

Heard(p, event) == \E i \in DOMAIN heard : heard[i] = Message(p, event)

DeviceReady == ~ready /\ ControlFromGuest(Message(0, "device"))

PortReady(p) ==
    /\ Heard(p, "add")
    /\ \A i \in DOMAIN pending : pending[i] # Message(p, "console")
    /\ ~Heard(p, "console")
    /\ ControlFromGuest(Message(p, "port"))

\* The host end writes and reads.
HostTypes(p) ==
    /\ host[p]
    /\ Len(typed[p]) + Len(toGuest[p]) + Len(read[p]) < BYTES
    /\ typed' = [typed EXCEPT ![p] = Append(@, Len(typed[p]) + Len(toGuest[p]) + Len(read[p]) + 1)]
    /\ UNCHANGED <<reach, host, toHost, toGuest, announced, pending, ready, rx, control, heard,
                   said, read, written, room, dropped>>

HostReads(p) ==
    /\ room[p] < 1
    /\ room' = [room EXCEPT ![p] = @ + 1]
    /\ UNCHANGED <<reach, host, toHost, toGuest, announced, pending, ready, rx, control, heard,
                   said, typed, read, written, dropped>>

\* What the thread waits for: a descriptor to read, or ten milliseconds.
Outside(p) == host[p] \/ reach[p] = "listen"
WakeAfter == pending # << >> \/ \E p \in Ids : ~host[p] /\ reach[p] = "dial"

Next ==
    \/ DeviceReady
    \/ ControlToGuest
    \/ PostControl
    \/ \E p \in Ids : PortReady(p)
    \/ \E q \in Queues : TakeFromGuest(q) \/ GiveToGuest(q)
    \/ \E p \in BUSY : PostBuffer(p) \/ HostTypes(p) \/ HostReads(p) \/ Accept(p)

Spec == Init /\ [][Next]_vars
-----------------------------------------------------------------------------
\* A guest hears of a port once, its name after the port, and that it is open after it said
\* the port is ready; it hears nothing before it is ready itself.
Told(p, event) == {i \in DOMAIN (heard \o pending) : (heard \o pending)[i] = Message(p, event)}

ControlInOrder ==
    /\ ~ready => heard \o pending = << >>
    /\ \A p \in Ids :
          /\ \A event \in {"add", "name", "console", "open"} : Cardinality(Told(p, event)) <= 1
          /\ \A i \in Told(p, "name") : i - 1 \in Told(p, "add")
          /\ \A i \in Told(p, "open") : \E j \in Told(p, "add") : j < i
    /\ ready => \A p \in Ids : Told(p, "name") # {}

\* Bytes keep their order both ways.  None of the host's is lost, and of the guest's only
\* those that HELD has no room for, the oldest first.
BytesKept ==
    \A p \in Ids :
        /\ read[p] \o toGuest[p] \o typed[p]
              = [i \in 1 .. Len(read[p]) + Len(toGuest[p]) + Len(typed[p]) |-> i]
        /\ LET all == written[p] \o toHost[p]
           IN /\ \A i \in 1 .. Len(all) - 1 : all[i] < all[i + 1]
              /\ said[p] > 0 => all[Len(all)] = said[p]
              /\ ~dropped[p] => Len(all) = said[p]
              /\ Len(toHost[p]) <= HELD

\* Whatever waits has somebody coming for it: a control message has the clock, a port that
\* nobody reached has its socket or the clock.
SomebodyComes ==
    /\ pending # << >> => WakeAfter
    /\ \A p \in Ids : Outside(p) \/ WakeAfter

\* The queue an index names is the one of its port.
QueuesApart ==
    \A p \in Ids : PortOf(ReceiveOf(p)) = p /\ PortOf(TransmitOf(p)) = p

\* The ports are sound: what the guest hears of them, and what they carry.
PortsSound == ControlInOrder /\ BytesKept /\ SomebodyComes /\ QueuesApart
=============================================================================
