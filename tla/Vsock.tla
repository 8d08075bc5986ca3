------------------------------- MODULE Vsock -------------------------------
(***************************************************************************)
(* The vsock device (src/lingcore/src/devices/virtio/vsock): connections   *)
(* with the credit of both ends, the packets held for the receive ring,    *)
(* and the device thread that serves the rings it is woken for, over a     *)
(* guest driver that keeps to the protocol and host ends that read and     *)
(* write as they please.                                                   *)
(*                                                                         *)
(* A connection is its pair of ports, used once.  Bytes are counted, not   *)
(* named, and counts wrap at Wrap as u32 does.  The passes of notify that  *)
(* reach no guest memory are one step, which no guest can tell apart.      *)
(***************************************************************************)
EXTENDS Integers, Sequences, FiniteSets, SequencesExt

CONSTANTS Conns,        \* pairs of guest and host port
          WINDOW,       \* bytes held for a host end, the device's buf_alloc
          GuestWindow,  \* the guest's buf_alloc
          Wrap,         \* 2^32
          WAITING,      \* packets held for the receive ring
          CONNECTIONS,  \* connections open at once
          TxMax         \* packets a guest has on the transmit ring at once

ASSUME VsockAssumption ==
    /\ WINDOW \in Nat \ {0} /\ GuestWindow \in Nat \ {0} /\ Wrap \in Nat
    /\ Wrap > WINDOW /\ Wrap > GuestWindow
    /\ WAITING \in Nat \ {0} /\ CONNECTIONS \in Nat /\ TxMax \in Nat \ {0}

VARIABLES
    conn,        \* the connection of each pair of ports
    waiting,     \* packets for the receive ring
    dropped,     \* the sorts of packet dropped at WAITING
    resetOwed,   \* a transport reset is pending
    kick,        \* the eventfd is signalled
    at,          \* the ring the device thread serves
    unused,      \* pairs neither a host process nor the guest has asked with
    bells,       \* rings to serve
    tx,          \* packets of the guest on the transmit ring
    buffers,     \* the rings the guest has a buffer on: RX, EVT
    gstage,      \* of each connection in the guest: none, asking, open, over
    gshut,       \* directions the guest's socket shut
    gsent,       \* bytes it sent
    gread,       \* bytes its program read
    gcredit,     \* fwd_cnt last heard from the device
    unread       \* bytes in its receive buffer

device == <<conn, waiting, dropped, unused>>
guest == <<gstage, gshut, gsent, gread, gcredit, unread>>
rings == <<bells, tx, buffers>>
vars == <<device, resetOwed, kick, at, rings, guest>>

Both == {"rcv", "send"}

\* A connection as Connection::new and Connection::asking make it, with what
\* the device keeps beside it.
Connection(stage, window, fwd) ==
    [stage |-> stage, guestShut |-> {}, hostShut |-> {}, peerWindow |-> window, peerTaken |-> fwd,
     sent |-> 0, taken |-> 0, pending |-> 0, writeShut |-> FALSE, since |-> "none"]

NoConnection == Connection("none", 0, 0)

Live(conns) == {c \in Conns : conns[c].stage # "none"}
Open == Live(conn)

Init ==
    /\ conn = [c \in Conns |-> NoConnection]
    /\ waiting = <<>> /\ dropped = {}
    /\ resetOwed = FALSE /\ kick = FALSE
    /\ at = "idle" /\ unused = Conns
    /\ bells = {} /\ tx = <<>> /\ buffers = {"EVT"}
    /\ gstage = [c \in Conns |-> "none"] /\ gshut = [c \in Conns |-> {}]
    /\ gsent = [c \in Conns |-> 0] /\ gread = [c \in Conns |-> 0]
    /\ gcredit = [c \in Conns |-> 0] /\ unread = [c \in Conns |-> 0]

Packet(c, op, len, flags, fwd) == [conn |-> c, op |-> op, len |-> len, flags |-> flags, fwd |-> fwd]

\* A header of connection k of c to the guest carries its credit.
ToGuest(c, k, op) == Packet(c, op, 0, {}, k.taken)
ToGuestShutdown(c, k) == Packet(c, "shutdown", 0, k.hostShut, k.taken)

\* The answer to a packet of no connection carries none.
Answer(c, op) == Packet(c, op, 0, {}, 0)

Sort(p) == IF p.op = "data" THEN "data" ELSE "control"

\* The packets that are held: no more than WAITING.
Held(packets) == SubSeq(packets, 1, Min({WAITING, Len(packets)}))

\* Packets queued for the receive ring; those past WAITING are dropped.
Owe(packets) ==
    /\ waiting' = Held(waiting \o packets)
    /\ dropped' = dropped \cup
           {Sort(packets[i]) : i \in {j \in 1 .. Len(packets) : Len(waiting) + j > WAITING}}

\* No signal.
NoSignal == UNCHANGED kick

\* The eventfd makes the thread serve the receive ring.
Signal == kick' = TRUE

\* Whether the guest has yet to answer the connection.
WaitingOnGuest(k) == k.stage = "asking" \/ k.hostShut = Both

\* Outstanding that forgets what was sent since the last header.
OutstandingNone(k) == 0

\* Bytes sent that the guest's program has not taken.
Outstanding(k) == (k.sent - k.peerTaken) % Wrap

\* Bytes the guest can take.
Room(k) ==
    IF "rcv" \in k.guestShut \/ "send" \in k.hostShut THEN 0
    ELSE IF Outstanding(k) > k.peerWindow THEN 0
    ELSE k.peerWindow - Outstanding(k)

-----------------------------------------------------------------------------
(* The device thread.  Rings are served in order, the doorbell of each     *)
(* taken when it is.                                                       *)

Rings == {"RX", "TX", "EVT"}

\* The host descriptors waited on, and what the next deadline is for.
MayBeReady ==
    \/ Cardinality(Open) < CONNECTIONS /\ unused # {}
    \/ \E c \in Open : (Room(conn[c]) > 0 /\ Len(waiting) < WAITING) \/ conn[c].pending > 0
    \/ \E c \in Open : WaitingOnGuest(conn[c]) /\ conn[c].since # "young"

\* A descriptor ready, the kick among them, or a deadline that has passed
\* has the thread serve all rings, EVT to no effect unless a reset is owed.
Wake ==
    /\ at = "idle" /\ bells = {}
    /\ kick \/ MayBeReady
    /\ bells' = {"RX", "TX"} \cup {ring \in {"EVT"} : resetOwed}
    /\ UNCHANGED <<device, resetOwed, kick, at, tx, buffers, guest>>

-----------------------------------------------------------------------------
(* What the guest sent.                                                    *)

\* A packet on a connection the device has: an unexpected one is answered
\* with a reset, and so is one past the window, which ends the connection.
GuestSent(p) ==
    LET c == p.conn
        k == conn[c]
        refused == \/ p.op = "request"
                   \/ p.op = "response" /\ k.stage # "asking"
                   \/ p.op = "data" /\ (k.stage # "open" \/ "send" \in k.guestShut)
        overrun == p.op = "data" /\ ~refused /\ k.pending + p.len > WINDOW
        opened == p.op = "response" /\ ~refused
    IN \E acknowledged \in BOOLEAN :
        LET failed == opened /\ ~acknowledged
        IN  /\ acknowledged \/ opened
            /\ conn' = [conn EXCEPT ![c] =
                   IF p.op = "reset" \/ overrun \/ failed THEN NoConnection
                   ELSE [k EXCEPT !.peerWindow = GuestWindow,
                                  !.peerTaken = p.fwd,
                                  !.stage = IF opened THEN "open" ELSE @,
                                  !.guestShut = @ \cup p.flags,
                                  !.pending = IF refused THEN @ ELSE @ + p.len]]
            /\ Owe(IF refused \/ overrun \/ failed THEN <<ToGuest(c, k, "reset")>>
                   ELSE IF p.op = "credit_request" THEN <<ToGuest(c, k, "credit")>>
                   ELSE <<>>)

\* A packet on no connection: a request is put to the host while the limit
\* allows, all else is answered with a reset.
Asked(p) ==
    \E reached \in BOOLEAN :
        /\ reached => p.op = "request" /\ Cardinality(Open) < CONNECTIONS
        /\ conn' = IF reached THEN [conn EXCEPT ![p.conn] = Connection("open", GuestWindow, p.fwd)] ELSE conn
        /\ Owe(<<Answer(p.conn, IF reached THEN "response" ELSE "reset")>>)

\* The transmit ring is emptied.
Took ==
    /\ at = "TX" /\ tx # <<>>
    /\ Signal
    /\ IF Head(tx).conn \in Open THEN GuestSent(Head(tx)) ELSE Asked(Head(tx))
    /\ tx' = Tail(tx)
    /\ UNCHANGED <<resetOwed, at, bells, buffers, unused, guest>>

-----------------------------------------------------------------------------
(* The passes over the connections.                                        *)

Fails == -1    \* a write that failed
Blocks == -1   \* a read that would block

\* The connection after a write that took count, or failed.
Wrote(k, count) ==
    IF count = Fails THEN [k EXCEPT !.hostShut = @ \cup {"rcv"}, !.pending = 0]
    ELSE [k EXCEPT !.pending = @ - count, !.taken = (@ + count) % Wrap]

\* What the guest is told of the write.
Told(c, k, count) ==
    IF count = Fails THEN <<ToGuestShutdown(c, k)>>
    ELSE IF count > 0 THEN <<ToGuest(c, k, "credit")>>
    ELSE <<>>

\* Drained of a connection with bytes left.
DrainedEarly(k) == k.pending = 0 \/ "send" \in k.guestShut

Drained(k) == k.pending = 0

\* Bytes of the guest go to the host end, which takes count or fails.  Once
\* none are left the end of the guest's stream is passed on, and a connection
\* whose directions are over is closed or on its way.
Carry(c, k, count) ==
    LET wrote == Wrote(k, count)
        told == Told(c, wrote, count)
        ended == [wrote EXCEPT !.writeShut = @ \/ "send" \in wrote.guestShut]
        finished == [ended EXCEPT !.hostShut = Both]
    IN  IF ~Drained(wrote) THEN [conn |-> wrote, owed |-> told]
        ELSE IF wrote.guestShut = Both
        THEN [conn |-> NoConnection, owed |-> Append(told, ToGuest(c, wrote, "reset"))]
        ELSE IF "send" \in wrote.guestShut /\ "send" \in wrote.hostShut /\ wrote.hostShut # Both
        THEN [conn |-> finished, owed |-> Append(told, ToGuestShutdown(c, finished))]
        ELSE [conn |-> ended, owed |-> told]

\* Bytes of the host end, or its end.
Pump(c, k, count) ==
    LET over == [k EXCEPT !.hostShut = @ \cup {"send"}]
        more == [k EXCEPT !.sent = (@ + count) % Wrap]
    IN  IF count = Blocks THEN [conn |-> k, owed |-> <<>>]
        ELSE IF count = 0 THEN [conn |-> over, owed |-> <<ToGuestShutdown(c, over)>>]
        ELSE [conn |-> more, owed |-> <<[ToGuest(c, more, "data") EXCEPT !.len = count]>>]

\* Whether more packets can be held beside those held.
TakesMore(held, more) == held + more <= WAITING

\* A read is for no more than the room of the guest, and none is made once
\* WAITING packets are held.
Readable(conns, reads, held) ==
    /\ \A c \in Live(conns) : reads[c] # Blocks => Room(conns[c]) > 0 /\ reads[c] <= Room(conns[c])
    /\ LET read == {c \in Live(conns) : reads[c] # Blocks}
       IN  read # {} => TakesMore(held, Cardinality(read))

\* A connection that has waited on the guest for PATIENCE is reset.
Expire(c, k) ==
    IF ~WaitingOnGuest(k) THEN [conn |-> [k EXCEPT !.since = "none"], owed |-> <<>>]
    ELSE IF k.since = "due" THEN [conn |-> NoConnection, owed |-> <<ToGuest(c, k, "reset")>>]
    ELSE [conn |-> [k EXCEPT !.since = "young"], owed |-> <<>>]

\* A pass over the connections of conns, one(c) the pass over c.
Conned(conns, one(_)) == [c \in Conns |-> IF c \in Live(conns) THEN one(c).conn ELSE conns[c]]
Owed(conns, one(_)) ==
    FoldSet(LAMBDA c, packets : one(c).owed \o packets, <<>>, Live(conns))

\* The callers in cs are taken, each a connection that asks the guest.
TakeIncoming(cs) == [c \in Conns |-> IF c \in cs THEN Connection("asking", 0, 0) ELSE conn[c]]

\* Serving RX or TX: unused, then the three passes, over host ends that take
\* and give what they will.
Host(kicked) ==
    \E cs \in SUBSET unused :
        LET taken == TakeIncoming(cs)
            asked == SetToSeq({ToGuest(c, taken[c], "request") : c \in cs})
        IN  /\ cs # {} => Cardinality(Live(taken)) <= CONNECTIONS
            /\ unused' = unused \ cs
            /\ \E counts \in [Live(taken) -> Fails .. WINDOW] :
                /\ \A c \in Live(taken) :
                    /\ counts[c] <= taken[c].pending
                    /\ counts[c] = Fails => taken[c].pending > 0
                /\ LET carry(c) == Carry(c, taken[c], counts[c])
                       carried == Conned(taken, carry)
                       told == asked \o Owed(taken, carry)
                   IN \E reads \in [Live(carried) -> Blocks .. GuestWindow] :
                        /\ Readable(carried, reads, Len(waiting) + Len(told))
                        /\ LET pump(c) == Pump(c, carried[c], reads[c])
                               pumped == Conned(carried, pump)
                               expire(c) == Expire(c, pumped[c])
                               owed == told \o Owed(carried, pump) \o Owed(pumped, expire)
                           IN  /\ conn' = Conned(pumped, expire)
                               /\ Owe(owed)
                               /\ kick' = (kicked \/ owed # <<>>)

Serve(ring, before) ==
    at = "idle" /\ ring \in bells /\ bells \cap before = {} /\ bells' = bells \ {ring}

ServeRx ==
    /\ Serve("RX", {}) /\ at' = "RX"
    /\ Host(FALSE)
    /\ UNCHANGED <<resetOwed, tx, buffers, guest>>

ServeTx ==
    /\ Serve("TX", {"RX"}) /\ at' = "TX"
    /\ UNCHANGED <<device, resetOwed, kick, tx, buffers, guest>>

NoMoreTaken ==
    /\ at = "TX" /\ tx = <<>> /\ at' = "idle"
    /\ Host(kick)
    /\ UNCHANGED <<resetOwed, rings, guest>>

\* PATIENCE passes.
Tick(c) ==
    /\ conn[c].since = "young"
    /\ conn' = [conn EXCEPT ![c].since = "due"]
    /\ UNCHANGED <<waiting, dropped, unused, resetOwed, kick, at, rings, guest>>

-----------------------------------------------------------------------------
(* The guest's driver.                                                     *)

\* A packet of the guest on the transmit ring, and its doorbell.
Put(p) == tx' = Append(tx, p) /\ bells' = bells \cup {"TX"}

GuestPacket(c, op) == Packet(c, op, 0, {}, gread[c])

\* The sockets of cs are gone in the guest.
Over(cs) ==
    LET without(f, none) == [c \in Conns |-> IF c \in cs THEN none ELSE f[c]]
    IN  /\ gstage' = without(gstage, "over")
        /\ gshut' = without(gshut, {})
        /\ gsent' = without(gsent, 0) /\ gread' = without(gread, 0)
        /\ gcredit' = without(gcredit, 0) /\ unread' = without(unread, 0)

\* The guest takes a packet: what no socket of it expects is answered with a
\* reset, and so is the end of both directions.
GuestTakes(p) ==
    LET c == p.conn
        accepts == p.op = "request" /\ gstage[c] = "none"
        connected == p.op = "response" /\ gstage[c] = "asking"
        expected == accepts \/ connected \/ (gstage[c] = "open" /\ p.op \notin {"request", "response"})
    IN  \/ p.op = "reset" /\ Over({c}) /\ UNCHANGED <<tx, bells>>
        \/ /\ p.op # "reset"
           /\ ~expected \/ accepts \/ p.flags = Both
           /\ Over({c}) /\ Put(GuestPacket(c, "reset"))
        \/ /\ expected /\ p.flags # Both
           /\ gstage' = [gstage EXCEPT ![c] = "open"]
           /\ gcredit' = [gcredit EXCEPT ![c] = p.fwd]
           /\ unread' = [unread EXCEPT ![c] = IF p.op = "data" THEN @ + p.len ELSE @]
           /\ IF accepts THEN Put(GuestPacket(c, "response")) ELSE UNCHANGED <<tx, bells>>
           /\ UNCHANGED <<gshut, gsent, gread>>

\* The first packet waiting, or the part of it the buffer holds.
Give ==
    /\ at = "RX" /\ waiting # <<>> /\ "RX" \in buffers
    /\ \E fits \in 0 .. Head(waiting).len :
        /\ Head(waiting).len > 0 => fits > 0
        /\ waiting' = IF fits < Head(waiting).len
                      THEN [waiting EXCEPT ![1].len = @ - fits]
                      ELSE Tail(waiting)
        /\ GuestTakes([Head(waiting) EXCEPT !.len = fits])
    /\ buffers' = buffers \ {"RX"}
    /\ UNCHANGED <<conn, dropped, unused, resetOwed, kick, at>>

NoMoreGiven ==
    /\ at = "RX" /\ (waiting = <<>> \/ "RX" \notin buffers)
    /\ at' = "idle"
    /\ UNCHANGED <<device, resetOwed, kick, rings, guest>>

\* The transport reset, on which the guest closes its sockets.
Reset(owed) ==
    IF owed /\ "EVT" \in buffers
    THEN /\ resetOwed' = FALSE
         /\ buffers' = buffers \ {"EVT"}
         /\ Over({c \in Conns : gstage[c] # "none"})
    ELSE resetOwed' = owed /\ UNCHANGED <<buffers, guest>>

PostReset ==
    /\ Serve("EVT", {"RX", "TX"})
    /\ Reset(resetOwed)
    /\ UNCHANGED <<device, kick, at, tx>>

GuestOffers(ring) ==
    /\ ring \notin buffers /\ Len(tx) < TxMax
    /\ buffers' = buffers \cup {ring}
    /\ bells' = bells \cup {ring}
    /\ UNCHANGED <<device, resetOwed, kick, at, tx, guest>>

GuestConnects(c) ==
    /\ c \in unused /\ Len(tx) < TxMax
    /\ unused' = unused \ {c}
    /\ gstage' = [gstage EXCEPT ![c] = "asking"]
    /\ Put(GuestPacket(c, "request"))
    /\ UNCHANGED <<conn, waiting, dropped, resetOwed, kick, at, buffers, gshut, gsent, gread, gcredit, unread>>

\* The guest sends within the credit it knows of.
GuestSends(c) ==
    /\ gstage[c] = "open" /\ "send" \notin gshut[c] /\ Len(tx) < TxMax
    /\ \E len \in 1 .. (WINDOW - ((gsent[c] - gcredit[c]) % Wrap)) :
        /\ gsent' = [gsent EXCEPT ![c] = (@ + len) % Wrap]
        /\ Put([GuestPacket(c, "data") EXCEPT !.len = len])
    /\ UNCHANGED <<device, resetOwed, kick, at, buffers, gstage, gshut, gread, gcredit, unread>>

\* Its program reads, and the driver tells the device of the room.
GuestReads(c) ==
    /\ unread[c] > 0 /\ Len(tx) < TxMax
    /\ \E len \in 1 .. unread[c] :
        /\ unread' = [unread EXCEPT ![c] = @ - len]
        /\ gread' = [gread EXCEPT ![c] = (@ + len) % Wrap]
        /\ Put([GuestPacket(c, "credit") EXCEPT !.fwd = (gread[c] + len) % Wrap])
    /\ UNCHANGED <<device, resetOwed, kick, at, buffers, gstage, gshut, gsent, gcredit>>

\* A guest out of credit may ask for it, not so fast that the transmit ring
\* never empties.
GuestAsksCredit(c) ==
    /\ gstage[c] = "open" /\ gsent[c] # gcredit[c] /\ tx = <<>> /\ at = "idle"
    /\ Put(GuestPacket(c, "credit_request"))
    /\ UNCHANGED <<device, resetOwed, kick, at, buffers, guest>>

\* Its program ends its stream, or closes the socket.
GuestShuts(c) ==
    /\ gstage[c] = "open" /\ gshut[c] # Both /\ Len(tx) < TxMax
    /\ \E shut \in {{"send"}, Both} \ {gshut[c]} :
        /\ gshut' = [gshut EXCEPT ![c] = shut]
        /\ Put([GuestPacket(c, "shutdown") EXCEPT !.flags = shut])
    /\ UNCHANGED <<device, resetOwed, kick, at, buffers, gstage, gsent, gread, gcredit, unread>>

\* The guest gives a connection up.
GuestResets(c) ==
    /\ gstage[c] \in {"asking", "open"} /\ Len(tx) < TxMax
    /\ Over({c})
    /\ Put(GuestPacket(c, "reset"))
    /\ UNCHANGED <<device, resetOwed, kick, at, buffers>>

-----------------------------------------------------------------------------
\* The machine is captured between rounds, no doorbell outstanding, and its
\* guest goes on over a device that has none of its connections.
Restored ==
    /\ at = "idle" /\ bells = {}
    /\ conn' = [c \in Conns |-> NoConnection]
    /\ waiting' = <<>> /\ dropped' = {} /\ kick' = FALSE
    /\ Reset(TRUE)
    /\ UNCHANGED <<at, bells, tx, unused>>

DeviceStep ==
    \/ Wake \/ ServeRx \/ ServeTx \/ Took \/ NoMoreTaken
    \/ Give \/ NoMoreGiven \/ PostReset

GuestStep ==
    \/ \E ring \in {"RX", "EVT"} : GuestOffers(ring)
    \/ \E c \in Conns :
        \/ GuestConnects(c) \/ GuestSends(c) \/ GuestReads(c)
        \/ GuestAsksCredit(c) \/ GuestShuts(c) \/ GuestResets(c)

Next == DeviceStep \/ GuestStep \/ (\E c \in Conns : Tick(c)) \/ Restored

Spec == Init /\ [][Next]_vars

-----------------------------------------------------------------------------
\* Bytes of data for c among packets.
Carried(packets, c) ==
    FoldSeq(LAMBDA p, sum : sum + (IF p.conn = c /\ p.op = "data" THEN p.len ELSE 0), 0, packets)

Counts == 0 .. Wrap - 1

\* The device, its thread and the guest hold values of their types.
TypeOK ==
    /\ \A c \in Conns :
        /\ conn[c].stage \in {"none", "asking", "open"}
        /\ conn[c].guestShut \subseteq Both /\ conn[c].hostShut \subseteq Both
        /\ conn[c].peerWindow \in {0, GuestWindow} /\ conn[c].pending \in 0 .. WINDOW
        /\ {conn[c].peerTaken, conn[c].sent, conn[c].taken} \subseteq Counts
        /\ conn[c].writeShut \in BOOLEAN /\ conn[c].since \in {"none", "young", "due"}
        /\ gstage[c] \in {"none", "asking", "open", "over"} /\ gshut[c] \subseteq Both
    /\ Len(waiting) <= WAITING /\ dropped \subseteq {"data", "control"}
    /\ resetOwed \in BOOLEAN /\ kick \in BOOLEAN
    /\ Cardinality(Open) <= CONNECTIONS
    /\ buffers \subseteq {"RX", "EVT"} /\ bells \subseteq Rings /\ at \in {"idle", "RX", "TX"}

\* A guest is never sent more than its buffer holds: the bytes its program has
\* not read and those on their way fit the window it told (room and pump).
GuestNotOverrun ==
    \A c \in Conns : gstage[c] = "open" => unread[c] + Carried(waiting, c) <= GuestWindow

\* A guest that keeps to its credit is never reset for want of room: what the
\* device holds and what is on the transmit ring fit the device's window.
HonestNotReset ==
    \A c \in Open : gstage[c] = "open" => conn[c].pending + Carried(tx, c) <= WINDOW

\* The end of the guest's stream reaches the host end after its last byte.
EofIsLast ==
    \A c \in Open : conn[c].writeShut => conn[c].pending = 0 /\ "send" \in conn[c].guestShut

\* Bytes read from a host end are never dropped: pump reads only with room
\* left among the packets waiting.
DataKept == "data" \notin dropped

\* A thread about to sleep leaves no packet waiting that a buffer could
\* take: whatever queued one signalled the kick.
NothingStranded ==
    (at = "idle" /\ bells = {} /\ ~kick) => (waiting = <<>> \/ "RX" \notin buffers) /\ tx = <<>>

\* Credit for every byte the host end took is with the guest once nothing is
\* on its way, unless a credit update was dropped at WAITING.
CreditTold ==
    \A c \in Open :
        (/\ at = "idle" /\ tx = <<>> /\ waiting = <<>> /\ conn[c].pending = 0
         /\ gstage[c] = "open" /\ "rcv" \notin conn[c].hostShut /\ dropped = {})
        => gcredit[c] = gsent[c]

\* The clock of PATIENCE runs for a connection exactly while it waits on the
\* guest: one that waits without it is never reset, one that goes on with an
\* old clock is reset early.
ClockRuns ==
    at = "idle" => \A c \in Open : WaitingOnGuest(conn[c]) <=> conn[c].since # "none"

\* Credit is sound both ways: neither side is sent more than it has room for, and what the
\* host end took is told to the guest (Connection::room, pump, credit updates).
CreditSound == GuestNotOverrun /\ HonestNotReset /\ CreditTold

\* The streams are intact: no byte read from a host end is dropped, and none follows an end.
StreamIntact == EofIsLast /\ DataKept

\* The device thread sleeps over nothing: no packet a buffer could take, and no connection
\* that waits on the guest without its clock (Vsock::outside, wake_after, kick).
ThreadSound == NothingStranded /\ ClockRuns
=============================================================================
