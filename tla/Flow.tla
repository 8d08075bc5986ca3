-------------------------------- MODULE Flow --------------------------------
(***************************************************************************)
(* The datagrams of the network stack (net/stack/mod.rs, dhcp.rs): what    *)
(* inspect does with a frame of the guest before smoltcp sees it, and the  *)
(* UDP flow to one destination, with a host socket for each guest port.    *)
(* give and take run on the device thread and end in a pass of the stack.  *)
(* A port has at most one reply on its way in each place.                  *)
(***************************************************************************)
EXTENDS Naturals, FiniteSets

CONSTANTS
    PORTS,          \* guest ports that send to the destination
    PACKETS         \* datagrams the send side of a flow holds

VARIABLES
    bound,      \* the destination has a flow
    senders,    \* guest ports of the flow with a host socket
    inbox,      \* ports whose host socket holds a reply
    send,       \* ports with a reply on the send side of the smoltcp socket
    owed,       \* ports whose reply was read from the host and not yet given to the guest
    lease       \* what the guest has of its DHCP exchange: none, offer, ack

vars == <<bound, senders, inbox, send, owed, lease>>

Init == bound = FALSE /\ senders = {} /\ inbox = {} /\ send = {} /\ owed = {} /\ lease = "none"

-----------------------------------------------------------------------------
(* pump_udp, for a flow whose datagrams of the guest come from `from`.     *)

\* Host sockets opened for new ports; an open may fail, and its datagram is lost.
WithSenders(from) == {senders \cup opened : opened \in SUBSET from}

\* Ports whose reply is read: as many as the send side has room for.
Readable(held) == (held \cap inbox) \ send
ReadSets(held) ==
    LET room == PACKETS - Cardinality(send) IN
    {r \in SUBSET Readable(held) :
        Cardinality(r) = IF Cardinality(Readable(held)) < room THEN Cardinality(Readable(held)) ELSE room}

\* Mutant: a flow stays once bound.
QuietNever(kept, sent) == FALSE

\* A flow goes once it has no sender and nothing left to send.
Quiet(kept, sent) == kept = {} /\ sent = {}

\* Senders with UDP_IDLE behind them go, and those whose socket failed.
PumpUdp(from) ==
    \E held \in WithSenders(from) : \E read \in ReadSets(held), kept \in SUBSET held :
        LET gone == Quiet(kept, send \cup read) IN
        /\ bound' = ~gone
        /\ senders' = kept
        /\ send' = IF gone THEN {} ELSE send \cup read
        /\ inbox' = (inbox \cap kept) \ read
        /\ owed' = owed \cup read

\* A pass over a stack without the flow changes nothing.
Poll == IF bound THEN PumpUdp({}) ELSE UNCHANGED <<bound, senders, inbox, send, owed>>

-----------------------------------------------------------------------------
(* give: inspect, then a pass.                                             *)

\* A datagram to the destination opens its flow; smoltcp may drop it, its checksum being bad.
GiveDatagram ==
    /\ \E from \in {{}} \cup {{p} : p \in PORTS} : PumpUdp(from)
    /\ UNCHANGED lease

\* An offer to a discover, an ack to a request, nothing to the rest.
Reply(kind) == IF kind = "discover" THEN "offer" ELSE IF kind = "request" THEN "ack" ELSE lease

\* DHCP is answered before smoltcp sees it.
GiveDhcp ==
    /\ \E kind \in {"discover", "request", "other"} : lease' = Reply(kind)
    /\ Poll

\* take: a pass of its own, woken by a host socket or the deadline.
Take == Poll /\ UNCHANGED lease

\* smoltcp sends a reply on, once it knows the guest's hardware address.
Emit(p) ==
    /\ p \in send
    /\ send' = send \ {p} /\ owed' = owed \ {p}
    /\ UNCHANGED <<bound, senders, inbox, lease>>

HostReplies(p) ==
    /\ p \in senders /\ inbox' = inbox \cup {p}
    /\ UNCHANGED <<bound, senders, send, owed, lease>>

Next == GiveDatagram \/ GiveDhcp \/ Take \/ \E p \in PORTS : Emit(p) \/ HostReplies(p)

-----------------------------------------------------------------------------
\* A reply taken off a host socket stays with the flow until smoltcp sends it on, though its
\* port's host socket went idle or failed meanwhile (pump_udp).
RepliesKept == owed = send

\* A flow without a host socket goes, whether its sockets could not be opened, its datagram
\* was dropped by smoltcp or its senders went idle (pump_udp, wake_after).
DeadFlowGoes == bound /\ senders = {} ~> ~bound \/ senders # {}

\* A flow lasts as long as its replies need it and no longer.
FlowSound == []RepliesKept /\ DeadFlowGoes
=============================================================================
