------------------------------- MODULE Stack -------------------------------
(***************************************************************************)
(* The network stack behind virtio-net (net/stack/mod.rs, host.rs): guest  *)
(* connections to one destination carried onto host sockets, the table of  *)
(* their smoltcp sockets, whose handles are used again.                    *)
(* smoltcp itself is what the stack sees of it: the state of a socket and  *)
(* how many bytes wait on either side.  A pass of the stack is one step    *)
(* per connection, taken when the device thread has a reason to wake.      *)
(***************************************************************************)
EXTENDS Naturals, FiniteSets

CONSTANTS
    HANDLES,        \* handles of smoltcp sockets
    CONNECTIONS,    \* most TCP connections at the same time
    BYTES,          \* bytes each side of a connection sends
    BUFFER          \* bytes a smoltcp or a host buffer holds

ASSUME StackAssumption == IsFiniteSet(HANDLES) /\ CONNECTIONS \in Nat /\ BUFFER \in Nat

VARIABLES
    conn,       \* per handle: its socket and its Proxy, or Absent
    listening,  \* handles the destination listens on, at most one
    nudged      \* handles whose guest side or timer calls for a pass

stackVars == <<conn, listening, nudged>>

Absent == [tcp |-> "absent"]
Proxies == {h \in HANDLES : conn[h] # Absent}

\* tcp: listen, syn, open, then guest-fin, host-fin or both, and closed or reset.
\* recv and send are what the smoltcp socket holds; hostIn and hostOut the host socket.
Proxy == [tcp |-> "listen", host |-> "trying", connected |-> FALSE,
          toHost |-> 0, toGuest |-> 0, hostClosed |-> FALSE, guestClosed |-> FALSE,
          recv |-> 0, send |-> 0, guestSent |-> 0, guestGot |-> 0,
          hostOut |-> 0, hostSent |-> 0, hostEof |-> FALSE, hostIn |-> 0, hostGot |-> 0]

StackInit ==
    /\ conn = [h \in HANDLES |-> Absent] /\ listening = {} /\ nudged = {}

-----------------------------------------------------------------------------
(* listen_for.                                                             *)

\* The slot smoltcp finds first: which one it is makes no difference.
Any(handles) == CHOOSE h \in handles : TRUE

Slots == HANDLES \ Proxies
Listens == \E h \in listening : conn[h].tcp = "listen"

AtLimit == Cardinality(Proxies) >= CONNECTIONS

\* A listener for the SYN just seen; none past the limit or if the connect fails at once.
MayOpen == {FALSE, ~Listens /\ ~AtLimit /\ Slots # {}}
Opened(opens) == IF opens THEN [conn EXCEPT ![Any(Slots)] = Proxy] ELSE conn
ListenFor(opens) == listening' = IF Listens THEN listening ELSE IF opens THEN {Any(Slots)} ELSE {}

\* A SYN: a socket that listens takes it, without one smoltcp resets it.
GuestSyn ==
    /\ \E opens \in MayOpen :
        LET takes == {h \in HANDLES : Opened(opens)[h].tcp = "listen"}
        IN  /\ ListenFor(opens)
            /\ conn' = [h \in HANDLES |-> IF takes # {} /\ h = Any(takes)
                                          THEN [Opened(opens)[h] EXCEPT !.tcp = "syn"] ELSE Opened(opens)[h]]
    /\ UNCHANGED nudged

\* A SYN sent again goes to the socket that has it, and the stack opens another listener.
GuestSynAgain ==
    /\ \E h \in HANDLES : conn[h].tcp = "syn"
    /\ \E opens \in MayOpen : ListenFor(opens) /\ conn' = Opened(opens)
    /\ UNCHANGED nudged

-----------------------------------------------------------------------------
(* The guest's side of a connection, through smoltcp.                      *)

Established == {"open", "guest-fin", "host-fin", "both"}
MaySend(c) == c.tcp \in {"open", "guest-fin"}
CanSend(c) == MaySend(c) /\ c.send < BUFFER

GuestSide(h, c) ==
    conn' = [conn EXCEPT ![h] = c] /\ nudged' = nudged \cup {h} /\ UNCHANGED listening

GuestAcks(h) == conn[h].tcp = "syn" /\ GuestSide(h, [conn[h] EXCEPT !.tcp = "open"])

GuestSends(h) ==
    /\ conn[h].tcp \in {"open", "host-fin"} /\ conn[h].guestSent < BYTES /\ conn[h].recv < BUFFER
    /\ GuestSide(h, [conn[h] EXCEPT !.guestSent = @ + 1, !.recv = @ + 1])

\* Bytes the guest acknowledges leave the send buffer.
GuestReads(h) ==
    /\ conn[h].tcp \in Established /\ conn[h].send > 0
    /\ GuestSide(h, [conn[h] EXCEPT !.guestGot = @ + conn[h].send, !.send = 0])

GuestFins(h) ==
    /\ conn[h].tcp \in {"open", "host-fin"}
    /\ GuestSide(h, [conn[h] EXCEPT !.tcp = IF @ = "open" THEN "guest-fin" ELSE "both"])

\* The last FIN is acknowledged, which is after the last byte of the send buffer.
TcpCloses(h) ==
    /\ conn[h].tcp = "both" /\ conn[h].send = 0
    /\ GuestSide(h, [conn[h] EXCEPT !.tcp = "closed"])

\* A reset by the guest, or TCP_IDLE without an answer.
TcpResets(h) ==
    /\ conn[h].tcp \in Established \cup {"syn"}
    /\ GuestSide(h, [conn[h] EXCEPT !.tcp = "reset"])

-----------------------------------------------------------------------------
(* The host's side.                                                        *)

HostSide(h, c) == conn' = [conn EXCEPT ![h] = c] /\ UNCHANGED <<listening, nudged>>

HostConnects(h) ==
    /\ conn[h] # Absent /\ conn[h].host = "trying"
    /\ \E how \in {"done", "failed"} : HostSide(h, [conn[h] EXCEPT !.host = how])

HostSends(h) ==
    /\ conn[h] # Absent /\ conn[h].host = "done" /\ ~conn[h].hostEof /\ conn[h].hostSent < BYTES
    /\ HostSide(h, [conn[h] EXCEPT !.hostSent = @ + 1, !.hostOut = @ + 1])

HostFins(h) ==
    /\ conn[h] # Absent /\ conn[h].host = "done" /\ ~conn[h].hostEof
    /\ HostSide(h, [conn[h] EXCEPT !.hostEof = TRUE])

\* The peer resets the connection.
HostBreaks(h) ==
    /\ conn[h] # Absent /\ conn[h].host = "done"
    /\ HostSide(h, [conn[h] EXCEPT !.host = "broken"])

HostReads(h) ==
    /\ conn[h] # Absent /\ conn[h].host = "done" /\ conn[h].hostIn > 0
    /\ HostSide(h, [conn[h] EXCEPT !.hostGot = @ + conn[h].hostIn, !.hostIn = 0])

-----------------------------------------------------------------------------
(* pump: one connection, in the order of the code.                         *)

Least(a, b) == IF a < b THEN a ELSE b

FromGuest(c) == IF c.toHost = 0 THEN [c EXCEPT !.toHost = c.recv, !.recv = 0] ELSE c

ToHost(c) ==
    LET n == Least(c.toHost, BUFFER - c.hostIn)
    IN  [c EXCEPT !.toHost = @ - n, !.hostIn = @ + n]

\* Mutant: the host end is shut as soon as the guest's FIN is seen.
ShutHostEarly(c) == [c EXCEPT !.guestClosed = @ \/ c.tcp \in {"guest-fin", "both"}]

\* Once all bytes of a guest that finished are out, the host end sees EOF.
ShutHost(c) ==
    IF c.tcp \in {"guest-fin", "both"} /\ c.toHost = 0 /\ c.recv = 0
    THEN [c EXCEPT !.guestClosed = TRUE] ELSE c

FromHost(c) ==
    IF c.toGuest > 0 \/ c.hostClosed \/ ~CanSend(c) THEN c
    ELSE IF c.hostOut > 0 THEN [c EXCEPT !.toGuest = c.hostOut, !.hostOut = 0]
    ELSE [c EXCEPT !.hostClosed = c.hostEof]

ToGuest(c) ==
    LET n == IF MaySend(c) THEN Least(c.toGuest, BUFFER - c.send) ELSE 0
    IN  [c EXCEPT !.toGuest = @ - n, !.send = @ + n]

\* FIN goes to the guest after the last byte.
CloseGuest(c) ==
    IF c.hostClosed /\ c.toGuest = 0 /\ MaySend(c)
    THEN [c EXCEPT !.tcp = IF @ = "open" THEN "host-fin" ELSE "both"] ELSE c

\* What a pass makes of a connection, as a set of one.
Carried(c) ==
    LET taken == {FromGuest(d) : d \in {[c EXCEPT !.connected = TRUE]}}
        written == {ToHost(d) : d \in taken}
        shut == {ShutHost(d) : d \in written}
        read == {FromHost(d) : d \in shut}
        fed == {ToGuest(d) : d \in read}
    IN  {CloseGuest(d) : d \in fed}

\* A pass reads or writes the host socket.
Touches(c) == c.toHost + c.recv > 0 \/ (c.toGuest = 0 /\ ~c.hostClosed /\ CanSend(c))

Pumped(c) ==
    IF c.host = "trying" THEN {c}
    ELSE IF c.host = "failed" \/ (c.host = "broken" /\ Touches(c)) THEN {[c EXCEPT !.tcp = "reset"]}
    ELSE Carried(c)

Unlisted(h) == listening \ {h}

\* pump_tcp: a connection whose socket is closed goes with its socket and its listener.
Pump(h) ==
    /\ conn[h] # Absent
    /\ \E c \in Pumped(conn[h]) : LET gone == c.tcp \in {"closed", "reset"} IN
           /\ conn' = [conn EXCEPT ![h] = IF gone THEN Absent ELSE c]
           /\ listening' = IF gone THEN Unlisted(h) ELSE listening
           /\ nudged' = IF c # conn[h] /\ ~gone THEN nudged \cup {h} ELSE nudged \ {h}

\* Mutant: the host is not listened to.
WantsReadNever(c) == FALSE

\* outside: what the device thread waits on for a connection.
WantsRead(c) == c.connected /\ ~c.hostClosed /\ CanSend(c)
WantsWrite(c) == ~c.connected \/ c.toHost > 0
HostReady(c) ==
    \/ WantsRead(c) /\ (c.hostOut > 0 \/ c.hostEof \/ c.host = "broken")
    \/ WantsWrite(c) /\ IF c.connected THEN c.hostIn < BUFFER \/ c.host = "broken" ELSE c.host # "trying"
Woken(h) == conn[h] # Absent /\ (h \in nudged \/ HostReady(conn[h]))

-----------------------------------------------------------------------------
Guest(h) == GuestAcks(h) \/ GuestSends(h) \/ GuestFins(h) \/ TcpResets(h)
Host(h) == HostConnects(h) \/ HostSends(h) \/ HostFins(h) \/ HostBreaks(h)
Tcp == \E h \in HANDLES : Guest(h) \/ GuestReads(h) \/ TcpCloses(h) \/ Host(h) \/ HostReads(h) \/ Pump(h)
StackNext == GuestSyn \/ GuestSynAgain \/ Tcp

StackSpec == StackInit /\ [][StackNext]_stackVars

-----------------------------------------------------------------------------
\* No byte is lost or made up on the way through a connection, in either direction: what one
\* side has sent is with the other side or in exactly one of the buffers between (pump).
BytesConserved ==
    \A h \in Proxies : LET c == conn[h] IN
        /\ c.guestSent = c.recv + c.toHost + c.hostIn + c.hostGot
        /\ c.hostSent = c.hostOut + c.toGuest + c.send + c.guestGot

\* An end of stream comes after the last byte: the host sees the guest's once all of its
\* bytes are out, and the guest the host's once all of them are in the send buffer (pump).
EndIsLast ==
    \A h \in Proxies : LET c == conn[h] IN
        /\ c.guestClosed => c.hostIn + c.hostGot = c.guestSent
        /\ c.tcp \in {"host-fin", "both"} => c.hostEof /\ c.send + c.guestGot = c.hostSent

\* The listener table names a socket that exists, since its handle may be given out again,
\* and no more connections are open than the limit (listen_for, pump_tcp).
TableSound == listening \subseteq Proxies /\ Cardinality(Proxies) <= CONNECTIONS

\* A host socket the device thread waits on is one a pass does something with: the thread
\* does not wake again and again for nothing (outside, pump).
WakesForSomething ==
    \A h \in Proxies : HostReady(conn[h]) => conn[h] \notin Pumped(conn[h]) \/ conn[h].tcp \in {"closed", "reset"}

\* Bytes of the host reach a guest that goes on reading, unless the connection is reset or
\* failed: whatever filled up on the way wakes the stack when it drains (outside, pump).
HostBytesArrive ==
    \A h \in HANDLES : conn[h] # Absent /\ conn[h].tcp \in {"open", "guest-fin"} /\ conn[h].hostOut > 0
        ~> conn[h] = Absent \/ conn[h].hostOut = 0

\* Connections carry every byte once and their ends last, in a sound table.
ConnectionsSound == BytesConserved /\ EndIsLast /\ TableSound

\* The stack wakes for a connection that can move, and for no other.
StackWakes == []WakesForSomething /\ HostBytesArrive
=============================================================================
