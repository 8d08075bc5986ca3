------------------------------ MODULE Incoming ------------------------------
(* How a host process reaches a guest port (vsock/host.rs): over the socket  *)
(* of the prefix with the line CONNECT <port> ahead of its bytes, which may  *)
(* arrive in pieces (Sockets), or over a socket bound for the port (Named).  *)
(* A byte is a string of one letter; the word CONNECT and the blank behind   *)
(* it is "c", the newline "n", and a port is its digits.                     *)
EXTENDS Integers, Sequences, SequencesExt, FiniteSets, FiniteSetsExt

CONSTANTS
    DIALERS,      \* host processes, each connects once
    SPEECH,       \* what each of them sends, a sequence of bytes
    LISTENED,     \* bound: the listeners of Named, in their order, a sequence
    ARRIVALS,     \* connections held half way through their line
    LINE          \* longest line

VARIABLES
    endpoint,     \* sockets or named
    dials,        \* the listener of Named each process connects to, 1..Len(PORTS)
    spoken,       \* bytes each has sent
    hung,         \* processes that closed their end
    backlog,      \* connections nobody accepted, in order
    arriving,     \* Sockets::arriving, in order
    dialLines,    \* what was read of each
    handed,       \* [peer, port] given to the device
    droppedPeers  \* connections dropped

incomingVars == <<endpoint, dials, spoken, hung, backlog, arriving, dialLines, handed, droppedPeers>>

DIGITS == {"1", "2"}

Init ==
    /\ endpoint \in {"sockets", "named"}
    /\ dials \in [DIALERS -> DOMAIN LISTENED]
    /\ endpoint = "sockets" => \A p \in DIALERS : dials[p] = 1
    /\ spoken = [p \in DIALERS |-> 0] /\ hung = {} /\ backlog = <<>> /\ arriving = <<>>
    /\ dialLines = [p \in DIALERS |-> <<>>] /\ handed = <<>> /\ droppedPeers = {}

\* What a process sends on a socket of Named, or once handed over, is the guest's, and not
\* followed.
Speaking == ToSet(backlog) \union ToSet(arriving)
Settled == {handed[i].peer : i \in DOMAIN handed} \union droppedPeers
Dial(p) ==
    /\ p \notin Speaking \union Settled
    /\ backlog' = Append(backlog, p)
    /\ UNCHANGED <<endpoint, dials, spoken, hung, arriving, dialLines, handed, droppedPeers>>
\* A line comes whole or in two pieces.
Speak(p) ==
    /\ endpoint = "sockets" /\ p \in Speaking \ hung
    /\ \E n \in {2, Len(SPEECH[p])} : n > spoken[p] /\ spoken' = [spoken EXCEPT ![p] = n]
    /\ UNCHANGED <<endpoint, dials, hung, backlog, arriving, dialLines, handed, droppedPeers>>
Hang(p) ==
    /\ endpoint = "sockets" /\ p \in Speaking \ hung
    /\ hung' = hung \union {p}
    /\ UNCHANGED <<endpoint, dials, spoken, backlog, arriving, dialLines, handed, droppedPeers>>

\* fill: one byte at a time up to the newline, LINE, or the end of what is there.
Ended(line) == (line # <<>> /\ Last(line) = "n") \/ Len(line) >= LINE
There(p) == SubSeq(SPEECH[p], Len(dialLines[p]) + 1, spoken[p])
Fill(p) ==
    LET stops == {n \in 1..Len(There(p)) : Ended(dialLines[p] \o SubSeq(There(p), 1, n))}
    IN  dialLines[p] \o SubSeq(There(p), 1, IF stops = {} THEN Len(There(p)) ELSE Min(stops))

\* port_named: the first word is CONNECT, the second a number.
NoPort == <<>>
PortNamed(line) ==
    LET words == IF line # <<>> /\ Last(line) = "n" THEN Front(line) ELSE line
    IN  IF words # <<>> /\ Head(words) = "c" /\ Tail(words) # <<>>
           /\ \A i \in DOMAIN Tail(words) : Tail(words)[i] \in DIGITS
        THEN Tail(words) ELSE NoPort

\* admit: at most ARRIVALS are accepted, an accept that fails ends the loop, a stream that
\* cannot be set nonblocking is dropped.
Admitted(count, lost) == arriving \o SelectSeq(SubSeq(backlog, 1, count), LAMBDA p : p \notin lost)

\* The oldest held make room.
Over(all) == IF Len(all) > ARRIVALS THEN Len(all) - ARRIVALS ELSE 0

\* spoken: the first with a complete line that names a port is given to the device; ahead of
\* it lines are filled, and those that ended without a port are dropped.
IncomingSockets ==
    /\ endpoint = "sockets"
    /\ \E filled \in {[p \in DIALERS |-> Fill(p)]}, count \in 0..Len(backlog) :
       \E lost \in {{}} \union {{backlog[i]} : i \in 1..count} :
          LET all == Admitted(count, lost)
              held == SubSeq(all, Over(all) + 1, Len(all))
              done == {i \in DOMAIN held : Ended(filled[held[i]]) \/ held[i] \in hung}
              speaks == {i \in done : PortNamed(filled[held[i]]) # NoPort}
              looked == 1..(IF speaks = {} THEN Len(held) ELSE Min(speaks))
              first == {held[i] : i \in looked \intersect speaks}
              out == {held[i] : i \in looked \intersect done}
          IN  /\ count - Cardinality(lost) <= ARRIVALS
              /\ dialLines' = [p \in DIALERS |-> IF \E i \in looked : held[i] = p THEN filled[p] ELSE dialLines[p]]
              /\ arriving' = SelectSeq(held, LAMBDA p : p \notin out)
              /\ handed' = handed \o SetToSeq({[peer |-> p, port |-> PortNamed(filled[p])] : p \in first})
              /\ droppedPeers' = droppedPeers \union lost \union {all[i] : i \in 1..Over(all)} \union (out \ first)
              /\ backlog' = SubSeq(backlog, count + 1, Len(backlog))
    /\ UNCHANGED <<endpoint, dials, spoken, hung>>

\* Named::incoming: the listeners in the order bound, up to the first that gives a connection.
\* One that cannot be set nonblocking is dropped, an accept may fail, and the next is looked at.
Waiting(n) == SelectSeq(backlog, LAMBDA p : dials[p] = n)
IncomingNamed ==
    /\ endpoint = "named"
    /\ \E n \in {m \in DOMAIN LISTENED : Waiting(m) # <<>>} :
       \E lost \in SUBSET {m \in 1..(n - 1) : Waiting(m) # <<>>} :
          LET p == Head(Waiting(n))
              gone == {Head(Waiting(m)) : m \in lost}
          IN  /\ handed' = Append(handed, [peer |-> p, port |-> LISTENED[n]])
              /\ droppedPeers' = droppedPeers \union gone
              /\ backlog' = SelectSeq(backlog, LAMBDA q : q # p /\ q \notin gone)
    /\ UNCHANGED <<endpoint, dials, spoken, hung, arriving, dialLines>>

Next ==
    \/ \E p \in DIALERS : Dial(p) \/ Speak(p) \/ Hang(p)
    \/ IncomingSockets \/ IncomingNamed

-----------------------------------------------------------------------------
Given(p) == {i \in DOMAIN handed : handed[i].peer = p}

\* A connection is in one place: it waits, speaks its line, was handed over or was dropped, and
\* no more than ARRIVALS are held (admit, spoken).
OnePlace ==
    /\ Len(arriving) <= ARRIVALS
    /\ \A p \in DIALERS :
          Cardinality({i \in DOMAIN backlog : backlog[i] = p}) + Cardinality({i \in DOMAIN arriving : arriving[i] = p})
          + Cardinality(Given(p)) + (IF p \in droppedPeers THEN 1 ELSE 0) <= 1

\* The line is all that is read off a stream: bytes behind the newline are left for the guest,
\* however the line was cut into pieces (fill), and the connection goes to the port the line,
\* or the socket, named.
StreamFromLine ==
    \A p \in DIALERS :
        /\ dialLines[p] = SubSeq(SPEECH[p], 1, Len(dialLines[p])) /\ Len(dialLines[p]) <= spoken[p]
        /\ \A k \in 1..(Len(dialLines[p]) - 1) : dialLines[p][k] # "n"
        /\ \A i \in Given(p) :
              IF endpoint = "named" THEN dialLines[p] = <<>> /\ handed[i].port = LISTENED[dials[p]]
              ELSE /\ handed[i].port = PortNamed(dialLines[p])
                   /\ Ended(dialLines[p]) \/ (p \in hung /\ Len(dialLines[p]) = spoken[p])

IncomingSound == OnePlace /\ StreamFromLine
=============================================================================
