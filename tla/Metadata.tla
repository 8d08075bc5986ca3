------------------------------ MODULE Metadata -----------------------------
(* The metadata service of a guest (devices/virtio/net/metadata.rs): a     *)
(* carrier wrapped around another, with a few TCP connections of smoltcp,  *)
(* tokens that expire, and replies to ARP in the guest's place.  `give`    *)
(* polls at once, so the requests of a frame are answered in its step;     *)
(* only the connection the frame is for has anything new.  `given` is all  *)
(* tokens ever issued, `last` the answer to the last read, `near` the neighbours       *)
(* smoltcp knows.                                                          *)
EXTENDS Integers, Sequences, FiniteSets

CONSTANTS
    SOCKETS,      \* connections of the service (CONNECTIONS)
    PEERS,        \* peers kept
    TOKENS,       \* tokens kept
    ADDRESSES,    \* addresses of the guest
    ISSUES,       \* bound: tokens ever issued
    TIME          \* bound: seconds that pass

VARIABLES sock, issued, peers, nearby, replies, inner, elapsed, given, last

vars == <<sock, issued, peers, nearby, replies, inner, elapsed, given, last>>

Idle == [phase |-> "listen", peer |-> 0, part |-> FALSE, answers |-> 0]
None == [status |-> 0, token |-> 0, at |-> 0, issued |-> 0]

Init ==
    /\ sock = [s \in SOCKETS |-> Idle]
    /\ issued = << >>
    /\ peers = << >>
    /\ nearby = {}
    /\ replies = << >>
    /\ inner = 0
    /\ elapsed = 0
    /\ given = << >>
    /\ last = None

\* A frame for another address goes to the link as it is.
ForService(frame) == frame # "other"

Pass ==
    /\ ~ForService("other")
    /\ inner = 0
    /\ inner' = 1
    /\ UNCHANGED <<sock, issued, peers, nearby, replies, elapsed, given, last>>

\* The newest peer is last, the oldest goes past PEERS.
Bounded(seq, limit) == IF Len(seq) > limit THEN Tail(seq) ELSE seq

Remembered(a) == Bounded(Append(SelectSeq(peers, LAMBDA p : p # a), a), PEERS)

\* What smoltcp sends to `a`: the frame if it knows the neighbour, else it asks for it.
Sent(a, frame) == IF a \in nearby THEN <<frame>> ELSE <<[kind |-> "arp", peer |-> a]>>

\* The questions for peers that are remembered are answered here, not by the guest, and the
\* second poll sends what waited for the answer.
AnswerArp(a, frame, known) ==
    IF a \in nearby \/ a \notin known THEN Sent(a, frame) ELSE <<frame>>

\* The peers answered for are neighbours from then on.
Known(seq) == {seq[i] : i \in DOMAIN seq}

\* A poll that has `frame` for peer `a`.
Polled(a, frame) ==
    /\ replies' = replies \o AnswerArp(a, frame, Known(peers'))
    /\ nearby' = nearby \cup ({a} \cap Known(peers'))

Whole(s) == [kind |-> "answer", peer |-> sock[s].peer]

\* A connection is opened on a listening socket.
Connect(a, s) ==
    /\ sock[s].phase = "listen"
    /\ peers' = Remembered(a)
    /\ sock' = [sock EXCEPT ![s] = [Idle EXCEPT !.phase = "open", !.peer = a]]
    /\ Polled(a, [kind |-> "ack", peer |-> a])
    /\ UNCHANGED <<issued, inner, elapsed, given, last>>

\* Part of a request waits for the rest.
SendPart(s) ==
    /\ sock[s].phase = "open" /\ ~sock[s].part
    /\ sock' = [sock EXCEPT ![s].part = TRUE]
    /\ peers' = Remembered(sock[s].peer)
    /\ UNCHANGED <<issued, nearby, replies, inner, elapsed, given, last>>

Requests ==
    {[verb |-> v, token |-> 0, ttl |-> 0] : v \in {"put", "long", "other"}}
    \cup {[verb |-> "token", token |-> 0, ttl |-> t] : t \in {0, 1, 2}}
    \cup {[verb |-> v, token |-> t, ttl |-> 0] : v \in {"get", "deeper"}, t \in 0 .. ISSUES}

\* Mutant: a token in its last moment counts as alive.
FreshOrNot == SelectSeq(issued, LAMBDA t : t.until >= elapsed)

\* The tokens that have not expired.
Fresh == SelectSeq(issued, LAMBDA t : t.until > elapsed)

Valid(token) == \E i \in DOMAIN Fresh : Fresh[i].id = token

Issue(ttl) == Bounded(Append(issued, [id |-> Len(given) + 1, until |-> elapsed + ttl]), TOKENS)

Status(req) ==
    CASE req.verb = "long" -> {400}
      [] req.verb = "token" -> IF req.ttl = 0 THEN {400} ELSE {200, 500}
      [] req.verb = "put" -> {404}
      [] req.verb \in {"get", "deeper"} ->
            IF ~Valid(req.token) THEN {401} ELSE IF req.verb = "get" THEN {200} ELSE {404}
      [] OTHER -> {405}

\* answer_to: a token is issued, if the host has random bytes; a read drops what expired.
AnswerTo(req, status) ==
    LET granted == req.verb = "token" /\ status = 200
    IN /\ issued' = IF granted THEN Issue(req.ttl)
                    ELSE IF req.verb \in {"get", "deeper"} THEN Fresh ELSE issued
       /\ given' = IF granted THEN Append(given, elapsed + req.ttl) ELSE given
       /\ last' = IF req.verb # "get" THEN None
                  ELSE [status |-> status, token |-> req.token, at |-> elapsed, issued |-> Len(given)]

\* A connection that may still send: it is answered once, and closed.
MayAnswer(s) == sock[s].phase = "open"

SendRequest(s, req) ==
    /\ MayAnswer(s)
    /\ req.token <= Len(given)
    /\ req.verb = "token" => Len(given) < ISSUES
    /\ peers' = Remembered(sock[s].peer)
    /\ \E status \in Status(req) : AnswerTo(req, status)
    /\ sock' = [sock EXCEPT ![s].phase = "answered", ![s].part = FALSE, ![s].answers = @ + 1]
    /\ Polled(sock[s].peer, Whole(s))
    /\ UNCHANGED <<inner, elapsed>>

\* The guest ends its side: an answered connection is over and listens again in the same
\* poll, another waits for its deadline.
ListenAgain(s) == IF sock[s].phase = "answered" THEN Idle ELSE [sock[s] EXCEPT !.phase = "half"]

Finish(s) ==
    /\ sock[s].phase \in {"open", "answered"}
    /\ peers' = Remembered(sock[s].peer)
    /\ sock' = [sock EXCEPT ![s] = ListenAgain(s)]
    /\ UNCHANGED <<issued, nearby, replies, inner, elapsed, given, last>>

\* The deadline of a connection that nobody uses: `take` polls, it is reset and listens.
TimeOut(s) ==
    /\ sock[s].phase # "listen"
    /\ sock' = [sock EXCEPT ![s] = Idle]
    /\ UNCHANGED <<issued, peers, nearby, replies, inner, elapsed, given, last>>

\* The frames of the service are given to the guest before those of the link.
Take ==
    /\ \/ replies # << >> /\ replies' = Tail(replies) /\ UNCHANGED inner
       \/ replies = << >> /\ inner = 1 /\ inner' = 0 /\ UNCHANGED replies
    /\ UNCHANGED <<sock, issued, peers, nearby, elapsed, given, last>>

\* smoltcp forgets its neighbours in time.
ForgetNear ==
    /\ nearby # {}
    /\ nearby' = {}
    /\ UNCHANGED <<sock, issued, peers, replies, inner, elapsed, given, last>>

Tick ==
    /\ elapsed < TIME
    /\ elapsed' = elapsed + 1
    /\ UNCHANGED <<sock, issued, peers, nearby, replies, inner, given, last>>

\* A guest that waits for what it asked for.
Give(s) ==
    /\ replies = << >>
    /\ \/ \E a \in ADDRESSES : Connect(a, s)
       \/ SendPart(s)
       \/ \E req \in Requests : SendRequest(s, req)
       \/ Finish(s)

Next ==
    \/ \E s \in SOCKETS : Give(s) \/ TimeOut(s)
    \/ Pass
    \/ Take
    \/ ForgetNear
    \/ Tick

Spec == Init /\ [][Next]_vars
-----------------------------------------------------------------------------
\* The document is only given for a token that this service issued, that has not expired
\* and that is one of the TOKENS issued last (answer_to, issue).
DocumentGuarded ==
    last.status = 200 =>
        /\ last.token \in DOMAIN given
        /\ given[last.token] > last.at
        /\ last.issued - last.token < TOKENS

\* A token that is still good when it is asked with is never refused.
TokenHonoured ==
    last.status = 401 =>
        ~ /\ last.token \in DOMAIN given
          /\ given[last.token] > last.at
          /\ last.issued - last.token < TOKENS

\* Each connection is answered once, and the guest is not asked for an address the service
\* can tell by itself, so a guest that never answers ARP gets its answer.
AnsweredOnce ==
    /\ \A s \in SOCKETS : sock[s].answers <= 1
    /\ \A i \in DOMAIN replies : replies[i].kind # "arp"

\* The tables stay bounded, and an address is in them once.
TablesBounded ==
    /\ Len(issued) <= TOKENS
    /\ Len(peers) <= PEERS
    /\ Cardinality(Known(peers)) = Len(peers)

\* The service is sound: its tokens, its answers and its tables.
ServiceSound == DocumentGuarded /\ TokenHonoured /\ AnsweredOnce /\ TablesBounded
=============================================================================
