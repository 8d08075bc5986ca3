-------------------------------- MODULE Net --------------------------------
(***************************************************************************)
(* virtio-net over a stream socket (devices/virtio/net: device.rs,         *)
(* carrier.rs, frame.rs, pcap.rs) and the rounds the device thread serves  *)
(* it in: the two rings, the frame in transfer each way, the capture file, *)
(* a guest that posts at any moment and a host that reads and writes in    *)
(* pieces.  A frame is its length prefix and `body` pieces behind it.      *)
(***************************************************************************)
EXTENDS Naturals, Sequences, FiniteSets

LOCAL INSTANCE SequencesExt

CONSTANTS
    EVENTS,     \* frames the two sides send and buffers on offer, at most
    BODIES,     \* lengths of a frame, 0 being one `length` refuses, and of a buffer
    SOCKET      \* pieces the socket takes before a write would block, one less than a frame of the guest

VARIABLES
    txRing,     \* chains the guest has posted
    posted,     \* all of them so far
    given,      \* frames the carrier took from the ring
    leaving,    \* pieces of the last one not yet written
    stream,     \* pieces the host has been written
    space,      \* pieces the socket still takes
    hostSent,   \* frames the host has begun
    inbound,    \* pieces in the socket towards the guest
    arriving,   \* pieces of the frame being read
    held,       \* frame waiting for a receive buffer, a sequence of at most one
    rxRing,     \* lengths of the receive buffers on offer
    offered,    \* how many so far
    taken,      \* frames read from the carrier
    received,   \* frames written to a buffer or dropped, in order
    kicked,     \* rings whose ioeventfd is signalled
    serving,    \* rings left to serve in this round
    inLoop,     \* send is past resume
    idle,       \* a descriptor started this round and nothing has moved since
    refused,    \* DEVICE_NEEDS_RESET
    hangup,     \* the host has closed its end
    capture,    \* records of the pcap file
    broken      \* a write to it failed

tx == <<txRing, posted, given, leaving, stream, space>>
rx == <<hostSent, inbound, arriving, held, rxRing, offered, taken, received>>
round == <<kicked, serving, inLoop, idle>>
vars == <<tx, rx, round, refused, hangup, capture, broken>>

RX == 0
TX == 1

\* frame_from: a chain without a whole header, one the device refuses, or a frame.
Kinds == {"short", "offload", "frame"}

Init ==
    /\ txRing = <<>> /\ posted = <<>> /\ given = <<>> /\ leaving = <<>> /\ stream = <<>> /\ space = SOCKET
    /\ hostSent = <<>> /\ inbound = <<>> /\ arriving = <<>> /\ held = <<>>
    /\ rxRing = <<>> /\ offered = 0 /\ taken = <<>> /\ received = <<>>
    /\ kicked = {} /\ serving = <<>> /\ inLoop = FALSE /\ idle = FALSE
    /\ refused = FALSE /\ hangup = FALSE /\ capture = <<>> /\ broken = FALSE

Pieces(frame) == [i \in 1..(frame.body + 1) |-> [id |-> frame.id, at |-> i - 1, body |-> frame.body]]
Least(a, b) == IF a < b THEN a ELSE b
First(s, n) == SubSeq(s, 1, n)
After(s, n) == SubSeq(s, n + 1, Len(s))

-----------------------------------------------------------------------------
(* The device thread: which rings a wait comes back with.                  *)

\* outside: no read while a frame waits for a buffer.
WantsRead == held = <<>>

Readable == inbound # <<>> \/ hangup
Writable == space > 0 \/ hangup

\* Mutant: the thread does not wait for room in the socket.
NeverWrites == FALSE

\* outside: a write is waited for while a frame is on its way out.
WantsWrite == leaving # <<>>

HostReady == (WantsRead /\ Readable) \/ (WantsWrite /\ Writable)

Sorted(rings) == SelectSeq(<<RX, TX>>, LAMBDA r : r \in rings)

Poll ==
    /\ serving = <<>> /\ (kicked # {} \/ HostReady)
    /\ serving' = Sorted(kicked) \o IF HostReady THEN <<RX, TX>> ELSE <<>>
    /\ kicked' = {} /\ inLoop' = FALSE /\ idle' = (kicked = {})
    /\ UNCHANGED <<tx, rx, refused, hangup, capture, broken>>

\* The ring at the head of the round is served.
Done == serving' = Tail(serving) /\ inLoop' = FALSE
Serves(ring) == serving # <<>> /\ Head(serving) = ring

\* Mutant: after a short write the whole frame is written again.
PushAgain(left) ==
    LET n == Least(Len(left), space)
    IN  /\ stream' = stream \o First(left, n)
        /\ leaving' = IF n < Len(left) THEN left ELSE <<>>
        /\ space' = space - n /\ idle' = (idle /\ n = 0)

\* Pieces of left that the socket takes now.
Push(left) ==
    LET n == Least(Len(left), space)
    IN  /\ stream' = stream \o First(left, n)
        /\ leaving' = After(left, n) /\ space' = space - n
        /\ idle' = (idle /\ n = 0)

\* Captured: a frame that passed is one record, until a write fails.
Record(way, frame) ==
    \/ capture' = (IF broken THEN capture ELSE Append(capture, <<way, frame.id>>)) /\ UNCHANGED broken
    \/ broken' = TRUE /\ UNCHANGED capture

-----------------------------------------------------------------------------
(* Net::send.                                                              *)

HeadIs(kind) == txRing # <<>> /\ Head(txRing).kind = kind

\* The rest of the last frame goes out first.
SendResumes ==
    /\ Serves(TX) /\ ~inLoop
    /\ ~(hangup /\ leaving # <<>>)
    /\ Push(leaving)
    /\ IF leaving' = <<>> THEN inLoop' = TRUE /\ UNCHANGED serving ELSE Done
    /\ UNCHANGED <<txRing, posted, given, rx, kicked, refused, hangup, capture, broken>>

\* Framed::give takes no frame while one is going out.
Takes == leaving = <<>>

SendFrame ==
    /\ Serves(TX) /\ inLoop /\ HeadIs("frame")
    /\ Takes /\ ~hangup
    /\ txRing' = Tail(txRing) /\ given' = Append(given, Head(txRing))
    /\ Push(leaving \o Pieces(Head(txRing)))
    /\ Record(TX, Head(txRing))
    /\ UNCHANGED <<posted, rx, kicked, serving, inLoop, refused, hangup>>

\* The ring is empty, or its next frame is put back.
SendEnds ==
    /\ Serves(TX) /\ inLoop
    /\ txRing = <<>> \/ (HeadIs("frame") /\ ~Takes)
    /\ Done
    /\ UNCHANGED <<tx, rx, kicked, idle, refused, hangup, capture, broken>>

\* A chain too short for a header is reported used.
SendShort ==
    /\ Serves(TX) /\ inLoop /\ HeadIs("short")
    /\ txRing' = Tail(txRing)
    /\ UNCHANGED <<posted, given, leaving, stream, space, rx, round, refused, hangup, capture, broken>>

\* A header that asks for an offload, or a write the host end refuses.
SendRefused ==
    /\ Serves(TX) /\ refused' = TRUE /\ Done
    /\ \/ inLoop /\ HeadIs("offload") /\ txRing' = Tail(txRing)
       \/ ~inLoop /\ hangup /\ leaving # <<>> /\ UNCHANGED txRing
       \/ /\ inLoop /\ hangup /\ leaving = <<>> /\ HeadIs("frame")
          /\ txRing' = Tail(txRing)
    /\ UNCHANGED <<posted, given, leaving, stream, space, rx, kicked, idle, hangup, capture, broken>>

-----------------------------------------------------------------------------
(* Net::receive.                                                           *)

\* Pieces a take reads: the prefix, then the frame it names, as far as they arrived.
Pulled ==
    LET all == arriving \o inbound
    IN  IF all = <<>> THEN 0 ELSE Least(Len(all), all[1].body + 1) - Len(arriving)

Whole(pieces) == pieces # <<>> /\ pieces[1].body > 0 /\ Len(pieces) = pieces[1].body + 1

\* Only one frame waits for a buffer.
MayTake == held = <<>>

TakeFrame ==
    /\ Serves(RX) /\ MayTake
    /\ LET n == Pulled  now == arriving \o First(inbound, n)
       IN  /\ inbound' = After(inbound, n) /\ idle' = (idle /\ n = 0)
           /\ \/ /\ Whole(now)
                 /\ held' = <<[id |-> now[1].id, body |-> now[1].body]>> /\ arriving' = <<>>
                 /\ taken' = Append(taken, held'[1]) /\ Record(RX, held'[1])
                 /\ UNCHANGED <<serving, inLoop, refused>>
              \/ /\ ~Whole(now)
                 /\ arriving' = now /\ Done
                 /\ refused' = (refused \/ (now # <<>> /\ now[1].body = 0) \/ (hangup /\ inbound' = <<>>))
                 /\ UNCHANGED <<held, taken, capture, broken>>
    /\ UNCHANGED <<tx, hostSent, rxRing, offered, received, kicked, hangup>>

\* frame_into: a chain with room for the header and the frame.
Fits(buffer, frame) == buffer >= frame.body

\* A buffer too small for the frame goes back, and the frame is dropped.
PlaceFrame ==
    /\ Serves(RX) /\ held # <<>> /\ rxRing # <<>>
    /\ received' = Append(received, [id |-> held[1].id])
    /\ rxRing' = IF Fits(Head(rxRing), held[1]) THEN Tail(rxRing) ELSE rxRing
    /\ held' = <<>>
    /\ UNCHANGED <<tx, hostSent, inbound, arriving, offered, taken, round, refused, hangup, capture, broken>>

ReceiveEnds ==
    /\ Serves(RX) /\ held # <<>> /\ rxRing = <<>>
    /\ Done
    /\ UNCHANGED <<tx, rx, kicked, idle, refused, hangup, capture, broken>>

-----------------------------------------------------------------------------
(* The guest and the host end.                                             *)

MoreEvents == Len(posted) + Len(hostSent) + offered < EVENTS

GuestPosts ==
    /\ MoreEvents
    /\ \E kind \in Kinds :
        posted' = Append(posted, [id |-> Len(posted) + 1, kind |-> kind, body |-> SOCKET])
    /\ txRing' = Append(txRing, posted'[Len(posted')])
    /\ kicked' = kicked \cup {TX}
    /\ UNCHANGED <<given, leaving, stream, space, rx, serving, inLoop, idle, refused, hangup, capture, broken>>

GuestOffers ==
    /\ MoreEvents /\ offered' = offered + 1
    /\ \E len \in BODIES : rxRing' = Append(rxRing, len)
    /\ kicked' = kicked \cup {RX}
    /\ UNCHANGED <<tx, hostSent, inbound, arriving, held, taken, received, serving, inLoop, idle, refused, hangup, capture, broken>>

\* The host writes a frame, in two parts or in one.
HostBegins ==
    /\ ~hangup /\ MoreEvents
    /\ \A i \in DOMAIN hostSent : hostSent[i].left = <<>>
    /\ \E body \in BODIES :
        LET p == Pieces([id |-> Len(hostSent) + 1, body |-> body])
        IN \E n \in 1..Len(p) :
            /\ hostSent' = Append(hostSent, [id |-> Len(hostSent) + 1, left |-> After(p, n)])
            /\ inbound' = inbound \o First(p, n)
    /\ UNCHANGED <<tx, arriving, held, rxRing, offered, taken, received, round, refused, hangup, capture, broken>>

HostFinishes ==
    /\ ~hangup /\ hostSent # <<>> /\ hostSent[Len(hostSent)].left # <<>>
    /\ inbound' = inbound \o hostSent[Len(hostSent)].left
    /\ hostSent' = [hostSent EXCEPT ![Len(hostSent)].left = <<>>]
    /\ UNCHANGED <<tx, arriving, held, rxRing, offered, taken, received, round, refused, hangup, capture, broken>>

HostReads ==
    /\ ~hangup /\ space < SOCKET /\ space' = SOCKET
    /\ UNCHANGED <<txRing, posted, given, leaving, stream, rx, round, refused, hangup, capture, broken>>

HostCloses ==
    /\ ~hangup /\ hangup' = TRUE
    /\ UNCHANGED <<tx, rx, round, refused, capture, broken>>

Thread ==
    \/ Poll \/ SendResumes \/ SendFrame \/ SendEnds \/ SendShort \/ SendRefused
    \/ TakeFrame \/ PlaceFrame \/ ReceiveEnds
Outside == GuestPosts \/ GuestOffers \/ HostBegins \/ HostFinishes \/ HostReads \/ HostCloses
Next == Thread \/ Outside

-----------------------------------------------------------------------------
\* What the host has read plus what is still going out are the frames taken from the ring,
\* one whole frame after the other, and the rest of the ring is behind them (give, resume).
HostSeesWholeFrames ==
    /\ stream \o leaving = FlattenSeq([i \in DOMAIN given |-> Pieces(given[i])])
    /\ ~refused => SelectSeq(posted, LAMBDA f : f.kind = "frame")
                    = given \o SelectSeq(txRing, LAMBDA f : f.kind = "frame")

\* Frames of the host reach the guest in their order, and none is lost but for want of a
\* large enough buffer: those read are those placed and the one that waits (receive).
GuestSeesFrames ==
    /\ [i \in DOMAIN taken |-> taken[i].id] = [i \in DOMAIN taken |-> i]
    /\ [i \in DOMAIN taken |-> taken[i].id]
        = [i \in DOMAIN received |-> received[i].id] \o [i \in DOMAIN held |-> held[i].id]

\* A round the host's descriptor started moves something: the thread does not spin on a
\* descriptor that stays ready, as long as the link is good (outside).
NoIdleRound == serving = <<>> /\ idle => refused \/ hangup

\* The capture file has a record for each frame that passed and for no other, in the order
\* of each direction, up to the first write that failed (Captured).
CaptureIsTrue ==
    LET way(w) == SelectSeq(capture, LAMBDA r : r[1] = w)
        ids(frames, w) == [i \in DOMAIN frames |-> <<w, frames[i].id>>]
    IN  /\ IsPrefix(way(TX), ids(given, TX)) /\ IsPrefix(way(RX), ids(taken, RX))
        /\ ~broken => Len(capture) = Len(given) + Len(taken)

\* A posted frame leaves the ring if the host goes on reading, and a frame that waits is
\* placed once the guest offers a buffer: no wake-up is lost (notify, resume, outside).
NothingStuck ==
    /\ txRing # <<>> ~> txRing = <<>> \/ hangup \/ refused
    /\ held # <<>> /\ rxRing # <<>> ~> held = <<>> \/ refused

\* Frames are whole, in order and recorded as they passed, both ways.
FramesIntact == HostSeesWholeFrames /\ GuestSeesFrames /\ CaptureIsTrue

\* The device thread wakes for all that can move and for nothing else.
RoundsMove == []NoIdleRound /\ NothingStuck
=============================================================================
