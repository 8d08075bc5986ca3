------------------------------- MODULE Sink -------------------------------
(* The console of a sandbox (lingcage sandbox/console.rs): what the guest    *)
(* writes goes into a ring of the last bytes, then to the taps.  Ring and    *)
(* taps have a lock each, so a reader may come between the two.              *)
EXTENDS Integers, Sequences, SequencesExt

CONSTANTS
    OUTPUT_BOUND,   \* bytes the ring keeps
    TAP_WRITES,     \* writes a tap buffers
    TAPS,           \* taps that may subscribe
    WRITES,         \* lengths a write may have
    OUTPUT          \* bound: bytes written

VARIABLES
    output,      \* bytes the guest wrote, numbered from 1
    ring,        \* Shared::ring
    taps,        \* Shared::taps, the senders in order
    buffered,    \* writes in the channel of each tap
    tapped,      \* what each tap received, as one stream
    since,       \* first byte each tap is promised, 0 before it subscribed
    missed,      \* taps that were full at a write
    closedTaps,  \* taps whose receiver is gone
    between      \* the write between ring and taps, <<>> for none

sinkVars == <<output, ring, taps, buffered, tapped, since, missed, closedTaps, between>>

Init ==
    /\ output = 0 /\ ring = <<>> /\ taps = <<>> /\ buffered = [t \in TAPS |-> <<>>]
    /\ tapped = [t \in TAPS |-> <<>>] /\ since = [t \in TAPS |-> 0]
    /\ missed = {} /\ closedTaps = {} /\ between = <<>>

LastOf(s, n) == SubSeq(s, IF Len(s) > n THEN Len(s) - n + 1 ELSE 1, Len(s))

\* The oldest bytes make room, and a write longer than the ring leaves its end.
Pushed(bytes) ==
    LET keep == LastOf(bytes, OUTPUT_BOUND)
    IN  LastOf(ring, OUTPUT_BOUND - Len(keep)) \o keep

WriteRing ==
    /\ between = <<>>
    /\ \E n \in WRITES :
        /\ output + n <= OUTPUT
        /\ between' = [i \in 1..n |-> output + i]
        /\ output' = output + n
        /\ ring' = Pushed(between')
    /\ UNCHANGED <<taps, buffered, tapped, since, missed, closedTaps>>

\* A full tap misses the write, a tap whose receiver is gone is let go.
WriteTaps ==
    /\ between # <<>>
    /\ LET Takes(t) == t \notin closedTaps /\ Len(buffered[t]) < TAP_WRITES
       IN  /\ buffered' = [t \in TAPS |-> IF t \in ToSet(taps) /\ Takes(t) THEN Append(buffered[t], between)
                                          ELSE buffered[t]]
           /\ missed' = missed \union {t \in ToSet(taps) \ closedTaps : ~Takes(t)}
    /\ taps' = SelectSeq(taps, LAMBDA t : t \notin closedTaps)
    /\ between' = <<>>
    /\ UNCHANGED <<output, ring, tapped, since, closedTaps>>

\* subscribe: a write between ring and taps reaches the tap as well.
Subscribe(t) ==
    /\ since[t] = 0
    /\ taps' = Append(taps, t)
    /\ since' = [since EXCEPT ![t] = output - Len(between) + 1]
    /\ UNCHANGED <<output, ring, buffered, tapped, missed, closedTaps, between>>

Receive(t) ==
    /\ t \notin closedTaps /\ buffered[t] # <<>>
    /\ tapped' = [tapped EXCEPT ![t] = @ \o Head(buffered[t])]
    /\ buffered' = [buffered EXCEPT ![t] = Tail(@)]
    /\ UNCHANGED <<output, ring, taps, since, missed, closedTaps, between>>

DropTap(t) ==
    /\ since[t] # 0 /\ t \notin closedTaps
    /\ closedTaps' = closedTaps \union {t}
    /\ UNCHANGED <<output, ring, taps, buffered, tapped, since, missed, between>>

Next ==
    \/ WriteRing \/ WriteTaps
    \/ \E t \in TAPS : Subscribe(t) \/ Receive(t) \/ DropTap(t)

-----------------------------------------------------------------------------
\* The ring holds the last bytes of the output, as many as it is bounded to, and no others.
RingIsTail == ring = LastOf([i \in 1..output |-> i], OUTPUT_BOUND)

\* A tap that never fell behind has every byte written since it subscribed, once and in order.
TapIsWhole ==
    \A t \in TAPS \ (missed \union closedTaps) :
        since[t] # 0 => LET upTo == output - Len(between) IN
            tapped[t] \o FlattenSeq(buffered[t]) = [i \in 1..(upTo - since[t] + 1) |-> since[t] + i - 1]

\* The console output of a sandbox is sound: ring and taps.
SinkSound == RingIsTail /\ TapIsWhole
=============================================================================
