------------------------------ MODULE Frames ------------------------------
(* Frames of the protocol between host and guest (lingcage lcp/mod.rs) read  *)
(* under one deadline (deadline.rs): one side writes header and payload, the *)
(* other reads as many bytes as there are, however they were cut.            *)
EXTENDS Integers, Sequences

CONSTANTS
    PAYLOADS,     \* payload lengths of the frames the writer has, in order
    FOREIGN,      \* frames whose length field another program filled in, out of range
    HEADER,       \* bytes of a header
    MAX_PAYLOAD   \* the longest payload a frame carries

VARIABLES
    putting,      \* the frame the writer is at
    wire,         \* bytes on the wire, each <<frame, place>>
    gone,         \* bytes of that frame the writer has put
    shut,         \* the writer closed
    refusedPut,   \* frames `write_to` refused
    late,         \* the deadline passed
    header,       \* bytes of the header read
    payload,      \* bytes of the payload read
    frames,       \* frames read
    readOutcome   \* how reading ended: "none", "truncated", "overfull" or "timeout"

frameVars == <<putting, wire, gone, shut, refusedPut, late, header, payload, frames, readOutcome>>
writerSide == <<putting, gone, shut, refusedPut>>
readerSide == <<header, payload, frames, readOutcome>>

Init ==
    /\ putting = 1 /\ wire = <<>> /\ gone = 0 /\ shut = FALSE /\ refusedPut = {} /\ late = FALSE
    /\ header = <<>> /\ payload = <<>> /\ frames = <<>> /\ readOutcome = "none"

-----------------------------------------------------------------------------
\* write_to: a frame too long to be read back is refused before its first byte.
Put ==
    /\ ~shut /\ putting <= Len(PAYLOADS)
    /\ IF PAYLOADS[putting] > MAX_PAYLOAD /\ putting \notin FOREIGN
       THEN /\ refusedPut' = refusedPut \union {putting} /\ putting' = putting + 1
            /\ UNCHANGED <<gone, wire>>
       ELSE LET whole == HEADER + PAYLOADS[putting] IN
            \E n \in 1..(whole - gone) :
                /\ wire' = wire \o [i \in 1..n |-> <<putting, gone + i>>]
                /\ gone' = (gone + n) % whole
                /\ putting' = IF gone' = 0 THEN putting + 1 ELSE putting
                /\ UNCHANGED refusedPut
    /\ UNCHANGED <<shut, late, readerSide>>

\* The writer goes away, in the middle of a frame or between two.
Shut ==
    /\ ~shut /\ shut' = TRUE
    /\ UNCHANGED <<putting, gone, refusedPut, wire, late, readerSide>>

Deadline ==
    /\ ~late /\ late' = TRUE
    /\ UNCHANGED <<writerSide, wire, readerSide>>

-----------------------------------------------------------------------------
Ends(how) == readOutcome' = how /\ UNCHANGED <<header, payload, frames, wire>>

\* A read before the deadline takes bytes that are there.
Take(n) == SubSeq(wire, 1, n)
Left(n) == SubSeq(wire, n + 1, Len(wire))

InHeader == readOutcome = "none" /\ Len(header) < HEADER
ReadHeader ==
    /\ InHeader /\ ~late
    /\ \E n \in 1..HEADER - Len(header) :
        /\ n <= Len(wire) /\ header' = header \o Take(n) /\ wire' = Left(n)
    /\ UNCHANGED <<payload, frames, readOutcome, writerSide, late>>

\* A signal during the read leaves what was read.
Interrupted ==
    /\ InHeader /\ ~late
    /\ UNCHANGED frameVars

LengthOf(cell) == PAYLOADS[cell[1]]
InRange == header[1][1] \notin FOREIGN /\ LengthOf(header[1]) <= MAX_PAYLOAD

CheckLength ==
    /\ readOutcome = "none" /\ Len(header) = HEADER /\ ~InRange
    /\ Ends("overfull")
    /\ UNCHANGED <<writerSide, late>>

InPayload == readOutcome = "none" /\ Len(header) = HEADER /\ InRange
ReadPayload ==
    /\ InPayload /\ ~late
    /\ \E n \in 1..LengthOf(header[1]) - Len(payload) :
        /\ n <= Len(wire) /\ payload' = payload \o Take(n) /\ wire' = Left(n)
    /\ UNCHANGED <<header, frames, readOutcome, writerSide, late>>

Whole ==
    /\ InPayload /\ Len(payload) = LengthOf(header[1])
    /\ frames' = Append(frames, header \o payload)
    /\ header' = <<>> /\ payload' = <<>>
    /\ UNCHANGED <<readOutcome, wire, writerSide, late>>

Wanting == InHeader \/ (InPayload /\ Len(payload) < LengthOf(header[1]))

\* read returned nothing: the writer is gone.
Truncated ==
    /\ Wanting /\ ~late /\ shut /\ wire = <<>>
    /\ Ends("truncated")
    /\ UNCHANGED <<writerSide, late>>

\* Until::read: no time is left, or it ran out while the read waited.
TimedOut ==
    /\ Wanting /\ late
    /\ Ends("timeout")
    /\ UNCHANGED <<writerSide, late>>

Next ==
    \/ Put \/ Shut \/ Deadline
    \/ ReadHeader \/ Interrupted \/ CheckLength \/ ReadPayload \/ Whole \/ Truncated \/ TimedOut

-----------------------------------------------------------------------------
Sent == SelectSeq([i \in 1..Len(PAYLOADS) |-> i], LAMBDA i : i \notin refusedPut)

\* The k-th frame read is the k-th frame sent, header and payload byte for byte, however the
\* bytes were cut and whatever interrupted the read (write_to, read_from).
FramesWhole ==
    \A k \in DOMAIN frames :
        frames[k] = [p \in 1..(HEADER + PAYLOADS[Sent[k]]) |-> <<Sent[k], p>>]

\* Reading ends for a reason: a connection is cut short only when the writer left one, a length
\* is refused only when another program wrote it, and neither loses a frame that was whole.
EndsForAReason ==
    /\ readOutcome = "overfull" => Sent[Len(frames) + 1] \in FOREIGN
    /\ readOutcome = "truncated" => shut /\ Len(header) + Len(payload) = gone

\* Framing is sound: frames and ends.
FramingSound == FramesWhole /\ EndsForAReason
=============================================================================
