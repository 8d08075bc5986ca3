------------------------------- MODULE Serial ------------------------------
(* The 16550 of the guest's console (devices/serial.rs) with the interrupt *)
(* handler of the guest and a host that types.  Each access holds the lock *)
(* of the device, so an access is a step and the host comes between any    *)
(* two.  `pulse` is the edge the interrupt controller holds for the guest, *)
(* `typed` counts what was queued and `got` what the guest has read.       *)
EXTENDS Integers, Sequences, FiniteSets

CONSTANTS
    INPUT_BOUND,  \* bytes of input queued at most
    TYPED,        \* bound: bytes the host types
    SENT          \* bound: bytes the guest transmits

VARIABLES ier, latched, divisor, asking, input, out, pulse, uartAt, typedIn, got, transmitted

vars == <<ier, latched, divisor, asking, input, out, pulse, uartAt, typedIn, got, transmitted>>

regs == <<ier, latched, divisor>>
guest == <<typedIn, got, transmitted>>

Init ==
    /\ ier = {}
    /\ latched = FALSE
    /\ divisor = [hi |-> 0, lo |-> 12]
    /\ asking = {}
    /\ input = << >>
    /\ out = << >>
    /\ pulse = FALSE
    /\ uartAt = "idle"
    /\ typedIn = 0
    /\ got = << >>
    /\ transmitted = 0

\* The line is raised for a reason that is enabled and not pending yet.
AskForAttention(reasons, pending) ==
    /\ asking' = pending \cup reasons
    /\ pulse' = (pulse \/ ~(reasons \subseteq pending))

AskAboutTransmit(enabled) == enabled \cap {"out"}
AskAboutInput(enabled, queue) == IF queue = << >> THEN {} ELSE enabled \cap {"in"}

\* Input past the bound is dropped, the rest is queued and asked about.
Taken(bytes) == SubSeq(bytes, 1, IF Len(bytes) > INPUT_BOUND - Len(input)
                                 THEN INPUT_BOUND - Len(input) ELSE Len(bytes))

Receive(n) ==
    /\ typedIn + n <= TYPED
    /\ LET taken == Taken([i \in 1 .. n |-> typedIn + i])
       IN /\ input' = input \o taken
          /\ typedIn' = typedIn + Len(taken)
    /\ AskForAttention(AskAboutInput(ier, input'), asking)
    /\ UNCHANGED <<regs, out, uartAt, got, transmitted>>

\* Mutant: any read ends the interrupt.
EmptiedByAny(queue) == asking \ {"in"}

\* The read that empties the queue ends its interrupt.
EmptiedBy(queue) == IF queue = << >> THEN asking \ {"in"} ELSE asking

ReadData ==
    /\ input' = IF input = << >> THEN << >> ELSE Tail(input)
    /\ got' = IF input = << >> THEN got ELSE Append(got, Head(input))
    /\ asking' = EmptiedBy(input')
    /\ UNCHANGED <<regs, out, pulse, typedIn, transmitted>>

\* IIR names input first; reading it ends the transmit interrupt.
IIR == IF "in" \in asking THEN "in" ELSE IF "out" \in asking THEN "out" ELSE "none"

ReadIIR ==
    /\ asking' = IF IIR = "out" THEN asking \ {"out"} ELSE asking
    /\ UNCHANGED <<regs, input, out, pulse, guest>>

\* A byte transmitted reaches `out` at once, so the register is empty again.
WriteData(byte) ==
    /\ IF latched
       THEN divisor' = [divisor EXCEPT !.lo = byte] /\ UNCHANGED <<out, asking, pulse>>
       ELSE /\ out' = Append(out, byte)
            /\ AskForAttention(AskAboutTransmit(ier), asking)
            /\ UNCHANGED divisor
    /\ UNCHANGED <<ier, latched, input, typedIn, got>>

\* Reasons that are no longer enabled are dropped, the enabled ones asked for.
WriteIER(bits) ==
    /\ IF latched
       THEN divisor' = [divisor EXCEPT !.hi = 1] /\ UNCHANGED <<ier, asking, pulse>>
       ELSE /\ ier' = bits
            /\ AskForAttention(AskAboutTransmit(bits) \cup AskAboutInput(bits, input),
                               asking \cap bits)
            /\ UNCHANGED divisor
    /\ UNCHANGED <<latched, input, out, uartAt, guest>>

WriteLCR ==
    /\ latched' = ~latched
    /\ UNCHANGED <<ier, divisor, asking, input, out, pulse, uartAt, guest>>

-----------------------------------------------------------------------------
\* The guest: its handler reads IIR until nothing is pending, and the data while there is some.
Interrupted ==
    /\ uartAt = "idle" /\ pulse
    /\ pulse' = FALSE
    /\ uartAt' = "identify"
    /\ UNCHANGED <<regs, asking, input, out, guest>>

Identify ==
    /\ uartAt = "identify"
    /\ uartAt' = IF IIR = "none" THEN "idle" ELSE IIR
    /\ ReadIIR

Drain ==
    /\ uartAt = "in" /\ ~latched
    /\ IF input = << >>
       THEN uartAt' = "identify" /\ UNCHANGED <<regs, asking, input, out, pulse, guest>>
       ELSE uartAt' = uartAt /\ ReadData

Refill ==
    /\ uartAt = "out"
    /\ uartAt' = "identify"
    /\ IF transmitted = SENT \/ latched THEN UNCHANGED <<regs, asking, input, out, pulse, guest>>
       ELSE transmitted' = transmitted + 1 /\ WriteData(transmitted + 1)

\* Outside of its handler the guest enables interrupts, transmits and sets the divisor.
Enable(bits) == uartAt = "idle" /\ ~latched /\ WriteIER(bits)

Transmit ==
    /\ uartAt = "idle" /\ ~latched /\ transmitted < SENT
    /\ transmitted' = transmitted + 1
    /\ WriteData(transmitted + 1)
    /\ UNCHANGED uartAt

SetDivisor ==
    /\ uartAt = "idle" /\ latched
    /\ WriteData(1) \/ WriteIER({})
    /\ UNCHANGED <<transmitted, uartAt>>

Next ==
    \/ \E n \in 1 .. 2 : Receive(n)
    \/ \E bits \in SUBSET {"in", "out"} : Enable(bits)
    \/ Interrupted
    \/ Identify
    \/ Drain
    \/ Refill
    \/ Transmit
    \/ SetDivisor
    \/ uartAt = "idle" /\ WriteLCR

Spec == Init /\ [][Next]_vars
-----------------------------------------------------------------------------
\* Input is not forgotten: while it is queued and enabled it is pending, and whatever is
\* pending has an edge the guest has yet to see or a handler that is on its way to IIR
\* (ask_for_attention raises the line once for a run of bytes).
InputIsSeen ==
    /\ "in" \in ier /\ input # << >> => "in" \in asking
    /\ asking # {} => pulse \/ uartAt # "idle"

\* The guest reads what was typed in its order, short of what the bound dropped, and what it
\* transmits goes out once, with the latch open as little as closed.
BytesInOrder ==
    /\ got \o input = [i \in 1 .. typedIn |-> i]
    /\ Len(input) <= INPUT_BOUND
    /\ out = [i \in 1 .. transmitted |-> i]

\* The console line is sound: nothing waits unseen, and bytes keep their order.
SerialSound == InputIsSeen /\ BytesInOrder
=============================================================================
