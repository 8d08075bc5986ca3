----------------------------- MODULE Transport -----------------------------
(***************************************************************************)
(* One virtio device from the driver to the disk: the registers of the     *)
(* MMIO transport, the split ring the guest and the device thread share,   *)
(* the block device that may hold a request back for its rate, the         *)
(* interrupt line, and a capture of the machine brought up again           *)
(* (src/lingcore/src/devices/virtio: mmio.rs, queue.rs, block.rs).         *)
(*                                                                         *)
(* The guest runs its driver and handler on one vCPU and writes the rings  *)
(* while the device thread serves them.  A register access takes the lock  *)
(* that the device thread holds for the length of a notify.  A request is  *)
(* a number; `bad` has those whose chain the walk or the device refuses.   *)
(* The driver is Linux's: it ORs into STATUS with nothing in flight, sets  *)
(* QUEUE_NUM and QUEUE_READY of a queue that is not ready, its rings       *)
(* zeroed, keeps to the ring size, and resets with its handler done.       *)
(***************************************************************************)
EXTENDS Naturals, FiniteSets

CONSTANTS IDX,       \* ring indices are modulo IDX, 2^16 in the code
          MaxSize,   \* Device::queue_size_max
          Starts,    \* where the indices stand at first
          Sizes,     \* what a driver writes to QUEUE_NUM
          Requests,  \* requests are 1 .. Requests, each made available once
          Restores,  \* how often the machine is captured and brought up again
          Lengths    \* lengths of the disk file in sectors

IsPowerOfTwo(n) == \E k \in 0 .. n : n = 2^k

\* A ring size divides the range of the indices, which is a larger power of two.
ASSUME TransportAssumption ==
    /\ {IDX, MaxSize, Requests, Restores} \subseteq Nat \ {0}
    /\ MaxSize < IDX /\ IDX % MaxSize = 0
    /\ \A n \in 1 .. MaxSize : IsPowerOfTwo(n) => IDX % n = 0
    /\ Starts \subseteq 0 .. IDX - 1 /\ Sizes \subseteq Nat /\ Lengths # {}

Nothing == 0    \* no request
Slots == 0 .. MaxSize - 1

VARIABLES
    \* guest memory and driver
    avail,      \* index of the available ring
    ring,       \* its entries
    used,       \* index of the used ring
    elements,   \* its entries
    seen,       \* how far the driver has read the used ring
    inflight,   \* requests the driver waits for
    bad,        \* requests with a malformed chain
    made,       \* requests made so far
    owed,       \* made available and not yet kicked
    isr,        \* where the interrupt handler is
    cause,      \* what it read from INTERRUPT_STATUS
    config,     \* a read of the capacity: generation, low half, high half
    \* transport
    status, version_1, size, ready, next_avail, next_used,
    interrupt,  \* INTERRUPT_STATUS
    generation, \* config_generation
    line,       \* the interrupt is pending in the interrupt controller
    silent,     \* the last raise failed
    \* device and device thread
    sectors,    \* length of the disk
    due,        \* the request held until a deadline, or Nothing
    kick,       \* count of the ioeventfd
    pc,         \* where the device thread is
    answered,   \* next_used when it began
    request,    \* the chain it serves
    raised,     \* "no", or restored() runs: "config" if it has a change to announce
    restores    \* restores so far

rings == <<avail, ring, used, elements, seen, inflight, bad, made>>
guest == <<rings, owed, isr, cause, config>>
registers == <<status, version_1, size, generation>>
cursors == <<ready, next_avail, next_used>>
irq == <<interrupt, line, silent>>
disk == <<sectors, due>>
thread == <<pc, answered, request, raised>>
vars == <<guest, registers, cursors, irq, disk, kick, thread, restores>>

NoConfig == [step |-> 0, generation |-> 0, low |-> 0, high |-> 0]

\* A queue in use for a while: indices anywhere, nothing in flight.
Init ==
    /\ avail \in Starts
    /\ used = avail /\ seen = avail /\ next_avail = avail /\ next_used = avail
    /\ ring = [s \in Slots |-> Nothing] /\ elements = [s \in Slots |-> Nothing]
    /\ inflight = {} /\ bad = {} /\ made = 0 /\ owed = FALSE /\ isr = "off"
    /\ cause = {} /\ config = NoConfig
    /\ status = {"FEATURES_OK"} /\ version_1 = TRUE /\ size = MaxSize /\ ready = TRUE
    /\ generation = 0 /\ interrupt = {} /\ line = FALSE /\ silent = FALSE
    /\ sectors \in Lengths /\ due = Nothing /\ kick = FALSE
    /\ pc = "idle" /\ answered = 0 /\ request = Nothing /\ raised = "no"
    /\ restores = 0

\* The guest runs, and can take the lock of the transport.
Running == raised = "no"
Unlocked == pc \in {"idle", "woken"}

\* The driver frees its rings, to come back zeroed, and gives up its requests.
Forget ==
    /\ avail' = 0 /\ used' = 0 /\ seen' = 0
    /\ ring' = [s \in Slots |-> Nothing] /\ elements' = [s \in Slots |-> Nothing]
    /\ inflight' = {} /\ bad' = {} /\ owed' = FALSE
    /\ UNCHANGED <<made, isr, cause, config>>

----------------------------------------------------------------------------
(* Registers: handshake, reset and queue set-up.                             *)

WriteFeatures(accepts) ==
    /\ Running /\ Unlocked /\ status = {}
    /\ version_1' = accepts
    /\ UNCHANGED <<guest, status, size, generation, cursors, irq, disk, kick, thread, restores>>

\* set_status: FEATURES_OK without VIRTIO_F_VERSION_1 is a legacy driver.
WriteStatus ==
    /\ Running /\ Unlocked /\ inflight = {}
    /\ status' = status \cup {"FEATURES_OK"} \cup (IF version_1 THEN {} ELSE {"FAILED"})
    /\ UNCHANGED <<guest, version_1, size, generation, cursors, irq, disk, kick, thread, restores>>

\* STATUS of zero; the driver forgets its requests.
Reset ==
    /\ Running /\ Unlocked /\ isr = "off"
    /\ status' = {} /\ version_1' = FALSE /\ size' = 0
    /\ interrupt' = {}
    /\ ready' = FALSE /\ next_avail' = 0 /\ next_used' = 0
    /\ Forget
    /\ UNCHANGED <<generation, line, silent, disk, kick, thread, restores>>

WriteSize(value) ==
    /\ Running /\ Unlocked /\ ~ready
    /\ size' = IF value < MaxSize THEN value ELSE MaxSize
    /\ UNCHANGED <<guest, status, version_1, generation, cursors, irq, disk, kick, thread, restores>>

\* QUEUE_READY of one: Queue::new, or DEVICE_NEEDS_RESET.
WriteReady ==
    /\ Running /\ Unlocked /\ ~ready
    /\ \/ /\ IsPowerOfTwo(size)
          /\ ready' = TRUE /\ next_avail' = 0 /\ next_used' = 0 /\ status' = status
       \/ /\ ~IsPowerOfTwo(size)
          /\ status' = status \cup {"NEEDS_RESET"}
          /\ UNCHANGED cursors
    /\ UNCHANGED <<guest, version_1, size, generation, irq, disk, kick, thread, restores>>

\* QUEUE_READY of zero; the driver gives up what it had in flight.
WriteUnready ==
    /\ Running /\ Unlocked /\ ready /\ isr = "off"
    /\ ready' = FALSE /\ next_avail' = 0 /\ next_used' = 0
    /\ Forget
    /\ UNCHANGED <<registers, irq, disk, kick, thread, restores>>

----------------------------------------------------------------------------
(* The driver: make a request available, kick, and the interrupt handler.    *)

Publish(malformed) ==
    /\ Running /\ ready /\ Cardinality(inflight) < size /\ made < Requests
    /\ made' = made + 1
    /\ ring' = [ring EXCEPT ![avail % size] = made + 1]
    /\ avail' = (avail + 1) % IDX
    /\ inflight' = inflight \cup {made + 1}
    /\ bad' = IF malformed THEN bad \cup {made + 1} ELSE bad
    /\ owed' = TRUE
    /\ UNCHANGED <<used, elements, seen, isr, cause, config, registers, cursors, irq, disk, kick, thread,
                   restores>>

\* A 4-byte QUEUE_NOTIFY store is taken by the ioeventfd.
Kick ==
    /\ Running /\ owed
    /\ owed' = FALSE /\ kick' = TRUE
    /\ UNCHANGED <<rings, isr, cause, config, registers, cursors, irq, disk, thread, restores>>

\* INTERRUPT_STATUS is read; with nothing in it the handler returns.
TakeInterrupt ==
    /\ Running /\ Unlocked /\ line /\ isr = "off"
    /\ line' = FALSE
    /\ cause' = interrupt
    /\ isr' = IF interrupt = {} THEN "off" ELSE "ack"
    /\ UNCHANGED <<rings, owed, config, registers, cursors, interrupt, silent, disk, kick, thread,
                   restores>>

\* INTERRUPT_ACK of what was read.
Acknowledge ==
    /\ Running /\ Unlocked /\ isr = "ack"
    /\ interrupt' = interrupt \ cause
    /\ cause' = {}
    /\ isr' = IF "VRING" \in cause THEN "consume" ELSE "off"
    /\ UNCHANGED <<rings, owed, config, registers, cursors, line, silent, disk, kick, thread,
                   restores>>

\* The used ring is read up to its index.
Consume ==
    /\ Running /\ isr = "consume"
    /\ \/ /\ ready /\ seen # used
          /\ inflight' = inflight \ {elements[seen % size]}
          /\ seen' = (seen + 1) % IDX /\ isr' = isr
       \/ /\ ~ready \/ seen = used
          /\ isr' = "off" /\ UNCHANGED <<inflight, seen>>
    /\ UNCHANGED <<avail, ring, used, elements, bad, made, owed, cause, config, registers, cursors, irq,
                   disk, kick, thread, restores>>

\* The capacity is read in two halves between two reads of the generation.
ReadConfig ==
    /\ Running /\ Unlocked
    /\ \/ config.step = 0 /\ config' = [config EXCEPT !.step = 1, !.generation = generation]
       \/ config.step = 1 /\ config' = [config EXCEPT !.step = 2, !.low = sectors]
       \/ config.step = 2 /\ config' = [config EXCEPT !.step = 3, !.high = sectors]
       \/ config.step = 3 /\ config' = NoConfig
    /\ UNCHANGED <<rings, owed, isr, cause, registers, cursors, irq, disk, kick, thread, restores>>

----------------------------------------------------------------------------
(* The device thread: Transport::notify over Block::notify.                  *)

\* The wait ends: the count of the ioeventfd is read, or a deadline passed.
Wake ==
    /\ Running /\ pc = "idle"
    /\ \/ kick /\ kick' = FALSE
       \/ ready /\ due # Nothing /\ UNCHANGED kick
    /\ pc' = "woken"
    /\ UNCHANGED <<guest, registers, cursors, irq, disk, answered, request, raised, restores>>

\* The lock is taken; a queue that is not built is left alone.
Notify ==
    /\ Running /\ pc = "woken"
    /\ \/ ready /\ pc' = "pop" /\ answered' = next_used /\ due' = Nothing
       \/ ~ready /\ pc' = "idle" /\ UNCHANGED <<answered, due>>
    /\ UNCHANGED <<guest, registers, cursors, irq, sectors, kick, request, raised, restores>>

Head == ring[next_avail % size]

PopEmpty ==
    /\ next_avail = avail
    /\ pc' = "finish"
    /\ UNCHANGED <<next_avail, status, due, request>>

\* The walk refuses the chain, or it has no status byte; the cursor is past it.
PopRefused ==
    /\ next_avail # avail /\ Head \in bad
    /\ next_avail' = (next_avail + 1) % IDX
    /\ status' = status \cup {"NEEDS_RESET"}
    /\ pc' = "refused"
    /\ UNCHANGED <<due, request>>

\* Mutant: the chain is not put back.
PopHeldLost ==
    /\ next_avail # avail /\ Head \notin bad
    /\ next_avail' = (next_avail + 1) % IDX
    /\ due' = Head
    /\ pc' = "finish"
    /\ UNCHANGED <<status, request>>

\* Past the rate: undo_pop, and a deadline.
PopHeld ==
    /\ next_avail # avail /\ Head \notin bad
    /\ due' = Head
    /\ pc' = "finish"
    /\ UNCHANGED <<next_avail, status, request>>

\* Within the rate: served, its status byte written.
PopServed ==
    /\ next_avail # avail /\ Head \notin bad
    /\ next_avail' = (next_avail + 1) % IDX
    /\ request' = Head
    /\ pc' = "element"
    /\ UNCHANGED <<status, due>>

\* One turn of the loop of Block::notify up to add_used.
Pop ==
    /\ pc = "pop"
    /\ PopEmpty \/ PopRefused \/ PopHeld \/ PopServed
    /\ UNCHANGED <<guest, version_1, size, generation, ready, next_used, irq, sectors, kick,
                   answered, raised, restores>>

\* Queue::add_used, the element and then the index.
WriteElement ==
    /\ pc = "element"
    /\ elements' = [elements EXCEPT ![next_used % size] = request]
    /\ pc' = "index"
    /\ UNCHANGED <<avail, ring, used, seen, inflight, bad, made, owed, isr, cause, config, registers,
                   cursors, irq, disk, kick, answered, request, raised, restores>>

WriteIndex ==
    /\ pc = "index"
    /\ next_used' = (next_used + 1) % IDX
    /\ used' = next_used'
    /\ pc' = "pop" /\ request' = Nothing
    /\ UNCHANGED <<avail, ring, elements, seen, inflight, bad, made, owed, isr, cause, config, registers,
                   ready, next_avail, irq, disk, kick, answered, raised, restores>>

\* IrqSender::send, which may fail.
Raise == \/ line' = TRUE /\ silent' = FALSE
         \/ line' = line /\ silent' = TRUE

\* The line is raised if the used index moved; a raise that fails ends the thread.
Finish ==
    /\ pc = "finish" /\ Running
    /\ \/ next_used = answered /\ pc' = "idle" /\ UNCHANGED irq
       \/ /\ next_used # answered
          /\ interrupt' = interrupt \cup {"VRING"} /\ Raise
          /\ pc' = IF silent' THEN "gone" ELSE "idle"
    /\ answered' = 0
    /\ UNCHANGED <<guest, registers, cursors, disk, kick, request, raised, restores>>

\* A malformed chain: notify returns with DEVICE_NEEDS_RESET.
Refused ==
    /\ pc = "refused" /\ Running
    /\ pc' = "idle" /\ answered' = 0
    /\ UNCHANGED <<guest, registers, cursors, irq, disk, kick, request, raised, restores>>

----------------------------------------------------------------------------
(* Capture, and a restore over a disk of perhaps another length.             *)

\* The machine is held: no notify runs.  The registers and RAM come back as they
\* were, the count of the ioeventfd and the deadline of a held request do not.
BringUp(length, counted, avail_at, used_at, begin) ==
    /\ Running /\ pc = "idle" /\ restores < Restores
    /\ restores' = restores + 1
    /\ kick' = FALSE /\ due' = Nothing
    /\ sectors' = length
    /\ generation' = counted
    /\ \/ length # sectors /\ interrupt' = interrupt \cup {"CONFIG"} /\ raised' = "config"
       \/ length = sectors /\ interrupt' = interrupt /\ raised' = "yes"
    /\ next_avail' = avail_at /\ next_used' = used_at
    /\ answered' = used_at
    /\ pc' = IF ready THEN begin ELSE "finish"
    /\ UNCHANGED <<guest, status, version_1, size, ready, line, silent, request>>

Bumped(length) == IF length # sectors THEN generation + 1 ELSE generation

\* Mutant: the generation stays.
RestoreSameGeneration(length) == BringUp(length, generation, next_avail, next_used, "pop")

\* Mutant: what is in the ring waits for a kick.
RestoreUnserved(length) == BringUp(length, Bumped(length), next_avail, next_used, "finish")

\* take_up, and restored(): the generation counts a changed configuration, the
\* queue has its cursors, and what is in the ring is served.
Restore(length) == BringUp(length, Bumped(length), next_avail, next_used, "pop")

\* End of restored(); a failed raise is only logged.
Restored ==
    /\ ~Running
    /\ \/ /\ pc = "finish" /\ next_used # answered
          /\ interrupt' = interrupt \cup {"VRING"} /\ Raise
       \/ /\ pc = "refused" \/ (pc = "finish" /\ next_used = answered)
          /\ UNCHANGED interrupt
          /\ IF raised = "config" THEN Raise ELSE UNCHANGED <<line, silent>>
    /\ pc' = "idle" /\ raised' = "no" /\ answered' = 0
    /\ UNCHANGED <<guest, registers, cursors, disk, kick, request, restores>>

----------------------------------------------------------------------------

Driver ==
    \/ \E accepts \in BOOLEAN : WriteFeatures(accepts)
    \/ WriteStatus \/ Reset
    \/ \E value \in Sizes : WriteSize(value)
    \/ WriteReady \/ WriteUnready
    \/ \E malformed \in BOOLEAN : Publish(malformed)
    \/ ReadConfig

Handler == TakeInterrupt \/ Acknowledge \/ Consume
DeviceThread == Wake \/ Notify \/ Pop \/ WriteElement \/ WriteIndex \/ Finish \/ Refused \/ Restored

Next ==
    /\ pc # "gone"
    /\ \/ Driver \/ Kick \/ Handler \/ DeviceThread
       \/ \E length \in Lengths : Restore(length)

Spec == Init /\ [][Next]_vars

\* The device thread and the vCPU are scheduled, the driver kicks what it made
\* available, and the buckets refill: a request is not held at every deadline.
FairSpec ==
    /\ Spec
    /\ WF_vars(DeviceThread) /\ WF_vars(Kick) /\ WF_vars(Handler)
    /\ SF_vars(Pop /\ pc' = "element")

----------------------------------------------------------------------------
(* Properties.                                                               *)

TypeOK ==
    /\ {avail, used, seen, next_avail, next_used, answered} \subseteq 0 .. IDX - 1
    /\ ring \in [Slots -> 0 .. Requests] /\ elements \in [Slots -> 0 .. Requests]
    /\ inflight \subseteq 1 .. Requests /\ bad \subseteq 1 .. Requests
    /\ {made, request, due} \subseteq 0 .. Requests
    /\ status \subseteq {"FEATURES_OK", "NEEDS_RESET", "FAILED"}
    /\ size \in 0 .. MaxSize /\ interrupt \subseteq {"VRING", "CONFIG"}
    /\ {version_1, ready, owed, line, silent, kick} \subseteq BOOLEAN
    /\ isr \in {"off", "ack", "consume"} /\ cause \subseteq {"VRING", "CONFIG"}
    /\ pc \in {"idle", "woken", "pop", "element", "index", "finish", "refused", "gone"}
    /\ raised \in {"no", "yes", "config"}
    /\ sectors \in Lengths /\ generation \in 0 .. restores /\ restores \in 0 .. Restores

\* What the driver reads from the used ring is a request it waits for, read for
\* the first time and complete, however indices wrap and whatever was restored
\* (Queue::add_used, Queue::set_cursors).
UsedIsInFlight == (ready /\ seen # used) => elements[seen % size] \in inflight

\* With the device thread idle, every request made available has been looked at,
\* or will be: a kick is on its way, a deadline is armed, or the device needs a
\* reset (Block::notify, Queue::undo_pop, Transport::restored).
NothingForgotten ==
    (pc = "idle" /\ Running /\ ready /\ next_avail # avail)
        => kick \/ owed \/ due # Nothing \/ "NEEDS_RESET" \in status

\* With the device thread idle and the handler done, a used request the driver has
\* not read is announced by the line and its status bit, unless the raise failed
\* or a chain was refused (Transport::notify, Transport::restored).
UsedIsAnnounced ==
    (pc = "idle" /\ Running /\ ready /\ isr = "off" /\ seen # used)
        => (line /\ "VRING" \in interrupt) \/ silent \/ "NEEDS_RESET" \in status

\* A request is in flight until it is used once, is not passed over, and is announced.
RingSound == UsedIsInFlight /\ NothingForgotten /\ UsedIsAnnounced

\* A capacity read between two equal generations is of one disk, even when the
\* machine was captured and brought up over another one in between
\* (Transport::restored).
ConfigNotTorn == (config.step = 3 /\ config.generation = generation) => config.low = config.high

\* A well-formed request is answered, unless the driver gives it up, the device
\* needs a reset or an interrupt cannot be raised, through holds by the rate and
\* restores.
RequestAnswered ==
    \A r \in 1 .. Requests :
        (r \in inflight /\ r \notin bad) ~> (r \notin inflight \/ "NEEDS_RESET" \in status \/ silent)

=============================================================================
