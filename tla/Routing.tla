------------------------------ MODULE Routing ------------------------------
(* The interrupt routes of a guest (hv/backend/kvm/irq.rs, vm.rs).  KVM     *)
(* keeps one table for pins and messages, a write replaces all of it, and   *)
(* an eventfd is bound to a GSI apart from it.  Every change is made under  *)
(* one lock but is several calls into KVM, each of which may fail; devices  *)
(* on other threads make theirs in between, and the last share of an irqfd  *)
(* may be dropped at any time.                                              *)
EXTENDS Integers, Sequences

CONSTANTS
    SOURCES,      \* pins of the interrupt controller: 0 .. SOURCES - 1
    FIRST,        \* the GSI of the first irqfd (FIRST_MSI_GSI)
    IRQFDS,       \* how many are ever created
    WORDS         \* what an address or data may be

\* A controller with a pin at FIRST_MSI_GSI or past it is refused.
ASSUME RoutingAssumption == SOURCES \in Nat /\ FIRST \in Nat /\ SOURCES < FIRST

VARIABLES
    pins,         \* pins every table carries
    msi,          \* GSI -> route, for the irqfds that exist
    nextGsi,
    table,        \* KVM's table: GSI -> what it raises
    registered,   \* GSIs an eventfd is bound to in KVM
    senders,      \* pins with a line bound to them
    closing,      \* irqfds dropped whose eventfd is not closed yet
    calls,        \* the calls the holder of the lock has yet to make
    at,           \* the GSI they are about
    broken        \* GSIs a call failed for

routingVars == <<pins, msi, nextGsi, table, registered, senders, closing, calls, at, broken>>

Masked == [addr |-> 0, data |-> 0, masked |-> TRUE]
Free == calls = <<>>

RoutingInit ==
    /\ pins = 0
    /\ msi = << >> /\ table = << >>
    /\ nextGsi = 0
    /\ registered = {} /\ senders = {} /\ closing = {}
    /\ calls = <<>> /\ at = 0
    /\ broken = {}

-----------------------------------------------------------------------------
\* Routing::apply: all pins, and the routes that are not masked.
Table ==
    LET unmasked == {g \in DOMAIN msi : ~msi[g].masked}
    IN  [g \in (0 .. pins - 1) \cup unmasked |->
            IF g < FIRST THEN <<"pin", g>> ELSE <<msi[g].addr, msi[g].data>>]

\* enable_in_kernel_irqchip: the controller routes its pins, and later tables carry them.
EnableIrqchip ==
    /\ pins = 0
    /\ pins' = SOURCES
    /\ table' = [g \in 0 .. SOURCES - 1 |-> <<"pin", g>>]
    /\ UNCHANGED <<msi, nextGsi, registered, senders, closing, calls, at, broken>>

\* create_irq_sender: bound to a pin, the table is not written.
CreateIrqSender(pin) ==
    /\ pins > 0 /\ pin \notin senders
    /\ senders' = senders \cup {pin}
    /\ UNCHANGED <<pins, msi, nextGsi, table, registered, closing, calls, at, broken>>

\* create_irqfd: a number of its own and a route that is in no table yet.
CreateIrqfd ==
    /\ pins > 0 /\ Free /\ nextGsi < IRQFDS
    /\ msi' = [g \in DOMAIN msi \cup {FIRST + nextGsi} |-> IF g \in DOMAIN msi THEN msi[g] ELSE Masked]
    /\ nextGsi' = nextGsi + 1
    /\ UNCHANGED <<pins, table, registered, senders, closing, calls, at, broken>>

Change(g, route, todo) ==
    /\ msi' = [msi EXCEPT ![g] = route]
    /\ at' = g
    /\ calls' = todo
    /\ UNCHANGED <<pins, nextGsi, table, registered, senders, closing, broken>>

\* set_addr and set_data.
Update(g) ==
    /\ Free /\ g \in DOMAIN msi
    /\ \E w \in WORDS :
        \/ Change(g, [msi[g] EXCEPT !.addr = w], <<"apply">>)
        \/ Change(g, [msi[g] EXCEPT !.data = w], <<"apply">>)

\* The order of the two calls: an eventfd is never bound to a GSI that has no route.
CallsToRouteFirst(masked) == IF masked THEN <<"apply", "unregister">> ELSE <<"apply", "register">>

CallsTo(masked) == IF masked THEN <<"unregister", "apply">> ELSE <<"apply", "register">>

SetMasked(g) ==
    /\ Free /\ g \in DOMAIN msi
    /\ Change(g, [msi[g] EXCEPT !.masked = ~@], CallsTo(~msi[g].masked))

\* The next call of the change, under the lock; a call that fails ends it there.
Call ==
    /\ ~Free
    /\ \/ /\ calls' = Tail(calls)
          /\ table' = IF Head(calls) = "apply" THEN Table ELSE table
          /\ registered' = IF Head(calls) = "register" THEN registered \cup {at}
                           ELSE IF Head(calls) = "unregister" THEN registered \ {at} ELSE registered
          /\ UNCHANGED broken
       \/ /\ calls' = <<>>
          /\ broken' = broken \cup {at}
          /\ UNCHANGED <<table, registered>>
    /\ at' = IF calls' = <<>> THEN 0 ELSE at
    /\ UNCHANGED <<pins, msi, nextGsi, senders, closing>>

\* Drop: the route goes under the lock, the eventfd is closed after it and KVM then lets
\* go of the GSI.
Drop(g) ==
    /\ Free /\ g \in DOMAIN msi
    /\ msi' = [h \in DOMAIN msi \ {g} |-> msi[h]]
    /\ closing' = closing \cup {g}
    /\ UNCHANGED <<pins, nextGsi, table, registered, senders, calls, at, broken>>

CloseEventfd(g) ==
    /\ g \in closing
    /\ closing' = closing \ {g}
    /\ registered' = registered \ {g}
    /\ UNCHANGED <<pins, msi, nextGsi, table, senders, calls, at, broken>>

Gsis == FIRST .. FIRST + IRQFDS - 1

RoutingNext ==
    \/ EnableIrqchip \/ (\E pin \in 0 .. SOURCES - 1 : CreateIrqSender(pin))
    \/ CreateIrqfd \/ Call
    \/ \E g \in Gsis : Update(g) \/ SetMasked(g) \/ Drop(g) \/ CloseEventfd(g)

RoutingSpec == RoutingInit /\ [][RoutingNext]_routingVars
-----------------------------------------------------------------------------
\* The line of a sender stays routed, whatever is written for the messages: the timer and
\* the console keep their interrupts.
PinsStayRouted == \A p \in senders : p \in DOMAIN table /\ table[p] = <<"pin", p>>

\* At no moment is an eventfd bound to a GSI without a route, but for one that is being
\* closed or one a call failed for.
BoundIsRouted == registered \subseteq DOMAIN table \cup closing \cup broken

\* Between two changes a route is live exactly when it is not masked, with its latest
\* address and data.
UnmaskedIsLive ==
    Free => \A g \in DOMAIN msi \ broken :
        IF msi[g].masked THEN g \notin registered
        ELSE g \in registered /\ g \in DOMAIN table /\ table[g] = <<msi[g].addr, msi[g].data>>

\* The interrupt routes are sound: pins, bindings and messages.
RoutesSound == PinsStayRouted /\ BoundIsRouted /\ UnmaskedIsLive
=============================================================================
