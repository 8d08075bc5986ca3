------------------------------ MODULE MCLive ------------------------------
(***************************************************************************)
(* The network devices and the sandbox, which share no state, checked side *)
(* by side: a behaviour is one of the component it starts with.            *)
(***************************************************************************)
EXTENDS Sandbox, Stack

CONSTANTS
    EVENTS, BODIES, SOCKET,                     \* Net
    PORTS, PACKETS                              \* Flow

VARIABLES
    active,
    txRing, posted, given, leaving, stream, space, hostSent, inbound, arriving, held, rxRing,
    offered, taken, received, kicked, serving, inLoop, idle, refused, hangup, capture, broken,
    bound, senders, inbox, send, owed, lease

N == INSTANCE Net
F == INSTANCE Flow

netVars == <<txRing, posted, given, leaving, stream, space, hostSent, inbound, arriving, held, rxRing,
    offered, taken, received, kicked, serving, inLoop, idle, refused, hangup, capture, broken>>
flowVars == <<bound, senders, inbox, send, owed, lease>>
liveVars == <<active, netVars, stackVars, flowVars, vars>>

LiveInit ==
    /\ active \in {"net", "stack", "flow", "sandbox"}
    /\ N!Init /\ StackInit /\ F!Init /\ Init

Only(name) ==
    /\ active = name /\ UNCHANGED active
    /\ IF name = "net" THEN TRUE ELSE UNCHANGED netVars
    /\ IF name = "stack" THEN TRUE ELSE UNCHANGED stackVars
    /\ IF name = "flow" THEN TRUE ELSE UNCHANGED flowVars
    /\ IF name = "sandbox" THEN TRUE ELSE UNCHANGED vars

LiveNext ==
    \/ Only("net") /\ N!Next
    \/ Only("stack") /\ StackNext
    \/ Only("flow") /\ F!Next
    \/ Only("sandbox") /\ Next

\* The device thread serves what wakes it, the other ends read on, and the threads of a run
\* go on.
Fairness ==
    /\ WF_liveVars(Only("net") /\ N!Thread) /\ WF_liveVars(Only("net") /\ N!HostReads)
    /\ \A h \in HANDLES :
        /\ WF_liveVars(Only("stack") /\ Woken(h) /\ Pump(h))
        /\ WF_liveVars(Only("stack") /\ GuestReads(h)) /\ WF_liveVars(Only("stack") /\ HostReads(h))
    /\ WF_liveVars(Only("flow") /\ F!Take) /\ \A p \in PORTS : WF_liveVars(Only("flow") /\ F!Emit(p))
    /\ WF_liveVars(Only("sandbox") /\ MainStep) /\ WF_liveVars(Only("sandbox") /\ SignalStep)

LiveSpec == LiveInit /\ [][LiveNext]_liveVars /\ Fairness

-----------------------------------------------------------------------------
\* Net: frames are whole, in order and recorded as they passed.
FramesIntact == N!FramesIntact

\* Net: the device thread wakes for all that can move and for nothing else.
RoundsMove == N!RoundsMove

\* Flow: a flow lasts as long as its replies need it and no longer.
FlowSound == F!FlowSound
=============================================================================
