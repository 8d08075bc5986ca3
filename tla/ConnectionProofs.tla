-------------------------- MODULE ConnectionProofs -------------------------
(***************************************************************************)
(* The two places connections are multiplexed: the demultiplexer of the    *)
(* agent's answers, for any number of connections and any requests, and    *)
(* the user-mode TCP stack, for any number of connections and any size of  *)
(* their buffers.                                                          *)
(***************************************************************************)
EXTENDS Demux, Stack, Integers, FiniteSetTheorems, TLAPS

Kept == Conns \cup {None}

ConnTypes ==
    /\ guest \in [Conns -> {"none", "queued", "open", "ended"}]
    /\ generation \in [Conns -> Nat]
    /\ reader \in [Conns -> {"absent", "reading", "failing", "dropping", "done"}]
    /\ handle \in Kept /\ link \in Kept /\ adopting \in Kept /\ old \in Kept

RequestTypes ==
    /\ pending \in [Requests -> Nat] /\ made \in [Requests -> Kept]
    /\ caller \in [Requests -> {"idle", "writing", "asked", "started"} \cup Gone]
    /\ sent \in [Requests -> Nat] /\ routed \in [Requests -> Nat] /\ channel \in [Requests -> Nat]

\* A connection has its reader from its handshake on.  So the one the accept
\* loop works on is of no request, and giving it a generation renumbers none.
Places ==
    /\ \A c \in Conns : guest[c] \in {"none", "queued"} => reader[c] = "absent"
    /\ acceptor \in {"adopt", "identify"} =>
        adopting # None /\ guest[adopting] \in {"open", "ended"} /\ reader[adopting] = "absent"
    /\ acceptor = "install" => adopting # None /\ reader[adopting] # "absent"
    /\ acceptor = "fail" => old # None
    /\ link # None => reader[link] # "absent"
    /\ \A r \in Requests : made[r] # None => reader[made[r]] # "absent"

\* A registered request has a caller, carries the generation of its
\* connection, and has each of its answers in its channel or taken from it.
Ledger(r) ==
    /\ caller[r] = "idle" => sent[r] = 0 /\ routed[r] = 0 /\ channel[r] = 0
    /\ pending[r] # 0 =>
        /\ caller[r] \in {"writing", "asked", "started"}
        /\ made[r] # None /\ pending[r] = generation[made[r]]
        /\ channel[r] + Taken(r) = routed[r]

\* What each stage of `stop` has behind it.
Stops ==
    /\ \A r \in Requests : caller[r] = "writing" => lock = r
    /\ stop # "no" => handle # None \/ acceptor = "absent"
    /\ stop \in {"wake", "acceptor", "link", "reader", "clear", "stopped"} => drainer # "running"
    /\ stop \in {"link", "reader", "clear", "stopped"} => acceptor \in {"done", "absent"}
    /\ stop \in {"reader", "clear", "stopped"} =>
        link = None /\ \A r \in Requests : caller[r] # "writing"
    /\ stop \in {"clear", "stopped"} => (handle # None => reader[handle] = "done")
    /\ stop = "stopped" => \A r \in Requests : pending[r] = 0

DemuxInv == ConnTypes /\ RequestTypes /\ Places /\ (\A r \in Requests : Ledger(r)) /\ Stops

----------------------------------------------------------------------------

\* The demultiplexer begins without connections and without requests.
LEMMA InitDemux == Init => DemuxInv
<1> SUFFICES ASSUME Init PROVE DemuxInv
  OBVIOUS
<1>1. ConnTypes /\ RequestTypes
  BY Zenon DEF Init, ConnTypes, RequestTypes, Kept, Gone
<1>2. Places /\ Stops /\ \A r \in Requests : Ledger(r)
  BY Zenon DEF Init, Places, Stops, Ledger
<1>3. QED BY <1>1, <1>2, Zenon DEF DemuxInv

\* Connections keep their types.
LEMMA ConnTypesStep ==
    ASSUME ConnTypes,
           [Next]_vars
    PROVE  ConnTypes'
<1> USE CAssumption DEF ConnTypes, Kept, Conns, None, conns, accepting, stopping
<1>1. CASE AgentStep
  BY <1>1, ZenonT(30) DEF AgentStep, Connect, Hangup, Answer, MachineDropped
<1>2. ASSUME NEW r \in Requests, CallerStep(r) PROVE ConnTypes'
  BY <1>2, Zenon DEF CallerStep, Register, Unlocked, Refuse, Write, Receive, Exited, GiveUp,
         Disconnected
<1>3. ASSUME NEW r \in Requests, Route(r) PROVE ConnTypes'
  BY <1>3, Zenon DEF Route
<1>4. ASSUME NEW c \in Conns, ReaderStep(c) PROVE ConnTypes'
  BY <1>4, ZenonT(30) DEF ReaderStep, ReadEnds, ReaderFails, Retained, ReaderDrops, Unlocked
<1>5. ASSUME NEW c \in Conns, AcceptFirst(c) PROVE ConnTypes'
  BY <1>5, Zenon DEF AcceptFirst
<1>6. ASSUME NEW c \in Conns, Accept(c) PROVE ConnTypes'
  BY <1>6, Zenon DEF Accept
<1>7. CASE FirstTimesOut
  BY <1>7, Zenon DEF FirstTimesOut, Goto
<1>8. CASE CheckStop
  BY <1>8, Zenon DEF CheckStop, Goto
<1>9. CASE AcceptWake
  BY <1>9, Zenon DEF AcceptWake, Goto
<1>10. CASE Generation
  <2>1. (IF link = None THEN 1 ELSE generation[link] + 1) \in Nat
    OBVIOUS
  <2>2. generation' \in [Conns -> Nat]
    BY <1>10, <2>1, Zenon DEF Generation
  <2>3. QED BY <1>10, <2>2, Zenon DEF Generation, Goto
<1>11. CASE AdoptFails
  BY <1>11, Zenon DEF AdoptFails, Goto
<1>12. CASE Identified
  BY <1>12, Zenon DEF Identified, Goto
<1>13. CASE Install
  BY <1>13, Zenon DEF Install, Unlocked
<1>14. CASE FailOld
  BY <1>14, Zenon DEF FailOld, Goto, Retained
<1>15. CASE DropOld
  BY <1>15, Zenon DEF DropOld, Goto, Unlocked
<1>16. CASE Stop
  BY <1>16, Zenon DEF Stop, Goes
<1>17. CASE StopStep
  BY <1>17, Zenon DEF StopStep, DrainEnds, JoinDrainer, Goes, Wake, JoinAcceptor, TakeLink, Unlocked,
         JoinReader, Clear
<1>18. CASE UNCHANGED vars
  BY <1>18, Zenon DEF vars
<1>19. QED
  BY <1>1, <1>2, <1>3, <1>4, <1>5, <1>6, <1>7, <1>8, <1>9, <1>10, <1>11, <1>12, <1>13, <1>14, <1>15,
     <1>16, <1>17, <1>18, ZenonT(30)
     DEF Next, AcceptorStep

\* So do requests.
LEMMA RequestTypesStep ==
    ASSUME ConnTypes, RequestTypes,
           [Next]_vars
    PROVE  RequestTypes'
<1> USE DEF RequestTypes, calls, answers
<1>1. ASSUME NEW c \in Conns, Connect(c) PROVE RequestTypes'
  BY <1>1, Zenon DEF Connect
<1>2. ASSUME NEW c \in Conns, Hangup(c) PROVE RequestTypes'
  BY <1>2, Zenon DEF Hangup
<1>3. ASSUME NEW r \in Requests, Answer(r) PROVE RequestTypes'
  <2>1. sent[r] + 1 \in Nat
    OBVIOUS
  <2>2. QED BY <1>3, <2>1, Zenon DEF Answer
<1>4. CASE MachineDropped
  BY <1>4, Zenon DEF MachineDropped
<1>5. ASSUME NEW r \in Requests, Register(r) PROVE RequestTypes'
  <2>1. link \in Kept /\ generation[link] \in Nat
    BY <1>5, Zenon DEF Register, ConnTypes, Kept
  <2>2. QED BY <1>5, <2>1, Zenon DEF Register
<1>6. ASSUME NEW r \in Requests, Refuse(r) PROVE RequestTypes'
  BY <1>6, Zenon DEF Refuse, Gone
<1>7. ASSUME NEW r \in Requests, Write(r) PROVE RequestTypes'
  <2>1. pending' \in [Requests -> Nat]
    BY <1>7 DEF Write
  <2>2. caller' \in [Requests -> {"idle", "writing", "asked", "started"} \cup Gone]
    BY <1>7, Zenon DEF Write, Gone
  <2>3. QED BY <1>7, <2>1, <2>2, Zenon DEF Write
<1>8. ASSUME NEW r \in Requests, Receive(r) PROVE RequestTypes'
  <2>1. channel' \in [Requests -> Nat]
    BY <1>8 DEF Receive
  <2>2. pending' \in [Requests -> Nat]
    BY <1>8 DEF Receive
  <2>3. caller' \in [Requests -> {"idle", "writing", "asked", "started"} \cup Gone]
    BY <1>8, Zenon DEF Receive, Gone
  <2>4. QED BY <1>8, <2>1, <2>2, <2>3, Zenon DEF Receive
<1>9. ASSUME NEW r \in Requests, Exited(r) PROVE RequestTypes'
  <2>1. channel' \in [Requests -> Nat]
    BY <1>9 DEF Exited
  <2>2. pending' \in [Requests -> Nat]
    BY <1>9, Zenon DEF Exited
  <2>3. caller' \in [Requests -> {"idle", "writing", "asked", "started"} \cup Gone]
    BY <1>9, Zenon DEF Exited, Gone
  <2>4. QED BY <1>9, <2>1, <2>2, <2>3, Zenon DEF Exited
<1>10. ASSUME NEW r \in Requests, GiveUp(r) PROVE RequestTypes'
  BY <1>10, Zenon DEF GiveUp, Gone
<1>11. ASSUME NEW r \in Requests, Disconnected(r) PROVE RequestTypes'
  BY <1>11, Zenon DEF Disconnected, Gone
<1>12. ASSUME NEW r \in Requests, Route(r) PROVE RequestTypes'
  <2>1. routed' \in [Requests -> Nat]
    BY <1>12 DEF Route
  <2>2. channel' \in [Requests -> Nat]
    BY <1>12 DEF Route
  <2>3. QED BY <1>12, <2>1, <2>2, Zenon DEF Route
<1>13. ASSUME NEW c \in Conns, ReaderStep(c) PROVE RequestTypes'
  BY <1>13 DEF ReaderStep, ReadEnds, ReaderFails, Retained, ReaderDrops, Unlocked
<1>14. ASSUME NEW c \in Conns, AcceptFirst(c) PROVE RequestTypes'
  BY <1>14, Zenon DEF AcceptFirst
<1>15. ASSUME NEW c \in Conns, Accept(c) PROVE RequestTypes'
  BY <1>15, Zenon DEF Accept
<1>16. CASE FirstTimesOut
  BY <1>16, Zenon DEF FirstTimesOut, Goto
<1>17. CASE CheckStop
  BY <1>17, Zenon DEF CheckStop, Goto
<1>18. CASE AcceptWake
  BY <1>18, Zenon DEF AcceptWake, Goto
<1>19. CASE Generation
  BY <1>19, Zenon DEF Generation, Goto, Unlocked
<1>20. CASE AdoptFails
  BY <1>20, Zenon DEF AdoptFails, Goto
<1>21. CASE Identified
  BY <1>21, Zenon DEF Identified, Goto
<1>22. CASE Install
  BY <1>22, Zenon DEF Install, Unlocked
<1>23. CASE FailOld
  BY <1>23, Zenon DEF FailOld, Goto, Retained
<1>24. CASE DropOld
  BY <1>24, Zenon DEF DropOld, Goto, Unlocked
<1>25. CASE Stop
  BY <1>25, ZenonT(30) DEF Stop, Goes
<1>26. CASE StopStep
  BY <1>26 DEF StopStep, DrainEnds, JoinDrainer, Goes, Wake, JoinAcceptor, TakeLink, Unlocked,
         JoinReader, Clear
<1>27. CASE UNCHANGED vars
  BY <1>27, Zenon DEF vars
<1>28. QED
  BY <1>1, <1>2, <1>3, <1>4, <1>5, <1>6, <1>7, <1>8, <1>9, <1>10, <1>11, <1>12, <1>13, <1>14, <1>15,
     <1>16, <1>17, <1>18, <1>19, <1>20, <1>21, <1>22, <1>23, <1>24, <1>25, <1>26, <1>27, ZenonT(30)
     DEF Next, AgentStep, CallerStep, AcceptorStep

\* A connection gets its reader once, and becomes the live one only after (identify, install).
LEMMA PlacesStep ==
    ASSUME ConnTypes, RequestTypes, Places,
           [Next]_vars
    PROVE  Places'
<1> USE CAssumption DEF ConnTypes, RequestTypes, Places, Kept, Conns, None, conns, accepting, calls
<1>1. ASSUME NEW c \in Conns, Connect(c) PROVE Places'
  BY <1>1, Zenon DEF Connect
<1>2. ASSUME NEW c \in Conns, Hangup(c) PROVE Places'
  BY <1>2, Zenon DEF Hangup
<1>3. ASSUME NEW r \in Requests, Answer(r) PROVE Places'
  BY <1>3, Zenon DEF Answer
<1>4. CASE MachineDropped
  BY <1>4, Zenon DEF MachineDropped
<1>5. ASSUME NEW r \in Requests, CallerStep(r) PROVE Places'
  BY <1>5, ZenonT(60) DEF CallerStep, Register, Unlocked, Refuse, Write, Receive, Exited, GiveUp,
         Disconnected
<1>6. ASSUME NEW r \in Requests, Route(r) PROVE Places'
  BY <1>6, Zenon DEF Route
<1>7. ASSUME NEW c \in Conns, ReadEnds(c) PROVE Places'
  BY <1>7, ZenonT(30) DEF ReadEnds
<1>8. ASSUME NEW c \in Conns, ReaderFails(c) PROVE Places'
  BY <1>8, ZenonT(30) DEF ReaderFails, Retained
<1>9. ASSUME NEW c \in Conns, ReaderDrops(c) PROVE Places'
  BY <1>9, ZenonT(30) DEF ReaderDrops, Unlocked
<1>10. ASSUME NEW c \in Conns, AcceptFirst(c) PROVE Places'
  BY <1>10 DEF AcceptFirst
<1>11. ASSUME NEW c \in Conns, Accept(c) PROVE Places'
  BY <1>11 DEF Accept
<1>12. CASE FirstTimesOut
  BY <1>12, Zenon DEF FirstTimesOut, Goto
<1>13. CASE CheckStop
  BY <1>13, Zenon DEF CheckStop, Goto
<1>14. CASE AcceptWake
  BY <1>14, Zenon DEF AcceptWake, Goto
<1>15. CASE Generation
  BY <1>15, Zenon DEF Generation, Goto, Unlocked
<1>16. CASE AdoptFails
  BY <1>16, Zenon DEF AdoptFails, Goto
<1>17. CASE Identified
  BY <1>17, ZenonT(30) DEF Identified, Goto
<1>18. CASE Install
  BY <1>18, Zenon DEF Install, Unlocked
<1>19. CASE FailOld
  BY <1>19, Zenon DEF FailOld, Goto, Retained
<1>20. CASE DropOld
  BY <1>20, Zenon DEF DropOld, Goto, Unlocked
<1>21. CASE Stop
  BY <1>21, Zenon DEF Stop, Goes
<1>22. CASE StopStep
  BY <1>22, ZenonT(30) DEF StopStep, DrainEnds, JoinDrainer, Goes, Wake, JoinAcceptor, TakeLink, Unlocked,
         JoinReader, Clear
<1>23. CASE UNCHANGED vars
  BY <1>23, Zenon DEF vars
<1>24. QED
  BY <1>1, <1>2, <1>3, <1>4, <1>5, <1>6, <1>7, <1>8, <1>9, <1>10, <1>11, <1>12, <1>13, <1>14, <1>15,
     <1>16, <1>17, <1>18, <1>19, <1>20, <1>21, <1>22, <1>23, ZenonT(30)
     DEF Next, AgentStep, ReaderStep, AcceptorStep

\* A request keeps its account: what its reader routes goes to its channel as long as it is
\* registered, since no other connection gets its generation (register, route, fail).
LEMMA LedgerStep ==
    ASSUME ConnTypes, RequestTypes, Places, NEW q \in Requests, Ledger(q),
           [Next]_vars
    PROVE  Ledger(q)'
<1> USE DEF RequestTypes, Ledger, Taken, accepting, calls, answers
<1>1. CASE AgentStep
  BY <1>1, ZenonT(30) DEF AgentStep, Connect, Hangup, Answer, MachineDropped
<1>2. ASSUME NEW r \in Requests, Register(r) PROVE Ledger(q)'
  <2>1. CASE q = r
    <3>1. /\ caller'[q] = "writing" /\ Taken(q)' = 0 /\ made'[q] = link /\ link # None
          /\ pending'[q] = generation[link] /\ UNCHANGED <<generation, answers>>
      BY <1>2, <2>1, Zenon DEF Register
    <3>2. sent[q] = 0 /\ routed[q] = 0 /\ channel[q] = 0
      BY <1>2, <2>1, Zenon DEF Register
    <3>3. QED BY <3>1, <3>2
  <2>2. CASE q # r BY <1>2, <2>2, Zenon DEF Register, Unlocked
  <2>3. QED BY <2>1, <2>2, Zenon
<1>3. ASSUME NEW r \in Requests, Refuse(r) PROVE Ledger(q)'
  BY <1>3, Zenon DEF Refuse, Unlocked
<1>4. ASSUME NEW r \in Requests, Write(r) PROVE Ledger(q)'
  BY <1>4, Zenon DEF Write
<1>5. ASSUME NEW r \in Requests, Receive(r) PROVE Ledger(q)'
  <2>1. CASE q = r
    <3>1. /\ caller[q] = "asked" /\ Taken(q) = 0 /\ channel'[q] = channel[q] - 1
          /\ UNCHANGED <<generation, made, sent, routed>>
      BY <1>5, <2>1, Zenon DEF Receive
    <3>2. \/ caller'[q] = "started" /\ Taken(q)' = 1 /\ pending'[q] = pending[q]
          \/ caller'[q] = "answered" /\ pending'[q] = 0
      BY <1>5, <2>1, Zenon DEF Receive
    <3>3. QED BY <3>1, <3>2
  <2>2. CASE q # r BY <1>5, <2>2, Zenon DEF Receive
  <2>3. QED BY <2>1, <2>2, Zenon
<1>6. ASSUME NEW r \in Requests, Exited(r) PROVE Ledger(q)'
  BY <1>6, Zenon DEF Exited
<1>7. ASSUME NEW r \in Requests, GiveUp(r) PROVE Ledger(q)'
  BY <1>7, Zenon DEF GiveUp
<1>8. ASSUME NEW r \in Requests, Disconnected(r) PROVE Ledger(q)'
  BY <1>8, ZenonT(30) DEF Disconnected
<1>9. ASSUME NEW r \in Requests, Route(r) PROVE Ledger(q)'
  <2>1. CASE q = r
    <3>1. /\ routed'[q] = routed[q] + 1 /\ routed[q] < sent[q] /\ Taken(q)' = Taken(q)
          /\ channel'[q] = IF pending[q] = generation[made[q]] THEN channel[q] + 1 ELSE channel[q]
          /\ UNCHANGED <<generation, pending, calls, sent>>
      BY <1>9, <2>1, Zenon DEF Route
    <3>2. caller[q] # "idle"
      BY <3>1
    <3>3. QED BY <3>1, <3>2
  <2>2. CASE q # r BY <1>9, <2>2, Zenon DEF Route
  <2>3. QED BY <2>1, <2>2, Zenon
<1>10. ASSUME NEW c \in Conns, ReadEnds(c) PROVE Ledger(q)'
  BY <1>10, Zenon DEF ReadEnds
<1>11. ASSUME NEW c \in Conns, ReaderFails(c) PROVE Ledger(q)'
  BY <1>11, Zenon DEF ReaderFails, Retained
<1>12. ASSUME NEW c \in Conns, ReaderDrops(c) PROVE Ledger(q)'
  BY <1>12, Zenon DEF ReaderDrops, Unlocked
<1>13. ASSUME NEW c \in Conns, AcceptFirst(c) PROVE Ledger(q)'
  BY <1>13, ZenonT(30) DEF AcceptFirst, ConnTypes, Places, Kept, None, Conns, Goto
<1>14. ASSUME NEW c \in Conns, Accept(c) PROVE Ledger(q)'
  BY <1>14, Zenon DEF Accept
<1>15. CASE FirstTimesOut
  BY <1>15, Zenon DEF FirstTimesOut, Goto
<1>16. CASE CheckStop
  BY <1>16, Zenon DEF CheckStop, Goto
<1>17. CASE AcceptWake
  BY <1>17, Zenon DEF AcceptWake, Goto
<1>18. CASE Generation
  BY <1>18, ZenonT(30) DEF Generation, ConnTypes, Places, Kept, None, Conns, Goto
<1>19. CASE AdoptFails
  BY <1>19, Zenon DEF AdoptFails, Goto
<1>20. CASE Identified
  BY <1>20, Zenon DEF Identified, Goto
<1>21. CASE Install
  BY <1>21, Zenon DEF Install, Unlocked
<1>22. CASE FailOld
  BY <1>22, Zenon DEF FailOld, Goto, Retained
<1>23. CASE DropOld
  BY <1>23, Zenon DEF DropOld, Goto, Unlocked
<1>24. CASE Stop
  BY <1>24, Zenon DEF Stop, Goes
<1>25. CASE StopStep
  BY <1>25, Zenon DEF StopStep, DrainEnds, JoinDrainer, Goes, Wake, JoinAcceptor, TakeLink, Unlocked,
         JoinReader, Clear
<1>26. CASE UNCHANGED vars
  BY <1>26, Zenon DEF vars
<1>27. QED
  BY <1>1, <1>2, <1>3, <1>4, <1>5, <1>6, <1>7, <1>8, <1>9, <1>10, <1>11, <1>12, <1>13, <1>14, <1>15,
     <1>16, <1>17, <1>18, <1>19, <1>20, <1>21, <1>22, <1>23, <1>24, <1>25, <1>26, ZenonT(30)
     DEF Next, CallerStep, ReaderStep, AcceptorStep

\* `stop` leaves behind it what it joined: the drainer, the accept loop, the last reader (stop).
LEMMA StopsStep ==
    ASSUME ConnTypes, RequestTypes, Places, Stops,
           [Next]_vars
    PROVE  Stops'
<1> USE CAssumption, RequestsAssumption DEF ConnTypes, RequestTypes, Places, Stops, Kept, Conns, None,
        conns, accepting, calls, answers, stopping
<1>1. ASSUME NEW c \in Conns, Connect(c) PROVE Stops'
  BY <1>1, Zenon DEF Connect
<1>2. ASSUME NEW c \in Conns, Hangup(c) PROVE Stops'
  BY <1>2, Zenon DEF Hangup
<1>3. ASSUME NEW r \in Requests, Answer(r) PROVE Stops'
  BY <1>3, Zenon DEF Answer
<1>4. CASE MachineDropped
  BY <1>4, Zenon DEF MachineDropped
<1>5. ASSUME NEW r \in Requests, Register(r) PROVE Stops'
  BY <1>5, Zenon DEF Register, Unlocked
<1>6. ASSUME NEW r \in Requests, Refuse(r) PROVE Stops'
  BY <1>6, Zenon DEF Refuse, Unlocked
<1>7. ASSUME NEW r \in Requests, Write(r) PROVE Stops'
  <2>1. lock = r /\ caller'[r] # "writing" BY <1>7, Zenon DEF Write
  <2>2. \A q \in Requests : caller'[q] # "writing" BY <1>7, <2>1, ZenonT(30) DEF Write
  <2>3. \A q \in Requests : pending[q] = 0 => pending'[q] = 0 BY <1>7, Zenon DEF Write
  <2>4. QED BY <1>7, <2>2, <2>3, ZenonT(30) DEF Write
<1>8. ASSUME NEW r \in Requests, Receive(r) PROVE Stops'
  <2>1. \A q \in Requests : pending[q] = 0 => pending'[q] = 0 BY <1>8, Zenon DEF Receive
  <2>2. \A q \in Requests : caller'[q] = "writing" => caller[q] = "writing" BY <1>8, Zenon DEF Receive
  <2>3. QED BY <1>8, <2>1, <2>2, ZenonT(30) DEF Receive
<1>9. ASSUME NEW r \in Requests, Exited(r) PROVE Stops'
  BY <1>9, ZenonT(30) DEF Exited
<1>10. ASSUME NEW r \in Requests, GiveUp(r) PROVE Stops'
  BY <1>10, ZenonT(30) DEF GiveUp
<1>11. ASSUME NEW r \in Requests, Disconnected(r) PROVE Stops'
  BY <1>11, Zenon DEF Disconnected
<1>12. ASSUME NEW r \in Requests, Route(r) PROVE Stops'
  BY <1>12, Zenon DEF Route
<1>13. ASSUME NEW c \in Conns, ReadEnds(c) PROVE Stops'
  BY <1>13, Zenon DEF ReadEnds
<1>14. ASSUME NEW c \in Conns, ReaderFails(c) PROVE Stops'
  BY <1>14, Zenon DEF ReaderFails, Retained
<1>15. ASSUME NEW c \in Conns, ReaderDrops(c) PROVE Stops'
  BY <1>15, Zenon DEF ReaderDrops, Unlocked
<1>16. ASSUME NEW c \in Conns, AcceptFirst(c) PROVE Stops'
  BY <1>16, Zenon DEF AcceptFirst
<1>17. ASSUME NEW c \in Conns, Accept(c) PROVE Stops'
  BY <1>17, Zenon DEF Accept
<1>18. CASE FirstTimesOut
  BY <1>18, Zenon DEF FirstTimesOut, Goto
<1>19. CASE CheckStop
  BY <1>19, Zenon DEF CheckStop, Goto
<1>20. CASE AcceptWake
  BY <1>20, Zenon DEF AcceptWake, Goto
<1>21. CASE Generation
  BY <1>21, Zenon DEF Generation, Goto, Unlocked
<1>22. CASE AdoptFails
  BY <1>22, Zenon DEF AdoptFails, Goto
<1>23. CASE Identified
  BY <1>23, Zenon DEF Identified, Goto
<1>24. CASE Install
  BY <1>24, Zenon DEF Install, Unlocked
<1>25. CASE FailOld
  BY <1>25, Zenon DEF FailOld, Goto, Retained
<1>26. CASE DropOld
  BY <1>26, Zenon DEF DropOld, Goto, Unlocked
<1>27. CASE Stop
  BY <1>27, Zenon DEF Stop, Goes
<1>28. CASE DrainEnds
  BY <1>28, Zenon DEF DrainEnds
<1>29. CASE JoinDrainer
  BY <1>29, Zenon DEF JoinDrainer, Goes
<1>30. CASE Wake
  BY <1>30, Zenon DEF Wake
<1>31. CASE JoinAcceptor
  BY <1>31, Zenon DEF JoinAcceptor, Goes
<1>32. CASE TakeLink
  BY <1>32, Zenon DEF TakeLink, Goes, Unlocked
<1>33. CASE JoinReader
  BY <1>33, Zenon DEF JoinReader, Goes
<1>34. CASE Clear
  BY <1>34, Zenon DEF Clear, Goes
<1>35. CASE UNCHANGED vars
  BY <1>35, Zenon DEF vars
<1>36. QED
  BY <1>1, <1>2, <1>3, <1>4, <1>5, <1>6, <1>7, <1>8, <1>9, <1>10, <1>11, <1>12, <1>13, <1>14, <1>15,
     <1>16, <1>17, <1>18, <1>19, <1>20, <1>21, <1>22, <1>23, <1>24, <1>25, <1>26, <1>27, <1>28, <1>29,
     <1>30, <1>31, <1>32, <1>33, <1>34, <1>35, ZenonT(30)
     DEF Next, AgentStep, CallerStep, ReaderStep, AcceptorStep, StopStep

\* For any connections and requests: each answer read for a registered request is in its
\* channel or was taken from there, and once `stop` returned there is no live connection, no
\* registered request and no thread that could bring either back (request, route, fail,
\* install, stop).
THEOREM DemuxAccounts == Spec => []RequestsAccounted
<1>1. Init => DemuxInv
  BY InitDemux, Zenon
<1>2. DemuxInv /\ [Next]_vars => DemuxInv'
  <2> SUFFICES ASSUME DemuxInv, [Next]_vars PROVE DemuxInv'
    OBVIOUS
  <2>1. ConnTypes' /\ RequestTypes' /\ Places' /\ Stops'
    BY ConnTypesStep, RequestTypesStep, PlacesStep, StopsStep, Zenon DEF DemuxInv
  <2>2. ASSUME NEW r \in Requests PROVE Ledger(r)'
    BY LedgerStep, Zenon DEF DemuxInv
  <2>3. QED BY <2>1, <2>2, Zenon DEF DemuxInv
<1>3. DemuxInv => RequestsAccounted
  BY Zenon DEF DemuxInv, Ledger, Stops, RequestsAccounted, NoAnswerLost, StopLeavesNothing
<1>4. QED BY <1>1, <1>2, <1>3, PTL DEF Spec

-----------------------------------------------------------------------------
\* What a connection is.
ProxyType ==
    [tcp : {"listen", "syn", "closed", "reset"} \cup Established,
     host : {"trying", "done", "failed", "broken"}, connected : BOOLEAN,
     toHost : Nat, toGuest : Nat, hostClosed : BOOLEAN, guestClosed : BOOLEAN,
     recv : Nat, send : Nat, guestSent : Nat, guestGot : Nat,
     hostOut : Nat, hostSent : Nat, hostEof : BOOLEAN, hostIn : Nat, hostGot : Nat]

\* The bytes of a connection add up, and neither buffer is past its end.
Balanced(c) ==
    /\ c.guestSent = c.recv + c.toHost + c.hostIn + c.hostGot
    /\ c.hostSent = c.hostOut + c.toGuest + c.send + c.guestGot
    /\ c.send <= BUFFER /\ c.hostIn <= BUFFER

\* A side that is closed has nothing on its way.
Ended(c) ==
    /\ c.guestClosed => c.toHost = 0 /\ c.recv = 0 /\ c.tcp \in {"guest-fin", "both", "closed", "reset"}
    /\ c.hostClosed => c.hostEof /\ c.hostOut = 0
    /\ c.tcp \in {"host-fin", "both"} => c.hostClosed /\ c.toGuest = 0

Carries(c) == c \in ProxyType /\ Balanced(c) /\ Ended(c)

StackKept ==
    /\ conn = [h \in HANDLES |-> conn[h]]
    /\ \A h \in HANDLES : conn[h] = Absent \/ Carries(conn[h])
    /\ TableSound

\* A new connection, and the steps of a pass.
LEMMA ProxyCarries == Carries(Proxy)
BY StackAssumption DEF Carries, Proxy, ProxyType, Balanced, Ended, Established

\* The fields of a connection.
LEMMA ProxyFields ==
    ASSUME NEW c \in ProxyType
    PROVE  /\ c.tcp \in {"listen", "syn", "closed", "reset"} \cup Established
           /\ c.host \in {"trying", "done", "failed", "broken"}
           /\ c.connected \in BOOLEAN /\ c.hostClosed \in BOOLEAN /\ c.guestClosed \in BOOLEAN /\ c.hostEof \in BOOLEAN
           /\ c.toHost \in Nat /\ c.toGuest \in Nat /\ c.recv \in Nat /\ c.send \in Nat /\ c.guestSent \in Nat
           /\ c.guestGot \in Nat /\ c.hostOut \in Nat /\ c.hostSent \in Nat /\ c.hostIn \in Nat /\ c.hostGot \in Nat
BY Zenon DEF ProxyType

\* The handshake of a socket that listens.
LEMMA SynCarries ==
    ASSUME NEW c, Carries(c), c.tcp \in {"listen", "syn"}, NEW to \in {"syn", "open"}
    PROVE  Carries([c EXCEPT !.tcp = to])
<1>1. c \in ProxyType /\ Balanced(c) /\ Ended(c) BY ProxyFields, Zenon DEF Carries, Balanced
<1>2. PICK d : d = [c EXCEPT !.tcp = to] BY Zenon
<1>3. d \in ProxyType BY <1>1, <1>2, ProxyFields, ZenonT(30) DEF ProxyType, Established
<1>4. Balanced(d) BY <1>1, <1>2, ProxyFields, StackAssumption, Zenon DEF ProxyType, Balanced
<1>5. Ended(d) BY <1>1, <1>2, ProxyFields, Zenon DEF ProxyType, Ended, Established
<1>6. QED BY <1>2, <1>3, <1>4, <1>5, ZenonT(30) DEF Carries

\* The guest sends a byte.
LEMMA SendsCarries ==
    ASSUME NEW c, Carries(c), c.tcp \in {"open", "host-fin"}
    PROVE  Carries([c EXCEPT !.guestSent = @ + 1, !.recv = @ + 1])
<1>1. c \in ProxyType /\ Balanced(c) /\ Ended(c) /\ c.guestSent + 1 \in Nat /\ c.recv + 1 \in Nat BY ProxyFields DEF Carries, Balanced
<1>2. PICK d : d = [c EXCEPT !.guestSent = @ + 1, !.recv = @ + 1] BY Zenon
<1>3. d \in ProxyType BY <1>1, <1>2, ProxyFields, ZenonT(30) DEF ProxyType, Established
<1>4. Balanced(d) BY <1>1, <1>2, ProxyFields, StackAssumption DEF ProxyType, Balanced
<1>5. Ended(d) BY <1>1, <1>2, ProxyFields, Zenon DEF ProxyType, Ended, Established
<1>6. QED BY <1>2, <1>3, <1>4, <1>5, ZenonT(30) DEF Carries

\* The guest reads what the socket has.
LEMMA ReadsCarries ==
    ASSUME NEW c, Carries(c)
    PROVE  Carries([c EXCEPT !.guestGot = @ + c.send, !.send = 0])
<1>1. c \in ProxyType /\ Balanced(c) /\ Ended(c) /\ c.guestGot + c.send \in Nat BY ProxyFields DEF Carries, Balanced
<1>2. PICK d : d = [c EXCEPT !.guestGot = @ + c.send, !.send = 0] BY Zenon
<1>3. d \in ProxyType BY <1>1, <1>2, ProxyFields, ZenonT(30) DEF ProxyType, Established
<1>4. Balanced(d) BY <1>1, <1>2, ProxyFields, StackAssumption DEF ProxyType, Balanced
<1>5. Ended(d) BY <1>1, <1>2, ProxyFields, ZenonT(30) DEF ProxyType, Ended, Established
<1>6. QED BY <1>2, <1>3, <1>4, <1>5, Zenon DEF Carries

\* The guest ends its side.
LEMMA FinsCarries ==
    ASSUME NEW c, Carries(c), c.tcp \in {"open", "host-fin"}
    PROVE  Carries([c EXCEPT !.tcp = IF @ = "open" THEN "guest-fin" ELSE "both"])
<1>1. c \in ProxyType /\ Balanced(c) /\ Ended(c) BY ProxyFields, Zenon DEF Carries, Balanced
<1>2. PICK d : d = [c EXCEPT !.tcp = IF @ = "open" THEN "guest-fin" ELSE "both"] BY Zenon
<1>3. d \in ProxyType BY <1>1, <1>2, ProxyFields DEF ProxyType, Established
<1>4. Balanced(d) BY <1>1, <1>2, ProxyFields, StackAssumption, Zenon DEF ProxyType, Balanced
<1>5. Ended(d) BY <1>1, <1>2, ProxyFields, Zenon DEF ProxyType, Ended, Established
<1>6. QED BY <1>2, <1>3, <1>4, <1>5, Zenon DEF Carries

\* The connection is over.
LEMMA OverCarries ==
    ASSUME NEW c, Carries(c), NEW over \in {"closed", "reset"}
    PROVE  Carries([c EXCEPT !.tcp = over])
<1>1. c \in ProxyType /\ Balanced(c) /\ Ended(c) BY ProxyFields, Zenon DEF Carries, Balanced
<1>2. PICK d : d = [c EXCEPT !.tcp = over] BY Zenon
<1>3. d \in ProxyType BY <1>1, <1>2, ProxyFields, ZenonT(30) DEF ProxyType, Established
<1>4. Balanced(d) BY <1>1, <1>2, ProxyFields, StackAssumption, Zenon DEF ProxyType, Balanced
<1>5. Ended(d) BY <1>1, <1>2, ProxyFields, ZenonT(30) DEF ProxyType, Ended, Established
<1>6. QED BY <1>2, <1>3, <1>4, <1>5, ZenonT(30) DEF Carries

\* The host end connects, or breaks.
LEMMA HostCarries ==
    ASSUME NEW c, Carries(c), NEW how \in {"done", "failed", "broken"}
    PROVE  Carries([c EXCEPT !.host = how])
<1>1. c \in ProxyType /\ Balanced(c) /\ Ended(c) BY ProxyFields, Zenon DEF Carries, Balanced
<1>2. PICK d : d = [c EXCEPT !.host = how] BY Zenon
<1>3. d \in ProxyType BY <1>1, <1>2, ProxyFields, ZenonT(30) DEF ProxyType, Established
<1>4. Balanced(d) BY <1>1, <1>2, ProxyFields, StackAssumption, Zenon DEF ProxyType, Balanced
<1>5. Ended(d) BY <1>1, <1>2, ProxyFields, ZenonT(30) DEF ProxyType, Ended, Established
<1>6. QED BY <1>2, <1>3, <1>4, <1>5, ZenonT(30) DEF Carries

\* The host end sends a byte.
LEMMA HostSendsCarries ==
    ASSUME NEW c, Carries(c), ~c.hostEof
    PROVE  Carries([c EXCEPT !.hostSent = @ + 1, !.hostOut = @ + 1])
<1>1. c \in ProxyType /\ Balanced(c) /\ Ended(c) /\ c.hostSent + 1 \in Nat /\ c.hostOut + 1 \in Nat BY ProxyFields DEF Carries, Balanced
<1>2. PICK d : d = [c EXCEPT !.hostSent = @ + 1, !.hostOut = @ + 1] BY Zenon
<1>3. d \in ProxyType BY <1>1, <1>2, ProxyFields, Zenon DEF ProxyType, Established
<1>4. Balanced(d) BY <1>1, <1>2, ProxyFields, StackAssumption DEF ProxyType, Balanced
<1>5. Ended(d) BY <1>1, <1>2, ProxyFields, ZenonT(30) DEF ProxyType, Ended, Established
<1>6. QED BY <1>2, <1>3, <1>4, <1>5, ZenonT(30) DEF Carries

\* The host end ends its side.
LEMMA HostFinsCarries ==
    ASSUME NEW c, Carries(c)
    PROVE  Carries([c EXCEPT !.hostEof = TRUE])
<1>1. c \in ProxyType /\ Balanced(c) /\ Ended(c) BY ProxyFields, Zenon DEF Carries, Balanced
<1>2. PICK d : d = [c EXCEPT !.hostEof = TRUE] BY Zenon
<1>3. d \in ProxyType BY <1>1, <1>2, ProxyFields, Zenon DEF ProxyType, Established
<1>4. Balanced(d) BY <1>1, <1>2, ProxyFields, StackAssumption, ZenonT(30) DEF ProxyType, Balanced
<1>5. Ended(d) BY <1>1, <1>2, ProxyFields, Zenon DEF ProxyType, Ended, Established
<1>6. QED BY <1>2, <1>3, <1>4, <1>5, Zenon DEF Carries

\* The host end reads what its socket has.
LEMMA HostReadsCarries ==
    ASSUME NEW c, Carries(c)
    PROVE  Carries([c EXCEPT !.hostGot = @ + c.hostIn, !.hostIn = 0])
<1>1. c \in ProxyType /\ Balanced(c) /\ Ended(c) /\ c.hostGot + c.hostIn \in Nat BY ProxyFields DEF Carries, Balanced
<1>2. PICK d : d = [c EXCEPT !.hostGot = @ + c.hostIn, !.hostIn = 0] BY Zenon
<1>3. d \in ProxyType BY <1>1, <1>2, ProxyFields, ZenonT(30) DEF ProxyType, Established
<1>4. Balanced(d) BY <1>1, <1>2, ProxyFields, StackAssumption DEF ProxyType, Balanced
<1>5. Ended(d) BY <1>1, <1>2, ProxyFields, ZenonT(30) DEF ProxyType, Ended, Established
<1>6. QED BY <1>2, <1>3, <1>4, <1>5, ZenonT(30) DEF Carries

\* A pass finds the host end connected.
LEMMA ConnectedCarries ==
    ASSUME NEW c, Carries(c)
    PROVE  Carries([c EXCEPT !.connected = TRUE])
<1>1. c \in ProxyType /\ Balanced(c) /\ Ended(c) BY ProxyFields, Zenon DEF Carries, Balanced
<1>2. PICK d : d = [c EXCEPT !.connected = TRUE] BY Zenon
<1>3. d \in ProxyType BY <1>1, <1>2, ProxyFields, Zenon DEF ProxyType, Established
<1>4. Balanced(d) BY <1>1, <1>2, ProxyFields, StackAssumption, Zenon DEF ProxyType, Balanced
<1>5. Ended(d) BY <1>1, <1>2, ProxyFields, Zenon DEF ProxyType, Ended, Established
<1>6. QED BY <1>2, <1>3, <1>4, <1>5, Zenon DEF Carries

\* A pass takes the bytes of the guest.
LEMMA TakenCarries ==
    ASSUME NEW c, Carries(c), c.toHost = 0
    PROVE  Carries([c EXCEPT !.toHost = c.recv, !.recv = 0])
<1>1. c \in ProxyType /\ Balanced(c) /\ Ended(c) BY ProxyFields, Zenon DEF Carries, Balanced
<1>2. PICK d : d = [c EXCEPT !.toHost = c.recv, !.recv = 0] BY Zenon
<1>3. d \in ProxyType BY <1>1, <1>2, ProxyFields, ZenonT(30) DEF ProxyType, Established
<1>4. Balanced(d) BY <1>1, <1>2, ProxyFields, StackAssumption DEF ProxyType, Balanced
<1>5. Ended(d) BY <1>1, <1>2, ProxyFields, ZenonT(30) DEF ProxyType, Ended, Established
<1>6. QED BY <1>2, <1>3, <1>4, <1>5, Zenon DEF Carries

\* A pass writes n bytes to the host.
LEMMA WrittenCarries ==
    ASSUME NEW c, Carries(c), NEW n \in Nat, n <= c.toHost, n <= BUFFER - c.hostIn
    PROVE  Carries([c EXCEPT !.toHost = @ - n, !.hostIn = @ + n])
<1>1. c \in ProxyType /\ Balanced(c) /\ Ended(c) /\ c.toHost - n \in Nat /\ c.hostIn + n \in Nat BY StackAssumption, ProxyFields DEF Carries, Balanced
<1>2. PICK d : d = [c EXCEPT !.toHost = @ - n, !.hostIn = @ + n] BY Zenon
<1>3. d \in ProxyType BY <1>1, <1>2, ProxyFields, ZenonT(30) DEF ProxyType, Established
<1>4. Balanced(d) BY <1>1, <1>2, ProxyFields, StackAssumption DEF ProxyType, Balanced
<1>5. Ended(d) BY <1>1, <1>2, ProxyFields DEF ProxyType, Ended, Established
<1>6. QED BY <1>2, <1>3, <1>4, <1>5, Zenon DEF Carries

\* A pass shuts the host end.
LEMMA ShutCarries ==
    ASSUME NEW c, Carries(c), c.tcp \in {"guest-fin", "both"}, c.toHost = 0, c.recv = 0
    PROVE  Carries([c EXCEPT !.guestClosed = TRUE])
<1>1. c \in ProxyType /\ Balanced(c) /\ Ended(c) BY ProxyFields, Zenon DEF Carries, Balanced
<1>2. PICK d : d = [c EXCEPT !.guestClosed = TRUE] BY Zenon
<1>3. d \in ProxyType BY <1>1, <1>2, ProxyFields, Zenon DEF ProxyType, Established
<1>4. Balanced(d) BY <1>1, <1>2, ProxyFields, StackAssumption, ZenonT(30) DEF ProxyType, Balanced
<1>5. Ended(d) BY <1>1, <1>2, ProxyFields, Zenon DEF ProxyType, Ended, Established
<1>6. QED BY <1>2, <1>3, <1>4, <1>5, Zenon DEF Carries

\* A pass sees the end of what the host sends.
LEMMA EofCarries ==
    ASSUME NEW c, Carries(c), c.hostOut = 0, ~c.hostClosed
    PROVE  Carries([c EXCEPT !.hostClosed = c.hostEof])
<1>1. c \in ProxyType /\ Balanced(c) /\ Ended(c) BY ProxyFields, Zenon DEF Carries, Balanced
<1>2. PICK d : d = [c EXCEPT !.hostClosed = c.hostEof] BY Zenon
<1>3. d \in ProxyType BY <1>1, <1>2, ProxyFields, ZenonT(30) DEF ProxyType, Established
<1>4. Balanced(d) BY <1>1, <1>2, ProxyFields, StackAssumption, Zenon DEF ProxyType, Balanced
<1>5. Ended(d) BY <1>1, <1>2, ProxyFields, Zenon DEF ProxyType, Ended, Established
<1>6. QED BY <1>2, <1>3, <1>4, <1>5, ZenonT(30) DEF Carries

\* A pass reads the bytes of the host.
LEMMA FetchedCarries ==
    ASSUME NEW c, Carries(c), c.toGuest = 0, ~c.hostClosed
    PROVE  Carries([c EXCEPT !.toGuest = c.hostOut, !.hostOut = 0])
<1>1. c \in ProxyType /\ Balanced(c) /\ Ended(c) BY ProxyFields, Zenon DEF Carries, Balanced
<1>2. PICK d : d = [c EXCEPT !.toGuest = c.hostOut, !.hostOut = 0] BY Zenon
<1>3. d \in ProxyType BY <1>1, <1>2, ProxyFields, ZenonT(30) DEF ProxyType, Established
<1>4. Balanced(d) BY <1>1, <1>2, ProxyFields, StackAssumption DEF ProxyType, Balanced
<1>5. Ended(d) BY <1>1, <1>2, ProxyFields, ZenonT(30) DEF ProxyType, Ended, Established
<1>6. QED BY <1>2, <1>3, <1>4, <1>5, Zenon DEF Carries

\* A pass gives n bytes to the socket.
LEMMA FedCarries ==
    ASSUME NEW c, Carries(c), NEW n \in Nat, n <= c.toGuest, n <= BUFFER - c.send
    PROVE  Carries([c EXCEPT !.toGuest = @ - n, !.send = @ + n])
<1>1. c \in ProxyType /\ Balanced(c) /\ Ended(c) /\ c.toGuest - n \in Nat /\ c.send + n \in Nat BY StackAssumption, ProxyFields DEF Carries, Balanced
<1>2. PICK d : d = [c EXCEPT !.toGuest = @ - n, !.send = @ + n] BY Zenon
<1>3. d \in ProxyType BY <1>1, <1>2, ProxyFields, Zenon DEF ProxyType, Established
<1>4. Balanced(d) BY <1>1, <1>2, ProxyFields, StackAssumption DEF ProxyType, Balanced
<1>5. Ended(d) BY <1>1, <1>2, ProxyFields DEF ProxyType, Ended, Established
<1>6. QED BY <1>2, <1>3, <1>4, <1>5, Zenon DEF Carries

\* A pass ends the side of the host.
LEMMA ClosesCarries ==
    ASSUME NEW c, Carries(c), c.hostClosed, c.toGuest = 0, MaySend(c)
    PROVE  Carries([c EXCEPT !.tcp = IF @ = "open" THEN "host-fin" ELSE "both"])
<1>1. c \in ProxyType /\ Balanced(c) /\ Ended(c) BY ProxyFields, Zenon DEF Carries, Balanced
<1>2. PICK d : d = [c EXCEPT !.tcp = IF @ = "open" THEN "host-fin" ELSE "both"] BY Zenon
<1>3. d \in ProxyType BY <1>1, <1>2, ProxyFields DEF ProxyType, Established
<1>4. Balanced(d) BY <1>1, <1>2, ProxyFields, StackAssumption, Zenon DEF ProxyType, Balanced
<1>5. Ended(d) BY <1>1, <1>2, ProxyFields, Zenon DEF ProxyType, Ended, Established, MaySend
<1>6. QED BY <1>2, <1>3, <1>4, <1>5, Zenon DEF Carries


\* A pass over a connection.
LEMMA PassCarries ==
    ASSUME NEW c, Carries(c), NEW d \in Pumped(c)
    PROVE  Carries(d)
<1>1. ASSUME NEW e, Carries(e) PROVE Carries(FromGuest(e))
  BY <1>1, TakenCarries, ZenonT(30) DEF FromGuest
<1>2. ASSUME NEW e, Carries(e) PROVE Carries(ToHost(e))
  <2>1. PICK n : n = Least(e.toHost, BUFFER - e.hostIn) OBVIOUS
  <2>2. e.toHost \in Nat /\ e.hostIn \in Nat /\ e.hostIn <= BUFFER
    BY <1>2, ProxyFields, Zenon DEF Carries, Balanced
  <2>3. n \in Nat /\ n <= e.toHost /\ n <= BUFFER - e.hostIn BY <2>1, <2>2, StackAssumption DEF Least
  <2>4. QED BY <1>2, <2>1, <2>3, WrittenCarries, Zenon DEF ToHost
<1>3. ASSUME NEW e, Carries(e) PROVE Carries(ShutHost(e))
  BY <1>3, ShutCarries, Zenon DEF ShutHost
<1>4. ASSUME NEW e, Carries(e) PROVE Carries(FromHost(e))
  <2>1. e.hostOut \in Nat /\ e.toGuest \in Nat /\ e.hostClosed \in BOOLEAN BY <1>4, ProxyFields, Zenon DEF Carries
  <2>2. CASE e.toGuest > 0 \/ e.hostClosed \/ ~CanSend(e) BY <1>4, <2>2, Zenon DEF FromHost
  <2>3. CASE ~(e.toGuest > 0 \/ e.hostClosed \/ ~CanSend(e)) /\ e.hostOut > 0
    <3>1. e.toGuest = 0 /\ ~e.hostClosed BY <2>1, <2>3, SMTT(30)
    <3>2. Carries([e EXCEPT !.toGuest = e.hostOut, !.hostOut = 0]) BY <1>4, <3>1, FetchedCarries, Zenon
    <3>3. QED BY <2>3, <3>2, Zenon DEF FromHost
  <2>4. CASE ~(e.toGuest > 0 \/ e.hostClosed \/ ~CanSend(e)) /\ ~(e.hostOut > 0)
    <3>1. e.hostOut = 0 /\ ~e.hostClosed BY <2>1, <2>4
    <3>2. Carries([e EXCEPT !.hostClosed = e.hostEof]) BY <1>4, <3>1, EofCarries, ZenonT(30)
    <3>3. QED BY <2>4, <3>2, Zenon DEF FromHost
  <2>5. QED BY <2>2, <2>3, <2>4, ZenonT(30)
<1>5. ASSUME NEW e, Carries(e) PROVE Carries(ToGuest(e))
  <2>1. PICK n : n = IF MaySend(e) THEN Least(e.toGuest, BUFFER - e.send) ELSE 0 OBVIOUS
  <2>2. e.toGuest \in Nat /\ e.send \in Nat /\ e.send <= BUFFER
    BY <1>5, ProxyFields, Zenon DEF Carries, Balanced
  <2>3. n \in Nat /\ n <= e.toGuest /\ n <= BUFFER - e.send BY <2>1, <2>2, StackAssumption DEF Least
  <2>4. QED BY <1>5, <2>1, <2>3, FedCarries, ZenonT(30) DEF ToGuest
<1>6. ASSUME NEW e, Carries(e) PROVE Carries(CloseGuest(e))
  BY <1>6, ClosesCarries, Zenon DEF CloseGuest
<1>7. ASSUME NEW e \in Carried(c) PROVE Carries(e)
  <2>1. e = CloseGuest(ToGuest(FromHost(ShutHost(ToHost(FromGuest([c EXCEPT !.connected = TRUE]))))))
    BY <1>7, Zenon DEF Carried
  <2>2. Carries(FromGuest([c EXCEPT !.connected = TRUE])) BY <1>1, ConnectedCarries, Zenon
  <2>3. QED BY <1>2, <1>3, <1>4, <1>5, <1>6, <2>1, <2>2, ZenonT(30)
<1>8. Carries([c EXCEPT !.tcp = "reset"]) BY OverCarries, Zenon
<1>9. QED BY <1>7, <1>8, Zenon DEF Pumped

\* One connection is changed and stays.
LEMMA OneChanged ==
    ASSUME StackKept, NEW h \in HANDLES, conn[h] # Absent, NEW c, Carries(c),
           conn' = [conn EXCEPT ![h] = c], listening' = listening
    PROVE  StackKept'
<1>1. c # Absent BY DEF Carries, ProxyType, Absent, Established
<1>2. /\ conn' = [g \in HANDLES |-> conn'[g]] /\ conn'[h] = c
      /\ \A g \in HANDLES : g # h => conn'[g] = conn[g]
  BY Zenon DEF StackKept
<1>3. Proxies' = Proxies BY <1>1, <1>2, Zenon DEF Proxies
<1>4. TableSound' BY <1>3, Zenon DEF StackKept, TableSound
<1>5. QED BY <1>2, <1>4, Zenon DEF StackKept

\* A connection is opened on a free handle, or none is.
LEMMA OpenedKept ==
    ASSUME StackKept, NEW opens \in MayOpen, NEW new, new = Opened(opens), ListenFor(opens)
    PROVE  /\ new = [h \in HANDLES |-> new[h]]
           /\ \A h \in HANDLES : new[h] = Absent \/ Carries(new[h])
           /\ listening' \subseteq {h \in HANDLES : new[h] # Absent}
           /\ Cardinality({h \in HANDLES : new[h] # Absent}) <= CONNECTIONS
<1>1. CASE ~opens
  <2>1. new = conn BY <1>1, Zenon DEF Opened
  <2>2. listening' \subseteq listening BY <1>1, Zenon DEF ListenFor
  <2>3. QED BY <2>1, <2>2, Zenon DEF StackKept, TableSound, Proxies
<1>2. CASE opens
  <2>1. ~Listens /\ ~AtLimit /\ Slots # {} BY <1>2, Zenon DEF MayOpen
  <2>2. PICK f : f = Any(Slots) OBVIOUS
  <2>3. f \in Slots BY <2>1, <2>2, Zenon DEF Any
  <2>4. f \in HANDLES /\ f \notin Proxies BY <2>3, Zenon DEF Slots
  <2>5. new = [conn EXCEPT ![f] = Proxy] /\ listening' = {f} BY <1>2, <2>1, <2>2, Zenon DEF Opened, ListenFor
  <2>6. /\ new = [h \in HANDLES |-> new[h]] /\ new[f] = Proxy /\ \A h \in HANDLES : h # f => new[h] = conn[h]
    BY <2>4, <2>5, Zenon DEF StackKept
  <2>7. Proxy # Absent BY ProxyCarries DEF Carries, ProxyType, Absent, Established
  <2>8. {h \in HANDLES : new[h] # Absent} = Proxies \cup {f} BY <2>4, <2>6, <2>7, Zenon DEF Proxies
  <2>9. IsFiniteSet(Proxies) /\ Cardinality(Proxies) \in Nat
    BY StackAssumption, FS_Subset, FS_CardinalityType, Zenon DEF Proxies
  <2>10. Cardinality(Proxies \cup {f}) = Cardinality(Proxies) + 1
    BY <2>4, <2>9, FS_AddElement, Zenon
  <2>11. Cardinality(Proxies) + 1 <= CONNECTIONS BY <2>1, <2>9, StackAssumption DEF AtLimit
  <2>12. \A h \in HANDLES : new[h] = Absent \/ Carries(new[h]) BY <2>6, ProxyCarries, Zenon DEF StackKept
  <2>13. QED BY <2>5, <2>6, <2>8, <2>10, <2>11, <2>12, ZenonT(30)
<1>3. QED BY <1>1, <1>2, Zenon DEF MayOpen

\* A SYN of the guest.
LEMMA SynStep ==
    ASSUME StackKept, GuestSyn \/ GuestSynAgain
    PROVE  StackKept'
<1>1. ASSUME NEW new, conn' = new,
             new = [h \in HANDLES |-> new[h]], \A h \in HANDLES : new[h] = Absent \/ Carries(new[h]),
             listening' \subseteq {h \in HANDLES : new[h] # Absent},
             Cardinality({h \in HANDLES : new[h] # Absent}) <= CONNECTIONS
      PROVE  StackKept'
  BY <1>1, Zenon DEF StackKept, TableSound, Proxies
<1>2. CASE GuestSynAgain
  <2>1. PICK opens \in MayOpen : ListenFor(opens) /\ conn' = Opened(opens) BY <1>2, Zenon DEF GuestSynAgain
  <2>2. QED BY <1>1, <2>1, OpenedKept, Zenon
<1>3. CASE GuestSyn
  <2>1. PICK opens \in MayOpen :
          LET takes == {h \in HANDLES : Opened(opens)[h].tcp = "listen"}
          IN  /\ ListenFor(opens)
              /\ conn' = [h \in HANDLES |-> IF takes # {} /\ h = Any(takes)
                                            THEN [Opened(opens)[h] EXCEPT !.tcp = "syn"] ELSE Opened(opens)[h]]
    BY <1>3, Zenon DEF GuestSyn
  <2>2. PICK was : was = Opened(opens) OBVIOUS
  <2>3. PICK takes : takes = {h \in HANDLES : was[h].tcp = "listen"} BY Zenon
  <2>4. ListenFor(opens)
        /\ conn' = [h \in HANDLES |-> IF takes # {} /\ h = Any(takes) THEN [was[h] EXCEPT !.tcp = "syn"] ELSE was[h]]
    BY <2>1, <2>2, <2>3, Zenon
  <2>5. /\ \A h \in HANDLES : was[h] = Absent \/ Carries(was[h])
        /\ listening' \subseteq {h \in HANDLES : was[h] # Absent}
        /\ Cardinality({h \in HANDLES : was[h] # Absent}) <= CONNECTIONS
    BY <2>2, <2>4, OpenedKept, ZenonT(30)
  <2>6. ASSUME NEW h \in HANDLES
        PROVE  /\ conn'[h] = Absent \/ Carries(conn'[h])
               /\ conn'[h] # Absent <=> was[h] # Absent
    <3>1. CASE takes # {} /\ h = Any(takes)
      <4>1. h \in takes BY <3>1, Zenon DEF Any
      <4>2. was[h].tcp = "listen" BY <2>3, <4>1, Zenon
      <4>3. was[h] # Absent BY <4>2 DEF Absent
      <4>4. Carries(was[h]) BY <2>5, <4>3, ZenonT(30)
      <4>5. Carries([was[h] EXCEPT !.tcp = "syn"]) BY <4>2, <4>4, SynCarries, Zenon
      <4>6. conn'[h] = [was[h] EXCEPT !.tcp = "syn"] BY <2>4, <3>1, Zenon
      <4>7. conn'[h] # Absent BY <4>5, <4>6, ZenonT(30) DEF Carries, ProxyType, Absent, Established
      <4>8. QED BY <4>3, <4>5, <4>6, <4>7, ZenonT(30)
    <3>2. CASE ~(takes # {} /\ h = Any(takes))
      <4>1. conn'[h] = was[h] BY <2>4, <3>2, Zenon
      <4>2. QED BY <4>1, <2>5, Zenon
    <3>3. QED BY <3>1, <3>2, Zenon
  <2>7. {h \in HANDLES : conn'[h] # Absent} = {h \in HANDLES : was[h] # Absent} BY <2>6, Zenon
  <2>8. conn' = [h \in HANDLES |-> conn'[h]] BY <2>4, Zenon
  <2>9. QED BY <2>5, <2>6, <2>7, <2>8, ZenonT(30) DEF StackKept, TableSound, Proxies
<1>4. QED BY <1>2, <1>3, Zenon

\* A pass over the connection of a handle, which goes if it is over.
LEMMA PumpStep ==
    ASSUME StackKept, NEW h \in HANDLES, Pump(h)
    PROVE  StackKept'
<1>1. conn[h] # Absent /\ Carries(conn[h]) BY Zenon DEF Pump, StackKept
<1>2. PICK c \in Pumped(conn[h]) :
        /\ conn' = [conn EXCEPT ![h] = IF c.tcp \in {"closed", "reset"} THEN Absent ELSE c]
        /\ listening' = IF c.tcp \in {"closed", "reset"} THEN Unlisted(h) ELSE listening
  BY Zenon DEF Pump
<1>3. Carries(c) BY <1>1, <1>2, PassCarries, ZenonT(30)
<1>4. CASE c.tcp \notin {"closed", "reset"}
  BY <1>1, <1>2, <1>3, <1>4, OneChanged, ZenonT(30)
<1>5. CASE c.tcp \in {"closed", "reset"}
  <2>1. conn' = [conn EXCEPT ![h] = Absent] /\ listening' = listening \ {h} BY <1>2, <1>5, Zenon DEF Unlisted
  <2>2. /\ conn' = [g \in HANDLES |-> conn'[g]] /\ conn'[h] = Absent
        /\ \A g \in HANDLES : g # h => conn'[g] = conn[g]
    BY <2>1, Zenon DEF StackKept
  <2>3. Proxies' = Proxies \ {h} BY <2>2, Zenon DEF Proxies
  <2>4. IsFiniteSet(Proxies) BY StackAssumption, FS_Subset, Zenon DEF Proxies
  <2>5. Cardinality(Proxies') <= Cardinality(Proxies) /\ Cardinality(Proxies) \in Nat /\ Cardinality(Proxies') \in Nat
    BY <2>3, <2>4, FS_Subset, FS_CardinalityType, ZenonT(30)
  <2>6. TableSound' BY <2>1, <2>3, <2>5, StackAssumption DEF StackKept, TableSound
  <2>7. QED BY <2>2, <2>6, Zenon DEF StackKept
<1>6. QED BY <1>4, <1>5, Zenon

\* The guest, the host end and smoltcp.
LEMMA EndsStep ==
    ASSUME StackKept, NEW h \in HANDLES, Guest(h) \/ GuestReads(h) \/ TcpCloses(h) \/ Host(h) \/ HostReads(h)
    PROVE  StackKept'
<1>1. conn[h] # Absent
  BY DEF Guest, GuestReads, TcpCloses, Host, HostReads, GuestAcks, GuestSends, GuestFins, TcpResets,
     Established,
         HostConnects, HostSends, HostFins, HostBreaks, Absent
<1>2. Carries(conn[h]) BY <1>1, Zenon DEF StackKept
<1>3. PICK c : /\ conn' = [conn EXCEPT ![h] = c] /\ listening' = listening
               /\ \/ conn[h].tcp \in {"listen", "syn"} /\ c = [conn[h] EXCEPT !.tcp = "open"]
                  \/ /\ conn[h].tcp \in {"open", "host-fin"}
                     /\ c = [conn[h] EXCEPT !.guestSent = @ + 1, !.recv = @ + 1]
                  \/ /\ conn[h].tcp \in {"open", "host-fin"}
                     /\ c = [conn[h] EXCEPT !.tcp = IF @ = "open" THEN "guest-fin" ELSE "both"]
                  \/ \E over \in {"closed", "reset"} : c = [conn[h] EXCEPT !.tcp = over]
                  \/ c = [conn[h] EXCEPT !.guestGot = @ + conn[h].send, !.send = 0]
                  \/ \E how \in {"done", "failed", "broken"} : c = [conn[h] EXCEPT !.host = how]
                  \/ ~conn[h].hostEof /\ c = [conn[h] EXCEPT !.hostSent = @ + 1, !.hostOut = @ + 1]
                  \/ c = [conn[h] EXCEPT !.hostEof = TRUE]
                  \/ c = [conn[h] EXCEPT !.hostGot = @ + conn[h].hostIn, !.hostIn = 0]
  BY Zenon DEF Guest, GuestReads, TcpCloses, Host, HostReads, GuestAcks, GuestSends, GuestFins,
     TcpResets, HostConnects,
         HostSends, HostFins, HostBreaks, GuestSide, HostSide
<1>4. Carries(c)
  <2>1. CASE conn[h].tcp \in {"listen", "syn"} /\ c = [conn[h] EXCEPT !.tcp = "open"]
    BY <1>2, <2>1, SynCarries, Zenon
  <2>2. CASE conn[h].tcp \in {"open", "host-fin"} /\ c = [conn[h] EXCEPT !.guestSent = @ + 1, !.recv = @ + 1]
    BY <1>2, <2>2, SendsCarries, Zenon
  <2>3. CASE conn[h].tcp \in {"open", "host-fin"}
             /\ c = [conn[h] EXCEPT !.tcp = IF @ = "open" THEN "guest-fin" ELSE "both"]
    BY <1>2, <2>3, FinsCarries, Zenon
  <2>4. CASE \E over \in {"closed", "reset"} : c = [conn[h] EXCEPT !.tcp = over]
    <3>1. PICK over \in {"closed", "reset"} : c = [conn[h] EXCEPT !.tcp = over] BY <2>4, Zenon
    <3>2. Carries([conn[h] EXCEPT !.tcp = over]) BY <1>2, OverCarries, Zenon
    <3>3. QED BY <3>1, <3>2, Zenon
  <2>5. CASE c = [conn[h] EXCEPT !.guestGot = @ + conn[h].send, !.send = 0]
    BY <1>2, <2>5, ReadsCarries, Zenon
  <2>6. CASE \E how \in {"done", "failed", "broken"} : c = [conn[h] EXCEPT !.host = how]
    <3>1. PICK how \in {"done", "failed", "broken"} : c = [conn[h] EXCEPT !.host = how] BY <2>6, Zenon
    <3>2. Carries([conn[h] EXCEPT !.host = how]) BY <1>2, HostCarries, Zenon
    <3>3. QED BY <3>1, <3>2, Zenon
  <2>7. CASE ~conn[h].hostEof /\ c = [conn[h] EXCEPT !.hostSent = @ + 1, !.hostOut = @ + 1]
    BY <1>2, <2>7, HostSendsCarries, Zenon
  <2>8. CASE c = [conn[h] EXCEPT !.hostEof = TRUE]
    BY <1>2, <2>8, HostFinsCarries, Zenon
  <2>9. CASE c = [conn[h] EXCEPT !.hostGot = @ + conn[h].hostIn, !.hostIn = 0]
    BY <1>2, <2>9, HostReadsCarries, ZenonT(30)
  <2>10. QED BY <1>3, <2>1, <2>2, <2>3, <2>4, <2>5, <2>6, <2>7, <2>8, <2>9, ZenonT(30)
<1>5. QED BY <1>1, <1>3, <1>4, OneChanged, ZenonT(30)

\* For any handles, limits and buffers: no byte of a connection is lost or made up, an end of
\* stream comes after the last byte, and the table of listeners names connections that exist,
\* no more of them than the limit (Stack::pump, pump_tcp, listen_for).
THEOREM ConnectionsAreSound == StackSpec => []ConnectionsSound
<1>1. StackInit => StackKept
  <2> SUFFICES ASSUME StackInit PROVE StackKept OBVIOUS
  <2>1. Proxies = {} BY Zenon DEF StackInit, Proxies
  <2>2. Cardinality({}) = 0 BY FS_EmptySet, Zenon
  <2>3. TableSound BY <2>1, <2>2, StackAssumption DEF StackInit, TableSound
  <2>4. QED BY <2>3, Zenon DEF StackInit, StackKept
<1>2. StackKept /\ [StackNext]_stackVars => StackKept'
  <2> SUFFICES ASSUME StackKept, [StackNext]_stackVars PROVE StackKept' OBVIOUS
  <2>1. CASE UNCHANGED stackVars BY <2>1, Zenon DEF stackVars, StackKept, TableSound, Proxies
  <2>2. CASE Tcp BY <2>2, PumpStep, EndsStep, Zenon DEF Tcp
  <2>3. QED BY <2>1, <2>2, SynStep, ZenonT(30) DEF StackNext
<1>3. StackKept => ConnectionsSound
  <2> SUFFICES ASSUME StackKept PROVE ConnectionsSound OBVIOUS
  <2>1. ASSUME NEW h \in Proxies PROVE Carries(conn[h]) BY Zenon DEF StackKept, Proxies
  <2>2. BytesConserved BY <2>1, Zenon DEF BytesConserved, Carries, Balanced
  <2>3. ASSUME NEW c, Carries(c)
        PROVE  /\ c.guestClosed => c.hostIn + c.hostGot = c.guestSent
               /\ c.tcp \in {"host-fin", "both"} => c.hostEof /\ c.send + c.guestGot = c.hostSent
    BY <2>3, ProxyFields DEF Carries, Balanced, Ended
  <2>4. EndIsLast BY <2>1, <2>3, Zenon DEF EndIsLast
  <2>5. QED BY <2>2, <2>4, Zenon DEF ConnectionsSound, StackKept
<1>4. QED BY <1>1, <1>2, <1>3, PTL DEF StackSpec
=============================================================================
