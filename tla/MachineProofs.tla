--------------------------- MODULE MachineProofs ---------------------------
(***************************************************************************)
(* Safety of the machine for any number of vCPUs and stop handles.         *)
(***************************************************************************)
EXTENDS Machine, FiniteSetTheorems, TLAPS

\* What the owner knows where it is: nothing is spawned twice, handles below
\* the join index are gone, and only a panicked vCPU thread makes the owner
\* lose a handle.
Bookkeeping ==
    /\ step = "spawn" => /\ state = "Created"
                         /\ \A t \in Threads : t >= at => pc[t] = "absent"
    /\ step = "join" => \A t \in handles : t >= at
    /\ state = "Shutdown" => handles = {}
    /\ (\A v \in Vcpus : pc[v] # "panicked") => NoneDetached

\* The inductive invariant.
IInv == TypeOK /\ ParkedExact /\ HeldStill /\ Bookkeeping

\* A machine just assembled satisfies the invariant.
LEMMA InitIInv == Init => IInv
  <1> SUFFICES ASSUME Init PROVE IInv
    OBVIOUS
  <1> USE NAssumption DEF Init
  <1>1. TypeOK
    <2>1. /\ state \in States /\ order \in Orders /\ parked \in Nat
          /\ op \in Ops /\ step \in Steps /\ answer \in Answers
      BY Zenon DEF States, Orders, Ops, Steps, Answers
    <2>2. /\ pc \in [Threads -> PCs]
          /\ \A t \in Threads : pc[t] \notin {"poll", "serve", "lock"} \cup Locked
      BY Zenon DEF PCs, Locked
    <2>3. /\ immediate_exit \in [Vcpus -> BOOLEAN] /\ signal \in [Vcpus -> BOOLEAN]
          /\ kick \in BOOLEAN
      BY ZenonT(30)
    <2>4. handles \subseteq Threads /\ at \in Threads
      BY DEF Threads
    <2>5. stopping \in [Handles -> 0 .. N + 1]
      OBVIOUS
    <2> QED
      BY <2>1, <2>2, <2>3, <2>4, <2>5, Zenon DEF TypeOK
  <1>2. Parked = {}
    BY Zenon DEF Parked
  <1>3. ParkedExact
    BY <1>2, FS_EmptySet, Zenon DEF ParkedExact
  <1>4. HeldStill /\ Bookkeeping
    BY Zenon DEF HeldStill, Bookkeeping, NoneDetached, Alive, Finished, Threads, Vcpus
  <1> QED
    BY <1>1, <1>3, <1>4, Zenon DEF IInv

\* The parked threads are finitely many.
LEMMA ParkedFinite == IsFiniteSet(Threads) /\ IsFiniteSet(Parked)
  <1>1. IsFiniteSet(Threads)
    BY NAssumption, FS_Interval DEF Threads
  <1> QED
    BY <1>1, FS_Subset, Zenon DEF Parked

\* A parked thread is counted, so waking it does not take the count below zero.
LEMMA ParkedPositive ==
  ASSUME ParkedExact, NEW t \in Threads, pc[t] = "parked"
  PROVE  parked >= 1
  <1>1. t \in Parked /\ Cardinality(Parked) \in Nat
    BY ParkedFinite, FS_CardinalityType, Zenon DEF Parked
  <1>2. Cardinality(Parked) # 0
    BY <1>1, ParkedFinite, FS_EmptySet, ZenonT(30)
  <1> QED
    BY <1>1, <1>2 DEF ParkedExact

\* Every step keeps each variable in its type.
LEMMA NextTypeOK == TypeOK /\ ParkedExact /\ Bookkeeping /\ [Next]_vars => TypeOK'
  <1> SUFFICES ASSUME TypeOK, ParkedExact, Bookkeeping, [Next]_vars PROVE TypeOK'
    OBVIOUS
  <1> USE NAssumption DEF TypeOK, orders, kicks, owner, Threads, Vcpus, Device, Locked
  <1>1. ASSUME NEW v \in Vcpus, Lock(v) PROVE TypeOK'
    BY <1>1, Zenon DEF Lock, Goto, PCs
  <1>2. ASSUME NEW v \in Vcpus, Enter(v) PROVE TypeOK'
    BY <1>2, Zenon DEF Enter, Goto, PCs
  <1>3. ASSUME NEW v \in Vcpus, LeaveGuest(v) PROVE TypeOK'
    BY <1>3, ZenonT(30) DEF LeaveGuest, Goto, PCs
  <1>4. ASSUME NEW v \in Vcpus, GuestKick(v) PROVE TypeOK'
    BY <1>4, Zenon DEF GuestKick, Goto, PCs
  <1>5. ASSUME NEW v \in Vcpus, TakeSignal(v) PROVE TypeOK'
    BY <1>5, ZenonT(30) DEF TakeSignal, Goto, PCs
  <1>6. ASSUME NEW v \in Vcpus, ClearExit(v) PROVE TypeOK'
    BY <1>6, Zenon DEF ClearExit, Goto, PCs
  <1>7. CASE Poll
    BY <1>7, ZenonT(30) DEF Poll, Goto, PCs
  <1>8. CASE PollFails
    BY <1>8, ZenonT(30) DEF PollFails, Goto, PCs
  <1>9. CASE Serve
    BY <1>9, ZenonT(30) DEF Serve, Goto, PCs
  <1>10. ASSUME NEW t \in Threads, Confine(t) PROVE TypeOK'
    BY <1>10, ZenonT(60) DEF Confine, Goto, Loop, PCs, Orders
  <1>11. ASSUME NEW t \in Threads, ReadOrder(t) PROVE TypeOK'
    BY <1>11, Zenon DEF ReadOrder, Goto, Loop, PCs, Orders
  <1>12. ASSUME NEW t \in Threads, Park(t) PROVE TypeOK'
    BY <1>12 DEF Park, Goto, Loop, PCs, Orders
  <1>13. ASSUME NEW t \in Threads, Unpark(t) PROVE TypeOK'
    <2>1. parked >= 1
      BY <1>13, ParkedPositive, Zenon DEF Unpark, Goto
    <2> QED
      BY <1>13, <2>1 DEF Unpark, Goto, Loop, PCs, Orders
  <1>14. ASSUME NEW t \in Threads, End(t) PROVE TypeOK'
    BY <1>14, ZenonT(30) DEF End, Goto, Loop, PCs, Orders
  <1>15. CASE Spawn
    BY <1>15 DEF Spawn, Return, Goes, States, Orders, Ops, Steps, Answers, PCs, Bookkeeping
  <1>16. CASE SpawnFails
    BY <1>16 DEF SpawnFails, Return, Goes, States, Orders, Ops, Steps, Answers, PCs, Bookkeeping
  <1>17. CASE AskFlag
    <2>1. immediate_exit' \in [Vcpus -> BOOLEAN]
      BY <1>17, ZenonT(30) DEF AskFlag
    <2>2. at' \in Threads /\ step' \in Steps
      BY <1>17 DEF AskFlag, Goes, Steps
    <2> QED
      BY <1>17, <2>1, <2>2, Zenon DEF AskFlag, Goes
  <1>18. CASE AskSignal
    <2>1. signal' \in [Vcpus -> BOOLEAN]
      <3>1. (at \in handles /\ Alive(at)) \in BOOLEAN
        BY Zenon DEF Alive
      <3> QED
        BY <1>18, <3>1, ZenonT(30) DEF AskSignal
    <2>2. at' \in Threads /\ step' \in Steps
      BY <1>18 DEF AskSignal, Goes, Steps
    <2> QED
      BY <1>18, <2>1, <2>2, ZenonT(30) DEF AskSignal, Goes
  <1>19. CASE AskKick
    <2>1. /\ at' \in Threads /\ step' \in Steps
          /\ op' \in Ops /\ answer' \in Answers
      BY <1>19 DEF AskKick, Goes, Return, Steps, Ops, Answers
    <2>2. kick' \in BOOLEAN
      BY <1>19, Zenon DEF AskKick
    <2> QED
      BY <1>19, <2>1, <2>2, ZenonT(30) DEF AskKick
  <1>20. CASE AskFails
    BY <1>20 DEF AskFails, Return, Goes, States, Orders, Ops, Steps, Answers, PCs, Bookkeeping
  <1>21. CASE StillHeld
    BY <1>21 DEF StillHeld, Return, Goes, States, Orders, Ops, Steps, Answers, PCs, Bookkeeping
  <1>22. CASE StillNot
    BY <1>22 DEF StillNot, Return, Goes, States, Orders, Ops, Steps, Answers, PCs, Bookkeeping
  <1>23. CASE StopStands
    BY <1>23 DEF StopStands, Return, Goes, States, Orders, Ops, Steps, Answers, PCs, Bookkeeping
  <1>24. CASE WaitTimesOut
    BY <1>24 DEF WaitTimesOut, Return, Goes, States, Orders, Ops, Steps, Answers, PCs, Bookkeeping
  <1>25. CASE Join
    <2>1. handles' \subseteq Threads
      BY <1>25, ZenonT(30) DEF Join
    <2>2. /\ at' \in Threads /\ step' \in Steps /\ state' \in States
          /\ op' \in Ops /\ answer' \in Answers
      BY <1>25 DEF Join, Goes, Return, Steps, Ops, Answers, States
    <2> QED
      BY <1>25, <2>1, <2>2, ZenonT(30) DEF Join
  <1>26. CASE MakeDirectory
    BY <1>26 DEF MakeDirectory, Return, Goes, States, Orders, Ops, Steps, Answers, PCs, Bookkeeping
  <1>27. CASE CaptureVcpu
    BY <1>27 DEF CaptureVcpu, Return, Goes, States, Orders, Ops, Steps, Answers, PCs, Bookkeeping
  <1>28. CASE WriteMemory
    BY <1>28 DEF WriteMemory, Return, Goes, States, Orders, Ops, Steps, Answers, PCs, Bookkeeping
  <1>29. CASE WriteDocument
    BY <1>29 DEF WriteDocument, Return, Goes, States, Orders, Ops, Steps, Answers, PCs, Bookkeeping
  <1>30. CASE Start
    BY <1>30 DEF Start, Idle, Return, Call, States, Orders, Ops, Steps, Answers
  <1>31. CASE Pause
    BY <1>31 DEF Pause, Idle, Return, Call, States, Orders, Ops, Steps, Answers
  <1>32. CASE Resume
    BY <1>32 DEF Resume, Idle, Return, Call, States, Orders, Ops, Steps, Answers
  <1>33. CASE Stop
    BY <1>33 DEF Stop, Idle, Return, Call, States, Orders, Ops, Steps, Answers
  <1>34. CASE Wait
    BY <1>34 DEF Wait, Idle, Return, Call, States, Orders, Ops, Steps, Answers
  <1>35. CASE Snapshot
    BY <1>35 DEF Snapshot, Idle, Return, Call, States, Orders, Ops, Steps, Answers
  <1>36. ASSUME NEW h \in Handles, HandleStop(h) PROVE TypeOK'
    BY <1>36 DEF HandleStop, Orders
  <1>37. ASSUME NEW h \in Handles, HandleFlag(h) PROVE TypeOK'
    BY <1>37 DEF HandleFlag, Orders
  <1>38. ASSUME NEW h \in Handles, HandleKick(h) PROVE TypeOK'
    <2>1. kick' \in BOOLEAN
      BY <1>38, ZenonT(30) DEF HandleKick
    <2> QED
      BY <1>38, <2>1 DEF HandleKick, Orders
  <1>39. CASE UNCHANGED vars
    BY <1>39, Zenon DEF vars
  <1> QED
    BY ZenonT(30), <1>1, <1>2, <1>3, <1>4, <1>5, <1>6, <1>7, <1>8, <1>9, <1>10, <1>11, <1>12, <1>13, <1>14,
       <1>15, <1>16, <1>17, <1>18, <1>19, <1>20, <1>21, <1>22, <1>23, <1>24, <1>25, <1>26, <1>27,
       <1>28, <1>29, <1>30, <1>31, <1>32, <1>33, <1>34, <1>35, <1>36, <1>37, <1>38, <1>39
       DEF Next, VcpuStep, DeviceStep, ThreadStep, OwnerStep, OwnerCall, HandleStep

\* `parked` keeps counting the parked threads.
LEMMA NextParkedExact == TypeOK /\ ParkedExact /\ Bookkeeping /\ [Next]_vars => ParkedExact'
  <1> SUFFICES ASSUME TypeOK, ParkedExact, Bookkeeping, [Next]_vars PROVE ParkedExact'
    OBVIOUS
  <1> USE NAssumption DEF TypeOK, orders, kicks, owner
  <1>1. ASSUME Parked' = Parked, parked' = parked PROVE ParkedExact'
    BY <1>1, Zenon DEF ParkedExact
  <1>2. ASSUME NEW v \in Vcpus, VcpuStep(v) PROVE Parked' = Parked /\ parked' = parked
    BY <1>2, ZenonT(30) DEF VcpuStep, Lock, Enter, LeaveGuest, GuestKick, TakeSignal, ClearExit, Goto,
                Parked, Vcpus, Threads
  <1>3. ASSUME DeviceStep PROVE Parked' = Parked /\ parked' = parked
    BY <1>3, ZenonT(30) DEF DeviceStep, Poll, PollFails, Serve, Goto, Parked, Device, Threads
  <1>4. ASSUME NEW t \in Threads, Confine(t) \/ ReadOrder(t) \/ End(t)
        PROVE  Parked' = Parked /\ parked' = parked
    BY <1>4, Zenon DEF Confine, ReadOrder, End, Goto, Loop, Parked, Orders
  <1>5. ASSUME NEW t \in Threads, Park(t) PROVE ParkedExact'
    <2>1. CASE order = "Hold"
      <3>1. Parked' = Parked \cup {t} /\ t \notin Parked
        BY <1>5, <2>1, Zenon DEF Park, Goto, Parked
      <3>2. parked' = parked + 1
        BY <1>5, <2>1, Zenon DEF Park
      <3> QED
        BY <3>1, <3>2, ParkedFinite, FS_AddElement, ZenonT(30) DEF ParkedExact
    <2>2. CASE order # "Hold"
      <3>1. Parked' = Parked /\ parked' = parked
        BY <1>5, <2>2, Zenon DEF Park, Goto, Loop, Parked
      <3> QED
        BY <1>1, <3>1, Zenon
    <2> QED
      BY <2>1, <2>2, Zenon
  <1>6. ASSUME NEW t \in Threads, Unpark(t) PROVE ParkedExact'
    <2>1. Parked' = Parked \ {t} /\ t \in Parked
      BY <1>6, Zenon DEF Unpark, Goto, Loop, Parked
    <2>2. parked' = parked - 1
      BY <1>6, Zenon DEF Unpark
    <2> QED
      BY <2>1, <2>2, ParkedFinite, FS_RemoveElement, ZenonT(30) DEF ParkedExact
  <1>7. ASSUME Spawn PROVE Parked' = Parked /\ parked' = parked
    BY <1>7 DEF Spawn, Bookkeeping, Parked, Threads
  <1>8. ASSUME OwnerStep, ~Spawn PROVE UNCHANGED <<pc, parked>>
    BY <1>8, Zenon DEF OwnerStep, SpawnFails, AskFlag, AskSignal, AskKick, AskFails, StillHeld, StillNot,
                StopStands, WaitTimesOut, Join, MakeDirectory, CaptureVcpu, WriteMemory,
                WriteDocument
  <1>9. ASSUME OwnerCall PROVE UNCHANGED <<pc, parked>>
    BY <1>9, Zenon DEF OwnerCall, Start, Pause, Resume, Stop, Wait, Snapshot
  <1>10. ASSUME NEW h \in Handles, HandleStep(h) PROVE UNCHANGED <<pc, parked>>
    BY <1>10, ZenonT(30) DEF HandleStep, HandleStop, HandleFlag, HandleKick
  <1>11. ASSUME UNCHANGED <<pc, parked>> PROVE Parked' = Parked /\ parked' = parked
    BY <1>11, Zenon DEF Parked
  <1>12. CASE UNCHANGED vars
    BY <1>1, <1>11, <1>12, Zenon DEF vars
  <1> QED
    BY <1>1, <1>2, <1>3, <1>4, <1>5, <1>6, <1>7, <1>8, <1>9, <1>10, <1>11, <1>12, ZenonT(30)
       DEF Next, ThreadStep

\* A hold that stands stays still: a pause reports it only once every thread
\* is parked, and a parked thread moves only after the order changed.
LEMMA NextHeldStill == IInv /\ [Next]_vars => HeldStill'
  <1> SUFFICES ASSUME IInv, [Next]_vars, state' = "Paused", order' = "Hold", NoneDetached',
                      NEW s \in Threads, Alive(s)'
               PROVE  pc'[s] = "parked"
    BY Zenon DEF HeldStill
  <1> USE NAssumption DEF IInv, TypeOK, orders, kicks, owner
  <1> DEFINE Still == state = "Paused" /\ order = "Hold" /\ NoneDetached
  <1>1. ASSUME Still, pc' = pc PROVE pc'[s] = "parked"
    BY <1>1, Zenon DEF HeldStill, Alive
  <1>2. ASSUME NEW t \in Threads, Still, ThreadStep(t) \/ (t \in Vcpus /\ VcpuStep(t))
        PROVE  pc' = pc \/ End(t)
    <2>1. Alive(t) => pc[t] = "parked"
      BY <1>2, Zenon DEF HeldStill
    <2> QED
      BY <1>2, <2>1, Zenon DEF ThreadStep, Confine, ReadOrder, Park, Unpark, Goto, Alive, Finished,
                        VcpuStep, Lock, Enter, LeaveGuest, GuestKick, TakeSignal, ClearExit
  <1>3. ASSUME Still, DeviceStep PROVE FALSE
    <2>1. Device \in Threads /\ (Alive(Device) => pc[Device] = "parked")
      BY <1>3 DEF HeldStill, Device, Threads
    <2> QED
      BY <1>3, <2>1, Zenon DEF DeviceStep, Poll, PollFails, Serve, Goto, Alive, Finished
  <1>4. ASSUME NEW t \in Threads, End(t) PROVE FALSE
    BY <1>4, Zenon DEF End
  <1>5. ASSUME NEW t \in Threads, ThreadStep(t), ~End(t) PROVE Still
    <2>1. UNCHANGED <<state, order, handles>>
      BY <1>5, Zenon DEF ThreadStep, Confine, ReadOrder, Park, Unpark
    <2>2. \A u \in Threads : Alive(u) => Alive(u)'
      BY <1>5, ZenonT(30) DEF ThreadStep, Confine, ReadOrder, Park, Unpark, Goto, Loop, Alive, Finished, Orders
    <2> QED
      BY <2>1, <2>2, Zenon DEF NoneDetached
  <1>6. ASSUME NEW v \in Vcpus, VcpuStep(v) PROVE Still
    <2>1. UNCHANGED <<state, order, handles>>
      BY <1>6, Zenon DEF VcpuStep, Lock, Enter, LeaveGuest, GuestKick, TakeSignal, ClearExit
    <2>2. \A u \in Threads : Alive(u) => Alive(u)'
      BY <1>6, ZenonT(30) DEF VcpuStep, Lock, Enter, LeaveGuest, GuestKick, TakeSignal, ClearExit,
                  Goto, Alive, Finished
    <2> QED
      BY <2>1, <2>2, Zenon DEF NoneDetached
  <1>7. ASSUME DeviceStep PROVE Still
    <2>1. UNCHANGED <<state, order, handles>>
      BY <1>7, Zenon DEF DeviceStep, Poll, PollFails, Serve
    <2>2. \A u \in Threads : Alive(u) => Alive(u)'
      BY <1>7, ZenonT(30) DEF DeviceStep, Poll, PollFails, Serve, Goto, Alive, Finished
    <2> QED
      BY <2>1, <2>2, Zenon DEF NoneDetached
  <1>8. ASSUME Spawn PROVE FALSE
    BY <1>8, Zenon DEF Spawn, Bookkeeping
  <1>9. ASSUME StillHeld PROVE pc'[s] = "parked"
    <2>1. UNCHANGED <<pc, handles>> /\ parked >= Cardinality(handles)
      BY <1>9, Zenon DEF StillHeld
    <2>2. Parked \subseteq handles
      BY <2>1, Zenon DEF NoneDetached, Parked, Alive, Finished
    <2>3. IsFiniteSet(handles)
      BY ParkedFinite, FS_Subset, Zenon
    <2>4. Parked = handles
      BY <2>1, <2>2, <2>3, FS_Subset, FS_CardinalityType DEF ParkedExact
    <2> QED
      BY <2>1, <2>4, Zenon DEF NoneDetached, Parked
  <1>10. ASSUME OwnerStep, ~Spawn, ~StillHeld PROVE Still /\ pc' = pc
    <2>1. UNCHANGED pc /\ state = "Paused" /\ order = "Hold" /\ handles' \subseteq handles
      BY <1>10, Zenon DEF OwnerStep, SpawnFails, AskFlag, AskSignal, AskKick, AskFails, StillNot,
                   StopStands, WaitTimesOut, Join, MakeDirectory, CaptureVcpu, WriteMemory,
                   WriteDocument
    <2> QED
      BY <2>1, Zenon DEF NoneDetached, Alive
  <1>11. ASSUME OwnerCall PROVE Still /\ pc' = pc
    BY <1>11, Zenon DEF OwnerCall, Start, Pause, Resume, Stop, Wait, Snapshot, NoneDetached, Alive
  <1>12. ASSUME NEW h \in Handles, HandleStep(h) PROVE Still /\ pc' = pc
    BY <1>12, ZenonT(30) DEF HandleStep, HandleStop, HandleFlag, HandleKick, NoneDetached, Alive
  <1>13. CASE UNCHANGED vars
    BY <1>1, <1>13, Zenon DEF vars, NoneDetached, Alive
  <1>14. Vcpus \subseteq Threads
    BY DEF Vcpus, Threads
  <1>15. ASSUME NEW v \in Vcpus, VcpuStep(v) PROVE pc'[s] = "parked"
    BY <1>1, <1>2, <1>4, <1>6, <1>14, <1>15, Zenon
  <1>16. ASSUME NEW t \in Threads, ThreadStep(t) PROVE pc'[s] = "parked"
    BY <1>1, <1>2, <1>4, <1>5, <1>16, Zenon
  <1> QED
    BY <1>1, <1>3, <1>7, <1>8, <1>9, <1>10, <1>11, <1>12, <1>13, <1>15, <1>16, ZenonT(30) DEF Next

\* A thread that is not panicked now was not before, so the last part of
\* Bookkeeping carries over a step that leaves the handles to the living.
LEMMA StepNoneDetached ==
    ASSUME Bookkeeping, \A v \in Vcpus : pc[v] = "panicked" => pc'[v] = "panicked",
           \A t \in Threads : Alive(t)' /\ t \notin handles'
               => Alive(t) /\ t \notin handles
    PROVE  (\A v \in Vcpus : pc'[v] # "panicked") => NoneDetached'
  BY Zenon DEF Bookkeeping, NoneDetached

\* Every step keeps the bookkeeping of the threads and of the owner: which
\* handles are kept, and where the owner is when.
LEMMA NextBookkeeping == IInv /\ [Next]_vars => Bookkeeping'
  <1> SUFFICES ASSUME IInv, [Next]_vars PROVE Bookkeeping'
    OBVIOUS
  <1> USE NAssumption DEF IInv, TypeOK, orders, kicks, owner
  <1> DEFINE Rest == /\ \A v \in Vcpus : pc[v] = "panicked" => pc'[v] = "panicked"
                     /\ \A t \in Threads : Alive(t)' /\ t \notin handles'
                            => Alive(t) /\ t \notin handles
  <1> DEFINE Frame == UNCHANGED <<state, step, at, handles>>
  <1>1. ASSUME Frame, Rest, \A t \in Threads : pc[t] = "absent" => pc'[t] = "absent"
        PROVE  Bookkeeping'
    <2>1. (\A v \in Vcpus : pc'[v] # "panicked") => NoneDetached'
      BY <1>1, StepNoneDetached, Zenon
    <2> QED
      BY <1>1, <2>1, Zenon DEF Bookkeeping
  <1>2. ASSUME NEW v \in Vcpus, VcpuStep(v) PROVE Bookkeeping'
    <2>1. Frame /\ v \in Threads
      BY <1>2 DEF VcpuStep, Lock, Enter, LeaveGuest, GuestKick, TakeSignal, ClearExit,
                  Vcpus, Threads
    <2>2. /\ \A t \in Threads : t # v => pc'[t] = pc[t]
          /\ pc'[v] = pc[v] \/ pc[v] \notin {"absent", "panicked", "done"}
      BY <1>2, <2>1, Zenon DEF VcpuStep, Lock, Enter, LeaveGuest, GuestKick, TakeSignal, ClearExit, Goto
    <2> QED
      BY <1>1, <2>1, <2>2 DEF Alive, Finished, Vcpus, Threads
  <1>3. ASSUME DeviceStep PROVE Bookkeeping'
    <2>1. Frame /\ Device \in Threads
      BY <1>3 DEF DeviceStep, Poll, PollFails, Serve, Device, Threads
    <2>2. /\ \A t \in Threads : t # Device => pc'[t] = pc[t]
          /\ pc[Device] \notin {"absent", "panicked", "done"}
      BY <1>3, <2>1, Zenon DEF DeviceStep, Poll, PollFails, Serve, Goto
    <2> QED
      BY <1>1, <2>1, <2>2 DEF Alive, Finished, Vcpus, Threads
  <1>4. ASSUME NEW u \in Threads, ThreadStep(u) PROVE Bookkeeping'
    <2>1. Frame
      BY <1>4, Zenon DEF ThreadStep, Confine, ReadOrder, Park, Unpark, End
    <2>2. /\ \A t \in Threads : t # u => pc'[t] = pc[t]
          /\ pc[u] \notin {"absent", "panicked", "done"}
      BY <1>4, Zenon DEF ThreadStep, Confine, ReadOrder, Park, Unpark, End, Goto
    <2> QED
      BY <1>1, <2>1, <2>2 DEF Alive, Finished, Vcpus, Threads
  <1>5. ASSUME Spawn PROVE Bookkeeping'
    <2>1. pc'[at] = "confine" /\ \A t \in Threads : t # at => pc'[t] = pc[t]
      BY <1>5, Zenon DEF Spawn
    <2>2. handles' = handles \cup {at} /\ state = "Created" /\ pc[at] = "absent"
      BY <1>5 DEF Spawn, Bookkeeping, Threads
    <2>3. state' # "Shutdown" /\ step' # "join"
      BY <1>5, <2>2, Zenon DEF Spawn, Return, Goes
    <2>4. step' = "spawn" => state' = "Created" /\ \A t \in Threads : t >= at' => pc'[t] = "absent"
      BY <1>5, <2>1, <2>2 DEF Spawn, Return, Goes, Bookkeeping, Threads, Device
    <2>5. Rest
      BY <2>1, <2>2 DEF Alive, Vcpus, Threads
    <2>6. (\A v \in Vcpus : pc'[v] # "panicked") => NoneDetached'
      BY <2>5, StepNoneDetached, Zenon
    <2> QED
      BY <2>3, <2>4, <2>6, Zenon DEF Bookkeeping
  <1>6. ASSUME Join PROVE Bookkeeping'
    <2>1. pc' = pc
      BY <1>6, Zenon DEF Join
    <2>2. CASE at \in handles /\ at # Device /\ pc[at] = "panicked"
      <3>1. at \in Vcpus /\ pc'[at] = "panicked"
        BY <2>1, <2>2 DEF Vcpus, Threads, Device
      <3>2. step' = "idle" /\ state' = state /\ handles' \subseteq handles
        BY <1>6, <2>2, Zenon DEF Join, Return
      <3> QED
        BY <3>1, <3>2, Zenon DEF Bookkeeping
    <2>3. CASE ~(at \in handles /\ at # Device /\ pc[at] = "panicked")
      <3>1. handles' = handles \ {at} /\ (at \in handles => ~Alive(at))
        BY <1>6, <2>3, Zenon DEF Join, Alive
      <3>2. \A t \in handles : t >= at
        BY <1>6, Zenon DEF Join, Bookkeeping
      <3>3. step' # "spawn"
        BY <1>6, <2>3, Zenon DEF Join, Return, Goes
      <3>4. step' = "join" => \A t \in handles' : t >= at'
        BY <1>6, <2>3, <3>1, <3>2 DEF Join, Return, Goes, Threads
      <3>5. state' = "Shutdown" => handles' = {}
        BY <1>6, <2>3, <3>1, <3>2 DEF Join, Device, Threads, Bookkeeping
      <3>6. (\A v \in Vcpus : pc'[v] # "panicked") => NoneDetached'
        BY <2>1, <3>1, StepNoneDetached, Zenon DEF Alive
      <3> QED
        BY <3>3, <3>4, <3>5, <3>6, Zenon DEF Bookkeeping
    <2> QED
      BY <2>2, <2>3, Zenon
  <1>7. ASSUME UNCHANGED <<pc, handles>>, state' = "Shutdown" => state = "Shutdown",
               step' # "spawn", step' = "join" => at' = 0
        PROVE  Bookkeeping'
    BY <1>7, SMTT(60) DEF Bookkeeping, NoneDetached, Alive, Threads
  <1>8. ASSUME OwnerStep, ~Spawn, ~Join PROVE Bookkeeping'
    BY <1>7, <1>8, Zenon DEF OwnerStep, SpawnFails, AskFlag, AskSignal, AskKick, AskFails, StillHeld,
                      StillNot, StopStands, WaitTimesOut, MakeDirectory, CaptureVcpu,
                      WriteMemory, WriteDocument, Return, Goes
  <1>9. ASSUME OwnerCall, ~Start PROVE Bookkeeping'
    BY <1>7, <1>9, Zenon DEF OwnerCall, Pause, Resume, Stop, Wait, Snapshot, Call, Return
  <1>10. ASSUME Start PROVE Bookkeeping'
    BY <1>10, Zenon DEF Start, Call, Bookkeeping, NoneDetached, Alive
  <1>11. ASSUME NEW h \in Handles, HandleStep(h) PROVE Bookkeeping'
    BY <1>11, <1>1, ZenonT(30) DEF HandleStep, HandleStop, HandleFlag, HandleKick, Alive
  <1>12. CASE UNCHANGED vars
    BY <1>12, <1>1, Zenon DEF vars, Alive
  <1> QED
    BY <1>2, <1>3, <1>4, <1>5, <1>6, <1>8, <1>9, <1>10, <1>11, <1>12, ZenonT(30) DEF Next

\* The invariant holds in every reachable state.
THEOREM MachineInvariant == Spec => []IInv
  <1>1. IInv /\ [Next]_vars => IInv'
    BY NextTypeOK, NextParkedExact, NextHeldStill, NextBookkeeping, Zenon DEF IInv
  <1> QED
    BY InitIInv, <1>1, PTL DEF Spec

\* Every variable of the machine stays in its type: the loops of ask_out,
\* join and the stop handles never run past the last thread.
THEOREM TypeCorrect == Spec => []TypeOK
  BY MachineInvariant, PTL DEF IInv

\* The count wait_until_still compares is the number of parked threads.
THEOREM CountExact == Spec => []ParkedExact
  BY MachineInvariant, PTL DEF IInv

\* What `pause` reported held stays held until the order changes.
THEOREM HoldIsStill == Spec => []HeldStill
  BY MachineInvariant, PTL DEF IInv

\* After `join` without a vCPU panic no thread of the machine is left.
THEOREM ShutdownFinal == Spec => []ShutdownIsFinal
  <1>1. IInv => ShutdownIsFinal
    BY Zenon DEF IInv, Bookkeeping, NoneDetached, ShutdownIsFinal
  <1> QED
    BY MachineInvariant, <1>1, PTL

=============================================================================
