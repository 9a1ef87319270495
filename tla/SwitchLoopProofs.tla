--------------------------- MODULE SwitchLoopProofs ---------------------------
(***************************************************************************)
(* Proofs about SwitchLoop, for every set of ports, batch size, idle       *)
(* polling time and bound: type correctness, that no wakeup is lost, that  *)
(* a sleeping loop can be woken by every port, that shutdown is never      *)
(* missed, and that each step is a step of PacketService.                  *)
(***************************************************************************)
EXTENDS SwitchLoop, TLAPS

\* The loop looks at port p again before it can sleep.
WillPoll(p) ==
    \/ pc \in {"top", "copy", "publish", "until"}
    \/ pc = "while" /\ p \in ports
    \/ /\ pc \in {"ports", "notify", "pop"}
       /\ p \in ports
       /\ \/ ~EnabledNotifications
          \/ work_done
          \/ p \in left
          \/ pc = "notify" /\ cur = p

\* A ring has packets only while its driver works, a flag only while it is
\* there, and a driver waits while the listener reconfigures its device.
DriverInv ==
    \A p \in Ports :
        /\ pending[p] > 0 => ready[p] /\ rings[p] # "none"
        /\ guest[p] # "idle" => ready[p] /\ rings[p] # "none"
        /\ no_notify[p] => rings[p] # "none"
        /\ listener = p /\ task # "poll" => guest[p] = "idle"

StopInv ==
    /\ shutdown_called <=> stopper # "idle"
    /\ pc = "done" => shutdown_called
    /\ stopper = "done" /\ pc \notin {"until", "done", "crashed"} => event

\* The loop is there and means to stay.
InService == ~shutdown_called /\ pc # "crashed"

\* A port with notifications off is about to be polled, or the loop is about
\* to be woken.
NotifyInv ==
    InService =>
        \A p \in Noticed : no_notify[p] => WillPoll(p) \/ event \/ KickInHand(p)

\* So is a port with packets; or its driver still has to look at the flag.
PendingInv ==
    InService =>
        \A p \in Noticed \cap Prompt :
            pending[p] > 0 =>
                \/ WillPoll(p)
                \/ pc = "pop" /\ cur = p
                \/ event
                \/ WakeupUnderWay(p)

IInv ==
    /\ TypeOK
    /\ DriverInv
    /\ StopInv
    /\ NotifyInv
    /\ PendingInv

-----------------------------------------------------------------------------
(* Type correctness *)

\* The conjuncts of TypeOK about the loop's own variables.
LoopTypeOK ==
    /\ pc \in LoopStates
    /\ state \in IdleStates
    /\ ports \subseteq Ports
    /\ pc \in {"top", "read", "until", "done", "crashed"} => ports = {}
    /\ left \subseteq ports
    /\ cur \in ports \cup {NoPort}
    /\ quota \in 0 .. BatchSize
    /\ pc \in {"notify", "pop"} <=> quota > 0
    /\ pc \in {"notify", "pop"} <=> cur # NoPort
    /\ work_done \in BOOLEAN
    /\ culprit \in ports \cup {NoPort}
    /\ pc \in {"copy", "publish"} <=> culprit # NoPort

\* Leaving the read section resets the loop's variables to something sound.
LEMMA LeaveTypeOK ==
    ASSUME NEW worked, LeaveReadSection(worked)
    PROVE  LoopTypeOK'
<1> USE BatchSizeAssumption DEF LeaveReadSection, LoopStates, IdleStates
<1>1. pc' \in LoopStates /\ state' \in IdleStates /\ work_done' \in BOOLEAN
  OBVIOUS
<1>2. ports' = {} /\ left' = {} /\ cur' = NoPort /\ culprit' = NoPort
  OBVIOUS
<1>3. quota' \in 0 .. BatchSize /\ ~ (quota' > 0)
  OBVIOUS
<1>4. pc' \notin {"notify", "pop", "copy", "publish"}
  OBVIOUS
<1> QED
  BY <1>1, <1>2, <1>3, <1>4 DEF LoopTypeOK

\* Publishing a list of ports leaves the list's variables sound.
LEMMA PublishTypeOK ==
    ASSUME TypeOK, NEW t \in Threads, NEW list \in SUBSET Ports, PublishPorts(t, list)
    PROVE  /\ attached' \subseteq Ports
           /\ copied' \in [Threads -> SUBSET Ports]
           /\ overlooked' \subseteq attached'
  BY DEF PublishPorts, TypeOK

\* Every step keeps the types.
LEMMA TypeStep == TypeOK /\ [Next]_vars => TypeOK'
<1> SUFFICES ASSUME TypeOK, [Next]_vars PROVE TypeOK'
  OBVIOUS
<1> USE PortsAssumption, BatchSizeAssumption, BoundAssumption
    DEF TypeOK, LoopStates, IdleStates, RingStates, Tasks, GuestStates, Threads,
        vars, loopVars, listVars, deviceVars, threadVars, envVars
<1>1. CASE Quiesce
  BY <1>1 DEF Quiesce
<1>2. CASE StartQuantum
  BY <1>2 DEF StartQuantum
<1>3. CASE SeeShutdown
  BY <1>3, LeaveTypeOK DEF SeeShutdown, LoopTypeOK
<1>4. ASSUME NEW p \in Ports, NextPort(p) PROVE TypeOK'
  BY <1>4 DEF NextPort
<1>5. CASE PollNotify
  BY <1>5 DEF PollNotify, EnabledNotifications
<1>6. CASE PollEmpty
  BY <1>6 DEF PollEmpty, HasPacket, LeavePort
<1>7. CASE PollForward
  BY <1>7 DEF PollForward, HasPacket, Consume, AfterPacket, LeavePort
<1>8. CASE PollHairpin
  BY <1>8 DEF PollHairpin, HasPacket, Consume, AfterPacket, LeavePort
<1>9. ASSUME NEW p \in Ports, PortBroken(p) PROVE TypeOK'
  BY <1>9 DEF PortBroken, HasPacket, Consume
<1>10. CASE CopyToDetach
  BY <1>10 DEF CopyToDetach, CopyPorts
<1>11. CASE DetachBroken
  <2>1. LoopTypeOK'
    BY <1>11, LeaveTypeOK DEF DetachBroken
  <2>2. /\ PublishPorts("main", copied["main"] \ {culprit})
        /\ copied["main"] \in SUBSET Ports
    BY <1>11 DEF DetachBroken, Threads
  <2>3. /\ attached' \subseteq Ports
        /\ copied' \in [Threads -> SUBSET Ports]
        /\ overlooked' \subseteq attached'
    BY <2>2, PublishTypeOK DEF Threads
  <2> QED
    BY <1>11, <2>1, <2>3 DEF DetachBroken, LoopTypeOK
<1>12. CASE Fault
  <2>1. culprit = NoPort
    BY <1>12 DEF Fault, NullRing
  <2>2. quota' \in 0 .. BatchSize /\ ~ (quota' > 0)
    BY <1>12 DEF Fault
  <2> QED
    BY <1>12, <2>1, <2>2 DEF Fault
<1>13. CASE KeepSwitching
  BY <1>13 DEF KeepSwitching, QuantumDone, NextRound
<1>14. CASE RcuTimerElapsed
  BY <1>14, LeaveTypeOK DEF RcuTimerElapsed, QuantumDone, LoopTypeOK
<1>15. CASE GoIdle
  BY <1>15 DEF GoIdle, QuantumDone, NextRound
<1>16. CASE StayIdle
  BY <1>16 DEF StayIdle, QuantumDone, NextRound
<1>17. CASE IdleTimerElapsed
  BY <1>17 DEF IdleTimerElapsed, QuantumDone, NextRound
<1>18. CASE StopPolling
  BY <1>18, LeaveTypeOK DEF StopPolling, QuantumDone, LoopTypeOK
<1>19. CASE ReadEvent
  BY <1>19 DEF ReadEvent
<1>20. CASE ReadInterrupted
  BY <1>20 DEF ReadInterrupted
<1>21. CASE TestShutdown
  BY <1>21 DEF TestShutdown
<1>22. CASE ShutdownFlag
  BY <1>22 DEF ShutdownFlag
<1>23. CASE ShutdownEvent
  BY <1>23 DEF ShutdownEvent
<1>24. ASSUME NEW p \in Ports, SetQueues(p) PROVE TypeOK'
  <2>1. pending' \in [Ports -> Nat] /\ \A q \in Ports : pending'[q] <= MaxPending[q]
    <3>1. ASSUME NEW q \in Ports PROVE pending'[q] \in Nat /\ pending'[q] <= MaxPending[q]
      BY <1>24, MaxPending[q] \in Nat DEF SetQueues
    <3> QED
      BY <1>24, <3>1 DEF SetQueues
  <2>2. rings' \in [Ports -> RingStates] /\ no_notify' \in [Ports -> BOOLEAN]
    BY <1>24 DEF SetQueues
  <2>3. /\ listener' \in Ports \cup {NoPort}
        /\ task' \in Tasks
        /\ task' = "none" <=> listener' = NoPort
        /\ upsets' \in 0 .. MaxUpsets
    BY <1>24 DEF SetQueues, Begin
  <2>4. UNCHANGED <<loopVars, shutdown_called, event, listVars, ready, guest, stopper>>
    BY <1>24 DEF SetQueues
  <2>5. LoopTypeOK'
    BY <2>4 DEF LoopTypeOK
  <2> QED
    BY <2>1, <2>2, <2>3, <2>4, <2>5 DEF LoopTypeOK
<1>25. ASSUME NEW p \in Ports, NEW rest \in {"none", "tx"}, TakeQueue(p, rest)
      PROVE  TypeOK'
  <2>1. pending' \in [Ports -> Nat] /\ \A q \in Ports : pending'[q] <= MaxPending[q]
    <3>1. ASSUME NEW q \in Ports PROVE pending'[q] \in Nat /\ pending'[q] <= MaxPending[q]
      BY <1>25, MaxPending[q] \in Nat DEF TakeQueue
    <3> QED
      BY <1>25, <3>1 DEF TakeQueue
  <2>2. rings' \in [Ports -> RingStates] /\ no_notify' \in [Ports -> BOOLEAN]
    BY <1>25 DEF TakeQueue
  <2>3. /\ listener' \in Ports \cup {NoPort}
        /\ task' \in Tasks
        /\ task' = "none" <=> listener' = NoPort
        /\ upsets' \in 0 .. MaxUpsets
    BY <1>25 DEF TakeQueue, Begin
  <2>4. UNCHANGED <<loopVars, shutdown_called, event, listVars, ready, guest, stopper>>
    BY <1>25 DEF TakeQueue
  <2>5. LoopTypeOK'
    BY <2>4 DEF LoopTypeOK
  <2> QED
    BY <2>1, <2>2, <2>3, <2>4, <2>5 DEF LoopTypeOK
<1>26. ASSUME NEW p \in Ports, DriverOk(p) PROVE TypeOK'
  BY <1>26 DEF DriverOk
<1>27. ASSUME NEW p \in Ports, ClearStatus(p) PROVE TypeOK'
  BY <1>27 DEF ClearStatus
<1>28. ASSUME NEW p \in Ports, Reset(p) PROVE TypeOK'
  BY <1>28 DEF Reset, Begin
<1>29. CASE CopyToModify
  BY <1>29 DEF CopyToModify, CopyPorts
<1>30. CASE AttachPort
  <2>1. /\ PublishPorts("listener", copied["listener"] \cup {listener})
        /\ copied["listener"] \in SUBSET Ports
    BY <1>30 DEF AttachPort, Threads
  <2>2. listener \in Ports
    BY <1>30 DEF AttachPort
  <2>3. /\ attached' \subseteq Ports
        /\ copied' \in [Threads -> SUBSET Ports]
        /\ overlooked' \subseteq attached'
    BY <2>1, <2>2, PublishTypeOK DEF Threads
  <2> QED
    BY <1>30, <2>3 DEF AttachPort, Finish, Tasks
<1>31. CASE DetachPort
  <2>1. /\ PublishPorts("listener", copied["listener"] \ {listener})
        /\ copied["listener"] \in SUBSET Ports
    BY <1>31 DEF DetachPort, Threads
  <2>2. listener \in Ports
    BY <1>31 DEF DetachPort
  <2>3. /\ attached' \subseteq Ports
        /\ copied' \in [Threads -> SUBSET Ports]
        /\ overlooked' \subseteq attached'
    BY <2>1, <2>2, PublishTypeOK DEF Threads
  <2> QED
    BY <1>31, <2>3 DEF DetachPort, Finish, Tasks
<1>32. CASE ClearDevice
  BY <1>32 DEF ClearDevice, Finish
<1>33. ASSUME NEW p \in Ports, NotifyDisable(p) PROVE TypeOK'
  BY <1>33 DEF NotifyDisable, Begin
<1>34. CASE SchedulePoll
  BY <1>34 DEF SchedulePoll, Finish
<1>35. ASSUME NEW p \in Ports, Publish(p) PROVE TypeOK'
  BY <1>35 DEF Publish
<1>36. ASSUME NEW p \in Ports, CheckFlag(p) PROVE TypeOK'
  BY <1>36 DEF CheckFlag, DriverStep
<1>37. ASSUME NEW p \in Ports, KickHotspot(p) PROVE TypeOK'
  BY <1>37 DEF KickHotspot, DriverStep
<1>38. ASSUME NEW p \in Ports, KickTrap(p) PROVE TypeOK'
  BY <1>38 DEF KickTrap, DriverStep
<1>39. CASE UNCHANGED vars
  BY <1>39
<1> HIDE DEF TypeOK, vars
<1> QED
  BY <1>1, <1>2, <1>3, <1>4, <1>5, <1>6, <1>7, <1>8, <1>9, <1>10, <1>11,
    <1>12, <1>13, <1>14, <1>15, <1>16, <1>17, <1>18, <1>19, <1>20, <1>21,
    <1>22, <1>23, <1>24, <1>25, <1>26, <1>27, <1>28, <1>29, <1>30, <1>31,
    <1>32, <1>33, <1>34, <1>35, <1>36, <1>37, <1>38, <1>39 DEF Next, Loop,
    Stopper, Listener, Guest

-----------------------------------------------------------------------------
(* The inductive invariant *)

\* What DriverInv says stays true: a queue is taken away, or a status cleared,
\* together with its packets and its flag, and under an idle driver.
LEMMA DriverInvStep == IInv /\ [Next]_vars => DriverInv'
<1> SUFFICES ASSUME IInv, [Next]_vars PROVE DriverInv'
  OBVIOUS
<1> USE PortsAssumption DEF IInv, TypeOK, DriverInv, vars, loopVars, listVars,
    deviceVars, threadVars, envVars
<1>1. CASE PollNotify
  BY <1>1 DEF PollNotify
<1>2. CASE PollForward
  BY <1>2 DEF PollForward, HasPacket, Consume, AfterPacket, LeavePort
<1>3. CASE PollHairpin
  BY <1>3 DEF PollHairpin, HasPacket, Consume, AfterPacket, LeavePort
<1>4. ASSUME NEW p \in Ports, PortBroken(p) PROVE DriverInv'
  BY <1>4 DEF PortBroken, HasPacket, Consume
<1>5. ASSUME NEW p \in Ports, SetQueues(p) PROVE DriverInv'
  BY <1>5 DEF SetQueues, Begin
<1>6. ASSUME NEW p \in Ports, NEW rest \in {"none", "tx"}, TakeQueue(p, rest)
      PROVE  DriverInv'
  BY <1>6 DEF TakeQueue, Begin
<1>7. ASSUME NEW p \in Ports, DriverOk(p) PROVE DriverInv'
  BY <1>7 DEF DriverOk
<1>8. ASSUME NEW p \in Ports, ClearStatus(p) PROVE DriverInv'
  BY <1>8 DEF ClearStatus
<1>9. ASSUME NEW p \in Ports, Reset(p) PROVE DriverInv'
  BY <1>9 DEF Reset, Begin
<1>10. CASE CopyToModify
  BY <1>10 DEF CopyToModify, CopyPorts
<1>11. CASE AttachPort
  BY <1>11 DEF AttachPort, PublishPorts, Finish
<1>12. CASE DetachPort
  BY <1>12 DEF DetachPort, PublishPorts, Finish
<1>13. CASE ClearDevice
  BY <1>13 DEF ClearDevice, Finish
<1>14. ASSUME NEW p \in Ports, NotifyDisable(p) PROVE DriverInv'
  BY <1>14 DEF NotifyDisable, Begin
<1>15. CASE SchedulePoll
  BY <1>15 DEF SchedulePoll, Finish
<1>16. ASSUME NEW p \in Ports, Publish(p) PROVE DriverInv'
  BY <1>16 DEF Publish
<1>17. ASSUME NEW p \in Ports, CheckFlag(p) PROVE DriverInv'
  BY <1>17 DEF CheckFlag, DriverStep
<1>18. ASSUME NEW p \in Ports, KickHotspot(p) PROVE DriverInv'
  BY <1>18 DEF KickHotspot, DriverStep
<1>19. ASSUME NEW p \in Ports, KickTrap(p) PROVE DriverInv'
  BY <1>19 DEF KickTrap, DriverStep
\* The other steps of the loop.
<1>20. CASE Quiesce \/ StartQuantum \/ SeeShutdown \/ (\E p \in Ports :
  NextPort(p)) \/ PollEmpty \/ CopyToDetach \/ DetachBroken \/ Fault \/
  KeepSwitching \/ RcuTimerElapsed \/ GoIdle \/ StayIdle \/ IdleTimerElapsed
  \/ StopPolling \/ ReadEvent \/ ReadInterrupted \/ TestShutdown
  BY <1>20 DEF Quiesce, StartQuantum, SeeShutdown, LeaveReadSection, NextPort,
    PollEmpty, HasPacket, LeavePort, CopyToDetach, CopyPorts, DetachBroken,
    PublishPorts, Fault, NullRing, KeepSwitching, QuantumDone, NextRound,
    RcuTimerElapsed, GoIdle, StayIdle, IdleTimerElapsed, StopPolling,
    ReadEvent, ReadInterrupted, TestShutdown
\* The other steps of the other threads.
<1>21. CASE ShutdownFlag \/ ShutdownEvent
  BY <1>21 DEF ShutdownFlag, ShutdownEvent
<1>22. CASE UNCHANGED vars
  BY <1>22
<1> QED
  BY <1>1, <1>2, <1>3, <1>4, <1>5, <1>6, <1>7, <1>8, <1>9, <1>10, <1>11,
    <1>12, <1>13, <1>14, <1>15, <1>16, <1>17, <1>18, <1>19, <1>20, <1>21,
    <1>22 DEF Next, Loop, Stopper, Listener, Guest

\* The event that shutdown writes is consumed only by a loop that then sees the
\* flag.
LEMMA StopInvStep == IInv /\ [Next]_vars => StopInv'
<1> SUFFICES ASSUME IInv, [Next]_vars PROVE StopInv'
  OBVIOUS
<1> USE PortsAssumption DEF IInv, TypeOK, StopInv, LoopStates, vars, loopVars,
    listVars, deviceVars, threadVars, envVars
<1>1. CASE ReadEvent
  BY <1>1 DEF ReadEvent
<1>2. CASE ReadInterrupted
  BY <1>2 DEF ReadInterrupted
<1>3. CASE TestShutdown
  BY <1>3 DEF TestShutdown
<1>4. CASE ShutdownFlag
  BY <1>4 DEF ShutdownFlag
<1>5. CASE ShutdownEvent
  BY <1>5 DEF ShutdownEvent
<1>6. ASSUME NEW p \in Ports, SetQueues(p) PROVE StopInv'
  BY <1>6 DEF SetQueues, Begin
<1>7. ASSUME NEW p \in Ports, NEW rest \in {"none", "tx"}, TakeQueue(p, rest)
      PROVE  StopInv'
  BY <1>7 DEF TakeQueue, Begin
\* The other steps of the loop.
<1>8. CASE Quiesce \/ StartQuantum \/ SeeShutdown \/ (\E p \in Ports :
  NextPort(p)) \/ PollNotify \/ PollEmpty \/ PollForward \/ PollHairpin \/ (\E
  p \in Ports : PortBroken(p)) \/ CopyToDetach \/ DetachBroken \/ Fault \/
  KeepSwitching \/ RcuTimerElapsed \/ GoIdle \/ StayIdle \/ IdleTimerElapsed
  \/ StopPolling
  BY <1>8 DEF Quiesce, StartQuantum, SeeShutdown, LeaveReadSection, NextPort,
    PollNotify, PollEmpty, HasPacket, LeavePort, PollForward, Consume,
    AfterPacket, PollHairpin, PortBroken, CopyToDetach, CopyPorts,
    DetachBroken, PublishPorts, Fault, NullRing, KeepSwitching, QuantumDone,
    NextRound, RcuTimerElapsed, GoIdle, StayIdle, IdleTimerElapsed,
    StopPolling
\* The other steps of the other threads.
<1>9. CASE (\E p \in Ports : DriverOk(p)) \/ (\E p \in Ports : ClearStatus(p))
  \/ (\E p \in Ports : Reset(p)) \/ CopyToModify \/ AttachPort \/ DetachPort
  \/ ClearDevice \/ (\E p \in Ports : NotifyDisable(p)) \/ SchedulePoll \/ (\E
  p \in Ports : Publish(p)) \/ (\E p \in Ports : CheckFlag(p)) \/ (\E p \in
  Ports : KickHotspot(p)) \/ (\E p \in Ports : KickTrap(p))
  BY <1>9 DEF DriverOk, ClearStatus, Reset, Begin, CopyToModify, CopyPorts,
    AttachPort, PublishPorts, Finish, DetachPort, ClearDevice, NotifyDisable,
    SchedulePoll, Publish, CheckFlag, DriverStep, KickHotspot, KickTrap
<1>10. CASE UNCHANGED vars
  BY <1>10
<1> QED
  BY <1>1, <1>2, <1>3, <1>4, <1>5, <1>6, <1>7, <1>8, <1>9, <1>10 DEF Next,
    Loop, Stopper, Listener, Guest

\* Notifications go off only where the loop comes back or the listener wakes
\* it, and the loop goes to sleep only after a quantum that turned them on.
LEMMA NotifyInvStep == IInv /\ [Next]_vars => NotifyInv'
<1> SUFFICES ASSUME IInv, [Next]_vars PROVE NotifyInv'
  OBVIOUS
<1> USE PortsAssumption DEF IInv, TypeOK, vars, loopVars, listVars,
    deviceVars, threadVars, envVars, NotifyInv, DriverInv, StopInv, WillPoll,
    EnabledNotifications, Noticed, BeingReset, KickInHand, InService,
    IdleStates, LoopStates, RingStates
<1>1. CASE Quiesce
  BY <1>1 DEF Quiesce
<1>2. CASE StartQuantum
  BY <1>2 DEF StartQuantum
<1>3. ASSUME NEW p \in Ports, NextPort(p) PROVE NotifyInv'
  BY <1>3 DEF NextPort
<1>4. CASE PollNotify
  BY <1>4 DEF PollNotify
<1>5. CASE PollEmpty
  BY <1>5 DEF PollEmpty, HasPacket, LeavePort
<1>6. CASE PollForward
  BY <1>6 DEF PollForward, HasPacket, Consume, AfterPacket, LeavePort
<1>7. CASE PollHairpin
  BY <1>7 DEF PollHairpin, HasPacket, Consume, AfterPacket, LeavePort
<1>8. ASSUME NEW p \in Ports, PortBroken(p) PROVE NotifyInv'
  BY <1>8 DEF PortBroken, HasPacket, Consume
<1>9. CASE CopyToDetach
  BY <1>9 DEF CopyToDetach, CopyPorts
<1>10. CASE DetachBroken
  BY <1>10 DEF DetachBroken, PublishPorts, LeaveReadSection
<1>11. CASE Fault
  BY <1>11 DEF Fault, NullRing
<1>12. CASE KeepSwitching
  BY <1>12 DEF KeepSwitching, QuantumDone, NextRound
<1>13. CASE StopPolling
  BY <1>13 DEF StopPolling, QuantumDone, LeaveReadSection
<1>14. ASSUME NEW p \in Ports, SetQueues(p) PROVE NotifyInv'
  BY <1>14 DEF SetQueues, Begin
<1>15. ASSUME NEW p \in Ports, NEW rest \in {"none", "tx"}, TakeQueue(p, rest)
      PROVE  NotifyInv'
  BY <1>15 DEF TakeQueue, Begin
<1>16. ASSUME NEW p \in Ports, Reset(p) PROVE NotifyInv'
  BY <1>16 DEF Reset, Begin
<1>17. CASE CopyToModify
  BY <1>17 DEF CopyToModify, CopyPorts
<1>18. CASE AttachPort
  BY <1>18 DEF AttachPort, PublishPorts, Finish
<1>19. CASE DetachPort
  BY <1>19 DEF DetachPort, PublishPorts, Finish
<1>20. CASE ClearDevice
  BY <1>20 DEF ClearDevice, Finish
<1>21. ASSUME NEW p \in Ports, NotifyDisable(p) PROVE NotifyInv'
  BY <1>21 DEF NotifyDisable, Begin
<1>22. CASE SchedulePoll
  BY <1>22 DEF SchedulePoll, Finish
\* The other steps of the loop.
<1>23. CASE SeeShutdown \/ RcuTimerElapsed \/ GoIdle \/ StayIdle \/
  IdleTimerElapsed \/ ReadEvent \/ ReadInterrupted \/ TestShutdown
  BY <1>23 DEF SeeShutdown, LeaveReadSection, RcuTimerElapsed, QuantumDone,
    GoIdle, NextRound, StayIdle, IdleTimerElapsed, ReadEvent, ReadInterrupted,
    TestShutdown
\* The other steps of the other threads.
<1>24. CASE ShutdownFlag \/ ShutdownEvent \/ (\E p \in Ports : DriverOk(p)) \/
  (\E p \in Ports : ClearStatus(p)) \/ (\E p \in Ports : Publish(p)) \/ (\E p
  \in Ports : CheckFlag(p)) \/ (\E p \in Ports : KickHotspot(p)) \/ (\E p \in
  Ports : KickTrap(p))
  BY <1>24 DEF ShutdownFlag, ShutdownEvent, DriverOk, ClearStatus, Publish,
    CheckFlag, DriverStep, KickHotspot, KickTrap
<1>25. CASE UNCHANGED vars
  BY <1>25
<1> QED
  BY <1>1, <1>2, <1>3, <1>4, <1>5, <1>6, <1>7, <1>8, <1>9, <1>10, <1>11,
    <1>12, <1>13, <1>14, <1>15, <1>16, <1>17, <1>18, <1>19, <1>20, <1>21,
    <1>22, <1>23, <1>24, <1>25 DEF Next, Loop, Stopper, Listener, Guest

\* A packet the loop does not find is one whose driver has yet to look at a
\* flag that is clear, or NotifyInv applies.
LEMMA PendingInvStep == IInv /\ [Next]_vars => PendingInv'
<1> SUFFICES ASSUME IInv, [Next]_vars PROVE PendingInv'
  OBVIOUS
<1> USE PortsAssumption DEF IInv, TypeOK, vars, loopVars, listVars,
    deviceVars, threadVars, envVars, PendingInv, NotifyInv, DriverInv,
    StopInv, WillPoll, EnabledNotifications, WakeupUnderWay, Prompt, Noticed,
    BeingReset, KickInHand, InService, LoopStates, IdleStates, GuestStates
<1>1. CASE Quiesce
  BY <1>1 DEF Quiesce
<1>2. CASE StartQuantum
  BY <1>2 DEF StartQuantum
<1>3. ASSUME NEW p \in Ports, NextPort(p) PROVE PendingInv'
  BY <1>3 DEF NextPort
<1>4. CASE PollNotify
  BY <1>4 DEF PollNotify
<1>5. CASE PollEmpty
  BY <1>5 DEF PollEmpty, HasPacket, LeavePort
<1>6. CASE PollForward
  BY <1>6 DEF PollForward, HasPacket, Consume, AfterPacket, LeavePort
<1>7. CASE PollHairpin
  BY <1>7 DEF PollHairpin, HasPacket, Consume, AfterPacket, LeavePort
<1>8. ASSUME NEW p \in Ports, PortBroken(p) PROVE PendingInv'
  BY <1>8 DEF PortBroken, HasPacket, Consume
<1>9. CASE CopyToDetach
  BY <1>9 DEF CopyToDetach, CopyPorts
<1>10. CASE DetachBroken
  BY <1>10 DEF DetachBroken, PublishPorts, LeaveReadSection
<1>11. CASE Fault
  BY <1>11 DEF Fault, NullRing
<1>12. CASE KeepSwitching
  BY <1>12 DEF KeepSwitching, QuantumDone, NextRound
<1>13. CASE StopPolling
  BY <1>13 DEF StopPolling, QuantumDone, LeaveReadSection
<1>14. ASSUME NEW p \in Ports, SetQueues(p) PROVE PendingInv'
  BY <1>14 DEF SetQueues, Begin
<1>15. ASSUME NEW p \in Ports, NEW rest \in {"none", "tx"}, TakeQueue(p, rest)
      PROVE  PendingInv'
  BY <1>15 DEF TakeQueue, Begin
<1>16. ASSUME NEW p \in Ports, ClearStatus(p) PROVE PendingInv'
  BY <1>16 DEF ClearStatus
<1>17. ASSUME NEW p \in Ports, Reset(p) PROVE PendingInv'
  BY <1>17 DEF Reset, Begin
<1>18. CASE CopyToModify
  BY <1>18 DEF CopyToModify, CopyPorts
<1>19. CASE AttachPort
  BY <1>19 DEF AttachPort, PublishPorts, Finish
<1>20. CASE DetachPort
  BY <1>20 DEF DetachPort, PublishPorts, Finish
<1>21. CASE ClearDevice
  BY <1>21 DEF ClearDevice, Finish
<1>22. ASSUME NEW p \in Ports, NotifyDisable(p) PROVE PendingInv'
  BY <1>22 DEF NotifyDisable, Begin
<1>23. CASE SchedulePoll
  BY <1>23 DEF SchedulePoll, Finish
<1>24. ASSUME NEW p \in Ports, Publish(p) PROVE PendingInv'
  BY <1>24 DEF Publish
<1>25. ASSUME NEW p \in Ports, CheckFlag(p) PROVE PendingInv'
  BY <1>25 DEF CheckFlag, DriverStep
<1>26. ASSUME NEW p \in Ports, KickTrap(p) PROVE PendingInv'
  BY <1>26 DEF KickTrap, DriverStep
\* The other steps of the loop.
<1>27. CASE SeeShutdown \/ RcuTimerElapsed \/ GoIdle \/ StayIdle \/
  IdleTimerElapsed \/ ReadEvent \/ ReadInterrupted \/ TestShutdown
  BY <1>27 DEF SeeShutdown, LeaveReadSection, RcuTimerElapsed, QuantumDone,
    GoIdle, NextRound, StayIdle, IdleTimerElapsed, ReadEvent, ReadInterrupted,
    TestShutdown
\* The other steps of the other threads.
<1>28. CASE ShutdownFlag \/ ShutdownEvent \/ (\E p \in Ports : DriverOk(p)) \/
  (\E p \in Ports : KickHotspot(p))
  BY <1>28 DEF ShutdownFlag, ShutdownEvent, DriverOk, KickHotspot, DriverStep
<1>29. CASE UNCHANGED vars
  BY <1>29
<1> QED
  BY <1>1, <1>2, <1>3, <1>4, <1>5, <1>6, <1>7, <1>8, <1>9, <1>10, <1>11,
    <1>12, <1>13, <1>14, <1>15, <1>16, <1>17, <1>18, <1>19, <1>20, <1>21,
    <1>22, <1>23, <1>24, <1>25, <1>26, <1>27, <1>28, <1>29 DEF Next, Loop,
    Stopper, Listener, Guest

LEMMA InitIInv == Init => IInv
<1> SUFFICES ASSUME Init PROVE IInv
  OBVIOUS
<1>1. TypeOK
  <2>1. quota \in 0 .. BatchSize /\ ~ (quota > 0)
    BY BatchSizeAssumption DEF Init
  <2>2. LoopTypeOK
    BY <2>1 DEF Init, LoopTypeOK, LoopStates, IdleStates
  <2>3. pending \in [Ports -> Nat] /\ \A p \in Ports : pending[p] <= MaxPending[p]
    <3>1. \A p \in Ports : pending[p] = 0 /\ MaxPending[p] \in Nat
      BY BoundAssumption DEF Init
    <3>2. ASSUME NEW p \in Ports PROVE pending[p] <= MaxPending[p]
      <4>1. pending[p] = 0 /\ MaxPending[p] \in Nat
        BY <3>1
      <4> QED
        BY <4>1, SMT
    <3> QED
      BY <3>2 DEF Init
  <2>4. /\ rings \in [Ports -> RingStates] /\ ready \in [Ports -> BOOLEAN]
        /\ no_notify \in [Ports -> BOOLEAN] /\ guest \in [Ports -> GuestStates]
    BY DEF Init, RingStates, GuestStates
  <2>5. copied \in [Threads -> SUBSET Ports]
    BY DEF Init
  <2>6. upsets \in 0 .. MaxUpsets
    BY BoundAssumption DEF Init
  <2> QED
    BY <2>2, <2>3, <2>4, <2>5, <2>6 DEF Init, TypeOK, LoopTypeOK, Tasks
<1>2. DriverInv
  <2>1. ASSUME NEW p \in Ports
        PROVE  /\ pending[p] = 0 /\ ~ (pending[p] > 0)
               /\ guest[p] = "idle"
               /\ no_notify[p] = FALSE
               /\ listener # p
    BY PortsAssumption DEF Init
  <2> QED
    BY <2>1 DEF DriverInv
<1>3. StopInv
  BY DEF Init, StopInv
<1>4. Noticed = {}
  BY DEF Init, Noticed
<1> QED
  BY <1>1, <1>2, <1>3, <1>4 DEF IInv, NotifyInv, PendingInv

\* The inductive invariant holds in every state of the specification.
THEOREM Invariance == SafeSpec => []IInv
<1>1. IInv /\ [Next]_vars => IInv'
  BY TypeStep, DriverInvStep, StopInvStep, NotifyInvStep, PendingInvStep DEF IInv
<1> QED
  BY InitIInv, <1>1, PTL DEF SafeSpec

-----------------------------------------------------------------------------
(* What follows from it *)

\* Every variable keeps its type.
THEOREM TypeCorrect == SafeSpec => []TypeOK
<1>1. Init => TypeOK
  BY InitIInv DEF IInv
<1> QED
  BY <1>1, TypeStep, PTL DEF SafeSpec

\* While the loop sleeps, no packet is left behind of a port without hairpin
\* traffic that is in the list and that the loop had to know of (work_quantum,
\* loop, Port::poll and the kick path).
THEOREM WakeupsKept == SafeSpec => []NoLostWakeup
<1>1. IInv => NoLostWakeup
  BY DEF IInv, TypeOK, PendingInv, NoLostWakeup, Asleep, WillPoll, InService
<1> QED
  BY Invariance, <1>1, PTL

\* While the loop sleeps, every port in the list, polled before or attached
\* behind the loop's back, has its notifications on or the listener about to
\* wake the loop.
THEOREM SleepIsWakeable == SafeSpec => []AsleepIsWakeable
<1>1. IInv => AsleepIsWakeable
  BY DEF IInv, TypeOK, NotifyInv, AsleepIsWakeable, Asleep, WillPoll, InService
<1> QED
  BY Invariance, <1>1, PTL

\* A loop is not asleep once Switch::shutdown has returned.
THEOREM ShutdownWakes == SafeSpec => []ShutdownNotMissed
<1>1. IInv => ShutdownNotMissed
  BY DEF IInv, StopInv, ShutdownNotMissed, Asleep
<1> QED
  BY Invariance, <1>1, PTL

-----------------------------------------------------------------------------
(* Refinement *)

\* What the steps of the loop between two rounds or packets leave alone.
Aside == UNCHANGED <<pending, attached, overlooked, rings, shutdown_called>>

\* Steps that do not touch what the service is about.
LEMMA StutterStep ==
    ASSUME Aside, UNCHANGED <<ports, culprit>>,
           pc \in {"done", "crashed"} <=> pc' \in {"done", "crashed"}
    PROVE  UNCHANGED Service!vars
  BY DEF Aside, Service!vars, Service!portVars

\* Looking at the list begins a round.
LEMMA QuiesceStep == ASSUME IInv, Quiesce PROVE Service!BeginRound
<1>1. Aside /\ UNCHANGED culprit /\ pc = "top" /\ pc' = "while" /\ ports' = attached
  BY DEF Quiesce, Aside, envVars, listVars, deviceVars
<1>2. ports = {}
  BY <1>1 DEF IInv, TypeOK
<1> QED
  BY <1>1, <1>2 DEF Aside, Service!BeginRound, Service!portVars

\* Leaving the read section ends it.
LEMMA LeaveStep ==
    ASSUME NEW worked, IInv, Aside, LeaveReadSection(worked), pc \in {"while", "ports"}
    PROVE  Service!EndRound
<1>1. culprit = NoPort
  BY DEF IInv, TypeOK
<1>2. ports' = {} /\ culprit' = NoPort /\ pc' \notin {"done", "crashed"}
  BY DEF LeaveReadSection
<1> QED
  BY <1>1, <1>2 DEF Aside, Service!EndRound, Service!portVars

LEMMA NoticeStep == ASSUME IInv, PollNotify PROVE Service!Notice(cur) /\ cur \in Ports
<1>1. cur \in ports /\ ports \subseteq Ports
  BY DEF PollNotify, IInv, TypeOK
<1> QED
  BY <1>1 DEF PollNotify, Service!Notice

\* A poll that finds a packet takes it from a port of the round.
LEMMA TakeStep ==
    ASSUME IInv, pc = "pop", pc' \notin {"done", "crashed"}, HasPacket, Consume,
           UNCHANGED <<ports, attached, overlooked, shutdown_called>>
    PROVE  Service!Take(cur) /\ cur \in Ports
<1>1. cur \in ports /\ ports \subseteq Ports /\ culprit = NoPort
  BY DEF IInv, TypeOK
<1> QED
  BY <1>1 DEF HasPacket, Consume, Service!Take

LEMMA ServeStep ==
    ASSUME IInv, PollForward \/ PollHairpin
    PROVE  Service!Serve(cur) /\ cur \in Ports
<1>1. /\ pc = "pop" /\ pc' \in {"notify", "ports"} /\ HasPacket /\ Consume
      /\ UNCHANGED <<ports, culprit, attached, overlooked, shutdown_called>>
  BY DEF PollForward, PollHairpin, AfterPacket, LeavePort, listVars
<1>2. Service!Take(cur) /\ cur \in Ports
  BY <1>1, TakeStep
<1> QED
  BY <1>1, <1>2 DEF Service!Serve

LEMMA BlameStep ==
    ASSUME NEW q \in Ports, IInv, PortBroken(q)
    PROVE  Service!Blame(cur, q) /\ cur \in Ports
<1>1. /\ pc = "pop" /\ pc' = "copy" /\ HasPacket /\ Consume
      /\ UNCHANGED <<ports, attached, overlooked, shutdown_called>>
      /\ q \in ports /\ culprit' = q
  BY DEF PortBroken, listVars
<1>2. Service!Take(cur) /\ cur \in Ports
  BY <1>1, TakeStep
<1> QED
  BY <1>1, <1>2 DEF Service!Blame

\* However stale the copy: the list published has room for no port but those of
\* the copy, and only what was not in the list before can be overlooked.
LEMMA PublishStep ==
    ASSUME NEW t \in Threads, NEW list, PublishPorts(t, list)
    PROVE  Service!NewList(list)
  BY DEF PublishPorts, Service!NewList

LEMMA ExpelStep ==
    ASSUME IInv, DetachBroken
    PROVE  \E list \in SUBSET Ports : Service!Expel(list)
<1> DEFINE list == copied["main"] \ {culprit}
<1>1. list \in SUBSET Ports /\ culprit \notin list
  BY DEF IInv, TypeOK, Threads
<1>2. pc = "publish" /\ PublishPorts("main", list) /\ LeaveReadSection(TRUE)
  BY DEF DetachBroken
<1>3. Service!NewList(list)
  BY <1>2, PublishStep DEF Threads
<1>4. culprit # NoPort
  BY <1>2 DEF IInv, TypeOK
<1>5. ports' = {} /\ culprit' = NoPort /\ pc' = "until"
  BY <1>2 DEF LeaveReadSection
<1>6. UNCHANGED <<pending, rings, shutdown_called>>
  BY DEF DetachBroken, deviceVars
<1>7. Service!Expel(list)
  BY <1>1, <1>2, <1>3, <1>4, <1>5, <1>6 DEF Service!Expel
<1> QED
  BY <1>1, <1>7

LEMMA RelistStep ==
    ASSUME IInv, AttachPort \/ DetachPort
    PROVE  \E list \in SUBSET Ports : Service!Relist(list)
<1>1. copied["listener"] \in SUBSET Ports /\ (task # "none" => listener \in Ports)
  BY DEF IInv, TypeOK, Threads
<1>2. PICK list \in SUBSET Ports : PublishPorts("listener", list)
  BY <1>1 DEF AttachPort, DetachPort
<1>3. Service!NewList(list)
  BY <1>2, PublishStep DEF Threads
<1>4. UNCHANGED <<pending, ports, rings, culprit, shutdown_called, pc>>
  BY DEF AttachPort, DetachPort, deviceVars, loopVars
<1>5. Service!Relist(list)
  BY <1>3, <1>4 DEF Service!Relist
<1> QED
  BY <1>5

\* The loop crashes only on queues that are gone, of a port of the round.
LEMMA FaultStep == ASSUME IInv, Fault PROVE Service!BreakDown
<1>1. PICK q \in ports : NullRing(q)
  BY DEF Fault
<1>2. q \in Ports /\ rings[q] # "both" /\ pc \in {"notify", "pop", "ports"}
  BY <1>1 DEF NullRing, IInv, TypeOK
<1>3. Aside /\ UNCHANGED culprit /\ pc' = "crashed" /\ ports' = {}
  BY DEF Fault, Aside, envVars, listVars, deviceVars
<1> QED
  BY <1>2, <1>3 DEF Aside, Service!BreakDown, Service!portVars

\* What the listener writes to the registers of p may empty its rings and gives
\* or takes its queues.
LEMMA ReconfigureStep ==
    ASSUME NEW p \in Ports, IInv,
           pending' \in {pending, [pending EXCEPT ![p] = 0]},
           \E r \in RingStates : rings' = [rings EXCEPT ![p] = r],
           UNCHANGED <<loopVars, shutdown_called, listVars>>
    PROVE  Service!Reconfigure(p)
<1>1. PICK r \in RingStates : rings' = [rings EXCEPT ![p] = r]
  OBVIOUS
<1>2. rings \in [Ports -> RingStates]
  BY DEF IInv, TypeOK
<1>3. CASE r = "both"
  <2>1. {q \in Ports : rings[q] # "both"}' = {q \in Ports : rings[q] # "both"} \ {p}
    BY <1>1, <1>2, <1>3
  <2> QED
    BY <2>1 DEF Service!Reconfigure, loopVars, listVars
<1>4. CASE r # "both"
  <2>1. {q \in Ports : rings[q] # "both"}' = {q \in Ports : rings[q] # "both"} \cup {p}
    BY <1>1, <1>2, <1>4
  <2> QED
    BY <2>1 DEF Service!Reconfigure, loopVars, listVars
<1> QED
  BY <1>3, <1>4

LEMMA RegisterStep ==
    ASSUME NEW p \in Ports, IInv,
           \/ SetQueues(p)
           \/ \E rest \in {"none", "tx"} : TakeQueue(p, rest)
           \/ ClearStatus(p)
    PROVE  Service!Reconfigure(p)
<1> USE DEF RingStates
<1>1. rings \in [Ports -> RingStates] /\ pending \in [Ports -> Nat]
  BY DEF IInv, TypeOK
<1>2. CASE SetQueues(p)
  <2>1. pending' = [pending EXCEPT ![p] = pending[p]] \/ pending' = [pending EXCEPT ![p] = 0]
    BY <1>2 DEF SetQueues
  <2>2. pending' \in {pending, [pending EXCEPT ![p] = 0]}
    BY <1>1, <2>1
  <2> QED
    BY <1>2, <2>2, ReconfigureStep DEF SetQueues
<1>3. ASSUME NEW rest \in {"none", "tx"}, TakeQueue(p, rest) PROVE Service!Reconfigure(p)
  <2>1. pending' = [pending EXCEPT ![p] = pending[p]] \/ pending' = [pending EXCEPT ![p] = 0]
    BY <1>3 DEF TakeQueue
  <2>2. pending' \in {pending, [pending EXCEPT ![p] = 0]}
    BY <1>1, <2>1
  <2> QED
    BY <1>3, <2>2, ReconfigureStep DEF TakeQueue
<1>4. CASE ClearStatus(p)
  <2>1. rings' = [rings EXCEPT ![p] = rings[p]] /\ rings[p] \in RingStates
    BY <1>1, <1>4 DEF ClearStatus
  <2> QED
    BY <1>4, <2>1, ReconfigureStep DEF ClearStatus
<1> QED
  BY <1>2, <1>3, <1>4

LEMMA ClearStep ==
    ASSUME IInv, ClearDevice
    PROVE  \E p \in Ports : Service!Reconfigure(p)
<1>1. PICK p \in Ports : p = listener
  BY DEF ClearDevice, IInv, TypeOK
<1>2. /\ pending' = [pending EXCEPT ![p] = 0]
      /\ rings' = [rings EXCEPT ![p] = "none"]
      /\ UNCHANGED <<loopVars, shutdown_called, listVars>>
  BY <1>1 DEF ClearDevice
<1>3. Service!Reconfigure(p)
  BY <1>2, ReconfigureStep DEF RingStates
<1> QED
  BY <1>3

LEMMA SubmitStep == ASSUME NEW p \in Ports, IInv, Publish(p) PROVE Service!Submit(p)
  BY DEF Publish, Service!Submit, loopVars, listVars

\* The loop ends only after shutdown was called.
LEMMA StopServiceStep ==
    ASSUME IInv, ReadInterrupted \/ TestShutdown
    PROVE  Service!Stop \/ UNCHANGED Service!vars
<1>1. Aside /\ UNCHANGED <<ports, culprit>> /\ pc \in {"read", "until"} /\ pc' # "crashed"
  BY DEF ReadInterrupted, TestShutdown, Aside, envVars, listVars, deviceVars
<1>2. CASE pc' # "done"
  BY <1>1, <1>2, StutterStep
<1>3. CASE pc' = "done"
  <2>1. shutdown_called
    BY <1>3 DEF ReadInterrupted, TestShutdown, IInv, StopInv
  <2> QED
    BY <1>1, <1>3, <2>1 DEF Aside, Service!Stop, Service!portVars
<1> QED
  BY <1>2, <1>3

\* Every step of the loop, its guests, the listener and shutdown is a step of
\* PacketService or leaves it unchanged: the safety half of ImplementsService.
THEOREM Refinement == SafeSpec => Service!SafeSpec
<1>1. Init => Service!Init
  BY DEF Init, Service!Init
<1>2. IInv /\ [Next]_vars => [Service!Next]_Service!vars
  <2> SUFFICES ASSUME IInv, [Next]_vars PROVE Service!Next \/ UNCHANGED Service!vars
    OBVIOUS
  <2>1. CASE Quiesce
    BY <2>1, QuiesceStep DEF Service!Next
  <2>2. CASE SeeShutdown
    BY <2>2, LeaveStep DEF SeeShutdown, Aside, envVars, listVars, deviceVars, Service!Next
  <2>3. CASE RcuTimerElapsed
    BY <2>3, LeaveStep
    DEF RcuTimerElapsed, QuantumDone, Aside, envVars, listVars, deviceVars, Service!Next
  <2>4. CASE StopPolling
    BY <2>4, LeaveStep
    DEF StopPolling, QuantumDone, Aside, envVars, listVars, deviceVars, Service!Next
  <2>5. CASE PollNotify
    BY <2>5, NoticeStep DEF Service!Next
  <2>6. CASE PollForward \/ PollHairpin
    BY <2>6, ServeStep DEF Service!Next
  <2>7. ASSUME NEW q \in Ports, PortBroken(q) PROVE Service!Next
    BY <2>7, BlameStep DEF Service!Next
  <2>8. CASE DetachBroken
    BY <2>8, ExpelStep DEF Service!Next
  <2>9. CASE Fault
    BY <2>9, FaultStep DEF Service!Next
  <2>10. CASE ReadInterrupted \/ TestShutdown
    BY <2>10, StopServiceStep DEF Service!Next
  <2>11. CASE ShutdownFlag
    BY <2>11 DEF ShutdownFlag, loopVars, listVars, deviceVars, Service!Next,
      Service!RequestStop, Service!portVars
  <2>12. ASSUME NEW p \in Ports,
                \/ SetQueues(p)
                \/ \E rest \in {"none", "tx"} : TakeQueue(p, rest)
                \/ ClearStatus(p)
         PROVE  Service!Next
    BY <2>12, RegisterStep DEF Service!Next
  <2>13. CASE ClearDevice
    BY <2>13, ClearStep DEF Service!Next
  <2>14. CASE AttachPort \/ DetachPort
    BY <2>14, RelistStep DEF Service!Next
  <2>15. ASSUME NEW p \in Ports, Publish(p) PROVE Service!Next
    BY <2>15, SubmitStep DEF Service!Next
  \* The loop's steps between two packets.
  <2>16. CASE StartQuantum \/ (\E p \in Ports : NextPort(p)) \/ PollEmpty \/
    CopyToDetach \/ KeepSwitching \/ GoIdle \/ StayIdle \/ IdleTimerElapsed \/
    ReadEvent
    BY <2>16, StutterStep DEF StartQuantum, NextPort, PollEmpty, LeavePort,
      CopyToDetach, CopyPorts, KeepSwitching, QuantumDone, NextRound, GoIdle,
      StayIdle, IdleTimerElapsed, ReadEvent, Aside, envVars, listVars,
      deviceVars
  \* Signalling between the threads, and copies of the list.
  <2>17. CASE ShutdownEvent \/ CopyToModify \/ SchedulePoll \/ \E p \in Ports :
    DriverOk(p) \/ Reset(p) \/ NotifyDisable(p) \/ CheckFlag(p) \/
    KickHotspot(p) \/ KickTrap(p)
    BY <2>17, StutterStep DEF ShutdownEvent, CopyToModify, CopyPorts,
      SchedulePoll, DriverOk, Reset, NotifyDisable, CheckFlag, KickHotspot,
      KickTrap, DriverStep, Aside, loopVars, listVars, deviceVars
  <2>18. CASE UNCHANGED vars
    BY <2>18, StutterStep DEF vars, loopVars, envVars, listVars, deviceVars, Aside
  <2> QED
    BY <2>1, <2>2, <2>3, <2>4, <2>5, <2>6, <2>7, <2>8, <2>9, <2>10, <2>11,
      <2>12, <2>13, <2>14, <2>15, <2>16, <2>17, <2>18
    DEF Next, Loop, Stopper, Listener, Guest
<1> QED
  BY Invariance, <1>1, <1>2, PTL DEF SafeSpec, Service!SafeSpec

=============================================================================
