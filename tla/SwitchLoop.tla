------------------------------ MODULE SwitchLoop ------------------------------
(***************************************************************************)
(* Switch::loop and Switch::work_quantum of switch/switch.cc: the thread   *)
(* that polls every attached port, suppresses guest notifications while    *)
(* it polls, and blocks on the event fd once a whole round with            *)
(* notifications enabled found nothing to do.  Around it run               *)
(*   - one virtio driver per port, which publishes a packet, looks at the  *)
(*     notification flag and kicks if it is clear (external);              *)
(*   - the listener thread, which executes register writes and resets:     *)
(*     it attaches and detaches ports behind the loop's back, and turns    *)
(*     trapped kicks into events;                                          *)
(*   - whoever calls Switch::shutdown.                                     *)
(*                                                                         *)
(* The list of ports is changed by modify_ports, which copies it, changes  *)
(* the copy and publishes that, in the listener and, for a port that is    *)
(* broken, in the loop.  The loop works on the list it dereferenced last,  *)
(* and nobody waits for it: its thread is not registered with liburcu.     *)
(*                                                                         *)
(* Memory is sequentially consistent here; SwitchLoopTSO adds the store    *)
(* buffer of the hardware.  Packet contents, MAC learning and interrupts   *)
(* towards the guest are left to other modules.  A list is a set: a port   *)
(* that is in it twice, attached anew after its detach was lost, differs   *)
(* from one that is in it once only by staying after the next detach,      *)
(* which a lost update does as well.                                       *)
(***************************************************************************)
EXTENDS Naturals

CONSTANTS
    Ports,          \* the ports that may ever be attached
    NoPort,         \* "no port"
    HairpinPorts,   \* ports whose guest also sends frames to its own address
    BatchSize,      \* _batch_size: packets per port and quantum
    PollUs,         \* _poll_us: idle polling time, 0 to block at once
    MaxPending,     \* bound on the packets each guest keeps outstanding
    MaxUpsets       \* bound on the upsets: broken ports, queues taken away,
                    \* statuses cleared, resets and shutdowns, together

ASSUME PortsAssumption     == NoPort \notin Ports /\ HairpinPorts \subseteq Ports
ASSUME BatchSizeAssumption == BatchSize \in Nat \ {0}
ASSUME PollUsAssumption    == PollUs \in Nat
ASSUME BoundAssumption     == MaxPending \in [Ports -> Nat \ {0}] /\ MaxUpsets \in Nat

VARIABLES
    \* Switch::loop, Switch::work_quantum
    pc,             \* where the loop is
    state,          \* WORK, IDLE or NOTIFICATION_ENABLE
    ports,          \* the list this RCU read section dereferenced
    left,           \* ports the current quantum has still to visit
    cur,            \* src_port
    quota,          \* packets src_port may still send in this quantum
    work_done,
    culprit,        \* the port a PortBrokenException is about
    \* Switch members other threads write
    shutdown_called,
    event,          \* is the counter of _event_fd non-zero?
    attached,       \* *_ports: what a new read section will see
    copied,         \* what modify_ports copied from it, per thread
    overlooked,     \* history: ports that came into the list with packets or
                    \* with notifications off, and were not polled since
    \* VirtioDevice, per port
    rings,          \* have both queues an address, the TX queue alone, or no TX?
    ready,          \* status has DRIVER_OK
    no_notify,      \* used->flags of the TX queue has VRING_USED_F_NO_NOTIFY
    \* the other threads
    pending,        \* packets published and not yet popped, per port
    guest,          \* where each virtio driver is
    listener,       \* the port whose message the listener works on
    task,           \* what it has to do next about it
    stopper,        \* where the caller of Switch::shutdown is
    upsets          \* how many upsets there have been

loopVars   == <<pc, state, ports, left, cur, quota, work_done, culprit>>
listVars   == <<attached, copied, overlooked>>
deviceVars == <<rings, ready, no_notify, pending, guest>>
threadVars == <<listener, task, stopper, upsets>>
envVars    == <<listVars, deviceVars, threadVars>>
vars       == <<loopVars, shutdown_called, event, envVars>>

Threads     == {"main", "listener"}
LoopStates  == {"top", "while", "ports", "notify", "pop", "copy", "publish",
                "read", "until", "done", "crashed"}
IdleStates  == {"WORK", "IDLE", "NOTIFICATION_ENABLE"}
RingStates  == {"none", "tx", "both"}
Tasks       == {"none", "poll", "enable", "disable", "reset",
                "attach", "detach", "retire", "clear"}
GuestStates == {"idle", "check", "kick", "trapped"}

TypeOK ==
    /\ pc \in LoopStates
    /\ state \in IdleStates
    /\ ports \subseteq Ports
    /\ pc \in {"top", "read", "until", "done", "crashed"} => ports = {}
    /\ left \subseteq ports
    /\ cur \in ports \cup {NoPort}
    /\ quota \in 0 .. BatchSize
    /\ pc \in {"notify", "pop"} <=> quota > 0
    /\ pc \in {"notify", "pop"} <=> cur # NoPort
    /\ work_done \in BOOLEAN
    /\ culprit \in ports \cup {NoPort}
    /\ pc \in {"copy", "publish"} <=> culprit # NoPort
    /\ shutdown_called \in BOOLEAN
    /\ event \in BOOLEAN
    /\ attached \subseteq Ports
    /\ copied \in [Threads -> SUBSET Ports]
    /\ overlooked \subseteq attached
    /\ rings \in [Ports -> RingStates]
    /\ ready \in [Ports -> BOOLEAN]
    /\ no_notify \in [Ports -> BOOLEAN]
    /\ pending \in [Ports -> Nat]
    /\ \A p \in Ports : pending[p] <= MaxPending[p]
    /\ guest \in [Ports -> GuestStates]
    /\ listener \in Ports \cup {NoPort}
    /\ task \in Tasks
    /\ task = "none" <=> listener = NoPort
    /\ stopper \in {"idle", "write", "done"}
    /\ upsets \in 0 .. MaxUpsets

Init ==
    /\ pc = "top"
    /\ state = "WORK"
    /\ ports = {}
    /\ left = {}
    /\ cur = NoPort
    /\ quota = 0
    /\ work_done = FALSE
    /\ culprit = NoPort
    /\ shutdown_called = FALSE
    /\ event = FALSE
    /\ attached = {}
    /\ copied = [t \in Threads |-> {}]
    /\ overlooked = {}
    /\ rings = [p \in Ports |-> "none"]
    /\ ready = [p \in Ports |-> FALSE]
    /\ no_notify = [p \in Ports |-> FALSE]
    /\ pending = [p \in Ports |-> 0]
    /\ guest = [p \in Ports |-> "idle"]
    /\ listener = NoPort
    /\ task = "none"
    /\ stopper = "idle"
    /\ upsets = 0

-----------------------------------------------------------------------------
(* Switch::modify_ports, in thread t *)

\* new std::list<Port *>( *_ports ), before the mutex is taken.
CopyPorts(t) ==
    /\ copied' = [copied EXCEPT ![t] = attached]
    /\ UNCHANGED <<attached, overlooked>>

\* Under the mutex: the changed copy becomes the list, whatever that is by now.
PublishPorts(t, list) ==
    /\ attached' = list
    /\ copied' = [copied EXCEPT ![t] = {}]
    /\ overlooked' = list \cap
           (overlooked \cup {p \in list \ attached : no_notify[p] \/ pending[p] > 0})

-----------------------------------------------------------------------------
(* Switch::loop: one read section *)

\* Top of the main loop: announce a quiescent state and look at the ports anew.
Quiesce ==
    /\ pc = "top"
    /\ pc' = "while"
    /\ ports' = attached
    /\ UNCHANGED <<state, left, cur, quota, work_done, culprit, shutdown_called, event, envVars>>

\* Label block: the locals of the read section die.  After work, go straight to
\* the test of the main loop; otherwise go offline and read the event fd.
LeaveReadSection(worked) ==
    /\ pc' = IF worked THEN "until" ELSE "read"
    /\ state' = "WORK"
    /\ ports' = {}
    /\ left' = {}
    /\ cur' = NoPort
    /\ quota' = 0
    /\ work_done' = FALSE
    /\ culprit' = NoPort

\* while (not should_shutdown()): start a quantum or leave the read section.
StartQuantum ==
    /\ pc = "while"
    /\ ~shutdown_called
    /\ pc' = "ports"
    /\ left' = ports
    /\ work_done' = FALSE
    /\ UNCHANGED <<state, ports, cur, quota, culprit, shutdown_called, event, envVars>>

SeeShutdown ==
    /\ pc = "while"
    /\ shutdown_called
    /\ LeaveReadSection(work_done)
    /\ UNCHANGED <<shutdown_called, event, envVars>>

-----------------------------------------------------------------------------
(* Switch::work_quantum *)

\* for (Port *src_port : ports), in the order of the list.
NextPort(p) ==
    /\ pc = "ports"
    /\ p \in left
    /\ pc' = "notify"
    /\ left' = left \ {p}
    /\ cur' = p
    /\ quota' = BatchSize
    /\ UNCHANGED <<state, ports, work_done, culprit, shutdown_called, event, envVars>>

\* Mutant: notifications come on one round too early and go off again.
EnabledWhileIdle == state = "IDLE"

\* The parameter enabled_notifications of work_quantum and Port::poll.
EnabledNotifications == state = "NOTIFICATION_ENABLE"

\* VirtioDevice::poll, first half: set the notification flag of the guest ...
PollNotify ==
    /\ pc = "notify"
    /\ rings[cur] # "none"
    /\ pc' = "pop"
    /\ no_notify' = [no_notify EXCEPT ![cur] = ~EnabledNotifications]
    /\ overlooked' = overlooked \ {cur}
    /\ UNCHANGED <<state, ports, left, cur, quota, work_done, culprit, shutdown_called,
                   event, attached, copied, rings, ready, pending, guest, threadVars>>

\* ... second half: is there something to pop, and may we?
HasPacket == ready[cur] /\ pending[cur] > 0

\* The for loop over quota: poll again, or go on with the next port.
LeavePort ==
    /\ pc' = "ports"
    /\ cur' = NoPort
    /\ quota' = 0

\* Mutant: the quota is tested after it has run out.
AfterPacketOffByOne ==
    IF quota = 0
      THEN LeavePort
      ELSE /\ pc' = "notify"
           /\ quota' = quota - 1
           /\ UNCHANGED cur

AfterPacket ==
    IF quota = 1
      THEN LeavePort
      ELSE /\ pc' = "notify"
           /\ quota' = quota - 1
           /\ UNCHANGED cur

PollEmpty ==
    /\ pc = "pop"
    /\ ~HasPacket
    /\ ready[cur] => rings[cur] # "none"
    /\ LeavePort
    /\ UNCHANGED <<state, ports, left, work_done, culprit, shutdown_called, event, envVars>>

Consume ==
    /\ pending' = [pending EXCEPT ![cur] = @ - 1]
    /\ UNCHANGED <<rings, ready, no_notify, guest>>

\* Mutant: a switched packet does not count as work.
PollForwardUncounted ==
    /\ pc = "pop"
    /\ HasPacket
    /\ Consume
    /\ AfterPacket
    /\ UNCHANGED <<state, ports, left, work_done, culprit, shutdown_called, event,
                   listVars, threadVars>>

\* A packet is switched to one port or flooded.
PollForward ==
    /\ pc = "pop"
    /\ HasPacket
    /\ Consume
    /\ AfterPacket
    /\ work_done' = TRUE
    /\ UNCHANGED <<state, ports, left, culprit, shutdown_called, event, listVars,
                   threadVars>>

\* "Destination port is same as source port?": dropped with a continue that
\* does not count as work.
PollHairpin ==
    /\ pc = "pop"
    /\ cur \in HairpinPorts
    /\ HasPacket
    /\ Consume
    /\ AfterPacket
    /\ UNCHANGED <<state, ports, left, work_done, culprit, shutdown_called, event,
                   listVars, threadVars>>

\* poll, or the receive of a destination q, throws PortBrokenException.
PortBroken(q) ==
    /\ pc = "pop"
    /\ HasPacket
    /\ q \in ports
    /\ ready[q]
    /\ q = cur \/ rings[q] = "both"
    /\ upsets < MaxUpsets
    /\ upsets' = upsets + 1
    /\ Consume
    /\ pc' = "copy"
    /\ culprit' = q
    /\ left' = {}
    /\ cur' = NoPort
    /\ quota' = 0
    /\ UNCHANGED <<state, ports, work_done, shutdown_called, event, listVars, listener,
                   task, stopper>>

\* The handler calls detach_port, which copies the list ...
CopyToDetach ==
    /\ pc = "copy"
    /\ pc' = "publish"
    /\ CopyPorts("main")
    /\ UNCHANGED <<state, ports, left, cur, quota, work_done, culprit,
                   shutdown_called, event, deviceVars, threadVars>>

\* Mutant: the broken port is detached, but the read section goes on with the
\* list that still holds it.
DetachBrokenGoOn ==
    /\ pc = "publish"
    /\ PublishPorts("main", copied["main"] \ {culprit})
    /\ pc' = "ports"
    /\ work_done' = TRUE
    /\ culprit' = NoPort
    /\ UNCHANGED <<state, ports, left, cur, quota, shutdown_called, event,
                   deviceVars, threadVars>>

\* ... and publishes it without the port, and breaks out of the read section to
\* force a quiescent state.
DetachBroken ==
    /\ pc = "publish"
    /\ PublishPorts("main", copied["main"] \ {culprit})
    /\ LeaveReadSection(TRUE)
    /\ UNCHANGED <<shutdown_called, event, deviceVars, threadVars>>

\* What the loop is about to use of port q is a ring without an address: in
\* the two halves of poll, in receive, and in poll_irq.
NullRing(q) ==
    \/ pc = "notify" /\ q = cur /\ rings[q] = "none"
    \/ pc = "pop" /\ q = cur /\ ready[q] /\ rings[q] = "none"
    \/ pc = "pop" /\ HasPacket /\ q # cur /\ ready[q] /\ rings[q] # "both"
    \/ pc = "ports" /\ left = {} /\ rings[q] # "both"

\* disable() has not waited for the loop, or has not been called yet: SIGSEGV.
\* (What the other actors do afterwards is of no consequence.)
Fault ==
    /\ \E q \in ports : NullRing(q)
    /\ pc' = "crashed"
    /\ state' = "WORK"
    /\ ports' = {}
    /\ left' = {}
    /\ cur' = NoPort
    /\ quota' = 0
    /\ work_done' = FALSE
    /\ UNCHANGED <<culprit, shutdown_called, event, envVars>>

-----------------------------------------------------------------------------
(* Switch::loop: what to do after a quantum *)

\* Every port had its turn: work_quantum returned work_done.
QuantumDone(worked) ==
    /\ pc = "ports"
    /\ left = {}
    /\ work_done = worked

\* The polling state after a quantum that did not end the read section.
NextRound(s) ==
    /\ state' = s
    /\ pc' = "while"
    /\ UNCHANGED <<ports, left, cur, quota, work_done, culprit, shutdown_called,
                   event, envVars>>

\* Saw action, and the RCU timer did not force us out.
KeepSwitching == QuantumDone(TRUE) /\ NextRound("WORK")

\* Saw action and rcu_timer.elapsed: leave the read section.
RcuTimerElapsed ==
    /\ QuantumDone(TRUE)
    /\ LeaveReadSection(TRUE)
    /\ UNCHANGED <<shutdown_called, event, envVars>>

\* First idle quantum: start the idle clock, or enable notifications at once.
GoIdle ==
    /\ QuantumDone(FALSE)
    /\ state = "WORK"
    /\ NextRound(IF PollUs # 0 THEN "IDLE" ELSE "NOTIFICATION_ENABLE")

StayIdle ==
    /\ QuantumDone(FALSE)
    /\ state = "IDLE"
    /\ NextRound("IDLE")

IdleTimerElapsed ==
    /\ QuantumDone(FALSE)
    /\ state = "IDLE"
    /\ NextRound("NOTIFICATION_ENABLE")

\* Idle with notifications enabled: goto block.
StopPolling ==
    /\ QuantumDone(FALSE)
    /\ state = "NOTIFICATION_ENABLE"
    /\ LeaveReadSection(FALSE)
    /\ UNCHANGED <<shutdown_called, event, envVars>>

\* read(_event_fd) returns and resets the counter.
ReadEvent ==
    /\ pc = "read"
    /\ event
    /\ event' = FALSE
    /\ pc' = "until"
    /\ UNCHANGED <<state, ports, left, cur, quota, work_done, culprit,
                   shutdown_called, envVars>>

\* read fails with EINTR because the SIGINT handler, which called shutdown,
\* ran in this thread; the loop breaks.
ReadInterrupted ==
    /\ pc = "read"
    /\ stopper = "done"
    /\ pc' = "done"
    /\ UNCHANGED <<state, ports, left, cur, quota, work_done, culprit,
                   shutdown_called, event, envVars>>

\* while (not should_shutdown()) of the main loop.
TestShutdown ==
    /\ pc = "until"
    /\ pc' = IF shutdown_called THEN "done" ELSE "top"
    /\ UNCHANGED <<state, ports, left, cur, quota, work_done, culprit,
                   shutdown_called, event, envVars>>

-----------------------------------------------------------------------------
(* Switch::shutdown: set the flag, then write the event fd *)

ShutdownFlag ==
    /\ stopper = "idle"
    /\ upsets < MaxUpsets
    /\ upsets' = upsets + 1
    /\ stopper' = "write"
    /\ shutdown_called' = TRUE
    /\ UNCHANGED <<loopVars, event, listVars, deviceVars, listener, task>>

\* Mutant: shutdown does not write the event fd.
ShutdownSilent ==
    /\ stopper = "write"
    /\ stopper' = "done"
    /\ UNCHANGED <<loopVars, shutdown_called, event, listVars, deviceVars, listener,
                   task, upsets>>

ShutdownEvent ==
    /\ stopper = "write"
    /\ stopper' = "done"
    /\ event' = TRUE
    /\ UNCHANGED <<loopVars, shutdown_called, listVars, deviceVars, listener, task,
                   upsets>>

-----------------------------------------------------------------------------
(* The listener thread executes VirtioDevice::io_write and reset, one       *)
(* message at a time.  VirtioDevice::online is rings[p] = "both" whenever   *)
(* it works on no message of p.                                             *)

\* What is left to do for a message of port p.
Begin(p, t) ==
    /\ listener = NoPort
    /\ listener' = p
    /\ task' = t

Finish ==
    /\ listener' = NoPort
    /\ task' = "none"

\* The VIRTIO_PCI_QUEUE_PFN write after which both queues have an address (with
\* the one before it, if there was none).  The driver has cleared the ring,
\* unless it is the RX queue that was missing.  A port that is online stays as
\* it is.
SetQueues(p) ==
    /\ rings[p] # "both" \/ ~ready[p]
    /\ guest[p] = "idle"
    /\ rings' = [rings EXCEPT ![p] = "both"]
    /\ pending' = [pending EXCEPT ![p] = IF rings[p] = "tx" THEN @ ELSE 0]
    /\ no_notify' = [no_notify EXCEPT ![p] = IF rings[p] = "tx" THEN @ ELSE FALSE]
    /\ IF rings[p] = "both"
         THEN listener = NoPort /\ UNCHANGED <<listener, task>>
         ELSE Begin(p, "enable")
    /\ UNCHANGED <<loopVars, shutdown_called, event, listVars, ready, guest, stopper,
                   upsets>>

\* A VIRTIO_PCI_QUEUE_PFN write with an address that is not mapped, for the RX
\* queue (the TX queue is left) or for the TX queue.
TakeQueue(p, rest) ==
    /\ rings[p] = "both"
    /\ guest[p] = "idle"
    /\ upsets < MaxUpsets
    /\ upsets' = upsets + 1
    /\ rings' = [rings EXCEPT ![p] = rest]
    /\ pending' = [pending EXCEPT ![p] = IF rest = "tx" THEN @ ELSE 0]
    /\ no_notify' = [no_notify EXCEPT ![p] = IF rest = "tx" THEN @ ELSE FALSE]
    /\ Begin(p, "disable")
    /\ UNCHANGED <<loopVars, shutdown_called, event, listVars, ready, guest, stopper>>

\* VIRTIO_PCI_STATUS with DRIVER_OK.
DriverOk(p) ==
    /\ listener = NoPort
    /\ rings[p] = "both"
    /\ ~ready[p]
    /\ ready' = [ready EXCEPT ![p] = TRUE]
    /\ UNCHANGED <<loopVars, shutdown_called, event, listVars, rings, no_notify,
                   pending, guest, threadVars>>

\* VIRTIO_PCI_STATUS without: the driver gives up what it has in the ring, but
\* the port stays where it is.
ClearStatus(p) ==
    /\ listener = NoPort
    /\ ready[p]
    /\ guest[p] = "idle"
    /\ upsets < MaxUpsets
    /\ upsets' = upsets + 1
    /\ ready' = [ready EXCEPT ![p] = FALSE]
    /\ pending' = [pending EXCEPT ![p] = 0]
    /\ UNCHANGED <<loopVars, shutdown_called, event, listVars, rings, no_notify,
                   guest, listener, task, stopper>>

\* RESET, with the driver wherever it is but for a write that came before.
Reset(p) ==
    /\ guest[p] # "trapped"
    /\ upsets < MaxUpsets
    /\ upsets' = upsets + 1
    /\ guest' = [guest EXCEPT ![p] = "idle"]
    /\ Begin(p, "reset")
    /\ UNCHANGED <<loopVars, shutdown_called, event, listVars, rings, ready,
                   no_notify, pending, stopper>>

\* enable() and disable() begin with a copy of the list ...
CopyToModify ==
    /\ task \in {"enable", "disable", "reset"}
    /\ task' = CASE task = "enable"  -> "attach"
                 [] task = "disable" -> "detach"
                 [] task = "reset"   -> "retire"
    /\ CopyPorts("listener")
    /\ UNCHANGED <<loopVars, shutdown_called, event, deviceVars, listener, stopper,
                   upsets>>

\* ... attach_port puts the port in front ...
AttachPort ==
    /\ task = "attach"
    /\ PublishPorts("listener", copied["listener"] \cup {listener})
    /\ Finish
    /\ UNCHANGED <<loopVars, shutdown_called, event, deviceVars, stopper, upsets>>

\* ... and detach_port removes it.  synchronize_rcu waits for nobody.
DetachPort ==
    /\ task \in {"detach", "retire"}
    /\ PublishPorts("listener", copied["listener"] \ {listener})
    /\ IF task = "retire"
         THEN task' = "clear" /\ UNCHANGED listener
         ELSE Finish
    /\ UNCHANGED <<loopVars, shutdown_called, event, deviceVars, stopper, upsets>>

\* The rest of reset: status = 0 and memset of the queues.
ClearDevice ==
    /\ task = "clear"
    /\ rings' = [rings EXCEPT ![listener] = "none"]
    /\ ready' = [ready EXCEPT ![listener] = FALSE]
    /\ no_notify' = [no_notify EXCEPT ![listener] = FALSE]
    /\ pending' = [pending EXCEPT ![listener] = 0]
    /\ Finish
    /\ UNCHANGED <<loopVars, shutdown_called, event, listVars, guest, stopper, upsets>>

\* VIRTIO_PCI_QUEUE_NOTIFY: disable_notification ...
NotifyDisable(p) ==
    /\ guest[p] = "trapped"
    /\ no_notify' = [no_notify EXCEPT ![p] = TRUE]
    /\ guest' = [guest EXCEPT ![p] = "idle"]
    /\ Begin(p, "poll")
    /\ UNCHANGED <<loopVars, shutdown_called, event, listVars, rings, ready, pending,
                   stopper, upsets>>

\* ... and then Switch::schedule_poll.
SchedulePoll ==
    /\ task = "poll"
    /\ event' = TRUE
    /\ Finish
    /\ UNCHANGED <<loopVars, shutdown_called, listVars, deviceVars, stopper, upsets>>

-----------------------------------------------------------------------------
(* The virtio driver of port p, external to this repository.  It publishes *)
(* with a full barrier between avail->idx and the look at used->flags, and  *)
(* waits while a register write of its own is executed, but for a kick.    *)

Publish(p) ==
    /\ guest[p] = "idle"
    /\ ready[p]
    /\ rings[p] # "none"
    /\ listener = p => task = "poll"
    /\ pending[p] < MaxPending[p]
    /\ pending' = [pending EXCEPT ![p] = @ + 1]
    /\ guest' = [guest EXCEPT ![p] = "check"]
    /\ UNCHANGED <<loopVars, shutdown_called, event, listVars, rings, ready,
                   no_notify, threadVars>>

\* From one place of the driver to the next.
DriverStep(p, from, to) ==
    /\ guest[p] = from
    /\ guest' = [guest EXCEPT ![p] = to]
    /\ UNCHANGED <<loopVars, shutdown_called, listVars, rings, ready, no_notify,
                   pending, threadVars>>

CheckFlag(p) ==
    /\ DriverStep(p, "check", IF no_notify[p] THEN "idle" ELSE "kick")
    /\ UNCHANGED event

\* The kick: the hypervisor writes the event fd get_hotspot handed out ...
KickHotspot(p) ==
    /\ DriverStep(p, "kick", "idle")
    /\ event' = TRUE

\* ... or forwards the trapped write to the session.
KickTrap(p) ==
    /\ DriverStep(p, "kick", "trapped")
    /\ UNCHANGED event

-----------------------------------------------------------------------------
Loop ==
    \/ Quiesce
    \/ StartQuantum
    \/ SeeShutdown
    \/ \E p \in Ports : NextPort(p)
    \/ PollNotify
    \/ PollEmpty
    \/ PollForward
    \/ PollHairpin
    \/ \E p \in Ports : PortBroken(p)
    \/ CopyToDetach
    \/ DetachBroken
    \/ Fault
    \/ KeepSwitching
    \/ RcuTimerElapsed
    \/ GoIdle
    \/ StayIdle
    \/ IdleTimerElapsed
    \/ StopPolling
    \/ ReadEvent
    \/ ReadInterrupted
    \/ TestShutdown

Stopper == ShutdownFlag \/ ShutdownEvent

Listener ==
    \/ \E p \in Ports :
           \/ SetQueues(p)
           \/ \E rest \in {"none", "tx"} : TakeQueue(p, rest)
           \/ DriverOk(p)
           \/ ClearStatus(p)
           \/ Reset(p)
           \/ NotifyDisable(p)
    \/ CopyToModify
    \/ AttachPort
    \/ DetachPort
    \/ ClearDevice
    \/ SchedulePoll

Guest(p) == Publish(p) \/ CheckFlag(p) \/ KickHotspot(p) \/ KickTrap(p)

Next == Loop \/ Stopper \/ Listener \/ \E p \in Ports : Guest(p)

\* What a virtio driver does to finish a transmission it began.
FinishPublish(p) == CheckFlag(p) \/ KickHotspot(p) \/ KickTrap(p)

\* What the listener thread does about trapped kicks, and to finish what it does.
HandleMessage ==
    \/ CopyToModify
    \/ AttachPort
    \/ DetachPort
    \/ ClearDevice
    \/ SchedulePoll
    \/ \E p \in Ports : NotifyDisable(p)

\* The main loop runs whenever it is not blocked; the two timers elapse, since
\* the cycle counter they compare with keeps growing: the idle one ends every
\* idle period, the RCU one is not missed for ever; a driver that published
\* finishes its transmission, the listener finishes the message it works on and
\* does not leave every forwarded kick alone, and shutdown, once called,
\* returns.  Nobody has to publish, to set up a device or to call shutdown.
Fairness ==
    /\ WF_vars(Loop)
    /\ SF_vars(RcuTimerElapsed)
    /\ []<>(state # "IDLE")
    /\ \A p \in Ports : WF_vars(FinishPublish(p))
    /\ WF_vars(HandleMessage)
    /\ WF_vars(ShutdownEvent)

SafeSpec == Init /\ [][Next]_vars
Spec     == SafeSpec /\ Fairness

-----------------------------------------------------------------------------
(* Properties *)

Prompt == Ports \ HairpinPorts

\* The device of port p is being reset: nobody waits for what is in its rings.
BeingReset(p) == listener = p /\ task \in {"reset", "retire"}

\* The ports whose driver can count on being served: in the list, and seen by
\* the loop if they came into it with something to see.
Noticed == {p \in attached \ overlooked : ~BeingReset(p)}

\* The loop sleeps in read(_event_fd).
Asleep == pc = "read" /\ ~event

\* The listener executes a kick of port p.
KickInHand(p) == listener = p /\ task = "poll"

\* Somebody who will write the event fd is on the way for port p.
WakeupUnderWay(p) == KickInHand(p) \/ guest[p] \in {"check", "kick", "trapped"}

\* While the loop sleeps, no packet of an attached port is left behind: its
\* driver is still about to kick, or its kick is being executed.  (switch.cc:
\* "Returns false if we were idle", "We still haven't seen action and
\* notifications are already enabled.  Time to block.")
NoLostWakeup ==
    Asleep /\ ~shutdown_called =>
        \A p \in Noticed \cap Prompt : pending[p] > 0 => WakeupUnderWay(p)

\* The same promise for every port, as the two comments make it.
NoLostWakeupAnyPort ==
    Asleep /\ ~shutdown_called =>
        \A p \in Noticed : pending[p] > 0 => WakeupUnderWay(p)

\* While the loop sleeps every attached port can wake it: its notifications
\* are on, unless io_write just turned them off and is about to wake the loop
\* itself.  This covers ports the listener attached behind the loop's back.
AsleepIsWakeable ==
    Asleep /\ ~shutdown_called =>
        \A p \in Noticed : no_notify[p] => KickInHand(p)

\* shutdown wakes the loop: once it has returned, the loop is not asleep.
\* (switch.hh: "It will exit from its loop() method, if that is currently
\* executing.")
ShutdownNotMissed == stopper = "done" => ~Asleep

\* What the loop does, seen as a service to rounds of ports: it takes packets
\* only of ports that were in the list when the round began, ends the round when
\* one of them is found broken and takes that one off the list, stops when and
\* only when told to (or when the queues of a port of the round are gone), and,
\* under Fairness, takes every packet of a listed port eventually.
Service == INSTANCE PacketService WITH
               PromptPorts <- Prompt,
               waiting     <- pending,
               listed      <- attached,
               served      <- ports,
               withdrawn   <- {p \in Ports : rings[p] # "both"},
               stopping    <- shutdown_called,
               running     <- pc \notin {"done", "crashed"}

ImplementsService == Service!Spec

=============================================================================
