----------------------------- MODULE VirtioConfig -----------------------------
(***************************************************************************)
(* The registers of a virtio device (VirtioDevice::io_write, vq_set_addr   *)
(* and reset of switch/virtiodevice-io.cc) under the listener thread, and  *)
(* what they do to the port while Switch::loop uses it: it polls the port, *)
(* gives it packets, interrupts its guest, or throws it out.               *)
(*                                                                         *)
(* A queue address is whether it can be translated.  A change of the port  *)
(* list is one step (PortsRcu has what it is made of).  The first request  *)
(* of a client that touches the device is RESET; kicks are in SwitchLoop,  *)
(* the descriptors of interrupts in Sessions.                              *)
(***************************************************************************)
EXTENDS Naturals, FiniteSets

VirtQueues == {"rx", "tx", "ctrl"}

VARIABLES
    \* VirtioDevice
    online,
    driver_ok,      \* status has VIRTIO_CONFIG_S_DRIVER_OK
    fast,           \* guest_features has all fast_path_features
    queue_sel,
    desc,           \* queues with an address: the pointers of vq.vring are set
    vector,         \* queues with a vector: not VIRTIO_MSI_NO_VECTOR
    irq_wanted,     \* the RX queue's pending_irq
    \* Switch
    entries,        \* how often the port is in _ports
    in_loop,        \* the list the loop works on has it
    \* where the threads are
    request,        \* listener
    step,           \* loop
    \* history
    thrown,         \* the loop has detached this device since it came online
    stale,          \* ... or the listener has, and the loop did not yet notice
    wrong           \* since its reset the guest did what it must not do

deviceRegs == <<online, driver_ok, fast, queue_sel, desc, vector, irq_wanted>>
loopPlace  == <<in_loop, step>>
configVars == <<deviceRegs, entries, loopPlace, request, thrown, stale, wrong>>

ConfigTypeOK ==
    /\ {online, driver_ok, fast, irq_wanted, in_loop, thrown, stale, wrong} \subseteq BOOLEAN
    /\ queue_sel \in VirtQueues
    /\ desc \subseteq VirtQueues /\ vector \subseteq VirtQueues
    /\ entries \in {0, 1}
    /\ request \in {"off", "idle", "pfn", "reset"}
    /\ step \in {"quiesce", "poll", "switch", "receive", "irq", "broken"}

ConfigInit(start) ==
    /\ online = FALSE /\ driver_ok = FALSE /\ fast = FALSE
    /\ queue_sel = "rx"
    /\ desc = {} /\ vector = {} /\ irq_wanted = FALSE
    /\ entries = 0 /\ in_loop = FALSE
    /\ request = start /\ step = "quiesce"
    /\ thrown = FALSE /\ stale = FALSE /\ wrong = FALSE

-----------------------------------------------------------------------------
(* VirtioDevice::enable and disable.  disable does not wait for the loop,      *)
(* which is not a registered reader (finding 3).                               *)

Enable ==
    /\ entries' = entries + 1
    /\ online' = TRUE
    /\ thrown' = FALSE
    /\ UNCHANGED stale

Disable ==
    /\ entries' = 0
    /\ online' = FALSE
    /\ thrown' = FALSE
    /\ stale' = (stale \/ in_loop)

-----------------------------------------------------------------------------
(* VirtioDevice::io_write *)

Listener == <<loopPlace, irq_wanted>>

\* QUEUE_SEL: other numbers are refused.
WriteQueueSel ==
    /\ request = "idle"
    /\ queue_sel' \in VirtQueues
    /\ UNCHANGED <<Listener, online, driver_ok, fast, desc, vector, entries, request,
                   thrown, stale, wrong>>

\* QUEUE_PFN, first: vq_set_addr.
WriteQueuePfn(translated) ==
    /\ request = "idle"
    /\ desc' = IF translated THEN desc \cup {queue_sel} ELSE desc \ {queue_sel}
    /\ request' = "pfn"
    /\ UNCHANGED <<Listener, online, driver_ok, fast, queue_sel, vector, entries,
                   thrown, stale, wrong>>

Complete == {"rx", "tx"} \subseteq desc

\* Mutants: a port that is online is enabled again; it is with its first queue.
EnableAgain    == Complete
EnableWithHalf == ~online /\ {"rx", "tx"} \cap desc # {}

ToEnable  == ~online /\ Complete
ToDisable == online /\ ~Complete

\* QUEUE_PFN, then: with both queues the port goes online, without it goes offline.
SetOnline ==
    /\ request = "pfn"
    /\ request' = "idle"
    /\ CASE ToEnable  -> Enable
         [] ToDisable -> Disable
         [] OTHER     -> UNCHANGED <<entries, online, thrown, stale>>
    /\ UNCHANGED <<Listener, driver_ok, fast, queue_sel, desc, vector, wrong>>

\* GUEST_FEATURES and STATUS.  The guest must not take features back without a reset,
\* nor say it is ready without the features receive insists on and without vectors.
WriteFeatures ==
    /\ request = "idle"
    /\ fast' \in BOOLEAN
    /\ wrong' = (wrong \/ (fast /\ ~fast'))
    /\ UNCHANGED <<Listener, online, driver_ok, queue_sel, desc, vector, entries,
                   request, thrown, stale>>

WriteStatus ==
    /\ request = "idle"
    /\ driver_ok' \in BOOLEAN
    /\ wrong' = (wrong \/ (driver_ok' /\ ~(fast /\ {"rx", "tx"} \subseteq vector)))
    /\ UNCHANGED <<Listener, online, fast, queue_sel, desc, vector, entries, request,
                   thrown, stale>>

\* MSI_QUEUE_VECTOR: a vector out of bounds, and so none at all, is refused.
WriteVector ==
    /\ request = "idle"
    /\ vector' = vector \cup {queue_sel}
    /\ UNCHANGED <<Listener, online, driver_ok, fast, queue_sel, desc, entries, request,
                   thrown, stale, wrong>>

-----------------------------------------------------------------------------
(* VirtioDevice::reset *)

\* Mutant: the port stays attached.
ResetAttached ==
    /\ request = "idle"
    /\ request' = "reset"
    /\ UNCHANGED <<deviceRegs, loopPlace, entries, thrown, stale, wrong>>

Reset ==
    /\ request = "idle"
    /\ request' = "reset"
    /\ Disable
    /\ UNCHANGED <<Listener, driver_ok, fast, queue_sel, desc, vector, wrong>>

\* ... and when it is offline, or is taken to be, everything else.
ClearRegisters ==
    /\ request = "reset"
    /\ request' = "idle"
    /\ driver_ok' = FALSE /\ fast' = FALSE /\ queue_sel' = "rx"
    /\ desc' = {} /\ vector' = {} /\ irq_wanted' = FALSE
    /\ wrong' = FALSE
    /\ UNCHANGED <<loopPlace, online, entries, thrown, stale>>

-----------------------------------------------------------------------------
(* Switch::loop, as far as this port sees it *)

Elsewhere == <<online, driver_ok, fast, queue_sel, desc, vector, request, wrong>>

Quiesce ==
    /\ request # "off"
    /\ step = "quiesce"
    /\ in_loop' = (entries > 0)
    /\ step' = IF entries > 0 THEN "poll" ELSE "quiesce"
    /\ stale' = FALSE
    /\ UNCHANGED <<Elsewhere, irq_wanted, entries, thrown>>

\* A guest that is ready may have a broken ring (VirtQueue).
PollPort ==
    /\ step = "poll"
    /\ \/ step' = "switch" /\ UNCHANGED wrong
       \/ step' = "broken" /\ driver_ok /\ wrong' = TRUE
    /\ UNCHANGED <<deviceRegs, in_loop, request, entries, thrown, stale>>

\* Mutant: packets are given to a port whose driver is not ready.
NotAsked == TRUE

Asked == driver_ok

\* VirtioDevice::receive looks at the status, and then at the features.
ReceiveBegin ==
    /\ step = "switch"
    /\ step' = IF Asked THEN "receive" ELSE "irq"
    /\ UNCHANGED <<Elsewhere, in_loop, irq_wanted, entries, thrown, stale>>

ReceiveEnd ==
    /\ step = "receive"
    /\ step' = IF fast THEN "irq" ELSE "broken"
    /\ irq_wanted' = (irq_wanted \/ fast)
    /\ UNCHANGED <<Elsewhere, in_loop, entries, thrown, stale>>

\* VirtioDevice::poll_irq; then the loop goes on or leaves its list.
PollPortIrq ==
    /\ step = "irq"
    /\ irq_wanted' = FALSE
    /\ step' \in {"poll", "quiesce"}
    /\ in_loop' = (step' = "poll")
    /\ UNCHANGED <<Elsewhere, entries, thrown, stale>>

\* PortBrokenException: detach_port, which online knows nothing of.
ThrowOut ==
    /\ step = "broken"
    /\ step' = "quiesce"
    /\ in_loop' = FALSE
    /\ entries' = 0
    /\ thrown' = online
    /\ UNCHANGED <<Elsewhere, irq_wanted, stale>>

-----------------------------------------------------------------------------
ConfigNext ==
    \/ WriteQueueSel
    \/ \E translated \in BOOLEAN : WriteQueuePfn(translated)
    \/ SetOnline
    \/ WriteFeatures \/ WriteStatus \/ WriteVector
    \/ Reset \/ ClearRegisters
    \/ Quiesce \/ PollPort \/ ReceiveBegin \/ ReceiveEnd \/ PollPortIrq \/ ThrowOut

ConfigSpec == ConfigInit("idle") /\ [][ConfigNext]_configVars

-----------------------------------------------------------------------------
(* Properties *)

\* Between requests a device is online when it has both its queues, and then it
\* is in the list exactly once: however often queues are set, taken away, set
\* again and reset, unless the loop has thrown it out since it came online.
AttachedAsConfigured ==
    request = "idle" =>
        /\ online <=> Complete
        /\ entries = IF online /\ ~thrown THEN 1 ELSE 0

\* What the loop uses of a port is there: the queues, and for an interrupt the
\* vector, if the guest did nothing wrong; but for the two windows the code has,
\* a QUEUE_PFN write under way, and a port detached that the loop did not give up.
UsesConfigured ==
    in_loop /\ request # "pfn" /\ ~stale =>
        /\ Complete
        /\ step = "irq" /\ irq_wanted /\ ~wrong => "rx" \in vector

\* A guest is thrown out for what it did wrong, but for the second window.
ThrownOutIfWrong == step = "broken" => wrong \/ stale

=============================================================================
