------------------------------ MODULE VirtQueue ------------------------------
(***************************************************************************)
(* The way of packets from the TX queue of one virtio device to the RX     *)
(* queue of another: VirtioDevice::poll, receive, mark_done and poll_irq   *)
(* with the vq_ functions below them (switch/virtiodevice-io.cc), called   *)
(* by Switch::work_quantum on its one thread, between two guests that      *)
(* add and take buffers at any time.                                       *)
(*                                                                         *)
(* A descriptor chain is its head; what the chain holds is content or      *)
(* part.  A chain the device may not use (wrong direction, memory it       *)
(* cannot translate, a head or length out of bounds) is a bad one.         *)
(***************************************************************************)
EXTENDS Integers, SequencesExt

CONSTANTS
    QUEUE_ELEMENTS, \* slots of every ring, and chains of every queue
    IndexModulus,   \* ring indices are modulo this: 2^16 in the code
    BatchSize,      \* packets polled before poll_irq
    Size,           \* packet -> how many RX chains it fills
    MaxRefills      \* bound on the chains the receiving guest adds

ASSUME RingAssumption ==
    /\ QUEUE_ELEMENTS \in Nat \ {0}
    /\ IndexModulus \in {2 * n * QUEUE_ELEMENTS : n \in 1 .. QUEUE_ELEMENTS}
ASSUME BatchAssumption == BatchSize \in Nat \ {0}
ASSUME SizeAssumption  == Size \in Seq(Nat \ {0})
ASSUME BoundAssumption == MaxRefills \in Nat

Queues     == {"tx", "rx"}
Heads      == 0 .. QUEUE_ELEMENTS - 1
Slots      == 0 .. QUEUE_ELEMENTS - 1
Indices    == 0 .. IndexModulus - 1
Packets    == DOMAIN Size
NoHead     == QUEUE_ELEMENTS    \* INVALID_DESC_ID
NoPacket   == 0

VARIABLES
    \* the rings in guest memory, per queue
    avail_idx,      \* avail->idx
    avail_ring,
    no_interrupt,   \* avail->flags has VRING_AVAIL_F_NO_INTERRUPT
    used_idx,       \* used->idx
    used_ring,
    \* the buffers in guest memory
    content,        \* TX chain -> the packet in it
    part,           \* RX chain -> the packet and which part of it is there
    num_buffers,    \* RX chain -> num_buffers of the header in it
    bad,            \* queue -> chains the device must refuse
    \* VirtQueue of the device, per queue
    last_avail_idx,
    inuse,
    pending_irq,
    \* the devices and their place in the switch
    port,           \* attached, ready (with or without offloads), or detached again
    irq,            \* is the event fd of the queue's vector signalled?
    \* Switch::work_quantum and VirtioDevice::receive
    pc,
    quota,
    head,           \* completion_info.virtio.index of the packet in hand
    num_descriptors,
    first,          \* the chain num_buffers points into
    \* the guests
    seen,           \* how much of the used ring the driver has taken
    owned,          \* chains the driver owns
    driver,         \* its interrupt handler
    sent,           \* packets the sending guest has published
    refills         \* chains the receiving guest has added

ringVars   == <<avail_idx, avail_ring, no_interrupt, used_idx, used_ring>>
bufferVars == <<content, part, num_buffers, bad>>
deviceVars == <<last_avail_idx, inuse, pending_irq>>
loopVars   == <<pc, quota, head, num_descriptors, first>>
guestVars  == <<seen, owned, driver, sent, refills>>
vars == <<ringVars, bufferVars, deviceVars, port, irq, loopVars, guestVars>>

LoopSteps    == {"poll", "switch", "receive", "done", "unwind", "rx_irq", "tx_irq"}
PortStates   == {"attached", "driver_ok", "slow", "broken", "refused"}
DriverStates == {"awake", "rearmed", "asleep"}
NoPart       == <<NoPacket, 0>>

TypeOK ==
    /\ avail_idx \in [Queues -> Indices]
    /\ avail_ring \in [Queues -> [Slots -> Heads]]
    /\ no_interrupt \in [Queues -> BOOLEAN]
    /\ used_idx \in [Queues -> Indices]
    /\ used_ring \in [Queues -> [Slots -> Heads]]
    /\ content \in [Heads -> Packets \cup {NoPacket}]
    /\ part \in [Heads -> (Packets \cup {NoPacket}) \X Nat]
    /\ num_buffers \in [Heads -> Nat]
    /\ bad \in [Queues -> SUBSET Heads]
    /\ last_avail_idx \in [Queues -> Indices]
    /\ inuse \in [Queues -> 0 .. QUEUE_ELEMENTS]
    /\ pending_irq \in [Queues -> BOOLEAN]
    /\ port \in [Queues -> PortStates]
    /\ irq \in [Queues -> BOOLEAN]
    /\ pc \in LoopSteps
    /\ quota \in 0 .. BatchSize
    /\ head \in Heads \cup {NoHead}
    /\ num_descriptors \in 0 .. QUEUE_ELEMENTS
    /\ first \in Heads \cup {NoHead}
    /\ seen \in [Queues -> Indices]
    /\ owned \in [Queues -> SUBSET Heads]
    /\ driver \in [Queues -> DriverStates]
    /\ sent \in 0 .. Len(Size)
    /\ refills \in 0 .. MaxRefills

Init ==
    /\ avail_idx = [q \in Queues |-> 0]
    /\ avail_ring = [q \in Queues |-> [s \in Slots |-> 0]]
    /\ no_interrupt = [q \in Queues |-> FALSE]
    /\ used_idx = [q \in Queues |-> 0]
    /\ used_ring = [q \in Queues |-> [s \in Slots |-> 0]]
    /\ content = [h \in Heads |-> NoPacket]
    /\ part = [h \in Heads |-> NoPart]
    /\ num_buffers = [h \in Heads |-> 0]
    /\ bad = [q \in Queues |-> {}]
    /\ last_avail_idx = [q \in Queues |-> 0]
    /\ inuse = [q \in Queues |-> 0]
    /\ pending_irq = [q \in Queues |-> FALSE]
    /\ port = [q \in Queues |-> "attached"]
    /\ irq = [q \in Queues |-> FALSE]
    /\ pc = "poll"
    /\ quota = BatchSize
    /\ head = NoHead
    /\ num_descriptors = 0
    /\ first = NoHead
    /\ seen = [q \in Queues |-> 0]
    /\ owned = [q \in Queues |-> Heads]
    /\ driver = [q \in Queues |-> "asleep"]
    /\ sent = 0
    /\ refills = 0

-----------------------------------------------------------------------------
(* Ring indices *)

Plus(i, n)  == (i + n) % IndexModulus
Minus(i, j) == (i - j) % IndexModulus
Slot(i)     == i % QUEUE_ELEMENTS

\* The heads a ring holds from index i up to index j, oldest first.
Between(ring, i, j) == [n \in 1 .. Minus(j, i) |-> ring[Slot(Plus(i, n - 1))]]

\* Mutant: the difference is not cut to 16 bits, and is huge when avail->idx
\* has wrapped and last_avail_idx has not.
NumHeadsWide(q) ==
    LET n == avail_idx[q] - last_avail_idx[q]
    IN  IF n < 0 THEN QUEUE_ELEMENTS + 1 ELSE n

\* vq_num_heads: chains the guest has added and the device has not popped.
NumHeads(q) == Minus(avail_idx[q], last_avail_idx[q])

\* vq_get_head: the oldest of them.
NextHead(q) == avail_ring[q][Slot(last_avail_idx[q])]

\* What makes vq_num_heads or vq_pop_generic throw PortBrokenException.
Illegal(q) == NumHeads(q) > QUEUE_ELEMENTS \/ NextHead(q) \in bad[q]

-----------------------------------------------------------------------------
(* The vq_ functions *)

\* The effect of a vq_pop_generic that does not throw.
Pop(q) ==
    /\ last_avail_idx' = [last_avail_idx EXCEPT ![q] = Plus(@, 1)]
    /\ inuse' = [inuse EXCEPT ![q] = @ + 1]

\* Mutant: idx is ignored.
FillFirst(q, h, idx) == used_ring' = [used_ring EXCEPT ![q][Slot(used_idx[q])] = h]

\* vq_fill: put h into the idx-th entry behind the published ones.
Fill(q, h, idx) == used_ring' = [used_ring EXCEPT ![q][Slot(used_idx[q] + idx)] = h]

\* Mutant: inuse only grows.
FlushKeepsInuse(q, count) ==
    /\ used_idx' = [used_idx EXCEPT ![q] = Plus(@, count)]
    /\ pending_irq' = [pending_irq EXCEPT ![q] = TRUE]
    /\ UNCHANGED inuse

\* vq_flush: publish count entries.
Flush(q, count) ==
    /\ used_idx' = [used_idx EXCEPT ![q] = Plus(@, count)]
    /\ inuse' = [inuse EXCEPT ![q] = @ - count]
    /\ pending_irq' = [pending_irq EXCEPT ![q] = TRUE]

\* vq_pop_generic takes the chain off the ring and throws PortBrokenException:
\* the chain is neither in use nor given back, and the loop detaches the port.
Throw(q) ==
    /\ last_avail_idx' = [last_avail_idx EXCEPT ![q] = Plus(@, 1)]
    /\ port' = [port EXCEPT ![q] = "broken"]

-----------------------------------------------------------------------------
(* Switch::work_quantum with VirtioDevice::poll and mark_done *)

Ready(q)    == port[q] \in {"driver_ok", "slow"}
Detached(q) == port[q] \in {"broken", "refused"}

\* Nothing to poll; go on to the interrupts.
PollEmpty ==
    /\ pc = "poll"
    /\ Ready("tx") => NumHeads("tx") = 0
    /\ pc' = "rx_irq"
    /\ UNCHANGED <<ringVars, bufferVars, deviceVars, port, irq, quota, head,
                   num_descriptors, first, guestVars>>

PollPacket ==
    /\ pc = "poll"
    /\ Ready("tx")
    /\ NumHeads("tx") > 0
    /\ ~Illegal("tx")
    /\ Pop("tx")
    /\ head' = NextHead("tx")
    /\ pc' = "switch"
    /\ UNCHANGED <<ringVars, bufferVars, pending_irq, port, irq, quota,
                   num_descriptors, first, guestVars>>

\* The sender is broken.  There is no packet to mark done, and the loop starts
\* over without a look at the interrupts.
PollThrows ==
    /\ pc = "poll"
    /\ Ready("tx")
    /\ NumHeads("tx") > 0
    /\ Illegal("tx")
    /\ Throw("tx")
    /\ quota' = BatchSize
    /\ UNCHANGED <<ringVars, bufferVars, inuse, pending_irq, irq, pc, head,
                   num_descriptors, first, guestVars>>

\* The packet is for another port, or its receiver is not ready or detached.
SwitchElsewhere ==
    /\ pc = "switch"
    /\ pc' = "done"
    /\ UNCHANGED <<ringVars, bufferVars, deviceVars, port, irq, quota, head,
                   num_descriptors, first, guestVars>>

\* receive() of a device whose guest negotiated all the offloads ...
SwitchToReceiver ==
    /\ pc = "switch"
    /\ port["rx"] = "driver_ok"
    /\ pc' = "receive"
    /\ UNCHANGED <<ringVars, bufferVars, deviceVars, port, irq, quota, head,
                   num_descriptors, first, guestVars>>

\* ... and of one whose guest did not: "XXX implement slow path".
ReceiveSlow ==
    /\ pc = "switch"
    /\ port["rx"] = "slow"
    /\ port' = [port EXCEPT !["rx"] = "refused"]
    /\ pc' = "unwind"
    /\ UNCHANGED <<ringVars, bufferVars, deviceVars, irq, quota, head,
                   num_descriptors, first, guestVars>>

\* Fill one more RX chain with the next part of the packet.  The first one
\* holds the header, with whatever num_buffers the sender left in it.
ReceivePart ==
    LET h == NextHead("rx")
    IN  /\ pc = "receive"
        /\ num_descriptors < Size[content[head]]
        /\ NumHeads("rx") > 0
        /\ ~Illegal("rx")
        /\ Pop("rx")
        /\ Fill("rx", h, num_descriptors)
        /\ part' = [part EXCEPT ![h] = <<content[head], num_descriptors + 1>>]
        /\ first' = IF first = NoHead THEN h ELSE first
        /\ num_descriptors' = num_descriptors + 1
        /\ UNCHANGED <<avail_idx, avail_ring, no_interrupt, used_idx, content,
                       num_buffers, bad, pending_irq, port, irq, pc, quota, head,
                       guestVars>>

\* The receiver is broken.  The chains filled so far are not published; the
\* packet is marked done as the stack unwinds.
ReceiveThrows ==
    /\ pc = "receive"
    /\ num_descriptors < Size[content[head]]
    /\ NumHeads("rx") > 0
    /\ Illegal("rx")
    /\ Throw("rx")
    /\ pc' = "unwind"
    /\ UNCHANGED <<ringVars, bufferVars, inuse, pending_irq, irq, quota, head,
                   num_descriptors, first, guestVars>>

\* Mutant: the header of a packet that was cut short is left as it is.
ReceiveDoneWholeHeader ==
    /\ pc = "receive"
    /\ num_descriptors = Size[content[head]] \/ NumHeads("rx") = 0
    /\ num_buffers' = IF num_descriptors < Size[content[head]] THEN num_buffers
                      ELSE [num_buffers EXCEPT ![first] = num_descriptors]
    /\ Flush("rx", num_descriptors)
    /\ pc' = "done"
    /\ UNCHANGED <<avail_idx, avail_ring, no_interrupt, used_ring, content, part,
                   bad, last_avail_idx, port, irq, quota, head, num_descriptors,
                   first, guestVars>>

\* The packet is copied, or the receiver ran out of chains: update the header
\* and publish what there is, nothing included.
ReceiveDone ==
    /\ pc = "receive"
    /\ num_descriptors = Size[content[head]] \/ NumHeads("rx") = 0
    /\ num_buffers' = IF first = NoHead THEN num_buffers
                      ELSE [num_buffers EXCEPT ![first] = num_descriptors]
    /\ Flush("rx", num_descriptors)
    /\ pc' = "done"
    /\ UNCHANGED <<avail_idx, avail_ring, no_interrupt, used_ring, content, part,
                   bad, last_avail_idx, port, irq, quota, head, num_descriptors,
                   first, guestVars>>

\* Mutant: an exception skips mark_done.
MarkDoneUnlessThrown ==
    /\ pc \in {"done", "unwind"}
    /\ IF pc = "done" THEN Fill("tx", head, 0) /\ Flush("tx", 1)
                      ELSE UNCHANGED <<used_ring, used_idx, inuse, pending_irq>>
    /\ head' = NoHead
    /\ num_descriptors' = 0
    /\ first' = NoHead
    /\ IF pc = "done" /\ quota > 1
         THEN pc' = "poll" /\ quota' = quota - 1
         ELSE /\ pc' = IF pc = "done" THEN "rx_irq" ELSE "poll"
              /\ quota' = BatchSize
    /\ UNCHANGED <<avail_idx, avail_ring, no_interrupt, bufferVars, last_avail_idx,
                   port, irq, guestVars>>

\* mark_done, when the packet goes out of scope, also on the way out of an
\* exception; then poll again unless the quota is used up.
MarkDone ==
    /\ pc \in {"done", "unwind"}
    /\ Fill("tx", head, 0)
    /\ Flush("tx", 1)
    /\ head' = NoHead
    /\ num_descriptors' = 0
    /\ first' = NoHead
    /\ IF pc = "done" /\ quota > 1
         THEN pc' = "poll" /\ quota' = quota - 1
         ELSE /\ pc' = IF pc = "done" THEN "rx_irq" ELSE "poll"
              /\ quota' = BatchSize
    /\ UNCHANGED <<avail_idx, avail_ring, no_interrupt, bufferVars, last_avail_idx,
                   port, irq, guestVars>>

\* Mutant: VRING_AVAIL_F_NO_INTERRUPT is taken for its opposite.
PollIrqInverted(q) ==
    /\ pc = (IF q = "rx" THEN "rx_irq" ELSE "tx_irq")
    /\ pc' = IF q = "rx" THEN "tx_irq" ELSE "poll"
    /\ quota' = BatchSize
    /\ IF ~Detached(q) /\ pending_irq[q]
         THEN /\ pending_irq' = [pending_irq EXCEPT ![q] = FALSE]
              /\ irq' = [irq EXCEPT ![q] = @ \/ no_interrupt[q]]
         ELSE UNCHANGED <<pending_irq, irq>>
    /\ UNCHANGED <<ringVars, bufferVars, last_avail_idx, inuse, port, head,
                   num_descriptors, first, guestVars>>

\* poll_irq of an attached port: interrupt the guest if it asks for it.  The load
\* of avail->flags comes after the store to used->idx here, which the code has no
\* barrier for: VirtQueueTSO is about that.
PollIrq(q) ==
    /\ pc = (IF q = "rx" THEN "rx_irq" ELSE "tx_irq")
    /\ pc' = IF q = "rx" THEN "tx_irq" ELSE "poll"
    /\ quota' = BatchSize
    /\ IF ~Detached(q) /\ pending_irq[q]
         THEN /\ pending_irq' = [pending_irq EXCEPT ![q] = FALSE]
              /\ irq' = [irq EXCEPT ![q] = @ \/ ~no_interrupt[q]]
         ELSE UNCHANGED <<pending_irq, irq>>
    /\ UNCHANGED <<ringVars, bufferVars, last_avail_idx, inuse, port, head,
                   num_descriptors, first, guestVars>>

-----------------------------------------------------------------------------
(* The virtio drivers, external to this repository *)

\* The port's guest writes DRIVER_OK, after feature negotiation.
DriverOk(q) ==
    /\ port[q] = "attached"
    /\ \E state \in {"driver_ok", "slow"} : port' = [port EXCEPT ![q] = state]
    /\ UNCHANGED <<ringVars, bufferVars, deviceVars, irq, loopVars, guestVars>>

\* Give chain h to the device; it may turn out to be a bad one.
Add(q, h) ==
    /\ h \in owned[q]
    /\ owned' = [owned EXCEPT ![q] = @ \ {h}]
    /\ avail_ring' = [avail_ring EXCEPT ![q][Slot(avail_idx[q])] = h]
    /\ avail_idx' = [avail_idx EXCEPT ![q] = Plus(@, 1)]
    /\ \E wrong \in SUBSET {h} : bad' = [bad EXCEPT ![q] = @ \cup wrong]

Send(h) ==
    /\ port["tx"] # "attached"
    /\ sent < Len(Size)
    /\ sent' = sent + 1
    /\ content' = [content EXCEPT ![h] = sent + 1]
    /\ Add("tx", h)
    /\ UNCHANGED <<no_interrupt, used_idx, used_ring, part, num_buffers, deviceVars,
                   port, irq, loopVars, seen, driver, refills>>

Supply(h) ==
    /\ refills < MaxRefills
    /\ refills' = refills + 1
    /\ Add("rx", h)
    /\ UNCHANGED <<no_interrupt, used_idx, used_ring, content, part, num_buffers,
                   deviceVars, port, irq, loopVars, seen, driver, sent>>

\* The driver of queue q has not taken everything out of the used ring.
Unread(q) == seen[q] # used_idx[q]

\* Take n chains out of the used ring.
Take(q, n) ==
    /\ driver[q] = "awake"
    /\ Unread(q)
    /\ seen' = [seen EXCEPT ![q] = Plus(@, n)]
    /\ LET taken == {used_ring[q][Slot(seen[q] + i)] : i \in 0 .. n - 1}
       IN  owned' = [owned EXCEPT ![q] = @ \cup taken]

TakeBack ==
    /\ Take("tx", 1)
    /\ content' = [h \in Heads |-> IF h \in owned'["tx"] THEN NoPacket ELSE content[h]]
    /\ UNCHANGED <<ringVars, part, num_buffers, bad, deviceVars, port, irq, loopVars,
                   driver, sent, refills>>

\* The chain the header of the next packet is in.
NextUsed(q) == used_ring[q][Slot(seen[q])]

ReadPacket ==
    /\ Take("rx", num_buffers[NextUsed("rx")])
    /\ part' = [h \in Heads |-> IF h \in owned'["rx"] THEN NoPart ELSE part[h]]
    /\ num_buffers' = [h \in Heads |-> IF h \in owned'["rx"] THEN 0 ELSE num_buffers[h]]
    /\ UNCHANGED <<ringVars, content, bad, deviceVars, port, irq, loopVars,
                   driver, sent, refills>>

\* Enable interrupts, look again, and only then go to sleep.
Rearm(q) ==
    /\ driver[q] = "awake"
    /\ ~Unread(q)
    /\ driver' = [driver EXCEPT ![q] = "rearmed"]
    /\ no_interrupt' = [no_interrupt EXCEPT ![q] = FALSE]
    /\ UNCHANGED <<avail_idx, avail_ring, used_idx, used_ring, bufferVars, deviceVars,
                   port, irq, loopVars, seen, owned, sent, refills>>

Awaken(q) ==
    /\ driver' = [driver EXCEPT ![q] = "awake"]
    /\ no_interrupt' = [no_interrupt EXCEPT ![q] = TRUE]

Recheck(q) ==
    /\ driver[q] = "rearmed"
    /\ IF Unread(q)
         THEN Awaken(q)
         ELSE driver' = [driver EXCEPT ![q] = "asleep"] /\ UNCHANGED no_interrupt
    /\ UNCHANGED <<avail_idx, avail_ring, used_idx, used_ring, bufferVars, deviceVars,
                   port, irq, loopVars, seen, owned, sent, refills>>

Interrupt(q) ==
    /\ driver[q] # "awake"
    /\ irq[q]
    /\ irq' = [irq EXCEPT ![q] = FALSE]
    /\ Awaken(q)
    /\ UNCHANGED <<avail_idx, avail_ring, used_idx, used_ring, bufferVars, deviceVars,
                   port, loopVars, seen, owned, sent, refills>>

-----------------------------------------------------------------------------
WorkQuantum ==
    \/ PollEmpty
    \/ PollPacket
    \/ PollThrows
    \/ SwitchElsewhere
    \/ SwitchToReceiver
    \/ ReceiveSlow
    \/ ReceivePart
    \/ ReceiveThrows
    \/ ReceiveDone
    \/ MarkDone
    \/ \E q \in Queues : PollIrq(q)

\* What a driver does about the used ring of queue q, once it is told to.
Handler(q) ==
    \/ q = "tx" /\ TakeBack
    \/ q = "rx" /\ ReadPacket
    \/ Rearm(q)
    \/ Recheck(q)
    \/ Interrupt(q)

Guests ==
    \/ \E q \in Queues : DriverOk(q) \/ Handler(q)
    \/ \E h \in Heads : Send(h) \/ Supply(h)

Next == WorkQuantum \/ Guests

\* The loop polls as long as it is not asleep, which is the subject of
\* SwitchLoop, and the interrupt handlers of the guests run.
Fairness == WF_vars(WorkQuantum) /\ \A q \in Queues : WF_vars(Handler(q))

SafeSpec == Init /\ [][Next]_vars
Spec     == SafeSpec /\ Fairness

-----------------------------------------------------------------------------
(* Properties *)

Added(q)    == Between(avail_ring[q], last_avail_idx[q], avail_idx[q])
Returned(q) == Between(used_ring[q], seen[q], used_idx[q])

\* The chains the device works on: the packet in hand, or the parts filled and
\* not yet published.
InHand(q) ==
    IF q = "tx" THEN IF head = NoHead THEN <<>> ELSE <<head>>
    ELSE IF pc # "receive" THEN <<>>
    ELSE Between(used_ring[q], used_idx[q], Plus(used_idx[q], num_descriptors))

\* No chain of a port that behaves is ever lost or in two places, through all
\* wrap-arounds of the 16-bit indices and however many chains a packet fills;
\* inuse counts those the device holds.
ChainsConserved ==
    \A q \in Queues : port[q] # "broken" =>
        LET chains == Added(q) \o InHand(q) \o Returned(q)
        IN  /\ inuse[q] = Len(InHand(q))
            /\ Len(chains) + Cardinality(owned[q]) = QUEUE_ELEMENTS
            /\ ToSet(chains) \cup owned[q] = Heads

\* A receiver that sees a header sees the whole packet it announces: the first
\* num_buffers entries are the parts of one packet, in order.  (virtiodevice-
\* io.cc: "Update the header with the actual number of descriptors we consumed.")
PacketsComplete ==
    LET n == num_buffers[NextUsed("rx")]
    IN  Unread("rx") =>
            /\ n \in 1 .. Len(Returned("rx"))
            /\ \E p \in Packets : \A i \in 1 .. n : part[Returned("rx")[i]] = <<p, i>>

\* A driver that sleeps with entries in its used ring is going to be woken: the
\* interrupt is on its way, or poll_irq has yet to look, which it does as long as
\* the port is attached.  This is the protocol between poll_irq and the driver's
\* own second look, where loads and stores take place in program order; the code
\* does not see to that order (see VirtQueueTSO!InterruptsTold).
NoLostInterrupt ==
    \A q \in Queues :
        driver[q] = "asleep" /\ Unread(q) /\ ~Detached(q) => irq[q] \/ pending_irq[q]

\* Only a port that misbehaved is thrown out: wrapped indices and full or empty
\* rings never look like a broken guest.
BrokenOnlyIfIllegal ==
    \A q \in Queues : port[q] = "broken" => bad[q] # {}

\* The numbers of a set in ascending order: SetToSortSeq(S, <), without recursion.
InOrder(S) ==
    [i \in 1 .. Cardinality(S) |->
        CHOOSE n \in S : Cardinality({m \in S : m < n}) = i - 1]

\* Packets the sending guest has not got back.
Outstanding ==
    {content[h] : h \in Heads \ (owned["tx"] \cup ToSet(Returned("tx")))}

\* The entries of the receiver's used ring, counted from 0, that begin a packet.
Begins ==
    {r \in 0 .. Len(Returned("rx")) - 1 : part[Returned("rx")[r + 1]][2] = 1}

\* What the receiving guest sees in its used ring, packet by packet.
Arrived ==
    [i \in 1 .. Cardinality(Begins) |->
        LET h == Returned("rx")[InOrder(Begins)[i] + 1]
        IN  [packet |-> part[h][1], parts |-> num_buffers[h]]]

\* The ends of the link: the sender's and the receiver's port.
Cut == {q \in Queues : Detached(q)}

\* A sender that was detached gets nothing back.
Outbox == IF Detached("tx") THEN <<>> ELSE InOrder(Outstanding)

\* Has the packet in hand been published to the receiver?
Delivered == pc = "done" /\ num_descriptors > 0

\* Between the two guests the rings are a link: packets arrive in the order
\* sent, once at most, and unmixed, every buffer goes back to the sender when
\* the switch is done with it and not before, and the interrupts see to it
\* that the receiver reads what arrived.
Link == INSTANCE PacketLink WITH outbox    <- Outbox,
                                 delivered <- Delivered,
                                 inbox     <- Arrived,
                                 cut       <- Cut

ImplementsLink == Link!Spec

=============================================================================
