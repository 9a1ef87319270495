-------------------------------- MODULE IntelRx --------------------------------
(***************************************************************************)
(* The receive ring of the upstream port (switch/intel82599.cc): the       *)
(* second half of Intel82599Port::poll, which collects packets from chains *)
(* of buffers, and mark_done, which gives the buffers back, out of order;  *)
(* with the NIC's large receives (LRO), its interrupt, and the loop that   *)
(* sleeps until it comes.                                                  *)
(*                                                                         *)
(* A packet is the slot of its last buffer.  Buffers are not told apart,   *)
(* but by the slot they are in.  Whoever receives a packet of this port    *)
(* copies it, and it never comes back to this port itself: work_quantum    *)
(* marks it done when it is through with it.                               *)
(***************************************************************************)
EXTENDS Naturals, Sequences, FiniteSets

CONSTANTS
    RX_LEN,         \* QUEUE_LEN
    RX_BUFFERS,
    MaxChain        \* RSCCTL_MAXDESC: buffers of a large receive; 1 without LRO

ASSUME RxAssumption ==
    /\ RX_BUFFERS \in Nat \ {0} /\ RX_LEN \in Nat /\ RX_BUFFERS < RX_LEN
    /\ MaxChain \in Nat \ {0}

RxIndex == 0 .. RX_LEN - 1

VARIABLES
    rx_buffers,     \* slot -> rx_info
    rdh, rdt,       \* _shadow_rdh0, _shadow_rdt0
    rx_desc,        \* memory and registers shared with the NIC
    RDT0,
    irq,            \* the interrupt: masked, unmasked, or pending
    event,          \* the event fd is readable
    rx_pc,
    armed,          \* poll: was the interrupt unmasked?
    rx,             \* poll: the half of the descriptor read first
    last,           \* slot of the last buffer of the packet to switch or recycle
    nic_rdh,        \* NIC: the next descriptor it takes
    filling,        \* NIC: slot in use -> the slots of the frame so far
    frame           \* history: slot of the last buffer -> the slots of the frame

bufferVars == <<rx_buffers, rdh, rdt, RDT0>>
pollVars   == <<rx_pc, armed, rx, last>>
irqVars    == <<irq, event>>
nicVars    == <<nic_rdh, filling>>
rxVars     == <<bufferVars, pollVars, irqVars, nicVars, rx_desc, frame>>

\* hi of a descriptor is the address of the buffer, and once the NIC has written it
\* has RSCCNT, zero or not; lo is zero, and then DD, EOP and NEXTP.
RxDesc   == [hi : {"address", "single", "large"}, lo : [dd : BOOLEAN, eop : BOOLEAN, nextp : RxIndex]]
ZeroLo   == [dd |-> FALSE, eop |-> FALSE, nextp |-> 0]
\* populate_rx_desc
NewDesc  == [hi |-> "address", lo |-> ZeroLo]
RxInfo   == [buffer : BOOLEAN, not_first : BOOLEAN, rsc : BOOLEAN, rsc_number : Nat, rsc_last : RxIndex]
ZeroInfo == [buffer |-> FALSE, not_first |-> FALSE, rsc |-> FALSE, rsc_number |-> 0, rsc_last |-> 0]

RxTypeOK ==
    /\ rx_buffers \in [RxIndex -> RxInfo]
    /\ rx_desc \in [RxIndex -> RxDesc] /\ rx \in RxDesc
    /\ {rdh, rdt, RDT0, last, nic_rdh} \subseteq RxIndex
    /\ irq \in {"masked", "unmasked", "pending"} /\ event \in BOOLEAN /\ armed \in BOOLEAN
    /\ rx_pc \in {"off", "idle", "asleep", "scan", "examine", "switch", "recycle"}
    /\ DOMAIN filling \subseteq RxIndex
    /\ \A i \in DOMAIN filling : filling[i] \in Seq(RxIndex)
    /\ frame \in [RxIndex -> Seq(RxIndex)]

\* The constructor has queued n buffers.
RxInit(n, start) ==
    /\ rx_buffers = [i \in RxIndex |-> [ZeroInfo EXCEPT !.buffer = i < n]]
    /\ rx_desc = [i \in RxIndex |-> NewDesc]
    /\ rdh = 0 /\ rdt = n /\ RDT0 = n /\ nic_rdh = 0
    /\ irq = "unmasked" /\ event = FALSE
    /\ rx_pc = start /\ armed = FALSE /\ rx = NewDesc /\ last = 0
    /\ filling = <<>>
    /\ frame = [i \in RxIndex |-> <<>>]

-----------------------------------------------------------------------------
\* Mutant: the index wraps one slot late.
AdvanceLateRx(i) == IF i = RX_LEN THEN 0 ELSE i + 1

\* advance_qp
AdvanceRx(i) == IF i + 1 = RX_LEN THEN 0 ELSE i + 1

\* How far it is from slot i on to slot j, and the slots between.
DistanceRx(i, j) == (j + RX_LEN - i) % RX_LEN
Span(i, j)       == {(i + n) % RX_LEN : n \in 0 .. DistanceRx(i, j) - 1}

-----------------------------------------------------------------------------
(* Intel82599Port::poll *)

\* Mutant: the interrupt stays masked.
StayMasked(enable) == UNCHANGED irq

\* unmask_rxtx_irq: what is pending is cleared; what comes from now on interrupts.
Unmask(enable) == irq' = IF enable THEN "unmasked" ELSE irq

PollRx(enable) ==
    /\ rx_pc = "idle"
    /\ Unmask(enable)
    /\ armed' = enable
    /\ rx_pc' = "scan"
    /\ UNCHANGED <<bufferVars, rx, last, event, nicVars, rx_desc, frame>>

\* The half of a descriptor that is read first: the one with DD.
FirstHalf == "lo"

\* poll has found nothing.  If it was to enable notifications, the loop may block.
Nothing ==
    /\ rx_pc' \in {"idle"} \cup {s \in {"asleep"} : armed}
    /\ armed' = FALSE

Scan ==
    /\ rx_pc = "scan"
    /\ IF rdh = rdt
         THEN Nothing /\ UNCHANGED rx
         ELSE /\ rx_pc' = "examine"
              /\ rx' = [rx EXCEPT ![FirstHalf] = rx_desc[rdh][FirstHalf]]
              /\ UNCHANGED armed
    /\ UNCHANGED <<bufferVars, last, irqVars, nicVars, rx_desc, frame>>

\* Is the frame a large receive?  Its first buffer says so, by RSCCNT; bits of an
\* address, read too early, say anything.
Large(this, hi) ==
    CASE this.not_first -> {this.rsc}
      [] hi = "address" -> BOOLEAN
      [] OTHER          -> {hi = "large"}

\* Mutant: a chain is thought to go on in the next slot.
NextSlot(large, nextp) == AdvanceRx(rdh)

NextBuffer(large, nextp) == IF large THEN nextp ELSE AdvanceRx(rdh)

Examine ==
    /\ rx_pc = "examine"
    /\ LET d    == [rx_desc[rdh] EXCEPT ![FirstHalf] = rx[FirstHalf]]
           this == rx_buffers[rdh]
       IN  \/ /\ ~d.lo.dd
              /\ Nothing
              /\ UNCHANGED <<rx_buffers, rdh, last>>
           \/ /\ d.lo.dd
              /\ rdh' = AdvanceRx(rdh)
              /\ \E large \in Large(this, d.hi) :
                   IF d.lo.eop
                     THEN /\ rx_buffers' = [rx_buffers EXCEPT ![rdh].rsc = large]
                          /\ last' = rdh
                          /\ rx_pc' = "switch"
                          /\ armed' = FALSE
                     ELSE /\ rx_buffers' = [rx_buffers EXCEPT
                                ![rdh].rsc = large,
                                ![NextBuffer(large, d.lo.nextp)] =
                                    [@ EXCEPT !.not_first  = TRUE,
                                              !.rsc        = large,
                                              !.rsc_last   = rdh,
                                              !.rsc_number = this.rsc_number + 1]]
                          /\ rx_pc' = "scan"
                          /\ UNCHANGED <<last, armed>>
    /\ rx' = NewDesc
    /\ UNCHANGED <<rdt, RDT0, irqVars, nicVars, rx_desc, frame>>

\* The fragment list of the packet to switch, filled backwards.
FragmentList ==
    LET n == rx_buffers[last].rsc_number + 1
        slot[k \in 1 .. n] == IF k = n THEN last ELSE rx_buffers[slot[k + 1]].rsc_last
    IN  slot

-----------------------------------------------------------------------------
(* Switch::work_quantum and Switch::loop *)

\* The packet went somewhere, or nowhere, and goes out of scope.
Switched ==
    /\ rx_pc = "switch"
    /\ rx_pc' = "recycle"
    /\ UNCHANGED <<bufferVars, armed, rx, last, irqVars, nicVars, rx_desc, frame>>

\* The loop blocks until the event fd is readable; a kick of a guest wakes it, too.
WakeUp ==
    /\ rx_pc = "asleep"
    /\ event' = FALSE
    /\ rx_pc' = "idle"
    /\ UNCHANGED <<bufferVars, armed, rx, last, irq, nicVars, rx_desc, frame>>

-----------------------------------------------------------------------------
(* Intel82599Port::mark_done: one buffer of the chain, from the last to the    *)
(* first, goes to the tail of the ring; the tail is published behind the first. *)

\* Mutant: the flags of the old slot go along with the buffer.
Moved(this) == this

Renewed(this) == [ZeroInfo EXCEPT !.buffer = this.buffer]

MarkDone ==
    LET this == rx_buffers[last]
    IN  /\ rx_pc = "recycle"
        /\ rx_buffers' = [rx_buffers EXCEPT ![last] = ZeroInfo,
                                            ![rdt]  = Renewed(this)]
        /\ rx_desc' = [rx_desc EXCEPT ![last] = NewDesc,    \* read no more
                                      ![rdt]  = NewDesc]
        /\ rdt' = AdvanceRx(rdt)
        /\ frame' = [frame EXCEPT ![last] = <<>>]
        /\ IF this.not_first
             THEN last' = this.rsc_last /\ UNCHANGED <<rx_pc, RDT0>>
             ELSE rx_pc' = "idle" /\ RDT0' = AdvanceRx(rdt) /\ last' = 0
        /\ UNCHANGED <<rdh, armed, rx, irqVars, nicVars>>

-----------------------------------------------------------------------------
(* The NIC, external *)

\* Something to interrupt for.  Interrupts are masked when one is delivered, which
\* may take time (EITR); what happens while they are masked is forgotten when they
\* are unmasked.
Cause == irq' = IF irq = "unmasked" THEN "pending" ELSE irq

NicInterrupt ==
    /\ irq = "pending"
    /\ irq' = "masked"
    /\ event' = TRUE
    /\ UNCHANGED <<bufferVars, pollVars, nicVars, rx_desc, frame>>

\* A packet was sent (IntelTx), which shares the interrupt.
NicSends ==
    /\ irq = "unmasked"
    /\ Cause
    /\ UNCHANGED <<bufferVars, pollVars, event, nicVars, rx_desc, frame>>

\* Slots the NIC has taken whose buffers did not come back.
Held == {i \in RxIndex : rx_buffers[i].buffer} \ Span(nic_rdh, rdt)

\* There is a buffer to fill, and it is filled as the next of a frame.  No large
\* receive is so slow in ending that the NIC gets Window descriptors ahead of a
\* buffer that has not come back: mark_done would be out of free slots.
Window == RX_LEN - RX_BUFFERS + 1

NicTake(others, slots) ==
    /\ nic_rdh # RDT0
    /\ \A i \in Held : DistanceRx(i, nic_rdh) < Window
    /\ nic_rdh' = AdvanceRx(nic_rdh)
    /\ filling' = [i \in others \cup {nic_rdh} |->
            IF i = nic_rdh THEN Append(slots, nic_rdh) ELSE filling[i]]

NicBegin ==
    /\ NicTake(DOMAIN filling, <<>>)
    /\ UNCHANGED <<bufferVars, pollVars, irqVars, rx_desc, frame>>

\* The frame in slot i goes on in another one.
NicChain(i) ==
    /\ Len(filling[i]) < MaxChain
    /\ NicTake(DOMAIN filling \ {i}, filling[i])
    /\ rx_desc' = [rx_desc EXCEPT ![i] =
            [hi |-> "large", lo |-> [dd |-> TRUE, eop |-> FALSE, nextp |-> nic_rdh]]]
    /\ UNCHANGED <<bufferVars, pollVars, irqVars, frame>>

\* The frame in slot i is complete.
NicEnd(i) ==
    /\ rx_desc' = [rx_desc EXCEPT ![i] =
            [hi |-> IF Len(filling[i]) = 1 THEN "single" ELSE "large",
             lo |-> [dd |-> TRUE, eop |-> TRUE, nextp |-> 0]]]
    /\ frame' = [frame EXCEPT ![i] = filling[i]]
    /\ filling' = [j \in DOMAIN filling \ {i} |-> filling[j]]
    /\ Cause
    /\ UNCHANGED <<bufferVars, pollVars, event, nic_rdh>>

-----------------------------------------------------------------------------
Driver == Scan \/ Examine \/ Switched \/ MarkDone

RxNext ==
    \/ \E enable \in BOOLEAN : PollRx(enable)
    \/ Driver
    \/ WakeUp
    \/ NicInterrupt
    \/ NicSends
    \/ NicBegin
    \/ \E i \in DOMAIN filling : NicChain(i) \/ NicEnd(i)

\* What can happen, without saying that anything must.
RxSpec == RxInit(RX_BUFFERS, "idle") /\ [][RxNext]_rxVars

\* The thread goes on, and polls, but when it sleeps only the interrupt can be
\* counted on; the NIC completes large receives and interrupts.
RxFairness ==
    /\ WF_rxVars(Driver)
    /\ WF_rxVars(\E enable \in BOOLEAN : PollRx(enable))
    /\ WF_rxVars(WakeUp /\ event)
    /\ WF_rxVars(NicInterrupt)
    /\ WF_rxVars(\E i \in DOMAIN filling : NicEnd(i))

-----------------------------------------------------------------------------
(* Properties *)

\* No receive buffer is lost or in two places, although they come back out of order:
\* as many slots have one as ever, and the slot mark_done takes is a free one.
BuffersConserved ==
    /\ rx_pc # "off" => Cardinality({i \in RxIndex : rx_buffers[i].buffer}) = RX_BUFFERS
    /\ rx_pc = "recycle" => rdt = last \/ rx_buffers[rdt] = ZeroInfo

\* A packet is made of the buffers the NIC has put the frame into, in order, also
\* when the chains of several large receives are interleaved in the ring.
FramesWhole == rx_pc = "switch" => FragmentList = frame[last]

\* What was received is in the hands of the NIC again some time: no interrupt is
\* lost between poll and sleep, and no chain is left behind.
BuffersReturn == \A i \in RxIndex : frame[i] # <<>> ~> frame[i] = <<>>

=============================================================================
