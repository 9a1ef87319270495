-------------------------------- MODULE IntelTx --------------------------------
(***************************************************************************)
(* The transmit ring of the upstream port (switch/intel82599.cc):          *)
(* Intel82599Port::receive, which lends packets to the NIC, the first half *)
(* of poll, which completes those that were sent, and the NIC.             *)
(*                                                                         *)
(* A packet is its name and its number of fragments.  Lengths and offloads *)
(* are left out, but that a packet which needs an offload takes a context  *)
(* descriptor, and so is whose packet it is: mark_done of its source.      *)
(***************************************************************************)
EXTENDS Naturals, Sequences, FiniteSets

CONSTANTS
    TX_LEN,         \* QUEUE_LEN
    Packets,        \* sent again and again
    MaxFragments    \* fragments of a packet, the virtio header aside

ASSUME TxAssumption == TX_LEN \in Nat /\ TX_LEN > 1 /\ MaxFragments \in Nat \ {0}

TxIndex == 0 .. TX_LEN - 1
Nobody  == "nobody"

VARIABLES
    tx_buffers,     \* slot -> whom to tell, and whether to
    tdh, tdt,       \* _shadow_tdh0, _shadow_tdt0
    inflight,       \* _tx0_inflight
    tx_desc,        \* memory and registers shared with the NIC
    tx_writeback,   \* where it writes its head
    TDT0,
    tx_pc,
    wb,             \* poll: tx_wb
    nic_tdh         \* NIC: the next descriptor it takes

ringVars == <<tx_buffers, tdh, tdt, inflight>>
txVars   == <<ringVars, tx_desc, tx_writeback, TDT0, tx_pc, wb, nic_tdh>>

NoDesc == [of |-> Nobody, kind |-> "data"]

TxTypeOK ==
    /\ tx_buffers \in [TxIndex -> [need_completion : BOOLEAN, info : Packets \cup {Nobody}]]
    /\ tx_desc \in [TxIndex -> [of : Packets \cup {Nobody}, kind : {"context", "data", "last"}]]
    /\ {tdh, tdt, TDT0, tx_writeback, wb, nic_tdh} \subseteq TxIndex
    /\ inflight \in TxIndex
    /\ tx_pc \in {"off", "idle", "clean"}

TxInit(start) ==
    /\ tx_buffers = [i \in TxIndex |-> [need_completion |-> FALSE, info |-> Nobody]]
    /\ tx_desc = [i \in TxIndex |-> NoDesc]
    /\ tdh = 0 /\ tdt = 0 /\ TDT0 = 0 /\ tx_writeback = 0 /\ nic_tdh = 0 /\ inflight = 0
    /\ tx_pc = start /\ wb = 0

-----------------------------------------------------------------------------
\* Mutant: the index wraps one slot late.
AdvanceLate(i) == IF i = TX_LEN THEN 0 ELSE i + 1

\* advance_qp
Advance(i) == IF i + 1 = TX_LEN THEN 0 ELSE i + 1

\* The n-th slot behind slot i, and how far it is from slot i on to slot j.
Nth(i, n)      == (i + n) % TX_LEN
Distance(i, j) == (j + TX_LEN - i) % TX_LEN

\* The first n slots from the head on: those that want completion.
Pending(n) == {k \in 0 .. n - 1 : tx_buffers[Nth(tdh, k)].need_completion}

\* The packets the port has to give back, oldest first.
Lent ==
    LET pending == Pending(Distance(tdh, tdt))
        At(k)   == CHOOSE n \in pending : Cardinality({m \in pending : m < n}) = k - 1
    IN  [k \in 1 .. Cardinality(pending) |-> tx_buffers[Nth(tdh, At(k))].info]

-----------------------------------------------------------------------------
(* Intel82599Port::receive.  The NIC may take the context descriptor before   *)
(* the rest is there, which changes nothing here: this is one step.           *)

\* Mutant: there is always room.
NeverFull(n) == TRUE

\* tx_has_room, with n descriptors taken: one slot is always left free.
HasRoom(n) == Advance(Nth(tdt, n)) # tdh
Fits(n)    == \A m \in 0 .. n - 1 : HasRoom(m)

\* Mutant: a slot used again remembers the packet before.
StillNeeded(i) == tx_buffers[i]

NotNeeded(i) == [tx_buffers[i] EXCEPT !.need_completion = FALSE]

\* n fragments behind a context descriptor, or none.  The context is published when
\* it is written, the fragments together or, when the tail meets the head, not at
\* all: up to there, they were written.
Receive(p) ==
    \E contexts \in {0, 1}, fragments \in 1 .. MaxFragments :
        LET all     == contexts + fragments
            written == {k \in 0 .. all - 1 : Fits(contexts) /\ Fits(k)}
            taken   == IF Fits(all) THEN all ELSE IF Fits(contexts) THEN contexts ELSE 0
            At(i)   == Distance(tdt, i)
        IN  /\ tx_pc = "idle"
            /\ \A k \in DOMAIN Lent : Lent[k] # p
            /\ tx_desc' = [i \in TxIndex |->
                    IF At(i) \notin written THEN tx_desc[i]
                    ELSE [of |-> p, kind |-> IF At(i) < contexts THEN "context"
                                             ELSE IF At(i) = all - 1 THEN "last" ELSE "data"]]
            /\ tx_buffers' = [i \in TxIndex |->
                    IF At(i) \notin written THEN tx_buffers[i]
                    ELSE IF Fits(all) /\ At(i) = all - 1
                           THEN [need_completion |-> TRUE, info |-> p]
                           ELSE NotNeeded(i)]
            /\ inflight' = inflight + taken
            /\ tdt' = Nth(tdt, taken)
            /\ TDT0' = Nth(tdt, taken)
            /\ UNCHANGED <<tdh, tx_writeback, tx_pc, wb, nic_tdh>>

-----------------------------------------------------------------------------
(* Intel82599Port::poll, first half *)

\* Mutant: whatever was handed to the NIC is taken to be sent.
PollTail ==
    /\ tx_pc = "idle"
    /\ wb' = TDT0
    /\ tx_pc' = "clean"
    /\ UNCHANGED <<ringVars, tx_desc, tx_writeback, TDT0, nic_tdh>>

Poll ==
    /\ tx_pc = "idle"
    /\ wb' = tx_writeback
    /\ tx_pc' = "clean"
    /\ UNCHANGED <<ringVars, tx_desc, tx_writeback, TDT0, nic_tdh>>

\* Complete the oldest descriptor, as far as the NIC has told.
Clean ==
    /\ tx_pc = "clean"
    /\ IF tdh = wb
         THEN tx_pc' = "idle" /\ wb' = 0 /\ UNCHANGED ringVars
         ELSE /\ tdh' = Advance(tdh)
              /\ inflight' = inflight - 1
              /\ tx_buffers' = [tx_buffers EXCEPT ![tdh].info = Nobody]  \* read no more
              /\ UNCHANGED <<tdt, tx_pc, wb>>
    /\ UNCHANGED <<tx_desc, tx_writeback, TDT0, nic_tdh>>

-----------------------------------------------------------------------------
(* The NIC, external: it sends what the descriptor at its head says, and       *)
(* writes the head back where it was asked to (TXDESC_LO_DCMD_RS).             *)

NicTransmit ==
    /\ nic_tdh # TDT0
    /\ nic_tdh' = Advance(nic_tdh)
    /\ tx_desc' = [tx_desc EXCEPT ![nic_tdh] = NoDesc]      \* read no more
    /\ tx_writeback' = IF tx_desc[nic_tdh].kind = "last" THEN Advance(nic_tdh) ELSE tx_writeback
    /\ UNCHANGED <<ringVars, TDT0, tx_pc, wb>>

-----------------------------------------------------------------------------
TxNext == Poll \/ Clean \/ NicTransmit \/ \E p \in Packets : Receive(p)

\* The port is polled in every quantum, however many packets there are for it,
\* and after every interrupt (IntelRx); the NIC sends.
TxFairness == SF_txVars(Poll) /\ WF_txVars(Clean) /\ WF_txVars(NicTransmit)

TxSpec == TxInit("idle") /\ [][TxNext]_txVars

-----------------------------------------------------------------------------
(* Properties *)

\* The NIC reads only memory of packets the port has not given back.
ReadsLentOnly ==
    \A n \in 0 .. Distance(nic_tdh, TDT0) - 1 :
        LET d == tx_desc[Nth(nic_tdh, n)]
        IN  d.kind = "context" \/ \E k \in DOMAIN Lent : Lent[k] = d.of

\* Head, write-back, NIC and tail are in this order around the ring, so no
\* descriptor is written over before it was sent and completed, and inflight is
\* the distance between the ends.
TxInOrder ==
    LET To(i) == Distance(tdh, i)
    IN  /\ inflight = To(tdt) /\ TDT0 = tdt
        /\ To(tx_writeback) <= To(nic_tdh) /\ To(nic_tdh) <= To(tdt)

\* Packets are given back once each, in order, after they were sent, and in time.
Wire == INSTANCE Uplink WITH
            lent <- Lent,
            gone <- Cardinality(Pending(Distance(tdh, nic_tdh)))

ImplementsUplink == Wire!Spec

=============================================================================
