----------------------------- MODULE IntelRxProofs -----------------------------
(***************************************************************************)
(* Proofs about IntelRx, for every length of the ring, any number of       *)
(* buffers in it and chains of any length: no buffer is lost or            *)
(* overwritten, though they come back out of order, and the fragments of a *)
(* packet are the buffers its frame is in.                                 *)
(***************************************************************************)
EXTENDS IntelRx, FiniteSetTheorems, SequenceTheorems, WellFoundedInduction, TLAPS

-----------------------------------------------------------------------------
(* The inductive invariant *)

\* How far the NIC is ahead of slot i, and what poll has seen of it.
Age(i)      == DistanceRx(i, nic_rdh)
Examined(i) == Age(i) > Age(rdh)

\* The NIC's part of the ring reaches from nic_rdh to rdt and has nothing but fresh
\* buffers; the slots it has taken follow within the window; the others are empty.
RingInv ==
    /\ DistanceRx(nic_rdh, RDT0) <= DistanceRx(nic_rdh, rdt)
    /\ Cardinality(Held) + DistanceRx(nic_rdh, rdt) = RX_BUFFERS
    /\ Cardinality({i \in RxIndex : rx_buffers[i].buffer}) = RX_BUFFERS
    /\ \A i \in Held : Age(i) > 0 /\ Age(i) <= Window
    /\ \A i \in RxIndex : Age(i) > 0 /\ Age(i) <= Age(rdh) => i \in Held
    /\ \A i \in RxIndex \ Held :
           /\ rx_desc[i] = NewDesc
           /\ rx_buffers[i] = [ZeroInfo EXCEPT !.buffer = i \in Span(nic_rdh, rdt)]

Plain(this) == ~ this.not_first /\ this.rsc_number = 0
Linked(this, before, n) ==
    this.not_first /\ this.rsc /\ this.rsc_last = before /\ this.rsc_number = n

\* The slots of a frame, or of what mark_done has left of a packet: in the order of
\* the ring, linked forwards by the NIC and, as far as examined, backwards by poll.
ChainOK(c) ==
    /\ c \in Seq(RxIndex) /\ c # << >>
    /\ \A k \in 1 .. Len(c) : c[k] \in Held
    /\ \A k, l \in 1 .. Len(c) : k < l => Age(c[k]) > Age(c[l])
    /\ Plain(rx_buffers[c[1]])
    /\ \A k \in 1 .. Len(c) - 1 :
           /\ rx_desc[c[k]] = [hi |-> "large", lo |-> [dd |-> TRUE, eop |-> FALSE, nextp |-> c[k + 1]]]
           /\ IF Examined(c[k]) THEN Linked(rx_buffers[c[k + 1]], c[k], k)
                                ELSE Plain(rx_buffers[c[k + 1]])

End(c) == c[Len(c)]

\* All chains there are: of unfinished frames, of finished ones, and cur, which is
\* with the switch or mark_done.
Chains(cur) ==
    {filling[i] : i \in DOMAIN filling} \cup {frame[i] : i \in {j \in RxIndex : frame[j] # << >>}}
        \cup ({cur} \ {<< >>})

LinksInv(cur) ==
    /\ \A c \in Chains(cur) : ChainOK(c)
    /\ \A c, d \in Chains(cur) : \A k \in 1 .. Len(c), l \in 1 .. Len(d) : c[k] = d[l] => c = d
    /\ \A i \in Held : \E c \in Chains(cur) : \E k \in 1 .. Len(c) : c[k] = i
    /\ \A i \in DOMAIN filling : End(filling[i]) = i /\ rx_desc[i] = NewDesc /\ ~ Examined(i)
    /\ \A i \in RxIndex : frame[i] # << >> =>
           /\ End(frame[i]) = i
           /\ rx_desc[i].lo.dd /\ rx_desc[i].lo.eop /\ rx_desc[i].hi # "address"
           /\ Examined(i) => cur = frame[i]
    /\ IF rx_pc \in {"switch", "recycle"}
         THEN cur # << >> /\ last = End(cur) /\ \A k \in 1 .. Len(cur) : Examined(cur[k])
         ELSE cur = << >>
    /\ rx_pc = "switch" => cur = frame[last]

\* The half of a descriptor read first is not stale when the other is read.
ReadInv == rx_pc = "examine" /\ rx.lo.dd => rx.lo = rx_desc[rdh].lo

IInv ==
    /\ RxTypeOK
    /\ RingInv
    /\ ReadInv
    /\ \E cur \in Seq(RxIndex) : LinksInv(cur)

-----------------------------------------------------------------------------
(* Slots around the ring *)

LEMMA RxSizes ==
    /\ RX_LEN \in Nat /\ RX_LEN > 1
    /\ RX_BUFFERS \in Nat /\ RX_BUFFERS > 0 /\ RX_BUFFERS < RX_LEN
    /\ MaxChain \in Nat /\ Window = RX_LEN - RX_BUFFERS + 1
  BY RxAssumption DEF Window

\* The distance between two slots, without the modulo.
LEMMA DistanceIs ==
    ASSUME NEW i \in RxIndex, NEW j \in RxIndex
    PROVE  /\ DistanceRx(i, j) = IF i <= j THEN j - i ELSE j + RX_LEN - i
           /\ DistanceRx(i, j) \in Nat /\ DistanceRx(i, j) < RX_LEN
           /\ DistanceRx(i, j) = 0 <=> i = j
<1>1. CASE i <= j
  <2>1. j + RX_LEN - i = RX_LEN + (j - i) /\ j - i \in RxIndex
    BY <1>1, RxSizes DEF RxIndex
  <2>2. (RX_LEN + (j - i)) % RX_LEN = j - i
    BY <2>1, RxSizes DEF RxIndex
  <2> QED
    BY <1>1, <2>1, <2>2, RxSizes DEF DistanceRx, RxIndex
<1>2. CASE ~ (i <= j)
  <2>1. j + RX_LEN - i \in RxIndex
    BY <1>2, RxSizes DEF RxIndex
  <2> QED
    BY <1>2, <2>1, RxSizes DEF DistanceRx, RxIndex
<1> QED
  BY <1>1, <1>2

LEMMA AdvanceIs ==
    ASSUME NEW i \in RxIndex
    PROVE  /\ AdvanceRx(i) \in RxIndex
           /\ AdvanceRx(i) = IF i + 1 < RX_LEN THEN i + 1 ELSE 0
  BY RxSizes DEF AdvanceRx, RxIndex

\* What is one step further is at a distance of one more, unless it was all around.
LEMMA FarEnd ==
    ASSUME NEW i \in RxIndex, NEW j \in RxIndex
    PROVE  DistanceRx(i, AdvanceRx(j)) =
               IF DistanceRx(i, j) < RX_LEN - 1 THEN DistanceRx(i, j) + 1 ELSE 0
<1>1. PICK k \in RxIndex : k = AdvanceRx(j)
  BY AdvanceIs
<1>2. k = IF j + 1 < RX_LEN THEN j + 1 ELSE 0
  BY <1>1, AdvanceIs
<1>3. /\ DistanceRx(i, k) = IF i <= k THEN k - i ELSE k + RX_LEN - i
      /\ DistanceRx(i, j) = IF i <= j THEN j - i ELSE j + RX_LEN - i
  BY DistanceIs
<1> QED
  BY <1>1, <1>2, <1>3, RxSizes DEF RxIndex

LEMMA NearEnd ==
    ASSUME NEW i \in RxIndex, NEW j \in RxIndex, i # j
    PROVE  DistanceRx(AdvanceRx(i), j) = DistanceRx(i, j) - 1
<1>1. PICK k \in RxIndex : k = AdvanceRx(i)
  BY AdvanceIs
<1>2. k = IF i + 1 < RX_LEN THEN i + 1 ELSE 0
  BY <1>1, AdvanceIs
<1>3. /\ DistanceRx(k, j) = IF k <= j THEN j - k ELSE j + RX_LEN - k
      /\ DistanceRx(i, j) = IF i <= j THEN j - i ELSE j + RX_LEN - i
  BY DistanceIs
<1> QED
  BY <1>1, <1>2, <1>3, RxSizes DEF RxIndex

LEMMA AllAround ==
    ASSUME NEW i \in RxIndex, NEW j \in RxIndex, i # j
    PROVE  DistanceRx(i, j) + DistanceRx(j, i) = RX_LEN
<1>1. /\ DistanceRx(i, j) = IF i <= j THEN j - i ELSE j + RX_LEN - i
      /\ DistanceRx(j, i) = IF j <= i THEN i - j ELSE i + RX_LEN - j
  BY DistanceIs
<1> QED
  BY <1>1, RxSizes DEF RxIndex

LEMMA SameAge ==
    ASSUME NEW i \in RxIndex, NEW j \in RxIndex, NEW n \in RxIndex,
           DistanceRx(i, n) = DistanceRx(j, n)
    PROVE  i = j
<1>1. PICK d \in Nat : d = DistanceRx(i, n) /\ d = DistanceRx(j, n)
  BY DistanceIs
<1>2. /\ d = IF i <= n THEN n - i ELSE n + RX_LEN - i
      /\ d = IF j <= n THEN n - j ELSE n + RX_LEN - j
  BY <1>1, DistanceIs
<1>3. /\ i \in Nat /\ j \in Nat /\ n \in Nat
      /\ i < RX_LEN /\ j < RX_LEN /\ n < RX_LEN
  BY RxSizes DEF RxIndex
<1> QED
  BY <1>2, <1>3, RxSizes

\* The slots from i to j are those nearer than j.
LEMMA SpanIs ==
    ASSUME NEW i \in RxIndex, NEW j \in RxIndex
    PROVE  /\ Span(i, j) \subseteq RxIndex
           /\ \A n \in RxIndex : n \in Span(i, j) <=> DistanceRx(i, n) < DistanceRx(i, j)
<1>1. PICK d \in Nat : d = DistanceRx(i, j) /\ d < RX_LEN
  BY DistanceIs
<1>2. ASSUME NEW m \in 0 .. d - 1
      PROVE  /\ (i + m) % RX_LEN \in RxIndex
             /\ DistanceRx(i, (i + m) % RX_LEN) = m
  <2>1. PICK k \in RxIndex : k = IF i + m < RX_LEN THEN i + m ELSE (i + m) - RX_LEN
    <3>1. (IF i + m < RX_LEN THEN i + m ELSE (i + m) - RX_LEN) \in RxIndex
      BY <1>1, RxSizes DEF RxIndex
    <3> QED
      BY <3>1
  <2>2. (i + m) % RX_LEN = k
    <3>1. CASE i + m < RX_LEN
      BY <2>1, <3>1, RxSizes DEF RxIndex
    <3>2. CASE ~ (i + m < RX_LEN)
      <4>1. i + m = RX_LEN + k
        BY <2>1, <3>2, RxSizes DEF RxIndex
      <4>2. (RX_LEN + k) % RX_LEN = k
        BY RxSizes DEF RxIndex
      <4> QED
        BY <4>1, <4>2
    <3> QED
      BY <3>1, <3>2
  <2>3. DistanceRx(i, k) = IF i <= k THEN k - i ELSE k + RX_LEN - i
    BY DistanceIs
  <2>4. DistanceRx(i, k) = m
    BY <1>1, <2>1, <2>3, RxSizes DEF RxIndex
  <2> QED
    BY <2>2, <2>4
<1>3. Span(i, j) = {(i + m) % RX_LEN : m \in 0 .. d - 1}
  BY <1>1 DEF Span
<1>4. ASSUME NEW n \in RxIndex, DistanceRx(i, n) < d PROVE n \in Span(i, j)
  <2>1. PICK m \in 0 .. d - 1 : m = DistanceRx(i, n)
    BY <1>1, <1>4, DistanceIs
  <2>2. PICK k \in RxIndex : k = (i + m) % RX_LEN /\ DistanceRx(i, k) = m
    BY <1>2
  <2>3. /\ DistanceRx(i, k) = IF i <= k THEN k - i ELSE k + RX_LEN - i
        /\ DistanceRx(i, n) = IF i <= n THEN n - i ELSE n + RX_LEN - i
    BY DistanceIs
  <2>4. k = n
    BY <2>1, <2>2, <2>3, RxSizes DEF RxIndex
  <2> QED
    BY <1>3, <2>2, <2>4
<1>5. ASSUME NEW n \in Span(i, j) PROVE n \in RxIndex /\ DistanceRx(i, n) < d
  <2>1. PICK m \in 0 .. d - 1 : n = (i + m) % RX_LEN
    BY <1>3
  <2> QED
    BY <1>1, <1>2, <2>1
<1> QED
  BY <1>1, <1>4, <1>5

-----------------------------------------------------------------------------
(* What the invariant says of slots and chains *)

LEMMA Types ==
    ASSUME RxTypeOK
    PROVE  /\ rdh \in RxIndex /\ rdt \in RxIndex /\ RDT0 \in RxIndex
           /\ last \in RxIndex /\ nic_rdh \in RxIndex
           /\ rx_buffers \in [RxIndex -> RxInfo] /\ rx_desc \in [RxIndex -> RxDesc]
           /\ frame \in [RxIndex -> Seq(RxIndex)]
           /\ DOMAIN filling \subseteq RxIndex
           /\ \A i \in DOMAIN filling : filling[i] \in Seq(RxIndex)
  BY DEF RxTypeOK

LEMMA SlotsFinite ==
    ASSUME NEW T \in SUBSET RxIndex
    PROVE  IsFiniteSet(T) /\ Cardinality(T) \in Nat
<1>1. IsFiniteSet(RxIndex)
  BY FS_Interval, RxSizes DEF RxIndex
<1> QED
  BY <1>1, FS_Subset, FS_CardinalityType

LEMMA HeldIs ==
    /\ Held \subseteq RxIndex /\ IsFiniteSet(Held) /\ Cardinality(Held) \in Nat
    /\ \A i \in RxIndex : i \in Held <=> rx_buffers[i].buffer /\ i \notin Span(nic_rdh, rdt)
<1>1. Held \in SUBSET RxIndex
  BY DEF Held
<1>2. IsFiniteSet(Held) /\ Cardinality(Held) \in Nat
  BY <1>1, SlotsFinite
<1> QED
  BY <1>1, <1>2 DEF Held

\* A chain has a first and a last slot, and its slots differ.
LEMMA ChainIs ==
    ASSUME RxTypeOK, NEW c, ChainOK(c)
    PROVE  /\ c \in Seq(RxIndex) /\ Len(c) \in Nat /\ Len(c) >= 1 /\ DOMAIN c = 1 .. Len(c)
           /\ 1 \in 1 .. Len(c) /\ Len(c) \in 1 .. Len(c)
           /\ \A k \in 1 .. Len(c) : c[k] \in RxIndex /\ c[k] \in Held
           /\ \A k \in 1 .. Len(c) - 1 : k \in 1 .. Len(c) /\ k + 1 \in 1 .. Len(c)
           /\ End(c) \in RxIndex /\ End(c) = c[Len(c)]
           /\ \A k, l \in 1 .. Len(c) : c[k] = c[l] => k = l
<1>1. c \in Seq(RxIndex) /\ c # << >>
  BY DEF ChainOK
<1>2. Len(c) \in Nat /\ Len(c) >= 1 /\ DOMAIN c = 1 .. Len(c) /\ \A k \in 1 .. Len(c) : c[k] \in RxIndex
  BY <1>1, EmptySeq
<1>3. 1 \in 1 .. Len(c) /\ Len(c) \in 1 .. Len(c)
  BY <1>2
<1>4. \A k \in 1 .. Len(c) - 1 : k \in 1 .. Len(c) /\ k + 1 \in 1 .. Len(c)
  BY <1>2
<1>5. ASSUME NEW k \in 1 .. Len(c), NEW l \in 1 .. Len(c), c[k] = c[l] PROVE k = l
  <2>1. Age(c[k]) \in Nat /\ Age(c[k]) = Age(c[l])
    BY <1>2, <1>5, DistanceIs, Types DEF Age
  <2>2. ~ (Age(c[k]) > Age(c[l])) /\ ~ (Age(c[l]) > Age(c[k]))
    BY <2>1
  <2>3. ~ (k < l) /\ ~ (l < k)
    BY <2>2 DEF ChainOK
  <2> QED
    BY <1>2, <2>3
<1> QED
  BY <1>1, <1>2, <1>3, <1>4, <1>5 DEF ChainOK, End

\* A chain stays one if its slots grow older together, and nothing else changes.
LEMMA ChainKept ==
    ASSUME RxTypeOK, NEW c, ChainOK(c), NEW e \in {0, 1},
           \A k \in 1 .. Len(c) :
               /\ c[k] \in Held'
               /\ DistanceRx(c[k], nic_rdh') = Age(c[k]) + e
               /\ Examined(c[k])' <=> Examined(c[k])
               /\ rx_buffers'[c[k]] = rx_buffers[c[k]]
               /\ k < Len(c) => rx_desc'[c[k]] = rx_desc[c[k]]
    PROVE  ChainOK(c)'
<1>1. /\ c \in Seq(RxIndex) /\ c # << >> /\ Len(c) \in Nat /\ 1 \in 1 .. Len(c)
      /\ \A k \in 1 .. Len(c) - 1 : k \in 1 .. Len(c) /\ k + 1 \in 1 .. Len(c) /\ k < Len(c)
      /\ \A k \in 1 .. Len(c) : c[k] \in RxIndex
  BY ChainIs DEF ChainOK
<1>2. \A k, l \in 1 .. Len(c) : k < l => DistanceRx(c[k], nic_rdh') > DistanceRx(c[l], nic_rdh')
  <2> SUFFICES ASSUME NEW k \in 1 .. Len(c), NEW l \in 1 .. Len(c), k < l
               PROVE  DistanceRx(c[k], nic_rdh') > DistanceRx(c[l], nic_rdh')
    OBVIOUS
  <2>1. Age(c[k]) > Age(c[l])
    BY DEF ChainOK
  <2>2. Age(c[k]) \in Nat /\ Age(c[l]) \in Nat
    BY <1>1, DistanceIs, Types DEF Age
  <2> QED
    BY <2>1, <2>2
<1>3. Plain(rx_buffers'[c[1]])
  BY <1>1 DEF ChainOK
<1>4. \A k \in 1 .. Len(c) - 1 :
          /\ rx_desc'[c[k]] = [hi |-> "large", lo |-> [dd |-> TRUE, eop |-> FALSE, nextp |-> c[k + 1]]]
          /\ IF Examined(c[k])' THEN Linked(rx_buffers'[c[k + 1]], c[k], k)
                                ELSE Plain(rx_buffers'[c[k + 1]])
  BY <1>1 DEF ChainOK
<1>5. \A k \in 1 .. Len(c) : c[k] \in Held'
  OBVIOUS
<1> HIDE DEF Held
<1> QED
  BY <1>1, <1>2, <1>3, <1>4, <1>5 DEF ChainOK, Age, Plain, Linked

\* Steps that leave the ring alone.
LEMMA CalmStep ==
    ASSUME IInv,
           UNCHANGED <<rx_buffers, rdh, rdt, RDT0, last, nic_rdh, filling, rx_desc, frame>>,
           RxTypeOK', ReadInv',
           rx_pc' \in {"switch", "recycle"} <=> rx_pc \in {"switch", "recycle"},
           rx_pc' = "switch" => rx_pc = "switch"
    PROVE  IInv'
<1>1. RingInv'
  BY DEF IInv, RingInv, Held, Age
<1>2. PICK cur \in Seq(RxIndex) : LinksInv(cur)
  BY DEF IInv
<1>3. Held' = Held /\ Chains(cur)' = Chains(cur)
  BY DEF Held, Chains
<1>4. \A c : ChainOK(c)' <=> ChainOK(c)
  BY <1>3 DEF ChainOK, Age, Examined, Plain, Linked
<1>5. \A i : Examined(i)' <=> Examined(i)
  BY DEF Examined, Age
<1>6. LinksInv(cur)'
  BY <1>2, <1>3, <1>4, <1>5 DEF LinksInv, End
<1> QED
  BY <1>1, <1>6 DEF IInv

LEMMA InitInv == RxInit(RX_BUFFERS, "idle") => IInv
<1> SUFFICES ASSUME RxInit(RX_BUFFERS, "idle") PROVE IInv
  OBVIOUS
<1> USE DEF RxInit
<1>1. 0 \in RxIndex /\ RX_BUFFERS \in RxIndex
  BY RxSizes DEF RxIndex
<1>2. DOMAIN filling = {}
  OBVIOUS
<1>3. RxTypeOK
  <2>1. ZeroInfo \in RxInfo /\ \A b \in BOOLEAN : [ZeroInfo EXCEPT !.buffer = b] \in RxInfo
    BY <1>1 DEF ZeroInfo, RxInfo
  <2>2. rx_buffers \in [RxIndex -> RxInfo]
    <3>1. \A i \in RxIndex : (i < RX_BUFFERS) \in BOOLEAN
      OBVIOUS
    <3> QED
      BY <2>1, <3>1
  <2>3. NewDesc \in RxDesc
    BY <1>1 DEF NewDesc, RxDesc, ZeroLo
  <2>4. frame \in [RxIndex -> Seq(RxIndex)]
    OBVIOUS
  <2> QED
    BY <1>1, <1>2, <2>2, <2>3, <2>4 DEF RxTypeOK
<1>4. /\ DistanceRx(0, RX_BUFFERS) = RX_BUFFERS
      /\ \A i \in RxIndex : i \in Span(0, RX_BUFFERS) <=> i < RX_BUFFERS
  <2>1. \A i \in RxIndex : DistanceRx(0, i) = i
    BY <1>1, DistanceIs, RxSizes DEF RxIndex
  <2> QED
    BY <1>1, <2>1, SpanIs
<1>5. \A i \in RxIndex : rx_buffers[i] = [ZeroInfo EXCEPT !.buffer = i < RX_BUFFERS]
  OBVIOUS
<1>6. \A i \in RxIndex : rx_buffers[i].buffer <=> i < RX_BUFFERS
  BY <1>5 DEF ZeroInfo
<1>7. Held = {}
  BY <1>4, <1>6 DEF Held
<1>8. RingInv
  <2>1. Cardinality(Held) = 0
    BY <1>7, FS_EmptySet
  <2>2. {i \in RxIndex : rx_buffers[i].buffer} = 0 .. RX_BUFFERS - 1
    <3>1. \A i : i \in 0 .. RX_BUFFERS - 1 <=> i \in RxIndex /\ i < RX_BUFFERS
      BY RxSizes DEF RxIndex
    <3> QED
      BY <1>6, <3>1
  <2>3. Cardinality(0 .. RX_BUFFERS - 1) = RX_BUFFERS
    <3>1. PICK n \in Int : n = RX_BUFFERS - 1 /\ n >= 0 /\ n - 0 + 1 = RX_BUFFERS
      BY RxSizes
    <3>2. Cardinality(0 .. n) = IF 0 > n THEN 0 ELSE n - 0 + 1
      BY FS_Interval
    <3> QED
      BY <3>1, <3>2
  <2>4. Age(rdh) = 0
    BY <1>1, DistanceIs DEF Age
  <2>5. \A i \in RxIndex : Age(i) > 0 /\ Age(i) <= Age(rdh) => i \in Held
    BY <1>1, <2>4, DistanceIs DEF Age
  <2>6. \A i \in RxIndex : rx_buffers[i] = [ZeroInfo EXCEPT !.buffer = i \in Span(nic_rdh, rdt)]
    <3> SUFFICES ASSUME NEW i \in RxIndex
                 PROVE  rx_buffers[i] = [ZeroInfo EXCEPT !.buffer = i \in Span(nic_rdh, rdt)]
      OBVIOUS
    <3>1. (i < RX_BUFFERS) = (i \in Span(0, RX_BUFFERS))
      BY <1>4
    <3> QED
      BY <1>5, <3>1
  <2>7. 0 + RX_BUFFERS = RX_BUFFERS /\ RX_BUFFERS <= RX_BUFFERS
    BY RxSizes
  <2> QED
    BY <1>4, <1>7, <2>1, <2>2, <2>3, <2>5, <2>6, <2>7 DEF RingInv
<1>9. LinksInv(<< >>)
  <2>1. \A i \in RxIndex : frame[i] = << >>
    OBVIOUS
  <2>2. Chains(<< >>) = {}
    BY <1>2, <2>1 DEF Chains
  <2> QED
    BY <1>2, <1>7, <2>1, <2>2 DEF LinksInv
<1>10. << >> \in Seq(RxIndex)
  OBVIOUS
<1>11. ReadInv
  BY DEF ReadInv
<1> QED
  BY <1>3, <1>8, <1>9, <1>10, <1>11 DEF IInv

-----------------------------------------------------------------------------
(* The NIC takes a buffer *)

\* NicTake, but for the frame the slot is taken for.
Taken ==
    /\ nic_rdh # RDT0
    /\ \A i \in Held : DistanceRx(i, nic_rdh) < Window
    /\ nic_rdh' = AdvanceRx(nic_rdh)
    /\ UNCHANGED <<rx_buffers, rdh, rdt, RDT0>>

\* What NicTake does to the ring: the slot it takes was in its part of the ring,
\* all others grow older by one, and which are examined stays the same.
LEMMA TakeEffect ==
    ASSUME RxTypeOK, RingInv, RxTypeOK', Taken
    PROVE  /\ nic_rdh \notin Held /\ Held' = Held \cup {nic_rdh}
           /\ rx_desc[nic_rdh] = NewDesc /\ Plain(rx_buffers[nic_rdh])
           /\ \A i \in Held : /\ DistanceRx(i, nic_rdh') = Age(i) + 1
                              /\ Examined(i)' <=> Examined(i)
           /\ DistanceRx(nic_rdh, nic_rdh') = 1
           /\ \A i \in RxIndex : i = nic_rdh => ~ Examined(i) /\ ~ Examined(i)'
           /\ (\A i \in RxIndex \ Held' : rx_desc'[i] = rx_desc[i]) => RingInv'
<1> USE DEF Taken
<1> DEFINE n == nic_rdh
           m == nic_rdh'
<1>1. /\ n \in RxIndex /\ rdh \in RxIndex /\ rdt \in RxIndex /\ RDT0 \in RxIndex
      /\ m \in RxIndex /\ m = AdvanceRx(n)
  BY Types, AdvanceIs
<1>2. /\ DistanceRx(n, RDT0) \in Nat /\ DistanceRx(n, rdt) \in Nat
      /\ DistanceRx(n, RDT0) > 0 /\ DistanceRx(n, rdt) > 0 /\ n # rdt
  <2>1. DistanceRx(n, RDT0) \in Nat /\ DistanceRx(n, rdt) \in Nat /\ DistanceRx(n, RDT0) # 0
    BY <1>1, DistanceIs
  <2>2. DistanceRx(n, rdt) > 0
    BY <2>1 DEF RingInv
  <2> QED
    BY <1>1, <2>1, <2>2, DistanceIs
<1>3. n \in Span(n, rdt) /\ n \notin Held
  <2>1. DistanceRx(n, n) = 0
    BY <1>1, DistanceIs
  <2>2. n \in Span(n, rdt)
    BY <1>1, <1>2, <2>1, SpanIs
  <2> QED
    BY <1>1, <2>2, HeldIs
<1>4. rx_desc[n] = NewDesc /\ rx_buffers[n] = [ZeroInfo EXCEPT !.buffer = TRUE]
  BY <1>1, <1>3 DEF RingInv
<1>5. rx_buffers[n].buffer /\ Plain(rx_buffers[n])
  BY <1>4 DEF ZeroInfo, Plain
<1>6. /\ DistanceRx(m, rdt) = DistanceRx(n, rdt) - 1
      /\ DistanceRx(m, RDT0) = DistanceRx(n, RDT0) - 1
  BY <1>1, <1>2, NearEnd
<1>7. \A i \in RxIndex : i # n => DistanceRx(m, i) = DistanceRx(n, i) - 1
  BY <1>1, NearEnd
<1>8. \A i \in RxIndex : i \in Span(m, rdt) <=> i # n /\ i \in Span(n, rdt)
  <2> SUFFICES ASSUME NEW i \in RxIndex PROVE i \in Span(m, rdt) <=> i # n /\ i \in Span(n, rdt)
    OBVIOUS
  <2>1. /\ i \in Span(m, rdt) <=> DistanceRx(m, i) < DistanceRx(m, rdt)
        /\ i \in Span(n, rdt) <=> DistanceRx(n, i) < DistanceRx(n, rdt)
    BY <1>1, SpanIs
  <2>2. CASE i = n
    <3>1. DistanceRx(m, n) = RX_LEN - 1
      <4>1. n # m
        BY <1>1, AdvanceIs, RxSizes DEF RxIndex
      <4>2. DistanceRx(n, m) = 1
        <5>1. (DistanceRx(n, n) = 0 /\ 0 < RX_LEN - 1) \/ RX_LEN = 2
          BY <1>1, DistanceIs, RxSizes
        <5> QED
          BY <1>1, <4>1, <5>1, FarEnd, DistanceIs, RxSizes
      <4> QED
        BY <1>1, <4>1, <4>2, AllAround, DistanceIs, RxSizes
    <3>2. DistanceRx(m, rdt) \in Nat /\ DistanceRx(n, rdt) < RX_LEN
      BY <1>1, DistanceIs
    <3> QED
      BY <1>2, <1>6, <2>1, <2>2, <3>1, <3>2, RxSizes
  <2>3. CASE i # n
    <3>1. DistanceRx(n, i) \in Nat
      BY <1>1, DistanceIs
    <3> QED
      BY <1>2, <1>6, <1>7, <2>1, <2>3, <3>1
  <2> QED
    BY <2>2, <2>3
<1>9. Held' = Held \cup {n}
  <2>1. \A i \in RxIndex : i \in Held' <=> rx_buffers[i].buffer /\ i \notin Span(m, rdt)
    BY DEF Held
  <2>2. Held' \subseteq RxIndex
    BY DEF Held
  <2>3. \A i \in RxIndex : i \in Held' <=> i \in Held \/ i = n
    BY <1>3, <1>5, <1>8, <2>1, HeldIs
  <2> QED
    BY <1>1, <2>2, <2>3, HeldIs
<1>10. Cardinality(Held') = Cardinality(Held) + 1
  <2>1. IsFiniteSet(Held)
    BY HeldIs
  <2>2. Cardinality(Held \cup {n}) = IF n \in Held THEN Cardinality(Held) ELSE Cardinality(Held) + 1
    BY <2>1, FS_AddElement
  <2> QED
    BY <1>3, <1>9, <2>2
<1>11. ASSUME NEW i \in Held
       PROVE  /\ i \in RxIndex /\ Age(i) \in Nat /\ Age(i) > 0
              /\ Age(i) < Window /\ Age(i) < RX_LEN - 1
  <2>1. i \in RxIndex /\ Age(i) \in Nat /\ Age(i) > 0 /\ Age(i) < Window
    BY <1>1, HeldIs, DistanceIs DEF RingInv, Age
  <2>2. Cardinality(Held) >= 1
    <3>1. Cardinality(Held) # 0
      BY HeldIs, FS_EmptySet
    <3> QED
      BY <3>1, HeldIs
  <2>3. RX_BUFFERS >= 2
    BY <1>2, <2>2, HeldIs DEF RingInv
  <2> QED
    BY <2>1, <2>3, RxSizes
<1>12. \A i \in Held : DistanceRx(i, m) = Age(i) + 1
  BY <1>1, <1>11, FarEnd DEF Age
<1>13. DistanceRx(n, m) = 1 /\ Age(n) = 0
  <2>1. DistanceRx(n, n) = 0
    BY <1>1, DistanceIs
  <2>2. 0 < RX_LEN - 1
    BY RxSizes
  <2> QED
    BY <1>1, <2>1, <2>2, FarEnd DEF Age
<1>14. /\ DistanceRx(rdh, m) = Age(rdh) + 1 /\ Age(rdh) \in Nat /\ Age(rdh) < RX_LEN - 1
  <2>1. Age(rdh) \in Nat
    BY <1>1, DistanceIs DEF Age
  <2>2. CASE Age(rdh) = 0
    BY <1>1, <2>2, FarEnd, RxSizes DEF Age
  <2>3. CASE Age(rdh) > 0
    <3>1. rdh \in Held
      BY <1>1, <2>1, <2>3 DEF RingInv
    <3> QED
      BY <1>11, <1>12, <3>1
  <2> QED
    BY <2>1, <2>2, <2>3
<1>15. \A i \in Held : Examined(i)' <=> Examined(i)
  <2> SUFFICES ASSUME NEW i \in Held PROVE Examined(i)' <=> Examined(i)
    OBVIOUS
  <2>1. Examined(i)' <=> Age(i) + 1 > Age(rdh) + 1
    BY <1>12, <1>14 DEF Examined, Age
  <2> QED
    BY <1>11, <1>14, <2>1 DEF Examined
<1>16. ASSUME NEW i \in RxIndex, i = n PROVE ~ Examined(i) /\ ~ Examined(i)'
  <2>1. Examined(i)' <=> 1 > Age(rdh) + 1
    BY <1>13, <1>14, <1>16 DEF Examined, Age
  <2> QED
    BY <1>13, <1>14, <1>16, <2>1 DEF Examined
<1>17. ASSUME \A i \in RxIndex \ Held' : rx_desc'[i] = rx_desc[i] PROVE RingInv'
  <2>1. DistanceRx(m, RDT0) <= DistanceRx(m, rdt)
    BY <1>2, <1>6 DEF RingInv
  <2>2. Cardinality(Held') + DistanceRx(m, rdt) = RX_BUFFERS
    BY <1>2, <1>6, <1>10, HeldIs DEF RingInv
  <2>3. \A i \in Held' : DistanceRx(i, m) > 0 /\ DistanceRx(i, m) <= Window
    <3>1. \A i \in Held : DistanceRx(i, m) > 0 /\ DistanceRx(i, m) <= Window
      BY <1>11, <1>12, RxSizes
    <3> QED
      BY <1>9, <1>13, <3>1, RxSizes
  <2>4. ASSUME NEW i \in RxIndex, DistanceRx(i, m) > 0, DistanceRx(i, m) <= DistanceRx(rdh, m)
        PROVE  i \in Held'
    <3>1. Age(i) \in Nat /\ DistanceRx(i, m) = Age(i) + 1
      BY <1>1, <2>4, FarEnd, DistanceIs DEF Age
    <3>2. CASE Age(i) = 0
      BY <1>1, <1>9, <3>2, DistanceIs DEF Age
    <3>3. CASE Age(i) > 0
      <4>1. Age(i) <= Age(rdh)
        BY <1>14, <2>4, <3>1
      <4> QED
        BY <1>9, <3>3, <4>1 DEF RingInv
    <3> QED
      BY <3>1, <3>2, <3>3
  <2>5. ASSUME NEW i \in RxIndex \ Held'
        PROVE  /\ rx_desc'[i] = NewDesc
               /\ rx_buffers[i] = [ZeroInfo EXCEPT !.buffer = i \in Span(m, rdt)]
    <3>1. i \in RxIndex \ Held /\ i # n
      BY <1>9
    <3>2. (i \in Span(m, rdt)) = (i \in Span(n, rdt))
      BY <1>8, <3>1
    <3> QED
      BY <1>17, <3>1, <3>2 DEF RingInv
  <2>6. Cardinality({i \in RxIndex : rx_buffers[i].buffer}) = RX_BUFFERS
    BY DEF RingInv
  <2> HIDE DEF Held
  <2> QED
    BY <2>1, <2>2, <2>3, <2>4, <2>5, <2>6 DEF RingInv, Age
<1> QED
  BY <1>3, <1>4, <1>5, <1>9, <1>12, <1>13, <1>15, <1>16, <1>17

\* A chain d, which ends at slot n, takes the place of old, one slot longer; old is
\* empty if d is new.
Replaces(cur, n, d, old) ==
    /\ End(d) = n /\ rx_desc'[n] = NewDesc
    /\ \A k \in 1 .. Len(d) :
           \/ d[k] = n
           \/ old \in Chains(cur) /\ \E l \in 1 .. Len(old) : d[k] = old[l]
    /\ \A l \in 1 .. Len(old) : \E k \in 1 .. Len(d) : d[k] = old[l]
    /\ \A c : c \in Chains(cur)' <=> (c \in Chains(cur) /\ c # old) \/ c = d
    /\ \A c \in Chains(cur) : c # old =>
           \A k \in 1 .. Len(c) : rx_desc'[c[k]] = rx_desc[c[k]]
    /\ DOMAIN filling' \subseteq DOMAIN filling \cup {n} /\ filling'[n] = d
    /\ \A i \in DOMAIN filling' : i # n => filling'[i] = filling[i] /\ filling[i] # old
    /\ \A i \in RxIndex : frame[i] # << >> => frame[i] # old

LEMMA LinksTake ==
    ASSUME IInv, RxTypeOK', Taken, UNCHANGED <<rx_pc, last, frame>>,
           NEW cur, LinksInv(cur), NEW n, n = nic_rdh,
           NEW d, ChainOK(d)', NEW old, Replaces(cur, n, d, old)
    PROVE  LinksInv(cur)'
<1> USE DEF Replaces
<1>1. RxTypeOK /\ RingInv
  BY DEF IInv
<1>2. /\ n \notin Held /\ Held' = Held \cup {n}
      /\ \A i \in Held : /\ DistanceRx(i, nic_rdh') = Age(i) + 1
                         /\ Examined(i)' <=> Examined(i)
      /\ n \in RxIndex /\ ~ Examined(n) /\ ~ Examined(n)'
  BY <1>1, TakeEffect, Types
<1>3. ASSUME NEW c \in Chains(cur)
      PROVE  /\ ChainOK(c) /\ \A k \in 1 .. Len(c) : c[k] \in Held
             /\ Len(c) \in 1 .. Len(c) /\ End(c) = c[Len(c)]
  <2>1. ChainOK(c)
    BY DEF LinksInv
  <2> QED
    BY <1>1, <2>1, ChainIs
<1>4. ASSUME NEW c \in Chains(cur), c # old PROVE ChainOK(c)'
  <2>1. \A k \in 1 .. Len(c) :
            /\ c[k] \in Held'
            /\ DistanceRx(c[k], nic_rdh') = Age(c[k]) + 1
            /\ Examined(c[k])' <=> Examined(c[k])
            /\ rx_buffers'[c[k]] = rx_buffers[c[k]]
            /\ rx_desc'[c[k]] = rx_desc[c[k]]
    BY <1>2, <1>3, <1>4 DEF Taken
  <2>2. PICK e \in {0, 1} : e = 1
    OBVIOUS
  <2> QED
    BY <1>1, <1>3, <2>1, <2>2, ChainKept
<1>5. \A c \in Chains(cur)' : ChainOK(c)'
  BY <1>4
<1>6. ASSUME NEW a \in Chains(cur)', NEW b \in Chains(cur)',
             NEW k \in 1 .. Len(a), NEW l \in 1 .. Len(b), a[k] = b[l]
      PROVE  a = b
  <2>1. \A x \in Chains(cur), y \in Chains(cur) :
            \A p \in 1 .. Len(x), q \in 1 .. Len(y) : x[p] = y[q] => x = y
    BY DEF LinksInv
  <2>2. ASSUME NEW x \in Chains(cur), x # old, NEW p \in 1 .. Len(x), NEW q \in 1 .. Len(d)
        PROVE  x[p] # d[q]
    <3>1. x[p] # n
      BY <1>2, <1>3
    <3> QED
      BY <2>1, <2>2, <3>1
  <2>3. CASE a = d
    BY <1>6, <2>2, <2>3
  <2>4. CASE b = d
    BY <1>6, <2>2, <2>4
  <2>5. CASE a # d /\ b # d
    BY <1>6, <2>1, <2>5
  <2> QED
    BY <2>3, <2>4, <2>5
<1>7. ASSUME NEW i \in Held' PROVE \E c \in Chains(cur)' : \E k \in 1 .. Len(c) : c[k] = i
  <2>1. d \in Chains(cur)'
    OBVIOUS
  <2>2. CASE i = n
    <3>1. ChainOK(d)' /\ RxTypeOK' => Len(d) \in 1 .. Len(d)
      BY EmptySeq DEF ChainOK
    <3>2. Len(d) \in 1 .. Len(d) /\ d[Len(d)] = n
      BY <3>1 DEF End
    <3> QED
      BY <2>1, <2>2, <3>2
  <2>3. CASE i \in Held
    <3>1. PICK c \in Chains(cur) : \E k \in 1 .. Len(c) : c[k] = i
      BY <2>3 DEF LinksInv
    <3>2. CASE c = old
      BY <2>1, <3>1, <3>2
    <3>3. CASE c # old
      BY <3>1, <3>3
    <3> QED
      BY <3>2, <3>3
  <2> QED
    BY <1>2, <2>2, <2>3
<1>8. ASSUME NEW i \in DOMAIN filling'
      PROVE  End(filling'[i]) = i /\ rx_desc'[i] = NewDesc /\ ~ Examined(i)'
  <2>1. CASE i = n
    BY <1>2, <2>1
  <2>2. CASE i # n
    <3>1. i \in DOMAIN filling /\ filling'[i] = filling[i] /\ filling[i] # old
      BY <2>2
    <3>2. filling[i] \in Chains(cur)
      BY <3>1 DEF Chains
    <3>3. End(filling[i]) = i /\ rx_desc[i] = NewDesc /\ ~ Examined(i)
      BY <3>1 DEF LinksInv
    <3>4. i \in Held /\ rx_desc'[i] = rx_desc[i]
      BY <1>3, <3>1, <3>2, <3>3
    <3> QED
      BY <1>2, <3>1, <3>3, <3>4
  <2> QED
    BY <2>1, <2>2
<1>9. ASSUME NEW i \in RxIndex, frame[i] # << >>
      PROVE  /\ End(frame[i]) = i
             /\ rx_desc'[i].lo.dd /\ rx_desc'[i].lo.eop /\ rx_desc'[i].hi # "address"
             /\ Examined(i)' => cur = frame[i]
  <2>1. frame[i] \in Chains(cur) /\ frame[i] # old
    BY <1>9 DEF Chains
  <2>2. /\ End(frame[i]) = i
        /\ rx_desc[i].lo.dd /\ rx_desc[i].lo.eop /\ rx_desc[i].hi # "address"
        /\ Examined(i) => cur = frame[i]
    BY <1>9 DEF LinksInv
  <2>3. i \in Held /\ rx_desc'[i] = rx_desc[i]
    BY <1>3, <2>1, <2>2
  <2> QED
    BY <1>2, <2>2, <2>3
<1>10. /\ IF rx_pc \in {"switch", "recycle"}
            THEN cur # << >> /\ last = End(cur) /\ \A k \in 1 .. Len(cur) : Examined(cur[k])'
            ELSE cur = << >>
       /\ rx_pc = "switch" => cur = frame[last]
  <2>1. cur # << >> => \A k \in 1 .. Len(cur) : cur[k] \in Held
    <3>1. cur # << >> => cur \in Chains(cur)
      BY DEF Chains
    <3> QED
      BY <1>3, <3>1
  <2> QED
    BY <1>2, <2>1 DEF LinksInv
<1> HIDE DEF End
<1> QED
  BY <1>5, <1>6, <1>7, <1>8, <1>9, <1>10 DEF LinksInv

LEMMA NicBeginStep == ASSUME IInv, NicBegin PROVE IInv'
<1>1. /\ nic_rdh # RDT0 /\ \A i \in Held : DistanceRx(i, nic_rdh) < Window
      /\ nic_rdh' = AdvanceRx(nic_rdh)
      /\ UNCHANGED <<rx_buffers, rdh, rdt, RDT0, rx_pc, armed, rx, last, irq, event, rx_desc, frame>>
      /\ filling' = [i \in DOMAIN filling \cup {nic_rdh} |->
            IF i = nic_rdh THEN Append(<< >>, nic_rdh) ELSE filling[i]]
  BY DEF NicBegin, NicTake, bufferVars, pollVars, irqVars
<1>2. RxTypeOK /\ RingInv /\ ReadInv
  BY DEF IInv
<1>3. PICK n \in RxIndex : n = nic_rdh
  BY <1>2, Types
<1>4. PICK d \in Seq(RxIndex) : d = Append(<< >>, n)
  <2>1. << >> \in Seq(RxIndex)
    OBVIOUS
  <2>2. Append(<< >>, n) \in Seq(RxIndex)
    BY <2>1, AppendProperties
  <2> QED
    BY <2>2
<1>5. Len(d) = 1 /\ d[1] = n /\ d # << >> /\ End(d) = n
  BY <1>4 DEF End
<1>6. /\ DOMAIN filling' = DOMAIN filling \cup {n} /\ filling'[n] = d
      /\ \A i \in DOMAIN filling : i # n => filling'[i] = filling[i]
  BY <1>1, <1>3, <1>4
<1>7. RxTypeOK'
  <2>1. nic_rdh' \in RxIndex
    BY <1>1, <1>3, AdvanceIs
  <2>2. \A i \in DOMAIN filling' : filling'[i] \in Seq(RxIndex)
    BY <1>2, <1>6, Types
  <2>3. DOMAIN filling' \subseteq RxIndex
    BY <1>2, <1>6, Types
  <2> QED
    BY <1>1, <1>2, <2>1, <2>2, <2>3 DEF RxTypeOK
<1>8. /\ n \notin Held /\ Held' = Held \cup {n}
      /\ rx_desc[n] = NewDesc /\ Plain(rx_buffers[n])
      /\ RingInv'
  BY <1>1, <1>2, <1>3, <1>7, TakeEffect DEF Taken
<1>9. ReadInv'
  BY <1>1, <1>2 DEF ReadInv
<1>10. PICK cur \in Seq(RxIndex) : LinksInv(cur)
  BY DEF IInv
<1>11. ChainOK(d)'
  <2>1. \A k \in 1 .. Len(d) : k = 1
    BY <1>5
  <2>2. \A k, l \in 1 .. Len(d) : ~ (k < l)
    BY <2>1
  <2>3. 1 .. Len(d) - 1 = {}
    BY <1>5
  <2>4. Plain(rx_buffers'[d[1]]) /\ d[1] \in Held'
    BY <1>1, <1>5, <1>8
  <2> QED
    BY <1>5, <2>1, <2>2, <2>3, <2>4 DEF ChainOK, Plain
<1>12. \A c \in Chains(cur) : c # << >>
  BY <1>10 DEF LinksInv, ChainOK
<1>13. n \notin DOMAIN filling
  <2> SUFFICES ASSUME n \in DOMAIN filling PROVE FALSE
    OBVIOUS
  <2>1. filling[n] \in Chains(cur) /\ End(filling[n]) = n
    BY <1>10 DEF Chains, LinksInv
  <2>2. ChainOK(filling[n])
    BY <1>10, <2>1 DEF LinksInv
  <2> QED
    BY <1>2, <1>8, <2>1, <2>2, ChainIs
<1>14. \A c : c \in Chains(cur)' <=> (c \in Chains(cur) /\ c # << >>) \/ c = d
  BY <1>1, <1>6, <1>12, <1>13 DEF Chains
<1>15. \A i \in DOMAIN filling' : i # n => filling'[i] = filling[i] /\ filling[i] # << >>
  <2>1. \A i \in DOMAIN filling : filling[i] \in Chains(cur)
    BY DEF Chains
  <2> QED
    BY <1>6, <1>12, <2>1
<1>16. PICK old : old = << >>
  OBVIOUS
<1>17. 1 .. Len(old) = {}
  BY <1>16
<1>18. \A k \in 1 .. Len(d) : d[k] = n
  BY <1>5
<1>19. LinksInv(cur)'
  <2>1. Taken /\ UNCHANGED <<rx_pc, last, frame>> /\ rx_desc' = rx_desc
    BY <1>1 DEF Taken
  <2>2. Replaces(cur, n, d, old)
    BY <1>5, <1>6, <1>8, <1>14, <1>15, <1>16, <1>17, <1>18, <2>1 DEF Replaces
  <2> QED
    BY <1>3, <1>7, <1>10, <1>11, <2>1, <2>2, LinksTake
<1> QED
  BY <1>7, <1>8, <1>9, <1>19 DEF IInv

\* The chain of an unfinished frame is told from all others by its last slot.
LEMMA FillingApart ==
    ASSUME RxTypeOK, NEW cur, LinksInv(cur), NEW i \in DOMAIN filling
    PROVE  /\ filling[i] \in Chains(cur) /\ ChainOK(filling[i]) /\ filling[i] # << >>
           /\ i \in RxIndex /\ i \in Held /\ End(filling[i]) = i
           /\ rx_desc[i] = NewDesc /\ ~ rx_desc[i].lo.dd /\ ~ Examined(i)
           /\ \A k \in 1 .. Len(filling[i]) - 1 : filling[i][k] # i
           /\ \A j \in DOMAIN filling : j # i => filling[j] # filling[i]
           /\ frame[i] = << >> /\ \A j \in RxIndex : frame[j] # << >> => frame[j] # filling[i]
           /\ cur # filling[i]
           /\ \A c \in Chains(cur) : c # filling[i] => \A k \in 1 .. Len(c) : c[k] # i
<1>1. filling[i] \in Chains(cur)
  BY DEF Chains
<1>2. ChainOK(filling[i])
  BY <1>1 DEF LinksInv
<1>3. i \in RxIndex /\ End(filling[i]) = i /\ rx_desc[i] = NewDesc /\ ~ Examined(i)
  BY Types DEF LinksInv
<1>4. /\ filling[i] # << >> /\ Len(filling[i]) \in 1 .. Len(filling[i])
      /\ filling[i][Len(filling[i])] = i /\ i \in Held
      /\ Len(filling[i]) \in Nat
      /\ \A k \in 1 .. Len(filling[i]) - 1 : filling[i][k] # i
  <2>1. PICK c \in Seq(RxIndex) : c = filling[i]
    BY Types
  <2>2. /\ c # << >> /\ Len(c) \in 1 .. Len(c) /\ c[Len(c)] = i /\ c[Len(c)] \in Held /\ Len(c) \in Nat
        /\ \A k \in 1 .. Len(c) - 1 : k \in 1 .. Len(c)
        /\ \A k, l \in 1 .. Len(c) : c[k] = c[l] => k = l
    BY <1>2, <1>3, <2>1, ChainIs DEF ChainOK, End
  <2>3. \A k \in 1 .. Len(c) - 1 : k # Len(c)
    BY <2>2
  <2>4. \A k \in 1 .. Len(c) - 1 : c[k] # i
    BY <2>2, <2>3
  <2> QED
    BY <2>1, <2>2, <2>4
<1>5. ~ rx_desc[i].lo.dd
  BY <1>3 DEF NewDesc, ZeroLo
<1>6. \A j \in DOMAIN filling : j # i => filling[j] # filling[i]
  BY <1>3 DEF LinksInv
<1>7. frame[i] = << >>
  BY <1>3, <1>5 DEF LinksInv
<1>8. \A j \in RxIndex : frame[j] # << >> => frame[j] # filling[i]
  BY <1>3, <1>7 DEF LinksInv
<1>9. cur # filling[i]
  BY <1>3, <1>4 DEF LinksInv, End
<1>10. \A c \in Chains(cur) : c # filling[i] => \A k \in 1 .. Len(c) : c[k] # i
  BY <1>1, <1>4 DEF LinksInv
<1> QED
  BY <1>1, <1>2, <1>3, <1>4, <1>5, <1>6, <1>7, <1>8, <1>9, <1>10

LEMMA NicChainStep == ASSUME IInv, NEW i \in DOMAIN filling, NicChain(i) PROVE IInv'
<1>1. /\ Taken
      /\ UNCHANGED <<rx_pc, armed, rx, last, irq, event, frame>>
      /\ rx_desc' = [rx_desc EXCEPT ![i] =
            [hi |-> "large", lo |-> [dd |-> TRUE, eop |-> FALSE, nextp |-> nic_rdh]]]
      /\ filling' = [j \in (DOMAIN filling \ {i}) \cup {nic_rdh} |->
            IF j = nic_rdh THEN Append(filling[i], nic_rdh) ELSE filling[j]]
  BY DEF NicChain, NicTake, Taken, bufferVars, pollVars, irqVars
<1>2. RxTypeOK /\ RingInv /\ ReadInv
  BY DEF IInv
<1>3. PICK cur \in Seq(RxIndex) : LinksInv(cur)
  BY DEF IInv
<1>4. PICK n \in RxIndex : n = nic_rdh
  BY <1>2, Types
<1>5. PICK old \in Seq(RxIndex) : old = filling[i]
  BY <1>2, Types
<1>6. /\ old \in Chains(cur) /\ ChainOK(old) /\ old # << >>
      /\ i \in RxIndex /\ i \in Held /\ End(old) = i
      /\ rx_desc[i] = NewDesc /\ ~ rx_desc[i].lo.dd /\ ~ Examined(i)
      /\ \A k \in 1 .. Len(old) - 1 : old[k] # i
      /\ \A j \in DOMAIN filling : j # i => filling[j] # old
      /\ \A j \in RxIndex : frame[j] # << >> => frame[j] # old
      /\ cur # old
      /\ \A c \in Chains(cur) : c # old => \A k \in 1 .. Len(c) : c[k] # i
  BY <1>2, <1>3, <1>5, FillingApart
<1> DEFINE L == Len(old)
<1>7. /\ L \in Nat /\ L >= 1 /\ L \in 1 .. L /\ old[L] = i /\ 1 \in 1 .. L
      /\ \A k \in 1 .. L : old[k] \in RxIndex /\ old[k] \in Held
      /\ \A k \in 1 .. L - 1 : k \in 1 .. L /\ k + 1 \in 1 .. L
  BY <1>2, <1>6, ChainIs
<1>8. PICK d \in Seq(RxIndex) : d = Append(old, n)
  BY AppendProperties
<1>9. /\ Len(d) = L + 1 /\ d[L + 1] = n /\ \A k \in 1 .. L : d[k] = old[k]
      /\ d # << >> /\ End(d) = n
  BY <1>8, AppendProperties DEF End
<1> HIDE DEF L
<1>10. RxTypeOK'
  <2>1. nic_rdh' \in RxIndex
    BY <1>1, <1>4, AdvanceIs DEF Taken
  <2>2. rx_desc' \in [RxIndex -> RxDesc]
    <3>1. [hi |-> "large", lo |-> [dd |-> TRUE, eop |-> FALSE, nextp |-> n]] \in RxDesc
      BY DEF RxDesc
    <3> QED
      BY <1>1, <1>2, <1>4, <1>6, <3>1, Types
  <2>3. DOMAIN filling' \subseteq RxIndex /\ \A j \in DOMAIN filling' : filling'[j] \in Seq(RxIndex)
    BY <1>1, <1>2, <1>4, <1>5, <1>8, Types
  <2> QED
    BY <1>1, <1>2, <2>1, <2>2, <2>3 DEF RxTypeOK, Taken
<1>11. /\ n \notin Held /\ Held' = Held \cup {n}
       /\ rx_desc[n] = NewDesc /\ Plain(rx_buffers[n])
       /\ \A j \in Held : /\ DistanceRx(j, nic_rdh') = Age(j) + 1
                          /\ Examined(j)' <=> Examined(j)
       /\ DistanceRx(n, nic_rdh') = 1
       /\ (\A j \in RxIndex \ Held' : rx_desc'[j] = rx_desc[j]) => RingInv'
  BY <1>1, <1>2, <1>4, <1>10, TakeEffect
<1>12. /\ rx_desc'[i] = [hi |-> "large", lo |-> [dd |-> TRUE, eop |-> FALSE, nextp |-> n]]
       /\ \A j \in RxIndex : j # i => rx_desc'[j] = rx_desc[j]
  BY <1>1, <1>2, <1>4, <1>6, Types
<1>13. RingInv'
  BY <1>6, <1>11, <1>12
<1>14. ReadInv'
  BY <1>1, <1>2, <1>6, <1>12, Types DEF ReadInv, Taken
<1>15. \A k \in 1 .. L + 1 : k \in 1 .. L \/ k = L + 1
  BY <1>7
<1>16. ChainOK(d)'
  <2>1. \A k \in 1 .. Len(d) : d[k] \in Held'
    BY <1>7, <1>9, <1>11, <1>15
  <2>2. ASSUME NEW k \in 1 .. L + 1, NEW l \in 1 .. L + 1, k < l
        PROVE  DistanceRx(d[k], nic_rdh') > DistanceRx(d[l], nic_rdh')
    <3>1. k \in 1 .. L /\ d[k] = old[k] /\ old[k] \in Held /\ old[k] \in RxIndex
      BY <1>7, <1>9, <2>2
    <3>2. Age(old[k]) \in Nat /\ Age(old[k]) > 0 /\ DistanceRx(d[k], nic_rdh') = Age(old[k]) + 1
      BY <1>2, <1>4, <1>11, <3>1, DistanceIs DEF Age, RingInv
    <3>3. CASE l = L + 1
      BY <1>9, <1>11, <3>2, <3>3
    <3>4. CASE l \in 1 .. L
      <4>1. Age(old[k]) > Age(old[l])
        BY <1>6, <2>2, <3>1, <3>4 DEF ChainOK, L
      <4>2. DistanceRx(d[l], nic_rdh') = Age(old[l]) + 1 /\ Age(old[l]) \in Nat
        BY <1>4, <1>7, <1>9, <1>11, <3>4, DistanceIs DEF Age
      <4> QED
        BY <3>2, <4>1, <4>2
    <3> QED
      BY <1>15, <3>3, <3>4
  <2>3. Plain(rx_buffers'[d[1]])
    BY <1>1, <1>6, <1>7, <1>9 DEF ChainOK, Taken
  <2>4. ASSUME NEW k \in 1 .. L
        PROVE  /\ rx_desc'[d[k]] = [hi |-> "large", lo |-> [dd |-> TRUE, eop |-> FALSE, nextp |-> d[k + 1]]]
               /\ IF Examined(d[k])' THEN Linked(rx_buffers'[d[k + 1]], d[k], k)
                                     ELSE Plain(rx_buffers'[d[k + 1]])
    <3>1. CASE k = L
      <4>1. d[k] = i /\ d[k + 1] = n
        BY <1>7, <1>9, <3>1
      <4>2. ~ Examined(i)'
        BY <1>6, <1>11
      <4> QED
        BY <1>1, <1>11, <1>12, <4>1, <4>2 DEF Taken
    <3>2. CASE k # L
      <4>1. k \in 1 .. L - 1 /\ k + 1 \in 1 .. L /\ d[k] = old[k] /\ d[k + 1] = old[k + 1]
        BY <1>7, <1>9, <3>2
      <4>2. old[k] # i /\ old[k] \in Held /\ old[k] \in RxIndex
        BY <1>6, <1>7, <4>1 DEF L
      <4>3. /\ rx_desc[old[k]] = [hi |-> "large", lo |-> [dd |-> TRUE, eop |-> FALSE, nextp |-> old[k + 1]]]
            /\ IF Examined(old[k]) THEN Linked(rx_buffers[old[k + 1]], old[k], k)
                                   ELSE Plain(rx_buffers[old[k + 1]])
        BY <1>6, <4>1 DEF ChainOK, L
      <4>4. Examined(old[k])' <=> Examined(old[k])
        BY <1>11, <4>2
      <4> QED
        BY <1>1, <1>12, <4>1, <4>2, <4>3, <4>4 DEF Taken
    <3> QED
      BY <3>1, <3>2
  <2>5. Len(d) - 1 = L
    BY <1>7, <1>9
  <2> HIDE DEF Held
  <2> QED
    BY <1>9, <2>1, <2>2, <2>3, <2>4, <2>5 DEF ChainOK, Age, Plain, Linked
<1>17. n \notin DOMAIN filling /\ n # i
  <2>1. \A j \in DOMAIN filling : j \in Held
    BY <1>2, <1>3, FillingApart
  <2> QED
    BY <1>11, <2>1
<1>18. /\ DOMAIN filling' = (DOMAIN filling \ {i}) \cup {n} /\ filling'[n] = d
       /\ \A j \in DOMAIN filling \ {i} : filling'[j] = filling[j]
  BY <1>1, <1>4, <1>5, <1>8, <1>17
<1>19. \A c : c \in Chains(cur)' <=> (c \in Chains(cur) /\ c # old) \/ c = d
  <2>1. \A c : c \in {filling'[j] : j \in DOMAIN filling'} <=>
                   (c \in {filling[j] : j \in DOMAIN filling} /\ c # old) \/ c = d
    BY <1>5, <1>6, <1>17, <1>18
  <2>2. frame' = frame
    BY <1>1
  <2> QED
    BY <1>6, <2>1, <2>2 DEF Chains
<1>20. Replaces(cur, n, d, old)
  <2>1. \A k \in 1 .. Len(d) : d[k] = n \/ (old \in Chains(cur) /\ \E l \in 1 .. Len(old) : d[k] = old[l])
    BY <1>6, <1>9, <1>15 DEF L
  <2>2. \A l \in 1 .. Len(old) : \E k \in 1 .. Len(d) : d[k] = old[l]
    <3>1. \A l \in 1 .. L : l \in 1 .. L + 1
      BY <1>7
    <3> QED
      BY <1>9, <3>1 DEF L
  <2>3. \A c \in Chains(cur) : c # old => \A k \in 1 .. Len(c) : rx_desc'[c[k]] = rx_desc[c[k]]
    <3> SUFFICES ASSUME NEW c \in Chains(cur), c # old, NEW k \in 1 .. Len(c)
                 PROVE  rx_desc'[c[k]] = rx_desc[c[k]]
      OBVIOUS
    <3>1. ChainOK(c)
      BY <1>3 DEF LinksInv
    <3>2. c[k] \in RxIndex /\ c[k] # i
      BY <1>2, <1>6, <3>1, ChainIs
    <3> QED
      BY <1>12, <3>2
  <2>4. rx_desc'[n] = NewDesc
    BY <1>11, <1>12, <1>17
  <2>5. \A j \in DOMAIN filling' : j # n => filling'[j] = filling[j] /\ filling[j] # old
    BY <1>6, <1>18
  <2> QED
    BY <1>6, <1>9, <1>18, <1>19, <2>1, <2>2, <2>3, <2>4, <2>5 DEF Replaces
<1>21. LinksInv(cur)'
  BY <1>1, <1>3, <1>4, <1>10, <1>16, <1>20, LinksTake
<1> QED
  BY <1>10, <1>13, <1>14, <1>21 DEF IInv

-----------------------------------------------------------------------------
(* The NIC completes a frame *)

LEMMA NicEndStep == ASSUME IInv, NEW i \in DOMAIN filling, NicEnd(i) PROVE IInv'
<1>1. /\ UNCHANGED <<rx_buffers, rdh, rdt, RDT0, rx_pc, armed, rx, last, event, nic_rdh>>
      /\ irq' = IF irq = "unmasked" THEN "pending" ELSE irq
      /\ rx_desc' = [rx_desc EXCEPT ![i] =
            [hi |-> IF Len(filling[i]) = 1 THEN "single" ELSE "large",
             lo |-> [dd |-> TRUE, eop |-> TRUE, nextp |-> 0]]]
      /\ frame' = [frame EXCEPT ![i] = filling[i]]
      /\ filling' = [j \in DOMAIN filling \ {i} |-> filling[j]]
  BY DEF NicEnd, Cause, bufferVars, pollVars
<1>2. RxTypeOK /\ RingInv /\ ReadInv
  BY DEF IInv
<1>3. PICK cur \in Seq(RxIndex) : LinksInv(cur)
  BY DEF IInv
<1>4. PICK old \in Seq(RxIndex) : old = filling[i]
  BY <1>2, Types
<1>5. /\ old \in Chains(cur) /\ ChainOK(old) /\ old # << >>
      /\ i \in RxIndex /\ i \in Held /\ End(old) = i
      /\ ~ rx_desc[i].lo.dd /\ ~ Examined(i)
      /\ \A k \in 1 .. Len(old) - 1 : old[k] # i
      /\ \A j \in DOMAIN filling : j # i => filling[j] # old
      /\ frame[i] = << >> /\ cur # old
      /\ \A c \in Chains(cur) : c # old => \A k \in 1 .. Len(c) : c[k] # i
  BY <1>2, <1>3, <1>4, FillingApart
<1>6. PICK done \in RxDesc :
          /\ done = [hi |-> IF Len(filling[i]) = 1 THEN "single" ELSE "large",
                     lo |-> [dd |-> TRUE, eop |-> TRUE, nextp |-> 0]]
          /\ done.lo.dd /\ done.lo.eop /\ done.hi # "address"
  <2>1. 0 \in RxIndex
    BY RxSizes DEF RxIndex
  <2>2. PICK hi \in {"single", "large"} : hi = IF Len(filling[i]) = 1 THEN "single" ELSE "large"
    OBVIOUS
  <2>3. PICK x : x = [hi |-> hi, lo |-> [dd |-> TRUE, eop |-> TRUE, nextp |-> 0]]
    OBVIOUS
  <2>4. x \in RxDesc /\ x.lo.dd /\ x.lo.eop /\ x.hi # "address"
    BY <2>1, <2>3 DEF RxDesc
  <2> QED
    BY <2>2, <2>3, <2>4
<1>7. /\ rx_desc' \in [RxIndex -> RxDesc] /\ rx_desc'[i] = done
      /\ \A j \in RxIndex : j # i => rx_desc'[j] = rx_desc[j]
  BY <1>1, <1>2, <1>5, <1>6, Types
<1>8. /\ frame' \in [RxIndex -> Seq(RxIndex)] /\ frame'[i] = old
      /\ \A j \in RxIndex : j # i => frame'[j] = frame[j]
  BY <1>1, <1>2, <1>4, <1>5, Types
<1>9. DOMAIN filling' = DOMAIN filling \ {i} /\ \A j \in DOMAIN filling \ {i} : filling'[j] = filling[j]
  BY <1>1
<1>10. RxTypeOK'
  <2>1. irq' \in {"masked", "unmasked", "pending"}
    BY <1>1, <1>2 DEF RxTypeOK
  <2> QED
    BY <1>1, <1>2, <1>7, <1>8, <1>9, <2>1 DEF RxTypeOK
<1>11. Held' = Held
  BY <1>1 DEF Held
<1>12. RingInv'
  <2>1. \A j \in RxIndex \ Held : rx_desc'[j] = rx_desc[j]
    BY <1>5, <1>7
  <2> HIDE DEF Held
  <2> QED
    BY <1>1, <1>2, <1>11, <2>1 DEF RingInv, Age
<1>13. ReadInv'
  BY <1>1, <1>2, <1>5, <1>7, Types DEF ReadInv
<1>14. Chains(cur)' = Chains(cur)
  <2>1. ASSUME NEW c PROVE c \in Chains(cur)' <=> c \in Chains(cur)
    <3>1. c \in {filling[j] : j \in DOMAIN filling} <=> c \in {filling'[j] : j \in DOMAIN filling'} \/ c = old
      BY <1>4, <1>9
    <3>2. c \in {frame'[j] : j \in {k \in RxIndex : frame'[k] # << >>}} <=>
              c \in {frame[j] : j \in {k \in RxIndex : frame[k] # << >>}} \/ c = old
      BY <1>5, <1>8
    <3> QED
      BY <3>1, <3>2 DEF Chains
  <2> QED
    BY <2>1
<1>15. \A j : Examined(j)' <=> Examined(j)
  BY <1>1 DEF Examined, Age
<1>16. ASSUME NEW c \in Chains(cur) PROVE ChainOK(c)'
  <2>1. ChainOK(c)
    BY <1>3 DEF LinksInv
  <2>2. /\ \A k \in 1 .. Len(c) : c[k] \in RxIndex /\ c[k] \in Held /\ (k < Len(c) => k \in 1 .. Len(c) - 1)
    BY <1>2, <2>1, ChainIs
  <2>3. \A k \in 1 .. Len(c) : k < Len(c) => c[k] # i
    BY <1>5, <2>2
  <2>4. \A k \in 1 .. Len(c) : DistanceRx(c[k], nic_rdh') = Age(c[k]) + 0
    <3>1. nic_rdh \in RxIndex /\ nic_rdh' = nic_rdh
      BY <1>1, <1>2, Types
    <3>2. \A k \in 1 .. Len(c) : DistanceRx(c[k], nic_rdh) \in Nat
      BY <2>2, <3>1, DistanceIs
    <3>3. \A x \in Nat : x = x + 0
      OBVIOUS
    <3> QED
      BY <3>1, <3>2, <3>3 DEF Age
  <2>5. \A k \in 1 .. Len(c) :
            /\ c[k] \in Held'
            /\ DistanceRx(c[k], nic_rdh') = Age(c[k]) + 0
            /\ Examined(c[k])' <=> Examined(c[k])
            /\ rx_buffers'[c[k]] = rx_buffers[c[k]]
            /\ k < Len(c) => rx_desc'[c[k]] = rx_desc[c[k]]
    BY <1>1, <1>7, <1>11, <1>15, <2>2, <2>3, <2>4
  <2>6. PICK e \in {0, 1} : e = 0
    OBVIOUS
  <2> QED
    BY <1>2, <2>1, <2>5, <2>6, ChainKept
<1>17. LinksInv(cur)'
  <2>1. \A c \in Chains(cur)' : ChainOK(c)'
    BY <1>14, <1>16
  <2>2. \A c, d \in Chains(cur)' : \A k \in 1 .. Len(c), l \in 1 .. Len(d) : c[k] = d[l] => c = d
    BY <1>3, <1>14 DEF LinksInv
  <2>3. \A j \in Held' : \E c \in Chains(cur)' : \E k \in 1 .. Len(c) : c[k] = j
    BY <1>3, <1>11, <1>14 DEF LinksInv
  <2>4. \A j \in DOMAIN filling' : /\ End(filling'[j]) = j /\ rx_desc'[j] = NewDesc /\ ~ Examined(j)'
    <3> SUFFICES ASSUME NEW j \in DOMAIN filling, j # i
                 PROVE  End(filling'[j]) = j /\ rx_desc'[j] = NewDesc /\ ~ Examined(j)'
      BY <1>9
    <3>1. j \in RxIndex /\ End(filling[j]) = j /\ rx_desc[j] = NewDesc /\ ~ Examined(j)
      BY <1>2, <1>3, FillingApart
    <3> QED
      BY <1>7, <1>9, <1>15, <3>1
  <2>5. ASSUME NEW j \in RxIndex, frame'[j] # << >>
        PROVE  /\ End(frame'[j]) = j
               /\ rx_desc'[j].lo.dd /\ rx_desc'[j].lo.eop /\ rx_desc'[j].hi # "address"
               /\ Examined(j)' => cur = frame'[j]
    <3>1. CASE j = i
      BY <1>5, <1>6, <1>7, <1>8, <1>15, <3>1
    <3>2. CASE j # i
      <4>1. frame'[j] = frame[j] /\ rx_desc'[j] = rx_desc[j]
        BY <1>7, <1>8, <3>2
      <4> QED
        BY <1>3, <1>15, <2>5, <4>1 DEF LinksInv
    <3> QED
      BY <3>1, <3>2
  <2>6. /\ IF rx_pc \in {"switch", "recycle"}
             THEN cur # << >> /\ last = End(cur) /\ \A k \in 1 .. Len(cur) : Examined(cur[k])'
             ELSE cur = << >>
        /\ rx_pc = "switch" => cur = frame'[last]
    <3>1. rx_pc \in {"switch", "recycle"} => last # i
      <4> SUFFICES ASSUME rx_pc \in {"switch", "recycle"} PROVE last # i
        OBVIOUS
      <4>1. cur # << >> /\ last = End(cur) /\ \A k \in 1 .. Len(cur) : Examined(cur[k])
        BY <1>3 DEF LinksInv
      <4>2. Len(cur) \in 1 .. Len(cur)
        BY <4>1, EmptySeq
      <4> QED
        BY <1>5, <4>1, <4>2 DEF End
    <3>2. last \in RxIndex
      BY <1>2, Types
    <3> QED
      BY <1>3, <1>8, <1>15, <3>1, <3>2 DEF LinksInv
  <2> HIDE DEF End
  <2> QED
    BY <1>1, <2>1, <2>2, <2>3, <2>4, <2>5, <2>6 DEF LinksInv
<1> QED
  BY <1>10, <1>12, <1>13, <1>17 DEF IInv

-----------------------------------------------------------------------------
(* poll examines a buffer *)

\* The buffer poll has found done is the k-th of chain c.
Found(c, k) ==
    /\ c \in Chains(<< >>) /\ k \in 1 .. Len(c) /\ c[k] = rdh
    /\ rx_buffers[rdh].rsc_number = k - 1
    /\ IF k = 1 THEN Plain(rx_buffers[rdh]) ELSE Linked(rx_buffers[rdh], c[k - 1], k - 1)
    /\ rx_desc[rdh].hi # "address"
    /\ IF rx_desc[rdh].lo.eop
         THEN k = Len(c) /\ c = frame[rdh] /\ frame[rdh] # << >>
         ELSE k < Len(c) /\ rx_desc[rdh].lo.nextp = c[k + 1] /\ rx_desc[rdh].hi = "large"

LEMMA FoundIs ==
    ASSUME RxTypeOK, RingInv, LinksInv(<< >>), rx_desc[rdh].lo.dd
    PROVE  /\ \E c \in Seq(RxIndex), k \in Nat : Found(c, k)
           /\ rdh \in RxIndex /\ rdh \in Held /\ rdh # nic_rdh /\ rdh \notin DOMAIN filling
<1>1. rdh \in RxIndex
  BY Types
<1>2. rdh \in Held
  <2>1. rx_desc[rdh] # NewDesc
    BY DEF NewDesc, ZeroLo
  <2> QED
    BY <1>1, <2>1 DEF RingInv
<1>3. rdh # nic_rdh
  BY <1>1, <1>2, DistanceIs DEF RingInv, Age
<1>4. rdh \notin DOMAIN filling
  BY FillingApart
<1>5. PICK c \in Chains(<< >>) : \E k \in 1 .. Len(c) : c[k] = rdh
  BY <1>2 DEF LinksInv
<1>6. PICK k \in 1 .. Len(c) : c[k] = rdh
  BY <1>5
<1>7. ChainOK(c)
  BY DEF LinksInv
<1>8. /\ Len(c) \in Nat /\ k \in Nat /\ k >= 1 /\ k <= Len(c) /\ c \in Seq(RxIndex)
      /\ \A j \in 1 .. Len(c) : c[j] \in RxIndex
      /\ End(c) = c[Len(c)]
  BY <1>7, ChainIs
<1>9. /\ rx_buffers[rdh].rsc_number = k - 1
      /\ IF k = 1 THEN Plain(rx_buffers[rdh]) ELSE Linked(rx_buffers[rdh], c[k - 1], k - 1)
  <2>1. CASE k = 1
    BY <1>6, <1>7, <2>1 DEF ChainOK, Plain
  <2>2. CASE k # 1
    <3>1. PICK j \in 1 .. Len(c) - 1 : j = k - 1 /\ j + 1 = k /\ j \in 1 .. Len(c) /\ j < k
      BY <1>8, <2>2
    <3>2. Age(c[j]) > Age(rdh)
      BY <1>6, <1>7, <3>1 DEF ChainOK
    <3>3. Linked(rx_buffers[rdh], c[j], j)
      BY <1>6, <1>7, <3>1, <3>2 DEF ChainOK, Examined
    <3> QED
      BY <2>2, <3>1, <3>3 DEF Linked
  <2> QED
    BY <2>1, <2>2
<1>10. CASE k < Len(c)
  <2>1. k \in 1 .. Len(c) - 1
    BY <1>8, <1>10
  <2>2. rx_desc[rdh] = [hi |-> "large", lo |-> [dd |-> TRUE, eop |-> FALSE, nextp |-> c[k + 1]]]
    BY <1>6, <1>7, <2>1 DEF ChainOK
  <2>3. Found(c, k)
    BY <1>6, <1>9, <1>10, <2>2 DEF Found
  <2> QED
    BY <1>1, <1>2, <1>3, <1>4, <1>8, <2>3
<1>11. CASE k = Len(c)
  <2>1. c \notin {filling[i] : i \in DOMAIN filling}
    BY <1>4, <1>6, <1>8, <1>11 DEF LinksInv
  <2>2. PICK i \in RxIndex : c = frame[i] /\ frame[i] # << >>
    BY <2>1 DEF Chains
  <2>3. End(frame[i]) = i /\ rx_desc[i].lo.eop /\ rx_desc[i].hi # "address"
    BY <2>2 DEF LinksInv
  <2>4. i = rdh
    BY <1>6, <1>8, <1>11, <2>2, <2>3
  <2>5. Found(c, k)
    BY <1>6, <1>9, <1>11, <2>2, <2>3, <2>4 DEF Found
  <2> QED
    BY <1>1, <1>2, <1>3, <1>4, <1>8, <2>5
<1> QED
  BY <1>8, <1>10, <1>11

\* The head moves on by one, and no buffer moves.
LEMMA HeadStep ==
    ASSUME RxTypeOK, RingInv, rdh \in Held, rdh # nic_rdh,
           rdh' = AdvanceRx(rdh), UNCHANGED <<rdt, RDT0, nic_rdh, rx_desc>>,
           \A i \in RxIndex : rx_buffers'[i].buffer = rx_buffers[i].buffer,
           \A i \in RxIndex \ Held : rx_buffers'[i] = rx_buffers[i]
    PROVE  /\ Held' = Held /\ RingInv'
           /\ \A i \in RxIndex : \A h : h = rdh => (Examined(i)' <=> Examined(i) \/ i = h)
<1>1. rdh \in RxIndex /\ nic_rdh \in RxIndex
  BY Types
<1>2. Held' = Held
  BY DEF Held
<1>3. /\ DistanceRx(rdh', nic_rdh) = Age(rdh) - 1 /\ Age(rdh) \in Nat
      /\ \A i \in RxIndex : Age(i) \in Nat
  BY <1>1, NearEnd, DistanceIs DEF Age
<1>4. RingInv'
  <2>1. {i \in RxIndex : rx_buffers'[i].buffer} = {i \in RxIndex : rx_buffers[i].buffer}
    OBVIOUS
  <2>2. ASSUME NEW i \in RxIndex, Age(i) > 0, Age(i) <= DistanceRx(rdh', nic_rdh) PROVE i \in Held
    <3>1. Age(i) <= Age(rdh)
      BY <1>3, <2>2
    <3> QED
      BY <2>2, <3>1 DEF RingInv
  <2> HIDE DEF Held
  <2> QED
    BY <1>2, <2>1, <2>2 DEF RingInv, Age
<1>5. ASSUME NEW i \in RxIndex, NEW h, h = rdh PROVE Examined(i)' <=> Examined(i) \/ i = h
  <2>1. Examined(i)' <=> Age(i) > Age(rdh) - 1
    BY <1>3 DEF Examined, Age
  <2>2. Age(i) = Age(rdh) <=> i = h
    BY <1>1, <1>5, SameAge DEF Age
  <2> QED
    BY <1>3, <2>1, <2>2 DEF Examined
<1> QED
  BY <1>2, <1>4, <1>5

\* A descriptor that is done, but not the last of its frame: the backward link of
\* the next one is noted.
LEMMA LinkStep ==
    ASSUME IInv, RxTypeOK', NEW c, NEW k \in Nat, Found(c, k), LinksInv(<< >>),
           rx_pc = "examine", rx_pc' = "scan",
           rx_desc[rdh].lo.dd, ~ rx_desc[rdh].lo.eop,
           rdh' = AdvanceRx(rdh), UNCHANGED <<rdt, RDT0, nic_rdh, rx_desc, filling, frame, last>>,
           rx_buffers' = [rx_buffers EXCEPT
                             ![rdh].rsc = TRUE,
                             ![c[k + 1]] = [@ EXCEPT !.not_first = TRUE, !.rsc = TRUE,
                                                     !.rsc_last = rdh, !.rsc_number = k]]
    PROVE  IInv'
<1>1. RxTypeOK /\ RingInv
  BY DEF IInv
<1>2. rdh \in RxIndex /\ rdh \in Held /\ rdh # nic_rdh /\ rdh \notin DOMAIN filling
  BY <1>1, FoundIs
<1>3. PICK h \in RxIndex : h = rdh
  BY <1>2
<1>4. c \in Chains(<< >>) /\ ChainOK(c) /\ k \in 1 .. Len(c) /\ k < Len(c) /\ c[k] = h
  BY <1>3 DEF Found, LinksInv
<1>5. /\ Len(c) \in Nat /\ \A j \in 1 .. Len(c) : c[j] \in RxIndex /\ c[j] \in Held
      /\ \A j \in 1 .. Len(c) - 1 : j \in 1 .. Len(c) /\ j + 1 \in 1 .. Len(c)
      /\ \A j, l \in 1 .. Len(c) : c[j] = c[l] => j = l
      /\ 1 \in 1 .. Len(c) /\ c # << >> /\ c \in Seq(RxIndex)
  BY <1>1, <1>4, ChainIs DEF ChainOK
<1>6. k \in 1 .. Len(c) - 1 /\ k + 1 \in 1 .. Len(c) /\ k + 1 # k
  BY <1>4, <1>5
<1>7. PICK n \in RxIndex : n = c[k + 1] /\ n # h /\ n \in Held
  BY <1>4, <1>5, <1>6
<1>8. rx_buffers \in [RxIndex -> RxInfo]
  BY <1>1, Types
<1>9. /\ rx_buffers'[n] = [rx_buffers[n] EXCEPT !.not_first = TRUE, !.rsc = TRUE,
                                                !.rsc_last = h, !.rsc_number = k]
      /\ rx_buffers'[h] = [rx_buffers[h] EXCEPT !.rsc = TRUE]
      /\ \A i \in RxIndex : i # h /\ i # n => rx_buffers'[i] = rx_buffers[i]
  BY <1>3, <1>7, <1>8
<1>10. rx_buffers[n] \in RxInfo /\ rx_buffers[h] \in RxInfo
  BY <1>8
<1>11. /\ Linked(rx_buffers'[n], h, k) /\ rx_buffers'[n].buffer = rx_buffers[n].buffer
       /\ rx_buffers'[h].buffer = rx_buffers[h].buffer
       /\ Plain(rx_buffers[h]) => Plain(rx_buffers'[h])
       /\ \A b, j : Linked(rx_buffers[h], b, j) => Linked(rx_buffers'[h], b, j)
  <2>1. PICK x \in RxInfo : x = rx_buffers[n]
    BY <1>10
  <2>2. PICK y \in RxInfo : y = rx_buffers[h]
    BY <1>10
  <2>3. PICK u : u = [x EXCEPT !.not_first = TRUE, !.rsc = TRUE, !.rsc_last = h, !.rsc_number = k]
    OBVIOUS
  <2>4. PICK v : v = [y EXCEPT !.rsc = TRUE]
    OBVIOUS
  <2>5. /\ u.not_first = TRUE /\ u.rsc = TRUE /\ u.rsc_last = h /\ u.rsc_number = k
        /\ u.buffer = x.buffer
    BY <2>3 DEF RxInfo
  <2>6. /\ v.not_first = y.not_first /\ v.rsc = TRUE /\ v.rsc_last = y.rsc_last
        /\ v.rsc_number = y.rsc_number /\ v.buffer = y.buffer
    BY <2>4 DEF RxInfo
  <2>7. rx_buffers'[n] = u /\ rx_buffers'[h] = v
    BY <1>9, <2>1, <2>2, <2>3, <2>4
  <2> QED
    BY <2>1, <2>2, <2>5, <2>6, <2>7 DEF Linked, Plain
<1>12. /\ \A i \in RxIndex : rx_buffers'[i].buffer = rx_buffers[i].buffer
       /\ \A i \in RxIndex \ Held : rx_buffers'[i] = rx_buffers[i]
  BY <1>2, <1>3, <1>7, <1>9, <1>11
<1>13. /\ Held' = Held /\ RingInv'
       /\ \A i \in RxIndex : Examined(i)' <=> Examined(i) \/ i = h
  BY <1>1, <1>2, <1>3, <1>12, HeadStep
<1>14. ReadInv'
  BY DEF ReadInv
<1>15. Chains(<< >>)' = Chains(<< >>)
  BY DEF Chains
<1>16. ASSUME NEW b \in Chains(<< >>), b # c PROVE ChainOK(b)'
  <2>1. ChainOK(b)
    BY DEF LinksInv
  <2>2. \A j \in 1 .. Len(b) : b[j] \in RxIndex /\ b[j] \in Held /\ b[j] # h /\ b[j] # n
    <3>1. \A j \in 1 .. Len(b), l \in 1 .. Len(c) : b[j] # c[l]
      BY <1>4, <1>16 DEF LinksInv
    <3> QED
      BY <1>1, <1>4, <1>6, <1>7, <2>1, <3>1, ChainIs
  <2>3. \A j \in 1 .. Len(b) : DistanceRx(b[j], nic_rdh') = Age(b[j]) + 0
    <3>1. nic_rdh \in RxIndex /\ nic_rdh' = nic_rdh
      BY <1>1, Types
    <3>2. \A j \in 1 .. Len(b) : DistanceRx(b[j], nic_rdh) \in Nat
      BY <2>2, <3>1, DistanceIs
    <3>3. \A x \in Nat : x = x + 0
      OBVIOUS
    <3> QED
      BY <3>1, <3>2, <3>3 DEF Age
  <2>4. \A j \in 1 .. Len(b) :
            /\ b[j] \in Held'
            /\ DistanceRx(b[j], nic_rdh') = Age(b[j]) + 0
            /\ Examined(b[j])' <=> Examined(b[j])
            /\ rx_buffers'[b[j]] = rx_buffers[b[j]]
            /\ j < Len(b) => rx_desc'[b[j]] = rx_desc[b[j]]
    BY <1>9, <1>13, <2>2, <2>3
  <2>5. PICK e \in {0, 1} : e = 0
    OBVIOUS
  <2> QED
    BY <1>1, <2>1, <2>4, <2>5, ChainKept
<1>17. ChainOK(c)'
  <2>1. Plain(rx_buffers'[c[1]])
    <3>1. Plain(rx_buffers[c[1]])
      BY <1>4 DEF ChainOK
    <3>2. c[1] # n
      <4>1. k + 1 # 1
        BY <1>6
      <4> QED
        BY <1>5, <1>6, <1>7, <4>1
    <3> QED
      BY <1>5, <1>9, <1>11, <3>1, <3>2
  <2>2. ASSUME NEW j \in 1 .. Len(c) - 1
        PROVE  /\ rx_desc'[c[j]] = [hi |-> "large", lo |-> [dd |-> TRUE, eop |-> FALSE, nextp |-> c[j + 1]]]
               /\ IF Examined(c[j])' THEN Linked(rx_buffers'[c[j + 1]], c[j], j)
                                     ELSE Plain(rx_buffers'[c[j + 1]])
    <3>1. /\ rx_desc[c[j]] = [hi |-> "large", lo |-> [dd |-> TRUE, eop |-> FALSE, nextp |-> c[j + 1]]]
          /\ IF Examined(c[j]) THEN Linked(rx_buffers[c[j + 1]], c[j], j)
                               ELSE Plain(rx_buffers[c[j + 1]])
      BY <1>4 DEF ChainOK
    <3>2. CASE j = k
      BY <1>4, <1>5, <1>7, <1>11, <1>13, <3>1, <3>2
    <3>3. CASE j # k
      <4>1. c[j] # h /\ j + 1 # k + 1
        BY <1>4, <1>5, <3>3
      <4>2. c[j + 1] # n /\ c[j + 1] \in RxIndex /\ c[j] \in RxIndex
        BY <1>5, <1>6, <1>7, <4>1
      <4>3. Examined(c[j])' <=> Examined(c[j])
        BY <1>13, <4>1, <4>2
      <4> QED
        BY <1>9, <1>11, <3>1, <4>2, <4>3
    <3> QED
      BY <3>2, <3>3
  <2>3. \A j, l \in 1 .. Len(c) : j < l => DistanceRx(c[j], nic_rdh') > DistanceRx(c[l], nic_rdh')
    BY <1>4 DEF ChainOK, Age
  <2> HIDE DEF Held
  <2> QED
    BY <1>5, <1>13, <2>1, <2>2, <2>3 DEF ChainOK, Age, Plain, Linked
<1>18. LinksInv(<< >>)'
  <2>1. \A b \in Chains(<< >>)' : ChainOK(b)'
    BY <1>15, <1>16, <1>17
  <2>2. \A i \in DOMAIN filling : i # h /\ i \in RxIndex
    BY <1>1, <1>2, <1>3, Types
  <2>3. \A i \in RxIndex : frame[i] # << >> => i # h
    BY <1>3 DEF LinksInv
  <2> HIDE DEF End
  <2> QED
    BY <1>13, <1>15, <2>1, <2>2, <2>3 DEF LinksInv
<1>19. << >> \in Seq(RxIndex)
  OBVIOUS
<1> QED
  BY <1>13, <1>14, <1>18, <1>19 DEF IInv

\* The last descriptor of a frame: its chain goes to the switch.
LEMMA LastStep ==
    ASSUME IInv, RxTypeOK', NEW c \in Seq(RxIndex), NEW k \in Nat, Found(c, k), LinksInv(<< >>),
           NEW large \in BOOLEAN,
           rx_buffers[rdh].not_first => large = rx_buffers[rdh].rsc,
           rx_pc = "examine", rx_pc' = "switch",
           rx_desc[rdh].lo.dd, rx_desc[rdh].lo.eop,
           rdh' = AdvanceRx(rdh), UNCHANGED <<rdt, RDT0, nic_rdh, rx_desc, filling, frame>>,
           last' = rdh, rx_buffers' = [rx_buffers EXCEPT ![rdh].rsc = large]
    PROVE  IInv'
<1>1. RxTypeOK /\ RingInv
  BY DEF IInv
<1>2. rdh \in RxIndex /\ rdh \in Held /\ rdh # nic_rdh /\ rdh \notin DOMAIN filling
  BY <1>1, FoundIs
<1>3. PICK h \in RxIndex : h = rdh
  BY <1>2
<1>4. /\ c \in Chains(<< >>) /\ ChainOK(c) /\ k \in 1 .. Len(c) /\ k = Len(c) /\ c[k] = h
      /\ c = frame[h] /\ frame[h] # << >>
  BY <1>3 DEF Found, LinksInv
<1>5. /\ Len(c) \in Nat /\ \A j \in 1 .. Len(c) : c[j] \in RxIndex /\ c[j] \in Held
      /\ c # << >> /\ End(c) = h
  BY <1>1, <1>4, ChainIs DEF ChainOK, End
<1>6. rx_buffers \in [RxIndex -> RxInfo]
  BY <1>1, Types
<1>7. PICK y \in RxInfo : y = rx_buffers[h]
  BY <1>6
<1>8. PICK v : v = [y EXCEPT !.rsc = large]
  OBVIOUS
<1>9. /\ v.not_first = y.not_first /\ v.rsc = large /\ v.rsc_last = y.rsc_last
      /\ v.rsc_number = y.rsc_number /\ v.buffer = y.buffer
  BY <1>8 DEF RxInfo
<1>10. rx_buffers'[h] = v /\ \A i \in RxIndex : i # h => rx_buffers'[i] = rx_buffers[i]
  BY <1>3, <1>6, <1>7, <1>8
<1>11. /\ Plain(rx_buffers[h]) => Plain(rx_buffers'[h])
       /\ \A b, j : Linked(rx_buffers[h], b, j) => Linked(rx_buffers'[h], b, j)
  BY <1>3, <1>7, <1>9, <1>10 DEF Linked, Plain
<1>12. /\ \A i \in RxIndex : rx_buffers'[i].buffer = rx_buffers[i].buffer
       /\ \A i \in RxIndex \ Held : rx_buffers'[i] = rx_buffers[i]
  BY <1>2, <1>3, <1>7, <1>9, <1>10
<1>13. /\ Held' = Held /\ RingInv'
       /\ \A i \in RxIndex : Examined(i)' <=> Examined(i) \/ i = h
  BY <1>1, <1>2, <1>3, <1>12, HeadStep
<1>14. ReadInv'
  BY DEF ReadInv
<1>15. Chains(c)' = Chains(<< >>)
  BY <1>4, <1>5 DEF Chains
<1>16. ASSUME NEW b \in Chains(<< >>) PROVE ChainOK(b)'
  <2>1. ChainOK(b)
    BY DEF LinksInv
  <2>2. /\ b \in Seq(RxIndex) /\ b # << >> /\ Len(b) \in Nat /\ 1 \in 1 .. Len(b)
        /\ \A j \in 1 .. Len(b) : b[j] \in RxIndex /\ b[j] \in Held
        /\ \A j \in 1 .. Len(b) - 1 : j \in 1 .. Len(b) /\ j + 1 \in 1 .. Len(b) /\ j # Len(b)
        /\ \A j, l \in 1 .. Len(b) : b[j] = b[l] => j = l
    BY <1>1, <2>1, ChainIs DEF ChainOK
  <2>3. \A j \in 1 .. Len(b) - 1 : b[j] # h
    <3> SUFFICES ASSUME NEW j \in 1 .. Len(b) - 1, b[j] = h PROVE FALSE
      OBVIOUS
    <3>1. j \in 1 .. Len(b) /\ j # Len(b)
      BY <2>2
    <3>2. b = c
      BY <1>4, <3>1 DEF LinksInv
    <3>3. Len(b) \in 1 .. Len(b) /\ b[Len(b)] = h
      BY <1>4, <3>2
    <3> QED
      BY <2>2, <3>1, <3>3
  <2>4. Plain(rx_buffers'[b[1]])
    BY <1>10, <1>11, <2>1, <2>2 DEF ChainOK
  <2>5. ASSUME NEW j \in 1 .. Len(b) - 1
        PROVE  /\ rx_desc'[b[j]] = [hi |-> "large", lo |-> [dd |-> TRUE, eop |-> FALSE, nextp |-> b[j + 1]]]
               /\ IF Examined(b[j])' THEN Linked(rx_buffers'[b[j + 1]], b[j], j)
                                     ELSE Plain(rx_buffers'[b[j + 1]])
    <3>1. /\ rx_desc[b[j]] = [hi |-> "large", lo |-> [dd |-> TRUE, eop |-> FALSE, nextp |-> b[j + 1]]]
          /\ IF Examined(b[j]) THEN Linked(rx_buffers[b[j + 1]], b[j], j)
                               ELSE Plain(rx_buffers[b[j + 1]])
      BY <2>1 DEF ChainOK
    <3>2. Examined(b[j])' <=> Examined(b[j])
      BY <1>13, <2>2, <2>3
    <3> QED
      BY <1>10, <1>11, <2>2, <3>1, <3>2
  <2>6. \A j, l \in 1 .. Len(b) : j < l => DistanceRx(b[j], nic_rdh') > DistanceRx(b[l], nic_rdh')
    BY <2>1 DEF ChainOK, Age
  <2> HIDE DEF Held
  <2> QED
    BY <1>13, <2>2, <2>4, <2>5, <2>6 DEF ChainOK, Age, Plain, Linked
<1>17. \A j \in 1 .. Len(c) : Examined(c[j])'
  <2> SUFFICES ASSUME NEW j \in 1 .. Len(c) PROVE Examined(c[j])'
    OBVIOUS
  <2>1. CASE j = k
    BY <1>4, <1>13, <2>1
  <2>2. CASE j # k
    <3>1. j < k
      BY <1>4, <1>5, <2>2
    <3>2. Age(c[j]) > Age(h)
      BY <1>4, <3>1 DEF ChainOK
    <3>3. Examined(c[j])
      BY <1>3, <3>2 DEF Examined
    <3> QED
      BY <1>5, <1>13, <3>3
  <2> QED
    BY <2>1, <2>2
<1>18. LinksInv(c)'
  <2>1. \A b \in Chains(c)' : ChainOK(b)'
    BY <1>15, <1>16
  <2>2. \A i \in DOMAIN filling : i # h /\ i \in RxIndex
    BY <1>1, <1>2, <1>3, Types
  <2>3. \A i \in DOMAIN filling : End(filling[i]) = i /\ rx_desc[i] = NewDesc /\ ~ Examined(i)'
    BY <1>13, <2>2 DEF LinksInv
  <2>4. ASSUME NEW i \in RxIndex, frame[i] # << >>
        PROVE  /\ End(frame[i]) = i
               /\ rx_desc[i].lo.dd /\ rx_desc[i].lo.eop /\ rx_desc[i].hi # "address"
               /\ Examined(i)' => c = frame[i]
    BY <1>4, <1>13, <2>4 DEF LinksInv
  <2>5. \A a, b \in Chains(c)' : \A p \in 1 .. Len(a), q \in 1 .. Len(b) : a[p] = b[q] => a = b
    BY <1>15 DEF LinksInv
  <2>6. \A i \in Held' : \E b \in Chains(c)' : \E p \in 1 .. Len(b) : b[p] = i
    BY <1>13, <1>15 DEF LinksInv
  <2>7. last' = End(c) /\ c = frame[last']
    BY <1>3, <1>4, <1>5
  <2> HIDE DEF End
  <2> QED
    BY <1>5, <1>17, <2>1, <2>3, <2>4, <2>5, <2>6, <2>7 DEF LinksInv
<1> QED
  BY <1>13, <1>14, <1>18 DEF IInv

LEMMA ExamineStep == ASSUME IInv, Examine PROVE IInv'
<1>1. /\ rx_pc = "examine" /\ rx' = NewDesc
      /\ UNCHANGED <<rdt, RDT0, irq, event, nic_rdh, filling, rx_desc, frame>>
  BY DEF Examine, irqVars, nicVars
<1>2. RxTypeOK /\ RingInv /\ ReadInv
  BY DEF IInv
<1>3. PICK cur \in Seq(RxIndex) : LinksInv(cur)
  BY DEF IInv
<1>4. LinksInv(<< >>)
  BY <1>1, <1>3 DEF LinksInv
<1>5. rdh \in RxIndex /\ rx_desc[rdh] \in RxDesc /\ rx \in RxDesc
  BY <1>2, Types DEF RxTypeOK
<1>6. PICK d : d = [rx_desc[rdh] EXCEPT ![FirstHalf] = rx[FirstHalf]]
  OBVIOUS
<1>7. d.hi = rx_desc[rdh].hi /\ d.lo = rx.lo
  BY <1>5, <1>6 DEF FirstHalf, RxDesc
<1>8. PICK this \in RxInfo : this = rx_buffers[rdh]
  BY <1>2, <1>5, Types
<1>9. NewDesc \in RxDesc
  BY RxSizes DEF NewDesc, RxDesc, ZeroLo, RxIndex
<1>10. CASE ~ d.lo.dd
  <2>1. /\ rx_pc' \in {"idle", "asleep"} /\ armed' = FALSE
        /\ UNCHANGED <<rx_buffers, rdh, last>>
    BY <1>6, <1>10 DEF Examine, Nothing
  <2>2. RxTypeOK'
    BY <1>1, <1>2, <1>9, <2>1 DEF RxTypeOK
  <2>3. ReadInv'
    BY <2>1 DEF ReadInv
  <2> QED
    BY <1>1, <2>1, <2>2, <2>3, CalmStep
<1>11. CASE d.lo.dd
  <2>1. rx_desc[rdh].lo = rx.lo /\ rx_desc[rdh].lo.dd
    BY <1>1, <1>2, <1>7, <1>11 DEF ReadInv
  <2>2. PICK c \in Seq(RxIndex), k \in Nat : Found(c, k)
    BY <1>2, <1>4, <2>1, FoundIs
  <2>3. /\ rdh' = AdvanceRx(rdh) /\ rdh' \in RxIndex
        /\ \E large \in Large(this, d.hi) :
               IF d.lo.eop
                 THEN /\ rx_buffers' = [rx_buffers EXCEPT ![rdh].rsc = large]
                      /\ last' = rdh /\ rx_pc' = "switch" /\ armed' = FALSE
                 ELSE /\ rx_buffers' = [rx_buffers EXCEPT
                                ![rdh].rsc = large,
                                ![NextBuffer(large, d.lo.nextp)] =
                                    [@ EXCEPT !.not_first  = TRUE,
                                              !.rsc        = large,
                                              !.rsc_last   = rdh,
                                              !.rsc_number = this.rsc_number + 1]]
                      /\ rx_pc' = "scan" /\ UNCHANGED <<last, armed>>
    BY <1>5, <1>6, <1>8, <1>11, AdvanceIs DEF Examine
  <2>4. PICK large \in Large(this, d.hi) :
               IF d.lo.eop
                 THEN /\ rx_buffers' = [rx_buffers EXCEPT ![rdh].rsc = large]
                      /\ last' = rdh /\ rx_pc' = "switch" /\ armed' = FALSE
                 ELSE /\ rx_buffers' = [rx_buffers EXCEPT
                                ![rdh].rsc = large,
                                ![NextBuffer(large, d.lo.nextp)] =
                                    [@ EXCEPT !.not_first  = TRUE,
                                              !.rsc        = large,
                                              !.rsc_last   = rdh,
                                              !.rsc_number = this.rsc_number + 1]]
                      /\ rx_pc' = "scan" /\ UNCHANGED <<last, armed>>
    BY <2>3
  <2>5. d.hi # "address" /\ this.rsc_number = k - 1
    BY <1>7, <1>8, <2>2 DEF Found
  <2>6. /\ large \in BOOLEAN /\ (this.not_first => large = this.rsc)
        /\ ~ this.not_first => large = (d.hi = "large")
    <3>1. CASE this.not_first
      <4>1. this.rsc \in BOOLEAN
        BY DEF RxInfo
      <4>2. Large(this, d.hi) = {this.rsc}
        BY <2>5, <3>1 DEF Large
      <4>3. large = this.rsc
        BY <2>4, <4>2
      <4> QED
        BY <3>1, <4>1, <4>3
    <3>2. CASE ~ this.not_first
      BY <2>4, <2>5, <3>2 DEF Large
    <3> QED
      BY <3>1, <3>2
  <2>7. CASE d.lo.eop
    <3>1. /\ rx_buffers' = [rx_buffers EXCEPT ![rdh].rsc = large]
          /\ last' = rdh /\ rx_pc' = "switch" /\ armed' = FALSE
      BY <2>4, <2>7
    <3>2. rx_buffers' \in [RxIndex -> RxInfo]
      <4>1. [this EXCEPT !.rsc = large] \in RxInfo
        BY <2>6 DEF RxInfo
      <4> QED
        BY <1>2, <1>5, <1>8, <3>1, <4>1, Types
    <3>3. RxTypeOK'
      BY <1>1, <1>2, <1>5, <1>9, <2>3, <3>1, <3>2 DEF RxTypeOK
    <3>4. rx_desc[rdh].lo.eop
      BY <1>7, <2>1, <2>7
    <3> QED
      BY <1>1, <1>4, <1>8, <2>1, <2>2, <2>3, <2>6, <3>1, <3>3, <3>4, LastStep
  <2>8. CASE ~ d.lo.eop
    <3>1. ~ rx_desc[rdh].lo.eop
      BY <1>7, <2>1, <2>8
    <3>2. d.lo.nextp = c[k + 1] /\ d.hi = "large" /\ k < Len(c) /\ k \in 1 .. Len(c)
      BY <1>7, <2>1, <2>2, <3>1 DEF Found
    <3>3. large = TRUE
      <4>1. this.not_first => this.rsc
        BY <1>8, <2>2 DEF Found, Plain, Linked
      <4> QED
        BY <1>8, <2>6, <3>2, <4>1 DEF RxInfo
    <3>4. /\ rx_buffers' = [rx_buffers EXCEPT
                             ![rdh].rsc = TRUE,
                             ![c[k + 1]] = [@ EXCEPT !.not_first = TRUE, !.rsc = TRUE,
                                                     !.rsc_last = rdh, !.rsc_number = k]]
          /\ rx_pc' = "scan" /\ UNCHANGED <<last, armed>>
      <4>1. this.rsc_number + 1 = k
        BY <2>5, <3>2
      <4>2. NextBuffer(large, d.lo.nextp) = c[k + 1]
        BY <3>2, <3>3 DEF NextBuffer
      <4>3. /\ rx_buffers' = [rx_buffers EXCEPT
                                ![rdh].rsc = large,
                                ![NextBuffer(large, d.lo.nextp)] =
                                    [@ EXCEPT !.not_first  = TRUE,
                                              !.rsc        = large,
                                              !.rsc_last   = rdh,
                                              !.rsc_number = this.rsc_number + 1]]
            /\ rx_pc' = "scan" /\ UNCHANGED <<last, armed>>
        BY <2>4, <2>8
      <4> QED
        BY <3>3, <4>1, <4>2, <4>3
    <3>5. rx_buffers' \in [RxIndex -> RxInfo]
      <4>1. c[k + 1] \in RxIndex
        BY <2>2, <3>2
      <4>2. \A x \in RxInfo : /\ [x EXCEPT !.rsc = TRUE] \in RxInfo
                              /\ [x EXCEPT !.not_first = TRUE, !.rsc = TRUE,
                                           !.rsc_last = rdh, !.rsc_number = k] \in RxInfo
        BY <1>5, <2>2 DEF RxInfo
      <4>3. PICK mid \in [RxIndex -> RxInfo] : mid = [rx_buffers EXCEPT ![rdh].rsc = TRUE]
        <5>1. [rx_buffers[rdh] EXCEPT !.rsc = TRUE] \in RxInfo
          BY <1>8, <4>2
        <5> QED
          BY <1>2, <5>1, Types
      <4>4. rx_buffers' = [mid EXCEPT ![c[k + 1]] = [@ EXCEPT !.not_first = TRUE, !.rsc = TRUE,
                                                              !.rsc_last = rdh, !.rsc_number = k]]
        BY <3>4, <4>3
      <4>5. [mid[c[k + 1]] EXCEPT !.not_first = TRUE, !.rsc = TRUE,
                                  !.rsc_last = rdh, !.rsc_number = k] \in RxInfo
        BY <4>1, <4>2, <4>3
      <4> QED
        BY <4>4, <4>5
    <3>6. RxTypeOK'
      BY <1>1, <1>2, <1>9, <2>3, <3>4, <3>5 DEF RxTypeOK
    <3> QED
      BY <1>1, <1>4, <2>1, <2>2, <2>3, <3>1, <3>4, <3>6, LinkStep
  <2> QED
    BY <2>7, <2>8
<1> QED
  BY <1>10, <1>11

-----------------------------------------------------------------------------
(* A buffer goes back to the tail of the ring *)

LEMMA ZeroStays == [ZeroInfo EXCEPT !.buffer = FALSE] = ZeroInfo
<1>1. ZeroInfo.buffer = FALSE /\ ZeroInfo = [x \in DOMAIN ZeroInfo |-> ZeroInfo[x]]
  BY DEF ZeroInfo
<1>2. DOMAIN [ZeroInfo EXCEPT !.buffer = FALSE] = DOMAIN ZeroInfo
  OBVIOUS
<1> QED
  BY <1>1, <1>2

\* While any buffer is held, there is room for it behind the tail.
LEMMA TailFree ==
    ASSUME RxTypeOK, RingInv, NEW l \in Held
    PROVE  /\ rdt \notin Span(nic_rdh, rdt)
           /\ rdt \in Held => rdt = l
           /\ rdt \notin Held => rx_buffers[rdt] = ZeroInfo
           /\ DistanceRx(nic_rdh, AdvanceRx(rdt)) = DistanceRx(nic_rdh, rdt) + 1
           /\ \A i \in RxIndex :
                  i \in Span(nic_rdh, AdvanceRx(rdt)) <=> i = rdt \/ i \in Span(nic_rdh, rdt)
<1>1. PICK n \in RxIndex, t \in RxIndex : n = nic_rdh /\ t = rdt
  BY Types
<1>2. DistanceRx(n, t) \in Nat /\ DistanceRx(n, t) < RX_LEN
  BY DistanceIs
<1>3. Cardinality(Held) \in Nat /\ Cardinality(Held) + DistanceRx(n, t) = RX_BUFFERS
  BY <1>1, HeldIs DEF RingInv
<1>4. Cardinality(Held) >= 1
  <2>1. Cardinality(Held) # 0
    BY HeldIs, FS_EmptySet
  <2> QED
    BY <1>3, <2>1
<1>5. DistanceRx(n, t) < RX_LEN - 1
  BY <1>2, <1>3, <1>4, RxSizes
<1>6. t \notin Span(n, t)
  BY <1>2, SpanIs
<1>7. ASSUME t \in Held PROVE t = l
  <2>1. Age(t) > 0 /\ Age(t) <= Window
    BY <1>7 DEF RingInv
  <2>2. DistanceRx(t, n) \in Nat /\ DistanceRx(t, n) > 0 /\ DistanceRx(t, n) <= Window
    BY <1>1, <2>1, DistanceIs DEF Age
  <2>3. t # n
    BY <2>2, DistanceIs
  <2>4. DistanceRx(t, n) + DistanceRx(n, t) = RX_LEN
    BY <2>3, AllAround
  <2>5. Cardinality(Held) = 1
    BY <1>2, <1>3, <1>4, <2>2, <2>4, RxSizes
  <2>6. PICK x : Held = {x}
    BY <2>5, HeldIs, FS_Singleton
  <2> QED
    BY <1>7, <2>6
<1>8. ASSUME t \notin Held PROVE rx_buffers[t] = ZeroInfo
  <2>1. rx_buffers[t] = [ZeroInfo EXCEPT !.buffer = t \in Span(nic_rdh, rdt)]
    BY <1>8 DEF RingInv
  <2>2. (t \in Span(nic_rdh, rdt)) = FALSE
    BY <1>1, <1>6
  <2> QED
    BY <2>1, <2>2, ZeroStays
<1>9. DistanceRx(n, AdvanceRx(t)) = DistanceRx(n, t) + 1
  BY <1>5, FarEnd
<1>10. ASSUME NEW i \in RxIndex
       PROVE  i \in Span(n, AdvanceRx(t)) <=> i = t \/ i \in Span(n, t)
  <2>1. i \in Span(n, AdvanceRx(t)) <=> DistanceRx(n, i) < DistanceRx(n, t) + 1
    BY <1>9, AdvanceIs, SpanIs
  <2>2. i \in Span(n, t) <=> DistanceRx(n, i) < DistanceRx(n, t)
    BY SpanIs
  <2>3. DistanceRx(n, i) \in Nat
    BY DistanceIs
  <2>4. ASSUME DistanceRx(n, i) = DistanceRx(n, t) PROVE i = t
    <3>1. PICK d \in Nat : d = DistanceRx(n, i) /\ d = DistanceRx(n, t)
      BY <1>2, <2>4
    <3>2. /\ d = IF n <= i THEN i - n ELSE i + RX_LEN - n
          /\ d = IF n <= t THEN t - n ELSE t + RX_LEN - n
      BY <3>1, DistanceIs
    <3>3. /\ i \in Nat /\ t \in Nat /\ n \in Nat
          /\ i < RX_LEN /\ t < RX_LEN /\ n < RX_LEN
      BY RxSizes DEF RxIndex
    <3> QED
      BY <3>2, <3>3, RxSizes
  <2> QED
    BY <1>2, <2>1, <2>2, <2>3, <2>4
<1> QED
  BY <1>1, <1>6, <1>7, <1>8, <1>9, <1>10

\* What mark_done does to the ring.
GivenBack ==
    /\ last \in Held /\ Examined(last)
    /\ rx_buffers' = [rx_buffers EXCEPT ![last] = ZeroInfo, ![rdt] = Renewed(rx_buffers[last])]
    /\ rx_desc' = [rx_desc EXCEPT ![last] = NewDesc, ![rdt] = NewDesc]
    /\ rdt' = AdvanceRx(rdt) /\ RDT0' \in {RDT0, AdvanceRx(rdt)}
    /\ UNCHANGED <<rdh, nic_rdh>>

LEMMA GiveBackEffect ==
    ASSUME RxTypeOK, RingInv, GivenBack
    PROVE  /\ RingInv' /\ \A l : l = last => Held' = Held \ {l}
           /\ \A i \in Held : i # last =>
                  rx_buffers'[i] = rx_buffers[i] /\ rx_desc'[i] = rx_desc[i]
           /\ rx_buffers' \in [RxIndex -> RxInfo] /\ rx_desc' \in [RxIndex -> RxDesc]
<1> USE DEF GivenBack
<1>1. PICK n \in RxIndex, t \in RxIndex, l \in RxIndex : n = nic_rdh /\ t = rdt /\ l = last
  BY Types
<1>2. l \in Held /\ rx_buffers[l].buffer /\ l \notin Span(n, t)
  BY <1>1, HeldIs
<1>3. PICK u \in RxIndex : u = AdvanceRx(t) /\ u = rdt'
  BY <1>1, AdvanceIs
<1>4. /\ t \notin Span(n, t) /\ (t \in Held => t = l)
      /\ t \notin Held => rx_buffers[t] = ZeroInfo
      /\ DistanceRx(n, u) = DistanceRx(n, t) + 1
      /\ \A i \in RxIndex : i \in Span(n, u) <=> i = t \/ i \in Span(n, t)
  BY <1>1, <1>2, <1>3, TailFree
<1>5. PICK full : full = [ZeroInfo EXCEPT !.buffer = TRUE]
  OBVIOUS
<1>6. /\ full \in RxInfo /\ full.buffer /\ ZeroInfo \in RxInfo /\ ~ ZeroInfo.buffer
      /\ NewDesc \in RxDesc
  <2>1. 0 \in RxIndex
    BY RxSizes DEF RxIndex
  <2>2. ZeroInfo \in RxInfo /\ ~ ZeroInfo.buffer
    BY <2>1 DEF ZeroInfo, RxInfo
  <2>3. full \in RxInfo /\ full.buffer
    BY <1>5, <2>2 DEF RxInfo
  <2>4. NewDesc \in RxDesc
    BY <2>1 DEF NewDesc, RxDesc, ZeroLo
  <2> QED
    BY <2>2, <2>3, <2>4
<1>7. Renewed(rx_buffers[l]) = full
  <2>1. rx_buffers[l].buffer = TRUE
    BY <1>1, <1>2, Types DEF RxInfo
  <2> QED
    BY <1>5, <2>1 DEF Renewed
<1>8. rx_buffers \in [RxIndex -> RxInfo] /\ rx_desc \in [RxIndex -> RxDesc]
  BY Types
<1>9. /\ rx_buffers' \in [RxIndex -> RxInfo] /\ rx_buffers'[t] = full
      /\ l # t => rx_buffers'[l] = ZeroInfo
      /\ \A i \in RxIndex : i # t /\ i # l => rx_buffers'[i] = rx_buffers[i]
  <2>1. rx_buffers' = [rx_buffers EXCEPT ![l] = ZeroInfo, ![t] = full]
    BY <1>1, <1>7
  <2> QED
    BY <1>6, <1>8, <2>1
<1>10. /\ rx_desc' \in [RxIndex -> RxDesc] /\ rx_desc'[t] = NewDesc /\ rx_desc'[l] = NewDesc
       /\ \A i \in RxIndex : i # t /\ i # l => rx_desc'[i] = rx_desc[i]
  <2>1. rx_desc' = [rx_desc EXCEPT ![l] = NewDesc, ![t] = NewDesc]
    BY <1>1
  <2> QED
    BY <1>6, <1>8, <2>1
<1>11. Held' = Held \ {l}
  <2>1. \A i \in RxIndex : i \in Held' <=> rx_buffers'[i].buffer /\ i \notin Span(n, u)
    BY <1>1, <1>3 DEF Held
  <2>2. Held' \subseteq RxIndex
    BY DEF Held
  <2>3. \A i \in RxIndex : i \in Held' <=> i \in Held /\ i # l
    <3> SUFFICES ASSUME NEW i \in RxIndex PROVE i \in Held' <=> i \in Held /\ i # l
      OBVIOUS
    <3>1. CASE i = t
      BY <1>4, <2>1, <3>1
    <3>2. CASE i # t /\ i = l
      BY <1>6, <1>9, <2>1, <3>2
    <3>3. CASE i # t /\ i # l
      BY <1>1, <1>4, <1>9, <2>1, <3>3, HeldIs
    <3> QED
      BY <3>1, <3>2, <3>3
  <2> QED
    BY <2>2, <2>3, HeldIs
<1>12. /\ Cardinality(Held) \in Nat /\ Cardinality(Held') = Cardinality(Held) - 1
  BY <1>2, <1>11, HeldIs, FS_RemoveElement
<1>13. Cardinality({i \in RxIndex : rx_buffers'[i].buffer}) = RX_BUFFERS
  <2>1. PICK B \in SUBSET RxIndex : B = {i \in RxIndex : rx_buffers[i].buffer}
    OBVIOUS
  <2>2. IsFiniteSet(B) /\ Cardinality(B) = RX_BUFFERS /\ l \in B
    BY <1>2, <2>1, SlotsFinite DEF RingInv
  <2>3. IsFiniteSet(B \ {l}) /\ Cardinality(B \ {l}) = RX_BUFFERS - 1
    BY <2>2, FS_RemoveElement
  <2>4. t \notin B \ {l}
    BY <1>4, <1>6, <2>1
  <2>5. Cardinality((B \ {l}) \cup {t}) = RX_BUFFERS
    <3>1. Cardinality((B \ {l}) \cup {t}) = IF t \in B \ {l} THEN Cardinality(B \ {l}) ELSE Cardinality(B \ {l}) + 1
      BY <2>3, FS_AddElement
    <3> QED
      BY <2>3, <2>4, <3>1, RxSizes
  <2>6. \A i \in RxIndex : rx_buffers'[i].buffer <=> i \in (B \ {l}) \cup {t}
    <3> SUFFICES ASSUME NEW i \in RxIndex PROVE rx_buffers'[i].buffer <=> i \in (B \ {l}) \cup {t}
      OBVIOUS
    <3>1. CASE i = t
      BY <1>6, <1>9, <3>1
    <3>2. CASE i # t /\ i = l
      BY <1>6, <1>9, <3>2
    <3>3. CASE i # t /\ i # l
      BY <1>9, <2>1, <3>3
    <3> QED
      BY <3>1, <3>2, <3>3
  <2>7. {i \in RxIndex : rx_buffers'[i].buffer} = (B \ {l}) \cup {t}
    BY <2>6
  <2> QED
    BY <2>5, <2>7, Zenon
<1>14. RingInv'
  <2>1. DistanceRx(nic_rdh', RDT0') <= DistanceRx(nic_rdh', rdt')
    <3>1. /\ DistanceRx(n, RDT0) <= DistanceRx(n, t) /\ DistanceRx(n, RDT0) \in Nat
          /\ DistanceRx(n, t) \in Nat
      BY <1>1, DistanceIs, Types DEF RingInv
    <3>2. DistanceRx(n, RDT0') = DistanceRx(n, RDT0) \/ DistanceRx(n, RDT0') = DistanceRx(n, u)
      BY <1>1, <1>3
    <3> QED
      BY <1>1, <1>3, <1>4, <3>1, <3>2
  <2>2. Cardinality(Held') + DistanceRx(nic_rdh', rdt') = RX_BUFFERS
    <3>1. Cardinality(Held) + DistanceRx(n, t) = RX_BUFFERS /\ DistanceRx(n, t) \in Nat
      BY <1>1, DistanceIs DEF RingInv
    <3>2. Cardinality(Held') + DistanceRx(n, u) = RX_BUFFERS
      BY <1>4, <1>12, <3>1, RxSizes
    <3> QED
      BY <1>1, <1>3, <3>2
  <2>3. \A i : Age(i)' = Age(i)
    BY DEF Age
  <2>4. Age(rdh)' = Age(rdh)
    BY DEF Age
  <2>5. \A i \in Held' : Age(i)' > 0 /\ Age(i)' <= Window
    BY <1>11, <2>3 DEF RingInv
  <2>6. ASSUME NEW i \in RxIndex, Age(i) > 0, Age(i) <= Age(rdh) PROVE i \in Held'
    <3>1. i \in Held
      BY <2>6 DEF RingInv
    <3>2. i # l
      <4>1. Age(l) > Age(rdh)
        BY <1>1 DEF Examined
      <4>2. Age(l) \in Nat /\ Age(rdh) \in Nat
        BY <1>1, DistanceIs, Types DEF Age
      <4> QED
        BY <2>6, <4>1, <4>2
    <3> QED
      BY <1>11, <3>1, <3>2
  <2>7. ASSUME NEW i \in RxIndex \ Held'
        PROVE  /\ rx_desc'[i] = NewDesc
               /\ rx_buffers'[i] = [ZeroInfo EXCEPT !.buffer = i \in Span(n, u)]
    <3>1. CASE i = t
      <4>1. (i \in Span(n, u)) = TRUE
        BY <1>4, <3>1
      <4> QED
        BY <1>5, <1>9, <1>10, <3>1, <4>1
    <3>2. CASE i # t /\ i = l
      <4>1. (i \in Span(n, u)) = FALSE
        BY <1>2, <1>4, <3>2
      <4> QED
        BY <1>9, <1>10, <3>2, <4>1, ZeroStays
    <3>3. CASE i # t /\ i # l
      <4>1. (i \in Span(n, u)) = (i \in Span(n, t))
        BY <1>4, <3>3
      <4>2. i \in RxIndex \ Held
        BY <1>11, <3>3
      <4>3. rx_desc[i] = NewDesc /\ rx_buffers[i] = [ZeroInfo EXCEPT !.buffer = i \in Span(n, t)]
        BY <1>1, <4>2 DEF RingInv
      <4> QED
        BY <1>9, <1>10, <3>3, <4>1, <4>3
    <3> QED
      BY <3>1, <3>2, <3>3
  <2>8. \A i \in RxIndex \ Held' :
            /\ rx_desc'[i] = NewDesc
            /\ rx_buffers'[i] = [ZeroInfo EXCEPT !.buffer = i \in Span(nic_rdh', rdt')]
    BY <1>1, <1>3, <2>7
  <2>9. \A i \in RxIndex : Age(i)' > 0 /\ Age(i)' <= Age(rdh)' => i \in Held'
    BY <2>3, <2>4, <2>6
  <2> HIDE DEF Held, GivenBack
  <2> QED
    BY <1>13, <2>1, <2>2, <2>5, <2>8, <2>9 DEF RingInv
<1>15. \A i \in Held : i # l => i \in RxIndex /\ i # t
  BY <1>4, HeldIs
<1> QED
  BY <1>1, <1>9, <1>10, <1>11, <1>14, <1>15

\* The chain of the packet that is recycled loses its last slot, and so its end.
LEMMA MarkDoneStep == ASSUME IInv, MarkDone PROVE IInv'
<1>1. RxTypeOK /\ RingInv
  BY DEF IInv
<1>2. PICK cur \in Seq(RxIndex) : LinksInv(cur)
  BY DEF IInv
<1>3. /\ rx_pc = "recycle" /\ rdt' = AdvanceRx(rdt)
      /\ rx_buffers' = [rx_buffers EXCEPT ![last] = ZeroInfo, ![rdt] = Renewed(rx_buffers[last])]
      /\ rx_desc' = [rx_desc EXCEPT ![last] = NewDesc, ![rdt] = NewDesc]
      /\ frame' = [frame EXCEPT ![last] = << >>]
      /\ IF rx_buffers[last].not_first
           THEN last' = rx_buffers[last].rsc_last /\ rx_pc' = rx_pc /\ RDT0' = RDT0
           ELSE rx_pc' = "idle" /\ RDT0' = AdvanceRx(rdt) /\ last' = 0
      /\ UNCHANGED <<rdh, armed, rx, irq, event, nic_rdh, filling>>
  BY DEF MarkDone, irqVars, nicVars
<1>4. PICK l \in RxIndex : l = last
  BY <1>1, Types
<1>5. PICK L \in Nat : L = Len(cur)
  OBVIOUS
<1>6. /\ cur # << >> /\ cur \in Chains(cur) /\ ChainOK(cur) /\ L >= 1 /\ cur[L] = l
      /\ \A k \in 1 .. L : cur[k] \in RxIndex /\ cur[k] \in Held /\ Examined(cur[k])
      /\ \A j, k \in 1 .. L : cur[j] = cur[k] => j = k
  <2>1. cur # << >> /\ last = End(cur) /\ \A k \in 1 .. Len(cur) : Examined(cur[k])
    BY <1>2, <1>3 DEF LinksInv
  <2>2. cur \in Chains(cur)
    BY <2>1 DEF Chains
  <2>3. ChainOK(cur)
    BY <1>2, <2>2 DEF LinksInv
  <2> QED
    BY <1>1, <1>4, <1>5, <2>1, <2>2, <2>3, ChainIs
<1>7. l \in Held /\ Examined(l)
  BY <1>6
<1>8. GivenBack
  BY <1>3, <1>4, <1>7 DEF GivenBack
<1>9. /\ RingInv' /\ Held' = Held \ {l}
      /\ \A i \in Held : i # l => rx_buffers'[i] = rx_buffers[i] /\ rx_desc'[i] = rx_desc[i]
      /\ rx_buffers' \in [RxIndex -> RxInfo] /\ rx_desc' \in [RxIndex -> RxDesc]
  BY <1>1, <1>4, <1>8, GiveBackEffect
<1>10. /\ L > 1 => Linked(rx_buffers[l], cur[L - 1], L - 1)
       /\ L = 1 => Plain(rx_buffers[l])
  <2>1. CASE L = 1
    BY <1>6, <2>1 DEF ChainOK
  <2>2. CASE L > 1
    <3>1. PICK k \in 1 .. L - 1 : k = L - 1 /\ k + 1 = L /\ k \in 1 .. L
      BY <2>2
    <3> QED
      BY <1>5, <1>6, <2>2, <3>1 DEF ChainOK
  <2> QED
    BY <2>1, <2>2
<1>11. \A i : Age(i)' = Age(i) /\ (Examined(i)' <=> Examined(i))
  BY <1>3 DEF Age, Examined
<1>12. PICK d \in Seq(RxIndex) : Len(d) = L - 1 /\ \A k \in 1 .. L - 1 : d[k] = cur[k]
  <2>1. L - 1 \in Nat /\ \A k \in 1 .. L - 1 : cur[k] \in RxIndex
    BY <1>6
  <2>2. PICK m \in Nat : m = L - 1
    BY <2>1
  <2>3. PICK d : d = [k \in 1 .. m |-> cur[k]]
    OBVIOUS
  <2>4. d \in Seq(RxIndex) /\ Len(d) = m /\ \A k \in 1 .. m : d[k] = cur[k]
    BY <2>1, <2>2, <2>3
  <2> QED
    BY <2>2, <2>4
<1>13. d = << >> <=> L = 1
  BY <1>6, <1>12, EmptySeq
<1>14. ASSUME L > 1
       PROVE  /\ d # << >> /\ d[1] = cur[1] /\ End(d) = cur[L - 1] /\ cur[L - 1] = rx_buffers[l].rsc_last
              /\ rx_buffers[l].not_first /\ cur[L - 1] \in RxIndex /\ End(d) \in RxIndex
  <2>1. 1 \in 1 .. L - 1 /\ L - 1 \in 1 .. L - 1 /\ L - 1 \in 1 .. L
    BY <1>14
  <2> QED
    BY <1>6, <1>10, <1>12, <1>13, <1>14, <2>1 DEF End, Linked
<1>15. \A i \in RxIndex : frame'[i] = IF i = l THEN << >> ELSE frame[i]
  BY <1>1, <1>3, <1>4, Types
<1>16. ASSUME NEW b \in Chains(cur), b # cur
       PROVE  /\ ChainOK(b) /\ b \in Seq(RxIndex)
              /\ \A k \in 1 .. Len(b) : b[k] \in RxIndex /\ b[k] \in Held /\ b[k] # l
  <2>1. ChainOK(b)
    BY <1>2 DEF LinksInv
  <2>2. \A k \in 1 .. Len(b) : b[k] # l
    <3>1. L \in 1 .. Len(cur)
      BY <1>5, <1>6
    <3> QED
      BY <1>2, <1>6, <1>16, <3>1 DEF LinksInv
  <2> QED
    BY <1>1, <2>1, <2>2, ChainIs
<1>17. \A i \in RxIndex : frame[i] # << >> =>
           /\ frame[i] \in Chains(cur) /\ End(frame[i]) = i
           /\ i # l => frame[i] # cur
  <2> SUFFICES ASSUME NEW i \in RxIndex, frame[i] # << >>
               PROVE  /\ frame[i] \in Chains(cur) /\ End(frame[i]) = i
                      /\ i # l => frame[i] # cur
    OBVIOUS
  <2>1. frame[i] \in Chains(cur) /\ End(frame[i]) = i
    BY <1>2 DEF Chains, LinksInv
  <2>2. End(cur) = l
    BY <1>5, <1>6 DEF End
  <2> QED
    BY <2>1, <2>2
<1>18. \A i \in DOMAIN filling : /\ i \in RxIndex /\ filling[i] \in Chains(cur) /\ filling[i] # cur
                                 /\ End(filling[i]) = i /\ i # l /\ i \in Held
  <2> SUFFICES ASSUME NEW i \in DOMAIN filling
               PROVE  /\ i \in RxIndex /\ filling[i] \in Chains(cur) /\ filling[i] # cur
                      /\ End(filling[i]) = i /\ i # l /\ i \in Held
    OBVIOUS
  <2>1. /\ i \in RxIndex /\ filling[i] \in Chains(cur) /\ End(filling[i]) = i /\ ~ Examined(i)
    BY <1>1, <1>2, Types DEF Chains, LinksInv
  <2>2. End(cur) = l
    BY <1>5, <1>6 DEF End
  <2>3. filling[i] # cur /\ i # l
    BY <1>7, <2>1, <2>2
  <2>4. i \in Held
    <3>1. ChainOK(filling[i])
      BY <1>2, <2>1 DEF LinksInv
    <3>2. End(filling[i]) \in Held
      BY <1>1, <3>1, ChainIs
    <3> QED
      BY <2>1, <3>2
  <2> QED
    BY <2>1, <2>3, <2>4
<1>19. \A b : b \in Chains(d)' => (b = d /\ L > 1) \/ (b \in Chains(cur) /\ b # cur)
  <2> SUFFICES ASSUME NEW b \in Chains(d)'
               PROVE  (b = d /\ L > 1) \/ (b \in Chains(cur) /\ b # cur)
    OBVIOUS
  <2>1. CASE b = d /\ d # << >>
    BY <1>6, <1>13, <2>1
  <2>2. CASE b \in {filling[i] : i \in DOMAIN filling}
    BY <1>18, <2>2
  <2>3. ASSUME NEW i \in RxIndex, frame'[i] # << >>, b = frame'[i]
        PROVE  b \in Chains(cur) /\ b # cur
    BY <1>15, <1>17, <2>3
  <2>4. \/ b = d /\ d # << >>
        \/ b \in {filling[i] : i \in DOMAIN filling}
        \/ \E i \in RxIndex : frame'[i] # << >> /\ b = frame'[i]
    BY <1>3 DEF Chains
  <2> QED
    BY <2>1, <2>2, <2>3, <2>4
<1>20. \A b \in Chains(cur) : b # cur => b \in Chains(d)'
  <2> SUFFICES ASSUME NEW b \in Chains(cur), b # cur PROVE b \in Chains(d)'
    OBVIOUS
  <2>1. CASE b \in {filling[i] : i \in DOMAIN filling}
    BY <1>3, <2>1 DEF Chains
  <2>2. ASSUME NEW i \in RxIndex, frame[i] # << >>, b = frame[i] PROVE b \in Chains(d)'
    <3>1. i # l
      <4>1. cur = frame[i] \/ i # l
        BY <1>2, <1>7, <2>2 DEF LinksInv
      <4> QED
        BY <2>2, <4>1
    <3>2. frame'[i] = b
      BY <1>15, <2>2, <3>1
    <3> QED
      BY <2>2, <3>2 DEF Chains
  <2>3. \/ b \in {filling[i] : i \in DOMAIN filling}
        \/ \E i \in RxIndex : frame[i] # << >> /\ b = frame[i]
    BY DEF Chains
  <2> QED
    BY <2>1, <2>2, <2>3
<1>21. L > 1 => d \in Chains(d)'
  BY <1>13 DEF Chains
<1>22. ASSUME NEW b \in Chains(cur), b # cur PROVE ChainOK(b)'
  <2>1. \A k \in 1 .. Len(b) :
            /\ b[k] \in Held'
            /\ DistanceRx(b[k], nic_rdh') = Age(b[k]) + 0
            /\ Examined(b[k])' <=> Examined(b[k])
            /\ rx_buffers'[b[k]] = rx_buffers[b[k]]
            /\ k < Len(b) => rx_desc'[b[k]] = rx_desc[b[k]]
    <3>1. \A x \in Nat : x = x + 0
      OBVIOUS
    <3>2. \A k \in 1 .. Len(b) : DistanceRx(b[k], nic_rdh) \in Nat
      BY <1>1, <1>16, <1>22, DistanceIs, Types
    <3>3. \A k \in 1 .. Len(b) : DistanceRx(b[k], nic_rdh') = Age(b[k]) + 0
      BY <1>3, <3>1, <3>2 DEF Age
    <3> QED
      BY <1>9, <1>11, <1>16, <1>22, <3>3
  <2>2. PICK e \in {0, 1} : e = 0
    OBVIOUS
  <2> QED
    BY <1>1, <1>16, <1>22, <2>1, <2>2, ChainKept
<1>23. ASSUME L > 1 PROVE ChainOK(d)'
  <2>1. \A k \in 1 .. L - 1 : k \in 1 .. L /\ k # L /\ d[k] = cur[k] /\ cur[k] \in Held /\ cur[k] # l
    BY <1>6, <1>12
  <2>2. \A k \in 1 .. L - 1 : /\ d[k] \in Held' /\ rx_buffers'[d[k]] = rx_buffers[cur[k]]
                              /\ rx_desc'[d[k]] = rx_desc[cur[k]]
    BY <1>9, <2>1
  <2>3. \A j, k \in 1 .. L - 1 : j < k => Age(d[j])' > Age(d[k])'
    <3>1. \A j, k \in 1 .. L : j < k => Age(cur[j]) > Age(cur[k])
      BY <1>5, <1>6 DEF ChainOK
    <3> QED
      BY <1>11, <2>1, <3>1
  <2>4. Plain(rx_buffers'[d[1]])
    <3>1. 1 \in 1 .. L - 1
      BY <1>23
    <3> QED
      BY <1>6, <2>2, <3>1 DEF ChainOK
  <2>5. ASSUME NEW k \in 1 .. (L - 1) - 1
        PROVE  /\ rx_desc'[d[k]] = [hi |-> "large", lo |-> [dd |-> TRUE, eop |-> FALSE, nextp |-> d[k + 1]]]
               /\ IF Examined(d[k])' THEN Linked(rx_buffers'[d[k + 1]], d[k], k)
                                     ELSE Plain(rx_buffers'[d[k + 1]])
    <3>1. k \in 1 .. L - 1 /\ k + 1 \in 1 .. L - 1
      OBVIOUS
    <3>2. /\ rx_desc[cur[k]] = [hi |-> "large", lo |-> [dd |-> TRUE, eop |-> FALSE, nextp |-> cur[k + 1]]]
          /\ IF Examined(cur[k]) THEN Linked(rx_buffers[cur[k + 1]], cur[k], k)
                                 ELSE Plain(rx_buffers[cur[k + 1]])
      BY <1>5, <1>6, <3>1 DEF ChainOK
    <3> QED
      BY <1>11, <2>1, <2>2, <3>1, <3>2
  <2>6. Len(d) = L - 1 /\ d # << >>
    BY <1>12, <1>14, <1>23
  <2> HIDE DEF Held
  <2> QED
    BY <2>2, <2>3, <2>4, <2>5, <2>6 DEF ChainOK, Plain, Linked
<1>24. \A k \in 1 .. Len(d) : k \in 1 .. L /\ k # L /\ d[k] = cur[k] /\ d[k] # l
  BY <1>6, <1>12
<1>25. ASSUME NEW a \in Chains(d)', NEW b \in Chains(d)',
              NEW j \in 1 .. Len(a), NEW k \in 1 .. Len(b), a[j] = b[k]
       PROVE  a = b
  <2>1. CASE a = d /\ b # d
    <3>1. b \in Chains(cur) /\ b # cur
      BY <1>19, <2>1
    <3>2. j \in 1 .. Len(cur) /\ cur[j] = b[k]
      BY <1>5, <1>24, <1>25, <2>1
    <3> QED
      BY <1>2, <1>6, <3>1, <3>2 DEF LinksInv
  <2>2. CASE b = d /\ a # d
    <3>1. a \in Chains(cur) /\ a # cur
      BY <1>19, <2>2
    <3>2. k \in 1 .. Len(cur) /\ cur[k] = a[j]
      BY <1>5, <1>24, <1>25, <2>2
    <3> QED
      BY <1>2, <1>6, <3>1, <3>2 DEF LinksInv
  <2>3. CASE a # d /\ b # d
    <3>1. a \in Chains(cur) /\ b \in Chains(cur)
      BY <1>19, <2>3
    <3> QED
      BY <1>2, <1>25, <3>1 DEF LinksInv
  <2> QED
    BY <2>1, <2>2, <2>3
<1>26. ASSUME NEW i \in Held' PROVE \E b \in Chains(d)' : \E k \in 1 .. Len(b) : b[k] = i
  <2>1. i \in Held /\ i # l
    BY <1>9
  <2>2. PICK b \in Chains(cur) : \E k \in 1 .. Len(b) : b[k] = i
    BY <1>2, <2>1 DEF LinksInv
  <2>3. CASE b # cur
    BY <1>20, <2>2, <2>3
  <2>4. CASE b = cur
    <3>1. PICK k \in 1 .. L : cur[k] = i
      BY <1>5, <2>2, <2>4
    <3>2. k # L
      BY <1>6, <2>1, <3>1
    <3>3. L > 1 /\ k \in 1 .. L - 1
      BY <3>2
    <3>4. k \in 1 .. Len(d) /\ d[k] = i
      BY <1>12, <3>1, <3>3
    <3> QED
      BY <1>21, <3>3, <3>4
  <2> QED
    BY <2>3, <2>4
<1>27. \A i \in DOMAIN filling : rx_desc'[i] = NewDesc /\ ~ Examined(i)'
  BY <1>2, <1>9, <1>11, <1>18 DEF LinksInv
<1>28. ASSUME NEW i \in RxIndex, frame'[i] # << >>
       PROVE  /\ End(frame'[i]) = i
              /\ rx_desc'[i].lo.dd /\ rx_desc'[i].lo.eop /\ rx_desc'[i].hi # "address"
              /\ ~ Examined(i)'
  <2>1. frame'[i] = frame[i] /\ frame[i] # << >> /\ i # l
    BY <1>15, <1>28
  <2>2. frame[i] \in Chains(cur) /\ End(frame[i]) = i /\ frame[i] # cur
    BY <1>17, <2>1
  <2>3. /\ rx_desc[i].lo.dd /\ rx_desc[i].lo.eop /\ rx_desc[i].hi # "address"
        /\ ~ Examined(i)
    BY <1>2, <2>1, <2>2 DEF LinksInv
  <2>4. i \in Held
    <3>1. ChainOK(frame[i])
      BY <1>2, <2>2 DEF LinksInv
    <3>2. End(frame[i]) \in Held
      BY <1>1, <3>1, ChainIs
    <3> QED
      BY <2>2, <3>2
  <2> QED
    BY <1>9, <1>11, <2>1, <2>2, <2>3, <2>4
<1>29. CASE L > 1
  <2>1. rx_pc' = "recycle" /\ last' = End(d)
    BY <1>3, <1>4, <1>14, <1>29
  <2>2. \A k \in 1 .. Len(d) : Examined(d[k])'
    BY <1>6, <1>11, <1>24
  <2>3. \A b \in Chains(d)' : ChainOK(b)'
    BY <1>19, <1>22, <1>23, <1>29
  <2>4. LinksInv(d)'
    <3> HIDE DEF End, Held
    <3> QED
      BY <1>3, <1>14, <1>18, <1>25, <1>26, <1>27, <1>28, <1>29, <2>1, <2>2, <2>3 DEF LinksInv
  <2>5. RxTypeOK'
    <3>1. frame' \in [RxIndex -> Seq(RxIndex)]
      <4>1. << >> \in Seq(RxIndex)
        OBVIOUS
      <4> QED
        BY <1>1, <1>3, <4>1, Types
    <3>2. rdt' \in RxIndex /\ RDT0' \in RxIndex
      BY <1>1, <1>3, AdvanceIs, Types
    <3>3. last' \in RxIndex
      BY <1>14, <1>29, <2>1
    <3>4. UNCHANGED <<rdh, armed, rx, irq, event, nic_rdh, filling>>
      BY <1>3
    <3>5. rx_pc' \in {"off", "idle", "asleep", "scan", "examine", "switch", "recycle"}
      BY <2>1
    <3> QED
      BY <1>1, <1>9, <3>1, <3>2, <3>3, <3>4, <3>5 DEF RxTypeOK
  <2>6. ReadInv'
    BY <2>1 DEF ReadInv
  <2> QED
    BY <1>9, <2>4, <2>5, <2>6 DEF IInv
<1>30. CASE L = 1
  <2>1. rx_pc' = "idle" /\ last' = 0 /\ d = << >>
    BY <1>3, <1>4, <1>10, <1>13, <1>30 DEF Plain
  <2>2. \A b \in Chains(d)' : ChainOK(b)'
    BY <1>19, <1>22, <1>30
  <2>3. LinksInv(d)'
    <3> HIDE DEF End, Held
    <3> QED
      BY <1>3, <1>18, <1>25, <1>26, <1>27, <1>28, <2>1, <2>2 DEF LinksInv
  <2>4. RxTypeOK'
    <3>1. frame' \in [RxIndex -> Seq(RxIndex)]
      <4>1. << >> \in Seq(RxIndex)
        OBVIOUS
      <4> QED
        BY <1>1, <1>3, <4>1, Types
    <3>2. rdt' \in RxIndex /\ RDT0' \in RxIndex
      BY <1>1, <1>3, AdvanceIs, Types
    <3>3. 0 \in RxIndex
      BY RxSizes DEF RxIndex
    <3> QED
      BY <1>1, <1>3, <1>9, <2>1, <3>1, <3>2, <3>3 DEF RxTypeOK
  <2>5. ReadInv'
    BY <2>1 DEF ReadInv
  <2> QED
    BY <1>9, <2>3, <2>4, <2>5 DEF IInv
<1> QED
  BY <1>6, <1>29, <1>30

-----------------------------------------------------------------------------
(* Every step *)

LEMMA ScanStep == ASSUME IInv, Scan PROVE IInv'
<1>1. /\ rx_pc = "scan"
      /\ UNCHANGED <<rx_buffers, rdh, rdt, RDT0, last, irq, event, nic_rdh, filling, rx_desc, frame>>
  BY DEF Scan, bufferVars, irqVars, nicVars
<1>2. RxTypeOK
  BY DEF IInv
<1>3. CASE rdh = rdt
  <2>1. rx_pc' \in {"idle", "asleep"} /\ armed' = FALSE /\ rx' = rx
    BY <1>3 DEF Scan, Nothing
  <2>2. RxTypeOK' /\ ReadInv'
    BY <1>1, <1>2, <2>1 DEF RxTypeOK, ReadInv
  <2> QED
    BY <1>1, <2>1, <2>2, CalmStep
<1>4. CASE rdh # rdt
  <2>1. /\ rx_pc' = "examine" /\ armed' = armed
        /\ rx' = [rx EXCEPT !["lo"] = rx_desc[rdh]["lo"]]
    BY <1>4 DEF Scan, FirstHalf
  <2>2. PICK r \in RxDesc : r = rx
    BY <1>2 DEF RxTypeOK
  <2>3. PICK s \in RxDesc : s = rx_desc[rdh]
    BY <1>2, Types
  <2>4. rx' = [r EXCEPT !["lo"] = s.lo]
    BY <2>1, <2>2, <2>3
  <2>5. rx' \in RxDesc /\ rx'.lo = s.lo
    BY <2>4 DEF RxDesc
  <2>6. RxTypeOK' /\ ReadInv'
    BY <1>1, <1>2, <2>1, <2>3, <2>5 DEF RxTypeOK, ReadInv
  <2> QED
    BY <1>1, <2>1, <2>6, CalmStep
<1> QED
  BY <1>3, <1>4

\* Neither poll's beginning, nor the interrupts, nor the switch touch the ring.
LEMMA OtherStep ==
    ASSUME IInv,
           \/ \E enable \in BOOLEAN : PollRx(enable)
           \/ Switched \/ WakeUp \/ NicInterrupt \/ NicSends
    PROVE  IInv'
<1> USE DEF bufferVars, irqVars, nicVars, pollVars
<1>1. RxTypeOK /\ ReadInv
  BY DEF IInv
<1>2. ASSUME NEW enable \in BOOLEAN, PollRx(enable) PROVE IInv'
  <2>1. RxTypeOK' /\ ReadInv'
    BY <1>1, <1>2 DEF PollRx, Unmask, RxTypeOK, ReadInv
  <2> QED
    BY <1>2, <2>1, CalmStep DEF PollRx
<1>3. CASE Switched
  <2>1. RxTypeOK' /\ ReadInv'
    BY <1>1, <1>3 DEF Switched, RxTypeOK, ReadInv
  <2> QED
    BY <1>3, <2>1, CalmStep DEF Switched
<1>4. CASE WakeUp
  <2>1. RxTypeOK' /\ ReadInv'
    BY <1>1, <1>4 DEF WakeUp, RxTypeOK, ReadInv
  <2> QED
    BY <1>4, <2>1, CalmStep DEF WakeUp
<1>5. CASE NicInterrupt
  <2>1. RxTypeOK' /\ ReadInv'
    BY <1>1, <1>5 DEF NicInterrupt, RxTypeOK, ReadInv
  <2> QED
    BY <1>5, <2>1, CalmStep DEF NicInterrupt
<1>6. CASE NicSends
  <2>1. RxTypeOK' /\ ReadInv'
    BY <1>1, <1>6 DEF NicSends, Cause, RxTypeOK, ReadInv
  <2> QED
    BY <1>6, <2>1, CalmStep DEF NicSends
<1> QED
  BY <1>2, <1>3, <1>4, <1>5, <1>6

LEMMA StepInv == IInv /\ [RxNext]_rxVars => IInv'
<1> SUFFICES ASSUME IInv, [RxNext]_rxVars PROVE IInv'
  OBVIOUS
<1>1. CASE UNCHANGED rxVars
  <2>1. /\ UNCHANGED <<rx_buffers, rdh, rdt, RDT0, last, nic_rdh, filling, rx_desc, frame>>
        /\ UNCHANGED <<rx_pc, armed, rx, irq, event>>
    BY <1>1 DEF rxVars, bufferVars, pollVars, irqVars, nicVars
  <2>2. RxTypeOK' /\ ReadInv'
    BY <2>1 DEF IInv, RxTypeOK, ReadInv
  <2> QED
    BY <2>1, <2>2, CalmStep
<1>2. CASE RxNext
  BY <1>2, ScanStep, ExamineStep, MarkDoneStep, OtherStep, NicBeginStep, NicChainStep, NicEndStep
     DEF RxNext, Driver
<1> QED
  BY <1>1, <1>2

-----------------------------------------------------------------------------
(* The results *)

\* The inductive invariant holds in every reachable state.
THEOREM Invariance == RxSpec => []IInv
<1>1. RxInit(RX_BUFFERS, "idle") => IInv
  BY InitInv
<1>2. IInv /\ [RxNext]_rxVars => IInv'
  BY StepInv
<1> QED
  BY <1>1, <1>2, PTL DEF RxSpec

\* Every variable stays within its type; no slot number leaves the ring.
THEOREM TypeCorrect == RxSpec => []RxTypeOK
<1>1. IInv => RxTypeOK
  BY DEF IInv
<1> QED
  BY <1>1, Invariance, PTL

\* poll and mark_done lose no buffer, and mark_done overwrites none: the slot at the
\* tail is empty, or the one the buffer comes from, however late a packet comes back.
THEOREM Conserved == RxSpec => []BuffersConserved
<1>1. IInv => BuffersConserved
  <2> SUFFICES ASSUME IInv PROVE BuffersConserved
    OBVIOUS
  <2>1. RxTypeOK /\ RingInv
    BY DEF IInv
  <2>2. Cardinality({i \in RxIndex : rx_buffers[i].buffer}) = RX_BUFFERS
    BY <2>1 DEF RingInv
  <2>3. ASSUME rx_pc = "recycle" PROVE rdt = last \/ rx_buffers[rdt] = ZeroInfo
    <3>1. PICK cur \in Seq(RxIndex) : LinksInv(cur)
      BY DEF IInv
    <3>2. cur # << >> /\ last = End(cur) /\ cur \in Chains(cur)
      BY <2>3, <3>1 DEF LinksInv, Chains
    <3>3. ChainOK(cur)
      BY <3>1, <3>2 DEF LinksInv
    <3>4. PICK l \in Held : l = last
      BY <2>1, <3>2, <3>3, ChainIs
    <3> QED
      BY <2>1, <3>4, TailFree
  <2> QED
    BY <2>2, <2>3 DEF BuffersConserved
<1> QED
  BY <1>1, Invariance, PTL

\* What poll collects backwards, from the links it noted, is the chain.
LEMMA FragmentsAre ==
    ASSUME RxTypeOK, NEW c \in Seq(RxIndex), ChainOK(c), last = End(c),
           \A k \in 1 .. Len(c) : Examined(c[k])
    PROVE  FragmentList = c
<1>1. PICK L \in Nat : L = Len(c) /\ L >= 1
  BY ChainIs
<1>2. c[L] = last /\ c = [k \in 1 .. L |-> c[k]] /\ rx_buffers[last].rsc_number + 1 = L
  <2>1. c[L] = last /\ c = [k \in 1 .. L |-> c[k]]
    BY <1>1 DEF End
  <2>2. CASE L = 1
    BY <2>1, <2>2 DEF ChainOK, Plain
  <2>3. CASE L # 1
    <3>1. PICK k \in 1 .. L - 1 : k + 1 = L /\ k \in 1 .. L
      <4>1. L - 1 \in 1 .. L - 1 /\ (L - 1) + 1 = L
        BY <1>1, <2>3
      <4> QED
        BY <4>1
    <3>2. Linked(rx_buffers[c[k + 1]], c[k], k)
      BY <1>1, <3>1 DEF ChainOK
    <3> QED
      BY <2>1, <3>1, <3>2 DEF Linked
  <2> QED
    BY <2>1, <2>2, <2>3
<1>3. \A k \in 1 .. L - 1 : rx_buffers[c[k + 1]].rsc_last = c[k]
  <2> SUFFICES ASSUME NEW k \in 1 .. L - 1 PROVE rx_buffers[c[k + 1]].rsc_last = c[k]
    OBVIOUS
  <2>1. k \in 1 .. Len(c) - 1 /\ k \in 1 .. Len(c)
    BY <1>1
  <2>2. Examined(c[k])
    BY <2>1
  <2>3. Linked(rx_buffers[c[k + 1]], c[k], k)
    BY <2>1, <2>2 DEF ChainOK
  <2> QED
    BY <2>3 DEF Linked
<1> DEFINE Back(s) == [k \in 1 .. L |-> IF k = L THEN last ELSE rx_buffers[s[k + 1]].rsc_last]
<1>4. c = Back(c)
  <2>1. \A k \in 1 .. L : c[k] = IF k = L THEN last ELSE rx_buffers[c[k + 1]].rsc_last
    <3> SUFFICES ASSUME NEW k \in 1 .. L
                 PROVE  c[k] = IF k = L THEN last ELSE rx_buffers[c[k + 1]].rsc_last
      OBVIOUS
    <3>1. k = L \/ k \in 1 .. L - 1
      OBVIOUS
    <3> QED
      BY <1>2, <1>3, <3>1
  <2> QED
    BY <1>2, <2>1
<1>5. ASSUME NEW s, s = Back(s) PROVE s = c
  <2>1. s[L] = last /\ \A k \in 1 .. L - 1 : s[k] = rx_buffers[s[k + 1]].rsc_last
    BY <1>1, <1>5
  <2> DEFINE Wrong == {m \in Nat : m < L /\ s[L - m] # c[L - m]}
  <2>2. ASSUME Wrong # {} PROVE FALSE
    <3>1. PICK m \in Wrong : \A j \in Wrong : ~ (<<j, m>> \in OpToRel(<, Nat))
      BY <2>2, NatLessThanWellFounded, WFMin
    <3>2. m \in Nat /\ m < L /\ s[L - m] # c[L - m]
      OBVIOUS
    <3>3. m # 0
      BY <1>2, <2>1, <3>2
    <3>4. PICK j \in Nat : m = j + 1 /\ j < L
      <4>1. m - 1 \in Nat /\ m = (m - 1) + 1 /\ m - 1 < L
        BY <3>2, <3>3
      <4> QED
        BY <4>1
    <3>5. <<j, m>> \in OpToRel(<, Nat)
      BY <3>2, <3>4 DEF OpToRel
    <3>6. s[L - j] = c[L - j]
      BY <3>1, <3>4, <3>5
    <3>7. PICK k \in 1 .. L - 1 : k = L - m /\ k + 1 = L - j
      <4>1. L - m \in 1 .. L - 1 /\ (L - m) + 1 = L - j
        BY <3>2, <3>3, <3>4
      <4> QED
        BY <4>1
    <3>8. s[k] = c[k]
      BY <1>3, <2>1, <3>6, <3>7
    <3> QED
      BY <3>2, <3>7, <3>8
  <2>3. ASSUME NEW k \in 1 .. L PROVE s[k] = c[k]
    <3>1. PICK m \in Nat : m = L - k /\ m < L /\ L - m = k
      <4>1. L - k \in Nat /\ L - k < L /\ L - (L - k) = k
        OBVIOUS
      <4> QED
        BY <4>1
    <3> QED
      BY <2>2, <3>1
  <2>4. s = [k \in 1 .. L |-> s[k]]
    <3>1. DOMAIN s = 1 .. L
      BY <1>5
    <3> QED
      BY <1>5, <3>1
  <2> QED
    BY <1>2, <2>3, <2>4
<1>6. FragmentList = CHOOSE s : s = Back(s)
  BY <1>2 DEF FragmentList
<1> HIDE DEF Back
<1> QED
  BY <1>4, <1>5, <1>6

\* The fragments of a packet are the buffers its frame was received into, in order,
\* however the chains are interleaved in the ring.
THEOREM Whole == RxSpec => []FramesWhole
<1>1. IInv => FramesWhole
  <2> SUFFICES ASSUME IInv, rx_pc = "switch" PROVE FragmentList = frame[last]
    BY DEF FramesWhole
  <2>1. PICK cur \in Seq(RxIndex) : LinksInv(cur)
    BY DEF IInv
  <2>2. /\ cur # << >> /\ last = End(cur) /\ cur \in Chains(cur) /\ cur = frame[last]
        /\ \A k \in 1 .. Len(cur) : Examined(cur[k])
    BY <2>1 DEF LinksInv, Chains
  <2>3. ChainOK(cur)
    BY <2>1, <2>2 DEF LinksInv
  <2> QED
    BY <2>2, <2>3, FragmentsAre DEF IInv
<1> QED
  BY <1>1, Invariance, PTL

=============================================================================
