---------------------------- MODULE VirtQueueProofs ----------------------------
(***************************************************************************)
(* Proofs about VirtQueue, for every ring size, index width, batch size    *)
(* and any packets: no chain of a port that behaves is lost or in two      *)
(* places, packets are whole when they are published, no interrupt is      *)
(* lost, and only a port that misbehaved is thrown out. And the two queues *)
(* together are a link in the sense of PacketLink: what the sender has not *)
(* got back are its last packets, in the order sent, and what the receiver *)
(* finds grows by one packet at a time, the one in hand, whole or cut short.*)
(***************************************************************************)
EXTENDS VirtQueue, Enumeration

-----------------------------------------------------------------------------
(* The inductive invariant *)

\* The chains of queue q, one by one: those the guest has added and the device has
\* not popped; those the guest has not taken, and behind them, while receive is
\* under way, those that are filled and not yet published.
AddedAt(q, a)    == avail_ring[q][Slot(Plus(last_avail_idx[q], a))]
ReturnedAt(q, r) == used_ring[q][Slot(Plus(seen[q], r))]
NumReturned(q)   == Minus(used_idx[q], seen[q])
NumFilled(q)     == IF q = "rx" /\ pc = "receive" THEN num_descriptors ELSE 0

AddedRange(q)    == 0 .. NumHeads(q) - 1
ReturnedRange(q) == 0 .. NumReturned(q) + NumFilled(q) - 1

\* The place of the loop and what it has in hand.
PlaceInv ==
    /\ head = NoHead <=> pc \in {"poll", "rx_irq", "tx_irq"}
    /\ head # NoHead => Ready("tx")
    /\ pc = "receive" => port["rx"] = "driver_ok"
    /\ pc \notin {"receive", "done", "unwind"} => num_descriptors = 0 /\ first = NoHead
    /\ pc = "receive" => first = IF num_descriptors = 0 THEN NoHead
                                 ELSE ReturnedAt("rx", NumReturned("rx"))
    /\ port["tx"] # "broken" => inuse["tx"] = IF head = NoHead THEN 0 ELSE 1
    /\ port["rx"] # "broken" => inuse["rx"] = NumFilled("rx")

\* No chain of queue q is in two places, the packet in hand included.
Apart(q) ==
    /\ \A a, b \in AddedRange(q) : AddedAt(q, a) = AddedAt(q, b) => a = b
    /\ \A r, s \in ReturnedRange(q) : ReturnedAt(q, r) = ReturnedAt(q, s) => r = s
    /\ \A a \in AddedRange(q), r \in ReturnedRange(q) : AddedAt(q, a) # ReturnedAt(q, r)
    /\ \A a \in AddedRange(q) : AddedAt(q, a) \notin owned[q]
    /\ \A r \in ReturnedRange(q) : ReturnedAt(q, r) \notin owned[q]

HeadApart ==
    /\ head \notin owned["tx"]
    /\ \A a \in AddedRange("tx") : AddedAt("tx", a) # head
    /\ \A r \in ReturnedRange("tx") : ReturnedAt("tx", r) # head

ApartInv == HeadApart /\ \A q \in Queues : Apart(q)

\* Every chain is somewhere, unless the port is broken.
Covered(q) ==
    \A h \in Heads :
        \/ h \in owned[q]
        \/ \E a \in AddedRange(q) : h = AddedAt(q, a)
        \/ \E r \in ReturnedRange(q) : h = ReturnedAt(q, r)
        \/ q = "tx" /\ h = head

CoverInv == \A q \in Queues : port[q] # "broken" => Covered(q)

\* A chain the sender does not own holds a packet.
ContentInv == \A h \in Heads : h \notin owned["tx"] => content[h] \in Packets

\* What the receiver can see is packets, each with its parts in order behind its
\* header; and what receive has filled is the beginning of the packet in hand.
PartAt(r)   == part[ReturnedAt("rx", r)]
HeaderAt(r) == num_buffers[ReturnedAt("rx", r)]

PacketInv ==
    LET R == NumReturned("rx")
    IN  /\ R > 0 => PartAt(0)[2] = 1
        /\ \A r \in 0 .. R - 1 : PartAt(r)[1] \in Packets
        /\ \A r \in 0 .. R - 1 : PartAt(r)[2] = 1 =>
               /\ HeaderAt(r) \in 1 .. R - r
               /\ \A s \in r .. r + HeaderAt(r) - 1 : PartAt(s) = <<PartAt(r)[1], s - r + 1>>
               /\ \A s \in 0 .. R - 1 : s = r + HeaderAt(r) => PartAt(s)[2] = 1
        /\ pc = "receive" =>
               \A r \in R .. R + num_descriptors - 1 : PartAt(r) = <<content[head], r - R + 1>>

\* A driver that sleeps, or is about to, has interrupts on; one that sleeps with
\* entries in its used ring is going to be woken.
InterruptInv ==
    \A q \in Queues :
        /\ driver[q] # "awake" => ~no_interrupt[q]
        /\ driver[q] = "asleep" /\ Unread(q) /\ ~Detached(q) => irq[q] \/ pending_irq[q]

IInv ==
    /\ TypeOK
    /\ PlaceInv
    /\ ApartInv
    /\ CoverInv
    /\ ContentInv
    /\ PacketInv
    /\ InterruptInv
    /\ BrokenOnlyIfIllegal

-----------------------------------------------------------------------------
(* Ring indices *)

\* Indices are wide enough for twice the ring, and wrap where the ring wraps.
LEMMA Widths ==
    /\ QUEUE_ELEMENTS \in Nat \ {0}
    /\ IndexModulus \in Nat \ {0}
    /\ IndexModulus >= 2 * QUEUE_ELEMENTS
    /\ \E k \in Nat : IndexModulus = QUEUE_ELEMENTS * k
<1>1. PICK n \in 1 .. QUEUE_ELEMENTS : IndexModulus = 2 * n * QUEUE_ELEMENTS
  BY RingAssumption
<1>2. n \in Nat /\ n >= 1 /\ QUEUE_ELEMENTS \in Nat \ {0}
  BY RingAssumption
<1>3. 2 * n * QUEUE_ELEMENTS = QUEUE_ELEMENTS * (2 * n) /\ 2 * n \in Nat
  BY <1>2
<1>4. 2 * n * QUEUE_ELEMENTS >= 2 * QUEUE_ELEMENTS
  BY <1>2
<1> QED
  BY <1>1, <1>2, <1>3, <1>4

\* A quotient and a remainder.
LEMMA Division ==
    ASSUME NEW i \in Int, NEW d \in Nat \ {0}
    PROVE  i % d \in 0 .. d - 1 /\ \E k \in Int : i = d * k + (i % d)
<1>1. i % d \in 0 .. d - 1
  OBVIOUS
<1>2. i \div d \in Int /\ i = d * (i \div d) + (i % d)
  OBVIOUS
<1> DEFINE k == i \div d
<1> HIDE DEF k
<1>3. k \in Int /\ i = d * k + (i % d)
  BY <1>2 DEF k
<1> QED
  BY <1>1, <1>3

\* ... which are the only ones.
LEMMA Remainder ==
    ASSUME NEW d \in Nat \ {0}, NEW k \in Int, NEW x \in 0 .. d - 1
    PROVE  (d * k + x) % d = x
  OBVIOUS

\* A second modulo that divides the first.
LEMMA ModuloTwice ==
    ASSUME NEW d \in Nat \ {0}, NEW k \in Nat, d * k \in Nat \ {0}, NEW x \in Int
    PROVE  (x % (d * k)) % d = x % d
<1> DEFINE y == x % (d * k)
<1>1. PICK m \in Int : x = (d * k) * m + y
  BY Division
<1>2. y \in Int
  BY Division
<1> HIDE DEF y
<1>3. PICK n \in Int : y = d * n + (y % d)
  BY <1>2, Division
<1>4. y % d \in 0 .. d - 1
  BY <1>2, Division
<1>5. (d * k) * m = d * (k * m) /\ k * m \in Int
  OBVIOUS
<1>6. x = d * (k * m + n) + (y % d)
  BY <1>1, <1>3, <1>4, <1>5
<1>7. x % d = y % d
  <2> DEFINE z == k * m + n
  <2>1. z \in Int
    BY <1>5
  <2> HIDE DEF z
  <2> QED
    BY <1>4, <1>6, <2>1, Remainder DEF z
<1> QED
  BY <1>7 DEF y

\* A summand may be reduced first.
LEMMA ModuloOfSum ==
    ASSUME NEW d \in Nat \ {0}, NEW x \in Int, NEW n \in Int
    PROVE  ((x % d) + n) % d = (x + n) % d
<1> DEFINE y == x % d
           z == (x + n) % d
<1>1. PICK k \in Int : x = d * k + y
  BY Division
<1>2. x + n \in Int
  OBVIOUS
<1>3. PICK m \in Int : x + n = d * m + z
  BY <1>2, Division
<1>4. y \in Int /\ z \in 0 .. d - 1
  BY <1>2, Division
<1> HIDE DEF y, z
<1>5. PICK q \in Int : q = m - k
  OBVIOUS
<1>6. y + n = d * q + z
  BY <1>1, <1>3, <1>4, <1>5
<1>7. (y + n) % d = z
  BY <1>4, <1>6, Remainder
<1> QED
  BY <1>7 DEF y, z

\* Advancing an index moves on by as many slots, whether it wraps or not.
LEMMA SlotOfPlus ==
    ASSUME NEW i \in Int, NEW n \in Int
    PROVE  Slot(Plus(i, n)) = Slot(i + n)
<1>1. PICK k \in Nat : IndexModulus = QUEUE_ELEMENTS * k
  BY Widths
<1>2. i + n \in Int
  OBVIOUS
<1>3. ((i + n) % (QUEUE_ELEMENTS * k)) % QUEUE_ELEMENTS = (i + n) % QUEUE_ELEMENTS
  BY <1>1, <1>2, Widths, ModuloTwice
<1> QED
  BY <1>1, <1>3 DEF Slot, Plus

\* Entries closer together than the ring is long are in different slots.
LEMMA SlotsApart ==
    ASSUME NEW i \in Int, NEW j \in Int, i < j, j - i < QUEUE_ELEMENTS
    PROVE  Slot(i) # Slot(j)
<1> DEFINE Q == QUEUE_ELEMENTS
<1>1. SUFFICES ASSUME i % Q = j % Q PROVE FALSE
  BY DEF Slot
<1>2. PICK k \in Int : i = Q * k + (i % Q)
  BY Widths, Division
<1>3. PICK m \in Int : j = Q * m + (j % Q)
  BY Widths, Division
<1>4. i % Q \in Int
  BY Widths, Division
<1>5. j - i = Q * (m - k)
  BY <1>1, <1>2, <1>3, <1>4, Widths
<1>6. Q * (m - k) <= 0 \/ Q * (m - k) >= Q
  <2>1. CASE m - k <= 0
    BY <2>1, Widths
  <2>2. CASE m - k >= 1
    BY <2>2, Widths
  <2> QED
    BY <2>1, <2>2
<1> QED
  BY <1>5, <1>6, Widths

LEMMA SlotType == ASSUME NEW i \in Int PROVE Slot(i) \in Slots
  BY Widths DEF Slot, Slots

LEMMA PlusType == ASSUME NEW i \in Int, NEW n \in Int PROVE Plus(i, n) \in Indices
  BY Widths DEF Plus, Indices

\* Differences and sums, without the modulo.
LEMMA MinusIs ==
    ASSUME NEW i \in Indices, NEW j \in Indices
    PROVE  Minus(i, j) = IF j <= i THEN i - j ELSE i - j + IndexModulus
<1>1. CASE j <= i
  BY <1>1, Widths DEF Minus, Indices
<1>2. CASE ~ (j <= i)
  <2>1. i - j = IndexModulus * (0 - 1) + (i - j + IndexModulus)
    BY Widths DEF Indices
  <2>2. i - j + IndexModulus \in 0 .. IndexModulus - 1
    BY <1>2, Widths DEF Indices
  <2> QED
    BY <1>2, <2>1, <2>2, Widths, Remainder DEF Minus
<1> QED
  BY <1>1, <1>2

LEMMA PlusIs ==
    ASSUME NEW i \in Indices, NEW n \in 0 .. IndexModulus
    PROVE  Plus(i, n) = IF i + n < IndexModulus THEN i + n ELSE i + n - IndexModulus
  BY Widths DEF Plus, Indices

LEMMA MinusType ==
    ASSUME NEW i \in Indices, NEW j \in Indices
    PROVE  /\ Minus(i, j) \in 0 .. IndexModulus - 1
           /\ Minus(i, j) = 0 <=> i = j
  BY MinusIs, Widths DEF Indices

\* The distance grows as the front moves on, and shrinks as the back does.
LEMMA FrontMoves ==
    ASSUME NEW i \in Indices, NEW j \in Indices, NEW n \in Nat,
           Minus(i, j) + n < IndexModulus
    PROVE  Minus(Plus(i, n), j) = Minus(i, j) + n
<1>1. n \in 0 .. IndexModulus
  BY MinusType, Widths
<1>2. PICK k \in Indices : k = Plus(i, n)
  BY PlusType DEF Indices
<1>3. k = IF i + n < IndexModulus THEN i + n ELSE i + n - IndexModulus
  BY <1>1, <1>2, PlusIs
<1>4. /\ Minus(i, j) = IF j <= i THEN i - j ELSE i - j + IndexModulus
      /\ Minus(k, j) = IF j <= k THEN k - j ELSE k - j + IndexModulus
  BY MinusIs
<1> QED
  BY <1>1, <1>2, <1>3, <1>4, Widths DEF Indices

LEMMA BackMoves ==
    ASSUME NEW i \in Indices, NEW j \in Indices, NEW n \in 0 .. Minus(i, j)
    PROVE  Minus(i, Plus(j, n)) = Minus(i, j) - n
<1>1. n \in 0 .. IndexModulus
  BY MinusType, Widths
<1>2. PICK k \in Indices : k = Plus(j, n)
  BY <1>1, PlusType DEF Indices
<1>3. k = IF j + n < IndexModulus THEN j + n ELSE j + n - IndexModulus
  BY <1>1, <1>2, PlusIs
<1>4. /\ Minus(i, j) = IF j <= i THEN i - j ELSE i - j + IndexModulus
      /\ Minus(i, k) = IF k <= i THEN i - k ELSE i - k + IndexModulus
  BY MinusIs
<1> QED
  BY <1>1, <1>2, <1>3, <1>4, Widths DEF Indices

\* Where the n-th entry behind index i is does not depend on the way there.
LEMMA PlusPlus ==
    ASSUME NEW i \in Int, NEW m \in Int, NEW n \in Int
    PROVE  Plus(Plus(i, m), n) = Plus(i, m + n)
<1>1. PICK x \in Int : x = i + m
  OBVIOUS
<1>2. ((x % IndexModulus) + n) % IndexModulus = (x + n) % IndexModulus
  BY Widths, ModuloOfSum
<1>3. x + n = i + (m + n)
  BY <1>1
<1> QED
  BY <1>1, <1>2, <1>3 DEF Plus


LEMMA PlusMinus ==
    ASSUME NEW i \in Indices, NEW j \in Indices
    PROVE  Plus(j, Minus(i, j)) = i
<1>1. Minus(i, j) = IF j <= i THEN i - j ELSE i - j + IndexModulus
  BY MinusIs
<1>2. Minus(i, j) \in 0 .. IndexModulus
  BY MinusType, Widths
<1> QED
  BY <1>1, <1>2, PlusIs, Widths DEF Indices

-----------------------------------------------------------------------------
(* What a step on a ring does to the chains in it *)

LEMMA RingTypes ==
    ASSUME TypeOK, NEW q \in Queues
    PROVE  /\ avail_idx[q] \in Indices /\ last_avail_idx[q] \in Indices
           /\ used_idx[q] \in Indices /\ seen[q] \in Indices
           /\ avail_idx[q] \in Int /\ last_avail_idx[q] \in Int
           /\ used_idx[q] \in Int /\ seen[q] \in Int
           /\ \A a \in Int : AddedAt(q, a) \in Heads /\ ReturnedAt(q, a) \in Heads
           /\ NumHeads(q) \in 0 .. IndexModulus - 1
           /\ NumReturned(q) \in 0 .. IndexModulus - 1
<1>1. /\ avail_idx[q] \in Indices /\ last_avail_idx[q] \in Indices
      /\ used_idx[q] \in Indices /\ seen[q] \in Indices
      /\ avail_ring[q] \in [Slots -> Heads] /\ used_ring[q] \in [Slots -> Heads]
  BY DEF TypeOK
<1>2. /\ avail_idx[q] \in Int /\ last_avail_idx[q] \in Int
      /\ used_idx[q] \in Int /\ seen[q] \in Int
  BY <1>1 DEF Indices
<1>3. ASSUME NEW i \in Int, NEW a \in Int PROVE Slot(Plus(i, a)) \in Slots
  BY PlusType, SlotType DEF Indices
<1>4. \A a \in Int : AddedAt(q, a) \in Heads /\ ReturnedAt(q, a) \in Heads
  BY <1>1, <1>2, <1>3 DEF AddedAt, ReturnedAt
<1> QED
  BY <1>1, <1>2, <1>4, MinusType DEF NumHeads, NumReturned

\* vq_pop_generic takes the oldest chain off the ring.
LEMMA PopEffect ==
    ASSUME TypeOK, NEW q \in Queues, NumHeads(q) > 0,
           last_avail_idx' = [last_avail_idx EXCEPT ![q] = Plus(@, 1)],
           UNCHANGED <<avail_idx, avail_ring>>
    PROVE  /\ NumHeads(q)' = NumHeads(q) - 1
           /\ \A a \in Int : AddedAt(q, a)' = AddedAt(q, a + 1)
           /\ NextHead(q) = AddedAt(q, 0)
           /\ last_avail_idx' \in [Queues -> Indices]
           /\ \A p \in Queues \ {q} : /\ NumHeads(p)' = NumHeads(p)
                                      /\ \A a \in Int : AddedAt(p, a)' = AddedAt(p, a)
<1>1. /\ last_avail_idx'[q] = Plus(last_avail_idx[q], 1)
      /\ \A p \in Queues \ {q} : last_avail_idx'[p] = last_avail_idx[p]
  BY DEF TypeOK
<1>2. avail_idx[q] \in Indices /\ last_avail_idx[q] \in Indices /\ last_avail_idx[q] \in Int
  BY RingTypes
<1>3. 1 \in 0 .. NumHeads(q)
  BY RingTypes
<1>4. NumHeads(q)' = NumHeads(q) - 1
  BY <1>1, <1>2, <1>3, BackMoves DEF NumHeads
<1>5. ASSUME NEW a \in Int PROVE AddedAt(q, a)' = AddedAt(q, a + 1)
  <2>1. PICK i \in Int : i = last_avail_idx[q]
    BY <1>2
  <2>2. Plus(Plus(i, 1), a) = Plus(i, 1 + a)
    BY PlusPlus
  <2>3. 1 + a = a + 1
    OBVIOUS
  <2> QED
    BY <1>1, <2>1, <2>2, <2>3 DEF AddedAt
<1>6. NextHead(q) = AddedAt(q, 0)
  <2>1. Slot(Plus(last_avail_idx[q], 0)) = Slot(last_avail_idx[q] + 0)
    BY <1>2, SlotOfPlus
  <2>2. last_avail_idx[q] + 0 = last_avail_idx[q]
    BY <1>2
  <2> QED
    BY <2>1, <2>2 DEF NextHead, AddedAt
<1>7. \A p \in Queues \ {q} : /\ NumHeads(p)' = NumHeads(p)
                              /\ \A a \in Int : AddedAt(p, a)' = AddedAt(p, a)
  BY <1>1 DEF NumHeads, AddedAt
<1>8. last_avail_idx' \in [Queues -> Indices]
  <2>1. PICK i \in Int : i = last_avail_idx[q]
    BY <1>2
  <2>2. Plus(i, 1) \in Indices
    BY PlusType
  <2> QED
    BY <2>1, <2>2 DEF TypeOK
<1> QED
  BY <1>4, <1>5, <1>6, <1>7, <1>8

\* The driver appends a chain, if there is room in the ring.
LEMMA AddEffect ==
    ASSUME TypeOK, NEW q \in Queues, NEW h \in Heads, Add(q, h),
           NumHeads(q) < QUEUE_ELEMENTS, UNCHANGED last_avail_idx
    PROVE  /\ NumHeads(q)' = NumHeads(q) + 1
           /\ \A a \in AddedRange(q) : AddedAt(q, a)' = AddedAt(q, a)
           /\ \A a \in Int : a = NumHeads(q) => AddedAt(q, a)' = h
           /\ \A p \in Queues \ {q} : /\ NumHeads(p)' = NumHeads(p)
                                      /\ \A a \in Int : AddedAt(p, a)' = AddedAt(p, a)
<1> DEFINE i == last_avail_idx[q]
           n == NumHeads(q)
<1>1. /\ avail_idx'[q] = Plus(avail_idx[q], 1)
      /\ avail_ring'[q] = [avail_ring[q] EXCEPT ![Slot(avail_idx[q])] = h]
      /\ \A p \in Queues \ {q} : avail_idx'[p] = avail_idx[p] /\ avail_ring'[p] = avail_ring[p]
  BY DEF Add, TypeOK
<1>2. /\ avail_idx[q] \in Indices /\ avail_idx[q] \in Int
      /\ i \in Indices /\ i \in Int
      /\ n \in 0 .. IndexModulus - 1 /\ n \in Int
      /\ avail_ring[q] \in [Slots -> Heads]
  BY RingTypes DEF TypeOK
<1>3. NumHeads(q)' = n + 1
  BY <1>1, <1>2, FrontMoves, Widths DEF NumHeads
<1>4. Plus(i, n) = avail_idx[q]
  BY <1>2, PlusMinus DEF NumHeads
<1> DEFINE s == Slot(avail_idx[q])
<1> HIDE DEF i, n
<1>5. s = Slot(Plus(i, n)) /\ s = Slot(i + n) /\ s \in Slots
  BY <1>2, <1>4, SlotOfPlus, SlotType
<1> HIDE DEF s
<1>6. ASSUME NEW a \in AddedRange(q) PROVE AddedAt(q, a)' = AddedAt(q, a)
  <2>1. a \in Int /\ i + a \in Int /\ i + n \in Int /\ i + a < i + n
        /\ (i + n) - (i + a) < QUEUE_ELEMENTS
    BY <1>2, Widths DEF AddedRange, n
  <2>2. Slot(i + a) # Slot(i + n)
    BY <2>1, SlotsApart
  <2>3. Slot(Plus(i, a)) = Slot(i + a)
    BY <1>2, <2>1, SlotOfPlus
  <2> QED
    BY <1>1, <1>2, <1>5, <2>2, <2>3 DEF AddedAt, i, s
<1>7. ASSUME NEW a \in Int, a = n PROVE AddedAt(q, a)' = h
  BY <1>1, <1>2, <1>5, <1>7 DEF AddedAt, i, s
<1>8. \A p \in Queues \ {q} : /\ NumHeads(p)' = NumHeads(p)
                              /\ \A a \in Int : AddedAt(p, a)' = AddedAt(p, a)
  BY <1>1 DEF NumHeads, AddedAt
<1> QED
  BY <1>3, <1>6, <1>7, <1>8 DEF n

\* vq_fill writes the entry behind those that are published or filled.
LEMMA FillEffect ==
    ASSUME TypeOK, NEW q \in Queues, NEW h \in Heads, NEW idx \in Nat, Fill(q, h, idx),
           NumReturned(q) + idx < QUEUE_ELEMENTS, UNCHANGED seen
    PROVE  /\ \A r \in 0 .. NumReturned(q) + idx - 1 : ReturnedAt(q, r)' = ReturnedAt(q, r)
           /\ \A r \in Int : r = NumReturned(q) + idx => ReturnedAt(q, r)' = h
           /\ \A p \in Queues \ {q}, r \in Int : ReturnedAt(p, r)' = ReturnedAt(p, r)
<1> DEFINE i == seen[q]
           k == NumReturned(q)
           n == k + idx
           s == Slot(used_idx[q] + idx)
<1>1. /\ used_ring'[q] = [used_ring[q] EXCEPT ![Slot(used_idx[q] + idx)] = h]
      /\ \A p \in Queues \ {q} : used_ring'[p] = used_ring[p]
  BY DEF Fill, TypeOK
<1>2. /\ used_idx[q] \in Indices /\ used_idx[q] \in Int
      /\ i \in Indices /\ i \in Int
      /\ used_ring[q] \in [Slots -> Heads]
  BY RingTypes DEF TypeOK
<1>3. k \in Nat /\ k \in Int /\ k + idx < QUEUE_ELEMENTS
  BY RingTypes
<1>4. Plus(i, k) = used_idx[q]
  BY <1>2, PlusMinus DEF NumReturned
<1> HIDE DEF i, k
<1>5. PICK x \in Int, y \in Int, z \in Int : x = i /\ y = k /\ z = used_idx[q]
  BY <1>2, <1>3
<1>6. Plus(Plus(x, y), idx) = Plus(x, y + idx)
  BY PlusPlus
<1>7. /\ Slot(Plus(x, y + idx)) = Slot(x + (y + idx))
      /\ Slot(Plus(z, idx)) = Slot(z + idx)
      /\ Slot(z + idx) \in Slots
  <2>1. PICK w \in Int, v \in Int : w = y + idx /\ v = z + idx
    OBVIOUS
  <2>2. Slot(Plus(x, w)) = Slot(x + w) /\ Slot(v) \in Slots
    BY SlotOfPlus, SlotType
  <2>3. Slot(Plus(z, idx)) = Slot(z + idx)
    BY SlotOfPlus
  <2> QED
    BY <2>1, <2>2, <2>3
<1>8. s = Slot(Plus(i, n)) /\ s = Slot(i + n) /\ s \in Slots /\ n \in Int
  BY <1>3, <1>4, <1>5, <1>6, <1>7
<1> HIDE DEF s
<1>9. ASSUME NEW r \in 0 .. n - 1 PROVE ReturnedAt(q, r)' = ReturnedAt(q, r)
  <2>1. r \in Int /\ i + r \in Int /\ i + n \in Int /\ i + r < i + n
        /\ (i + n) - (i + r) < QUEUE_ELEMENTS
    BY <1>2, <1>3, <1>8, Widths
  <2> HIDE DEF n
  <2>2. Slot(i + r) # Slot(i + n)
    BY <2>1, SlotsApart
  <2>3. Slot(Plus(i, r)) = Slot(i + r)
    BY <1>2, <2>1, SlotOfPlus
  <2> QED
    BY <1>1, <1>2, <1>8, <2>2, <2>3 DEF ReturnedAt, i, s
<1>10. ASSUME NEW r \in Int, r = n PROVE ReturnedAt(q, r)' = h
  <2> HIDE DEF n
  <2> QED
    BY <1>1, <1>2, <1>8, <1>10 DEF ReturnedAt, i, s
<1>11. \A p \in Queues \ {q}, r \in Int : ReturnedAt(p, r)' = ReturnedAt(p, r)
  BY <1>1 DEF ReturnedAt
<1>12. 0 .. n - 1 = 0 .. k + idx - 1
  BY <1>3
<1> QED
  BY <1>9, <1>10, <1>11, <1>12 DEF k

\* vq_flush publishes entries.
LEMMA FlushEffect ==
    ASSUME TypeOK, NEW q \in Queues, NEW n \in Nat, NumReturned(q) + n <= QUEUE_ELEMENTS,
           Flush(q, n), UNCHANGED seen
    PROVE  /\ NumReturned(q)' = NumReturned(q) + n
           /\ \A p \in Queues \ {q} : NumReturned(p)' = NumReturned(p)
<1>1. /\ used_idx'[q] = Plus(used_idx[q], n)
      /\ \A p \in Queues \ {q} : used_idx'[p] = used_idx[p]
  BY DEF Flush, TypeOK
<1>2. NumReturned(q) + n < IndexModulus
  BY RingTypes, Widths
<1> QED
  BY <1>1, <1>2, RingTypes, FrontMoves DEF NumReturned

\* The driver takes the oldest entries.
LEMMA TakeEffect ==
    ASSUME TypeOK, NEW q \in Queues, NEW n \in 0 .. NumReturned(q),
           seen' = [seen EXCEPT ![q] = Plus(@, n)], UNCHANGED <<used_idx, used_ring>>
    PROVE  /\ NumReturned(q)' = NumReturned(q) - n
           /\ \A r \in Int : ReturnedAt(q, r)' = ReturnedAt(q, r + n)
           /\ \A p \in Queues \ {q} : /\ NumReturned(p)' = NumReturned(p)
                                      /\ \A r \in Int : ReturnedAt(p, r)' = ReturnedAt(p, r)
<1>1. /\ seen'[q] = Plus(seen[q], n)
      /\ \A p \in Queues \ {q} : seen'[p] = seen[p]
  BY DEF TypeOK
<1>2. used_idx[q] \in Indices /\ seen[q] \in Indices /\ n \in Int
  BY RingTypes
<1>3. NumReturned(q)' = NumReturned(q) - n
  BY <1>1, <1>2, BackMoves DEF NumReturned
<1>4. ASSUME NEW r \in Int PROVE ReturnedAt(q, r)' = ReturnedAt(q, r + n)
  <2>1. Plus(Plus(seen[q], n), r) = Plus(seen[q], n + r)
    BY <1>2, PlusPlus DEF Indices
  <2>2. n + r = r + n
    BY <1>2
  <2> QED
    BY <1>1, <2>1, <2>2 DEF ReturnedAt
<1>5. \A p \in Queues \ {q} : /\ NumReturned(p)' = NumReturned(p)
                              /\ \A r \in Int : ReturnedAt(p, r)' = ReturnedAt(p, r)
  BY <1>1 DEF NumReturned, ReturnedAt
<1> QED
  BY <1>3, <1>4, <1>5

-----------------------------------------------------------------------------
(* How many chains fit in a ring *)

\* As there are QUEUE_ELEMENTS chains, so many are apart at most, and one fewer if
\* one is elsewhere.
LEMMA PigeonHole ==
    ASSUME NEW n \in Nat, NEW f \in [0 .. n - 1 -> Heads],
           \A a, b \in 0 .. n - 1 : f[a] = f[b] => a = b
    PROVE  /\ n <= QUEUE_ELEMENTS
           /\ \A h \in Heads : (\A a \in 0 .. n - 1 : f[a] # h) => n < QUEUE_ELEMENTS
<1>1. IsFiniteSet(Heads) /\ Cardinality(Heads) = QUEUE_ELEMENTS
  BY Widths, FS_Interval DEF Heads
<1>2. Cardinality(0 .. n - 1) = n
  BY FS_Interval
<1>3. n <= QUEUE_ELEMENTS
  <2>1. f \in Injection(0 .. n - 1, Heads)
    BY Fun_IsInj
  <2> QED
    BY <1>1, <1>2, <2>1, FS_Injection
<1>4. ASSUME NEW h \in Heads, \A a \in 0 .. n - 1 : f[a] # h PROVE n < QUEUE_ELEMENTS
  <2> DEFINE others == Heads \ {h}
  <2>1. IsFiniteSet(others) /\ Cardinality(others) = QUEUE_ELEMENTS - 1
    BY <1>1, FS_RemoveElement
  <2>2. f \in [0 .. n - 1 -> others]
    BY <1>4
  <2> HIDE DEF others
  <2>3. f \in Injection(0 .. n - 1, others)
    BY <2>2, Fun_IsInj
  <2>4. n <= QUEUE_ELEMENTS - 1
    BY <1>2, <2>1, <2>3, FS_Injection
  <2> QED
    BY <2>4, Widths
<1> QED
  BY <1>3, <1>4

LEMMA RingBounds ==
    ASSUME TypeOK, ApartInv, NEW q \in Queues
    PROVE  /\ NumHeads(q) <= QUEUE_ELEMENTS
           /\ NumFilled(q) \in Nat
           /\ \A h \in owned[q] : NumHeads(q) < QUEUE_ELEMENTS
           /\ NumReturned(q) + NumFilled(q) <= QUEUE_ELEMENTS
           /\ NumHeads(q) > 0 => NumReturned(q) + NumFilled(q) < QUEUE_ELEMENTS
           /\ head \in Heads => NumReturned("tx") < QUEUE_ELEMENTS
<1> DEFINE n == NumHeads(q)
           m == NumReturned(q) + NumFilled(q)
           f == [a \in 0 .. n - 1 |-> AddedAt(q, a)]
           g == [r \in 0 .. m - 1 |-> ReturnedAt(q, r)]
<1>1. n \in Nat /\ m \in Nat /\ NumFilled(q) \in Nat /\ owned[q] \subseteq Heads
  <2>1. num_descriptors \in Nat /\ owned[q] \subseteq Heads
    BY Widths DEF TypeOK
  <2>2. NumFilled(q) \in Nat
    BY <2>1 DEF NumFilled
  <2> QED
    BY <2>1, <2>2, RingTypes
<1>2. f \in [0 .. n - 1 -> Heads] /\ g \in [0 .. m - 1 -> Heads]
  BY <1>1, RingTypes
<1>0. AddedRange(q) = 0 .. n - 1 /\ ReturnedRange(q) = 0 .. m - 1
  BY <1>1, RingTypes DEF AddedRange, ReturnedRange
<1> USE DEF ApartInv, Apart
<1>3. \A a, b \in 0 .. n - 1 : f[a] = f[b] => a = b
  BY <1>0
<1>4. \A r, s \in 0 .. m - 1 : g[r] = g[s] => r = s
  BY <1>0
<1>5. \A h \in owned[q], a \in 0 .. n - 1 : f[a] # h
  <2>1. \A a \in 0 .. n - 1 : AddedAt(q, a) \notin owned[q]
    BY <1>0
  <2> QED
    BY <2>1
<1>6. n > 0 => AddedAt(q, 0) \in Heads /\ \A r \in 0 .. m - 1 : g[r] # AddedAt(q, 0)
  <2>1. AddedAt(q, 0) \in Heads
    BY RingTypes
  <2>2. n > 0 => 0 \in AddedRange(q)
    BY <1>0, <1>1
  <2>3. n > 0 => \A r \in ReturnedRange(q) : AddedAt(q, 0) # ReturnedAt(q, r)
    BY <2>2
  <2> QED
    BY <1>0, <2>1, <2>3
<1> HIDE DEF n, m, f, g
<1>7. n <= QUEUE_ELEMENTS /\ \A h \in owned[q] : n < QUEUE_ELEMENTS
  BY <1>1, <1>2, <1>3, <1>5, PigeonHole, SMTT(30)
<1>8. m <= QUEUE_ELEMENTS /\ (n > 0 => m < QUEUE_ELEMENTS)
  BY <1>1, <1>2, <1>4, <1>6, PigeonHole
<1>9. head \in Heads => NumReturned("tx") < QUEUE_ELEMENTS
  <2> DEFINE k == NumReturned("tx")
             t == [r \in 0 .. k - 1 |-> ReturnedAt("tx", r)]
  <2>1. k \in Nat /\ t \in [0 .. k - 1 -> Heads]
    BY RingTypes DEF Queues
  <2>2. ReturnedRange("tx") = 0 .. k - 1
    BY <2>1 DEF ReturnedRange, NumFilled
  <2>3. \A r, s \in 0 .. k - 1 : t[r] = t[s] => r = s
    BY <2>2 DEF ApartInv, Apart, Queues
  <2>4. \A r \in 0 .. k - 1 : t[r] # head
    BY <2>2 DEF ApartInv, HeadApart
  <2> HIDE DEF k, t
  <2>5. head \in Heads => k < QUEUE_ELEMENTS
    BY <2>1, <2>3, <2>4, PigeonHole
  <2> QED
    BY <2>5 DEF k
<1> QED
  BY <1>1, <1>7, <1>8, <1>9 DEF n, m

-----------------------------------------------------------------------------
(* The steps *)

\* Where no chain of a queue moves, they stay apart, and where they were.
LEMMA QueueKept ==
    ASSUME NEW q \in Queues,
           AddedRange(q)' = AddedRange(q), ReturnedRange(q)' = ReturnedRange(q),
           \A a \in AddedRange(q) : AddedAt(q, a)' = AddedAt(q, a),
           \A r \in ReturnedRange(q) : ReturnedAt(q, r)' = ReturnedAt(q, r),
           owned'[q] = owned[q]
    PROVE  /\ Apart(q) => Apart(q)'
           /\ Covered(q) /\ (q = "tx" => head' = head) => Covered(q)'
           /\ q = "tx" /\ head' = head /\ HeadApart => HeadApart'
<1>1. Apart(q) => Apart(q)'
  BY DEF Apart
<1>2. Covered(q) /\ (q = "tx" => head' = head) => Covered(q)'
  BY DEF Covered
<1>3. q = "tx" /\ head' = head /\ HeadApart => HeadApart'
  BY DEF HeadApart
<1> QED
  BY <1>1, <1>2, <1>3

\* Steps that leave the rings, the buffers and their owners alone.
LEMMA RingsKept ==
    ASSUME IInv,
           UNCHANGED <<avail_idx, avail_ring, used_idx, used_ring, bufferVars,
                       last_avail_idx, head, num_descriptors, seen, owned>>,
           \A q \in Queues : NumFilled(q)' = NumFilled(q),
           \A q \in Queues : port'[q] # "broken" => port[q] # "broken"
    PROVE  ApartInv' /\ CoverInv' /\ ContentInv' /\ PacketInv'
<1>1. ASSUME NEW q \in Queues
      PROVE  /\ AddedRange(q)' = AddedRange(q) /\ ReturnedRange(q)' = ReturnedRange(q)
             /\ \A a \in AddedRange(q) : AddedAt(q, a)' = AddedAt(q, a)
             /\ \A r \in ReturnedRange(q) : ReturnedAt(q, r)' = ReturnedAt(q, r)
             /\ owned'[q] = owned[q]
  BY DEF AddedRange, ReturnedRange, AddedAt, ReturnedAt, NumHeads, NumReturned
<1>2. ApartInv'
  <2>1. \A q \in Queues : Apart(q)'
    BY <1>1, QueueKept DEF IInv, ApartInv
  <2>2. HeadApart'
    BY <1>1, QueueKept DEF IInv, ApartInv, Queues
  <2> QED
    BY <2>1, <2>2 DEF ApartInv
<1>3. CoverInv'
  BY <1>1, QueueKept DEF IInv, CoverInv
<1>4. ContentInv'
  BY DEF IInv, ContentInv, bufferVars
<1>5. PacketInv'
  <2>1. /\ NumReturned("rx")' = NumReturned("rx")
        /\ \A r \in Int : ReturnedAt("rx", r)' = ReturnedAt("rx", r)
        /\ part' = part /\ num_buffers' = num_buffers /\ content' = content
    BY DEF NumReturned, ReturnedAt, bufferVars
  <2>2. pc' = "receive" => pc = "receive" \/ num_descriptors = 0
    BY DEF NumFilled, Queues
  <2>3. num_descriptors \in Nat
    BY Widths DEF IInv, TypeOK
  <2>4. NumReturned("rx") \in Nat
    BY RingTypes DEF IInv, Queues
  <2> QED
    BY <2>1, <2>2, <2>3, <2>4 DEF IInv, PacketInv, PartAt, HeaderAt
<1> QED
  BY <1>2, <1>3, <1>4, <1>5

\* The steps that move no chain: the loop goes on to its next place or looks at
\* the interrupts, a driver starts up, or arms its interrupt and handles it.
Quiet ==
    \/ PollEmpty \/ SwitchElsewhere \/ SwitchToReceiver \/ ReceiveSlow
    \/ \E q \in Queues :
           PollIrq(q) \/ DriverOk(q) \/ Rearm(q) \/ Recheck(q) \/ Interrupt(q)


LEMMA QuietTypes == ASSUME IInv, Quiet PROVE TypeOK'
<1>1. TypeOK /\ BatchSize \in Nat \ {0}
  BY BatchAssumption DEF IInv
<1>2. CASE PollEmpty \/ SwitchElsewhere \/ SwitchToReceiver
  BY <1>1, <1>2 DEF TypeOK, PollEmpty, SwitchElsewhere, SwitchToReceiver, ringVars, bufferVars,
                    deviceVars, guestVars, LoopSteps
<1>3. CASE ReceiveSlow
  BY <1>1, <1>3 DEF TypeOK, ReceiveSlow, ringVars, bufferVars, deviceVars, guestVars, LoopSteps,
                    PortStates
<1>4. ASSUME NEW q \in Queues, PollIrq(q) PROVE TypeOK'
  <2>1. pending_irq' \in [Queues -> BOOLEAN] /\ irq' \in [Queues -> BOOLEAN]
    BY <1>1, <1>4 DEF TypeOK, PollIrq
  <2>2. pc' \in LoopSteps /\ quota' \in 0 .. BatchSize
    BY <1>1, <1>4 DEF TypeOK, PollIrq, LoopSteps
  <2> QED
    BY <1>1, <1>4, <2>1, <2>2 DEF TypeOK, PollIrq, ringVars, bufferVars, guestVars
<1>5. ASSUME NEW q \in Queues, DriverOk(q) PROVE TypeOK'
  BY <1>1, <1>5 DEF TypeOK, DriverOk, ringVars, bufferVars, deviceVars, loopVars, guestVars,
                    PortStates
<1>6. ASSUME NEW q \in Queues, Rearm(q) \/ Recheck(q) \/ Interrupt(q) PROVE TypeOK'
  <2>1. /\ driver' \in [Queues -> DriverStates]
        /\ no_interrupt' \in [Queues -> BOOLEAN]
        /\ irq' \in [Queues -> BOOLEAN]
    BY <1>1, <1>6 DEF TypeOK, Rearm, Recheck, Interrupt, Awaken, DriverStates
  <2>2. UNCHANGED <<avail_idx, avail_ring, used_idx, used_ring, bufferVars, deviceVars,
                    port, loopVars, seen, owned, sent, refills>>
    BY <1>6 DEF Rearm, Recheck, Interrupt
  <2> QED
    BY <1>1, <2>1, <2>2 DEF TypeOK, bufferVars, deviceVars, loopVars
<1> QED
  BY <1>2, <1>3, <1>4, <1>5, <1>6 DEF Quiet

LEMMA QuietStep == ASSUME IInv, Quiet PROVE IInv'
<1>1. TypeOK /\ TypeOK'
  BY QuietTypes DEF IInv
<1>2. /\ UNCHANGED <<avail_idx, avail_ring, used_idx, used_ring, bufferVars, last_avail_idx,
                     inuse, head, num_descriptors, first, seen, owned>>
      /\ \/ pc' = pc
         \/ pc = "poll" /\ pc' = "rx_irq"
         \/ pc = "switch" /\ pc' = "done"
         \/ pc = "switch" /\ pc' = "receive" /\ port'["rx"] = "driver_ok"
         \/ pc = "switch" /\ pc' = "unwind"
         \/ pc = "rx_irq" /\ pc' = "tx_irq"
         \/ pc = "tx_irq" /\ pc' = "poll"
  BY <1>1 DEF Quiet, PollEmpty, SwitchElsewhere, SwitchToReceiver, ReceiveSlow, PollIrq, DriverOk,
       Rearm, Recheck, Interrupt, ringVars, deviceVars, loopVars, guestVars, TypeOK, Queues
<1>3. \A q \in Queues :
          /\ port'[q] = "broken" <=> port[q] = "broken"
          /\ port[q] \in {"driver_ok", "slow"} =>
                 port'[q] = port[q] \/ (q = "rx" /\ pc = "switch")
  <2> SUFFICES ASSUME NEW q \in Queues
               PROVE  /\ port'[q] = "broken" <=> port[q] = "broken"
                      /\ port[q] \in {"driver_ok", "slow"} =>
                             port'[q] = port[q] \/ (q = "rx" /\ pc = "switch")
    OBVIOUS
  <2>1. CASE PollEmpty \/ SwitchElsewhere \/ SwitchToReceiver
    BY <2>1 DEF PollEmpty, SwitchElsewhere, SwitchToReceiver
  <2>2. CASE ReceiveSlow
    BY <1>1, <2>2 DEF ReceiveSlow, TypeOK
  <2>3. ASSUME NEW p \in Queues, PollIrq(p) \/ Rearm(p) \/ Recheck(p) \/ Interrupt(p)
        PROVE  port' = port
    BY <2>3 DEF PollIrq, Rearm, Recheck, Interrupt
  <2>4. ASSUME NEW p \in Queues, DriverOk(p)
        PROVE  /\ port'[q] = "broken" <=> port[q] = "broken"
               /\ port[q] \in {"driver_ok", "slow"} => port'[q] = port[q]
    BY <1>1, <2>4 DEF DriverOk, TypeOK
  <2> QED
    BY <2>1, <2>2, <2>3, <2>4 DEF Quiet
<1>4. \A q \in Queues : NumFilled(q)' = NumFilled(q)
  BY <1>2 DEF NumFilled, IInv, PlaceInv
<1>5. PlaceInv'
  <2>1. (head = NoHead <=> pc \in {"poll", "rx_irq", "tx_irq"})'
    BY <1>2 DEF IInv, PlaceInv, NoHead
  <2>2. (head # NoHead => Ready("tx"))'
    BY <1>2, <1>3 DEF IInv, PlaceInv, NoHead, Ready, Queues
  <2>3. (pc = "receive" => port["rx"] = "driver_ok")'
    BY <1>2, <1>3 DEF IInv, PlaceInv, Queues
  <2>4. (pc \notin {"receive", "done", "unwind"} => num_descriptors = 0 /\ first = NoHead)'
    BY <1>2 DEF IInv, PlaceInv, NoHead
  <2>5. ReturnedAt("rx", NumReturned("rx"))' = ReturnedAt("rx", NumReturned("rx"))
    BY <1>2 DEF ReturnedAt, NumReturned
  <2>6. (pc = "receive" => first = IF num_descriptors = 0 THEN NoHead
                                   ELSE ReturnedAt("rx", NumReturned("rx")))'
    BY <1>2, <2>5 DEF IInv, PlaceInv, NoHead
  <2>7. /\ (port["tx"] # "broken" => inuse["tx"] = IF head = NoHead THEN 0 ELSE 1)'
        /\ (port["rx"] # "broken" => inuse["rx"] = NumFilled("rx"))'
    BY <1>2, <1>3, <1>4 DEF IInv, PlaceInv, NoHead, Queues
  <2> QED
    BY <2>1, <2>2, <2>3, <2>4, <2>6, <2>7 DEF PlaceInv
<1>6. ApartInv' /\ CoverInv' /\ ContentInv' /\ PacketInv'
  BY <1>2, <1>3, <1>4, RingsKept
<1>7. InterruptInv'
  <2> SUFFICES ASSUME NEW p \in Queues
               PROVE  /\ driver'[p] # "awake" => ~ no_interrupt'[p]
                      /\ driver'[p] = "asleep" /\ Unread(p)' /\ ~Detached(p)' => irq'[p] \/ pending_irq'[p]
    BY DEF InterruptInv
  <2>0. ~Detached(p)' => ~Detached(p)
    BY <1>1 DEF Quiet, Detached, PollEmpty, SwitchElsewhere, SwitchToReceiver, ReceiveSlow,
         PollIrq, DriverOk, Rearm, Recheck, Interrupt, TypeOK
  <2>1. /\ driver[p] # "awake" => ~ no_interrupt[p]
        /\ driver[p] = "asleep" /\ Unread(p) /\ ~Detached(p) => irq[p] \/ pending_irq[p]
        /\ Unread(p)' = Unread(p)
        /\ ~Detached(p)' => ~Detached(p)
    BY <1>2, <2>0 DEF IInv, InterruptInv, Unread
  <2>2. CASE PollEmpty \/ SwitchElsewhere \/ SwitchToReceiver \/ ReceiveSlow
             \/ \E q \in Queues : DriverOk(q)
    BY <2>1, <2>2 DEF PollEmpty, SwitchElsewhere, SwitchToReceiver, ReceiveSlow, DriverOk,
         ringVars, deviceVars, guestVars
  <2>3. ASSUME NEW q \in Queues, PollIrq(q)
        PROVE  /\ driver'[p] # "awake" => ~ no_interrupt'[p]
               /\ driver'[p] = "asleep" /\ Unread(p)' /\ ~Detached(p)' => irq'[p] \/ pending_irq'[p]
    <3>1. driver' = driver /\ no_interrupt' = no_interrupt
      BY <2>3 DEF PollIrq, ringVars, guestVars
    <3>2. irq[p] \/ pending_irq[p] => irq'[p] \/ pending_irq'[p] \/ no_interrupt[p]
      BY <1>1, <2>3 DEF PollIrq, TypeOK
    <3> QED
      BY <2>1, <3>1, <3>2
  <2>4. ASSUME NEW q \in Queues, Rearm(q)
        PROVE  /\ driver'[p] # "awake" => ~ no_interrupt'[p]
               /\ driver'[p] = "asleep" /\ Unread(p)' /\ ~Detached(p)' => irq'[p] \/ pending_irq'[p]
    BY <1>1, <2>1, <2>4 DEF Rearm, TypeOK, deviceVars
  <2>5. ASSUME NEW q \in Queues, Recheck(q)
        PROVE  /\ driver'[p] # "awake" => ~ no_interrupt'[p]
               /\ driver'[p] = "asleep" /\ Unread(p)' /\ ~Detached(p)' => irq'[p] \/ pending_irq'[p]
    <3>1. irq' = irq /\ pending_irq' = pending_irq /\ driver[q] = "rearmed"
      BY <2>5 DEF Recheck, deviceVars
    <3>2. CASE Unread(q)
      <4>1. driver'[q] = "awake" /\ \A r \in Queues \ {q} : driver'[r] = driver[r]
        BY <1>1, <2>5, <3>2 DEF Recheck, Awaken, TypeOK
      <4>2. \A r \in Queues \ {q} : no_interrupt'[r] = no_interrupt[r]
        BY <1>1, <2>5, <3>2 DEF Recheck, Awaken, TypeOK
      <4> QED
        BY <2>1, <3>1, <4>1, <4>2
    <3>3. CASE ~ Unread(q)
      BY <1>1, <2>1, <2>5, <3>1, <3>3 DEF Recheck, TypeOK
    <3> QED
      BY <3>2, <3>3
  <2>6. ASSUME NEW q \in Queues, Interrupt(q)
        PROVE  /\ driver'[p] # "awake" => ~ no_interrupt'[p]
               /\ driver'[p] = "asleep" /\ Unread(p)' /\ ~Detached(p)' => irq'[p] \/ pending_irq'[p]
    BY <1>1, <2>1, <2>6 DEF Interrupt, Awaken, TypeOK, deviceVars
  <2> QED
    BY <2>2, <2>3, <2>4, <2>5, <2>6 DEF Quiet
<1>8. BrokenOnlyIfIllegal'
  BY <1>2, <1>3 DEF IInv, BrokenOnlyIfIllegal, bufferVars
<1> QED
  BY <1>1, <1>5, <1>6, <1>7, <1>8 DEF IInv

\* The chain that is popped was in no other place, and the others stay.
LEMMA PopApart ==
    ASSUME TypeOK, NEW q \in Queues, Apart(q), NumHeads(q) > 0,
           last_avail_idx' = [last_avail_idx EXCEPT ![q] = Plus(@, 1)],
           UNCHANGED <<avail_idx, avail_ring>>
    PROVE  /\ \A a, b \in AddedRange(q)' : AddedAt(q, a)' = AddedAt(q, b)' => a = b
           /\ \A a \in AddedRange(q)' : /\ AddedAt(q, a)' \notin owned[q]
                                        /\ AddedAt(q, a)' # NextHead(q)
                                        /\ \A r \in ReturnedRange(q) : AddedAt(q, a)' # ReturnedAt(q, r)
                                        /\ \A h : (\A b \in AddedRange(q) : AddedAt(q, b) # h)
                                                       => AddedAt(q, a)' # h
           /\ NextHead(q) \in Heads /\ NextHead(q) \notin owned[q]
           /\ \A r \in ReturnedRange(q) : ReturnedAt(q, r) # NextHead(q)
           /\ \A a \in AddedRange(q) :
                  AddedAt(q, a) = NextHead(q) \/ \E b \in AddedRange(q)' : AddedAt(q, a) = AddedAt(q, b)'
<1>1. /\ NumHeads(q)' = NumHeads(q) - 1
      /\ \A a \in Int : AddedAt(q, a)' = AddedAt(q, a + 1)
      /\ NextHead(q) = AddedAt(q, 0)
  BY PopEffect
<1>2. NumHeads(q) \in Nat
  BY RingTypes
<1>3. /\ AddedRange(q) = 0 .. NumHeads(q) - 1
      /\ AddedRange(q)' = 0 .. NumHeads(q) - 2
  BY <1>1, <1>2 DEF AddedRange
<1>4. 0 \in AddedRange(q)
  BY <1>2, <1>3
<1>5. \A a \in AddedRange(q)' : /\ a \in Int /\ a + 1 \in AddedRange(q) /\ a + 1 # 0
                                /\ AddedAt(q, a)' = AddedAt(q, a + 1)
  <2>1. \A a \in AddedRange(q)' : a \in Int /\ a + 1 \in AddedRange(q) /\ a + 1 # 0
    BY <1>2, <1>3
  <2> QED
    BY <1>1, <2>1
<1>6. \A a \in AddedRange(q) \ {0} : a - 1 \in AddedRange(q)' /\ AddedAt(q, a) = AddedAt(q, a - 1)'
  <2> SUFFICES ASSUME NEW a \in AddedRange(q) \ {0}
               PROVE  a - 1 \in AddedRange(q)' /\ AddedAt(q, a) = AddedAt(q, a - 1)'
    OBVIOUS
  <2>1. a - 1 \in AddedRange(q)' /\ a - 1 \in Int /\ (a - 1) + 1 = a
    BY <1>2, <1>3
  <2> QED
    BY <1>1, <2>1
<1>7. \A a, b \in AddedRange(q)' : AddedAt(q, a)' = AddedAt(q, b)' => a = b
  BY <1>5 DEF Apart
<1>8. \A a \in AddedRange(q)' : /\ AddedAt(q, a)' \notin owned[q]
                                /\ AddedAt(q, a)' # NextHead(q)
                                /\ \A r \in ReturnedRange(q) : AddedAt(q, a)' # ReturnedAt(q, r)
                                /\ \A h : (\A b \in AddedRange(q) : AddedAt(q, b) # h)
                                               => AddedAt(q, a)' # h
  BY <1>1, <1>4, <1>5 DEF Apart
<1>9. /\ NextHead(q) \in Heads /\ NextHead(q) \notin owned[q]
      /\ \A r \in ReturnedRange(q) : ReturnedAt(q, r) # NextHead(q)
  BY <1>1, <1>4, RingTypes DEF Apart
<1>10. \A a \in AddedRange(q) :
          AddedAt(q, a) = NextHead(q) \/ \E b \in AddedRange(q)' : AddedAt(q, a) = AddedAt(q, b)'
  BY <1>1, <1>6
<1> QED
  BY <1>7, <1>8, <1>9, <1>10

\* Where the device does not touch queue q, its chains stay.
LEMMA OtherQueue ==
    ASSUME TypeOK, NEW q \in Queues,
           avail_idx'[q] = avail_idx[q], avail_ring'[q] = avail_ring[q],
           last_avail_idx'[q] = last_avail_idx[q],
           used_idx'[q] = used_idx[q], used_ring'[q] = used_ring[q], seen'[q] = seen[q],
           owned'[q] = owned[q], NumFilled(q)' = NumFilled(q)
    PROVE  /\ Apart(q) => Apart(q)'
           /\ Covered(q) /\ (q = "tx" => head' = head) => Covered(q)'
           /\ q = "tx" /\ head' = head /\ HeadApart => HeadApart'
           /\ NumReturned(q)' = NumReturned(q)
           /\ \A r \in Int : ReturnedAt(q, r)' = ReturnedAt(q, r)
<1>1. /\ AddedRange(q)' = AddedRange(q) /\ ReturnedRange(q)' = ReturnedRange(q)
      /\ \A a \in AddedRange(q) : AddedAt(q, a)' = AddedAt(q, a)
      /\ \A r \in ReturnedRange(q) : ReturnedAt(q, r)' = ReturnedAt(q, r)
  BY DEF AddedRange, ReturnedRange, AddedAt, ReturnedAt, NumHeads, NumReturned
<1>2. /\ NumReturned(q)' = NumReturned(q)
      /\ \A r \in Int : ReturnedAt(q, r)' = ReturnedAt(q, r)
  BY DEF ReturnedAt, NumReturned
<1> QED
  BY <1>1, <1>2, QueueKept

\* What the receiver sees is not changed by steps on the queue of the sender.
LEMMA PacketsKept ==
    ASSUME IInv, NumReturned("rx")' = NumReturned("rx"),
           \A r \in Int : ReturnedAt("rx", r)' = ReturnedAt("rx", r),
           UNCHANGED <<part, num_buffers>>,
           pc' = "receive" => /\ pc = "receive"
                              /\ num_descriptors' = num_descriptors
                              /\ content'[head'] = content[head]
    PROVE  PacketInv'
<1>1. num_descriptors \in Nat /\ NumReturned("rx") \in Nat
  BY RingTypes, Widths DEF IInv, TypeOK, Queues
<1> QED
  BY <1>1 DEF IInv, PacketInv, PartAt, HeaderAt

LEMMA PollPacketStep == ASSUME IInv, PollPacket PROVE IInv'
<1>1. /\ TypeOK /\ Apart("tx") /\ Apart("rx") /\ HeadApart
      /\ Covered("tx") /\ port["tx"] # "broken"
      /\ "tx" \in Queues /\ "rx" \in Queues
      /\ head = NoHead /\ inuse["tx"] = 0 /\ NumHeads("tx") > 0
  BY DEF IInv, PlaceInv, ApartInv, CoverInv, PollPacket, Ready, Queues
<1>2. /\ last_avail_idx' = [last_avail_idx EXCEPT !["tx"] = Plus(@, 1)]
      /\ inuse' = [inuse EXCEPT !["tx"] = @ + 1]
      /\ head' = NextHead("tx")
      /\ pc = "poll" /\ pc' = "switch" /\ Ready("tx")
      /\ UNCHANGED <<avail_idx, avail_ring, no_interrupt, used_idx, used_ring, content, part,
                     num_buffers, bad, pending_irq, port, irq, quota, num_descriptors, first,
                     seen, owned, driver, sent, refills>>
  BY DEF PollPacket, Pop, ringVars, bufferVars, guestVars
<1>3. /\ \A a, b \in AddedRange("tx")' : AddedAt("tx", a)' = AddedAt("tx", b)' => a = b
      /\ \A a \in AddedRange("tx")' :
             /\ AddedAt("tx", a)' \notin owned["tx"]
             /\ AddedAt("tx", a)' # NextHead("tx")
             /\ \A r \in ReturnedRange("tx") : AddedAt("tx", a)' # ReturnedAt("tx", r)
      /\ NextHead("tx") \in Heads /\ NextHead("tx") \notin owned["tx"]
      /\ \A r \in ReturnedRange("tx") : ReturnedAt("tx", r) # NextHead("tx")
      /\ \A a \in AddedRange("tx") :
             \/ AddedAt("tx", a) = NextHead("tx")
             \/ \E b \in AddedRange("tx")' : AddedAt("tx", a) = AddedAt("tx", b)'
  BY <1>1, <1>2, PopApart
<1>4. TypeOK'
  <2>1. last_avail_idx' \in [Queues -> Indices]
    BY <1>1, <1>2, PopEffect
  <2>2. inuse' \in [Queues -> 0 .. QUEUE_ELEMENTS]
    BY <1>1, <1>2, Widths DEF TypeOK
  <2> QED
    BY <1>1, <1>2, <1>3, <2>1, <2>2 DEF TypeOK, LoopSteps
<1>5. ReturnedRange("tx")' = ReturnedRange("tx") /\ \A r : ReturnedAt("tx", r)' = ReturnedAt("tx", r)
  BY <1>2 DEF ReturnedRange, ReturnedAt, NumReturned, NumFilled
<1>6. NumFilled("rx") = 0 /\ NumFilled("rx")' = 0
  BY <1>2 DEF NumFilled
<1>7. /\ Apart("rx")' /\ (Covered("rx") => Covered("rx")')
      /\ NumReturned("rx")' = NumReturned("rx")
      /\ \A r \in Int : ReturnedAt("rx", r)' = ReturnedAt("rx", r)
  <2>1. last_avail_idx'["rx"] = last_avail_idx["rx"]
    BY <1>1, <1>2 DEF TypeOK
  <2> QED
    BY <1>1, <1>2, <1>6, <2>1, OtherQueue
<1>8. PlaceInv'
  <2>1. head' # NoHead
    BY <1>2, <1>3, Widths DEF Heads, NoHead
  <2>2. inuse'["tx"] = 1 /\ inuse'["rx"] = inuse["rx"]
    BY <1>1, <1>2 DEF TypeOK
  <2> QED
    BY <1>2, <1>6, <2>1, <2>2 DEF IInv, PlaceInv, Ready
<1>9. ApartInv'
  <2>1. Apart("tx")'
    BY <1>1, <1>2, <1>3, <1>5 DEF Apart
  <2>2. HeadApart'
    BY <1>2, <1>3, <1>5 DEF HeadApart
  <2> QED
    BY <1>7, <2>1, <2>2 DEF ApartInv, Queues
<1>10. CoverInv'
  <2>1. \A h \in Heads : h # head
    BY <1>1, Widths DEF Heads, NoHead
  <2>2. Covered("tx")'
    BY <1>1, <1>2, <1>3, <1>5, <2>1 DEF Covered
  <2> QED
    BY <1>2, <1>7, <2>2 DEF IInv, CoverInv, Queues
<1>11. ContentInv' /\ InterruptInv' /\ BrokenOnlyIfIllegal'
  BY <1>2 DEF IInv, ContentInv, InterruptInv, Unread, Detached, BrokenOnlyIfIllegal
<1>12. PacketInv'
  BY <1>2, <1>7, PacketsKept
<1> QED
  BY <1>4, <1>8, <1>9, <1>10, <1>11, <1>12 DEF IInv

LEMMA PollThrowsStep == ASSUME IInv, PollThrows PROVE IInv'
<1>1. /\ TypeOK /\ Apart("tx") /\ Apart("rx") /\ HeadApart
      /\ "tx" \in Queues /\ "rx" \in Queues
      /\ head = NoHead /\ NumHeads("tx") > 0
  BY DEF IInv, PlaceInv, ApartInv, PollThrows, Queues
<1>2. /\ last_avail_idx' = [last_avail_idx EXCEPT !["tx"] = Plus(@, 1)]
      /\ port' = [port EXCEPT !["tx"] = "broken"]
      /\ quota' = BatchSize
      /\ pc = "poll" /\ Illegal("tx")
      /\ UNCHANGED <<avail_idx, avail_ring, no_interrupt, used_idx, used_ring, content, part,
                     num_buffers, bad, inuse, pending_irq, irq, pc, head, num_descriptors,
                     first, seen, owned, driver, sent, refills>>
  BY DEF PollThrows, Throw, ringVars, bufferVars, guestVars
<1>3. /\ \A a, b \in AddedRange("tx")' : AddedAt("tx", a)' = AddedAt("tx", b)' => a = b
      /\ \A a \in AddedRange("tx")' :
             /\ AddedAt("tx", a)' \notin owned["tx"]
             /\ \A r \in ReturnedRange("tx") : AddedAt("tx", a)' # ReturnedAt("tx", r)
             /\ AddedAt("tx", a)' # head
  BY <1>1, <1>2, PopApart DEF HeadApart
<1>4. TypeOK'
  <2>1. last_avail_idx' \in [Queues -> Indices]
    BY <1>1, <1>2, PopEffect
  <2>2. quota' \in 0 .. BatchSize
    BY <1>2, BatchAssumption
  <2> QED
    BY <1>1, <1>2, <2>1, <2>2 DEF TypeOK, PortStates
<1>5. ReturnedRange("tx")' = ReturnedRange("tx") /\ \A r : ReturnedAt("tx", r)' = ReturnedAt("tx", r)
  BY <1>2 DEF ReturnedRange, ReturnedAt, NumReturned, NumFilled
<1>6. NumFilled("rx") = 0 /\ NumFilled("rx")' = 0
  BY <1>2 DEF NumFilled
<1>7. /\ Apart("rx")' /\ (Covered("rx") => Covered("rx")')
      /\ NumReturned("rx")' = NumReturned("rx")
      /\ \A r \in Int : ReturnedAt("rx", r)' = ReturnedAt("rx", r)
  <2>1. last_avail_idx'["rx"] = last_avail_idx["rx"]
    BY <1>1, <1>2 DEF TypeOK
  <2> QED
    BY <1>1, <1>2, <1>6, <2>1, OtherQueue
<1>8. port'["tx"] = "broken" /\ port'["rx"] = port["rx"]
  BY <1>1, <1>2 DEF TypeOK
<1>9. PlaceInv'
  BY <1>1, <1>2, <1>6, <1>8 DEF IInv, PlaceInv
<1>10. ApartInv'
  <2>1. Apart("tx")'
    BY <1>1, <1>2, <1>3, <1>5 DEF Apart
  <2>2. HeadApart'
    BY <1>1, <1>2, <1>3, <1>5 DEF HeadApart
  <2> QED
    BY <1>7, <2>1, <2>2 DEF ApartInv, Queues
<1>11. CoverInv'
  BY <1>7, <1>8 DEF IInv, CoverInv, Queues
<1>12. ContentInv' /\ InterruptInv'
  BY <1>2 DEF IInv, ContentInv, InterruptInv, Unread, Detached
<1>13. BrokenOnlyIfIllegal'
  <2>1. NextHead("tx") \in bad["tx"]
    BY <1>1, <1>2, RingBounds, RingTypes, Widths DEF IInv, Illegal
  <2> QED
    BY <1>2, <1>8, <2>1 DEF IInv, BrokenOnlyIfIllegal, Queues
<1>14. PacketInv'
  BY <1>2, <1>7, PacketsKept
<1> QED
  BY <1>4, <1>9, <1>10, <1>11, <1>12, <1>13, <1>14 DEF IInv

LEMMA ReceivePartStep == ASSUME IInv, ReceivePart PROVE IInv'
<1> DEFINE h == NextHead("rx")
           K == NumReturned("rx")
           d == num_descriptors
<1>1. /\ TypeOK /\ ApartInv /\ Apart("tx") /\ Apart("rx") /\ HeadApart
      /\ Covered("rx") /\ port["rx"] = "driver_ok"
      /\ "tx" \in Queues /\ "rx" \in Queues
      /\ pc = "receive" /\ head # NoHead /\ inuse["rx"] = d /\ NumHeads("rx") > 0
      /\ first = IF d = 0 THEN NoHead ELSE ReturnedAt("rx", K)
  BY DEF IInv, PlaceInv, ApartInv, CoverInv, ReceivePart, Queues, NumFilled
<1>2. /\ last_avail_idx' = [last_avail_idx EXCEPT !["rx"] = Plus(@, 1)]
      /\ inuse' = [inuse EXCEPT !["rx"] = @ + 1]
      /\ Fill("rx", h, d)
      /\ part' = [part EXCEPT ![h] = <<content[head], d + 1>>]
      /\ first' = IF first = NoHead THEN h ELSE first
      /\ num_descriptors' = d + 1
      /\ UNCHANGED <<avail_idx, avail_ring, no_interrupt, used_idx, content, num_buffers, bad,
                     pending_irq, port, irq, pc, quota, head, seen, owned, driver, sent, refills>>
  BY DEF ReceivePart, Pop, guestVars
<1>3. /\ \A a, b \in AddedRange("rx")' : AddedAt("rx", a)' = AddedAt("rx", b)' => a = b
      /\ \A a \in AddedRange("rx")' :
             /\ AddedAt("rx", a)' \notin owned["rx"]
             /\ AddedAt("rx", a)' # h
             /\ \A r \in ReturnedRange("rx") : AddedAt("rx", a)' # ReturnedAt("rx", r)
      /\ h \in Heads /\ h \notin owned["rx"]
      /\ \A r \in ReturnedRange("rx") : ReturnedAt("rx", r) # h
      /\ \A a \in AddedRange("rx") :
             AddedAt("rx", a) = h \/ \E b \in AddedRange("rx")' : AddedAt("rx", a) = AddedAt("rx", b)'
  BY <1>1, <1>2, PopApart
<1>4. d \in Nat /\ K \in Nat /\ K + d < QUEUE_ELEMENTS /\ NumFilled("rx") = d /\ head \in Heads
  <2>1. NumFilled("rx") = d
    BY <1>1 DEF NumFilled
  <2>2. K + d < QUEUE_ELEMENTS
    BY <1>1, <2>1, RingBounds
  <2> QED
    BY <1>1, <2>1, <2>2, RingTypes, Widths DEF TypeOK
<1>5. /\ \A r \in 0 .. K + d - 1 : ReturnedAt("rx", r)' = ReturnedAt("rx", r)
      /\ \A r \in Int : r = K + d => ReturnedAt("rx", r)' = h
      /\ \A r \in Int : ReturnedAt("tx", r)' = ReturnedAt("tx", r)
  BY <1>1, <1>2, <1>3, <1>4, FillEffect
<1>6. /\ NumReturned("rx")' = K
      /\ NumFilled("rx")' = d + 1
      /\ ReturnedRange("rx") = 0 .. K + d - 1
      /\ ReturnedRange("rx")' = 0 .. K + d
  <2>1. NumReturned("rx")' = K /\ NumFilled("rx")' = d + 1
    BY <1>1, <1>2 DEF NumReturned, NumFilled
  <2> QED
    BY <1>4, <2>1 DEF ReturnedRange
<1> HIDE DEF h, K, d
<1>7. TypeOK'
  <2>1. last_avail_idx' \in [Queues -> Indices]
    BY <1>1, <1>2, PopEffect
  <2>2. inuse' \in [Queues -> 0 .. QUEUE_ELEMENTS]
    BY <1>1, <1>2, <1>4, Widths DEF TypeOK
  <2>3. used_ring' \in [Queues -> [Slots -> Heads]]
    BY <1>1, <1>2, <1>3 DEF Fill, TypeOK
  <2>4. part' \in [Heads -> (Packets \cup {NoPacket}) \X Nat]
    <3>1. content[head] \in Packets \cup {NoPacket} /\ d + 1 \in Nat
      BY <1>1, <1>4 DEF TypeOK
    <3> QED
      BY <1>1, <1>2, <3>1 DEF TypeOK
  <2>5. num_descriptors' \in 0 .. QUEUE_ELEMENTS /\ first' \in Heads \cup {NoHead}
    BY <1>1, <1>2, <1>3, <1>4, Widths DEF TypeOK
  <2> QED
    BY <1>1, <1>2, <2>1, <2>2, <2>3, <2>4, <2>5 DEF TypeOK
<1>8. /\ Apart("tx")' /\ HeadApart' /\ (Covered("tx") => Covered("tx")')
  <2>1. /\ last_avail_idx'["tx"] = last_avail_idx["tx"]
        /\ used_ring'["tx"] = used_ring["tx"]
    BY <1>1, <1>2 DEF Fill, TypeOK
  <2>2. NumFilled("tx")' = NumFilled("tx")
    BY DEF NumFilled
  <2> QED
    BY <1>1, <1>2, <2>1, <2>2, OtherQueue
<1>9. PlaceInv'
  <2>1. inuse'["tx"] = inuse["tx"] /\ inuse'["rx"] = d + 1
    BY <1>1, <1>2 DEF TypeOK
  <2>2. first' = ReturnedAt("rx", NumReturned("rx"))'
    <3>1. \A r \in Int : r = K => ReturnedAt("rx", NumReturned("rx"))' = ReturnedAt("rx", r)'
      BY <1>6 DEF ReturnedAt
    <3>2. CASE d = 0
      BY <1>1, <1>2, <1>4, <1>5, <3>1, <3>2
    <3>3. CASE d > 0
      <4>1. ReturnedAt("rx", K)' = ReturnedAt("rx", K)
        <5>1. K \in 0 .. K + d - 1 /\ K \in Int
          BY <1>4, <3>3
        <5>2. PICK r \in Int : r = K
          BY <5>1
        <5>3. ReturnedAt("rx", r)' = ReturnedAt("rx", r)
          BY <1>5, <5>1, <5>2
        <5>4. ReturnedAt("rx", K)' = ReturnedAt("rx", r)'
          BY <1>6, <5>2 DEF ReturnedAt, K
        <5> QED
          BY <5>2, <5>3, <5>4
      <4>2. first = ReturnedAt("rx", K) /\ first # NoHead
        <5>1. first = ReturnedAt("rx", K) /\ ReturnedAt("rx", K) \in Heads
          BY <1>1, <1>4, <3>3, RingTypes
        <5> QED
          BY <5>1, Widths DEF Heads, NoHead
      <4> QED
        BY <1>2, <1>6, <4>1, <4>2 DEF K
    <3> QED
      BY <1>4, <3>2, <3>3
  <2> QED
    BY <1>1, <1>2, <1>4, <1>6, <2>1, <2>2 DEF IInv, PlaceInv, Ready
<1>10. ApartInv'
  <2>1. \A r \in ReturnedRange("rx")' :
            \/ r \in ReturnedRange("rx") /\ ReturnedAt("rx", r)' = ReturnedAt("rx", r)
            \/ r = K + d /\ r \notin ReturnedRange("rx") /\ ReturnedAt("rx", r)' = h
    BY <1>4, <1>5, <1>6
  <2>2. Apart("rx")'
    BY <1>1, <1>2, <1>3, <2>1 DEF Apart
  <2> QED
    BY <1>8, <2>2 DEF ApartInv, Queues
<1>11. CoverInv'
  <2>1. \A r \in ReturnedRange("rx") :
            r \in ReturnedRange("rx")' /\ ReturnedAt("rx", r)' = ReturnedAt("rx", r)
    BY <1>4, <1>5, <1>6
  <2>2. \E r \in ReturnedRange("rx")' : h = ReturnedAt("rx", r)'
    BY <1>4, <1>5, <1>6
  <2>3. Covered("rx")'
    BY <1>1, <1>2, <1>3, <2>1, <2>2 DEF Covered
  <2> QED
    BY <1>2, <1>8, <2>3 DEF IInv, CoverInv, Queues
<1>12. ContentInv' /\ InterruptInv' /\ BrokenOnlyIfIllegal'
  BY <1>2 DEF IInv, ContentInv, InterruptInv, Unread, Detached, BrokenOnlyIfIllegal
<1>13. PacketInv'
  <2>1. \A r \in 0 .. K + d - 1 : PartAt(r)' = PartAt(r) /\ HeaderAt(r)' = HeaderAt(r)
    <3> SUFFICES ASSUME NEW r \in 0 .. K + d - 1
                 PROVE  PartAt(r)' = PartAt(r) /\ HeaderAt(r)' = HeaderAt(r)
      OBVIOUS
    <3>1. ReturnedAt("rx", r) # h /\ ReturnedAt("rx", r) \in Heads
      <4>1. r \in ReturnedRange("rx") /\ r \in Int
        BY <1>4, <1>6
      <4> QED
        BY <1>1, <1>3, <4>1, RingTypes
    <3> QED
      BY <1>1, <1>2, <1>5, <3>1 DEF TypeOK, PartAt, HeaderAt
  <2>2. \A r \in Int : r = K + d => PartAt(r)' = <<content[head], d + 1>>
    BY <1>1, <1>2, <1>3, <1>5 DEF TypeOK, PartAt
  <2>3. PacketInv
    BY DEF IInv
  <2>4. \A r \in K .. K + d : PartAt(r)' = <<content[head], r - K + 1>>
    <3>1. ASSUME NEW r \in K .. K + d - 1 PROVE PartAt(r)' = <<content[head], r - K + 1>>
      BY <1>1, <1>4, <2>1, <2>3 DEF PacketInv, K, d
    <3>2. \A r \in Int : r = K + d => d = r - K
      BY <1>4
    <3> QED
      BY <1>4, <2>2, <3>1, <3>2
  <2>5. (d + 1) - 1 = d /\ K + (d + 1) - 1 = K + d
    BY <1>4
  <2>6. \A r \in K .. K + num_descriptors' - 1 : PartAt(r)' = <<content'[head'], r - K + 1>>
    BY <1>2, <1>4, <2>4, <2>5
  <2>7. \A r \in 0 .. K - 1 : PartAt(r)' = PartAt(r) /\ HeaderAt(r)' = HeaderAt(r)
    BY <1>4, <2>1
  <2>8. /\ K > 0 => PartAt(0)' = PartAt(0)
        /\ 0 \in Int
    BY <1>4, <2>7
  <2> QED
    <3>1. K > 0 => PartAt(0)'[2] = 1
      BY <2>3, <2>8 DEF PacketInv, K
    <3>2. \A r \in 0 .. K - 1 : PartAt(r)'[1] \in Packets
      BY <2>3, <2>7 DEF PacketInv, K
    <3>3. \A r \in 0 .. K - 1 : PartAt(r)'[2] = 1 =>
               /\ HeaderAt(r)' \in 1 .. K - r
               /\ \A s \in r .. r + HeaderAt(r)' - 1 : PartAt(s)' = <<PartAt(r)'[1], s - r + 1>>
               /\ \A s \in 0 .. K - 1 : s = r + HeaderAt(r)' => PartAt(s)'[2] = 1
      <4> SUFFICES ASSUME NEW r \in 0 .. K - 1, PartAt(r)'[2] = 1
                   PROVE  /\ HeaderAt(r)' \in 1 .. K - r
                          /\ \A s \in r .. r + HeaderAt(r)' - 1 : PartAt(s)' = <<PartAt(r)'[1], s - r + 1>>
                          /\ \A s \in 0 .. K - 1 : s = r + HeaderAt(r)' => PartAt(s)'[2] = 1
        OBVIOUS
      <4>1. /\ HeaderAt(r) \in 1 .. K - r
            /\ \A s \in r .. r + HeaderAt(r) - 1 : PartAt(s) = <<PartAt(r)[1], s - r + 1>>
            /\ \A s \in 0 .. K - 1 : s = r + HeaderAt(r) => PartAt(s)[2] = 1
        BY <2>3, <2>7 DEF PacketInv, K
      <4>2. \A s \in r .. r + HeaderAt(r) - 1 : s \in 0 .. K - 1
        BY <1>4, <4>1
      <4> QED
        BY <2>7, <4>1, <4>2
    <3> QED
      BY <1>6, <2>6, <3>1, <3>2, <3>3 DEF PacketInv
<1> QED
  BY <1>7, <1>9, <1>10, <1>11, <1>12, <1>13 DEF IInv

LEMMA ReceiveThrowsStep == ASSUME IInv, ReceiveThrows PROVE IInv'
<1>1. /\ TypeOK /\ Apart("tx") /\ Apart("rx") /\ HeadApart
      /\ "tx" \in Queues /\ "rx" \in Queues
      /\ pc = "receive" /\ NumHeads("rx") > 0 /\ Illegal("rx")
  BY DEF IInv, ApartInv, ReceiveThrows, Queues
<1>2. /\ last_avail_idx' = [last_avail_idx EXCEPT !["rx"] = Plus(@, 1)]
      /\ port' = [port EXCEPT !["rx"] = "broken"]
      /\ pc' = "unwind"
      /\ UNCHANGED <<avail_idx, avail_ring, no_interrupt, used_idx, used_ring, content, part,
                     num_buffers, bad, inuse, pending_irq, irq, quota, head, num_descriptors,
                     first, seen, owned, driver, sent, refills>>
  BY DEF ReceiveThrows, Throw, ringVars, bufferVars, guestVars
<1>3. /\ \A a, b \in AddedRange("rx")' : AddedAt("rx", a)' = AddedAt("rx", b)' => a = b
      /\ \A a \in AddedRange("rx")' :
             /\ AddedAt("rx", a)' \notin owned["rx"]
             /\ \A r \in ReturnedRange("rx") : AddedAt("rx", a)' # ReturnedAt("rx", r)
  BY <1>1, <1>2, PopApart
<1>4. TypeOK'
  <2>1. last_avail_idx' \in [Queues -> Indices]
    BY <1>1, <1>2, PopEffect
  <2> QED
    BY <1>1, <1>2, <2>1 DEF TypeOK, PortStates, LoopSteps
<1>5. /\ \A r \in ReturnedRange("rx")' : r \in ReturnedRange("rx")
      /\ \A r : ReturnedAt("rx", r)' = ReturnedAt("rx", r)
      /\ NumReturned("rx")' = NumReturned("rx")
  <2>1. /\ \A r : ReturnedAt("rx", r)' = ReturnedAt("rx", r)
        /\ NumReturned("rx")' = NumReturned("rx")
        /\ NumFilled("rx")' = 0
    BY <1>2 DEF ReturnedAt, NumReturned, NumFilled
  <2>2. NumReturned("rx") \in Int /\ NumFilled("rx") \in Nat
    BY <1>1, RingTypes, RingBounds DEF IInv
  <2> QED
    BY <2>1, <2>2 DEF ReturnedRange
<1>6. Apart("tx")' /\ HeadApart' /\ (Covered("tx") => Covered("tx")')
  <2>1. last_avail_idx'["tx"] = last_avail_idx["tx"] /\ NumFilled("tx")' = NumFilled("tx")
    BY <1>1, <1>2 DEF TypeOK, NumFilled
  <2> QED
    BY <1>1, <1>2, <2>1, OtherQueue
<1>7. port'["rx"] = "broken" /\ port'["tx"] = port["tx"]
  BY <1>1, <1>2 DEF TypeOK
<1>8. PlaceInv'
  BY <1>1, <1>2, <1>7 DEF IInv, PlaceInv, Ready
<1>9. ApartInv'
  <2>1. Apart("rx")'
    BY <1>1, <1>2, <1>3, <1>5 DEF Apart
  <2> QED
    BY <1>6, <2>1 DEF ApartInv, Queues
<1>10. CoverInv'
  BY <1>6, <1>7 DEF IInv, CoverInv, Queues
<1>11. ContentInv' /\ InterruptInv'
  BY <1>2 DEF IInv, ContentInv, InterruptInv, Unread, Detached
<1>12. BrokenOnlyIfIllegal'
  <2>1. NextHead("rx") \in bad["rx"]
    BY <1>1, RingBounds, RingTypes, Widths DEF IInv, Illegal
  <2> QED
    BY <1>2, <1>7, <2>1 DEF IInv, BrokenOnlyIfIllegal, Queues
<1>13. PacketInv'
  BY <1>2, <1>5, PacketsKept
<1> QED
  BY <1>4, <1>8, <1>9, <1>10, <1>11, <1>12, <1>13 DEF IInv

LEMMA ReceiveDoneStep == ASSUME IInv, ReceiveDone PROVE IInv'
<1> DEFINE K == NumReturned("rx")
           d == num_descriptors
<1>1. /\ TypeOK /\ ApartInv /\ Apart("tx") /\ Apart("rx") /\ HeadApart
      /\ Covered("rx") /\ port["rx"] = "driver_ok"
      /\ "tx" \in Queues /\ "rx" \in Queues
      /\ pc = "receive" /\ head # NoHead /\ inuse["rx"] = d
      /\ first = IF d = 0 THEN NoHead ELSE ReturnedAt("rx", K)
      /\ PacketInv
  BY DEF IInv, PlaceInv, ApartInv, CoverInv, ReceiveDone, Queues, NumFilled
<1>2. /\ num_buffers' = IF first = NoHead THEN num_buffers
                        ELSE [num_buffers EXCEPT ![first] = d]
      /\ Flush("rx", d)
      /\ used_idx' = [used_idx EXCEPT !["rx"] = Plus(@, d)]
      /\ inuse' = [inuse EXCEPT !["rx"] = @ - d]
      /\ pending_irq' = [pending_irq EXCEPT !["rx"] = TRUE]
      /\ pc' = "done"
      /\ UNCHANGED <<avail_idx, avail_ring, no_interrupt, used_ring, content, part, bad,
                     last_avail_idx, port, irq, quota, head, num_descriptors, first,
                     seen, owned, driver, sent, refills>>
  BY DEF ReceiveDone, Flush, guestVars
<1>3. d \in Nat /\ K \in Nat /\ K + d <= QUEUE_ELEMENTS /\ NumFilled("rx") = d /\ head \in Heads
  <2>1. NumFilled("rx") = d
    BY <1>1 DEF NumFilled
  <2>2. K + d <= QUEUE_ELEMENTS
    BY <1>1, <2>1, RingBounds
  <2> QED
    BY <1>1, <2>1, <2>2, RingTypes, Widths, SMTT(30) DEF TypeOK
<1>4. NumReturned("rx")' = K + d
  BY <1>1, <1>2, <1>3, FlushEffect
<1>5. /\ \A r : ReturnedAt("rx", r)' = ReturnedAt("rx", r)
      /\ NumFilled("rx")' = 0
      /\ ReturnedRange("rx") = 0 .. K + d - 1
      /\ ReturnedRange("rx")' = ReturnedRange("rx")
  <2>1. NumFilled("rx")' = 0 /\ \A r : ReturnedAt("rx", r)' = ReturnedAt("rx", r)
    BY <1>2 DEF ReturnedAt, NumFilled
  <2> QED
    BY <1>3, <1>4, <2>1 DEF ReturnedRange
<1> HIDE DEF K, d
<1>6. d > 0 => /\ first = ReturnedAt("rx", K) /\ first \in Heads /\ first # NoHead
               /\ K \in ReturnedRange("rx") /\ K \in Int
               /\ num_buffers' = [num_buffers EXCEPT ![first] = d]
  <2>1. d > 0 => first = ReturnedAt("rx", K) /\ ReturnedAt("rx", K) \in Heads
    BY <1>1, <1>3, RingTypes
  <2>2. first \in Heads => first # NoHead
    BY Widths DEF Heads, NoHead
  <2> QED
    BY <1>2, <1>3, <1>5, <2>1, <2>2
<1>7. TypeOK'
  <2>1. used_idx' \in [Queues -> Indices]
    <3>1. PICK i \in Int : i = used_idx["rx"]
      BY <1>1, RingTypes
    <3>2. Plus(i, d) \in Indices
      BY <1>3, PlusType
    <3> QED
      BY <1>1, <1>2, <3>1, <3>2 DEF TypeOK
  <2>2. inuse' \in [Queues -> 0 .. QUEUE_ELEMENTS]
    BY <1>1, <1>2, <1>3, Widths DEF TypeOK
  <2>3. num_buffers' \in [Heads -> Nat]
    BY <1>1, <1>2, <1>3, <1>6 DEF TypeOK
  <2> QED
    BY <1>1, <1>2, <2>1, <2>2, <2>3 DEF TypeOK, LoopSteps
<1>8. Apart("tx")' /\ HeadApart' /\ (Covered("tx") => Covered("tx")')
  <2>1. used_idx'["tx"] = used_idx["tx"] /\ NumFilled("tx")' = NumFilled("tx")
    BY <1>1, <1>2 DEF TypeOK, NumFilled
  <2> QED
    BY <1>1, <1>2, <2>1, OtherQueue
<1>9. PlaceInv'
  <2>1. inuse'["tx"] = inuse["tx"] /\ inuse'["rx"] = 0
    BY <1>1, <1>2, <1>3 DEF TypeOK
  <2> QED
    BY <1>1, <1>2, <1>5, <2>1 DEF IInv, PlaceInv, Ready
<1>10. /\ Apart("rx")' /\ Covered("rx")'
  <2>1. AddedRange("rx")' = AddedRange("rx") /\ \A a : AddedAt("rx", a)' = AddedAt("rx", a)
    BY <1>2 DEF AddedRange, AddedAt, NumHeads
  <2> QED
    BY <1>1, <1>2, <1>5, <2>1, QueueKept
<1>11. ApartInv' /\ CoverInv'
  BY <1>2, <1>8, <1>10 DEF IInv, ApartInv, CoverInv, Queues
<1>12. ContentInv' /\ BrokenOnlyIfIllegal'
  BY <1>2 DEF IInv, ContentInv, BrokenOnlyIfIllegal
<1>13. InterruptInv'
  <2>1. /\ pending_irq'["rx"] = TRUE
        /\ pending_irq'["tx"] = pending_irq["tx"] /\ used_idx'["tx"] = used_idx["tx"]
    BY <1>1, <1>2 DEF TypeOK
  <2>2. driver' = driver /\ no_interrupt' = no_interrupt /\ irq' = irq /\ seen' = seen
    BY <1>2
  <2>3. port' = port
    BY <1>2
  <2> QED
    BY <2>1, <2>2, <2>3 DEF IInv, InterruptInv, Unread, Detached, Queues
<1>14. PacketInv'
  <2>1. \A r : PartAt(r)' = PartAt(r)
    BY <1>2, <1>5 DEF PartAt
  <2>2. \A r \in 0 .. K - 1 : HeaderAt(r)' = HeaderAt(r)
    <3> SUFFICES ASSUME NEW r \in 0 .. K - 1 PROVE HeaderAt(r)' = HeaderAt(r)
      OBVIOUS
    <3>1. r \in ReturnedRange("rx") /\ r # K
      BY <1>3, <1>5
    <3>2. d > 0 => ReturnedAt("rx", r) # first
      BY <1>1, <1>6, <3>1 DEF Apart
    <3>3. num_buffers'[ReturnedAt("rx", r)] = num_buffers[ReturnedAt("rx", r)]
      BY <1>1, <1>2, <1>3, <1>6, <3>2 DEF TypeOK
    <3> QED
      BY <1>5, <3>3 DEF HeaderAt
  <2>3. \A r \in Int : r = K /\ d > 0 => HeaderAt(r)' = d
    BY <1>1, <1>5, <1>6 DEF TypeOK, HeaderAt
  <2>4. \A r \in K .. K + d - 1 : PartAt(r) = <<content[head], r - K + 1>>
    BY <1>1 DEF PacketInv, K, d
  <2>5. content[head] \in Packets
    BY <1>1, <1>3 DEF IInv, ContentInv, HeadApart
  <2>6. /\ K > 0 => PartAt(0)[2] = 1
        /\ \A r \in 0 .. K - 1 : PartAt(r)[1] \in Packets
        /\ \A r \in 0 .. K - 1 : PartAt(r)[2] = 1 =>
               /\ HeaderAt(r) \in 1 .. K - r
               /\ \A s \in r .. r + HeaderAt(r) - 1 : PartAt(s) = <<PartAt(r)[1], s - r + 1>>
               /\ \A s \in 0 .. K - 1 : s = r + HeaderAt(r) => PartAt(s)[2] = 1
    BY <1>1 DEF PacketInv, K
  <2>7. K + d > 0 => PartAt(0)[2] = 1
    <3>1. CASE K > 0
      BY <2>6, <3>1
    <3>2. CASE K = 0 /\ d > 0
      BY <2>4, <3>2, <1>3
    <3> QED
      BY <1>3, <3>1, <3>2
  <2>8. \A r \in 0 .. K + d - 1 : PartAt(r)[1] \in Packets
    <3> SUFFICES ASSUME NEW r \in 0 .. K + d - 1 PROVE PartAt(r)[1] \in Packets
      OBVIOUS
    <3>1. CASE r < K
      BY <1>3, <2>6, <3>1
    <3>2. CASE r >= K
      BY <1>3, <2>4, <2>5, <3>2
    <3> QED
      BY <1>3, <3>1, <3>2
  <2>9. ASSUME NEW r \in 0 .. K + d - 1, PartAt(r)[2] = 1
        PROVE  /\ HeaderAt(r)' \in 1 .. K + d - r
               /\ \A s \in r .. r + HeaderAt(r)' - 1 : PartAt(s) = <<PartAt(r)[1], s - r + 1>>
               /\ \A s \in 0 .. K + d - 1 : s = r + HeaderAt(r)' => PartAt(s)[2] = 1
    <3>1. CASE r < K
      <4>1. r \in 0 .. K - 1 /\ HeaderAt(r)' = HeaderAt(r)
        BY <1>3, <2>2, <3>1
      <4>2. /\ HeaderAt(r) \in 1 .. K - r
            /\ \A s \in r .. r + HeaderAt(r) - 1 : PartAt(s) = <<PartAt(r)[1], s - r + 1>>
            /\ \A s \in 0 .. K - 1 : s = r + HeaderAt(r) => PartAt(s)[2] = 1
        BY <2>6, <2>9, <4>1
      <4>3. \A s \in 0 .. K + d - 1 : s = r + HeaderAt(r) => s < K \/ s = K
        BY <1>3, <4>2
      <4>4. \A s \in 0 .. K + d - 1 : s = K => PartAt(s)[2] = 1
        BY <1>3, <2>4
      <4> QED
        BY <1>3, <4>1, <4>2, <4>3, <4>4
    <3>2. CASE r >= K
      <4>1. r \in K .. K + d - 1 /\ PartAt(r) = <<content[head], r - K + 1>>
        BY <1>3, <2>4, <3>2
      <4>2. r = K /\ d > 0 /\ PartAt(r)[1] = content[head]
        BY <1>3, <2>9, <4>1
      <4>3. HeaderAt(r)' = d
        BY <2>3, <4>2
      <4> QED
        BY <1>3, <2>4, <4>2, <4>3
    <3> QED
      BY <1>3, <3>1, <3>2
  <2>10. pc' # "receive"
    BY <1>2
  <2> QED
    <3>1. PICK R \in Int : R = K + d
      BY <1>3
    <3>2. /\ R > 0 => PartAt(0)[2] = 1
          /\ \A r \in 0 .. R - 1 : PartAt(r)[1] \in Packets
          /\ \A r \in 0 .. R - 1 : PartAt(r)[2] = 1 =>
                 /\ HeaderAt(r)' \in 1 .. R - r
                 /\ \A s \in r .. r + HeaderAt(r)' - 1 : PartAt(s) = <<PartAt(r)[1], s - r + 1>>
                 /\ \A s \in 0 .. R - 1 : s = r + HeaderAt(r)' => PartAt(s)[2] = 1
      <4>1. /\ R > 0 <=> K + d > 0
            /\ 0 .. R - 1 = 0 .. K + d - 1
            /\ \A r \in Int : 1 .. R - r = 1 .. K + d - r
        BY <1>3, <3>1
      <4>2. ASSUME NEW r \in 0 .. R - 1, PartAt(r)[2] = 1
            PROVE  /\ HeaderAt(r)' \in 1 .. R - r
                   /\ \A s \in r .. r + HeaderAt(r)' - 1 : PartAt(s) = <<PartAt(r)[1], s - r + 1>>
                   /\ \A s \in 0 .. R - 1 : s = r + HeaderAt(r)' => PartAt(s)[2] = 1
        <5>1. r \in 0 .. K + d - 1 /\ r \in Int
          BY <1>3, <3>1, <4>2
        <5>2. /\ HeaderAt(r)' \in 1 .. K + d - r
              /\ \A s \in r .. r + HeaderAt(r)' - 1 : PartAt(s) = <<PartAt(r)[1], s - r + 1>>
              /\ \A s \in 0 .. K + d - 1 : s = r + HeaderAt(r)' => PartAt(s)[2] = 1
          BY <2>9, <4>2, <5>1
        <5> QED
          BY <4>1, <5>1, <5>2
      <4> QED
        BY <2>7, <2>8, <4>1, <4>2
    <3> QED
      BY <1>4, <2>1, <2>10, <3>1, <3>2 DEF PacketInv
<1> QED
  BY <1>7, <1>9, <1>11, <1>12, <1>13, <1>14 DEF IInv

LEMMA MarkDoneStep == ASSUME IInv, MarkDone PROVE IInv'
<1> DEFINE K == NumReturned("tx")
<1>1. /\ TypeOK /\ ApartInv /\ Apart("tx") /\ Apart("rx") /\ HeadApart
      /\ Covered("tx") /\ port["tx"] # "broken"
      /\ "tx" \in Queues /\ "rx" \in Queues
      /\ pc \in {"done", "unwind"} /\ head # NoHead /\ head \in Heads /\ inuse["tx"] = 1
  BY DEF IInv, TypeOK, PlaceInv, ApartInv, CoverInv, MarkDone, Queues, Ready
<1>2. /\ Fill("tx", head, 0) /\ Flush("tx", 1)
      /\ used_idx' = [used_idx EXCEPT !["tx"] = Plus(@, 1)]
      /\ inuse' = [inuse EXCEPT !["tx"] = @ - 1]
      /\ pending_irq' = [pending_irq EXCEPT !["tx"] = TRUE]
      /\ head' = NoHead /\ num_descriptors' = 0 /\ first' = NoHead
      /\ pc' \in {"poll", "rx_irq"}
      /\ UNCHANGED <<avail_idx, avail_ring, no_interrupt, content, part, num_buffers, bad,
                     last_avail_idx, port, irq, seen, owned, driver, sent, refills>>
  BY DEF MarkDone, Flush, bufferVars, guestVars
<1>3. K \in Nat /\ K < QUEUE_ELEMENTS /\ NumFilled("tx") = 0
  BY <1>1, RingBounds, RingTypes DEF NumFilled
<1>4. /\ \A r \in 0 .. K - 1 : ReturnedAt("tx", r)' = ReturnedAt("tx", r)
      /\ \A r \in Int : r = K => ReturnedAt("tx", r)' = head
      /\ \A r \in Int : ReturnedAt("rx", r)' = ReturnedAt("rx", r)
  <2>1. /\ \A r \in 0 .. K + 0 - 1 : ReturnedAt("tx", r)' = ReturnedAt("tx", r)
        /\ \A r \in Int : r = K + 0 => ReturnedAt("tx", r)' = head
        /\ \A r \in Int : ReturnedAt("rx", r)' = ReturnedAt("rx", r)
    BY <1>1, <1>2, <1>3, FillEffect
  <2>2. K + 0 = K /\ 0 .. K + 0 - 1 = 0 .. K - 1
    BY <1>3
  <2> QED
    BY <2>1, <2>2
<1>5. NumReturned("tx")' = K + 1 /\ NumReturned("rx")' = NumReturned("rx")
  BY <1>1, <1>2, <1>3, Widths, FlushEffect
<1>6. /\ ReturnedRange("tx") = 0 .. K - 1
      /\ ReturnedRange("tx")' = 0 .. K
      /\ NumFilled("rx")' = 0 /\ NumFilled("rx") = 0
      /\ AddedRange("tx")' = AddedRange("tx")
      /\ \A a : AddedAt("tx", a)' = AddedAt("tx", a)
  <2>1. NumFilled("rx")' = 0 /\ NumFilled("rx") = 0 /\ NumFilled("tx")' = 0
    BY <1>1, <1>2 DEF NumFilled
  <2>2. AddedRange("tx")' = AddedRange("tx") /\ \A a : AddedAt("tx", a)' = AddedAt("tx", a)
    BY <1>2 DEF AddedRange, AddedAt, NumHeads
  <2> QED
    BY <1>3, <1>5, <2>1, <2>2 DEF ReturnedRange
<1> HIDE DEF K
<1>7. TypeOK'
  <2>1. used_idx' \in [Queues -> Indices]
    <3>1. PICK i \in Int : i = used_idx["tx"]
      BY <1>1, RingTypes
    <3>2. Plus(i, 1) \in Indices
      BY PlusType
    <3> QED
      BY <1>1, <1>2, <3>1, <3>2 DEF TypeOK
  <2>2. used_ring' \in [Queues -> [Slots -> Heads]]
    BY <1>1, <1>2 DEF Fill, TypeOK
  <2>3. inuse' \in [Queues -> 0 .. QUEUE_ELEMENTS]
    BY <1>1, <1>2, Widths DEF TypeOK
  <2>4. pc' \in LoopSteps /\ quota' \in 0 .. BatchSize
    BY <1>1, BatchAssumption DEF MarkDone, TypeOK, LoopSteps
  <2>5. num_descriptors' \in 0 .. QUEUE_ELEMENTS
    BY <1>2, Widths
  <2> QED
    BY <1>1, <1>2, <2>1, <2>2, <2>3, <2>4, <2>5 DEF TypeOK
<1>8. Apart("rx")' /\ (Covered("rx") => Covered("rx")')
  <2>1. used_idx'["rx"] = used_idx["rx"] /\ used_ring'["rx"] = used_ring["rx"]
    BY <1>1, <1>2 DEF Fill, TypeOK
  <2> QED
    BY <1>1, <1>2, <1>6, <2>1, OtherQueue
<1>9. PlaceInv'
  <2>1. inuse'["rx"] = inuse["rx"] /\ inuse'["tx"] = 0
    BY <1>1, <1>2 DEF TypeOK
  <2> QED
    BY <1>1, <1>2, <1>6, <2>1 DEF IInv, PlaceInv
<1>10. ApartInv'
  <2>1. \A r \in ReturnedRange("tx")' :
            \/ r \in ReturnedRange("tx") /\ ReturnedAt("tx", r)' = ReturnedAt("tx", r)
            \/ r = K /\ r \notin ReturnedRange("tx") /\ ReturnedAt("tx", r)' = head
    BY <1>3, <1>4, <1>6
  <2>2. Apart("tx")'
    BY <1>1, <1>2, <1>6, <2>1 DEF Apart, HeadApart
  <2>3. HeadApart'
    <3>1. NoHead \notin Heads /\ owned["tx"] \subseteq Heads
      BY <1>1, Widths DEF TypeOK, NoHead, Heads
    <3>2. \A a \in AddedRange("tx") : AddedAt("tx", a) \in Heads
      BY <1>1, RingTypes DEF AddedRange
    <3>3. \A r \in ReturnedRange("tx")' : ReturnedAt("tx", r)' \in Heads
      <4>1. \A r \in ReturnedRange("tx") : r \in Int
        BY <1>3, <1>6
      <4> QED
        BY <1>1, <2>1, <4>1, RingTypes
    <3> QED
      BY <1>2, <1>6, <3>1, <3>2, <3>3 DEF HeadApart
  <2> QED
    BY <1>8, <2>2, <2>3 DEF ApartInv, Queues
<1>11. CoverInv'
  <2>1. \A r \in ReturnedRange("tx") :
            r \in ReturnedRange("tx")' /\ ReturnedAt("tx", r)' = ReturnedAt("tx", r)
    BY <1>3, <1>4, <1>6
  <2>2. \E r \in ReturnedRange("tx")' : head = ReturnedAt("tx", r)'
    BY <1>3, <1>4, <1>6
  <2>3. Covered("tx")'
    BY <1>1, <1>2, <1>6, <2>1, <2>2 DEF Covered
  <2> QED
    BY <1>2, <1>8, <2>3 DEF IInv, CoverInv, Queues
<1>12. ContentInv' /\ BrokenOnlyIfIllegal'
  BY <1>2 DEF IInv, ContentInv, BrokenOnlyIfIllegal
<1>13. InterruptInv'
  <2>1. /\ pending_irq'["tx"] = TRUE
        /\ pending_irq'["rx"] = pending_irq["rx"] /\ used_idx'["rx"] = used_idx["rx"]
    BY <1>1, <1>2 DEF TypeOK
  <2>2. driver' = driver /\ no_interrupt' = no_interrupt /\ irq' = irq /\ seen' = seen
    BY <1>2
  <2>3. port' = port
    BY <1>2
  <2> QED
    BY <2>1, <2>2, <2>3 DEF IInv, InterruptInv, Unread, Detached, Queues
<1>14. PacketInv'
  BY <1>2, <1>4, <1>5, PacketsKept
<1> QED
  BY <1>7, <1>9, <1>10, <1>11, <1>12, <1>13, <1>14 DEF IInv

\* A driver that adds a chain gives up its own.
LEMMA AddChains ==
    ASSUME TypeOK, ApartInv, NEW q \in Queues, NEW h \in Heads, Add(q, h),
           UNCHANGED <<last_avail_idx, used_idx, used_ring, seen, pc, num_descriptors, head>>
    PROVE  /\ ApartInv'
           /\ \A p \in Queues : Covered(p) => Covered(p)'
           /\ avail_idx' \in [Queues -> Indices]
           /\ avail_ring' \in [Queues -> [Slots -> Heads]]
           /\ bad' \in [Queues -> SUBSET Heads]
           /\ \A p \in Queues : bad[p] \subseteq bad'[p]
           /\ owned' \in [Queues -> SUBSET Heads]
           /\ owned' = [owned EXCEPT ![q] = @ \ {h}]
           /\ \A r : ReturnedAt("rx", r)' = ReturnedAt("rx", r)
           /\ NumReturned("rx")' = NumReturned("rx")
<1> DEFINE n == NumHeads(q)
<1>1. /\ h \in owned[q]
      /\ owned' = [owned EXCEPT ![q] = @ \ {h}]
      /\ avail_ring' = [avail_ring EXCEPT ![q][Slot(avail_idx[q])] = h]
      /\ avail_idx' = [avail_idx EXCEPT ![q] = Plus(@, 1)]
      /\ \E wrong \in SUBSET {h} : bad' = [bad EXCEPT ![q] = @ \cup wrong]
  BY DEF Add
<1>2. n \in Nat /\ n < QUEUE_ELEMENTS
  BY <1>1, RingBounds, RingTypes
<1>3. /\ NumHeads(q)' = n + 1
      /\ \A a \in AddedRange(q) : AddedAt(q, a)' = AddedAt(q, a)
      /\ \A a \in Int : a = n => AddedAt(q, a)' = h
  BY <1>2, AddEffect
<1>4. AddedRange(q) = 0 .. n - 1 /\ AddedRange(q)' = 0 .. n
  BY <1>2, <1>3 DEF AddedRange
<1> HIDE DEF n
<1>5. \A a \in AddedRange(q)' :
          \/ a \in AddedRange(q) /\ AddedAt(q, a)' = AddedAt(q, a)
          \/ a = n /\ a \notin AddedRange(q) /\ AddedAt(q, a)' = h
  BY <1>2, <1>3, <1>4
<1>6. \A a \in AddedRange(q) : a \in AddedRange(q)' /\ AddedAt(q, a)' = AddedAt(q, a)
  BY <1>2, <1>3, <1>4
<1>7. \E a \in AddedRange(q)' : h = AddedAt(q, a)'
  BY <1>2, <1>3, <1>4
<1>8. /\ \A p \in Queues : ReturnedRange(p)' = ReturnedRange(p)
      /\ \A p, r : ReturnedAt(p, r)' = ReturnedAt(p, r)
      /\ NumReturned("rx")' = NumReturned("rx")
  BY DEF ReturnedRange, ReturnedAt, NumReturned, NumFilled
<1>9. owned'[q] = owned[q] \ {h}
  BY <1>1 DEF TypeOK
<1>10. Apart(q)'
  BY <1>1, <1>5, <1>8, <1>9 DEF ApartInv, Apart
<1>11. Covered(q) => Covered(q)'
  <2> SUFFICES ASSUME Covered(q), NEW x \in Heads
               PROVE  \/ x \in owned'[q]
                      \/ \E a \in AddedRange(q)' : x = AddedAt(q, a)'
                      \/ \E r \in ReturnedRange(q)' : x = ReturnedAt(q, r)'
                      \/ q = "tx" /\ x = head'
    BY DEF Covered
  <2>1. \/ x \in owned[q]
        \/ \E a \in AddedRange(q) : x = AddedAt(q, a)
        \/ \E r \in ReturnedRange(q) : x = ReturnedAt(q, r)
        \/ q = "tx" /\ x = head
    BY DEF Covered
  <2>2. CASE x \in owned[q]
    BY <1>7, <1>9, <2>2
  <2>3. CASE \E a \in AddedRange(q) : x = AddedAt(q, a)
    BY <1>6, <2>3
  <2>4. CASE \E r \in ReturnedRange(q) : x = ReturnedAt(q, r)
    BY <1>8, <2>4
  <2>5. CASE q = "tx" /\ x = head
    BY <2>5
  <2> QED
    BY <2>1, <2>2, <2>3, <2>4, <2>5
<1>12. ASSUME NEW p \in Queues \ {q}
       PROVE  /\ Apart(p)' /\ (Covered(p) => Covered(p)')
              /\ p = "tx" => HeadApart'
  <2>1. /\ avail_idx'[p] = avail_idx[p] /\ avail_ring'[p] = avail_ring[p]
        /\ owned'[p] = owned[p]
    BY <1>1 DEF TypeOK
  <2>2. NumFilled(p)' = NumFilled(p)
    BY DEF NumFilled
  <2> QED
    BY <2>1, <2>2, OtherQueue DEF ApartInv
<1>13. HeadApart'
  <2>1. CASE q = "tx"
    BY <1>1, <1>5, <1>8, <1>9, <2>1 DEF ApartInv, HeadApart
  <2>2. CASE q # "tx"
    BY <1>12, <2>2 DEF Queues
  <2> QED
    BY <2>1, <2>2
<1>14. ApartInv' /\ \A p \in Queues : Covered(p) => Covered(p)'
  BY <1>10, <1>11, <1>12, <1>13 DEF ApartInv
<1>15. avail_idx' \in [Queues -> Indices]
  <2>1. PICK i \in Int : i = avail_idx[q]
    BY RingTypes
  <2>2. Plus(i, 1) \in Indices
    BY PlusType
  <2> QED
    BY <1>1, <2>1, <2>2 DEF TypeOK
<1>16. /\ avail_ring' \in [Queues -> [Slots -> Heads]]
       /\ owned' \in [Queues -> SUBSET Heads]
  BY <1>1 DEF TypeOK
<1>17. bad' \in [Queues -> SUBSET Heads] /\ \A p \in Queues : bad[p] \subseteq bad'[p]
  BY <1>1 DEF TypeOK
<1> QED
  BY <1>1, <1>8, <1>14, <1>15, <1>16, <1>17

LEMMA SendStep == ASSUME IInv, NEW h \in Heads, Send(h) PROVE IInv'
<1>1. /\ TypeOK /\ ApartInv /\ "tx" \in Queues /\ "rx" \in Queues
      /\ h \in owned["tx"] /\ HeadApart
  BY DEF IInv, ApartInv, Send, Add, Queues
<1>2. /\ Add("tx", h)
      /\ sent < Len(Size) /\ sent' = sent + 1
      /\ content' = [content EXCEPT ![h] = sent + 1]
      /\ UNCHANGED <<no_interrupt, used_idx, used_ring, part, num_buffers, last_avail_idx, inuse,
                     pending_irq, port, irq, pc, quota, head, num_descriptors, first,
                     seen, driver, refills>>
  BY DEF Send, deviceVars, loopVars
<1>3. /\ ApartInv'
      /\ \A p \in Queues : Covered(p) => Covered(p)'
      /\ avail_idx' \in [Queues -> Indices]
      /\ avail_ring' \in [Queues -> [Slots -> Heads]]
      /\ bad' \in [Queues -> SUBSET Heads]
      /\ \A p \in Queues : bad[p] \subseteq bad'[p]
      /\ owned' \in [Queues -> SUBSET Heads]
      /\ owned' = [owned EXCEPT !["tx"] = @ \ {h}]
      /\ \A r : ReturnedAt("rx", r)' = ReturnedAt("rx", r)
      /\ NumReturned("rx")' = NumReturned("rx")
  BY <1>1, <1>2, AddChains
<1>4. sent + 1 \in Packets /\ sent' \in 0 .. Len(Size)
  <2>1. Len(Size) \in Nat /\ Packets = 1 .. Len(Size)
    BY SizeAssumption DEF Packets
  <2> QED
    BY <1>1, <1>2, <2>1 DEF TypeOK
<1>5. TypeOK'
  <2>1. content' \in [Heads -> Packets \cup {NoPacket}]
    BY <1>1, <1>2, <1>4 DEF TypeOK
  <2> QED
    BY <1>1, <1>2, <1>3, <1>4, <2>1 DEF TypeOK
<1>6. PlaceInv'
  <2>1. NumFilled("rx")' = NumFilled("rx") /\ Ready("tx")' = Ready("tx")
    BY <1>2 DEF NumFilled, Ready
  <2>2. ReturnedAt("rx", NumReturned("rx"))' = ReturnedAt("rx", NumReturned("rx"))
    BY <1>2 DEF ReturnedAt, NumReturned
  <2> QED
    BY <1>2, <2>1, <2>2 DEF IInv, PlaceInv
<1>7. CoverInv'
  BY <1>2, <1>3 DEF IInv, CoverInv
<1>8. ContentInv'
  BY <1>1, <1>2, <1>3, <1>4 DEF IInv, ContentInv, TypeOK
<1>9. InterruptInv'
  BY <1>2 DEF IInv, InterruptInv, Unread, Detached
<1>10. BrokenOnlyIfIllegal'
  BY <1>2, <1>3 DEF IInv, BrokenOnlyIfIllegal
<1>11. PacketInv'
  <2>1. content'[head] = content[head]
    BY <1>1, <1>2 DEF HeadApart, TypeOK
  <2> QED
    BY <1>2, <1>3, <2>1, PacketsKept
<1> QED
  BY <1>3, <1>5, <1>6, <1>7, <1>8, <1>9, <1>10, <1>11 DEF IInv

LEMMA SupplyStep == ASSUME IInv, NEW h \in Heads, Supply(h) PROVE IInv'
<1>1. TypeOK /\ ApartInv /\ "tx" \in Queues /\ "rx" \in Queues
  BY DEF IInv, Queues
<1>2. /\ Add("rx", h)
      /\ refills < MaxRefills /\ refills' = refills + 1
      /\ UNCHANGED <<no_interrupt, used_idx, used_ring, content, part, num_buffers, last_avail_idx,
                     inuse, pending_irq, port, irq, pc, quota, head, num_descriptors, first,
                     seen, driver, sent>>
  BY DEF Supply, deviceVars, loopVars
<1>3. /\ ApartInv'
      /\ \A p \in Queues : Covered(p) => Covered(p)'
      /\ avail_idx' \in [Queues -> Indices]
      /\ avail_ring' \in [Queues -> [Slots -> Heads]]
      /\ bad' \in [Queues -> SUBSET Heads]
      /\ \A p \in Queues : bad[p] \subseteq bad'[p]
      /\ owned' \in [Queues -> SUBSET Heads]
      /\ owned' = [owned EXCEPT !["rx"] = @ \ {h}]
      /\ \A r : ReturnedAt("rx", r)' = ReturnedAt("rx", r)
      /\ NumReturned("rx")' = NumReturned("rx")
  BY <1>1, <1>2, AddChains
<1>4. TypeOK'
  <2>1. refills' \in 0 .. MaxRefills
    BY <1>1, <1>2, BoundAssumption DEF TypeOK
  <2> QED
    BY <1>1, <1>2, <1>3, <2>1 DEF TypeOK
<1>5. PlaceInv'
  <2>1. NumFilled("rx")' = NumFilled("rx") /\ Ready("tx")' = Ready("tx")
    BY <1>2 DEF NumFilled, Ready
  <2>2. ReturnedAt("rx", NumReturned("rx"))' = ReturnedAt("rx", NumReturned("rx"))
    BY <1>2 DEF ReturnedAt, NumReturned
  <2> QED
    BY <1>2, <2>1, <2>2 DEF IInv, PlaceInv
<1>6. CoverInv'
  BY <1>2, <1>3 DEF IInv, CoverInv
<1>7. ContentInv'
  <2>1. owned'["tx"] = owned["tx"]
    BY <1>1, <1>3 DEF TypeOK
  <2> QED
    BY <1>2, <2>1 DEF IInv, ContentInv
<1>8. InterruptInv'
  BY <1>2 DEF IInv, InterruptInv, Unread, Detached
<1>9. BrokenOnlyIfIllegal'
  BY <1>2, <1>3 DEF IInv, BrokenOnlyIfIllegal
<1>10. PacketInv'
  BY <1>2, <1>3, PacketsKept
<1> QED
  BY <1>3, <1>4, <1>5, <1>6, <1>7, <1>8, <1>9, <1>10 DEF IInv

\* A driver that takes entries out of the used ring gets their chains, and the
\* entries behind them move up.
LEMMA TakeChains ==
    ASSUME TypeOK, ApartInv, NEW q \in Queues, NEW n \in 0 .. NumReturned(q), Take(q, n),
           UNCHANGED <<avail_idx, avail_ring, last_avail_idx, used_idx, used_ring, pc,
                       num_descriptors, head>>
    PROVE  /\ ApartInv'
           /\ \A p \in Queues : Covered(p) => Covered(p)'
           /\ seen' \in [Queues -> Indices]
           /\ owned' \in [Queues -> SUBSET Heads]
           /\ \A p \in Queues \ {q} : owned'[p] = owned[p] /\ seen'[p] = seen[p]
           /\ owned[q] \subseteq owned'[q]
           /\ NumReturned(q)' = NumReturned(q) - n
           /\ \A r \in ReturnedRange(q)' : /\ r \in Int /\ r + n \in ReturnedRange(q)
                                           /\ ReturnedAt(q, r)' = ReturnedAt(q, r + n)
                                           /\ ReturnedAt(q, r)' \notin owned'[q]
           /\ ReturnedRange(q)' = 0 .. NumReturned(q) - n + NumFilled(q) - 1
<1> DEFINE R == NumReturned(q)
           F == NumFilled(q)
           taken == {used_ring[q][Slot(seen[q] + i)] : i \in 0 .. n - 1}
<1>1. /\ seen' = [seen EXCEPT ![q] = Plus(@, n)]
      /\ owned' = [owned EXCEPT ![q] = @ \cup taken]
  BY DEF Take
<1>2. R \in Nat /\ F \in Nat /\ n \in Nat /\ n <= R
  BY RingBounds, RingTypes
<1>3. /\ NumReturned(q)' = R - n
      /\ \A r \in Int : ReturnedAt(q, r)' = ReturnedAt(q, r + n)
  BY <1>1, TakeEffect
<1>4. /\ ReturnedRange(q) = 0 .. R + F - 1
      /\ ReturnedRange(q)' = 0 .. R - n + F - 1
  <2>1. NumFilled(q)' = F
    BY DEF NumFilled
  <2> QED
    BY <1>2, <1>3, <2>1 DEF ReturnedRange
<1>5. taken = {ReturnedAt(q, i) : i \in 0 .. n - 1}
  <2>1. \A i \in 0 .. n - 1 : used_ring[q][Slot(seen[q] + i)] = ReturnedAt(q, i)
    <3> SUFFICES ASSUME NEW i \in 0 .. n - 1
                 PROVE  used_ring[q][Slot(seen[q] + i)] = ReturnedAt(q, i)
      OBVIOUS
    <3>1. PICK x \in Int, y \in Int : x = seen[q] /\ y = i
      BY <1>2, RingTypes
    <3>2. Slot(Plus(x, y)) = Slot(x + y)
      BY SlotOfPlus
    <3> QED
      BY <3>1, <3>2 DEF ReturnedAt
  <2> QED
    BY <2>1
<1>6. owned'[q] = owned[q] \cup taken
  BY <1>1 DEF TypeOK
<1> HIDE DEF taken, R, F
<1>7. \A r \in ReturnedRange(q)' : /\ r \in Int /\ r + n \in ReturnedRange(q) /\ r + n >= n
  BY <1>2, <1>4
<1>8. \A i \in 0 .. n - 1 : i \in ReturnedRange(q) /\ i \in Int /\ i < n
  BY <1>2, <1>4
<1>9. \A r \in ReturnedRange(q) : r \in 0 .. n - 1 \/ (r - n \in ReturnedRange(q)' /\ r - n + n = r)
  BY <1>2, <1>4
<1>10. \A r \in ReturnedRange(q)' : ReturnedAt(q, r)' \notin owned'[q]
  <2> SUFFICES ASSUME NEW r \in ReturnedRange(q)' PROVE ReturnedAt(q, r)' \notin owned'[q]
    OBVIOUS
  <2>1. ReturnedAt(q, r)' = ReturnedAt(q, r + n) /\ r + n \in ReturnedRange(q)
    BY <1>3, <1>7
  <2>2. ReturnedAt(q, r + n) \notin owned[q]
    BY <2>1 DEF ApartInv, Apart
  <2>3. \A i \in 0 .. n - 1 : i # r + n
    BY <1>2, <1>7, <1>8
  <2>4. \A i \in 0 .. n - 1 : ReturnedAt(q, i) # ReturnedAt(q, r + n)
    BY <1>8, <2>1, <2>3 DEF ApartInv, Apart
  <2> QED
    BY <1>5, <1>6, <2>1, <2>2, <2>4
<1>11. AddedRange(q)' = AddedRange(q) /\ \A a : AddedAt(q, a)' = AddedAt(q, a)
  BY DEF AddedRange, AddedAt, NumHeads
<1>12. Apart(q)'
  <2>1. \A a, b \in AddedRange(q)' : AddedAt(q, a)' = AddedAt(q, b)' => a = b
    BY <1>11 DEF ApartInv, Apart
  <2>2. \A r, s \in ReturnedRange(q)' : ReturnedAt(q, r)' = ReturnedAt(q, s)' => r = s
    <3> SUFFICES ASSUME NEW r \in ReturnedRange(q)', NEW s \in ReturnedRange(q)',
                        ReturnedAt(q, r)' = ReturnedAt(q, s)'
                 PROVE  r = s
      OBVIOUS
    <3>1. ReturnedAt(q, r + n) = ReturnedAt(q, s + n) /\ r \in Int /\ s \in Int
      BY <1>3, <1>7
    <3>2. r + n = s + n
      BY <1>7, <3>1 DEF ApartInv, Apart
    <3> QED
      BY <1>2, <3>1, <3>2
  <2>3. \A a \in AddedRange(q)', r \in ReturnedRange(q)' : AddedAt(q, a)' # ReturnedAt(q, r)'
    BY <1>3, <1>7, <1>11 DEF ApartInv, Apart
  <2>4. \A a \in AddedRange(q)' : AddedAt(q, a)' \notin owned'[q]
    BY <1>5, <1>6, <1>8, <1>11 DEF ApartInv, Apart
  <2> QED
    BY <1>10, <2>1, <2>2, <2>3, <2>4 DEF Apart
<1>13. Covered(q) => Covered(q)'
  <2> SUFFICES ASSUME Covered(q), NEW x \in Heads
               PROVE  \/ x \in owned'[q]
                      \/ \E a \in AddedRange(q)' : x = AddedAt(q, a)'
                      \/ \E r \in ReturnedRange(q)' : x = ReturnedAt(q, r)'
                      \/ q = "tx" /\ x = head'
    BY DEF Covered
  <2>1. \/ x \in owned[q]
        \/ \E a \in AddedRange(q) : x = AddedAt(q, a)
        \/ \E r \in ReturnedRange(q) : x = ReturnedAt(q, r)
        \/ q = "tx" /\ x = head
    BY DEF Covered
  <2>2. CASE x \in owned[q]
    BY <1>6, <2>2
  <2>3. CASE \E a \in AddedRange(q) : x = AddedAt(q, a)
    BY <1>11, <2>3
  <2>4. CASE \E r \in ReturnedRange(q) : x = ReturnedAt(q, r)
    <3>1. PICK r \in ReturnedRange(q) : x = ReturnedAt(q, r)
      BY <2>4
    <3>2. CASE r \in 0 .. n - 1
      BY <1>5, <1>6, <3>1, <3>2
    <3>3. CASE r - n \in ReturnedRange(q)' /\ r - n + n = r
      <4>1. PICK s \in ReturnedRange(q)' : s = r - n
        BY <3>3
      <4>2. ReturnedAt(q, s)' = ReturnedAt(q, s + n) /\ s + n = r
        BY <1>3, <1>7, <3>3, <4>1
      <4> QED
        BY <3>1, <4>2
    <3> QED
      BY <1>9, <3>2, <3>3
  <2>5. CASE q = "tx" /\ x = head
    BY <2>5
  <2> QED
    BY <2>1, <2>2, <2>3, <2>4, <2>5
<1>14. ASSUME NEW p \in Queues \ {q}
       PROVE  /\ Apart(p)' /\ (Covered(p) => Covered(p)')
              /\ p = "tx" => HeadApart'
              /\ owned'[p] = owned[p] /\ seen'[p] = seen[p]
  <2>1. /\ seen'[p] = seen[p] /\ owned'[p] = owned[p]
    BY <1>1 DEF TypeOK
  <2>2. NumFilled(p)' = NumFilled(p)
    BY DEF NumFilled
  <2> QED
    BY <2>1, <2>2, OtherQueue DEF ApartInv
<1>15. HeadApart'
  <2>1. CASE q = "tx"
    BY <1>3, <1>5, <1>6, <1>7, <1>8, <1>11, <2>1 DEF ApartInv, HeadApart
  <2>2. CASE q # "tx"
    BY <1>14, <2>2 DEF Queues
  <2> QED
    BY <2>1, <2>2
<1>16. seen' \in [Queues -> Indices]
  <2>1. PICK i \in Int : i = seen[q]
    BY RingTypes
  <2>2. Plus(i, n) \in Indices
    BY <1>2, PlusType
  <2> QED
    BY <1>1, <2>1, <2>2 DEF TypeOK
<1>17. owned' \in [Queues -> SUBSET Heads]
  <2>1. taken \subseteq Heads
    BY <1>5, <1>8, RingTypes
  <2> QED
    BY <1>1, <2>1 DEF TypeOK
<1>18. \A r \in ReturnedRange(q)' : /\ r \in Int /\ r + n \in ReturnedRange(q)
                                    /\ ReturnedAt(q, r)' = ReturnedAt(q, r + n)
  BY <1>3, <1>7
<1>19. ApartInv' /\ \A p \in Queues : Covered(p) => Covered(p)'
  BY <1>12, <1>13, <1>14, <1>15 DEF ApartInv
<1> QED
  BY <1>3, <1>4, <1>6, <1>10, <1>14, <1>16, <1>17, <1>18, <1>19 DEF R, F

\* A driver that has something to read has an entry, and the head in it.
LEMMA UnreadIs ==
    ASSUME TypeOK, NEW q \in Queues, Unread(q)
    PROVE  NumReturned(q) \in Nat /\ NumReturned(q) > 0 /\ NextUsed(q) = ReturnedAt(q, 0)
<1>1. NumReturned(q) \in Nat /\ NumReturned(q) > 0
  BY RingTypes, MinusType, Widths DEF Unread, NumReturned
<1>2. PICK x \in Int : x = seen[q]
  BY RingTypes
<1>3. Slot(Plus(x, 0)) = Slot(x + 0) /\ x + 0 = x
  BY SlotOfPlus
<1> QED
  BY <1>1, <1>2, <1>3 DEF NextUsed, ReturnedAt

LEMMA TakeBackStep == ASSUME IInv, TakeBack PROVE IInv'
<1>1. /\ TypeOK /\ ApartInv /\ "tx" \in Queues /\ "rx" \in Queues
      /\ Take("tx", 1) /\ Unread("tx")
  BY DEF IInv, TakeBack, Take, Queues
<1>2. /\ content' = [h \in Heads |-> IF h \in owned'["tx"] THEN NoPacket ELSE content[h]]
      /\ UNCHANGED <<avail_idx, avail_ring, no_interrupt, used_idx, used_ring, part, num_buffers,
                     bad, last_avail_idx, inuse, pending_irq, port, irq, pc, quota, head,
                     num_descriptors, first, driver, sent, refills>>
  BY DEF TakeBack, ringVars, deviceVars, loopVars
<1>3. 1 \in 0 .. NumReturned("tx")
  BY <1>1, UnreadIs
<1>4. /\ ApartInv'
      /\ \A p \in Queues : Covered(p) => Covered(p)'
      /\ seen' \in [Queues -> Indices]
      /\ owned' \in [Queues -> SUBSET Heads]
      /\ seen'["rx"] = seen["rx"]
      /\ owned["tx"] \subseteq owned'["tx"]
  BY <1>1, <1>2, <1>3, TakeChains
<1>5. TypeOK'
  <2>1. content' \in [Heads -> Packets \cup {NoPacket}]
    BY <1>1, <1>2 DEF TypeOK
  <2> QED
    BY <1>1, <1>2, <1>4, <2>1 DEF TypeOK
<1>6. PlaceInv'
  <2>1. NumFilled("rx")' = NumFilled("rx") /\ Ready("tx")' = Ready("tx")
    BY <1>2 DEF NumFilled, Ready
  <2>2. ReturnedAt("rx", NumReturned("rx"))' = ReturnedAt("rx", NumReturned("rx"))
    BY <1>2, <1>4 DEF ReturnedAt, NumReturned
  <2> QED
    BY <1>2, <2>1, <2>2 DEF IInv, PlaceInv
<1>7. CoverInv'
  BY <1>2, <1>4 DEF IInv, CoverInv
<1>8. ContentInv'
  BY <1>2, <1>4 DEF IInv, ContentInv
<1>9. InterruptInv' /\ BrokenOnlyIfIllegal'
  <2>1. \A q \in Queues : driver'[q] = "asleep" /\ Unread(q)' => driver[q] = "asleep" /\ Unread(q)
    BY <1>1, <1>2, <1>4 DEF Unread, Take, Queues
  <2> QED
    BY <1>2, <2>1 DEF IInv, InterruptInv, Detached, BrokenOnlyIfIllegal
<1>10. PacketInv'
  <2>1. /\ \A r : ReturnedAt("rx", r)' = ReturnedAt("rx", r)
        /\ NumReturned("rx")' = NumReturned("rx")
    BY <1>2, <1>4 DEF ReturnedAt, NumReturned
  <2>2. pc = "receive" => head \in Heads /\ head \notin owned'["tx"]
    BY <1>1, <1>2, <1>4 DEF IInv, PlaceInv, TypeOK, ApartInv, HeadApart
  <2>3. pc = "receive" => content'[head] = content[head]
    BY <1>2, <2>2
  <2> QED
    BY <1>2, <2>1, <2>3, PacketsKept
<1> QED
  BY <1>4, <1>5, <1>6, <1>7, <1>8, <1>9, <1>10 DEF IInv

LEMMA ReadPacketStep == ASSUME IInv, ReadPacket PROVE IInv'
<1> DEFINE n == num_buffers[NextUsed("rx")]
           R == NumReturned("rx")
           F == NumFilled("rx")
<1>1. /\ TypeOK /\ ApartInv /\ PacketInv /\ "tx" \in Queues /\ "rx" \in Queues
      /\ Take("rx", n) /\ Unread("rx") /\ driver["rx"] = "awake"
  BY DEF IInv, ReadPacket, Take, Queues
<1>2. /\ part' = [h \in Heads |-> IF h \in owned'["rx"] THEN NoPart ELSE part[h]]
      /\ num_buffers' = [h \in Heads |-> IF h \in owned'["rx"] THEN 0 ELSE num_buffers[h]]
      /\ UNCHANGED <<avail_idx, avail_ring, no_interrupt, used_idx, used_ring, content,
                     bad, last_avail_idx, inuse, pending_irq, port, irq, pc, quota, head,
                     num_descriptors, first, driver, sent, refills>>
  BY DEF ReadPacket, ringVars, deviceVars, loopVars
<1>3. /\ R \in Nat /\ R > 0 /\ n = HeaderAt(0) /\ F \in Nat
      /\ num_descriptors \in Nat /\ (pc = "receive" => F = num_descriptors)
  BY <1>1, UnreadIs, RingBounds, Widths, SMTT(30) DEF HeaderAt, TypeOK, NumFilled
<1>4. n \in 1 .. R /\ n \in 0 .. R /\ \A s \in 0 .. R - 1 : s = n => PartAt(s)[2] = 1
  <2>1. /\ PartAt(0)[2] = 1 /\ 0 \in 0 .. R - 1
        /\ \A r \in 0 .. R - 1 : PartAt(r)[2] = 1 =>
               /\ HeaderAt(r) \in 1 .. R - r
               /\ \A s \in 0 .. R - 1 : s = r + HeaderAt(r) => PartAt(s)[2] = 1
    BY <1>1, <1>3 DEF PacketInv
  <2>2. /\ HeaderAt(0) \in 1 .. R - 0
        /\ \A s \in 0 .. R - 1 : s = 0 + HeaderAt(0) => PartAt(s)[2] = 1
    BY <2>1
  <2> QED
    BY <1>3, <2>2
<1>5. /\ ApartInv'
      /\ \A p \in Queues : Covered(p) => Covered(p)'
      /\ seen' \in [Queues -> Indices]
      /\ owned' \in [Queues -> SUBSET Heads]
      /\ owned'["tx"] = owned["tx"] /\ seen'["tx"] = seen["tx"]
      /\ NumReturned("rx")' = R - n
      /\ \A r \in ReturnedRange("rx")' : /\ r \in Int /\ r + n \in ReturnedRange("rx")
                                         /\ ReturnedAt("rx", r)' = ReturnedAt("rx", r + n)
                                         /\ ReturnedAt("rx", r)' \notin owned'["rx"]
      /\ ReturnedRange("rx")' = 0 .. R - n + F - 1
  BY <1>1, <1>2, <1>4, TakeChains
<1>6. ReturnedRange("rx") = 0 .. R + F - 1
  BY <1>3 DEF ReturnedRange
<1>7. \A r \in ReturnedRange("rx")' : PartAt(r)' = PartAt(r + n) /\ HeaderAt(r)' = HeaderAt(r + n)
  <2> SUFFICES ASSUME NEW r \in ReturnedRange("rx")'
               PROVE  PartAt(r)' = PartAt(r + n) /\ HeaderAt(r)' = HeaderAt(r + n)
    OBVIOUS
  <2>1. r + n \in Int
    BY <1>3, <1>5, <1>6
  <2>2. ReturnedAt("rx", r + n) \in Heads
    BY <1>1, <2>1, RingTypes
  <2> QED
    BY <1>2, <1>5, <2>2 DEF PartAt, HeaderAt
<1> HIDE DEF n, R, F
<1>8. TypeOK'
  <2>1. part' \in [Heads -> (Packets \cup {NoPacket}) \X Nat]
    <3>1. NoPart \in (Packets \cup {NoPacket}) \X Nat
      BY DEF NoPart
    <3> QED
      BY <1>1, <1>2, <3>1 DEF TypeOK
  <2>2. num_buffers' \in [Heads -> Nat]
    BY <1>1, <1>2 DEF TypeOK
  <2> QED
    BY <1>1, <1>2, <1>5, <2>1, <2>2 DEF TypeOK
<1>9. PlaceInv'
  <2>1. NumFilled("rx")' = NumFilled("rx") /\ Ready("tx")' = Ready("tx")
    BY <1>2 DEF NumFilled, Ready
  <2>2. ReturnedAt("rx", NumReturned("rx"))' = ReturnedAt("rx", NumReturned("rx"))
    <3>1. Plus(seen["rx"], NumReturned("rx")) = used_idx["rx"]
      BY <1>1, RingTypes, PlusMinus DEF NumReturned
    <3>2. Plus(seen["rx"], NumReturned("rx"))' = used_idx'["rx"]
      <4>1. PICK i \in Indices, j \in Indices : i = used_idx'["rx"] /\ j = seen'["rx"]
        BY <1>1, <1>8 DEF TypeOK
      <4>2. Plus(j, Minus(i, j)) = i
        BY PlusMinus
      <4> QED
        BY <4>1, <4>2 DEF NumReturned
    <3> QED
      BY <1>2, <3>1, <3>2 DEF ReturnedAt
  <2> QED
    BY <1>2, <2>1, <2>2 DEF IInv, PlaceInv
<1>10. CoverInv' /\ ContentInv'
  BY <1>2, <1>5 DEF IInv, CoverInv, ContentInv
<1>11. InterruptInv' /\ BrokenOnlyIfIllegal'
  <2>1. \A q \in Queues : driver'[q] = "asleep" /\ Unread(q)' => driver[q] = "asleep" /\ Unread(q)
    BY <1>1, <1>2, <1>5 DEF Unread, Queues
  <2> QED
    BY <1>2, <2>1 DEF IInv, InterruptInv, Detached, BrokenOnlyIfIllegal
<1>12. PacketInv'
  <2>1. PICK m \in Nat, Q \in Nat : m = n /\ Q = R - n
    BY <1>3, <1>4
  <2>2. /\ \A r \in 0 .. Q + F - 1 : PartAt(r)' = PartAt(r + m) /\ HeaderAt(r)' = HeaderAt(r + m)
        /\ NumReturned("rx")' = Q /\ R = Q + m
    <3>1. 0 .. Q + F - 1 = 0 .. R - n + F - 1
      BY <2>1
    <3>2. NumReturned("rx")' = Q /\ R = Q + m
      BY <1>3, <1>5, <2>1
    <3>3. \A r \in ReturnedRange("rx")' : PartAt(r)' = PartAt(r + m) /\ HeaderAt(r)' = HeaderAt(r + m)
      BY <1>7, <2>1
    <3>4. ReturnedRange("rx")' = 0 .. Q + F - 1
      BY <1>5, <3>1
    <3> QED
      BY <3>2, <3>3, <3>4
  <2>3. /\ \A r \in 0 .. R - 1 : PartAt(r)[1] \in Packets
        /\ \A r \in 0 .. R - 1 : PartAt(r)[2] = 1 =>
               /\ HeaderAt(r) \in 1 .. R - r
               /\ \A s \in r .. r + HeaderAt(r) - 1 : PartAt(s) = <<PartAt(r)[1], s - r + 1>>
               /\ \A s \in 0 .. R - 1 : s = r + HeaderAt(r) => PartAt(s)[2] = 1
        /\ pc = "receive" =>
               \A r \in R .. R + num_descriptors - 1 : PartAt(r) = <<content[head], r - R + 1>>
    BY <1>1 DEF PacketInv, R
  <2>4. \A r \in 0 .. Q - 1 : r \in 0 .. Q + F - 1 /\ r + m \in 0 .. R - 1
    BY <1>3, <2>2
  <2>5. Q > 0 => PartAt(0)'[2] = 1
    <3>1. Q > 0 => m \in 0 .. R - 1 /\ PartAt(m)[2] = 1
      BY <1>4, <2>1, <2>2
    <3>2. Q > 0 => PartAt(0)' = PartAt(0 + m) /\ 0 + m = m
      BY <2>2, <2>4
    <3> QED
      BY <3>1, <3>2
  <2>6. \A r \in 0 .. Q - 1 : PartAt(r)'[1] \in Packets
    BY <2>2, <2>3, <2>4
  <2>7. ASSUME NEW r \in 0 .. Q - 1, PartAt(r)'[2] = 1
        PROVE  /\ HeaderAt(r)' \in 1 .. Q - r
               /\ \A s \in r .. r + HeaderAt(r)' - 1 : PartAt(s)' = <<PartAt(r)'[1], s - r + 1>>
               /\ \A s \in 0 .. Q - 1 : s = r + HeaderAt(r)' => PartAt(s)'[2] = 1
    <3>1. PICK t \in 0 .. R - 1 : t = r + m
      BY <2>4
    <3>2. PartAt(r)' = PartAt(t) /\ HeaderAt(r)' = HeaderAt(t)
      BY <2>2, <2>4, <3>1
    <3>3. /\ HeaderAt(t) \in 1 .. R - t
          /\ \A s \in t .. t + HeaderAt(t) - 1 : PartAt(s) = <<PartAt(t)[1], s - t + 1>>
          /\ \A s \in 0 .. R - 1 : s = t + HeaderAt(t) => PartAt(s)[2] = 1
      BY <2>3, <2>7, <3>2
    <3>4. HeaderAt(r)' \in 1 .. Q - r
      BY <2>2, <3>1, <3>2, <3>3
    <3>5. ASSUME NEW s \in r .. r + HeaderAt(r)' - 1
          PROVE  PartAt(s)' = <<PartAt(r)'[1], s - r + 1>>
      <4>1. s \in 0 .. Q - 1 /\ s + m \in t .. t + HeaderAt(t) - 1 /\ (s + m) - t + 1 = s - r + 1
        BY <2>2, <3>1, <3>2, <3>3
      <4> QED
        BY <2>2, <2>4, <3>2, <3>3, <4>1
    <3>6. ASSUME NEW s \in 0 .. Q - 1, s = r + HeaderAt(r)'
          PROVE  PartAt(s)'[2] = 1
      <4>1. s + m \in 0 .. R - 1 /\ s + m = t + HeaderAt(t)
        BY <2>2, <2>4, <3>1, <3>2, <3>3, <3>6
      <4> QED
        BY <2>2, <2>4, <3>3, <4>1
    <3> QED
      BY <3>4, <3>5, <3>6
  <2>8. ASSUME pc' = "receive", NEW r \in Q .. Q + num_descriptors' - 1
        PROVE  PartAt(r)' = <<content'[head'], r - Q + 1>>
    <3>1. F = num_descriptors /\ num_descriptors' = num_descriptors /\ pc = "receive"
          /\ content' = content /\ head' = head
      BY <1>2, <1>3, <2>8
    <3>2. r \in 0 .. Q + F - 1 /\ r + m \in R .. R + num_descriptors - 1
          /\ (r + m) - R + 1 = r - Q + 1
      BY <1>3, <2>2, <3>1
    <3> QED
      BY <2>2, <2>3, <3>1, <3>2
  <2> QED
    BY <2>2, <2>5, <2>6, <2>7, <2>8 DEF PacketInv
<1> QED
  BY <1>5, <1>8, <1>9, <1>10, <1>11, <1>12 DEF IInv

LEMMA InitInv == Init => IInv
<1> SUFFICES ASSUME Init PROVE IInv
  OBVIOUS
<1>1. TypeOK
  <2>1. /\ 0 \in Indices /\ 0 \in Heads /\ 0 \in 0 .. QUEUE_ELEMENTS /\ 0 \in 0 .. MaxRefills
        /\ 0 \in 0 .. Len(Size) /\ BatchSize \in 0 .. BatchSize
    BY Widths, BoundAssumption, SizeAssumption, BatchAssumption DEF Indices, Heads
  <2>2. NoPart \in (Packets \cup {NoPacket}) \X Nat
    BY DEF NoPart
  <2> QED
    BY <2>1, <2>2 DEF Init, TypeOK, LoopSteps, PortStates, DriverStates
<1>2. /\ \A q \in Queues : AddedRange(q) = {} /\ ReturnedRange(q) = {}
      /\ \A q \in Queues : NumReturned(q) = 0 /\ NumFilled(q) = 0 /\ ~ Unread(q)
  <2>1. Minus(0, 0) = 0
    BY Widths, MinusType DEF Indices
  <2>2. ASSUME NEW q \in Queues
        PROVE  NumHeads(q) = 0 /\ NumReturned(q) = 0 /\ NumFilled(q) = 0 /\ ~ Unread(q)
    BY <2>1 DEF Init, NumHeads, NumReturned, NumFilled, Unread
  <2>3. 0 .. 0 - 1 = {} /\ 0 .. 0 + 0 - 1 = {}
    OBVIOUS
  <2> QED
    BY <2>2, <2>3 DEF AddedRange, ReturnedRange
<1>3. PlaceInv
  BY <1>2 DEF Init, PlaceInv, Queues
<1>4. ApartInv
  <2>1. HeadApart
    <3>1. NoHead \notin Heads
      BY Widths DEF NoHead, Heads
    <3> QED
      BY <1>2, <3>1 DEF Init, HeadApart, Queues
  <2> QED
    BY <1>2, <2>1 DEF Init, ApartInv, Apart
<1>5. CoverInv /\ ContentInv
  BY DEF Init, CoverInv, Covered, ContentInv, Queues
<1>6. PacketInv
  <2>1. NumReturned("rx") = 0 /\ pc # "receive" /\ 0 .. 0 - 1 = {}
    BY <1>2 DEF Init, Queues
  <2> QED
    BY <2>1 DEF PacketInv
<1>7. InterruptInv /\ BrokenOnlyIfIllegal
  BY <1>2 DEF Init, InterruptInv, BrokenOnlyIfIllegal
<1> QED
  BY <1>1, <1>3, <1>4, <1>5, <1>6, <1>7 DEF IInv

LEMMA StepInv == IInv /\ [Next]_vars => IInv'
<1> SUFFICES ASSUME IInv, [Next]_vars PROVE IInv'
  OBVIOUS
<1>1. CASE PollEmpty \/ SwitchElsewhere \/ SwitchToReceiver \/ ReceiveSlow
           \/ \E q \in Queues :
                  PollIrq(q) \/ DriverOk(q) \/ Rearm(q) \/ Recheck(q) \/ Interrupt(q)
  BY <1>1, QuietStep DEF Quiet
<1>2. CASE PollPacket
  BY <1>2, PollPacketStep
<1>3. CASE PollThrows
  BY <1>3, PollThrowsStep
<1>4. CASE ReceivePart
  BY <1>4, ReceivePartStep
<1>5. CASE ReceiveThrows
  BY <1>5, ReceiveThrowsStep
<1>6. CASE ReceiveDone
  BY <1>6, ReceiveDoneStep
<1>7. CASE MarkDone
  BY <1>7, MarkDoneStep
<1>8. CASE TakeBack
  BY <1>8, TakeBackStep
<1>9. CASE ReadPacket
  BY <1>9, ReadPacketStep
<1>10. CASE \E h \in Heads : Send(h)
  BY <1>10, SendStep
<1>11. CASE \E h \in Heads : Supply(h)
  BY <1>11, SupplyStep
<1>12. CASE UNCHANGED vars
  <2>1. UNCHANGED <<avail_idx, avail_ring, no_interrupt, used_idx, used_ring, content, part,
                    num_buffers, bad, last_avail_idx, inuse, pending_irq, port, irq, pc, quota,
                    head, num_descriptors, first, seen, owned, driver, sent, refills>>
    BY <1>12 DEF vars, ringVars, bufferVars, deviceVars, loopVars, guestVars
  <2>2. TypeOK'
    BY <2>1 DEF IInv, TypeOK
  <2>3. NumFilled("rx")' = NumFilled("rx") /\ \A q \in Queues : NumFilled(q)' = NumFilled(q)
    BY <2>1 DEF NumFilled
  <2>4. PlaceInv'
    <3>1. ReturnedAt("rx", NumReturned("rx"))' = ReturnedAt("rx", NumReturned("rx"))
      BY <2>1 DEF ReturnedAt, NumReturned
    <3> QED
      BY <2>1, <2>3, <3>1 DEF IInv, PlaceInv, Ready
  <2>5. ApartInv' /\ CoverInv' /\ ContentInv' /\ PacketInv'
    BY <2>1, <2>3, RingsKept DEF bufferVars
  <2>6. InterruptInv' /\ BrokenOnlyIfIllegal'
    BY <2>1 DEF IInv, InterruptInv, Unread, Detached, BrokenOnlyIfIllegal
  <2> QED
    BY <2>2, <2>4, <2>5, <2>6 DEF IInv
<1> QED
  BY <1>1, <1>2, <1>3, <1>4, <1>5, <1>6, <1>7, <1>8, <1>9, <1>10, <1>11, <1>12
     DEF Next, WorkQuantum, Guests, Handler

-----------------------------------------------------------------------------
(* What the invariant says of the chains as sequences *)

LEMMA FunctionIsSequence ==
    ASSUME NEW S, NEW n \in Nat, NEW f \in [1 .. n -> S]
    PROVE  f \in Seq(S) /\ Len(f) = n
  OBVIOUS

LEMMA SameEntries ==
    ASSUME NEW S, NEW s \in Seq(S), NEW t \in Seq(S), Len(s) = Len(t),
           \A i \in 1 .. Len(s) : s[i] = t[i]
    PROVE  s = t
  OBVIOUS

LEMMA SequenceAvoids ==
    ASSUME NEW S, NEW T, NEW s \in Seq(S), \A i \in 1 .. Len(s) : s[i] \notin T
    PROVE  s \in Seq(S \ T)
<1>1. s \in [1 .. Len(s) -> S \ T] /\ Len(s) \in Nat
  OBVIOUS
<1> QED
  BY <1>1, FunctionIsSequence

\* Three sequences that share nothing and hold all of a finite set have its size.
NothingShared(x, y, z) ==
    /\ \A i, j \in 1 .. Len(x) : x[i] = x[j] => i = j
    /\ \A i, j \in 1 .. Len(y) : y[i] = y[j] => i = j
    /\ \A i, j \in 1 .. Len(z) : z[i] = z[j] => i = j
    /\ \A i \in 1 .. Len(x), j \in 1 .. Len(y) : x[i] # y[j]
    /\ \A i \in 1 .. Len(x), j \in 1 .. Len(z) : x[i] # z[j]
    /\ \A i \in 1 .. Len(y), j \in 1 .. Len(z) : y[i] # z[j]

AllHeld(S, x, y, z) ==
    \A h \in S : \/ \E i \in 1 .. Len(x) : h = x[i]
                 \/ \E i \in 1 .. Len(y) : h = y[i]
                 \/ \E i \in 1 .. Len(z) : h = z[i]

LEMMA ThreePlaces ==
    ASSUME NEW S, IsFiniteSet(S), NEW x \in Seq(S), NEW y \in Seq(S), NEW z \in Seq(S),
           NothingShared(x, y, z), AllHeld(S, x, y, z)
    PROVE  Len(x \o y \o z) = Cardinality(S) /\ ToSet(x \o y \o z) = S
<1> DEFINE all == x \o y \o z
           a == Len(x)
           b == Len(y)
           c == Len(z)
           L == a + b + c
<1>1. a \in Nat /\ b \in Nat /\ c \in Nat /\ L \in Nat
  OBVIOUS
<1>2. all \in Seq(S) /\ Len(all) = L
  OBVIOUS
<1>3. /\ \A i \in 1 .. L : i <= a => i \in 1 .. a /\ all[i] = x[i]
      /\ \A i \in 1 .. L : a < i /\ i <= a + b => i - a \in 1 .. b /\ all[i] = y[i - a]
      /\ \A i \in 1 .. L : a + b < i => i - a - b \in 1 .. c /\ all[i] = z[i - a - b]
  OBVIOUS
<1>0. /\ \A i, j \in 1 .. a : x[i] = x[j] => i = j
      /\ \A i, j \in 1 .. b : y[i] = y[j] => i = j
      /\ \A i, j \in 1 .. c : z[i] = z[j] => i = j
      /\ \A i \in 1 .. a, j \in 1 .. b : x[i] # y[j]
      /\ \A i \in 1 .. a, j \in 1 .. c : x[i] # z[j]
      /\ \A i \in 1 .. b, j \in 1 .. c : y[i] # z[j]
  BY DEF NothingShared
<1> HIDE DEF all, a, b, c, L
<1>4. all \in [1 .. L -> S]
  BY <1>2
<1>5. \A i, j \in 1 .. L : all[i] = all[j] => i = j
  <2> SUFFICES ASSUME NEW i \in 1 .. L, NEW j \in 1 .. L, all[i] = all[j] PROVE i = j
    OBVIOUS
  <2>1. \/ i \in 1 .. a /\ all[i] = x[i]
        \/ i - a \in 1 .. b /\ all[i] = y[i - a]
        \/ i - a - b \in 1 .. c /\ all[i] = z[i - a - b]
    BY <1>1, <1>3
  <2>2. \/ j \in 1 .. a /\ all[j] = x[j]
        \/ j - a \in 1 .. b /\ all[j] = y[j - a]
        \/ j - a - b \in 1 .. c /\ all[j] = z[j - a - b]
    BY <1>1, <1>3
  <2>3. CASE i \in 1 .. a /\ all[i] = x[i]
    BY <1>0, <2>2, <2>3
  <2>4. CASE i - a \in 1 .. b /\ all[i] = y[i - a]
    <3>1. j - a \in 1 .. b /\ all[j] = y[j - a]
      BY <1>0, <2>2, <2>4
    <3>2. i - a = j - a
      BY <1>0, <2>4, <3>1
    <3> QED
      BY <1>1, <3>2
  <2>5. CASE i - a - b \in 1 .. c /\ all[i] = z[i - a - b]
    <3>1. j - a - b \in 1 .. c /\ all[j] = z[j - a - b]
      BY <1>0, <2>2, <2>5
    <3>2. i - a - b = j - a - b
      BY <1>0, <2>5, <3>1
    <3> QED
      BY <1>1, <3>2
  <2> QED
    BY <2>1, <2>3, <2>4, <2>5
<1>6. \A h \in S : \E i \in 1 .. L : all[i] = h
  <2> SUFFICES ASSUME NEW h \in S PROVE \E i \in 1 .. L : all[i] = h
    OBVIOUS
  <2>1. CASE \E i \in 1 .. a : h = x[i]
    <3>1. \A i \in 1 .. a : i \in 1 .. L /\ i <= a
      BY <1>1 DEF L
    <3> QED
      BY <1>3, <2>1, <3>1
  <2>2. CASE \E i \in 1 .. b : h = y[i]
    <3>1. PICK i \in 1 .. b : h = y[i]
      BY <2>2
    <3>2. a + i \in 1 .. L /\ a < a + i /\ a + i <= a + b /\ (a + i) - a = i
      BY <1>1 DEF L
    <3> QED
      BY <1>3, <3>1, <3>2
  <2>3. CASE \E i \in 1 .. c : h = z[i]
    <3>1. PICK i \in 1 .. c : h = z[i]
      BY <2>3
    <3>2. a + b + i \in 1 .. L /\ a + b < a + b + i /\ (a + b + i) - a - b = i
      BY <1>1 DEF L
    <3> QED
      BY <1>3, <3>1, <3>2
  <2> QED
    BY <2>1, <2>2, <2>3 DEF a, b, c, AllHeld
<1>7. Cardinality(S) = L
  <2>1. all \in Injection(1 .. L, S) /\ all \in Surjection(1 .. L, S)
    BY <1>4, <1>5, <1>6, Fun_IsInj, Fun_IsSurj
  <2>2. Cardinality(1 .. L) = L
    BY <1>1, FS_Interval
  <2> QED
    BY <2>1, <2>2, FS_Injection
<1>8. ToSet(all) = S
  <2>1. DOMAIN all = 1 .. L
    BY <1>4
  <2> QED
    BY <1>4, <1>6, <2>1 DEF ToSet
<1> QED
  BY <1>2, <1>7, <1>8 DEF all

\* The rings as sequences are the chains one by one.
LEMMA RingSequences ==
    ASSUME TypeOK, NEW q \in Queues
    PROVE  /\ Added(q) \in Seq(Heads) /\ Len(Added(q)) = NumHeads(q)
           /\ \A i \in 1 .. NumHeads(q) : Added(q)[i] = AddedAt(q, i - 1)
           /\ Returned(q) \in Seq(Heads) /\ Len(Returned(q)) = NumReturned(q)
           /\ \A i \in 1 .. NumReturned(q) : Returned(q)[i] = ReturnedAt(q, i - 1)
<1>1. NumHeads(q) \in Nat /\ NumReturned(q) \in Nat
  BY RingTypes
<1>2. /\ Added(q) = [i \in 1 .. NumHeads(q) |-> AddedAt(q, i - 1)]
      /\ Returned(q) = [i \in 1 .. NumReturned(q) |-> ReturnedAt(q, i - 1)]
  BY DEF Added, Returned, Between, NumHeads, NumReturned, AddedAt, ReturnedAt
<1>3. /\ \A i \in 1 .. NumHeads(q) : AddedAt(q, i - 1) \in Heads
      /\ \A i \in 1 .. NumReturned(q) : ReturnedAt(q, i - 1) \in Heads
  BY <1>1, RingTypes
<1>4. /\ Added(q) \in [1 .. NumHeads(q) -> Heads]
      /\ Returned(q) \in [1 .. NumReturned(q) -> Heads]
  BY <1>2, <1>3
<1>5. /\ Added(q) \in Seq(Heads) /\ Len(Added(q)) = NumHeads(q)
      /\ Returned(q) \in Seq(Heads) /\ Len(Returned(q)) = NumReturned(q)
  BY <1>1, <1>4, FunctionIsSequence
<1> QED
  BY <1>2, <1>5

\* What the device has in hand: the head of the packet, or the chains it filled.
LEMMA HandSequence ==
    ASSUME TypeOK, PlaceInv, ApartInv, NEW q \in Queues
    PROVE  /\ InHand(q) \in Seq(Heads)
           /\ q = "tx" => InHand(q) = IF head = NoHead THEN <<>> ELSE <<head>>
           /\ q = "rx" => /\ Len(InHand(q)) = NumFilled(q)
                          /\ \A i \in 1 .. NumFilled(q) :
                                 InHand(q)[i] = ReturnedAt(q, NumReturned(q) + i - 1)
<1>1. CASE q = "tx"
  BY <1>1 DEF InHand, TypeOK
<1>2. CASE q = "rx" /\ pc # "receive"
  BY <1>2 DEF InHand, NumFilled
<1>3. CASE q = "rx" /\ pc = "receive"
  <2> DEFINE d == num_descriptors
             R == NumReturned(q)
             e == Plus(used_idx[q], d)
  <2>1. /\ R \in Nat /\ d \in Nat /\ NumFilled(q) = d /\ R + d <= QUEUE_ELEMENTS
        /\ used_idx[q] \in Indices /\ used_idx[q] \in Int /\ seen[q] \in Int
        /\ d < IndexModulus
    BY <1>3, RingTypes, RingBounds, Widths DEF NumFilled
  <2>2. Minus(e, used_idx[q]) = d
    <3>1. PICK i \in Indices, n \in Nat : i = used_idx[q] /\ n = d
      BY <2>1
    <3>2. Minus(i, i) = 0
      BY MinusType
    <3>3. Minus(i, i) + n < IndexModulus
      BY <2>1, <3>1, <3>2
    <3>4. Minus(Plus(i, n), i) = Minus(i, i) + n
      BY <3>3, FrontMoves
    <3> QED
      BY <3>1, <3>2, <3>4
  <2>3. Plus(seen[q], R) = used_idx[q]
    BY RingTypes, PlusMinus DEF NumReturned
  <2>4. InHand(q) = [i \in 1 .. d |-> used_ring[q][Slot(Plus(used_idx[q], i - 1))]]
    BY <1>3, <2>2 DEF InHand, Between
  <2> HIDE DEF d, R, e
  <2>5. \A i \in 1 .. d : /\ used_ring[q][Slot(Plus(used_idx[q], i - 1))] = ReturnedAt(q, R + i - 1)
                          /\ ReturnedAt(q, R + i - 1) \in Heads
    <3> SUFFICES ASSUME NEW i \in 1 .. d
                 PROVE  /\ used_ring[q][Slot(Plus(used_idx[q], i - 1))] = ReturnedAt(q, R + i - 1)
                        /\ ReturnedAt(q, R + i - 1) \in Heads
      OBVIOUS
    <3>1. PICK x \in Int, y \in Int, z \in Int : x = seen[q] /\ y = R /\ z = i - 1
      BY <2>1
    <3>2. Plus(Plus(x, y), z) = Plus(x, y + z) /\ y + z \in Int
      BY PlusPlus
    <3>4. y + z = R + i - 1
      BY <2>1, <3>1
    <3>3. ReturnedAt(q, y + z) \in Heads
      BY <3>2, RingTypes
    <3> QED
      BY <2>3, <3>1, <3>2, <3>3, <3>4 DEF ReturnedAt
  <2>6. InHand(q) \in Seq(Heads) /\ Len(InHand(q)) = d
        /\ \A i \in 1 .. d : InHand(q)[i] = ReturnedAt(q, R + i - 1)
    <3> DEFINE At(i) == used_ring[q][Slot(Plus(used_idx[q], i - 1))]
               Back(i) == ReturnedAt(q, R + i - 1)
    <3>1. InHand(q) = [i \in 1 .. d |-> At(i)]
      BY <2>4
    <3>2. d \in Nat /\ \A i \in 1 .. d : At(i) = Back(i) /\ Back(i) \in Heads
      BY <2>1, <2>5
    <3> HIDE DEF At, Back
    <3>3. \A i \in 1 .. d : InHand(q)[i] = Back(i)
      BY <3>1, <3>2
    <3>4. InHand(q) \in [1 .. d -> Heads]
      BY <3>1, <3>2
    <3>5. InHand(q) \in Seq(Heads) /\ Len(InHand(q)) = d
      BY <3>2, <3>4
    <3> QED
      BY <3>3, <3>5 DEF Back
  <2> QED
    BY <1>3, <2>1, <2>6 DEF d, R
<1> QED
  BY <1>1, <1>2, <1>3 DEF Queues

\* No chain of a queue is in two of the sequences.
LEMMA SequencesApart ==
    ASSUME TypeOK, PlaceInv, ApartInv, NEW q \in Queues,
           NEW x, NEW y, NEW z, x = Added(q), y = InHand(q), z = Returned(q)
    PROVE  /\ x \in Seq(Heads \ owned[q]) /\ y \in Seq(Heads \ owned[q])
           /\ z \in Seq(Heads \ owned[q]) /\ NothingShared(x, y, z)
<1> DEFINE n == NumHeads(q)
           R == NumReturned(q)
           d == NumFilled(q)
<1>1. /\ x \in Seq(Heads) /\ Len(x) = n /\ n \in Nat /\ R \in Nat /\ d \in Nat
      /\ \A i \in 1 .. n : x[i] = AddedAt(q, i - 1)
      /\ z \in Seq(Heads) /\ Len(z) = R
      /\ \A i \in 1 .. R : z[i] = ReturnedAt(q, i - 1)
  BY RingSequences, RingTypes, RingBounds
<1>2. /\ y \in Seq(Heads)
      /\ q = "tx" => y = IF head = NoHead THEN <<>> ELSE <<head>>
      /\ q = "rx" => Len(y) = d /\ \A i \in 1 .. d : y[i] = ReturnedAt(q, R + i - 1)
  BY HandSequence
<1>3. AddedRange(q) = 0 .. n - 1 /\ ReturnedRange(q) = 0 .. R + d - 1
  BY <1>1 DEF AddedRange, ReturnedRange
<1> HIDE DEF n, R, d
<1>4. /\ \A i \in 1 .. n : i - 1 \in AddedRange(q)
      /\ \A i \in 1 .. R : i - 1 \in ReturnedRange(q)
      /\ \A i \in 1 .. d : R + i - 1 \in ReturnedRange(q)
      /\ \A i \in 1 .. R, j \in 1 .. d : R + j - 1 # i - 1
  BY <1>1, <1>3
<1>5. Apart(q) /\ HeadApart
  BY DEF ApartInv
<1>6. /\ \A i \in 1 .. n : x[i] \notin owned[q]
      /\ \A i \in 1 .. R : z[i] \notin owned[q]
      /\ \A i \in 1 .. n, j \in 1 .. R : x[i] # z[j]
  BY <1>1, <1>4, <1>5 DEF Apart
<1>7. \A i, j \in 1 .. n : x[i] = x[j] => i = j
  <2> SUFFICES ASSUME NEW i \in 1 .. n, NEW j \in 1 .. n, x[i] = x[j] PROVE i = j
    OBVIOUS
  <2>1. i - 1 = j - 1
    BY <1>1, <1>4, <1>5 DEF Apart
  <2> QED
    BY <1>1, <2>1
<1>8. \A i, j \in 1 .. R : z[i] = z[j] => i = j
  <2> SUFFICES ASSUME NEW i \in 1 .. R, NEW j \in 1 .. R, z[i] = z[j] PROVE i = j
    OBVIOUS
  <2>1. i - 1 = j - 1
    BY <1>1, <1>4, <1>5 DEF Apart
  <2> QED
    BY <1>1, <2>1
<1>9. /\ \A i \in 1 .. Len(y) : y[i] \notin owned[q]
      /\ \A i, j \in 1 .. Len(y) : y[i] = y[j] => i = j
      /\ \A i \in 1 .. n, j \in 1 .. Len(y) : x[i] # y[j]
      /\ \A i \in 1 .. Len(y), j \in 1 .. R : y[i] # z[j]
  <2>1. CASE q = "tx" /\ head = NoHead
    BY <1>2, <2>1
  <2>2. CASE q = "tx" /\ head # NoHead
    <3>1. Len(y) = 1 /\ \A i \in 1 .. Len(y) : i = 1 /\ y[i] = head
      BY <1>2, <2>2
    <3> QED
      BY <1>1, <1>4, <1>5, <2>2, <3>1 DEF HeadApart
  <2>3. CASE q = "rx"
    <3>1. Len(y) = d /\ \A i \in 1 .. d : y[i] = ReturnedAt(q, R + i - 1)
      BY <1>2, <2>3
    <3>2. \A i \in 1 .. d : y[i] \notin owned[q]
      BY <1>4, <1>5, <3>1 DEF Apart
    <3>3. \A i, j \in 1 .. d : y[i] = y[j] => i = j
      <4> SUFFICES ASSUME NEW i \in 1 .. d, NEW j \in 1 .. d, y[i] = y[j] PROVE i = j
        OBVIOUS
      <4>1. R + i - 1 = R + j - 1
        BY <1>4, <1>5, <3>1 DEF Apart
      <4> QED
        BY <1>1, <4>1
    <3>4. ASSUME NEW i \in 1 .. n, NEW j \in 1 .. d PROVE x[i] # y[j]
      <4>1. PICK a \in AddedRange(q), r \in ReturnedRange(q) : a = i - 1 /\ r = R + j - 1
        BY <1>4
      <4> QED
        BY <1>1, <1>5, <3>1, <4>1 DEF Apart
    <3>5. ASSUME NEW i \in 1 .. d, NEW j \in 1 .. R PROVE y[i] # z[j]
      <4>1. PICK r \in ReturnedRange(q), t \in ReturnedRange(q) : r = R + i - 1 /\ t = j - 1 /\ r # t
        BY <1>4
      <4> QED
        BY <1>1, <1>5, <3>1, <4>1 DEF Apart
    <3> QED
      BY <3>1, <3>2, <3>3, <3>4, <3>5
  <2> QED
    BY <2>1, <2>2, <2>3 DEF Queues
<1>10. x \in Seq(Heads \ owned[q]) /\ y \in Seq(Heads \ owned[q]) /\ z \in Seq(Heads \ owned[q])
  BY <1>1, <1>2, <1>6, <1>9, SequenceAvoids
<1> QED
  BY <1>1, <1>6, <1>7, <1>8, <1>9, <1>10 DEF NothingShared

LEMMA Conserved == IInv => ChainsConserved
<1> SUFFICES ASSUME IInv, NEW q \in Queues, port[q] # "broken"
             PROVE  LET chains == Added(q) \o InHand(q) \o Returned(q)
                    IN  /\ inuse[q] = Len(InHand(q))
                        /\ Len(chains) + Cardinality(owned[q]) = QUEUE_ELEMENTS
                        /\ ToSet(chains) \cup owned[q] = Heads
  BY DEF ChainsConserved
<1>1. TypeOK /\ PlaceInv /\ ApartInv /\ Covered(q) /\ owned[q] \subseteq Heads
  BY DEF IInv, CoverInv, TypeOK
<1>2. PICK x, y, z : x = Added(q) /\ y = InHand(q) /\ z = Returned(q)
  OBVIOUS
<1> DEFINE S == Heads \ owned[q]
           n == NumHeads(q)
           R == NumReturned(q)
           d == NumFilled(q)
<1>3. x \in Seq(S) /\ y \in Seq(S) /\ z \in Seq(S) /\ NothingShared(x, y, z)
  BY <1>1, <1>2, SequencesApart
<1>4. /\ Len(x) = n /\ n \in Nat /\ R \in Nat /\ d \in Nat /\ Len(z) = R
      /\ \A i \in 1 .. n : x[i] = AddedAt(q, i - 1)
      /\ \A i \in 1 .. R : z[i] = ReturnedAt(q, i - 1)
  <2>1. n \in 0 .. IndexModulus - 1 /\ R \in 0 .. IndexModulus - 1
    BY <1>1, RingTypes
  <2>2. d \in Nat
    BY <1>1, RingBounds
  <2>3. n \in Nat /\ R \in Nat
    BY <2>1
  <2> QED
    BY <1>1, <1>2, <2>2, <2>3, RingSequences
<1>5. /\ q = "tx" => y = IF head = NoHead THEN <<>> ELSE <<head>>
      /\ q = "rx" => Len(y) = d /\ \A i \in 1 .. d : y[i] = ReturnedAt(q, R + i - 1)
      /\ q = "tx" => d = 0
  BY <1>1, <1>2, HandSequence DEF NumFilled
<1>6. AddedRange(q) = 0 .. n - 1 /\ ReturnedRange(q) = 0 .. R + d - 1
  BY <1>4 DEF AddedRange, ReturnedRange
<1> HIDE DEF n, R, d
<1>7. AllHeld(S, x, y, z)
  <2> SUFFICES ASSUME NEW h \in S
               PROVE  \/ \E i \in 1 .. Len(x) : h = x[i]
                      \/ \E i \in 1 .. Len(y) : h = y[i]
                      \/ \E i \in 1 .. Len(z) : h = z[i]
    BY DEF AllHeld
  <2>1. \/ \E a \in AddedRange(q) : h = AddedAt(q, a)
        \/ \E r \in ReturnedRange(q) : h = ReturnedAt(q, r)
        \/ q = "tx" /\ h = head
    BY <1>1 DEF Covered
  <2>2. CASE \E a \in AddedRange(q) : h = AddedAt(q, a)
    <3>1. PICK a \in AddedRange(q) : h = AddedAt(q, a)
      BY <2>2
    <3>2. a + 1 \in 1 .. n /\ (a + 1) - 1 = a
      BY <1>4, <1>6
    <3> QED
      BY <1>4, <3>1, <3>2
  <2>3. CASE \E r \in ReturnedRange(q) : h = ReturnedAt(q, r)
    <3>1. PICK r \in ReturnedRange(q) : h = ReturnedAt(q, r)
      BY <2>3
    <3>2. CASE r < R
      <4>1. r + 1 \in 1 .. R /\ (r + 1) - 1 = r
        BY <1>4, <1>6, <3>2
      <4> QED
        BY <1>4, <3>1, <4>1
    <3>3. CASE r >= R
      <4>1. r - R + 1 \in 1 .. d /\ R + (r - R + 1) - 1 = r
        BY <1>4, <1>6, <3>3
      <4>2. q = "rx"
        BY <1>4, <1>5, <4>1 DEF Queues
      <4> QED
        BY <1>5, <3>1, <4>1, <4>2
    <3> QED
      BY <1>4, <1>6, <3>2, <3>3
  <2>4. CASE q = "tx" /\ h = head
    <3>1. head # NoHead
      BY <2>4, Widths DEF Heads, NoHead
    <3>2. Len(y) = 1 /\ y[1] = head
      BY <1>5, <2>4, <3>1
    <3> QED
      BY <2>4, <3>2
  <2> QED
    BY <2>1, <2>2, <2>3, <2>4
<1>8. IsFiniteSet(Heads) /\ Cardinality(Heads) = QUEUE_ELEMENTS
  BY Widths, FS_Interval DEF Heads
<1>9. /\ IsFiniteSet(S) /\ Cardinality(S) = QUEUE_ELEMENTS - Cardinality(owned[q])
      /\ Cardinality(owned[q]) \in Nat
  <2>1. Heads \cap owned[q] = owned[q]
    BY <1>1
  <2>2. IsFiniteSet(owned[q]) /\ Cardinality(owned[q]) \in Nat
    BY <1>1, <1>8, FS_Subset, FS_CardinalityType
  <2>3. PICK T : T = owned[q]
    OBVIOUS
  <2>4. IsFiniteSet(Heads \ T) /\ Cardinality(Heads \ T) = Cardinality(Heads) - Cardinality(Heads \cap T)
    BY <1>8, FS_Difference
  <2> QED
    BY <1>8, <2>1, <2>2, <2>3, <2>4
<1> HIDE DEF S
<1>10. Len(x \o y \o z) = Cardinality(S) /\ ToSet(x \o y \o z) = S
  BY <1>3, <1>7, <1>9, ThreePlaces
<1>11. inuse[q] = Len(y)
  <2>1. CASE q = "tx"
    BY <1>5, <2>1 DEF IInv, PlaceInv
  <2>2. CASE q = "rx"
    BY <1>5, <2>2 DEF IInv, PlaceInv, d
  <2> QED
    BY <2>1, <2>2 DEF Queues
<1>12. Len(x \o y \o z) + Cardinality(owned[q]) = QUEUE_ELEMENTS
  BY <1>9, <1>10, Widths
<1>13. ToSet(x \o y \o z) \cup owned[q] = Heads
  BY <1>1, <1>10 DEF S
<1> QED
  BY <1>2, <1>11, <1>12, <1>13

LEMMA Complete == IInv => PacketsComplete
<1> SUFFICES ASSUME IInv, Unread("rx")
             PROVE  LET n == num_buffers[NextUsed("rx")]
                    IN  /\ n \in 1 .. Len(Returned("rx"))
                        /\ \E p \in Packets : \A i \in 1 .. n : part[Returned("rx")[i]] = <<p, i>>
  BY DEF PacketsComplete
<1>1. TypeOK /\ PacketInv /\ "rx" \in Queues
  BY DEF IInv, Queues
<1> DEFINE R == NumReturned("rx")
           n == HeaderAt(0)
<1>2. R \in Nat /\ R > 0 /\ num_buffers[NextUsed("rx")] = n
  BY <1>1, UnreadIs DEF HeaderAt
<1>3. /\ Len(Returned("rx")) = R
      /\ \A i \in 1 .. R : Returned("rx")[i] = ReturnedAt("rx", i - 1)
  BY <1>1, RingSequences
<1>4. PICK p \in Packets : p = PartAt(0)[1]
  BY <1>1, <1>2 DEF PacketInv
<1>5. n \in 1 .. R - 0 /\ \A s \in 0 .. 0 + n - 1 : PartAt(s) = <<p, s - 0 + 1>>
  <2>1. PartAt(0)[2] = 1 /\ 0 \in 0 .. R - 1
    BY <1>1, <1>2 DEF PacketInv
  <2> QED
    BY <1>1, <1>4, <2>1 DEF PacketInv
<1> HIDE DEF R, n
<1>6. n \in 1 .. R
  BY <1>2, <1>5
<1>7. ASSUME NEW i \in 1 .. n PROVE part[Returned("rx")[i]] = <<p, i>>
  <2>1. i \in 1 .. R /\ i - 1 \in 0 .. 0 + n - 1 /\ (i - 1) - 0 + 1 = i
    BY <1>2, <1>6
  <2> QED
    BY <1>3, <1>5, <2>1 DEF PartAt
<1> QED
  BY <1>2, <1>3, <1>6, <1>7

-----------------------------------------------------------------------------
(* The theorems *)

\* The invariant is inductive.
THEOREM Invariance == SafeSpec => []IInv
<1>1. Init => IInv
  BY InitInv
<1>2. IInv /\ [Next]_vars => IInv'
  BY StepInv
<1> QED
  BY <1>1, <1>2, PTL DEF SafeSpec

\* Ring indices stay below their modulus, counters in their queue, and every ring
\* entry is a chain, however the guests and the device interleave.
THEOREM TypeCorrect == SafeSpec => []TypeOK
<1>1. IInv => TypeOK
  BY DEF IInv
<1> QED
  BY <1>1, Invariance, PTL

\* vq_pop, vq_fill and vq_flush lose no chain and hand none out twice, through all
\* wrap-arounds of the ring indices; inuse counts what the device holds.
THEOREM Conservation == SafeSpec => []ChainsConserved
<1> QED
  BY Conserved, Invariance, PTL

\* VirtioDevice::receive publishes whole packets only: the receiver finds behind a
\* header as many chains as it announces, with the parts of one packet in order.
THEOREM WholePackets == SafeSpec => []PacketsComplete
<1> QED
  BY Complete, Invariance, PTL

\* What vq_flush publishes is announced: a sleeping driver with entries to take has
\* its interrupt signalled or about to be by poll_irq.
THEOREM InterruptsKept == SafeSpec => []NoLostInterrupt
<1>1. IInv => NoLostInterrupt
  BY DEF IInv, InterruptInv, NoLostInterrupt
<1> QED
  BY <1>1, Invariance, PTL

\* vq_num_heads and vq_pop_generic throw out only a port whose guest misbehaved.
THEOREM NoFalseAccusation == SafeSpec => []BrokenOnlyIfIllegal
<1>1. IInv => BrokenOnlyIfIllegal
  BY DEF IInv
<1> QED
  BY <1>1, Invariance, PTL

-----------------------------------------------------------------------------
(* The order of the packets, on top of the invariant *)

\* The guest adds its packets in the order it numbers them, and poll takes them so.
OrderInv ==
    port["tx"] # "broken" =>
        /\ \A a \in AddedRange("tx") : content[AddedAt("tx", a)] = (sent - NumHeads("tx")) + a + 1
        /\ head # NoHead => content[head] = sent - NumHeads("tx")

\* receive fills no more chains than the packet has parts.
CutInv == pc = "receive" => num_descriptors <= Size[content[head]]

FlowInv == OrderInv /\ CutInv

LEMMA FlowInit == Init => FlowInv
<1> SUFFICES ASSUME Init PROVE FlowInv
  OBVIOUS
<1>1. Minus(0, 0) = 0
  BY Widths, MinusType DEF Indices
<1>2. NumHeads("tx") = 0 /\ AddedRange("tx") = {}
  BY <1>1 DEF Init, NumHeads, AddedRange, Queues
<1> QED
  BY <1>2 DEF Init, FlowInv, OrderInv, CutInv

\* Steps that leave the sender's packets where they are.
LEMMA FlowKept ==
    ASSUME FlowInv, UNCHANGED <<content, sent>>,
           NumHeads("tx")' = NumHeads("tx"),
           \A a \in AddedRange("tx") : AddedAt("tx", a)' = AddedAt("tx", a),
           port'["tx"] # "broken" => port["tx"] # "broken",
           head' \in {head, NoHead},
           pc' = "receive" => head' = head /\ num_descriptors' <= Size[content[head]]
    PROVE  FlowInv'
<1>1. AddedRange("tx")' = AddedRange("tx")
  BY DEF AddedRange
<1>2. OrderInv'
  BY <1>1 DEF FlowInv, OrderInv
<1>3. CutInv'
  BY DEF CutInv
<1> QED
  BY <1>2, <1>3 DEF FlowInv

LEMMA FlowPoll == ASSUME IInv, FlowInv, PollPacket PROVE FlowInv'
<1>1. /\ TypeOK /\ NumHeads("tx") > 0 /\ "tx" \in Queues /\ port["tx"] # "broken"
      /\ last_avail_idx' = [last_avail_idx EXCEPT !["tx"] = Plus(@, 1)]
      /\ head' = AddedAt("tx", 0) /\ pc' = "switch"
      /\ UNCHANGED <<avail_idx, avail_ring, content, sent, port>>
  <2>1. /\ TypeOK /\ NumHeads("tx") > 0 /\ "tx" \in Queues /\ port["tx"] # "broken"
        /\ last_avail_idx' = [last_avail_idx EXCEPT !["tx"] = Plus(@, 1)]
        /\ head' = NextHead("tx") /\ pc' = "switch"
        /\ UNCHANGED <<avail_idx, avail_ring, content, sent, port>>
    BY DEF IInv, PollPacket, Ready, Pop, Queues, ringVars, bufferVars, guestVars
  <2> QED
    BY <2>1, PopEffect
<1>2. /\ NumHeads("tx")' = NumHeads("tx") - 1
      /\ \A a \in Int : AddedAt("tx", a)' = AddedAt("tx", a + 1)
  BY <1>1, PopEffect
<1>3. NumHeads("tx") \in Nat /\ sent \in Nat
  BY <1>1, RingTypes DEF TypeOK
<1>4. PICK n \in Nat : n = NumHeads("tx") /\ n > 0
  BY <1>1, <1>3
<1>5. \A a \in 0 .. n - 1 : content[AddedAt("tx", a)] = (sent - n) + a + 1
  BY <1>1, <1>4 DEF FlowInv, OrderInv, AddedRange
<1>6. NumHeads("tx")' = n - 1 /\ AddedRange("tx")' = 0 .. n - 1 - 1
  BY <1>2, <1>4 DEF AddedRange
<1>7. \A a \in 0 .. n - 1 - 1 : content[AddedAt("tx", a)'] = (sent - (n - 1)) + a + 1
  BY <1>2, <1>3, <1>4, <1>5
<1>8. content[head'] = sent - (n - 1)
  BY <1>1, <1>3, <1>4, <1>5
<1> QED
  BY <1>1, <1>6, <1>7, <1>8 DEF FlowInv, OrderInv, CutInv

LEMMA FlowSend == ASSUME IInv, FlowInv, NEW h \in Heads, Send(h) PROVE FlowInv'
<1>1. /\ TypeOK /\ ApartInv /\ HeadApart /\ Apart("tx") /\ "tx" \in Queues
      /\ h \in owned["tx"] /\ Add("tx", h)
      /\ sent' = sent + 1 /\ content' = [content EXCEPT ![h] = sent + 1]
      /\ UNCHANGED <<last_avail_idx, port, pc, head, num_descriptors>>
  BY DEF IInv, ApartInv, Send, Add, Queues, deviceVars, loopVars
<1>2. NumHeads("tx") < QUEUE_ELEMENTS
  BY <1>1, RingBounds
<1>3. /\ NumHeads("tx")' = NumHeads("tx") + 1
      /\ \A a \in AddedRange("tx") : AddedAt("tx", a)' = AddedAt("tx", a)
      /\ \A a \in Int : a = NumHeads("tx") => AddedAt("tx", a)' = h
  BY <1>1, <1>2, AddEffect
<1>4. PICK n \in Nat : n = NumHeads("tx")
  BY <1>1, RingTypes
<1>5. AddedRange("tx") = 0 .. n - 1 /\ AddedRange("tx")' = 0 .. n /\ sent \in Nat
  BY <1>1, <1>3, <1>4 DEF AddedRange, TypeOK
<1>6. head # h /\ \A a \in 0 .. n - 1 : AddedAt("tx", a) # h
  BY <1>1, <1>5 DEF HeadApart, Apart
<1>7. ASSUME port'["tx"] # "broken", NEW a \in 0 .. n
      PROVE  content'[AddedAt("tx", a)'] = (sent' - NumHeads("tx")') + a + 1
  <2>1. (sent' - NumHeads("tx")') + a + 1 = (sent - n) + a + 1
    BY <1>1, <1>3, <1>4, <1>5
  <2>2. CASE a \in 0 .. n - 1
    <3>1. content[AddedAt("tx", a)] = (sent - n) + a + 1
      BY <1>1, <1>4, <1>5, <1>7, <2>2 DEF FlowInv, OrderInv
    <3>2. /\ AddedAt("tx", a)' = AddedAt("tx", a) /\ AddedAt("tx", a) \in Heads
          /\ AddedAt("tx", a) # h
      BY <1>1, <1>3, <1>5, <1>6, <2>2, RingTypes
    <3>3. content'[AddedAt("tx", a)] = content[AddedAt("tx", a)]
      BY <1>1, <3>2 DEF TypeOK
    <3> QED
      BY <2>1, <3>1, <3>2, <3>3
  <2>3. CASE a = n
    <3>1. AddedAt("tx", a)' = h
      BY <1>3, <1>4, <2>3
    <3> QED
      BY <1>1, <1>5, <2>1, <2>3, <3>1 DEF TypeOK
  <2> QED
    BY <2>2, <2>3
<1>8. content'[head] = content[head]
  BY <1>1, <1>6 DEF TypeOK
<1>9. OrderInv'
  <2>1. head' # NoHead /\ port'["tx"] # "broken" => content'[head'] = sent' - NumHeads("tx")'
    <3>1. sent' - NumHeads("tx")' = sent - NumHeads("tx")
      BY <1>1, <1>3, <1>4, <1>5
    <3> QED
      BY <1>1, <1>8, <3>1 DEF FlowInv, OrderInv
  <2> QED
    BY <1>5, <1>7, <2>1 DEF OrderInv
<1> QED
  BY <1>1, <1>8, <1>9 DEF FlowInv, CutInv

LEMMA FlowTakeBack == ASSUME IInv, FlowInv, TakeBack PROVE FlowInv'
<1>1. /\ TypeOK /\ ApartInv /\ "tx" \in Queues /\ Take("tx", 1) /\ Unread("tx")
      /\ content' = [h \in Heads |-> IF h \in owned'["tx"] THEN NoPacket ELSE content[h]]
      /\ UNCHANGED <<avail_idx, avail_ring, last_avail_idx, used_idx, used_ring, port, pc, head,
                     num_descriptors, sent>>
  BY DEF IInv, TakeBack, Take, Queues, ringVars, deviceVars, loopVars
<1>2. 1 \in 0 .. NumReturned("tx")
  BY <1>1, UnreadIs
<1>3. Apart("tx")' /\ HeadApart'
  BY <1>1, <1>2, TakeChains DEF ApartInv
<1>4. /\ AddedRange("tx")' = AddedRange("tx") /\ NumHeads("tx")' = NumHeads("tx")
      /\ \A a : AddedAt("tx", a)' = AddedAt("tx", a)
  BY <1>1 DEF AddedRange, AddedAt, NumHeads
<1>5. \A a \in AddedRange("tx") : content'[AddedAt("tx", a)] = content[AddedAt("tx", a)]
  <2>1. \A a \in AddedRange("tx") : AddedAt("tx", a) \in Heads
    BY <1>1, RingTypes DEF AddedRange
  <2>2. \A a \in AddedRange("tx") : AddedAt("tx", a) \notin owned'["tx"]
    BY <1>3, <1>4 DEF Apart
  <2> QED
    BY <1>1, <2>1, <2>2
<1>6. head \in Heads => content'[head] = content[head]
  BY <1>1, <1>3 DEF HeadApart
<1>7. head # NoHead => head \in Heads
  BY <1>1 DEF TypeOK
<1>8. pc = "receive" => head # NoHead
  BY DEF IInv, PlaceInv
<1> QED
  BY <1>1, <1>4, <1>5, <1>6, <1>7, <1>8 DEF FlowInv, OrderInv, CutInv

LEMMA FlowStep == ASSUME IInv, FlowInv, [Next]_vars PROVE FlowInv'
<1>0. TypeOK /\ "tx" \in Queues /\ "rx" \in Queues
  BY DEF IInv, Queues
<1>1. ASSUME UNCHANGED <<avail_idx, avail_ring, last_avail_idx, content, sent>>,
             port'["tx"] # "broken" => port["tx"] # "broken",
             head' \in {head, NoHead},
             pc' = "receive" => head' = head /\ num_descriptors' <= Size[content[head]]
      PROVE  FlowInv'
  <2>1. NumHeads("tx")' = NumHeads("tx") /\ \A a : AddedAt("tx", a)' = AddedAt("tx", a)
    BY <1>1 DEF NumHeads, AddedAt
  <2> QED
    BY <1>1, <2>1, FlowKept
<1>2. CASE PollEmpty \/ SwitchElsewhere \/ ReceiveDone \/ MarkDone
           \/ \E q \in Queues : PollIrq(q)
  <2>1. /\ UNCHANGED <<avail_idx, avail_ring, last_avail_idx, content, sent, port>>
        /\ head' \in {head, NoHead} /\ pc' # "receive"
    BY <1>2 DEF PollEmpty, SwitchElsewhere, ReceiveDone, MarkDone, PollIrq, ringVars, bufferVars,
                deviceVars, guestVars
  <2> QED
    BY <1>1, <2>1
<1>3. CASE ReceiveSlow
  <2>1. /\ UNCHANGED <<avail_idx, avail_ring, last_avail_idx, content, sent, head>>
        /\ port' = [port EXCEPT !["rx"] = "refused"] /\ pc' # "receive"
    BY <1>3 DEF ReceiveSlow, ringVars, bufferVars, deviceVars, guestVars
  <2> QED
    BY <1>0, <1>1, <2>1 DEF TypeOK
<1>4. CASE SwitchToReceiver
  <2>1. /\ UNCHANGED <<avail_idx, avail_ring, last_avail_idx, content, sent, head, port,
                       num_descriptors>>
        /\ pc = "switch"
    BY <1>4 DEF SwitchToReceiver, ringVars, bufferVars, deviceVars, guestVars
  <2>2. num_descriptors = 0 /\ head # NoHead
    BY <2>1 DEF IInv, PlaceInv
  <2>3. head \in Heads /\ content[head] \in Packets
    BY <1>0, <2>2 DEF IInv, TypeOK, ContentInv, ApartInv, HeadApart
  <2>4. Size[content[head]] \in Nat
    BY <2>3, SizeAssumption DEF Packets
  <2> QED
    BY <1>1, <2>1, <2>2, <2>4
<1>5. CASE \E q \in Queues : DriverOk(q) \/ Rearm(q) \/ Recheck(q) \/ Interrupt(q)
  <2>1. /\ UNCHANGED <<avail_idx, avail_ring, last_avail_idx, content, sent, head,
                       num_descriptors, pc>>
        /\ port'["tx"] # "broken" => port["tx"] # "broken"
    BY <1>0, <1>5 DEF DriverOk, Rearm, Recheck, Interrupt, Awaken, TypeOK, ringVars, bufferVars,
                      deviceVars, loopVars, guestVars
  <2> QED
    BY <1>1, <2>1 DEF FlowInv, CutInv
<1>6. CASE ReadPacket \/ UNCHANGED vars
  <2>1. UNCHANGED <<avail_idx, avail_ring, last_avail_idx, content, sent, head,
                    num_descriptors, pc, port>>
    BY <1>6 DEF ReadPacket, vars, ringVars, bufferVars, deviceVars, loopVars, guestVars
  <2> QED
    BY <1>1, <2>1 DEF FlowInv, CutInv
<1>7. CASE PollThrows
  <2>1. port'["tx"] = "broken" /\ pc' = "poll"
    BY <1>0, <1>7 DEF PollThrows, Throw, TypeOK
  <2> QED
    BY <2>1 DEF FlowInv, OrderInv, CutInv
<1>8. CASE ReceivePart \/ ReceiveThrows
  <2>1. /\ last_avail_idx' = [last_avail_idx EXCEPT !["rx"] = Plus(@, 1)]
        /\ NumHeads("rx") > 0
        /\ UNCHANGED <<avail_idx, avail_ring, content, sent, head>>
        /\ port'["tx"] = port["tx"]
    BY <1>0, <1>8 DEF ReceivePart, ReceiveThrows, Pop, Throw, TypeOK, ringVars, bufferVars, guestVars
  <2>2. NumHeads("tx")' = NumHeads("tx") /\ \A a \in Int : AddedAt("tx", a)' = AddedAt("tx", a)
    BY <1>0, <2>1, PopEffect
  <2>3. pc' = "receive" => num_descriptors' <= Size[content[head]]
    <3>1. ASSUME ReceivePart PROVE num_descriptors + 1 <= Size[content[head]]
      <4>1. num_descriptors < Size[content[head]] /\ pc = "receive"
        BY <3>1 DEF ReceivePart
      <4>2. head \in Heads /\ content[head] \in Packets
        BY <1>0, <4>1 DEF IInv, TypeOK, PlaceInv, ContentInv, ApartInv, HeadApart
      <4>3. Size[content[head]] \in Nat /\ num_descriptors \in Nat
        BY <1>0, <4>2, SizeAssumption, Widths DEF Packets, TypeOK
      <4> QED
        BY <4>1, <4>3
    <3> QED
      BY <1>8, <3>1 DEF ReceivePart, ReceiveThrows
  <2>4. \A a \in AddedRange("tx") : a \in Int
    BY <1>0, RingTypes DEF AddedRange
  <2> QED
    BY <2>1, <2>2, <2>3, <2>4, FlowKept
<1>9. CASE \E h \in Heads : Supply(h)
  <2>1. PICK h \in Heads : Supply(h)
    BY <1>9
  <2>2. /\ avail_idx'["tx"] = avail_idx["tx"] /\ avail_ring'["tx"] = avail_ring["tx"]
        /\ UNCHANGED <<last_avail_idx, content, sent, head, num_descriptors, pc, port>>
    BY <1>0, <2>1 DEF Supply, Add, TypeOK, deviceVars, loopVars
  <2>3. NumHeads("tx")' = NumHeads("tx") /\ \A a : AddedAt("tx", a)' = AddedAt("tx", a)
    BY <2>2 DEF NumHeads, AddedAt
  <2> QED
    BY <2>2, <2>3, FlowKept DEF FlowInv, CutInv
<1>10. CASE PollPacket
  BY <1>10, FlowPoll
<1>11. CASE \E h \in Heads : Send(h)
  BY <1>11, FlowSend
<1>12. CASE TakeBack
  BY <1>12, FlowTakeBack
<1> QED
  BY <1>2, <1>3, <1>4, <1>5, <1>6, <1>7, <1>8, <1>9, <1>10, <1>11, <1>12
     DEF Next, WorkQuantum, Guests, Handler

-----------------------------------------------------------------------------
(* What the link sees of the rings *)

\* How many packets the device is done with: the sender has got back 1 .. GivenBack.
GivenBack == sent - NumHeads("tx") - (IF head = NoHead THEN 0 ELSE 1)

\* The packets behind the l-th, up to the h-th.
Run(l, h) == [i \in 1 .. h - l |-> l + i]

OutboxIsRun ==
    ~ Detached("tx") => /\ GivenBack \in Nat /\ GivenBack <= sent
                        /\ Outbox = Run(GivenBack, sent)

LEMMA Runs ==
    ASSUME NEW l \in Nat, NEW h \in Nat, l <= h
    PROVE  /\ Run(l, h) \in Seq(Nat) /\ Len(Run(l, h)) = h - l
           /\ Run(l, h + 1) = Append(Run(l, h), h + 1)
           /\ l < h => Run(l, h) # << >> /\ Head(Run(l, h)) = l + 1 /\ Tail(Run(l, h)) = Run(l + 1, h)
<1>1. PICK n \in Nat : n = h - l
  OBVIOUS
<1>2. Run(l, h) = [i \in 1 .. n |-> l + i]
  BY <1>1 DEF Run
<1>3. Run(l, h) \in Seq(Nat) /\ Len(Run(l, h)) = n
  <2>1. Run(l, h) \in [1 .. n -> Nat]
    BY <1>2
  <2> QED
    BY <2>1, FunctionIsSequence
<1>4. Run(l, h + 1) = Append(Run(l, h), h + 1)
  <2>1. (h + 1) - l = n + 1
    BY <1>1
  <2>2. Run(l, h + 1) = [i \in 1 .. n + 1 |-> l + i]
    BY <2>1 DEF Run
  <2>3. Run(l, h + 1) \in [1 .. n + 1 -> Nat]
    BY <2>2
  <2>4. Run(l, h + 1) \in Seq(Nat) /\ Len(Run(l, h + 1)) = n + 1
    BY <2>3, FunctionIsSequence
  <2>5. /\ Append(Run(l, h), h + 1) \in Seq(Nat) /\ Len(Append(Run(l, h), h + 1)) = n + 1
        /\ \A i \in 1 .. n : Append(Run(l, h), h + 1)[i] = Run(l, h)[i]
        /\ Append(Run(l, h), h + 1)[n + 1] = h + 1
    BY <1>3
  <2>6. ASSUME NEW i \in 1 .. n + 1 PROVE Run(l, h + 1)[i] = Append(Run(l, h), h + 1)[i]
    <3>1. CASE i \in 1 .. n
      BY <1>2, <2>2, <2>5, <3>1
    <3>2. CASE i = n + 1
      BY <1>1, <2>2, <2>5, <3>2
    <3>3. i \in 1 .. n \/ i = n + 1
      OBVIOUS
    <3> QED
      BY <3>1, <3>2, <3>3
  <2> QED
    BY <2>4, <2>5, <2>6, SameEntries
<1>5. ASSUME l < h
      PROVE  Run(l, h) # << >> /\ Head(Run(l, h)) = l + 1 /\ Tail(Run(l, h)) = Run(l + 1, h)
  <2>1. n > 0 /\ n - 1 \in Nat /\ h - (l + 1) = n - 1
    BY <1>1, <1>5
  <2>2. Run(l, h) # << >> /\ Head(Run(l, h)) = l + 1
    BY <1>2, <1>3, <2>1
  <2>3. /\ Tail(Run(l, h)) \in Seq(Nat) /\ Len(Tail(Run(l, h))) = n - 1
        /\ \A i \in 1 .. n - 1 : Tail(Run(l, h))[i] = Run(l, h)[i + 1]
    BY <1>3, <2>1
  <2>4. Run(l + 1, h) = [i \in 1 .. n - 1 |-> (l + 1) + i]
    BY <2>1 DEF Run
  <2>5. Run(l + 1, h) \in Seq(Nat) /\ Len(Run(l + 1, h)) = n - 1
    <3>1. Run(l + 1, h) \in [1 .. n - 1 -> Nat]
      BY <2>4
    <3> QED
      BY <2>1, <3>1, FunctionIsSequence
  <2>6. ASSUME NEW i \in 1 .. n - 1 PROVE Tail(Run(l, h))[i] = Run(l + 1, h)[i]
    <3>1. i + 1 \in 1 .. n /\ l + (i + 1) = (l + 1) + i
      OBVIOUS
    <3> QED
      BY <1>2, <2>3, <2>4, <3>1
  <2> QED
    BY <2>2, <2>3, <2>5, <2>6, SameEntries
<1> QED
  BY <1>1, <1>3, <1>4, <1>5

\* What the sender has not got back are the packets in the ring and the one in hand.
LEMMA OutstandingIs ==
    ASSUME IInv, FlowInv, port["tx"] # "broken"
    PROVE  /\ GivenBack \in Nat /\ GivenBack <= sent /\ sent \in Nat
           /\ Outstanding = GivenBack + 1 .. sent
<1> DEFINE T == Heads \ (owned["tx"] \cup ToSet(Returned("tx")))
<1>1. /\ TypeOK /\ HeadApart /\ Apart("tx") /\ Covered("tx") /\ ContentInv /\ OrderInv
      /\ "tx" \in Queues
  BY DEF IInv, ApartInv, CoverInv, FlowInv, Queues
<1>2. PICK n \in Nat, R \in Nat, s \in Nat : n = NumHeads("tx") /\ R = NumReturned("tx") /\ s = sent
  <2>1. NumHeads("tx") \in Nat /\ NumReturned("tx") \in Nat
    <3>1. NumHeads("tx") \in 0 .. IndexModulus - 1 /\ NumReturned("tx") \in 0 .. IndexModulus - 1
      BY <1>1, RingTypes
    <3> QED
      BY <3>1
  <2>2. sent \in Nat
    BY <1>1 DEF TypeOK
  <2> QED
    BY <2>1, <2>2
<1>3. AddedRange("tx") = 0 .. n - 1 /\ ReturnedRange("tx") = 0 .. R - 1
  BY <1>2 DEF AddedRange, ReturnedRange, NumFilled
<1>4. head = NoHead \/ head \in Heads
  BY <1>1 DEF TypeOK
<1>5. NoHead \notin Heads
  BY Widths DEF NoHead, Heads
<1>6. ToSet(Returned("tx")) = {ReturnedAt("tx", r) : r \in 0 .. R - 1}
  <2>1. /\ Returned("tx") \in Seq(Heads) /\ Len(Returned("tx")) = R
        /\ \A i \in 1 .. R : Returned("tx")[i] = ReturnedAt("tx", i - 1)
    BY <1>1, <1>2, RingSequences
  <2>2. DOMAIN Returned("tx") = 1 .. R
    BY <2>1
  <2>3. ToSet(Returned("tx")) = {Returned("tx")[i] : i \in 1 .. R}
    BY <2>2 DEF ToSet
  <2>4. ASSUME NEW i \in 1 .. R PROVE \E r \in 0 .. R - 1 : Returned("tx")[i] = ReturnedAt("tx", r)
    <3>1. i - 1 \in 0 .. R - 1
      OBVIOUS
    <3> QED
      BY <2>1, <3>1
  <2>5. ASSUME NEW r \in 0 .. R - 1 PROVE \E i \in 1 .. R : ReturnedAt("tx", r) = Returned("tx")[i]
    <3>1. r + 1 \in 1 .. R /\ (r + 1) - 1 = r
      OBVIOUS
    <3> QED
      BY <2>1, <3>1
  <2> QED
    BY <2>3, <2>4, <2>5
<1>7. ASSUME NEW h \in T PROVE (\E a \in 0 .. n - 1 : h = AddedAt("tx", a)) \/ h = head
  <2>1. h \in Heads /\ h \notin owned["tx"] /\ \A r \in ReturnedRange("tx") : h # ReturnedAt("tx", r)
    BY <1>3, <1>6
  <2> QED
    BY <1>1, <1>3, <2>1 DEF Covered
<1>8. \A a \in 0 .. n - 1 : AddedAt("tx", a) \in T
  <2>1. \A a \in 0 .. n - 1 : AddedAt("tx", a) \in Heads
    BY <1>1, RingTypes
  <2>2. \A a \in 0 .. n - 1 : /\ AddedAt("tx", a) \notin owned["tx"]
                              /\ \A r \in 0 .. R - 1 : AddedAt("tx", a) # ReturnedAt("tx", r)
    BY <1>1, <1>3 DEF Apart
  <2> QED
    BY <1>6, <2>1, <2>2
<1>9. head # NoHead => head \in T
  <2>1. head \notin owned["tx"] /\ \A r \in 0 .. R - 1 : head # ReturnedAt("tx", r)
    BY <1>1, <1>3 DEF HeadApart
  <2> QED
    BY <1>4, <1>6, <2>1
<1>10. /\ \A a \in 0 .. n - 1 : content[AddedAt("tx", a)] = (s - n) + a + 1
       /\ head # NoHead => content[head] = s - n
  BY <1>1, <1>2, <1>3 DEF OrderInv
<1>11. \A h \in T : content[h] \in Nat \ {0}
  <2>1. \A h \in T : content[h] \in Packets
    BY <1>1 DEF ContentInv
  <2> QED
    BY <2>1, SizeAssumption DEF Packets
<1>12. Outstanding = {content[h] : h \in T}
  BY DEF Outstanding
<1> HIDE DEF T
<1>13. n > 0 => s - n \in Nat
  <2>1. n > 0 => content[AddedAt("tx", 0)] = (s - n) + 0 + 1 /\ AddedAt("tx", 0) \in T
    BY <1>8, <1>10
  <2> QED
    BY <1>11, <2>1
<1>14. CASE head = NoHead
  <2>1. GivenBack = s - n /\ s - n \in Nat /\ s - n <= s
    BY <1>2, <1>13, <1>14 DEF GivenBack
  <2>2. \A h \in T : \E a \in 0 .. n - 1 : h = AddedAt("tx", a)
    <3>1. \A h \in T : h # head
      BY <1>5, <1>14 DEF T
    <3> QED
      BY <1>7, <3>1
  <2>3. \A h \in T : content[h] \in (s - n) + 1 .. s
    BY <1>10, <2>2
  <2>4. ASSUME NEW p \in (s - n) + 1 .. s PROVE \E h \in T : content[h] = p
    <3>1. PICK a \in 0 .. n - 1 : (s - n) + a + 1 = p
      <4>1. p - (s - n) - 1 \in 0 .. n - 1 /\ (s - n) + (p - (s - n) - 1) + 1 = p
        OBVIOUS
      <4> QED
        BY <4>1
    <3> QED
      BY <1>8, <1>10, <3>1
  <2>5. Outstanding = (s - n) + 1 .. s
    BY <1>12, <2>3, <2>4
  <2> QED
    BY <1>2, <2>1, <2>5
<1>15. CASE head # NoHead
  <2>1. GivenBack = s - n - 1 /\ s - n - 1 \in Nat /\ s - n - 1 <= s /\ (s - n - 1) + 1 = s - n
    BY <1>2, <1>9, <1>10, <1>11, <1>15 DEF GivenBack
  <2>2. \A h \in T : content[h] \in s - n .. s
    BY <1>7, <1>10, <1>15
  <2>3. ASSUME NEW p \in s - n .. s PROVE \E h \in T : content[h] = p
    <3>1. CASE p = s - n
      BY <1>9, <1>10, <1>15, <3>1
    <3>2. CASE p > s - n
      <4>1. PICK a \in 0 .. n - 1 : (s - n) + a + 1 = p
        <5>1. p - (s - n) - 1 \in 0 .. n - 1 /\ (s - n) + (p - (s - n) - 1) + 1 = p
          BY <3>2
        <5> QED
          BY <5>1
      <4> QED
        BY <1>8, <1>10, <4>1
    <3> QED
      BY <3>1, <3>2
  <2>4. Outstanding = s - n .. s
    BY <1>12, <2>2, <2>3
  <2> QED
    BY <1>2, <2>1, <2>4
<1> QED
  BY <1>14, <1>15

LEMMA OutboxIs == IInv /\ FlowInv => OutboxIsRun
<1>1. SUFFICES ASSUME IInv, FlowInv, ~ Detached("tx")
               PROVE  GivenBack \in Nat /\ GivenBack <= sent /\ Outbox = Run(GivenBack, sent)
  BY DEF OutboxIsRun
<1>2. port["tx"] # "broken"
  BY <1>1 DEF Detached
<1>3. PICK l \in Nat, s \in Nat : l = GivenBack /\ s = sent /\ l <= s /\ Outstanding = l + 1 .. s
  BY <1>1, <1>2, OutstandingIs
<1>4. Cardinality(l + 1 .. s) = s - l /\ \A k \in 1 .. s - l : Item(l + 1 .. s, k) = l + k
  BY <1>3, ItemsOfRun
<1>5. \A S : InOrder(S) = [i \in 1 .. Cardinality(S) |-> Item(S, i)]
  BY DEF InOrder, Item, Rank, Below
<1>6. InOrder(l + 1 .. s) = [i \in 1 .. s - l |-> Item(l + 1 .. s, i)]
  BY <1>4, <1>5
<1>7. InOrder(l + 1 .. s) = Run(l, s)
  BY <1>4, <1>6 DEF Run
<1> QED
  BY <1>1, <1>3, <1>7 DEF Outbox

\* The same of the receiver: what its ring holds are entries, and a packet is in the
\* inbox for each that is the first part of one.
Starts(P)       == {r \in DOMAIN P : P[r][2] = 1}
Entry(P, H, i)  == [packet |-> P[Item(Starts(P), i)][1], parts |-> H[Item(Starts(P), i)]]
Entries(P, H)   == [i \in 1 .. Cardinality(Starts(P)) |-> Entry(P, H, i)]

Parts   == [r \in 0 .. NumReturned("rx") - 1 |-> PartAt(r)]
Headers == [r \in 0 .. NumReturned("rx") - 1 |-> HeaderAt(r)]

InboxIsEntries == Arrived = Entries(Parts, Headers)

LEMMA EntriesAre ==
    ASSUME NEW b \in Nat, NEW P, NEW H, Starts(P) \in SUBSET (0 .. b)
    PROVE  \E S : /\ Entries(P, H) \in Seq(S) /\ Len(Entries(P, H)) = Cardinality(Starts(P))
                  /\ Cardinality(Starts(P)) \in Nat
<1>1. PICK n \in Nat : n = Cardinality(Starts(P))
  BY Ranks
<1>2. Entries(P, H) = [i \in 1 .. n |-> Entry(P, H, i)]
  BY <1>1 DEF Entries
<1>3. Entries(P, H) \in [1 .. n -> {Entry(P, H, i) : i \in 1 .. n}]
  BY <1>2
<1> QED
  BY <1>1, <1>3, FunctionIsSequence

\* One packet more, of d parts.
Longer(K, d, P, H, Q, J) ==
    /\ DOMAIN P = 0 .. K - 1 /\ DOMAIN Q = 0 .. K + d - 1
    /\ \A r \in 0 .. K - 1 : Q[r] = P[r] /\ J[r] = H[r]
    /\ \A r \in K .. K + d - 1 : Q[r][2] = 1 <=> r = K

LEMMA EntriesAppend ==
    ASSUME NEW K \in Nat, NEW d \in Nat \ {0}, NEW P, NEW H, NEW Q, NEW J,
           Longer(K, d, P, H, Q, J)
    PROVE  Entries(Q, J) = Append(Entries(P, H), [packet |-> Q[K][1], parts |-> J[K]])
<1>0. /\ DOMAIN P = 0 .. K - 1 /\ DOMAIN Q = 0 .. K + d - 1
      /\ \A r \in 0 .. K - 1 : Q[r] = P[r] /\ J[r] = H[r]
      /\ \A r \in K .. K + d - 1 : Q[r][2] = 1 <=> r = K
  BY DEF Longer
<1>1. Starts(P) \in SUBSET (0 .. K) /\ \A m \in Starts(P) : m \in 0 .. K - 1 /\ m < K
  BY <1>0 DEF Starts
<1>2. Starts(Q) = Starts(P) \cup {K} /\ K \in 0 .. K
  <2>1. \A r \in 0 .. K + d - 1 : r \in 0 .. K - 1 \/ r \in K .. K + d - 1
    OBVIOUS
  <2>2. 0 .. K - 1 \subseteq 0 .. K + d - 1 /\ K \in K .. K + d - 1 /\ K .. K + d - 1 \subseteq 0 .. K + d - 1
    OBVIOUS
  <2> QED
    BY <1>0, <2>1, <2>2 DEF Starts
<1>3. PICK n \in Nat : n = Cardinality(Starts(P))
  BY <1>1, Ranks
<1>4. /\ Cardinality(Starts(Q)) = n + 1
      /\ \A k \in 1 .. n : Item(Starts(Q), k) = Item(Starts(P), k)
      /\ Item(Starts(Q), n + 1) = K
  <2>1. PICK X \in SUBSET (0 .. K), x \in 0 .. K : X = Starts(P) /\ x = K /\ \A m \in X : m < x
    BY <1>1
  <2>2. /\ Cardinality(X \cup {x}) = Cardinality(X) + 1
        /\ \A k \in 1 .. Cardinality(X) : Item(X \cup {x}, k) = Item(X, k)
        /\ Item(X \cup {x}, Cardinality(X) + 1) = x
    <3>1. \A m \in X : m < x
      BY <2>1
    <3> QED
      BY <3>1, ItemsAppend, Zenon
  <2> QED
    BY <1>2, <1>3, <2>1, <2>2
<1>5. \A k \in 1 .. n : Entry(Q, J, k) = Entry(P, H, k)
  <2>1. \A k \in 1 .. n : Item(Starts(P), k) \in 0 .. K - 1
    BY <1>1, <1>3, Items
  <2> QED
    BY <1>0, <1>4, <2>1 DEF Entry
<1>6. Entry(Q, J, n + 1) = [packet |-> Q[K][1], parts |-> J[K]]
  BY <1>4 DEF Entry
<1>7. PICK S : Entries(P, H) \in Seq(S) /\ Len(Entries(P, H)) = n
  BY <1>1, <1>3, EntriesAre
<1>8. /\ Entries(P, H) = [i \in 1 .. n |-> Entry(P, H, i)]
      /\ Entries(Q, J) = [i \in 1 .. n + 1 |-> Entry(Q, J, i)]
  BY <1>3, <1>4 DEF Entries
<1> DEFINE e == Entry(Q, J, n + 1)
           T == S \cup {e}
<1>9. Append(Entries(P, H), e) \in Seq(T) /\ Len(Append(Entries(P, H), e)) = n + 1
      /\ (\A i \in 1 .. n : Append(Entries(P, H), e)[i] = Entries(P, H)[i])
      /\ Append(Entries(P, H), e)[n + 1] = e
  <2> HIDE DEF e
  <2> QED
    BY <1>7
<1>10. ASSUME NEW i \in 1 .. n + 1 PROVE Entries(Q, J)[i] = Append(Entries(P, H), e)[i]
  <2>1. i \in 1 .. n \/ i = n + 1
    OBVIOUS
  <2>2. CASE i \in 1 .. n
    BY <1>5, <1>8, <1>9, <2>2
  <2>3. CASE i = n + 1
    BY <1>8, <1>9, <2>3
  <2> QED
    BY <2>1, <2>2, <2>3
<1>11. Entries(Q, J) \in Seq(T) /\ Len(Entries(Q, J)) = n + 1
  <2>1. \A i \in 1 .. n + 1 : Append(Entries(P, H), e)[i] \in T
    <3> HIDE DEF T, e
    <3> QED
      BY <1>9
  <2>2. \A i \in 1 .. n + 1 : Entry(Q, J, i) \in T
    <3> HIDE DEF T, e
    <3> QED
      BY <1>8, <1>10, <2>1
  <2>3. Entries(Q, J) \in [1 .. n + 1 -> T]
    <3> HIDE DEF T
    <3> QED
      BY <1>8, <2>2
  <2> HIDE DEF T
  <2> QED
    BY <2>3, FunctionIsSequence
<1> HIDE DEF T
<1>12. Entries(Q, J) = Append(Entries(P, H), e)
  <2> HIDE DEF e
  <2> QED
    BY <1>9, <1>10, <1>11, SameEntries
<1> QED
  BY <1>6, <1>12

\* One packet read, of d parts.
Shorter(R, d, P, H, Q, J) ==
    /\ DOMAIN P = 0 .. R - 1 /\ DOMAIN Q = 0 .. R - d - 1
    /\ \A r \in 0 .. R - d - 1 : Q[r] = P[r + d] /\ J[r] = H[r + d]
    /\ \A r \in 0 .. d - 1 : P[r][2] = 1 <=> r = 0

LEMMA EntriesTail ==
    ASSUME NEW R \in Nat, NEW d \in 1 .. R, NEW P, NEW H, NEW Q, NEW J,
           Shorter(R, d, P, H, Q, J)
    PROVE  Entries(P, H) # << >> /\ Entries(Q, J) = Tail(Entries(P, H))
<1>0. /\ DOMAIN P = 0 .. R - 1 /\ DOMAIN Q = 0 .. R - d - 1
      /\ \A r \in 0 .. R - d - 1 : Q[r] = P[r + d] /\ J[r] = H[r + d]
      /\ \A r \in 0 .. d - 1 : P[r][2] = 1 <=> r = 0
  BY DEF Shorter
<1>1. d \in Nat \ {0} /\ Starts(P) \in SUBSET (0 .. R)
      /\ (\A m \in Starts(P) : m = 0 \/ m >= d) /\ 0 \in Starts(P)
  BY <1>0 DEF Starts
<1>2. Starts(Q) = Shifted(Starts(P), d) /\ Starts(Q) \in SUBSET (0 .. R)
  <2>1. \A r \in Nat : r \in 0 .. R - d - 1 <=> r + d \in 0 .. R - 1
    OBVIOUS
  <2>2. 0 .. R - d - 1 \subseteq 0 .. R /\ 0 .. R - d - 1 \subseteq Nat
    OBVIOUS
  <2>3. \A r \in Starts(Q) : r \in Nat /\ r + d \in Starts(P)
    BY <1>0, <2>1, <2>2 DEF Starts
  <2>4. \A r \in Nat : r + d \in Starts(P) => r \in Starts(Q)
    BY <1>0, <2>1 DEF Starts
  <2>5. \A r \in Starts(Q) : r \in 0 .. R
    BY <1>0, <2>2 DEF Starts
  <2> QED
    BY <2>3, <2>4, <2>5 DEF Shifted
<1>3. PICK n \in Nat : n = Cardinality(Starts(P))
  BY <1>1, Ranks
<1>4. /\ Cardinality(Starts(Q)) = n - 1
      /\ \A k \in 1 .. n - 1 : Item(Starts(Q), k) = Item(Starts(P), k + 1) - d
  <2>1. PICK X \in SUBSET (0 .. R), m \in Nat \ {0} :
            X = Starts(P) /\ m = d /\ 0 \in X /\ \A x \in X : x = 0 \/ x >= m
    BY <1>1
  <2>2. Cardinality(Shifted(X, m)) = Cardinality(X) - 1
    BY <2>1, ShiftedSize
  <2>3. \A k \in 1 .. Cardinality(Shifted(X, m)) : Item(Shifted(X, m), k) = Item(X, k + 1) - m
    BY <2>1, ItemsShifted
  <2> QED
    BY <1>2, <1>3, <2>1, <2>2, <2>3
<1>5. n - 1 \in Nat
  BY <1>2, <1>4, Ranks
<1>6. ASSUME NEW k \in 1 .. n - 1 PROVE Entry(Q, J, k) = Entry(P, H, k + 1)
  <2>1. Item(Starts(Q), k) \in Starts(Q)
    BY <1>2, <1>4, Items
  <2>2. PICK r \in 0 .. R - d - 1 : r = Item(Starts(Q), k)
    BY <1>0, <2>1 DEF Starts
  <2>3. PICK t \in Starts(P) : t = Item(Starts(P), k + 1)
    <3>1. k + 1 \in 1 .. n
      BY <1>5
    <3> QED
      BY <1>1, <1>3, <3>1, Items
  <2>4. t \in Int /\ r = t - d
    BY <1>1, <1>4, <2>2, <2>3
  <2>5. r + d = t
    BY <2>4
  <2> QED
    BY <1>0, <2>2, <2>3, <2>5 DEF Entry
<1>7. PICK S : Entries(P, H) \in Seq(S) /\ Len(Entries(P, H)) = n
  BY <1>1, <1>3, EntriesAre
<1>8. /\ Entries(P, H) = [i \in 1 .. n |-> Entry(P, H, i)]
      /\ Entries(Q, J) = [i \in 1 .. n - 1 |-> Entry(Q, J, i)]
  BY <1>3, <1>4 DEF Entries
<1>9. /\ Entries(P, H) # << >>
      /\ Tail(Entries(P, H)) \in Seq(S) /\ Len(Tail(Entries(P, H))) = n - 1
      /\ \A i \in 1 .. n - 1 : Tail(Entries(P, H))[i] = Entries(P, H)[i + 1]
  BY <1>5, <1>7
<1>10. \A i \in 1 .. n - 1 : i + 1 \in 1 .. n
  BY <1>5
<1>11. \A i \in 1 .. n - 1 : Entries(Q, J)[i] = Tail(Entries(P, H))[i]
  BY <1>6, <1>8, <1>9, <1>10
<1>12. Entries(Q, J) \in Seq(S) /\ Len(Entries(Q, J)) = n - 1
  <2>1. \A i \in 1 .. n - 1 : Tail(Entries(P, H))[i] \in S
    BY <1>5, <1>9
  <2>2. \A i \in 1 .. n - 1 : Entry(Q, J, i) \in S
    BY <1>8, <1>11, <2>1
  <2>3. Entries(Q, J) \in [1 .. n - 1 -> S]
    BY <1>8, <2>2
  <2> QED
    BY <1>5, <2>3, FunctionIsSequence
<1> QED
  BY <1>9, <1>11, <1>12, SameEntries

LEMMA InboxIs == IInv => InboxIsEntries
<1>1. SUFFICES ASSUME IInv PROVE Arrived = Entries(Parts, Headers)
  BY DEF InboxIsEntries
<1>2. TypeOK /\ "rx" \in Queues
  BY <1>1 DEF IInv, Queues
<1>3. PICK R \in Nat : R = NumReturned("rx")
  BY <1>2, RingTypes
<1>4. /\ Len(Returned("rx")) = R
      /\ \A i \in 1 .. R : Returned("rx")[i] = ReturnedAt("rx", i - 1)
  BY <1>2, <1>3, RingSequences
<1>5. \A r \in 0 .. R - 1 : /\ Returned("rx")[r + 1] = ReturnedAt("rx", r)
                            /\ Parts[r] = part[Returned("rx")[r + 1]]
                            /\ Headers[r] = num_buffers[Returned("rx")[r + 1]]
  <2>1. \A r \in 0 .. R - 1 : Returned("rx")[r + 1] = ReturnedAt("rx", r)
    <3>1. \A r \in 0 .. R - 1 : r + 1 \in 1 .. R /\ (r + 1) - 1 = r
      OBVIOUS
    <3> QED
      BY <1>4, <3>1
  <2> QED
    BY <1>3, <2>1 DEF Parts, Headers, PartAt, HeaderAt
<1>6. DOMAIN Parts = 0 .. R - 1
  BY <1>3 DEF Parts
<1> DEFINE B == Starts(Parts)
<1>7. Begins = B
  BY <1>4, <1>5, <1>6 DEF Begins, Starts
<1>8. B \in SUBSET (0 .. R)
  BY <1>6 DEF Starts
<1>9. B \subseteq 0 .. R - 1
  BY <1>6 DEF Starts
<1> HIDE DEF B
<1>10. \A i \in 1 .. Cardinality(B) : InOrder(B)[i] = Item(B, i) /\ Item(B, i) \in B
  <2>1. \A S : InOrder(S) = [i \in 1 .. Cardinality(S) |-> Item(S, i)]
    BY DEF InOrder, Item, Rank, Below
  <2>2. \A i \in 1 .. Cardinality(B) : Item(B, i) \in B
    BY <1>8, Items
  <2> QED
    BY <2>1, <2>2
<1> DEFINE Left(i) == LET h == Returned("rx")[InOrder(B)[i] + 1]
                      IN  [packet |-> part[h][1], parts |-> num_buffers[h]]
           Right(i) == [packet |-> Parts[Item(B, i)][1], parts |-> Headers[Item(B, i)]]
<1>11. ASSUME NEW i \in 1 .. Cardinality(B) PROVE Left(i) = Right(i)
  <2>1. InOrder(B)[i] = Item(B, i) /\ Item(B, i) \in 0 .. R - 1
    BY <1>9, <1>10
  <2> QED
    BY <1>5, <2>1
<1>12. Arrived = [i \in 1 .. Cardinality(B) |-> Left(i)]
  BY <1>7 DEF Arrived
<1>13. Entries(Parts, Headers) = [i \in 1 .. Cardinality(B) |-> Right(i)]
  BY DEF Entries, Entry, B
<1> HIDE DEF Left, Right
<1> QED
  BY <1>11, <1>12, <1>13

\* And so it is in the next state.
LEMMA NextSeen == IInv' /\ FlowInv' => OutboxIsRun' /\ InboxIsEntries'
  BY OutboxIs, InboxIs, PTL

-----------------------------------------------------------------------------
(* The rings implement PacketLink *)

\* What is known of a step: the invariants, and what the link sees before and after.
Seen ==
    /\ IInv /\ FlowInv
    /\ OutboxIsRun /\ OutboxIsRun'
    /\ InboxIsEntries /\ InboxIsEntries'

LinkSame == UNCHANGED <<sent, Outbox, Delivered, Arrived, Cut>>

\* Steps the link does not see.
LEMMA OutboxSame ==
    ASSUME OutboxIsRun, OutboxIsRun', sent' = sent, GivenBack' = GivenBack,
           Detached("tx")' <=> Detached("tx")
    PROVE  Outbox' = Outbox
<1>1. CASE Detached("tx")
  BY <1>1 DEF Outbox
<1>2. CASE ~ Detached("tx")
  BY <1>2 DEF OutboxIsRun
<1> QED
  BY <1>1, <1>2

LEMMA InboxSame ==
    ASSUME InboxIsEntries, InboxIsEntries', NumReturned("rx")' = NumReturned("rx"),
           \A r \in 0 .. NumReturned("rx") - 1 : PartAt(r)' = PartAt(r) /\ HeaderAt(r)' = HeaderAt(r)
    PROVE  Arrived' = Arrived
<1>1. Parts' = Parts /\ Headers' = Headers
  BY DEF Parts, Headers
<1> QED
  BY <1>1 DEF InboxIsEntries

LEMMA RingSame ==
    ASSUME UNCHANGED <<used_idx, used_ring, part, num_buffers>>, seen'["rx"] = seen["rx"]
    PROVE  /\ NumReturned("rx")' = NumReturned("rx")
           /\ \A r : PartAt(r)' = PartAt(r) /\ HeaderAt(r)' = HeaderAt(r)
  BY DEF NumReturned, PartAt, HeaderAt, ReturnedAt

LEMMA Unseen ==
    ASSUME Seen, sent' = sent, GivenBack' = GivenBack,
           \A q \in Queues : Detached(q)' <=> Detached(q),
           NumReturned("rx")' = NumReturned("rx"),
           \A r \in 0 .. NumReturned("rx") - 1 : PartAt(r)' = PartAt(r) /\ HeaderAt(r)' = HeaderAt(r),
           Delivered' <=> Delivered
    PROVE  LinkSame
<1>1. Outbox' = Outbox
  BY OutboxSame DEF Seen, Queues
<1>2. Arrived' = Arrived
  BY InboxSame DEF Seen
<1>3. Cut' = Cut
  BY DEF Cut
<1>4. Delivered' = Delivered
  BY DEF Delivered
<1> QED
  BY <1>1, <1>2, <1>3, <1>4 DEF LinkSame

LEMMA LinkQuiet ==
    ASSUME Seen,
           \/ PollEmpty \/ SwitchElsewhere \/ SwitchToReceiver \/ UNCHANGED vars
           \/ \E q \in Queues : PollIrq(q) \/ DriverOk(q) \/ Rearm(q) \/ Recheck(q) \/ Interrupt(q)
    PROVE  LinkSame
<1>1. UNCHANGED <<avail_idx, last_avail_idx, sent, head, used_idx, used_ring, part, num_buffers,
                  num_descriptors, seen>>
  BY DEF PollEmpty, SwitchElsewhere, SwitchToReceiver, PollIrq, DriverOk, Rearm, Recheck, Interrupt,
         vars, ringVars, bufferVars, deviceVars, loopVars, guestVars
<1>2. \A q \in Queues : Detached(q)' <=> Detached(q)
  <2>1. CASE port' = port
    BY <2>1 DEF Detached
  <2>2. CASE \E q \in Queues : DriverOk(q)
    BY <2>2 DEF DriverOk, Detached, Seen, IInv, TypeOK
  <2> QED
    BY <2>1, <2>2 DEF PollEmpty, SwitchElsewhere, SwitchToReceiver, PollIrq, Rearm, Recheck,
                      Interrupt, vars
<1>3. Delivered' <=> Delivered
  <2>1. CASE pc' = pc
    BY <1>1, <2>1 DEF Delivered
  <2>2. CASE PollEmpty \/ SwitchToReceiver \/ \E q \in Queues : PollIrq(q)
    BY <2>2 DEF Delivered, PollEmpty, SwitchToReceiver, PollIrq
  <2>3. CASE SwitchElsewhere
    <3>1. pc = "switch" /\ num_descriptors = 0
      BY <2>3 DEF SwitchElsewhere, Seen, IInv, PlaceInv
    <3> QED
      BY <1>1, <3>1 DEF Delivered
  <2> QED
    BY <2>1, <2>2, <2>3 DEF DriverOk, Rearm, Recheck, Interrupt, vars, loopVars
<1>4. GivenBack' = GivenBack
  BY <1>1 DEF GivenBack, NumHeads
<1> QED
  BY <1>1, <1>2, <1>3, <1>4, RingSame, Unseen

LEMMA LinkPoll == ASSUME Seen, PollPacket PROVE LinkSame
<1>1. /\ TypeOK /\ NumHeads("tx") > 0 /\ "tx" \in Queues /\ head = NoHead
      /\ last_avail_idx' = [last_avail_idx EXCEPT !["tx"] = Plus(@, 1)]
      /\ head' = NextHead("tx") /\ pc = "poll" /\ pc' = "switch"
      /\ UNCHANGED <<avail_idx, avail_ring, sent, port, used_idx, used_ring, part, num_buffers, seen>>
  BY DEF Seen, IInv, PlaceInv, PollPacket, Pop, Queues, ringVars, bufferVars, guestVars
<1>2. NumHeads("tx")' = NumHeads("tx") - 1 /\ NextHead("tx") = AddedAt("tx", 0)
  BY <1>1, PopEffect
<1>3. NumHeads("tx") \in Nat /\ sent \in Nat /\ head' # NoHead
  <2>1. AddedAt("tx", 0) \in Heads /\ NumHeads("tx") \in Nat
    BY <1>1, RingTypes
  <2> QED
    BY <1>1, <1>2, <2>1, Widths DEF TypeOK, Heads, NoHead
<1>4. GivenBack' = GivenBack
  BY <1>1, <1>2, <1>3 DEF GivenBack
<1>5. (Delivered' <=> Delivered) /\ \A q \in Queues : Detached(q)' <=> Detached(q)
  BY <1>1 DEF Delivered, Detached
<1> QED
  BY <1>1, <1>4, <1>5, RingSame, Unseen

LEMMA LinkReceivePart == ASSUME Seen, ReceivePart PROVE LinkSame
<1> DEFINE h == NextHead("rx")
           K == NumReturned("rx")
           d == num_descriptors
<1>1. /\ TypeOK /\ ApartInv /\ Apart("rx") /\ "tx" \in Queues /\ "rx" \in Queues
      /\ pc = "receive" /\ NumHeads("rx") > 0
      /\ last_avail_idx' = [last_avail_idx EXCEPT !["rx"] = Plus(@, 1)]
      /\ Fill("rx", h, d)
      /\ part' = [part EXCEPT ![h] = <<content[head], d + 1>>]
      /\ UNCHANGED <<avail_idx, avail_ring, used_idx, num_buffers, port, pc, head, seen, sent>>
  BY DEF Seen, IInv, ApartInv, ReceivePart, Pop, Queues, guestVars
<1>2. /\ h \in Heads /\ \A r \in ReturnedRange("rx") : ReturnedAt("rx", r) # h
  BY <1>1, PopApart
<1>3. d \in Nat /\ K \in Nat /\ K + d < QUEUE_ELEMENTS /\ NumFilled("rx") = d
  <2>1. NumFilled("rx") = d
    BY <1>1 DEF NumFilled
  <2>2. K + d < QUEUE_ELEMENTS
    BY <1>1, <2>1, RingBounds
  <2> QED
    BY <1>1, <2>1, <2>2, RingTypes, Widths DEF TypeOK
<1>4. \A r \in 0 .. K + d - 1 : ReturnedAt("rx", r)' = ReturnedAt("rx", r)
  BY <1>1, <1>2, <1>3, FillEffect
<1>5. NumReturned("rx")' = K /\ ReturnedRange("rx") = 0 .. K + d - 1
  BY <1>1, <1>3 DEF NumReturned, ReturnedRange
<1>6. NumHeads("tx")' = NumHeads("tx")
  BY <1>1, PopEffect
<1> HIDE DEF h, K, d
<1>7. ASSUME NEW r \in 0 .. K - 1 PROVE PartAt(r)' = PartAt(r) /\ HeaderAt(r)' = HeaderAt(r)
  <2>1. r \in 0 .. K + d - 1 /\ r \in Int
    BY <1>3
  <2>2. ReturnedAt("rx", r) # h /\ ReturnedAt("rx", r) \in Heads
    BY <1>1, <1>2, <1>5, <2>1, RingTypes
  <2> QED
    BY <1>1, <1>4, <2>1, <2>2 DEF TypeOK, PartAt, HeaderAt
<1>8. GivenBack' = GivenBack
  BY <1>1, <1>6 DEF GivenBack
<1>9. (Delivered' <=> Delivered) /\ \A q \in Queues : Detached(q)' <=> Detached(q)
  BY <1>1 DEF Delivered, Detached
<1> QED
  BY <1>1, <1>5, <1>7, <1>8, <1>9, Unseen DEF K

LEMMA LinkSupply == ASSUME Seen, NEW h \in Heads, Supply(h) PROVE LinkSame
<1>1. /\ avail_idx'["tx"] = avail_idx["tx"]
      /\ UNCHANGED <<last_avail_idx, sent, head, num_descriptors, pc, port, used_idx, used_ring, seen,
                     part, num_buffers>>
  BY DEF Supply, Add, Seen, IInv, TypeOK, Queues, deviceVars, loopVars
<1>2. GivenBack' = GivenBack
  BY <1>1 DEF GivenBack, NumHeads
<1>3. (Delivered' <=> Delivered) /\ \A q \in Queues : Detached(q)' <=> Detached(q)
  BY <1>1 DEF Delivered, Detached
<1> QED
  BY <1>1, <1>2, <1>3, RingSame, Unseen

LEMMA LinkTakeBack == ASSUME Seen, TakeBack PROVE LinkSame
<1>1. /\ seen'["rx"] = seen["rx"]
      /\ UNCHANGED <<avail_idx, last_avail_idx, sent, head, num_descriptors, pc, port, used_idx,
                     used_ring, part, num_buffers>>
  BY DEF TakeBack, Take, Seen, IInv, TypeOK, Queues, ringVars, deviceVars, loopVars
<1>2. GivenBack' = GivenBack
  BY <1>1 DEF GivenBack, NumHeads
<1>3. (Delivered' <=> Delivered) /\ \A q \in Queues : Detached(q)' <=> Detached(q)
  BY <1>1 DEF Delivered, Detached
<1> QED
  BY <1>1, <1>2, <1>3, RingSame, Unseen

\* The steps it does see.
LEMMA LinkSend == ASSUME Seen, NEW h \in Heads, Send(h) PROVE Link!Send
<1>1. /\ TypeOK /\ ApartInv /\ "tx" \in Queues /\ h \in owned["tx"] /\ Add("tx", h)
      /\ sent' = sent + 1
      /\ UNCHANGED <<last_avail_idx, head, num_descriptors, pc, port, used_idx, used_ring, seen,
                     part, num_buffers>>
  BY DEF Send, Add, Seen, IInv, Queues, deviceVars, loopVars
<1>2. NumHeads("tx")' = NumHeads("tx") + 1
  BY <1>1, RingBounds, AddEffect
<1>3. NumHeads("tx") \in Nat /\ sent \in Nat
  <2>1. NumHeads("tx") \in 0 .. IndexModulus - 1
    BY <1>1, RingTypes
  <2>2. sent \in Nat
    BY <1>1 DEF TypeOK
  <2> QED
    BY <2>1, <2>2
<1>4. GivenBack' = GivenBack
  BY <1>1, <1>2, <1>3 DEF GivenBack
<1>5. Arrived' = Arrived
  BY <1>1, RingSame, InboxSame DEF Seen
<1>6. Cut' = Cut /\ Delivered' = Delivered
  BY <1>1 DEF Cut, Detached, Delivered
<1>7. Outbox' = IF "tx" \in Cut THEN Outbox ELSE Append(Outbox, sent + 1)
  <2>1. Detached("tx")' <=> Detached("tx")
    BY <1>1 DEF Detached
  <2>2. "tx" \in Cut <=> Detached("tx")
    BY DEF Cut, Queues
  <2>3. CASE Detached("tx")
    BY <2>1, <2>2, <2>3 DEF Outbox
  <2>4. CASE ~ Detached("tx")
    <3>1. GivenBack \in Nat /\ GivenBack <= sent /\ Outbox = Run(GivenBack, sent)
      BY <2>4 DEF Seen, OutboxIsRun
    <3>2. Outbox' = Run(GivenBack, sent + 1)
      BY <1>1, <1>4, <2>1, <2>4 DEF Seen, OutboxIsRun
    <3>3. Run(GivenBack, sent + 1) = Append(Run(GivenBack, sent), sent + 1)
      BY <1>3, <3>1, Runs
    <3> QED
      BY <2>2, <2>4, <3>1, <3>2, <3>3
  <2> QED
    BY <2>3, <2>4
<1> QED
  BY <1>1, <1>5, <1>6, <1>7 DEF Link!Send

LEMMA LinkPollThrows == ASSUME Seen, PollThrows PROVE Link!CutOff("tx")
<1>1. /\ port' = [port EXCEPT !["tx"] = "broken"] /\ Ready("tx") /\ pc = "poll" /\ pc' = "poll"
      /\ UNCHANGED <<sent, used_idx, used_ring, seen, part, num_buffers>>
  BY DEF PollThrows, Throw, ringVars, bufferVars, guestVars
<1>2. /\ ~ Detached("tx") /\ Detached("tx")'
      /\ \A q \in Queues : q # "tx" => (Detached(q)' <=> Detached(q))
  BY <1>1 DEF Ready, Detached, Seen, IInv, TypeOK, Queues
<1>3. Arrived' = Arrived
  BY <1>1, RingSame, InboxSame DEF Seen
<1>4. "tx" \notin Cut /\ Cut' = Cut \cup {"tx"}
  BY <1>2 DEF Cut, Queues
<1>5. Outbox' = << >> /\ Delivered' = FALSE
  BY <1>1, <1>2 DEF Outbox, Delivered
<1> QED
  BY <1>1, <1>3, <1>4, <1>5 DEF Link!CutOff

LEMMA LinkReceiverCut ==
    ASSUME Seen, ReceiveSlow \/ ReceiveThrows
    PROVE  Link!CutOff("rx")
<1>1. /\ TypeOK /\ port["rx"] \in {"driver_ok", "slow"} /\ pc \in {"switch", "receive"}
      /\ pc' = "unwind"
      /\ \E state \in {"broken", "refused"} : port' = [port EXCEPT !["rx"] = state]
      /\ UNCHANGED <<avail_idx, head, sent, used_idx, used_ring, seen, part, num_buffers>>
  BY DEF ReceiveSlow, ReceiveThrows, Throw, Seen, IInv, PlaceInv, ringVars, bufferVars,
         guestVars
<1>2. /\ ~ Detached("rx") /\ Detached("rx")'
      /\ \A q \in Queues : q # "rx" => (Detached(q)' <=> Detached(q))
  BY <1>1 DEF Detached, TypeOK, Queues
<1>3. last_avail_idx'["tx"] = last_avail_idx["tx"]
  BY <1>1 DEF ReceiveSlow, ReceiveThrows, Throw, deviceVars, TypeOK, Queues
<1>4. GivenBack' = GivenBack
  BY <1>1, <1>3 DEF GivenBack, NumHeads
<1>5. Arrived' = Arrived
  BY <1>1, RingSame, InboxSame DEF Seen
<1>6. Outbox' = Outbox
  BY <1>1, <1>2, <1>4, OutboxSame DEF Seen, Queues
<1>7. "rx" \notin Cut /\ Cut' = Cut \cup {"rx"}
  BY <1>2 DEF Cut, Queues
<1>8. Delivered = FALSE /\ Delivered' = FALSE
  BY <1>1 DEF Delivered
<1> QED
  BY <1>1, <1>5, <1>6, <1>7, <1>8 DEF Link!CutOff

\* The packet in hand is the oldest the sender has not got back.
LEMMA InHandIsOldest ==
    ASSUME Seen, head # NoHead
    PROVE  /\ ~ Detached("tx") /\ Outbox # << >> /\ Head(Outbox) = content[head]
           /\ Tail(Outbox) = Run(GivenBack + 1, sent) /\ GivenBack \in Nat /\ sent \in Nat
           /\ NumHeads("tx") \in Nat
<1>1. TypeOK /\ Ready("tx") /\ "tx" \in Queues
  BY DEF Seen, IInv, PlaceInv, Queues
<1>2. ~ Detached("tx") /\ port["tx"] # "broken"
  BY <1>1 DEF Ready, Detached
<1>3. PICK l \in Nat, s \in Nat : l = GivenBack /\ s = sent /\ l <= s /\ Outbox = Run(l, s)
  BY <1>1, <1>2 DEF Seen, OutboxIsRun, TypeOK
<1>4. NumHeads("tx") \in Nat
  BY <1>1, RingTypes
<1>5. l < s /\ content[head] = l + 1
  BY <1>2, <1>3, <1>4 DEF GivenBack, Seen, FlowInv, OrderInv
<1> QED
  BY <1>2, <1>3, <1>4, <1>5, Runs

LEMMA LinkMarkDone == ASSUME Seen, MarkDone PROVE Link!Return
<1>1. /\ TypeOK /\ ApartInv /\ "tx" \in Queues /\ "rx" \in Queues /\ head # NoHead /\ head \in Heads
      /\ Fill("tx", head, 0) /\ used_idx' = [used_idx EXCEPT !["tx"] = Plus(@, 1)]
      /\ head' = NoHead /\ pc' \in {"poll", "rx_irq"}
      /\ UNCHANGED <<avail_idx, last_avail_idx, sent, port, seen, part, num_buffers>>
  BY DEF Seen, IInv, PlaceInv, TypeOK, MarkDone, Flush, Queues, bufferVars, guestVars
<1>2. GivenBack' = GivenBack + 1
  <2>1. NumHeads("tx")' = NumHeads("tx")
    BY <1>1 DEF NumHeads
  <2>2. NumHeads("tx") \in Nat /\ sent \in Nat
    BY <1>1, InHandIsOldest
  <2> QED
    BY <1>1, <2>1, <2>2 DEF GivenBack
<1>3. Outbox' = Tail(Outbox)
  <2>1. ~ Detached("tx")'
    BY <1>1, InHandIsOldest DEF Detached
  <2>2. Outbox' = Run(GivenBack + 1, sent)
    BY <1>1, <1>2, <2>1 DEF Seen, OutboxIsRun
  <2> QED
    BY <1>1, <2>2, InHandIsOldest
<1>4. Arrived' = Arrived
  <2>1. used_idx'["rx"] = used_idx["rx"] /\ used_ring'["rx"] = used_ring["rx"]
    BY <1>1 DEF Fill, TypeOK
  <2>2. /\ NumReturned("rx")' = NumReturned("rx")
        /\ \A r : PartAt(r)' = PartAt(r) /\ HeaderAt(r)' = HeaderAt(r)
    BY <1>1, <2>1 DEF NumReturned, PartAt, HeaderAt, ReturnedAt
  <2> QED
    BY <2>2, InboxSame DEF Seen
<1>5. Cut' = Cut /\ Delivered' = FALSE
  BY <1>1 DEF Cut, Detached, Delivered
<1>6. "tx" \notin Cut /\ Outbox # << >>
  BY <1>1, InHandIsOldest DEF Cut
<1> QED
  BY <1>1, <1>3, <1>4, <1>5, <1>6 DEF Link!Return

\* Where nothing was copied nothing arrives.
LEMMA LinkReceiveDone ==
    ASSUME Seen, ReceiveDone
    PROVE  IF num_descriptors = 0 THEN LinkSame ELSE Link!Deliver(num_descriptors)
<1> DEFINE K == NumReturned("rx")
           d == num_descriptors
<1>1. /\ TypeOK /\ ApartInv /\ Apart("rx") /\ PacketInv /\ "tx" \in Queues /\ "rx" \in Queues
      /\ pc = "receive" /\ head # NoHead /\ port["rx"] = "driver_ok"
      /\ first = IF d = 0 THEN NoHead ELSE ReturnedAt("rx", K)
      /\ num_buffers' = IF first = NoHead THEN num_buffers
                        ELSE [num_buffers EXCEPT ![first] = d]
      /\ Flush("rx", d) /\ pc' = "done"
      /\ UNCHANGED <<avail_idx, used_ring, part, last_avail_idx, port, head, num_descriptors, seen,
                     sent>>
  BY DEF Seen, IInv, PlaceInv, ApartInv, ReceiveDone, Queues, guestVars
<1>2. d \in Nat /\ K \in Nat /\ K + d <= QUEUE_ELEMENTS /\ NumFilled("rx") = d
  <2>1. NumFilled("rx") = d
    BY <1>1 DEF NumFilled
  <2>2. K + d <= QUEUE_ELEMENTS
    BY <1>1, <2>1, RingBounds
  <2> QED
    BY <1>1, <2>1, <2>2, RingTypes, RingBounds
<1>3. NumReturned("rx")' = K + d /\ \A r : ReturnedAt("rx", r)' = ReturnedAt("rx", r)
  <2>1. NumReturned("rx")' = K + d
    BY <1>1, <1>2, FlushEffect
  <2> QED
    BY <1>1, <2>1 DEF ReturnedAt
<1>4. ReturnedRange("rx") = 0 .. K + d - 1
  BY <1>2 DEF ReturnedRange
<1>5. GivenBack' = GivenBack /\ \A q \in Queues : Detached(q)' <=> Detached(q)
  BY <1>1 DEF GivenBack, NumHeads, Detached
<1> HIDE DEF K, d
<1>6. \A r : PartAt(r)' = PartAt(r)
  BY <1>1, <1>3 DEF PartAt
<1>7. ASSUME NEW r \in 0 .. K - 1 PROVE HeaderAt(r)' = HeaderAt(r)
  <2>1. CASE d = 0
    BY <1>1, <1>3, <2>1 DEF HeaderAt
  <2>2. CASE d # 0
    <3>1. r \in ReturnedRange("rx") /\ K \in ReturnedRange("rx") /\ r # K /\ r \in Int /\ K \in Int
      BY <1>2, <1>4, <2>2
    <3>2. ReturnedAt("rx", r) # first /\ ReturnedAt("rx", r) \in Heads
      BY <1>1, <2>2, <3>1, RingTypes DEF Apart
    <3> QED
      BY <1>1, <1>3, <3>2 DEF TypeOK, HeaderAt
  <2> QED
    BY <2>1, <2>2
<1>8. CASE d = 0
  <2>1. NumReturned("rx")' = NumReturned("rx")
    BY <1>2, <1>3, <1>8 DEF K
  <2>2. ~ Delivered /\ ~ Delivered'
    BY <1>1, <1>8 DEF Delivered, d
  <2>3. \A r \in 0 .. NumReturned("rx") - 1 : PartAt(r)' = PartAt(r) /\ HeaderAt(r)' = HeaderAt(r)
    BY <1>6, <1>7 DEF K
  <2>4. LinkSame
    BY <1>1, <1>5, <2>1, <2>2, <2>3, Unseen
  <2> QED
    BY <1>8, <2>4 DEF d
<1>9. CASE d # 0
  <2>1. d \in Nat \ {0}
    BY <1>2, <1>9
  <2>2. \A r \in Int : r = K => HeaderAt(r)' = d
    <3>1. PICK k \in Int : k = K
      BY <1>2
    <3>2. first = ReturnedAt("rx", k) /\ first \in Heads
      BY <1>1, <1>9, <3>1, RingTypes
    <3>3. first # NoHead
      BY <3>2, Widths DEF Heads, NoHead
    <3>4. num_buffers'[ReturnedAt("rx", k)] = d
      BY <1>1, <3>2, <3>3 DEF TypeOK
    <3> QED
      BY <1>3, <3>1, <3>4 DEF HeaderAt
  <2>3. \A r \in K .. K + d - 1 : PartAt(r) = <<content[head], r - K + 1>>
    BY <1>1 DEF PacketInv, K, d
  <2>4. /\ DOMAIN Parts = 0 .. K - 1 /\ DOMAIN Parts' = 0 .. K + d - 1
        /\ \A r \in 0 .. K - 1 : Parts'[r] = Parts[r] /\ Headers'[r] = Headers[r]
        /\ \A r \in K .. K + d - 1 : Parts'[r] = PartAt(r)
        /\ Headers'[K] = d
    <3>1. Parts = [r \in 0 .. K - 1 |-> PartAt(r)] /\ Headers = [r \in 0 .. K - 1 |-> HeaderAt(r)]
      BY DEF Parts, Headers, K
    <3>2. /\ Parts' = [r \in 0 .. K + d - 1 |-> PartAt(r)']
          /\ Headers' = [r \in 0 .. K + d - 1 |-> HeaderAt(r)']
      <4>1. 0 .. NumReturned("rx")' - 1 = 0 .. K + d - 1
        BY <1>2, <1>3
      <4> QED
        BY <4>1 DEF Parts, Headers
    <3>3. /\ 0 .. K - 1 \subseteq 0 .. K + d - 1 /\ K .. K + d - 1 \subseteq 0 .. K + d - 1
          /\ K \in 0 .. K + d - 1
      BY <1>2, <2>1
    <3>4. /\ \A r \in 0 .. K - 1 : Parts[r] = PartAt(r) /\ Headers[r] = HeaderAt(r)
          /\ \A r \in 0 .. K + d - 1 : Parts'[r] = PartAt(r)' /\ Headers'[r] = HeaderAt(r)'
          /\ DOMAIN Parts = 0 .. K - 1 /\ DOMAIN Parts' = 0 .. K + d - 1
      BY <3>1, <3>2
    <3>5. K \in Int
      BY <1>2
    <3> QED
      BY <1>6, <1>7, <2>2, <3>3, <3>4, <3>5
  <2>5. \A r \in K .. K + d - 1 : Parts'[r][2] = 1 <=> r = K
    BY <1>2, <2>3, <2>4
  <2>6. Parts'[K][1] = content[head]
    <3>1. K \in K .. K + d - 1
      BY <1>2, <2>1
    <3> QED
      BY <2>3, <2>4, <3>1
  <2>7. Entries(Parts', Headers') =
            Append(Entries(Parts, Headers), [packet |-> Parts'[K][1], parts |-> Headers'[K]])
    <3>1. PICK P, H, Q, J : P = Parts /\ H = Headers /\ Q = Parts' /\ J = Headers'
      OBVIOUS
    <3>2. Longer(K, d, P, H, Q, J)
      BY <2>4, <2>5, <3>1 DEF Longer
    <3>3. Entries(Q, J) = Append(Entries(P, H), [packet |-> Q[K][1], parts |-> J[K]])
      BY <1>2, <2>1, <3>2, EntriesAppend
    <3> QED
      BY <3>1, <3>3
  <2>8. Arrived' = Append(Arrived, [packet |-> Head(Outbox), parts |-> d])
    BY <1>1, <2>4, <2>6, <2>7, InHandIsOldest DEF Seen, InboxIsEntries
  <2>9. d \in 1 .. Size[Head(Outbox)]
    <3>1. head \in Heads /\ content[head] \in Packets
      BY <1>1 DEF Seen, IInv, TypeOK, ContentInv, HeadApart, ApartInv
    <3>2. Size[content[head]] \in Nat /\ d <= Size[content[head]]
      BY <1>1, <3>1, SizeAssumption DEF Packets, Seen, FlowInv, CutInv, d
    <3> QED
      BY <1>1, <2>1, <3>2, InHandIsOldest
  <2>10. Cut = {}
    BY <1>1, InHandIsOldest DEF Cut, Queues, Detached
  <2>11. Outbox # << >> /\ Outbox' = Outbox
    BY <1>1, <1>5, InHandIsOldest, OutboxSame DEF Seen
  <2>12. Delivered = FALSE /\ Delivered' = TRUE
    BY <1>1, <2>1 DEF Delivered, d
  <2>13. Cut' = Cut
    BY <1>5 DEF Cut
  <2>14. Link!Deliver(d)
    BY <1>1, <2>8, <2>9, <2>10, <2>11, <2>12, <2>13 DEF Link!Deliver
  <2> QED
    BY <1>9, <2>14 DEF d
<1> QED
  BY <1>8, <1>9

LEMMA LinkRead == ASSUME Seen, ReadPacket PROVE Link!Read
<1> DEFINE n == HeaderAt(0)
           R == NumReturned("rx")
           F == NumFilled("rx")
<1>1. /\ TypeOK /\ ApartInv /\ PacketInv /\ "tx" \in Queues /\ "rx" \in Queues
      /\ Take("rx", num_buffers[NextUsed("rx")]) /\ Unread("rx")
      /\ part' = [h \in Heads |-> IF h \in owned'["rx"] THEN NoPart ELSE part[h]]
      /\ num_buffers' = [h \in Heads |-> IF h \in owned'["rx"] THEN 0 ELSE num_buffers[h]]
      /\ UNCHANGED <<avail_idx, avail_ring, last_avail_idx, used_idx, used_ring, port, pc, head,
                     num_descriptors, sent>>
  BY DEF Seen, IInv, ReadPacket, Take, Queues, ringVars, deviceVars, loopVars
<1>2. R \in Nat /\ R > 0 /\ num_buffers[NextUsed("rx")] = n /\ F \in Nat
  BY <1>1, UnreadIs, RingBounds DEF HeaderAt
<1>3. /\ n \in 1 .. R
      /\ \A s \in 0 .. n - 1 : PartAt(s) = <<PartAt(0)[1], s + 1>>
  <2>1. /\ PartAt(0)[2] = 1 /\ 0 \in 0 .. R - 1
        /\ \A r \in 0 .. R - 1 : PartAt(r)[2] = 1 =>
               /\ HeaderAt(r) \in 1 .. R - r
               /\ \A s \in r .. r + HeaderAt(r) - 1 : PartAt(s) = <<PartAt(r)[1], s - r + 1>>
    BY <1>1, <1>2 DEF PacketInv
  <2>2. /\ HeaderAt(0) \in 1 .. R - 0
        /\ \A s \in 0 .. 0 + HeaderAt(0) - 1 : PartAt(s) = <<PartAt(0)[1], s - 0 + 1>>
    BY <2>1
  <2>3. PICK m \in 1 .. R : m = HeaderAt(0)
    BY <1>2, <2>2
  <2>4. \A s \in 0 .. m - 1 : s \in 0 .. 0 + m - 1 /\ s - 0 + 1 = s + 1
    BY <1>2
  <2> QED
    BY <2>2, <2>3, <2>4
<1>4. n \in 0 .. R
  BY <1>2, <1>3
<1>5. /\ NumReturned("rx")' = R - n
      /\ \A r \in ReturnedRange("rx")' : /\ r \in Int /\ r + n \in ReturnedRange("rx")
                                         /\ ReturnedAt("rx", r)' = ReturnedAt("rx", r + n)
                                         /\ ReturnedAt("rx", r)' \notin owned'["rx"]
      /\ ReturnedRange("rx")' = 0 .. R - n + F - 1
  BY <1>1, <1>2, <1>4, TakeChains
<1> HIDE DEF n, R, F
<1>6. ASSUME NEW r \in 0 .. R - n - 1
      PROVE  PartAt(r)' = PartAt(r + n) /\ HeaderAt(r)' = HeaderAt(r + n)
  <2>1. r \in ReturnedRange("rx")' /\ r + n \in Int
    BY <1>2, <1>3, <1>5
  <2>2. ReturnedAt("rx", r + n) \in Heads
    BY <1>1, <2>1, RingTypes
  <2> QED
    BY <1>1, <1>5, <2>1, <2>2 DEF PartAt, HeaderAt
<1>7. /\ DOMAIN Parts = 0 .. R - 1 /\ DOMAIN Parts' = 0 .. R - n - 1
      /\ \A r \in 0 .. R - n - 1 : Parts'[r] = Parts[r + n] /\ Headers'[r] = Headers[r + n]
      /\ \A r \in 0 .. n - 1 : Parts[r][2] = 1 <=> r = 0
  <2>1. Parts = [r \in 0 .. R - 1 |-> PartAt(r)] /\ Headers = [r \in 0 .. R - 1 |-> HeaderAt(r)]
    BY DEF Parts, Headers, R
  <2>2. /\ Parts' = [r \in 0 .. R - n - 1 |-> PartAt(r)']
        /\ Headers' = [r \in 0 .. R - n - 1 |-> HeaderAt(r)']
    BY <1>5 DEF Parts, Headers
  <2>3. /\ \A r \in 0 .. R - 1 : Parts[r] = PartAt(r) /\ Headers[r] = HeaderAt(r)
        /\ \A r \in 0 .. R - n - 1 : Parts'[r] = PartAt(r)' /\ Headers'[r] = HeaderAt(r)'
        /\ DOMAIN Parts = 0 .. R - 1 /\ DOMAIN Parts' = 0 .. R - n - 1
    BY <2>1, <2>2
  <2>4. /\ \A r \in 0 .. R - n - 1 : r + n \in 0 .. R - 1
        /\ \A r \in 0 .. n - 1 : r \in 0 .. R - 1 /\ (r + 1 = 1 <=> r = 0)
    BY <1>2, <1>3
  <2> QED
    BY <1>3, <1>6, <2>3, <2>4
<1>8. Entries(Parts, Headers) # << >> /\ Entries(Parts', Headers') = Tail(Entries(Parts, Headers))
  <2>1. PICK P, H, Q, J : P = Parts /\ H = Headers /\ Q = Parts' /\ J = Headers'
    OBVIOUS
  <2>2. Shorter(R, n, P, H, Q, J)
    BY <1>7, <2>1 DEF Shorter
  <2>3. Entries(P, H) # << >> /\ Entries(Q, J) = Tail(Entries(P, H))
    BY <1>2, <1>3, <2>2, EntriesTail
  <2> QED
    BY <2>1, <2>3
<1>9. Arrived # << >> /\ Arrived' = Tail(Arrived)
  BY <1>8 DEF Seen, InboxIsEntries
<1>10. GivenBack' = GivenBack /\ \A q \in Queues : Detached(q)' <=> Detached(q)
  BY <1>1 DEF GivenBack, NumHeads, Detached
<1>11. Outbox' = Outbox
  BY <1>1, <1>10, OutboxSame DEF Seen
<1>12. Cut' = Cut /\ Delivered' = Delivered
  BY <1>1, <1>10 DEF Cut, Delivered
<1> QED
  BY <1>1, <1>9, <1>11, <1>12 DEF Link!Read

LEMMA LinkInit == Init => Link!Init
<1>1. SUFFICES ASSUME Init PROVE Link!Init
  OBVIOUS
<1>2. OutboxIsRun /\ InboxIsEntries
  BY <1>1, InitInv, FlowInit, OutboxIs, InboxIs
<1>3. Minus(0, 0) = 0
  BY Widths, MinusType DEF Indices
<1>4. NumHeads("tx") = 0 /\ NumReturned("rx") = 0 /\ ~ Detached("tx") /\ Cut = {}
  BY <1>1, <1>3 DEF Init, NumHeads, NumReturned, Detached, Cut, Queues
<1>5. sent = 0 /\ GivenBack = 0 /\ Delivered = FALSE
  BY <1>1, <1>4 DEF Init, GivenBack, Delivered
<1>6. Outbox = << >>
  <2>1. Outbox = Run(0, 0)
    BY <1>2, <1>4, <1>5 DEF OutboxIsRun
  <2>2. Run(0, 0) \in Seq(Nat) /\ Len(Run(0, 0)) = 0
    <3>1. PICK n \in Nat : n = 0 /\ n <= n
      OBVIOUS
    <3>2. Run(n, n) \in Seq(Nat) /\ Len(Run(n, n)) = n - n
      BY <3>1, Runs
    <3> QED
      BY <3>1, <3>2
  <2> QED
    BY <2>1, <2>2
<1>7. Arrived = << >>
  <2>1. DOMAIN Parts = 0 .. 0 - 1 /\ 0 .. 0 - 1 = {}
    BY <1>4 DEF Parts
  <2>2. Starts(Parts) = {} /\ Cardinality({}) = 0
    BY <2>1, FS_EmptySet DEF Starts
  <2>3. Entries(Parts, Headers) = [i \in 1 .. 0 |-> Entry(Parts, Headers, i)]
    BY <2>2 DEF Entries
  <2> QED
    BY <1>2, <2>3 DEF InboxIsEntries
<1> QED
  BY <1>4, <1>5, <1>6, <1>7 DEF Link!Init

\* The safety half of ImplementsLink: VirtioDevice::poll, receive and mark_done move
\* packets from guest to guest as PacketLink allows it, in order, once and unmixed, and
\* give every buffer back when they are done with it.
THEOREM LinkSteps == SafeSpec => Link!Init /\ [][Link!Next]_(Link!vars)
<1>1. Init => Link!Init
  BY LinkInit
<1>2. Init => IInv /\ FlowInv
  BY InitInv, FlowInit
<1>3. IInv /\ FlowInv /\ [Next]_vars => IInv' /\ FlowInv'
  BY StepInv, FlowStep
<1>4. IInv /\ FlowInv /\ [Next]_vars => [Link!Next]_(Link!vars)
  <2>1. SUFFICES ASSUME IInv, FlowInv, [Next]_vars PROVE Link!Next \/ LinkSame
    BY DEF Link!vars, LinkSame
  <2>2. Seen
    <3>1. IInv' /\ FlowInv'
      BY <2>1, StepInv, FlowStep
    <3> QED
      BY <2>1, <3>1, OutboxIs, InboxIs, NextSeen DEF Seen
  <2>3. CASE PollPacket \/ ReceivePart \/ TakeBack \/ \E h \in Heads : Supply(h)
    BY <2>2, <2>3, LinkPoll, LinkReceivePart, LinkTakeBack, LinkSupply
  <2>4. CASE \/ PollEmpty \/ SwitchElsewhere \/ SwitchToReceiver \/ UNCHANGED vars
             \/ \E q \in Queues :
                    PollIrq(q) \/ DriverOk(q) \/ Rearm(q) \/ Recheck(q) \/ Interrupt(q)
    BY <2>2, <2>4, LinkQuiet
  <2>5. CASE \E h \in Heads : Send(h)
    BY <2>2, <2>5, LinkSend DEF Link!Next
  <2>6. CASE PollThrows
    BY <2>2, <2>6, LinkPollThrows DEF Link!Next
  <2>7. CASE ReceiveSlow \/ ReceiveThrows
    BY <2>2, <2>7, LinkReceiverCut DEF Link!Next
  <2>8. CASE MarkDone
    BY <2>2, <2>8, LinkMarkDone DEF Link!Next
  <2>9. CASE ReceiveDone
    <3>1. CASE num_descriptors = 0
      BY <2>2, <2>9, <3>1, LinkReceiveDone
    <3>2. CASE num_descriptors # 0
      <4>1. Link!Deliver(num_descriptors)
        BY <2>2, <2>9, <3>2, LinkReceiveDone
      <4>2. num_descriptors \in 1 .. (IF Outbox = << >> THEN 0 ELSE Size[Head(Outbox)])
        BY <4>1 DEF Link!Deliver
      <4> QED
        BY <4>1, <4>2 DEF Link!Next
    <3> QED
      BY <3>1, <3>2
  <2>10. CASE ReadPacket
    BY <2>2, <2>10, LinkRead DEF Link!Next
  <2> QED
    BY <2>1, <2>3, <2>4, <2>5, <2>6, <2>7, <2>8, <2>9, <2>10
       DEF Next, WorkQuantum, Guests, Handler
<1> QED
  BY <1>1, <1>2, <1>3, <1>4, PTL DEF SafeSpec

=============================================================================
