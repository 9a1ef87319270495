----------------------------- MODULE IntelTxProofs -----------------------------
(***************************************************************************)
(* Proofs about IntelTx, for every length of the ring and any packets: the *)
(* NIC reads memory of lent packets only, nothing is overwritten before it *)
(* was sent and completed, and the ring is a port that gives each packet   *)
(* back once, in order, after it went out (Uplink).                        *)
(***************************************************************************)
EXTENDS IntelTx, Enumeration, SequenceTheorems

-----------------------------------------------------------------------------
(* Slots around the ring *)

LEMMA Length == TX_LEN \in Nat /\ TX_LEN > 1 /\ MaxFragments \in Nat \ {0}
  BY TxAssumption

\* The n-th slot and the distance, without the modulo.
LEMMA NthIs ==
    ASSUME NEW i \in TxIndex, NEW n \in 0 .. TX_LEN
    PROVE  /\ Nth(i, n) = IF i + n < TX_LEN THEN i + n ELSE i + n - TX_LEN
           /\ Nth(i, n) \in TxIndex
  BY Length DEF Nth, TxIndex

LEMMA DistanceIs ==
    ASSUME NEW i \in TxIndex, NEW j \in TxIndex
    PROVE  /\ Distance(i, j) = IF i <= j THEN j - i ELSE j + TX_LEN - i
           /\ Distance(i, j) \in TxIndex
           /\ Distance(i, j) = 0 <=> i = j
<1>1. CASE i <= j
  <2>1. j + TX_LEN - i = TX_LEN + (j - i) /\ j - i \in TxIndex
    BY <1>1, Length DEF TxIndex
  <2>2. (TX_LEN + (j - i)) % TX_LEN = j - i
    BY <2>1, Length DEF TxIndex
  <2> QED
    BY <1>1, <2>1, <2>2, Length DEF Distance, TxIndex
<1>2. CASE ~ (i <= j)
  <2>1. j + TX_LEN - i \in TxIndex
    BY <1>2, Length DEF TxIndex
  <2> QED
    BY <1>2, <2>1, Length DEF Distance, TxIndex
<1> QED
  BY <1>1, <1>2

LEMMA DistanceNat ==
    ASSUME NEW i \in TxIndex, NEW j \in TxIndex
    PROVE  Distance(i, j) \in Nat /\ Distance(i, j) < TX_LEN
<1>1. Distance(i, j) \in TxIndex
  BY DistanceIs
<1> QED
  BY <1>1, Length DEF TxIndex

\* Slots and their distances from slot i are the same thing.
LEMMA ThereAndBack ==
    ASSUME NEW i \in TxIndex, NEW n \in TxIndex
    PROVE  Distance(i, Nth(i, n)) = n /\ Nth(i, Distance(i, n)) = n
<1>1. n \in 0 .. TX_LEN
  BY Length DEF TxIndex
<1>2. PICK j \in TxIndex : j = Nth(i, n)
  BY <1>1, NthIs
<1>3. j = IF i + n < TX_LEN THEN i + n ELSE i + n - TX_LEN
  BY <1>1, <1>2, NthIs
<1>4. Distance(i, j) = IF i <= j THEN j - i ELSE j + TX_LEN - i
  BY DistanceIs
<1>5. Distance(i, j) = n
  BY <1>3, <1>4, Length DEF TxIndex
<1>6. PICK d \in 0 .. TX_LEN : d = Distance(i, n)
  BY DistanceIs, Length DEF TxIndex
<1>7. d = IF i <= n THEN n - i ELSE n + TX_LEN - i
  BY <1>6, DistanceIs
<1>8. Nth(i, d) = IF i + d < TX_LEN THEN i + d ELSE i + d - TX_LEN
  BY NthIs
<1>9. Nth(i, d) = n
  BY <1>7, <1>8, Length DEF TxIndex
<1> QED
  BY <1>2, <1>5, <1>6, <1>9

LEMMA SlotsDiffer ==
    ASSUME NEW i \in TxIndex, NEW m \in TxIndex, NEW n \in TxIndex, Nth(i, m) = Nth(i, n)
    PROVE  m = n
  BY ThereAndBack

\* One step on, and several.
LEMMA AdvanceIs ==
    ASSUME NEW i \in TxIndex
    PROVE  Advance(i) \in TxIndex /\ Advance(i) = Nth(i, 1)
<1>1. 1 \in 0 .. TX_LEN
  BY Length
<1>2. Nth(i, 1) = IF i + 1 < TX_LEN THEN i + 1 ELSE i + 1 - TX_LEN
  BY <1>1, NthIs
<1> QED
  BY <1>2, Length DEF Advance, TxIndex

LEMMA NthNth ==
    ASSUME NEW i \in TxIndex, NEW m \in Nat, NEW n \in Nat, m + n <= TX_LEN
    PROVE  Nth(Nth(i, m), n) = Nth(i, m + n)
<1>1. m \in 0 .. TX_LEN /\ n \in 0 .. TX_LEN /\ m + n \in 0 .. TX_LEN
  BY Length
<1>2. PICK j \in TxIndex : j = Nth(i, m)
  BY <1>1, NthIs
<1>3. /\ j = IF i + m < TX_LEN THEN i + m ELSE i + m - TX_LEN
      /\ Nth(j, n) = IF j + n < TX_LEN THEN j + n ELSE j + n - TX_LEN
      /\ Nth(i, m + n) = IF i + (m + n) < TX_LEN THEN i + (m + n) ELSE i + (m + n) - TX_LEN
  BY <1>1, <1>2, NthIs
<1> QED
  BY <1>1, <1>2, <1>3, Length DEF TxIndex

\* When the head moves on, everything ahead of it is one slot closer.
LEMMA HeadMoves ==
    ASSUME NEW i \in TxIndex, NEW j \in TxIndex, i # j
    PROVE  Distance(Advance(i), j) = Distance(i, j) - 1
<1>1. PICK k \in TxIndex : k = Advance(i)
  BY AdvanceIs
<1>2. k = IF i + 1 = TX_LEN THEN 0 ELSE i + 1
  BY <1>1 DEF Advance
<1>3. /\ Distance(i, j) = IF i <= j THEN j - i ELSE j + TX_LEN - i
      /\ Distance(k, j) = IF k <= j THEN j - k ELSE j + TX_LEN - k
  BY DistanceIs
<1> QED
  BY <1>1, <1>2, <1>3, Length DEF TxIndex

\* When the tail moves on, it is farther from the head.
LEMMA TailMoves ==
    ASSUME NEW i \in TxIndex, NEW j \in TxIndex, NEW n \in Nat, Distance(i, j) + n < TX_LEN
    PROVE  Nth(j, n) \in TxIndex /\ Distance(i, Nth(j, n)) = Distance(i, j) + n
<1>1. n \in 0 .. TX_LEN
  BY DistanceIs, Length DEF TxIndex
<1>2. PICK k \in TxIndex : k = Nth(j, n)
  BY <1>1, NthIs
<1>3. k = IF j + n < TX_LEN THEN j + n ELSE j + n - TX_LEN
  BY <1>1, <1>2, NthIs
<1>4. /\ Distance(i, j) = IF i <= j THEN j - i ELSE j + TX_LEN - i
      /\ Distance(i, k) = IF i <= k THEN k - i ELSE k + TX_LEN - i
  BY DistanceIs
<1> QED
  BY <1>1, <1>2, <1>3, <1>4, Length DEF TxIndex

\* Where slots are, seen from the tail at distance t of the head.
LEMMA FromTail ==
    ASSUME NEW i \in TxIndex, NEW j \in TxIndex, NEW m \in TxIndex
    PROVE  Distance(j, Nth(i, m)) = IF m >= Distance(i, j) THEN m - Distance(i, j)
                                    ELSE m + TX_LEN - Distance(i, j)
<1>1. m \in 0 .. TX_LEN
  BY Length DEF TxIndex
<1>2. PICK k \in TxIndex : k = Nth(i, m)
  BY <1>1, NthIs
<1>3. k = IF i + m < TX_LEN THEN i + m ELSE i + m - TX_LEN
  BY <1>1, <1>2, NthIs
<1>4. /\ Distance(i, j) = IF i <= j THEN j - i ELSE j + TX_LEN - i
      /\ Distance(j, k) = IF j <= k THEN k - j ELSE k + TX_LEN - j
  BY DistanceIs
<1> QED
  BY <1>2, <1>3, <1>4, Length DEF TxIndex

\* tx_has_room: n descriptors fit if that many slots are free, and one more.
LEMMA FitsIs ==
    ASSUME tdh \in TxIndex, tdt \in TxIndex, NEW n \in Nat
    PROVE  Fits(n) <=> Distance(tdh, tdt) + n < TX_LEN
<1> DEFINE T == Distance(tdh, tdt)
<1>1. T \in TxIndex /\ T \in Nat
  BY DistanceIs, Length DEF TxIndex
<1>2. ASSUME NEW m \in Nat, T + m < TX_LEN
      PROVE  Advance(Nth(tdt, m)) = tdh <=> T + m + 1 = TX_LEN
  <2>1. PICK h \in TxIndex, t \in TxIndex : h = tdh /\ t = tdt
    OBVIOUS
  <2>2. m \in 0 .. TX_LEN
    BY <1>1, <1>2, Length
  <2>3. PICK k \in TxIndex : k = Nth(t, m)
    BY <2>2, NthIs
  <2>4. k = IF t + m < TX_LEN THEN t + m ELSE t + m - TX_LEN
    BY <2>2, <2>3, NthIs
  <2>5. T = IF h <= t THEN t - h ELSE t + TX_LEN - h
    BY <2>1, DistanceIs
  <2> HIDE DEF T
  <2>6. Advance(k) = h <=> T + m + 1 = TX_LEN
    BY <1>2, <2>4, <2>5, Length DEF Advance, TxIndex
  <2> QED
    BY <2>1, <2>3, <2>6
<1> HIDE DEF T
<1>3. ASSUME T + n < TX_LEN PROVE Fits(n)
  <2>1. ASSUME NEW m \in 0 .. n - 1 PROVE HasRoom(m)
    <3>1. m \in Nat /\ T + m < TX_LEN /\ T + m + 1 # TX_LEN
      BY <1>1, <1>3, Length
    <3> QED
      BY <1>2, <3>1 DEF HasRoom
  <2> QED
    BY <2>1 DEF Fits
<1>4. ASSUME ~ (T + n < TX_LEN) PROVE ~ Fits(n)
  <2>1. PICK m \in Nat : m = TX_LEN - 1 - T
    BY <1>1, Length DEF TxIndex
  <2>2. T + m < TX_LEN /\ T + m + 1 = TX_LEN /\ m \in 0 .. n - 1
    BY <1>1, <1>4, <2>1, Length DEF TxIndex
  <2>3. ~ HasRoom(m)
    BY <1>2, <2>2 DEF HasRoom
  <2> QED
    BY <2>2, <2>3 DEF Fits
<1> QED
  BY <1>3, <1>4 DEF T

-----------------------------------------------------------------------------
(* Pending and Lent, of any ring *)

Buffers == [TxIndex -> [need_completion : BOOLEAN, info : Packets \cup {Nobody}]]

Wanted(b, h, n) == {k \in 0 .. n - 1 : b[Nth(h, k)].need_completion}

Held(b, h, n) == [k \in 1 .. Cardinality(Wanted(b, h, n)) |->
                     b[Nth(h, Item(Wanted(b, h, n), k))].info]

LEMMA LentIs ==
    /\ \A n : Pending(n) = Wanted(tx_buffers, tdh, n)
    /\ Lent = Held(tx_buffers, tdh, Distance(tdh, tdt))
  BY DEF Pending, Wanted, Lent, Held, Item, Rank, Below

LEMMA WantedFinite ==
    ASSUME NEW b, NEW h, NEW n \in Nat
    PROVE  /\ Wanted(b, h, n) \in SUBSET (0 .. n) /\ \A k \in Wanted(b, h, n) : k < n
           /\ IsFiniteSet(Wanted(b, h, n)) /\ Cardinality(Wanted(b, h, n)) \in Nat
<1>1. Wanted(b, h, n) \in SUBSET (0 .. n) /\ \A k \in Wanted(b, h, n) : k < n
  BY DEF Wanted
<1> QED
  BY <1>1, Ranks

LEMMA HeldIs ==
    ASSUME NEW b \in Buffers, NEW h \in TxIndex, NEW n \in TxIndex
    PROVE  /\ Held(b, h, n) \in Seq(Packets \cup {Nobody})
           /\ Len(Held(b, h, n)) = Cardinality(Wanted(b, h, n))
           /\ \A s \in Wanted(b, h, n) :
                  \E k \in DOMAIN Held(b, h, n) : Held(b, h, n)[k] = b[Nth(h, s)].info
<1> DEFINE P == Wanted(b, h, n)
<1>1. n \in Nat /\ \A k \in 0 .. n : Nth(h, k) \in TxIndex
  BY NthIs, Length DEF TxIndex
<1>2. P \in SUBSET (0 .. n) /\ Cardinality(P) \in Nat
  BY <1>1, WantedFinite
<1>3. \A k \in 1 .. Cardinality(P) : Item(P, k) \in P
  <2> HIDE DEF P
  <2> QED
    BY <1>1, <1>2, Items
<1>4. Held(b, h, n) \in [1 .. Cardinality(P) -> Packets \cup {Nobody}]
  <2>1. \A k \in 1 .. Cardinality(P) : b[Nth(h, Item(P, k))].info \in Packets \cup {Nobody}
    <3> HIDE DEF P
    <3> QED
      BY <1>1, <1>2, <1>3 DEF Buffers
  <2> QED
    BY <2>1 DEF Held
<1>5. ASSUME NEW s \in P
      PROVE  \E k \in DOMAIN Held(b, h, n) : Held(b, h, n)[k] = b[Nth(h, s)].info
  <2>1. Rank(P, s) \in 0 .. Cardinality(P) - 1
    <3> HIDE DEF P
    <3> QED
      BY <1>1, <1>2, Ranks
  <2>2. PICK k \in 1 .. Cardinality(P) : k = Rank(P, s) + 1 /\ Rank(P, s) = k - 1
    BY <1>2, <2>1
  <2>3. Item(P, k) = s
    <3> HIDE DEF P
    <3>1. \A j \in 1 .. Cardinality(P), n1 \in P : Rank(P, n1) = j - 1 => Item(P, j) = n1
      BY <1>1, <1>2, Items
    <3> QED
      BY <2>2, <3>1
  <2>4. Held(b, h, n)[k] = b[Nth(h, Item(P, k))].info /\ DOMAIN Held(b, h, n) = 1 .. Cardinality(P)
    BY DEF Held
  <2> QED
    BY <2>3, <2>4
<1> QED
  BY <1>2, <1>4, <1>5

\* Slots that want no completion are not seen.
LEMMA HeldSame ==
    ASSUME NEW b \in Buffers, NEW c \in Buffers, NEW h \in TxIndex, NEW t \in TxIndex,
           NEW n \in TxIndex, t <= n,
           \A m \in 0 .. t - 1 : c[Nth(h, m)] = b[Nth(h, m)],
           \A m \in t .. n - 1 : ~ c[Nth(h, m)].need_completion
    PROVE  Wanted(c, h, n) = Wanted(b, h, t) /\ Held(c, h, n) = Held(b, h, t)
<1>1. Wanted(c, h, n) = Wanted(b, h, t)
  <2>1. \A k \in 0 .. n - 1 : k \in 0 .. t - 1 \/ k \in t .. n - 1
    BY Length DEF TxIndex
  <2>2. 0 .. t - 1 \subseteq 0 .. n - 1
    BY Length DEF TxIndex
  <2> QED
    BY <2>1, <2>2 DEF Wanted
<1>2. t \in Nat
  BY Length DEF TxIndex
<1>3. \A k \in 1 .. Cardinality(Wanted(b, h, t)) : Item(Wanted(b, h, t), k) \in Wanted(b, h, t)
  <2>1. PICK P \in SUBSET (0 .. t) : P = Wanted(b, h, t)
    BY <1>2, WantedFinite
  <2> QED
    BY <1>2, <2>1, Items
<1>4. \A s \in Wanted(b, h, t) : c[Nth(h, s)] = b[Nth(h, s)]
  BY DEF Wanted
<1> QED
  BY <1>1, <1>3, <1>4 DEF Held

\* c is b in the slots before the t-th, and of those behind only the x-th wants its
\* packet, p.
Extends(b, c, h, t, x, p) ==
    /\ \A m \in 0 .. t - 1 : c[Nth(h, m)] = b[Nth(h, m)]
    /\ \A m \in t .. x - 1 : ~ c[Nth(h, m)].need_completion
    /\ c[Nth(h, x)].need_completion /\ c[Nth(h, x)].info = p

\* The last slot of a packet wants it: the packet is the newest one held.
LEMMA HeldAppend ==
    ASSUME NEW b \in Buffers, NEW c \in Buffers, NEW h \in TxIndex, NEW t \in TxIndex,
           NEW x \in TxIndex, t <= x, x + 1 < TX_LEN, NEW p \in Packets,
           Extends(b, c, h, t, x, p)
    PROVE  Held(c, h, x + 1) = Append(Held(b, h, t), p)
<1>0. /\ \A m \in 0 .. t - 1 : c[Nth(h, m)] = b[Nth(h, m)]
      /\ \A m \in t .. x - 1 : ~ c[Nth(h, m)].need_completion
      /\ c[Nth(h, x)].need_completion /\ c[Nth(h, x)].info = p
  BY DEF Extends
<1>1. t \in Nat /\ x \in Nat
  BY Length DEF TxIndex
<1>2. PICK P \in SUBSET (0 .. x) : P = Wanted(b, h, t)
  BY <1>1, WantedFinite
<1>3. (\A m \in P : m < t /\ m < x /\ c[Nth(h, m)] = b[Nth(h, m)]) /\ Cardinality(P) \in Nat
  <2>1. \A m \in P : m \in 0 .. t - 1 /\ m < t /\ m < x
    BY <1>1, <1>2 DEF Wanted
  <2> QED
    BY <1>0, <1>1, <1>2, <2>1, WantedFinite
<1>4. Wanted(c, h, x + 1) = P \cup {x}
  <2>1. \A k \in 0 .. (x + 1) - 1 : k \in 0 .. t - 1 \/ k \in t .. x - 1 \/ k = x
    BY <1>1
  <2>2. x \in 0 .. (x + 1) - 1 /\ 0 .. t - 1 \subseteq 0 .. (x + 1) - 1
    BY <1>1
  <2>3. \A k \in 0 .. t - 1 : c[Nth(h, k)].need_completion <=> k \in P
    BY <1>0, <1>2 DEF Wanted
  <2>4. P \subseteq 0 .. t - 1
    BY <1>2 DEF Wanted
  <2>5. \A k \in 0 .. (x + 1) - 1 : c[Nth(h, k)].need_completion <=> k \in P \cup {x}
    <3>1. \A k \in t .. x - 1 : k \notin P
      BY <1>1, <1>3
    <3> QED
      BY <1>0, <2>1, <2>3, <3>1
  <2>6. P \cup {x} \subseteq 0 .. (x + 1) - 1
    BY <2>2, <2>4
  <2>7. Wanted(c, h, x + 1) = {k \in 0 .. (x + 1) - 1 : c[Nth(h, k)].need_completion}
    BY DEF Wanted
  <2> QED
    BY <2>5, <2>6, <2>7
<1>5. /\ Cardinality(P \cup {x}) = Cardinality(P) + 1
      /\ \A k \in 1 .. Cardinality(P) : Item(P \cup {x}, k) = Item(P, k)
      /\ Item(P \cup {x}, Cardinality(P) + 1) = x
  <2>1. x \in 0 .. x /\ \A m \in P : m < x
    BY <1>1, <1>3
  <2> QED
    BY <1>1, <2>1, ItemsAppend
<1>6. \A k \in 1 .. Cardinality(P) : Item(P, k) \in P
  BY <1>1, Items
<1>7. Held(b, h, t) = [k \in 1 .. Cardinality(P) |-> b[Nth(h, Item(P, k))].info]
  BY <1>2 DEF Held
<1>8. Held(c, h, x + 1) =
          [k \in 1 .. Cardinality(P) + 1 |-> c[Nth(h, Item(P \cup {x}, k))].info]
  BY <1>4, <1>5 DEF Held
<1>9. PICK s \in Seq(Packets \cup {Nobody}) : s = Held(b, h, t) /\ Len(s) = Cardinality(P)
  BY <1>2, HeldIs
<1>10. /\ Append(s, p) \in Seq(Packets \cup {Nobody}) /\ Len(Append(s, p)) = Cardinality(P) + 1
       /\ \A k \in 1 .. Cardinality(P) : Append(s, p)[k] = s[k]
       /\ Append(s, p)[Cardinality(P) + 1] = p
  BY <1>9, AppendProperties
<1>11. PICK u \in Seq(Packets \cup {Nobody}) :
           u = Held(c, h, x + 1) /\ Len(u) = Cardinality(P) + 1
  <2>1. PICK n \in TxIndex : n = x + 1
    BY <1>1, Length DEF TxIndex
  <2>2. Held(c, h, n) \in Seq(Packets \cup {Nobody})
    BY HeldIs
  <2>3. Len(Held(c, h, n)) = Cardinality(Wanted(c, h, n))
    BY HeldIs
  <2> QED
    BY <1>4, <1>5, <2>1, <2>2, <2>3
<1>12. ASSUME NEW k \in 1 .. Cardinality(P) PROVE u[k] = s[k]
  <2>1. k \in 1 .. Cardinality(P) + 1 /\ Item(P, k) \in P
    BY <1>3, <1>6
  <2>2. u[k] = c[Nth(h, Item(P, k))].info
    BY <1>5, <1>8, <1>11, <2>1
  <2>3. s[k] = b[Nth(h, Item(P, k))].info
    BY <1>7, <1>9
  <2> QED
    BY <1>3, <2>1, <2>2, <2>3
<1>13. u[Cardinality(P) + 1] = p
  <2>1. Cardinality(P) + 1 \in 1 .. Cardinality(P) + 1
    BY <1>3
  <2> QED
    BY <1>0, <1>5, <1>8, <1>11, <2>1
<1>14. ASSUME NEW k \in 1 .. Len(u) PROVE u[k] = Append(s, p)[k]
  <2>1. k \in 1 .. Cardinality(P) \/ k = Cardinality(P) + 1
    BY <1>3, <1>11
  <2> QED
    BY <1>10, <1>12, <1>13, <2>1
<1>15. u = Append(s, p)
  BY <1>10, <1>11, <1>14, SeqEqual
<1> QED
  BY <1>9, <1>11, <1>15

\* Without the slot at the head: the oldest packet is gone, if the slot wanted one.
LEMMA HeldTail ==
    ASSUME NEW b \in Buffers, NEW c \in Buffers, NEW h \in TxIndex, NEW t \in TxIndex, t > 0,
           \A m \in 1 .. t - 1 : c[Nth(h, m)] = b[Nth(h, m)]
    PROVE  /\ Held(c, Nth(h, 1), t - 1) = IF b[h].need_completion THEN Tail(Held(b, h, t))
                                                                ELSE Held(b, h, t)
           /\ \A n \in 1 .. t : Cardinality(Wanted(c, Nth(h, 1), n - 1)) =
                  Cardinality(Wanted(b, h, n)) - (IF b[h].need_completion THEN 1 ELSE 0)
<1> DEFINE g == Nth(h, 1)
<1>1. t \in Nat /\ t < TX_LEN /\ h = Nth(h, 0)
  BY NthIs, Length DEF TxIndex
<1>2. \A m \in 0 .. t - 1 : Nth(g, m) = Nth(h, 1 + m)
  <2>1. \A m \in 0 .. t - 1 : m \in Nat /\ 1 + m <= TX_LEN
    BY <1>1, Length
  <2> QED
    BY <2>1, NthNth
<1> HIDE DEF g
<1>3. \A m \in 0 .. t - 1 : m + 1 <= t - 1 => c[Nth(g, m)] = b[Nth(h, m + 1)]
  <2>1. ASSUME NEW m \in 0 .. t - 1, m + 1 <= t - 1 PROVE c[Nth(g, m)] = b[Nth(h, m + 1)]
    <3>1. m + 1 \in 1 .. t - 1 /\ 1 + m = m + 1
      BY <1>1, <2>1
    <3> QED
      BY <1>2, <3>1
  <2> QED
    BY <2>1
<1>4. ASSUME NEW n \in 1 .. t PROVE Wanted(c, g, n - 1) = Shifted(Wanted(b, h, n), 1)
  <2>1. \A m \in 0 .. n - 1 - 1 : /\ m \in Nat /\ m \in 0 .. t - 1 /\ m + 1 <= t - 1
                                  /\ m + 1 \in 0 .. n - 1
    BY <1>1
  <2>2. \A m \in Nat : m + 1 \in 0 .. n - 1 => m \in 0 .. n - 1 - 1
    BY <1>1
  <2> QED
    BY <1>3, <2>1, <2>2 DEF Wanted, Shifted
<1>5. ASSUME NEW n \in 1 .. t PROVE 0 \in Wanted(b, h, n) <=> b[h].need_completion
  BY <1>1 DEF Wanted
<1>6. ASSUME NEW n \in 1 .. t
      PROVE  Cardinality(Wanted(c, g, n - 1)) =
                 Cardinality(Wanted(b, h, n)) - (IF b[h].need_completion THEN 1 ELSE 0)
  <2>1. n \in Nat
    BY <1>1
  <2>2. PICK P \in SUBSET (0 .. n) : P = Wanted(b, h, n) /\ Cardinality(P) \in Nat
    BY <2>1, WantedFinite
  <2>3. Cardinality(Shifted(P, 1)) = IF 0 \in P THEN Cardinality(P) - 1 ELSE Cardinality(P)
    BY <2>1, ShiftedSize
  <2> QED
    BY <1>4, <1>5, <2>2, <2>3
<1>7. Held(c, g, t - 1) = IF b[h].need_completion THEN Tail(Held(b, h, t)) ELSE Held(b, h, t)
  <2> DEFINE o == IF b[h].need_completion THEN 1 ELSE 0
  <2>1. PICK P \in SUBSET (0 .. t) : /\ P = Wanted(b, h, t) /\ Cardinality(P) \in Nat
                                     /\ \A k \in P : k < t
    BY <1>1, WantedFinite
  <2>2. t \in 1 .. t /\ (0 \in P <=> b[h].need_completion)
    BY <1>1, <1>5, <2>1
  <2>3. Wanted(c, g, t - 1) = Shifted(P, 1) /\ Cardinality(Shifted(P, 1)) = Cardinality(P) - o
    BY <1>4, <1>6, <2>1, <2>2
  <2>4. o \in {0, 1} /\ o \in Int
    OBVIOUS
  <2>5. \A k \in 1 .. Cardinality(P) - o : Item(Shifted(P, 1), k) = Item(P, k + o) - 1
    <3>1. \A k \in 1 .. Cardinality(Shifted(P, 1)) :
              Item(Shifted(P, 1), k) = (IF 0 \in P THEN Item(P, k + 1) ELSE Item(P, k)) - 1
      BY <1>1, ItemsShifted
    <3>2. \A k \in 1 .. Cardinality(P) : k + 0 = k
      BY <2>1
    <3> QED
      BY <2>1, <2>2, <2>3, <3>1, <3>2
  <2>6. Held(b, h, t) = [k \in 1 .. Cardinality(P) |-> b[Nth(h, Item(P, k))].info]
    BY <2>1 DEF Held
  <2> HIDE DEF o
  <2>7. Held(c, g, t - 1) = [k \in 1 .. Cardinality(P) - o |-> c[Nth(g, Item(Shifted(P, 1), k))].info]
    BY <2>3 DEF Held
  <2>8. ASSUME NEW k \in 1 .. Cardinality(P) - o
        PROVE  c[Nth(g, Item(Shifted(P, 1), k))].info = b[Nth(h, Item(P, k + o))].info
    <3>1. PICK l \in 1 .. Cardinality(P) : l = k + o
      BY <2>1, <2>4
    <3>2. PICK s \in P : s = Item(P, l) /\ Rank(P, s) = l - 1
      <4>1. Item(P, l) \in P /\ Rank(P, Item(P, l)) = l - 1
        BY <1>1, Items
      <4> QED
        BY <4>1
    <3>3. s # 0
      <4>1. ASSUME s = 0 PROVE FALSE
        <5>1. o = 1
          BY <2>2, <4>1 DEF o
        <5>2. \A m \in P : ~ (m < 0)
          OBVIOUS
        <5>3. Below(P, 0) = {}
          BY <5>2 DEF Below
        <5>4. l - 1 = 0
          BY <3>2, <4>1, <5>3, FS_EmptySet DEF Rank
        <5> QED
          BY <3>1, <5>1, <5>4
      <4> QED
        BY <4>1
    <3>4. s - 1 \in 0 .. t - 1 /\ s - 1 + 1 = s /\ s <= t - 1
      BY <1>1, <2>1, <3>3
    <3>5. c[Nth(g, s - 1)] = b[Nth(h, s)]
      BY <1>3, <3>4
    <3> QED
      BY <2>5, <3>1, <3>2, <3>5
  <2>9. Held(c, g, t - 1) = [k \in 1 .. Cardinality(P) - o |-> b[Nth(h, Item(P, k + o))].info]
    BY <2>7, <2>8
  <2>10. Held(b, h, t) \in Seq(Packets \cup {Nobody}) /\ Len(Held(b, h, t)) = Cardinality(P)
    BY <2>1, HeldIs
  <2>11. CASE b[h].need_completion
    <3>1. o = 1 /\ Cardinality(P) > 0
      BY <2>1, <2>2, <2>11, FS_EmptySet, WantedFinite, <1>1 DEF o
    <3>2. PICK u \in Seq(Packets \cup {Nobody}) : u = Held(b, h, t) /\ Len(u) = Cardinality(P)
      BY <2>10
    <3>3. /\ Tail(u) \in Seq(Packets \cup {Nobody}) /\ Len(Tail(u)) = Cardinality(P) - 1
          /\ \A k \in 1 .. Cardinality(P) - 1 : Tail(u)[k] = u[k + 1]
      <4>1. u # << >>
        BY <3>1, <3>2
      <4> QED
        BY <3>2, <4>1, HeadTailProperties
    <3>4. PICK v \in Seq(Packets \cup {Nobody}) :
              v = Held(c, g, t - 1) /\ Len(v) = Cardinality(P) - 1
      <4>1. PICK n \in TxIndex, i \in TxIndex : n = t - 1 /\ i = g
        <5>1. 1 \in 0 .. TX_LEN
          BY Length
        <5>2. g \in TxIndex
          BY <5>1, NthIs DEF g
        <5>3. t - 1 \in TxIndex
          BY <1>1, Length DEF TxIndex
        <5> QED
          BY <5>2, <5>3
      <4>2. Held(c, i, n) \in Seq(Packets \cup {Nobody})
        BY HeldIs
      <4>3. Len(Held(c, i, n)) = Cardinality(Wanted(c, i, n))
        BY HeldIs
      <4> QED
        BY <2>3, <3>1, <4>1, <4>2, <4>3
    <3>5. ASSUME NEW k \in 1 .. Len(v) PROVE v[k] = Tail(u)[k]
      <4>1. k \in 1 .. Cardinality(P) - 1 /\ k + 1 \in 1 .. Cardinality(P)
        BY <2>1, <3>4
      <4>2. v[k] = b[Nth(h, Item(P, k + 1))].info
        BY <2>9, <3>1, <3>4, <4>1
      <4>3. u[k + 1] = b[Nth(h, Item(P, k + 1))].info
        BY <2>6, <3>2, <4>1
      <4> QED
        BY <3>3, <4>1, <4>2, <4>3
    <3>6. v = Tail(u)
      BY <3>3, <3>4, <3>5, SeqEqual
    <3> QED
      BY <2>11, <3>2, <3>4, <3>6
  <2>12. CASE ~ b[h].need_completion
    <3>1. o = 0
      BY <2>12 DEF o
    <3>2. Cardinality(P) - o = Cardinality(P) /\ \A k \in 1 .. Cardinality(P) : k + o = k
      BY <2>1, <3>1
    <3> QED
      BY <2>6, <2>9, <2>12, <3>2
  <2> QED
    BY <2>11, <2>12
<1> QED
  BY <1>6, <1>7 DEF g

-----------------------------------------------------------------------------
(* The inductive invariant *)

\* What poll has read of the write-back is no farther than what is written there.
WritebackRead == tx_pc = "clean" => Distance(tdh, wb) <= Distance(tdh, tx_writeback)

\* Descriptors n to t from the head have a slot behind them, still ahead of the tail,
\* that tells their packet.
Kept(b, d, h, n, t) ==
    \A m \in n .. t - 1 :
        \/ d[Nth(h, m)].kind = "context"
        \/ \E s \in m .. t - 1 : /\ b[Nth(h, s)].need_completion
                                 /\ b[Nth(h, s)].info = d[Nth(h, m)].of

DescsKept == Kept(tx_buffers, tx_desc, tdh, Distance(tdh, nic_tdh), Distance(tdh, tdt))

IInv == TxTypeOK /\ TxInOrder /\ WritebackRead /\ DescsKept

LEMMA Types ==
    ASSUME TxTypeOK
    PROVE  /\ tx_buffers \in Buffers
           /\ tx_desc \in [TxIndex -> [of : Packets \cup {Nobody}, kind : {"context", "data", "last"}]]
           /\ tdh \in TxIndex /\ tdt \in TxIndex /\ TDT0 \in TxIndex /\ tx_writeback \in TxIndex
           /\ wb \in TxIndex /\ nic_tdh \in TxIndex /\ inflight \in TxIndex
           /\ Distance(tdh, tdt) \in TxIndex /\ Distance(tdh, nic_tdh) \in TxIndex
           /\ Distance(tdh, tx_writeback) \in TxIndex /\ Distance(tdh, wb) \in TxIndex
  BY DistanceIs DEF TxTypeOK, Buffers

\* Clean, when it completes a slot: the ring is one slot shorter at its head.
LEMMA CleanEffect ==
    ASSUME TxTypeOK, TxInOrder, WritebackRead, Clean, tdh # wb
    PROVE  /\ tdh' = Nth(tdh, 1) /\ tdh' \in TxIndex
           /\ Distance(tdh, nic_tdh) > 0 /\ Distance(tdh, tdt) > 0
           /\ Distance(tdh', tdt) = Distance(tdh, tdt) - 1
           /\ Distance(tdh', nic_tdh) = Distance(tdh, nic_tdh) - 1
           /\ Distance(tdh', tx_writeback) = Distance(tdh, tx_writeback) - 1
           /\ Distance(tdh', wb) = Distance(tdh, wb) - 1
           /\ tx_buffers' \in Buffers
           /\ \A m \in 1 .. TX_LEN - 1 : tx_buffers'[Nth(tdh, m)] = tx_buffers[Nth(tdh, m)]
<1>1. /\ tdh' = Advance(tdh) /\ tx_buffers' = [tx_buffers EXCEPT ![tdh].info = Nobody]
      /\ tx_pc = "clean"
  BY DEF Clean
<1>2. tdh' = Nth(tdh, 1) /\ tdh' \in TxIndex
  BY <1>1, AdvanceIs, Types
<1>3. Distance(tdh, wb) > 0 /\ Distance(tdh, wb) <= Distance(tdh, tx_writeback)
  BY <1>1, Types, DistanceIs, Length DEF WritebackRead, TxIndex
<1>4. /\ Distance(tdh, tx_writeback) > 0 /\ Distance(tdh, nic_tdh) > 0
      /\ Distance(tdh, tdt) > 0
  BY <1>3, Types, Length DEF TxInOrder, TxIndex
<1>5. tdh # tx_writeback /\ tdh # nic_tdh /\ tdh # tdt
  <2>1. Distance(tdh, tdh) = 0
    BY Types, DistanceIs
  <2> QED
    BY <1>4, <2>1
<1>6. /\ Distance(tdh', tdt) = Distance(tdh, tdt) - 1
      /\ Distance(tdh', nic_tdh) = Distance(tdh, nic_tdh) - 1
      /\ Distance(tdh', tx_writeback) = Distance(tdh, tx_writeback) - 1
      /\ Distance(tdh', wb) = Distance(tdh, wb) - 1
  BY <1>1, <1>5, HeadMoves, Types
<1>7. tx_buffers' \in Buffers
  BY <1>1, Types DEF Buffers
<1>8. ASSUME NEW m \in 1 .. TX_LEN - 1
      PROVE  tx_buffers'[Nth(tdh, m)] = tx_buffers[Nth(tdh, m)]
  <2>1. m \in TxIndex /\ 0 \in TxIndex /\ m # 0 /\ m \in 0 .. TX_LEN /\ 0 \in 0 .. TX_LEN
    BY Length DEF TxIndex
  <2>2. Nth(tdh, 0) = tdh
    BY <2>1, NthIs, Types, Length DEF TxIndex
  <2>3. Nth(tdh, m) # tdh /\ Nth(tdh, m) \in TxIndex
    <3>1. PICK h \in TxIndex : h = tdh
      BY Types
    <3>2. Nth(h, m) \in TxIndex /\ Nth(h, m) # Nth(h, 0)
      BY <2>1, SlotsDiffer, NthIs
    <3> QED
      BY <2>2, <3>1, <3>2
  <2> QED
    BY <1>1, <2>3, Types DEF Buffers
<1> QED
  BY <1>2, <1>4, <1>6, <1>7, <1>8

\* Receive: nothing before the tail is touched, and what is published behind it is a
\* context descriptor, or a packet that wants completion at its end.
Published(p, all) ==
    LET t == Distance(tdh, tdt) IN
    /\ \A m \in t .. t + all - 2 : ~ tx_buffers'[Nth(tdh, m)].need_completion
    /\ tx_buffers'[Nth(tdh, t + all - 1)] = [need_completion |-> TRUE, info |-> p]
    /\ \A m \in t .. t + all - 1 : tx_desc'[Nth(tdh, m)].of = p

Abandoned(taken) ==
    LET t == Distance(tdh, tdt) IN
    \A m \in t .. t + taken - 1 : /\ ~ tx_buffers'[Nth(tdh, m)].need_completion
                                  /\ tx_desc'[Nth(tdh, m)].kind = "context"

LEMMA ReceiveEffect ==
    ASSUME TxTypeOK, NEW p \in Packets, Receive(p)
    PROVE  /\ \A m \in 0 .. Distance(tdh, tdt) - 1 :
                  /\ tx_buffers'[Nth(tdh, m)] = tx_buffers[Nth(tdh, m)]
                  /\ tx_desc'[Nth(tdh, m)] = tx_desc[Nth(tdh, m)]
           /\ \E taken \in Nat :
                  /\ Distance(tdh, tdt) + taken < TX_LEN
                  /\ tdt' = Nth(tdt, taken) /\ inflight' = inflight + taken
                  /\ (taken > 0 /\ Published(p, taken)) \/ Abandoned(taken)
           /\ tx_buffers' \in Buffers
           /\ tx_desc' \in [TxIndex -> [of : Packets \cup {Nobody},
                                        kind : {"context", "data", "last"}]]
<1>1. PICK contexts \in {0, 1}, fragments \in 1 .. MaxFragments :
        LET all     == contexts + fragments
            written == {k \in 0 .. all - 1 : Fits(contexts) /\ Fits(k)}
            taken   == IF Fits(all) THEN all ELSE IF Fits(contexts) THEN contexts ELSE 0
            At(i)   == Distance(tdt, i)
        IN  /\ tx_desc' = [i \in TxIndex |->
                    IF At(i) \notin written THEN tx_desc[i]
                    ELSE [of |-> p, kind |-> IF At(i) < contexts THEN "context"
                                             ELSE IF At(i) = all - 1 THEN "last" ELSE "data"]]
            /\ tx_buffers' = [i \in TxIndex |->
                    IF At(i) \notin written THEN tx_buffers[i]
                    ELSE IF Fits(all) /\ At(i) = all - 1
                           THEN [need_completion |-> TRUE, info |-> p]
                           ELSE NotNeeded(i)]
            /\ inflight' = inflight + taken
            /\ tdt' = Nth(tdt, taken)
  BY DEF Receive
<1> DEFINE all     == contexts + fragments
           written == {k \in 0 .. all - 1 : Fits(contexts) /\ Fits(k)}
           taken   == IF Fits(all) THEN all ELSE IF Fits(contexts) THEN contexts ELSE 0
           At(i)   == Distance(tdt, i)
           T       == Distance(tdh, tdt)
           NewDesc(i) ==
               IF At(i) \notin written THEN tx_desc[i]
               ELSE [of |-> p, kind |-> IF At(i) < contexts THEN "context"
                                        ELSE IF At(i) = all - 1 THEN "last" ELSE "data"]
           NewBuffer(i) ==
               IF At(i) \notin written THEN tx_buffers[i]
               ELSE IF Fits(all) /\ At(i) = all - 1
                      THEN [need_completion |-> TRUE, info |-> p]
                      ELSE NotNeeded(i)
<1>2. /\ tx_desc' = [i \in TxIndex |-> NewDesc(i)]
      /\ tx_buffers' = [i \in TxIndex |-> NewBuffer(i)]
      /\ inflight' = inflight + taken /\ tdt' = Nth(tdt, taken)
  BY <1>1
<1>3. /\ contexts \in Nat /\ all \in Nat /\ contexts < all /\ T \in Nat /\ T < TX_LEN
      /\ taken \in Nat
  BY Types, Length DEF TxIndex
<1>4. \A n \in Nat : Fits(n) <=> T + n < TX_LEN
  BY FitsIs, Types
<1>5. ASSUME NEW m \in TxIndex
      PROVE  /\ m < T => At(Nth(tdh, m)) \notin written
             /\ m >= T => /\ At(Nth(tdh, m)) = m - T
                          /\ At(Nth(tdh, m)) \in written <=> Fits(contexts) /\ m - T < all
             /\ Nth(tdh, m) \in TxIndex
  <2>1. At(Nth(tdh, m)) = IF m >= T THEN m - T ELSE m + TX_LEN - T
    BY FromTail, Types
  <2>2. m \in Nat /\ m < TX_LEN /\ m \in 0 .. TX_LEN
    BY Length DEF TxIndex
  <2>3. ASSUME m < T PROVE At(Nth(tdh, m)) \notin written
    <3>1. PICK k \in Nat : k = At(Nth(tdh, m)) /\ T + k = m + TX_LEN
      BY <1>3, <2>1, <2>2, <2>3, Length
    <3>2. ~ Fits(k)
      BY <1>3, <1>4, <2>2, <3>1, Length
    <3> QED
      BY <3>1, <3>2
  <2>4. ASSUME m >= T
        PROVE  /\ At(Nth(tdh, m)) = m - T
               /\ At(Nth(tdh, m)) \in written <=> Fits(contexts) /\ m - T < all
    <3>1. PICK k \in Nat : k = At(Nth(tdh, m)) /\ k = m - T /\ T + k < TX_LEN
      BY <1>3, <2>1, <2>2, <2>4, Length
    <3>2. Fits(k)
      BY <1>4, <3>1
    <3>3. k \in 0 .. all - 1 <=> k < all
      BY <1>3
    <3>4. k \in written <=> Fits(contexts) /\ k < all
      BY <3>2, <3>3
    <3> QED
      BY <3>1, <3>4
  <2> QED
    BY <2>2, <2>3, <2>4, NthIs, Types
<1>6. /\ \A i \in TxIndex : tx_desc'[i] = NewDesc(i) /\ tx_buffers'[i] = NewBuffer(i)
  BY <1>2
<1> HIDE DEF all, written, taken, At, T
<1>7. ASSUME NEW m \in 0 .. T - 1
      PROVE  /\ tx_buffers'[Nth(tdh, m)] = tx_buffers[Nth(tdh, m)]
             /\ tx_desc'[Nth(tdh, m)] = tx_desc[Nth(tdh, m)]
  <2>1. m \in TxIndex /\ m < T
    BY <1>3, Length DEF TxIndex
  <2> QED
    BY <1>5, <1>6, <2>1
<1>8. tx_buffers' \in Buffers
  <2>1. \A i \in TxIndex : NewBuffer(i) \in [need_completion : BOOLEAN, info : Packets \cup {Nobody}]
    BY Types DEF NotNeeded, Buffers
  <2> QED
    BY <1>2, <2>1 DEF Buffers
<1>9. tx_desc' \in [TxIndex -> [of : Packets \cup {Nobody}, kind : {"context", "data", "last"}]]
  <2>1. \A i \in TxIndex :
            NewDesc(i) \in [of : Packets \cup {Nobody}, kind : {"context", "data", "last"}]
    BY Types
  <2> QED
    BY <1>2, <2>1
<1>10. CASE Fits(all)
  <2>1. taken = all /\ T + all < TX_LEN /\ Fits(contexts)
    BY <1>3, <1>4, <1>10, Length DEF taken
  <2>2. ASSUME NEW m \in T .. T + all - 1
        PROVE  /\ m \in TxIndex /\ m >= T /\ Nth(tdh, m) \in TxIndex
               /\ At(Nth(tdh, m)) = m - T /\ At(Nth(tdh, m)) \in written
    <3>1. m \in TxIndex /\ m >= T /\ m - T < all
      BY <1>3, <2>1, Length DEF TxIndex
    <3> QED
      BY <1>5, <2>1, <3>1
  <2>3. ASSUME NEW m \in T .. T + all - 2
        PROVE  ~ tx_buffers'[Nth(tdh, m)].need_completion
    <3>1. m \in T .. T + all - 1 /\ m - T # all - 1
      BY <1>3
    <3>2. NewBuffer(Nth(tdh, m)) = NotNeeded(Nth(tdh, m))
      BY <2>2, <3>1
    <3>3. tx_buffers'[Nth(tdh, m)] = NotNeeded(Nth(tdh, m)) /\ Nth(tdh, m) \in TxIndex
      BY <1>6, <2>2, <3>1, <3>2
    <3> QED
      BY <3>3, Types DEF NotNeeded, Buffers
  <2>4. tx_buffers'[Nth(tdh, T + all - 1)] = [need_completion |-> TRUE, info |-> p]
    <3>1. PICK m \in T .. T + all - 1 : m = T + all - 1 /\ m - T = all - 1
      BY <1>3
    <3>2. NewBuffer(Nth(tdh, m)) = [need_completion |-> TRUE, info |-> p]
      BY <1>10, <2>2, <3>1
    <3> QED
      BY <1>6, <2>2, <3>1, <3>2
  <2>5. ASSUME NEW m \in T .. T + all - 1 PROVE tx_desc'[Nth(tdh, m)].of = p
    <3>1. NewDesc(Nth(tdh, m)).of = p
      BY <2>2
    <3> QED
      BY <1>6, <2>2, <3>1
  <2>6. Published(p, taken)
    BY <2>1, <2>3, <2>4, <2>5 DEF Published, T
  <2>7. taken > 0
    BY <1>3, <2>1
  <2> HIDE DEF NewBuffer, NewDesc
  <2> QED
    BY <1>2, <1>3, <1>7, <1>8, <1>9, <2>1, <2>6, <2>7 DEF T
<1>11. CASE ~ Fits(all)
  <2>1. T + taken < TX_LEN /\ taken <= contexts /\ taken < all /\ (taken > 0 => Fits(contexts))
    BY <1>3, <1>4, <1>11, Length DEF taken
  <2>2. ASSUME NEW m \in T .. T + taken - 1
        PROVE  /\ ~ tx_buffers'[Nth(tdh, m)].need_completion
               /\ tx_desc'[Nth(tdh, m)].kind = "context"
    <3>1. /\ m \in TxIndex /\ m >= T /\ m - T < all /\ m - T < contexts /\ Fits(contexts)
      BY <1>3, <2>1, Length DEF TxIndex
    <3>2. /\ Nth(tdh, m) \in TxIndex /\ At(Nth(tdh, m)) = m - T
          /\ At(Nth(tdh, m)) \in written
      BY <1>5, <3>1
    <3>3. /\ tx_buffers'[Nth(tdh, m)] = NotNeeded(Nth(tdh, m))
          /\ tx_desc'[Nth(tdh, m)] = [of |-> p, kind |-> "context"]
      BY <1>6, <1>11, <3>1, <3>2
    <3> QED
      BY <3>2, <3>3, Types DEF NotNeeded, Buffers
  <2>3. Abandoned(taken)
    BY <2>2 DEF Abandoned, T
  <2> QED
    BY <1>2, <1>3, <1>7, <1>8, <1>9, <2>1, <2>3 DEF T
<1> QED
  BY <1>10, <1>11

\* NicTransmit takes the slot at the NIC's head.
LEMMA NicEffect ==
    ASSUME TxTypeOK, TxInOrder, NicTransmit
    PROVE  /\ nic_tdh' \in TxIndex /\ Distance(tdh, nic_tdh) < Distance(tdh, tdt)
           /\ Distance(tdh, nic_tdh') = Distance(tdh, nic_tdh) + 1
           /\ Distance(tdh, tx_writeback) <= Distance(tdh, tx_writeback')
           /\ Distance(tdh, tx_writeback') <= Distance(tdh, nic_tdh')
           /\ tx_writeback' \in TxIndex
<1>1. PICK h \in TxIndex, n \in TxIndex, t \in TxIndex : h = tdh /\ n = nic_tdh /\ t = tdt
  BY Types
<1>2. t # n /\ nic_tdh' = Advance(n) /\ tx_writeback' \in {tx_writeback, nic_tdh'}
  BY <1>1 DEF NicTransmit, TxInOrder
<1>3. Distance(h, n) # Distance(h, t)
  BY <1>2, ThereAndBack
<1>4. Distance(h, n) <= Distance(h, t) /\ Distance(h, tx_writeback) <= Distance(h, n)
  BY <1>1 DEF TxInOrder
<1>5. Distance(h, n) \in Nat /\ Distance(h, t) \in Nat /\ Distance(h, t) < TX_LEN
  BY DistanceNat
<1>6. Distance(h, n) + 1 < TX_LEN
  BY <1>3, <1>4, <1>5, Length
<1>7. Distance(h, Nth(n, 1)) = Distance(h, n) + 1 /\ Nth(n, 1) \in TxIndex
  BY <1>6, TailMoves
<1>8. nic_tdh' = Nth(n, 1)
  BY <1>2, AdvanceIs
<1>9. Distance(h, tx_writeback) \in Nat
  BY Types, <1>1, DistanceNat
<1>10. Distance(tdh, nic_tdh) < Distance(tdh, tdt)
  BY <1>1, <1>3, <1>4, <1>5
<1>11. nic_tdh' \in TxIndex /\ Distance(tdh, nic_tdh') = Distance(tdh, nic_tdh) + 1
  BY <1>1, <1>7, <1>8
<1>12. tx_writeback' \in TxIndex
  BY <1>2, <1>11, Types
<1>13. /\ Distance(tdh, tx_writeback) <= Distance(tdh, tx_writeback')
       /\ Distance(tdh, tx_writeback') <= Distance(tdh, nic_tdh')
  <2>1. CASE tx_writeback' = tx_writeback
    BY <1>1, <1>4, <1>5, <1>9, <1>11, <2>1
  <2>2. CASE tx_writeback' = nic_tdh'
    BY <1>1, <1>4, <1>5, <1>9, <1>11, <2>2
  <2> QED
    BY <1>2, <2>1, <2>2
<1> QED
  BY <1>10, <1>11, <1>12, <1>13

LEMMA InitInv == TxInit("idle") => IInv
<1>1. SUFFICES ASSUME TxInit("idle") PROVE IInv
  OBVIOUS
<1>2. 0 \in TxIndex /\ Distance(0, 0) = 0
  BY DistanceIs, Length DEF TxIndex
<1>3. TxTypeOK
  BY <1>1, <1>2 DEF TxInit, TxTypeOK, NoDesc
<1>4. TxInOrder /\ WritebackRead
  BY <1>1, <1>2 DEF TxInit, TxInOrder, WritebackRead
<1>5. DescsKept
  BY <1>1, <1>2 DEF TxInit, DescsKept, Kept
<1> QED
  BY <1>3, <1>4, <1>5 DEF IInv

LEMMA PollStep == ASSUME IInv, Poll PROVE IInv'
<1>1. TxTypeOK'
  BY DEF IInv, TxTypeOK, Poll, ringVars
<1>2. TxInOrder' /\ DescsKept'
  BY DEF IInv, TxInOrder, DescsKept, Poll, ringVars
<1>3. WritebackRead'
  <2>1. wb' = tx_writeback /\ tx_writeback' = tx_writeback /\ tdh' = tdh
    BY DEF Poll, ringVars
  <2>2. Distance(tdh, tx_writeback) \in Int
    BY Types, Length DEF IInv, TxIndex
  <2> QED
    BY <2>1, <2>2 DEF WritebackRead
<1> QED
  BY <1>1, <1>2, <1>3 DEF IInv

LEMMA CleanStep == ASSUME IInv, Clean PROVE IInv'
<1>0. TxTypeOK /\ TxInOrder /\ WritebackRead /\ DescsKept
  BY DEF IInv
<1>1. CASE tdh = wb
  <2>1. /\ tx_pc' = "idle" /\ wb' = 0
        /\ UNCHANGED <<tx_buffers, tdh, tdt, inflight, tx_desc, tx_writeback, TDT0, nic_tdh>>
    BY <1>1 DEF Clean, ringVars
  <2>2. TxTypeOK'
    BY <1>0, <2>1, Length DEF TxTypeOK, TxIndex
  <2>3. TxInOrder' /\ DescsKept'
    BY <1>0, <2>1 DEF TxInOrder, DescsKept
  <2> QED
    BY <2>1, <2>2, <2>3 DEF IInv, WritebackRead
<1>2. CASE tdh # wb
  <2>1. /\ tdh' = Nth(tdh, 1) /\ tdh' \in TxIndex
        /\ Distance(tdh, nic_tdh) > 0 /\ Distance(tdh, tdt) > 0
        /\ Distance(tdh', tdt) = Distance(tdh, tdt) - 1
        /\ Distance(tdh', nic_tdh) = Distance(tdh, nic_tdh) - 1
        /\ Distance(tdh', tx_writeback) = Distance(tdh, tx_writeback) - 1
        /\ Distance(tdh', wb) = Distance(tdh, wb) - 1
        /\ tx_buffers' \in Buffers
        /\ \A m \in 1 .. TX_LEN - 1 : tx_buffers'[Nth(tdh, m)] = tx_buffers[Nth(tdh, m)]
    BY <1>0, <1>2, CleanEffect
  <2>2. /\ inflight' = inflight - 1
        /\ UNCHANGED <<tdt, tx_pc, wb, tx_desc, tx_writeback, TDT0, nic_tdh>>
    BY <1>2 DEF Clean
  <2>3. /\ Distance(tdh, tdt) \in Nat /\ Distance(tdh, tdt) < TX_LEN
        /\ Distance(tdh, nic_tdh) \in Nat /\ Distance(tdh, tx_writeback) \in Nat
        /\ Distance(tdh, wb) \in Nat
    BY <1>0, Types, Length DEF TxIndex
  <2>4. TxTypeOK'
    <3>1. inflight' \in TxIndex
      BY <1>0, <2>1, <2>2, <2>3, Length DEF TxInOrder, TxIndex
    <3>2. tx_buffers' \in [TxIndex -> [need_completion : BOOLEAN, info : Packets \cup {Nobody}]]
      BY <2>1 DEF Buffers
    <3> QED
      BY <1>0, <2>1, <2>2, <3>1, <3>2 DEF TxTypeOK
  <2>5. TxInOrder'
    BY <1>0, <2>1, <2>2, <2>3 DEF TxInOrder
  <2>6. WritebackRead'
    BY <1>0, <2>1, <2>2, <2>3 DEF WritebackRead
  <2>7. DescsKept'
    <3> DEFINE N == Distance(tdh, nic_tdh)
               T == Distance(tdh, tdt)
    <3>0. N \in Nat /\ N > 0 /\ T \in Nat /\ T < TX_LEN
      BY <2>1, <2>3
    <3>1. Kept(tx_buffers', tx_desc, Nth(tdh, 1), N - 1, T - 1)
      <4>1. SUFFICES ASSUME NEW m \in N - 1 .. T - 1 - 1,
                            tx_desc[Nth(Nth(tdh, 1), m)].kind # "context"
                     PROVE  \E s \in m .. T - 1 - 1 :
                                /\ tx_buffers'[Nth(Nth(tdh, 1), s)].need_completion
                                /\ tx_buffers'[Nth(Nth(tdh, 1), s)].info
                                       = tx_desc[Nth(Nth(tdh, 1), m)].of
        BY DEF Kept
      <4>2. ASSUME NEW k \in Nat, k + 1 <= T - 1
            PROVE  Nth(Nth(tdh, 1), k) = Nth(tdh, k + 1)
        <5>1. 1 + k <= TX_LEN /\ 1 + k = k + 1
          BY <2>3, <4>2, Length
        <5> QED
          BY <1>0, <5>1, NthNth, Types
      <4>3. m \in Nat /\ m + 1 <= T - 1 /\ m + 1 \in N .. T - 1
        BY <2>1, <2>3
      <4>4. PICK s \in m + 1 .. T - 1 :
                /\ tx_buffers[Nth(tdh, s)].need_completion
                /\ tx_buffers[Nth(tdh, s)].info = tx_desc[Nth(tdh, m + 1)].of
        <5>1. Kept(tx_buffers, tx_desc, tdh, N, T)
          BY <1>0 DEF DescsKept
        <5>2. tx_desc[Nth(tdh, m + 1)].kind # "context"
          BY <4>1, <4>2, <4>3
        <5> HIDE DEF N, T
        <5> QED
          BY <4>3, <5>1, <5>2 DEF Kept
      <4>5. /\ s - 1 \in m .. T - 1 - 1 /\ s - 1 \in Nat /\ s - 1 + 1 = s /\ s <= T - 1
            /\ s \in 1 .. TX_LEN - 1
        <5> HIDE DEF N, T
        <5> QED
          BY <3>0, <4>3, Length
      <4>6. Nth(Nth(tdh, 1), s - 1) = Nth(tdh, s) /\ Nth(Nth(tdh, 1), m) = Nth(tdh, m + 1)
        BY <4>2, <4>3, <4>5
      <4>7. tx_buffers'[Nth(tdh, s)] = tx_buffers[Nth(tdh, s)]
        BY <2>1, <4>5
      <4> HIDE DEF T
      <4> QED
        BY <4>4, <4>5, <4>6, <4>7
    <3> QED
      BY <2>1, <2>2, <3>1 DEF DescsKept
  <2> QED
    BY <2>4, <2>5, <2>6, <2>7 DEF IInv
<1> QED
  BY <1>1, <1>2

LEMMA NicStep == ASSUME IInv, NicTransmit PROVE IInv'
<1>0. TxTypeOK /\ TxInOrder /\ WritebackRead /\ DescsKept
  BY DEF IInv
<1>1. /\ nic_tdh' \in TxIndex /\ Distance(tdh, nic_tdh) < Distance(tdh, tdt)
      /\ Distance(tdh, nic_tdh') = Distance(tdh, nic_tdh) + 1
      /\ Distance(tdh, tx_writeback) <= Distance(tdh, tx_writeback')
      /\ Distance(tdh, tx_writeback') <= Distance(tdh, nic_tdh')
      /\ tx_writeback' \in TxIndex
  BY <1>0, NicEffect
<1>2. /\ tx_desc' = [tx_desc EXCEPT ![nic_tdh] = NoDesc]
      /\ UNCHANGED <<tx_buffers, tdh, tdt, inflight, TDT0, tx_pc, wb>>
  BY DEF NicTransmit, ringVars
<1>3. /\ Distance(tdh, tdt) \in Nat /\ Distance(tdh, tdt) < TX_LEN
      /\ Distance(tdh, nic_tdh) \in Nat /\ Distance(tdh, tx_writeback) \in Nat
      /\ Distance(tdh, wb) \in Nat /\ Distance(tdh, tx_writeback') \in Nat
  BY <1>0, <1>1, Types, DistanceNat
<1>4. TxTypeOK'
  BY <1>0, <1>1, <1>2 DEF TxTypeOK, NoDesc
<1>5. TxInOrder'
  BY <1>0, <1>1, <1>2, <1>3 DEF TxInOrder
<1>6. WritebackRead'
  BY <1>0, <1>1, <1>2, <1>3 DEF WritebackRead
<1>7. DescsKept'
  <2> DEFINE N == Distance(tdh, nic_tdh)
             T == Distance(tdh, tdt)
  <2>1. ASSUME NEW m \in N + 1 .. T - 1 PROVE tx_desc'[Nth(tdh, m)] = tx_desc[Nth(tdh, m)]
    <3>1. PICK h \in TxIndex, n \in TxIndex : h = tdh /\ n = nic_tdh
      BY <1>0, Types
    <3>2. m \in TxIndex /\ N \in TxIndex /\ m # N /\ m \in 0 .. TX_LEN
      BY <1>3, Length DEF TxIndex
    <3>3. Nth(h, m) # n /\ Nth(h, m) \in TxIndex
      <4>1. n = Nth(h, N)
        BY <3>1, ThereAndBack
      <4> HIDE DEF N
      <4> QED
        BY <3>2, <4>1, SlotsDiffer, NthIs
    <3> QED
      BY <1>0, <1>2, <3>1, <3>3, Types
  <2>2. Kept(tx_buffers, tx_desc, tdh, N, T)
    BY <1>0 DEF DescsKept
  <2>3. N + 1 .. T - 1 \subseteq N .. T - 1
    BY <1>3
  <2>4. Kept(tx_buffers, tx_desc', tdh, N + 1, T)
    <3> HIDE DEF N, T
    <3> QED
      BY <2>1, <2>2, <2>3 DEF Kept
  <2> QED
    BY <1>1, <1>2, <2>4 DEF DescsKept
<1> QED
  BY <1>4, <1>5, <1>6, <1>7 DEF IInv

LEMMA ReceiveStep == ASSUME IInv, NEW p \in Packets, Receive(p) PROVE IInv'
<1> DEFINE N == Distance(tdh, nic_tdh)
           T == Distance(tdh, tdt)
<1>0. TxTypeOK /\ TxInOrder /\ WritebackRead /\ DescsKept
  BY DEF IInv
<1>1. UNCHANGED <<tdh, tx_writeback, tx_pc, wb, nic_tdh>> /\ TDT0' = tdt' /\ tx_pc = "idle"
  BY DEF Receive
<1>2. /\ \A m \in 0 .. T - 1 : /\ tx_buffers'[Nth(tdh, m)] = tx_buffers[Nth(tdh, m)]
                               /\ tx_desc'[Nth(tdh, m)] = tx_desc[Nth(tdh, m)]
      /\ tx_buffers' \in Buffers
      /\ tx_desc' \in [TxIndex -> [of : Packets \cup {Nobody}, kind : {"context", "data", "last"}]]
  BY <1>0, ReceiveEffect
<1>3. PICK taken \in Nat :
          /\ T + taken < TX_LEN /\ tdt' = Nth(tdt, taken) /\ inflight' = inflight + taken
          /\ (taken > 0 /\ Published(p, taken)) \/ Abandoned(taken)
  BY <1>0, ReceiveEffect
<1>4. tdt' \in TxIndex /\ Distance(tdh, tdt') = T + taken
  <2>1. PICK h \in TxIndex, t \in TxIndex : h = tdh /\ t = tdt
    BY <1>0, Types
  <2>2. Distance(h, t) + taken < TX_LEN
    BY <1>3, <2>1
  <2>3. Nth(t, taken) \in TxIndex /\ Distance(h, Nth(t, taken)) = Distance(h, t) + taken
    BY <2>2, TailMoves
  <2> QED
    BY <1>3, <2>1, <2>3
<1>5. /\ T \in Nat /\ T < TX_LEN /\ N \in Nat /\ Distance(tdh, tx_writeback) \in Nat /\ N <= T
      /\ inflight = T /\ Distance(tdh, tx_writeback) <= N
  BY <1>0, Types, Length DEF TxIndex, TxInOrder
<1>6. TxTypeOK'
  <2>1. inflight' \in TxIndex
    BY <1>3, <1>5, Length DEF TxIndex
  <2>2. tx_buffers' \in [TxIndex -> [need_completion : BOOLEAN, info : Packets \cup {Nobody}]]
    BY <1>2 DEF Buffers
  <2> QED
    BY <1>0, <1>1, <1>2, <1>4, <2>1, <2>2 DEF TxTypeOK
<1>7. TxInOrder'
  BY <1>1, <1>3, <1>4, <1>5 DEF TxInOrder
<1>8. WritebackRead'
  BY <1>1 DEF WritebackRead
<1>9. DescsKept'
  <2>1. Kept(tx_buffers, tx_desc, tdh, N, T)
    BY <1>0 DEF DescsKept
  <2>2. Kept(tx_buffers', tx_desc', tdh, N, T + taken)
    <3> HIDE DEF N, T
    <3>1. SUFFICES ASSUME NEW m \in N .. (T + taken) - 1, tx_desc'[Nth(tdh, m)].kind # "context"
                   PROVE  \E s \in m .. (T + taken) - 1 :
                              /\ tx_buffers'[Nth(tdh, s)].need_completion
                              /\ tx_buffers'[Nth(tdh, s)].info = tx_desc'[Nth(tdh, m)].of
      BY DEF Kept
    <3>2. CASE m < T
      <4>1. m \in N .. T - 1 /\ m \in 0 .. T - 1
        BY <1>5, <3>2
      <4>2. PICK s \in m .. T - 1 : /\ tx_buffers[Nth(tdh, s)].need_completion
                                    /\ tx_buffers[Nth(tdh, s)].info = tx_desc[Nth(tdh, m)].of
        BY <1>2, <2>1, <3>1, <4>1 DEF Kept
      <4>3. s \in 0 .. T - 1 /\ s \in m .. (T + taken) - 1
        BY <1>3, <1>5, <4>1
      <4> QED
        BY <1>2, <4>1, <4>2, <4>3
    <3>3. CASE ~ (m < T)
      <4>1. m \in T .. (T + taken) - 1 /\ m \in T .. T + taken - 1
        BY <1>5, <3>3
      <4>2. taken > 0 /\ Published(p, taken)
        BY <1>3, <3>1, <4>1 DEF Abandoned, T
      <4>3. T + taken - 1 \in m .. (T + taken) - 1
        BY <1>5, <4>1
      <4>4. /\ tx_buffers'[Nth(tdh, T + taken - 1)] = [need_completion |-> TRUE, info |-> p]
            /\ tx_desc'[Nth(tdh, m)].of = p
        BY <4>1, <4>2 DEF Published, T
      <4> QED
        BY <4>3, <4>4
    <3> QED
      BY <3>2, <3>3
  <2> QED
    BY <1>1, <1>4, <2>2 DEF DescsKept
<1> QED
  BY <1>6, <1>7, <1>8, <1>9 DEF IInv

LEMMA StepInv == IInv /\ [TxNext]_txVars => IInv'
<1>1. SUFFICES ASSUME IInv, [TxNext]_txVars PROVE IInv'
  OBVIOUS
<1>2. CASE UNCHANGED txVars
  BY <1>1, <1>2 DEF IInv, TxTypeOK, TxInOrder, WritebackRead, DescsKept, txVars, ringVars
<1> QED
  BY <1>1, <1>2, PollStep, CleanStep, NicStep, ReceiveStep DEF TxNext

-----------------------------------------------------------------------------
(* What follows from it *)

\* In every state: the indices are in order around the ring, poll has read no more
\* than was written, and no descriptor the NIC still has to read is of a packet
\* whose completion was given up.
THEOREM Invariance == TxSpec => []IInv
  BY InitInv, StepInv, PTL DEF TxSpec

\* The rings and registers stay within their types.
THEOREM TypeCorrect == TxSpec => []TxTypeOK
<1>1. IInv => TxTypeOK
  BY DEF IInv
<1> QED
  BY <1>1, Invariance, PTL

\* Intel82599Port: head, write-back, NIC and tail never pass each other.
THEOREM InOrder == TxSpec => []TxInOrder
<1>1. IInv => TxInOrder
  BY DEF IInv
<1> QED
  BY <1>1, Invariance, PTL

\* What the NIC may read belongs to packets that were not given back.
THEOREM ReadsLent == TxSpec => []ReadsLentOnly
<1>1. ASSUME IInv PROVE ReadsLentOnly
  <2> DEFINE N == Distance(tdh, nic_tdh)
             T == Distance(tdh, tdt)
  <2>0. TxTypeOK /\ TxInOrder /\ DescsKept
    BY <1>1 DEF IInv
  <2>1. PICK h \in TxIndex, i \in TxIndex, t \in TxIndex : h = tdh /\ i = nic_tdh /\ t = tdt
    BY <2>0, Types
  <2>2. N <= T /\ N \in Nat /\ T \in Nat /\ T < TX_LEN /\ TDT0 = t /\ N \in TxIndex /\ T \in TxIndex
    BY <2>0, <2>1, Types, Length DEF TxIndex, TxInOrder
  <2>3. Nth(h, N) = i /\ Nth(h, T) = t
    BY <2>1, ThereAndBack
  <2>4. Distance(i, t) = T - N
    <3>1. Distance(i, Nth(h, T)) = IF T >= Distance(h, i) THEN T - Distance(h, i)
                                   ELSE T + TX_LEN - Distance(h, i)
      BY <2>2, FromTail
    <3> QED
      BY <2>1, <2>2, <2>3, <3>1
  <2>5. SUFFICES ASSUME NEW n \in 0 .. T - N - 1,
                        tx_desc[Nth(i, n)].kind # "context"
                 PROVE  \E k \in DOMAIN Lent : Lent[k] = tx_desc[Nth(i, n)].of
    BY <2>1, <2>2, <2>4 DEF ReadsLentOnly
  <2>6. Nth(i, n) = Nth(h, N + n)
    <3>1. n \in Nat /\ N + n <= TX_LEN
      BY <2>2, Length
    <3> HIDE DEF N
    <3> QED
      BY <2>2, <2>3, <3>1, NthNth
  <2>7. N + n \in N .. T - 1
    BY <2>2
  <2>8. PICK s \in N + n .. T - 1 : /\ tx_buffers[Nth(h, s)].need_completion
                                    /\ tx_buffers[Nth(h, s)].info = tx_desc[Nth(h, N + n)].of
    <3>1. Kept(tx_buffers, tx_desc, h, N, T)
      BY <2>0, <2>1 DEF DescsKept
    <3> HIDE DEF N, T
    <3> QED
      BY <2>5, <2>6, <2>7, <3>1 DEF Kept
  <2>9. s \in Wanted(tx_buffers, h, T)
    BY <2>2, <2>8 DEF Wanted
  <2>10. Lent = Held(tx_buffers, h, T)
    BY <2>1, LentIs
  <2>11. \E k \in DOMAIN Held(tx_buffers, h, T) :
             Held(tx_buffers, h, T)[k] = tx_buffers[Nth(h, s)].info
    <3> HIDE DEF T
    <3> QED
      BY <2>0, <2>2, <2>9, HeldIs, Types
  <2> QED
    BY <2>6, <2>8, <2>10, <2>11
<1> QED
  BY <1>1, Invariance, PTL

-----------------------------------------------------------------------------
(* The ring implements Uplink *)

Gone == Cardinality(Pending(Distance(tdh, nic_tdh)))

\* The port's two counts, in terms of slots.
LEMMA CountsAre ==
    /\ Lent = Held(tx_buffers, tdh, Distance(tdh, tdt))
    /\ Gone = Cardinality(Wanted(tx_buffers, tdh, Distance(tdh, nic_tdh)))
    /\ Lent' = Held(tx_buffers', tdh', Distance(tdh', tdt'))
    /\ Gone' = Cardinality(Wanted(tx_buffers', tdh', Distance(tdh', nic_tdh')))
<1>1. /\ Lent = Held(tx_buffers, tdh, Distance(tdh, tdt))
      /\ Gone = Cardinality(Wanted(tx_buffers, tdh, Distance(tdh, nic_tdh)))
  BY LentIs DEF Gone
<1>2. /\ Lent' = Held(tx_buffers', tdh', Distance(tdh', tdt'))
      /\ Gone' = Cardinality(Wanted(tx_buffers', tdh', Distance(tdh', nic_tdh')))
  BY DEF Gone, Pending, Wanted, Lent, Held, Item, Rank, Below
<1> QED
  BY <1>1, <1>2

\* The NIC passes one more slot.
LEMMA WantedNext ==
    ASSUME NEW b \in Buffers, NEW h \in TxIndex, NEW n \in Nat, NEW t \in TxIndex, n < t
    PROVE  IF b[Nth(h, n)].need_completion
             THEN /\ Cardinality(Wanted(b, h, n + 1)) = Cardinality(Wanted(b, h, n)) + 1
                  /\ Cardinality(Wanted(b, h, n)) < Cardinality(Wanted(b, h, t))
             ELSE Wanted(b, h, n + 1) = Wanted(b, h, n)
<1>1. \A k \in 0 .. (n + 1) - 1 : k \in 0 .. n - 1 \/ k = n
  OBVIOUS
<1>2. 0 .. n - 1 \subseteq 0 .. (n + 1) - 1 /\ n \in 0 .. (n + 1) - 1 /\ n \notin 0 .. n - 1
  OBVIOUS
<1>3. CASE ~ b[Nth(h, n)].need_completion
  <2>1. Wanted(b, h, n + 1) = Wanted(b, h, n)
    BY <1>1, <1>2, <1>3 DEF Wanted
  <2> QED
    BY <1>3, <2>1
<1>4. CASE b[Nth(h, n)].need_completion
  <2>1. Wanted(b, h, n + 1) = Wanted(b, h, n) \cup {n} /\ n \notin Wanted(b, h, n)
    BY <1>1, <1>2, <1>4 DEF Wanted
  <2>2. IsFiniteSet(Wanted(b, h, n)) /\ Cardinality(Wanted(b, h, n)) \in Nat
    BY WantedFinite
  <2>3. Cardinality(Wanted(b, h, n + 1)) = Cardinality(Wanted(b, h, n)) + 1
    BY <2>1, <2>2, FS_AddElement
  <2>4. Wanted(b, h, n + 1) \subseteq Wanted(b, h, t)
    <3>1. 0 .. (n + 1) - 1 \subseteq 0 .. t - 1
      BY Length DEF TxIndex
    <3> QED
      BY <3>1 DEF Wanted
  <2>5. t \in Nat
    BY Length DEF TxIndex
  <2>6. IsFiniteSet(Wanted(b, h, t)) /\ Cardinality(Wanted(b, h, t)) \in Nat
    BY <2>5, WantedFinite
  <2>7. Cardinality(Wanted(b, h, n + 1)) <= Cardinality(Wanted(b, h, t))
    BY <2>4, <2>6, FS_Subset
  <2> QED
    BY <1>4, <2>2, <2>3, <2>6, <2>7
<1> QED
  BY <1>3, <1>4

LEMMA WireInit == TxInit("idle") => Lent = << >> /\ Gone = 0
<1>1. SUFFICES ASSUME TxInit("idle") PROVE Lent = << >> /\ Gone = 0
  OBVIOUS
<1>2. 0 \in TxIndex /\ Distance(0, 0) = 0 /\ tdh = 0 /\ tdt = 0 /\ nic_tdh = 0
  BY <1>1, DistanceIs, Length DEF TxInit, TxIndex
<1>3. Wanted(tx_buffers, 0, 0) = {}
  BY DEF Wanted
<1>4. Cardinality({}) = 0
  BY FS_EmptySet
<1>5. Held(tx_buffers, 0, 0) = << >>
  BY <1>3, <1>4 DEF Held
<1> QED
  BY <1>2, <1>3, <1>4, <1>5, CountsAre

LEMMA WireClean == ASSUME IInv, Clean PROVE Wire!Return \/ UNCHANGED <<Lent, Gone>>
<1>0. TxTypeOK /\ TxInOrder /\ WritebackRead
  BY DEF IInv
<1>1. CASE tdh = wb
  BY <1>1, CountsAre DEF Clean, ringVars
<1>2. CASE tdh # wb
  <2> DEFINE N == Distance(tdh, nic_tdh)
             T == Distance(tdh, tdt)
             o == IF tx_buffers[tdh].need_completion THEN 1 ELSE 0
  <2>1. /\ tdh' = Nth(tdh, 1) /\ N > 0 /\ T > 0
        /\ Distance(tdh', tdt) = T - 1 /\ Distance(tdh', nic_tdh) = N - 1
        /\ tx_buffers' \in Buffers
        /\ \A m \in 1 .. TX_LEN - 1 : tx_buffers'[Nth(tdh, m)] = tx_buffers[Nth(tdh, m)]
    BY <1>0, <1>2, CleanEffect
  <2>2. UNCHANGED <<tdt, nic_tdh>>
    BY <1>2 DEF Clean
  <2>3. T \in Nat /\ T < TX_LEN /\ T \in TxIndex /\ N \in Nat /\ N <= T
    BY <1>0, Types, Length DEF TxIndex, TxInOrder
  <2>4. PICK h \in TxIndex, b \in Buffers, c \in Buffers :
            h = tdh /\ b = tx_buffers /\ c = tx_buffers'
    BY <1>0, <2>1, Types
  <2>5. /\ Lent = Held(b, h, T) /\ Lent' = Held(c, Nth(h, 1), T - 1)
        /\ Gone = Cardinality(Wanted(b, h, N)) /\ Gone' = Cardinality(Wanted(c, Nth(h, 1), N - 1))
    BY <2>1, <2>2, <2>4, CountsAre
  <2>6. \A m \in 1 .. T - 1 : c[Nth(h, m)] = b[Nth(h, m)]
    <3>1. 1 .. T - 1 \subseteq 1 .. TX_LEN - 1
      BY <2>3, Length
    <3> QED
      BY <2>1, <2>4, <3>1
  <2>7. o = IF b[h].need_completion THEN 1 ELSE 0
    BY <2>4
  <2> HIDE DEF N, T, o
  <2>8. /\ Held(c, Nth(h, 1), T - 1) = IF b[h].need_completion THEN Tail(Held(b, h, T))
                                                             ELSE Held(b, h, T)
        /\ \A n \in 1 .. T : Cardinality(Wanted(c, Nth(h, 1), n - 1)) =
               Cardinality(Wanted(b, h, n)) - (IF b[h].need_completion THEN 1 ELSE 0)
    BY <2>1, <2>3, <2>6, HeldTail
  <2>9. N \in 1 .. T /\ Gone \in Nat
    BY <2>1, <2>3, <2>5, WantedFinite
  <2>10. Gone' = Gone - o
    BY <2>5, <2>7, <2>8, <2>9
  <2>11. CASE b[h].need_completion
    <3>1. 0 \in Wanted(b, h, N)
      <4>1. 0 \in 0 .. N - 1 /\ 0 \in 0 .. TX_LEN /\ h \in Nat /\ h < TX_LEN
        BY <2>9, Length DEF TxIndex
      <4>2. Nth(h, 0) = h
        BY <4>1, NthIs, Length
      <4> QED
        BY <2>11, <4>1, <4>2 DEF Wanted
    <3>2. Gone > 0
      BY <2>3, <2>5, <2>9, <3>1, WantedFinite, FS_EmptySet
    <3>3. Lent' = Tail(Lent) /\ Gone' = Gone - 1
      BY <2>5, <2>7, <2>8, <2>10, <2>11
    <3> QED
      BY <3>2, <3>3 DEF Wire!Return, Gone
  <2>12. CASE ~ b[h].need_completion
    <3>1. o = 0
      BY <2>7, <2>12
    <3> QED
      BY <2>5, <2>8, <2>9, <2>10, <2>12, <3>1
  <2> QED
    BY <2>11, <2>12
<1> QED
  BY <1>1, <1>2

LEMMA WireTransmit == ASSUME IInv, NicTransmit PROVE Wire!Transmit \/ UNCHANGED <<Lent, Gone>>
<1> DEFINE N == Distance(tdh, nic_tdh)
           T == Distance(tdh, tdt)
<1>0. TxTypeOK /\ TxInOrder
  BY DEF IInv
<1>1. N < T /\ Distance(tdh, nic_tdh') = N + 1
  BY <1>0, NicEffect
<1>2. UNCHANGED <<tx_buffers, tdh, tdt>>
  BY DEF NicTransmit, ringVars
<1>3. T \in TxIndex /\ N \in Nat
  BY <1>0, Types, DistanceNat
<1>4. PICK h \in TxIndex, b \in Buffers : h = tdh /\ b = tx_buffers
  BY <1>0, Types
<1>5. /\ Lent = Held(b, h, T) /\ Lent' = Lent
      /\ Gone = Cardinality(Wanted(b, h, N)) /\ Gone' = Cardinality(Wanted(b, h, N + 1))
  BY <1>1, <1>2, <1>4, CountsAre
<1> HIDE DEF N, T
<1>6. IF b[Nth(h, N)].need_completion
        THEN /\ Cardinality(Wanted(b, h, N + 1)) = Cardinality(Wanted(b, h, N)) + 1
             /\ Cardinality(Wanted(b, h, N)) < Cardinality(Wanted(b, h, T))
        ELSE Wanted(b, h, N + 1) = Wanted(b, h, N)
  BY <1>1, <1>3, WantedNext
<1>7. Len(Lent) = Cardinality(Wanted(b, h, T))
  BY <1>3, <1>5, HeldIs
<1> QED
  BY <1>5, <1>6, <1>7 DEF Wire!Transmit, Gone

LEMMA WireLend ==
    ASSUME IInv, NEW p \in Packets, Receive(p)
    PROVE  Wire!Lend(p) \/ UNCHANGED <<Lent, Gone>>
<1> DEFINE N == Distance(tdh, nic_tdh)
           T == Distance(tdh, tdt)
<1>0. TxTypeOK /\ TxInOrder
  BY DEF IInv
<1>1. tdh' = tdh /\ nic_tdh' = nic_tdh /\ \A k \in DOMAIN Lent : Lent[k] # p
  BY DEF Receive
<1>2. PICK taken \in Nat :
          /\ T + taken < TX_LEN /\ tdt' = Nth(tdt, taken)
          /\ (taken > 0 /\ Published(p, taken)) \/ Abandoned(taken)
  BY <1>0, ReceiveEffect
<1>3. PICK h \in TxIndex, t \in TxIndex, b \in Buffers, c \in Buffers :
          h = tdh /\ t = tdt /\ b = tx_buffers /\ c = tx_buffers'
  BY <1>0, ReceiveEffect, Types
<1>4. \A m \in 0 .. T - 1 : c[Nth(h, m)] = b[Nth(h, m)]
  BY <1>0, <1>3, ReceiveEffect
<1>5. /\ T \in Nat /\ T \in TxIndex /\ N \in Nat /\ N \in TxIndex /\ N <= T
      /\ T = Distance(h, t)
  BY <1>0, <1>3, Types, DistanceNat DEF TxInOrder
<1>6. Distance(tdh', tdt') = T + taken
  BY <1>1, <1>2, <1>3, <1>5, TailMoves
<1>7. /\ Lent = Held(b, h, T) /\ Lent' = Held(c, h, T + taken)
      /\ Gone = Cardinality(Wanted(b, h, N)) /\ Gone' = Cardinality(Wanted(c, h, N))
  BY <1>1, <1>3, <1>6, CountsAre
<1>8. (taken > 0 /\ Published(p, taken)) =>
          /\ \A m \in T .. T + taken - 2 : ~ c[Nth(h, m)].need_completion
          /\ c[Nth(h, T + taken - 1)] = [need_completion |-> TRUE, info |-> p]
  BY <1>3 DEF Published
<1>9. Abandoned(taken) => \A m \in T .. T + taken - 1 : ~ c[Nth(h, m)].need_completion
  BY <1>3 DEF Abandoned
<1> HIDE DEF N, T
<1>10. Gone' = Gone
  <2>1. (\A m \in 0 .. N - 1 : c[Nth(h, m)] = b[Nth(h, m)]) /\ N <= N
    BY <1>4, <1>5
  <2>2. \A m \in N .. N - 1 : ~ c[Nth(h, m)].need_completion
    BY <1>5
  <2>3. Wanted(c, h, N) = Wanted(b, h, N)
    BY <1>5, <2>1, <2>2, HeldSame
  <2> QED
    BY <1>7, <2>3
<1>11. CASE taken > 0 /\ Published(p, taken)
  <2>1. PICK x \in TxIndex : /\ x = T + taken - 1 /\ T <= x /\ x + 1 = T + taken
                             /\ x + 1 < TX_LEN /\ x - 1 = T + taken - 2
    BY <1>2, <1>5, <1>11, Length DEF TxIndex
  <2>2. \A m \in T .. x - 1 : ~ c[Nth(h, m)].need_completion
    BY <1>8, <1>11, <2>1
  <2>3. c[Nth(h, x)].need_completion /\ c[Nth(h, x)].info = p
    BY <1>8, <1>11, <2>1
  <2>4. Held(c, h, x + 1) = Append(Held(b, h, T), p)
    <3>1. \A r \in TxIndex : r = T => Held(c, h, x + 1) = Append(Held(b, h, r), p)
      <4>1. SUFFICES ASSUME NEW r \in TxIndex, r = T
                     PROVE  Held(c, h, x + 1) = Append(Held(b, h, r), p)
        OBVIOUS
      <4>2. r <= x /\ x + 1 < TX_LEN
        BY <2>1, <4>1
      <4>3. \A m \in 0 .. r - 1 : c[Nth(h, m)] = b[Nth(h, m)]
        BY <1>4, <4>1
      <4>4. \A m \in r .. x - 1 : ~ c[Nth(h, m)].need_completion
        BY <2>2, <4>1
      <4>5. Extends(b, c, h, r, x, p)
        BY <2>3, <4>3, <4>4 DEF Extends
      <4> QED
        BY <4>2, <4>5, HeldAppend
    <3> QED
      BY <1>5, <3>1
  <2>5. Lent' = Append(Lent, p)
    BY <1>7, <2>1, <2>4
  <2> QED
    BY <1>1, <1>10, <2>5 DEF Wire!Lend, Gone
<1>12. CASE Abandoned(taken)
  <2>1. PICK n \in TxIndex : n = T + taken /\ T <= n /\ n - 1 = T + taken - 1
    BY <1>2, <1>5, Length DEF TxIndex
  <2>2. \A m \in T .. n - 1 : ~ c[Nth(h, m)].need_completion
    BY <1>9, <1>12, <2>1
  <2>3. Held(c, h, n) = Held(b, h, T)
    <3>1. \A r \in TxIndex : r = T => Held(c, h, n) = Held(b, h, r)
      <4>1. SUFFICES ASSUME NEW r \in TxIndex, r = T PROVE Held(c, h, n) = Held(b, h, r)
        OBVIOUS
      <4>2. r <= n
        BY <2>1, <4>1
      <4>3. \A m \in 0 .. r - 1 : c[Nth(h, m)] = b[Nth(h, m)]
        BY <1>4, <4>1
      <4>4. \A m \in r .. n - 1 : ~ c[Nth(h, m)].need_completion
        BY <2>2, <4>1
      <4> QED
        BY <4>2, <4>3, <4>4, HeldSame
    <3> QED
      BY <1>5, <3>1
  <2> QED
    BY <1>7, <1>10, <2>1, <2>3
<1> QED
  BY <1>2, <1>11, <1>12

\* The safety half of ImplementsUplink: Intel82599Port lends, sends and gives back
\* packets as Uplink allows it, each once, in order and not before it was sent.
THEOREM UplinkSteps == TxSpec => Wire!Init /\ [][Wire!Next]_(Wire!vars)
<1>1. TxInit("idle") => Wire!Init
  BY WireInit DEF Wire!Init, Gone
<1>2. IInv /\ [TxNext]_txVars => [Wire!Next]_(Wire!vars)
  <2>1. SUFFICES ASSUME IInv, [TxNext]_txVars
                 PROVE  Wire!Next \/ UNCHANGED <<Lent, Gone>>
    BY DEF Wire!vars, Gone
  <2>2. CASE UNCHANGED txVars \/ Poll
    <3>1. UNCHANGED <<tx_buffers, tdh, tdt, nic_tdh>>
      BY <2>2 DEF Poll, txVars, ringVars
    <3> QED
      BY <3>1, CountsAre
  <2>3. CASE Clean
    BY <2>1, <2>3, WireClean DEF Wire!Next
  <2>4. CASE NicTransmit
    BY <2>1, <2>4, WireTransmit DEF Wire!Next
  <2>5. ASSUME NEW p \in Packets, Receive(p) PROVE Wire!Next \/ UNCHANGED <<Lent, Gone>>
    BY <2>1, <2>5, WireLend DEF Wire!Next
  <2> QED
    BY <2>1, <2>2, <2>3, <2>4, <2>5 DEF TxNext
<1> QED
  BY <1>1, <1>2, Invariance, PTL DEF TxSpec

=============================================================================
