------------------------------ MODULE PartsProofs ------------------------------
(***************************************************************************)
(* Proofs about four of the small modules that MCParts checks.             *)
(*                                                                         *)
(* GuestMemory, for every address space and any number of regions: regions *)
(* stay apart, buffers are translated exactly if they are within a region, *)
(* and what is announced is mapped for the NIC once, whenever the upstream *)
(* port comes.                                                             *)
(*                                                                         *)
(* VirtioConfig, whatever the guest writes into the registers and however  *)
(* the loop and the listener interleave: a device is attached as it is     *)
(* configured, and but for the two windows of the code the loop uses       *)
(* nothing of a port that is not there and throws out no guest that did    *)
(* nothing wrong.                                                          *)
(*                                                                         *)
(* MacTable, for every hash function: a packet goes to where its           *)
(* destination was learned at last.                                        *)
(*                                                                         *)
(* Checksum, for bytes and longs of any width and any unrolling of the     *)
(* loop: nothing leaves its width, and the sum is right but for the two    *)
(* carries sse_final loses.                                                *)
(***************************************************************************)
EXTENDS GuestMemory, VirtioConfig, MacTable, Checksum, FiniteSetTheorems,
        SequenceTheorems, WellFoundedInduction, TLAPS

-----------------------------------------------------------------------------
(* GuestMemory: the inductive invariant *)

End(r) == r.addr + r.size

\* Regions are not empty, end within the address space, and are in order.
ListInv ==
    /\ \A i \in DOMAIN list : /\ list[i].size > 0 /\ End(list[i]) < AddressSpace
                              /\ list[i].mapping < address_hint
    /\ \A i, j \in DOMAIN list : i < j => End(list[i]) <= list[j].addr

\* Each mapping is announced once, at a hint that is past.
AnnouncedInv ==
    /\ announced \subseteq 0 .. address_hint - 1
    /\ ToSet(dma_regions) \cup removed \cup raced \subseteq announced
    /\ removed \cap ToSet(dma_regions) = {}
    /\ \A i, j \in DOMAIN dma_regions : dma_regions[i] = dma_regions[j] => i = j
    /\ announce = "call" => dma_regions # << >>
    /\ announce = "call" /\ register = "iterated" => Last(dma_regions) \in raced

\* What the NIC can reach, before the upstream port is registered and after.
MappedInv ==
    /\ dma_cb = IF register = "yes" THEN "nic" ELSE "empty"
    /\ \A n \in Mappings \ announced : iommu[n] = 0
    /\ register = "no" => /\ \A n \in Mappings : iommu[n] = 0
                          /\ announced = ToSet(dma_regions) \cup removed
    /\ register # "no" => \A n \in announced \ raced :
           iommu[n] = IF n \in removed \/ (announce = "call" /\ n = Last(dma_regions))
                        THEN 0 ELSE 1

MemoryInv == MemoryTypeOK /\ ListInv /\ AnnouncedInv /\ MappedInv

-----------------------------------------------------------------------------
(* GuestMemory: sequences and numbers *)

LEMMA MemorySizes == AddressSpace \in Nat /\ AddressSpace > 0 /\ MaxMappings \in Nat
  BY MemoryAssumption

\* Plus and Wraps, without the modulo.
LEMMA WrapsIs ==
    ASSUME NEW a \in Addresses, NEW n \in Addresses
    PROVE  /\ ~ Wraps(a, n) => n > 0 /\ a + n < AddressSpace /\ Plus(a, n) = a + n
           /\ Wraps(a, n) => n = 0 \/ a + n >= AddressSpace
<1>1. a \in Nat /\ n \in Nat /\ a < AddressSpace /\ n < AddressSpace
  BY MemorySizes DEF Addresses
<1>2. CASE a + n < AddressSpace
  <2>1. Plus(a, n) = a + n
    BY <1>1, <1>2, MemorySizes DEF Plus
  <2> QED
    BY <1>1, <1>2, <2>1 DEF Wraps
<1>3. CASE ~ (a + n < AddressSpace)
  <2>1. PICK k \in Nat : k = a + n - AddressSpace /\ k < AddressSpace /\ k < a
    BY <1>1, <1>3, MemorySizes
  <2>2. a + n = k + AddressSpace
    BY <1>1, <2>1, MemorySizes
  <2>3. (k + AddressSpace) % AddressSpace = k
    BY <2>1, MemorySizes
  <2>4. Plus(a, n) = k
    BY <2>2, <2>3 DEF Plus
  <2> QED
    BY <1>1, <1>3, <2>1, <2>4, MemorySizes DEF Wraps
<1> QED
  BY <1>2, <1>3

LEMMA InsertAtIs ==
    ASSUME NEW S, NEW s \in Seq(S), NEW e \in S, NEW i \in 1 .. Len(s) + 1
    PROVE  /\ InsertAt(s, i, e) \in Seq(S) /\ Len(InsertAt(s, i, e)) = Len(s) + 1
           /\ \A k \in 1 .. Len(s) + 1 : InsertAt(s, i, e)[k] =
                  IF k < i THEN s[k] ELSE IF k = i THEN e ELSE s[k - 1]
<1> DEFINE u == SubSeq(s, 1, i - 1)
           w == SubSeq(s, i, Len(s))
<1>1. Len(s) \in Nat /\ i \in Nat
  OBVIOUS
<1>2. u \in Seq(S) /\ Len(u) = i - 1 /\ \A k \in 1 .. i - 1 : u[k] = s[k]
  BY <1>1
<1>3. w \in Seq(S) /\ Len(w) = Len(s) + 1 - i /\ \A k \in 1 .. Len(s) + 1 - i : w[k] = s[i + k - 1]
  BY <1>1
<1> HIDE DEF u, w
<1>4. <<e>> \in Seq(S) /\ Len(<<e>>) = 1 /\ <<e>>[1] = e
  OBVIOUS
<1>5. PICK v \in Seq(S) : v = u \o <<e>>
  <2>1. u \o <<e>> \in Seq(S)
    BY <1>2, <1>4, ConcatProperties
  <2> QED
    BY <2>1
<1>6. Len(v) = i /\ v[i] = e /\ \A k \in 1 .. i - 1 : v[k] = s[k]
  BY <1>1, <1>2, <1>4, <1>5
<1>7. /\ v \o w \in Seq(S) /\ Len(v \o w) = Len(s) + 1
      /\ \A k \in 1 .. i : (v \o w)[k] = v[k]
      /\ \A k \in i + 1 .. Len(s) + 1 : (v \o w)[k] = w[k - i]
  BY <1>1, <1>3, <1>6
<1>8. InsertAt(s, i, e) = v \o w
  BY <1>5 DEF InsertAt, u, w
<1>9. ASSUME NEW k \in 1 .. Len(s) + 1
      PROVE  (v \o w)[k] = IF k < i THEN s[k] ELSE IF k = i THEN e ELSE s[k - 1]
  <2>1. CASE k <= i
    <3>1. k \in 1 .. i /\ (k < i => k \in 1 .. i - 1)
      BY <1>1, <2>1
    <3> QED
      BY <1>1, <1>6, <1>7, <3>1
  <2>2. CASE ~ (k <= i)
    <3>1. k \in i + 1 .. Len(s) + 1 /\ k - i \in 1 .. Len(s) + 1 - i /\ i + (k - i) - 1 = k - 1
      BY <1>1, <2>2
    <3>2. w[k - i] = s[k - 1]
      BY <1>3, <3>1
    <3> QED
      BY <1>1, <1>7, <2>2, <3>1, <3>2
  <2> QED
    BY <2>1, <2>2
<1> QED
  BY <1>7, <1>8, <1>9

\* The least of some numbers.
LEMMA LeastIs ==
    ASSUME NEW P \in SUBSET Nat, P # {}
    PROVE  Min(P) \in P /\ \A k \in P : Min(P) <= k
<1> DEFINE R == {ss \in Nat \X Nat : ss[1] < ss[2]}
<1>1. IsWellFoundedOn(R, Nat)
  BY NatLessThanWellFounded DEF OpToRel
<1>2. \A i, j \in Nat : i < j => <<i, j>> \in R
  OBVIOUS
<1> HIDE DEF R
<1>3. PICK m \in P : \A k \in P : ~ (<<k, m>> \in R)
  BY <1>1, WFMin
<1>4. \A k \in P : k \in Nat /\ m \in Nat /\ ~ (k < m)
  BY <1>2, <1>3
<1>5. \A k \in P : m <= k
  BY <1>4
<1> QED
  BY <1>5 DEF Min

-----------------------------------------------------------------------------
(* GuestMemory: RegionList *)

LEMMA Regions ==
    ASSUME MemoryTypeOK
    PROVE  /\ list \in Seq(Region) /\ Len(list) \in Nat /\ DOMAIN list = 1 .. Len(list)
           /\ \A i \in 1 .. Len(list) :
                  /\ list[i].addr \in Nat /\ list[i].addr < AddressSpace /\ list[i].addr \in Addresses
                  /\ list[i].size \in Nat /\ list[i].size < AddressSpace /\ list[i].size \in Addresses
                  /\ list[i].mapping \in Mappings
<1>1. list \in Seq(Region)
  BY DEF MemoryTypeOK
<1>2. Len(list) \in Nat /\ DOMAIN list = 1 .. Len(list) /\ \A i \in 1 .. Len(list) : list[i] \in Region
  BY <1>1
<1> QED
  BY <1>1, <1>2, MemorySizes DEF Region, Addresses

\* A region that is inserted keeps the order, wherever it goes.
LEMMA InsertApart ==
    ASSUME MemoryTypeOK, ListInv, NEW r \in Region, Insertable(r), r.mapping = address_hint
    PROVE  /\ Insert(r) \in Seq(Region)
           /\ \A i \in DOMAIN Insert(r) :
                  /\ Insert(r)[i].size > 0 /\ End(Insert(r)[i]) < AddressSpace
                  /\ Insert(r)[i].mapping < address_hint + 1
           /\ \A i, j \in DOMAIN Insert(r) : i < j => End(Insert(r)[i]) <= Insert(r)[j].addr
<1> DEFINE n == Len(list)
           behind == {i \in DOMAIN list : list[i].addr >= Plus(r.addr, r.size)}
           p == IF behind = {} THEN n + 1 ELSE Min(behind)
           l == Insert(r)
<1>1. /\ r.addr \in Addresses /\ r.size \in Addresses /\ r.addr \in Nat /\ r.size \in Nat
      /\ address_hint \in Nat
  BY MemorySizes DEF Region, Addresses, MemoryTypeOK
<1>2. r.size > 0 /\ End(r) < AddressSpace /\ Plus(r.addr, r.size) = End(r) /\ End(r) \in Nat
  BY <1>1, WrapsIs DEF Insertable, End
<1>3. ASSUME NEW i \in 1 .. n
      PROVE  /\ list[i].addr \in Nat /\ End(list[i]) \in Nat /\ list[i].addr < End(list[i])
             /\ list[i].mapping \in Nat /\ list[i].mapping < address_hint
             /\ End(list[i]) < AddressSpace /\ list[i].size > 0
             /\ i \notin behind => End(list[i]) <= r.addr
             /\ i \in behind <=> End(r) <= list[i].addr
  <2>1. /\ list[i].addr \in Addresses /\ list[i].size \in Addresses /\ list[i].size > 0
        /\ End(list[i]) < AddressSpace /\ list[i].addr \in Nat /\ list[i].size \in Nat
        /\ list[i].mapping \in Nat /\ list[i].mapping < address_hint
    BY Regions, MemorySizes DEF ListInv, Mappings
  <2>2. Plus(list[i].addr, list[i].size) = End(list[i]) /\ End(list[i]) \in Nat
    <3>1. PICK a \in Addresses, z \in Addresses : a = list[i].addr /\ z = list[i].size
      BY <2>1
    <3>2. z > 0 /\ a + z < AddressSpace /\ a \in Nat /\ z \in Nat
      BY <2>1, <3>1 DEF End
    <3>3. ~ (z = 0 \/ a + z >= AddressSpace)
      BY <3>2, MemorySizes
    <3>4. Plus(a, z) = a + z
      BY <3>3, WrapsIs
    <3> QED
      BY <3>1, <3>2, <3>4 DEF End
  <2>3. ~ (r.addr < End(list[i]) /\ list[i].addr < End(r))
    BY <1>2, <2>2, Regions DEF Insertable, Overlap
  <2>4. i \in behind <=> list[i].addr >= End(r)
    BY <1>2, Regions
  <2> QED
    BY <1>1, <1>2, <2>1, <2>2, <2>3, <2>4 DEF End
<1>4. ASSUME NEW i \in 1 .. n, NEW j \in 1 .. n, i < j PROVE End(list[i]) <= list[j].addr
  BY <1>4, Regions DEF ListInv
<1>5. p \in 1 .. n + 1 /\ \A i \in 1 .. n : i < p <=> i \notin behind
  <2>0. n \in Nat /\ behind \in SUBSET (1 .. n) /\ behind \in SUBSET Nat
    BY Regions
  <2>1. CASE behind = {}
    BY <2>0, <2>1
  <2>2. CASE behind # {}
    <3>1. PICK m \in behind : m = p /\ \A k \in behind : m <= k
      <4> HIDE DEF behind
      <4> QED
        BY <2>0, <2>2, LeastIs
    <3>2. ASSUME NEW i \in 1 .. n, m < i PROVE i \in behind
      <4>1. m \in 1 .. n
        BY <2>0
      <4>2. End(list[m]) <= list[i].addr /\ End(r) <= list[m].addr
        BY <1>3, <1>4, <3>2, <4>1
      <4>3. End(r) <= list[i].addr
        BY <1>2, <1>3, <4>1, <4>2
      <4> QED
        BY <1>3, <4>3
    <3>3. m \in 1 .. n /\ m \in 1 .. n + 1
      BY <2>0
    <3>4. ASSUME NEW i \in 1 .. n PROVE i < m <=> i \notin behind
      <4>1. i = m \/ i < m \/ m < i
        BY <3>3
      <4>2. i \in behind => ~ (i < m)
        <5> HIDE DEF behind, p
        <5>1. i \in behind => m <= i
          BY <3>1
        <5> QED
          BY <3>3, <5>1
      <4>3. i = m => i \in behind /\ ~ (i < m)
        BY <3>1, <3>3
      <4>4. m < i => ~ (i < m)
        BY <3>3
      <4> HIDE DEF behind
      <4> QED
        BY <3>2, <4>1, <4>2, <4>3, <4>4
    <3> QED
      BY <3>1, <3>3, <3>4
  <2> QED
    BY <2>1, <2>2
<1> HIDE DEF behind, p
<1>6. l = InsertAt(list, p, r)
  BY DEF Insert, behind, p
<1>7. /\ l \in Seq(Region) /\ Len(l) = n + 1 /\ n \in Nat
      /\ \A k \in 1 .. n + 1 : l[k] = IF k < p THEN list[k] ELSE IF k = p THEN r ELSE list[k - 1]
  <2>1. list \in Seq(Region) /\ n \in Nat /\ p \in 1 .. Len(list) + 1
    BY <1>5, Regions
  <2> HIDE DEF l
  <2>2. /\ InsertAt(list, p, r) \in Seq(Region) /\ Len(InsertAt(list, p, r)) = n + 1
        /\ \A k \in 1 .. n + 1 : InsertAt(list, p, r)[k] =
               IF k < p THEN list[k] ELSE IF k = p THEN r ELSE list[k - 1]
    BY <2>1, InsertAtIs
  <2> QED
    BY <1>6, <2>1, <2>2
<1> HIDE DEF l
<1>8. DOMAIN l = 1 .. n + 1
  BY <1>7
<1>9. ASSUME NEW k \in 1 .. n + 1
      PROVE  \/ k < p /\ k \in 1 .. n /\ l[k] = list[k] /\ End(list[k]) <= r.addr
             \/ k = p /\ l[k] = r
             \/ k > p /\ k - 1 \in 1 .. n /\ l[k] = list[k - 1] /\ End(r) <= list[k - 1].addr
  <2>1. CASE k < p
    <3>1. k \in 1 .. n
      BY <1>5, <1>7, <2>1
    <3> QED
      BY <1>3, <1>5, <1>7, <2>1, <3>1
  <2>2. CASE k = p
    BY <1>5, <1>7, <2>2
  <2>3. CASE k > p
    <3>1. k - 1 \in 1 .. n /\ ~ (k - 1 < p) /\ ~ (k < p) /\ k # p
      BY <1>5, <1>7, <2>3
    <3> QED
      BY <1>3, <1>5, <1>7, <2>3, <3>1
  <2> QED
    BY <1>5, <2>1, <2>2, <2>3
<1>10. ASSUME NEW k \in 1 .. n + 1
       PROVE  l[k].size > 0 /\ End(l[k]) < AddressSpace /\ l[k].mapping < address_hint + 1
  <2>1. CASE l[k] = r
    BY <1>1, <1>2, <2>1
  <2>2. ASSUME NEW i \in 1 .. n, l[k] = list[i]
        PROVE  l[k].size > 0 /\ End(l[k]) < AddressSpace /\ l[k].mapping < address_hint + 1
    BY <1>1, <1>3, <2>2
  <2> QED
    BY <1>9, <2>1, <2>2
<1>11. ASSUME NEW i \in 1 .. n + 1, NEW j \in 1 .. n + 1, i < j PROVE End(l[i]) <= l[j].addr
  <2>1. CASE i < p /\ j < p
    BY <1>4, <1>5, <1>9, <1>11, <2>1
  <2>2. CASE i < p /\ j = p
    BY <1>5, <1>9, <2>2
  <2>3. CASE i < p /\ j > p
    <3>1. /\ l[i] = list[i] /\ i \in 1 .. n /\ End(list[i]) <= r.addr
          /\ l[j] = list[j - 1] /\ j - 1 \in 1 .. n /\ End(r) <= list[j - 1].addr
      BY <1>5, <1>9, <2>3
    <3>2. r.addr <= End(r)
      BY <1>1 DEF End
    <3> QED
      BY <1>1, <1>2, <1>3, <3>1, <3>2
  <2>4. CASE i = p /\ j > p
    BY <1>5, <1>9, <2>4
  <2>5. CASE i > p /\ j > p
    <3>1. /\ l[i] = list[i - 1] /\ i - 1 \in 1 .. n
          /\ l[j] = list[j - 1] /\ j - 1 \in 1 .. n /\ i - 1 < j - 1
      BY <1>5, <1>9, <1>11, <2>5
    <3> QED
      BY <1>4, <3>1
  <2> QED
    BY <1>5, <1>11, <2>1, <2>2, <2>3, <2>4, <2>5
<1> QED
  BY <1>7, <1>8, <1>10, <1>11 DEF l

-----------------------------------------------------------------------------
(* GuestMemory: steps *)

\* One more mapping is announced.
LEMMA AppendIs ==
    ASSUME NEW S, NEW s \in Seq(S), NEW x \in S
    PROVE  /\ Append(s, x) \in Seq(S) /\ Append(s, x) # << >>
           /\ Last(Append(s, x)) = x /\ ToSet(Append(s, x)) = ToSet(s) \cup {x}
           /\ x \notin ToSet(s) /\ (\A i, j \in DOMAIN s : s[i] = s[j] => i = j) =>
                  \A i, j \in DOMAIN Append(s, x) : Append(s, x)[i] = Append(s, x)[j] => i = j
<1> DEFINE t == Append(s, x)
           n == Len(s)
<1>1. /\ t \in Seq(S) /\ Len(t) = n + 1 /\ n \in Nat /\ t # << >>
      /\ DOMAIN t = 1 .. n + 1 /\ DOMAIN s = 1 .. n
      /\ \A i \in 1 .. n : t[i] = s[i]
      /\ t[n + 1] = x
  BY AppendProperties
<1> HIDE DEF t, n
<1>2. \A i \in 1 .. n + 1 : i \in 1 .. n \/ i = n + 1
  BY <1>1
<1>3. 1 .. n \subseteq 1 .. n + 1 /\ n + 1 \in 1 .. n + 1
  BY <1>1
<1>4. Last(t) = x
  BY <1>1 DEF Last
<1>5. ToSet(t) = ToSet(s) \cup {x}
  BY <1>1, <1>2, <1>3 DEF ToSet
<1>6. ASSUME x \notin ToSet(s), \A i, j \in DOMAIN s : s[i] = s[j] => i = j,
             NEW i \in DOMAIN t, NEW j \in DOMAIN t, t[i] = t[j]
      PROVE  i = j
  <2>1. \A k \in 1 .. n : t[k] # x
    BY <1>1, <1>6 DEF ToSet
  <2> QED
    BY <1>1, <1>2, <1>6, <2>1
<1> QED
  BY <1>1, <1>4, <1>5, <1>6 DEF t

\* How often a mapping is in a list of different ones.
LEMMA CountIs ==
    ASSUME NEW s \in Seq(Mappings), \A i, j \in DOMAIN s : s[i] = s[j] => i = j, NEW n \in Mappings
    PROVE  Cardinality({k \in DOMAIN s : s[k] = n}) = IF n \in ToSet(s) THEN 1 ELSE 0
<1>1. CASE n \in ToSet(s)
  <2>1. PICK i \in DOMAIN s : s[i] = n
    BY <1>1 DEF ToSet
  <2>2. {k \in DOMAIN s : s[k] = n} = {i}
    BY <2>1
  <2> QED
    BY <1>1, <2>2, FS_Singleton
<1>2. CASE n \notin ToSet(s)
  <2>1. {k \in DOMAIN s : s[k] = n} = {}
    BY <1>2 DEF ToSet
  <2> QED
    BY <1>2, <2>1, FS_EmptySet
<1> QED
  BY <1>1, <1>2

LEMMA NoneIn == ToSet(<< >>) = {}
  BY DEF ToSet

LEMMA MemoryInitInv == MemoryInit("idle") => MemoryInv
<1>1. SUFFICES ASSUME MemoryInit("idle") PROVE MemoryInv
  OBVIOUS
<1>2. MemoryTypeOK
  BY <1>1, MemorySizes DEF MemoryInit, MemoryTypeOK
<1>3. ListInv
  BY <1>1 DEF MemoryInit, ListInv
<1>4. AnnouncedInv
  BY <1>1, NoneIn DEF MemoryInit, AnnouncedInv
<1>5. MappedInv
  BY <1>1, NoneIn DEF MemoryInit, MappedInv
<1> QED
  BY <1>2, <1>3, <1>4, <1>5 DEF MemoryInv

\* A session ends, in whichever way.
LEMMA EndStep ==
    ASSUME MemoryInv, EndSession, announce = "idle", address_hint' \in {address_hint, address_hint + 1},
           address_hint' \in 0 .. MaxMappings,
           UNCHANGED <<dma_cb, iommu, register, announced, raced>>
    PROVE  MemoryInv'
<1>1. /\ list' = << >> /\ dma_regions' = << >> /\ announce' \in {"idle", "aborted"}
      /\ removed' = IF register = "no" THEN removed \cup ToSet(dma_regions) ELSE removed
      /\ announce' # "call"
  BY DEF EndSession
<1>2. ToSet(dma_regions') = {} /\ DOMAIN list' = {} /\ DOMAIN dma_regions' = {}
  BY <1>1, NoneIn
<1>3. announced \subseteq 0 .. address_hint' - 1
  <2>1. address_hint \in Nat
    BY MemorySizes DEF MemoryInv, MemoryTypeOK
  <2>2. announced \subseteq 0 .. address_hint - 1
    BY DEF MemoryInv, AnnouncedInv
  <2>3. PICK h \in Nat : h = address_hint' /\ address_hint <= h
    BY <2>1
  <2>4. ASSUME NEW n \in announced PROVE n \in 0 .. h - 1
    <3>1. n \in 0 .. address_hint - 1
      BY <2>2
    <3>2. n \in Nat /\ n < address_hint
      BY <2>1, <3>1
    <3>3. n < h
      BY <2>1, <2>3, <3>2
    <3>4. \A i, k \in Nat : i < k => i \in 0 .. k - 1
      OBVIOUS
    <3> QED
      BY <3>2, <3>3, <3>4
  <2> QED
    BY <2>3, <2>4
<1>4. MemoryTypeOK'
  <2>1. removed' \subseteq Mappings
    BY <1>1 DEF MemoryInv, MemoryTypeOK, AnnouncedInv
  <2>2. list' \in Seq(Region) /\ dma_regions' \in Seq(Mappings)
    BY <1>1
  <2>3. announced' \cup raced' \cup removed' \subseteq Mappings
    BY <2>1 DEF MemoryInv, MemoryTypeOK
  <2>4. announce' \in {"off", "idle", "call", "aborted"}
    BY <1>1
  <2> QED
    BY <2>2, <2>3, <2>4 DEF MemoryInv, MemoryTypeOK
<1>5. ListInv'
  BY <1>2 DEF ListInv
<1>6. AnnouncedInv'
  <2>1. removed' \cup raced' \subseteq announced'
    BY <1>1 DEF MemoryInv, AnnouncedInv
  <2> QED
    BY <1>1, <1>2, <1>3, <2>1 DEF MemoryInv, AnnouncedInv
<1>7. MappedInv'
  <2>1. register = "no" => announced = removed'
    BY <1>1 DEF MemoryInv, MappedInv
  <2> QED
    BY <1>1, <1>2, <2>1 DEF MemoryInv, MappedInv
<1> QED
  BY <1>4, <1>5, <1>6, <1>7 DEF MemoryInv

LEMMA RegionStep ==
    ASSUME MemoryInv, NEW addr \in Addresses, NEW size \in Addresses, RegionRequest(addr, size)
    PROVE  MemoryInv'
<1> DEFINE r == [addr |-> addr, size |-> size, mapping |-> Mmap]
<1>1. /\ announce = "idle" /\ address_hint < MaxMappings /\ address_hint' = address_hint + 1
      /\ UNCHANGED <<dma_cb, iommu, register>>
  BY DEF RegionRequest, NextHint
<1>2. /\ address_hint \in Nat /\ address_hint \in Mappings /\ address_hint' \in 0 .. MaxMappings
      /\ \A n \in announced : n \in Nat /\ n < address_hint /\ n < address_hint + 1
  BY <1>1, MemorySizes DEF MemoryInv, MemoryTypeOK, Mappings, AnnouncedInv
<1>3. Mmap = address_hint
  <2>1. \A i \in DOMAIN list : list[i].mapping \in Nat /\ list[i].mapping < address_hint
    BY Regions, MemorySizes DEF MemoryInv, ListInv, Mappings
  <2> QED
    BY <1>2, <2>1 DEF Mmap
<1>4. CASE ~ Insertable(r)
  <2>1. EndSession /\ UNCHANGED <<announced, raced>>
    BY <1>4 DEF RegionRequest
  <2> QED
    BY <1>1, <1>2, <2>1, EndStep
<1>5. CASE Insertable(r)
  <2>1. /\ list' = Insert(r) /\ dma_regions' = Append(dma_regions, address_hint)
        /\ announce' = "call" /\ announced' = announced \cup {address_hint}
        /\ raced' = IF register = "iterated" THEN raced \cup {address_hint} ELSE raced
        /\ removed' = removed
    BY <1>3, <1>5 DEF RegionRequest
  <2>2. r \in Region /\ r.mapping = address_hint
    BY <1>2, <1>3 DEF Region
  <2> HIDE DEF r
  <2>3. /\ list' \in Seq(Region)
        /\ \A i \in DOMAIN list' : /\ list'[i].size > 0 /\ End(list'[i]) < AddressSpace
                                   /\ list'[i].mapping < address_hint'
        /\ \A i, j \in DOMAIN list' : i < j => End(list'[i]) <= list'[j].addr
    BY <1>1, <1>5, <2>1, <2>2, InsertApart DEF MemoryInv
  <2>4. ListInv'
    BY <2>3 DEF ListInv, End
  <2>5. address_hint \notin announced /\ address_hint \notin ToSet(dma_regions)
    BY <1>2 DEF MemoryInv, AnnouncedInv
  <2>6. /\ dma_regions' \in Seq(Mappings) /\ dma_regions' # << >>
        /\ Last(dma_regions') = address_hint
        /\ ToSet(dma_regions') = ToSet(dma_regions) \cup {address_hint}
        /\ \A i, j \in DOMAIN dma_regions' : dma_regions'[i] = dma_regions'[j] => i = j
    <3>1. dma_regions \in Seq(Mappings)
      BY DEF MemoryInv, MemoryTypeOK
    <3>2. \A i, j \in DOMAIN dma_regions : dma_regions[i] = dma_regions[j] => i = j
      BY DEF MemoryInv, AnnouncedInv
    <3> QED
      BY <1>2, <2>1, <2>5, <3>1, <3>2, AppendIs
  <2>7. MemoryTypeOK'
    <3>1. announced' \cup raced' \cup removed' \subseteq Mappings
      BY <1>2, <2>1 DEF MemoryInv, MemoryTypeOK
    <3>2. announce' \in {"off", "idle", "call", "aborted"}
      BY <2>1
    <3> QED
      BY <1>1, <1>2, <2>3, <2>6, <3>1, <3>2 DEF MemoryInv, MemoryTypeOK
  <2>8. AnnouncedInv'
    <3>1. announced' \subseteq 0 .. address_hint' - 1
      BY <1>1, <1>2, <2>1
    <3>2. ToSet(dma_regions') \cup removed' \cup raced' \subseteq announced'
      BY <2>1, <2>6 DEF MemoryInv, AnnouncedInv
    <3>3. removed' \cap ToSet(dma_regions') = {}
      BY <2>1, <2>5, <2>6 DEF MemoryInv, AnnouncedInv
    <3>4. announce' = "call" /\ register' = "iterated" => Last(dma_regions') \in raced'
      BY <1>1, <2>1, <2>6
    <3> QED
      BY <2>6, <3>1, <3>2, <3>3, <3>4 DEF AnnouncedInv
  <2>9. MappedInv'
    <3>1. \A n \in Mappings \ announced' : iommu'[n] = 0
      BY <1>1, <2>1 DEF MemoryInv, MappedInv
    <3>2. register' = "no" => /\ \A n \in Mappings : iommu'[n] = 0
                              /\ announced' = ToSet(dma_regions') \cup removed'
      BY <1>1, <2>1, <2>6 DEF MemoryInv, MappedInv
    <3>3. ASSUME register' # "no", NEW n \in announced' \ raced'
          PROVE  iommu'[n] = IF n \in removed' \/ (announce' = "call" /\ n = Last(dma_regions'))
                               THEN 0 ELSE 1
      <4>1. CASE n = address_hint
        <5>1. iommu[n] = 0
          BY <1>2, <2>5, <4>1 DEF MemoryInv, MappedInv
        <5> QED
          BY <1>1, <2>1, <2>6, <4>1, <5>1
      <4>2. CASE n # address_hint
        <5>1. n \in announced \ raced
          BY <2>1, <3>3, <4>2
        <5>2. iommu[n] = IF n \in removed THEN 0 ELSE 1
          BY <1>1, <3>3, <5>1 DEF MemoryInv, MappedInv
        <5> QED
          BY <1>1, <2>1, <2>6, <4>2, <5>2
      <4> QED
        BY <4>1, <4>2
    <3>4. dma_cb' = IF register' = "yes" THEN "nic" ELSE "empty"
      BY <1>1 DEF MemoryInv, MappedInv
    <3> QED
      BY <3>1, <3>2, <3>3, <3>4 DEF MappedInv
  <2> QED
    BY <2>4, <2>7, <2>8, <2>9 DEF MemoryInv
<1> QED
  BY <1>4, <1>5

LEMMA CallStep == ASSUME MemoryInv, CallCallback PROVE MemoryInv'
<1>1. /\ announce = "call" /\ announce' = "idle"
      /\ UNCHANGED <<list, address_hint, dma_regions, dma_cb, register, announced, raced, removed>>
  BY DEF CallCallback
<1>2. /\ dma_regions \in Seq(Mappings) /\ dma_regions # << >>
      /\ Last(dma_regions) \in ToSet(dma_regions) /\ Last(dma_regions) \in Mappings
  <2>1. dma_regions \in Seq(Mappings) /\ dma_regions # << >>
    BY <1>1 DEF MemoryInv, MemoryTypeOK, AnnouncedInv
  <2>2. Len(dma_regions) \in DOMAIN dma_regions
    BY <2>1
  <2> QED
    BY <2>1, <2>2 DEF Last, ToSet
<1>3. iommu \in [Mappings -> Nat]
  BY DEF MemoryInv, MemoryTypeOK
<1>4. ASSUME dma_cb = "nic"
      PROVE  iommu' = [n \in Mappings |-> iommu[n] + IF n = Last(dma_regions) THEN 1 ELSE 0]
  <2>1. iommu' = [n \in Mappings |-> iommu[n]
             + Cardinality({k \in DOMAIN <<Last(dma_regions)>> : <<Last(dma_regions)>>[k] = n})]
    BY <1>4 DEF CallCallback, MapForNic
  <2>2. PICK x \in Mappings : x = Last(dma_regions)
    BY <1>2
  <2>3. <<x>> \in Seq(Mappings) /\ ToSet(<<x>>) = {x}
    BY DEF ToSet
  <2>4. \A i, j \in DOMAIN <<x>> : <<x>>[i] = <<x>>[j] => i = j
    OBVIOUS
  <2>5. \A n \in Mappings : Cardinality({k \in DOMAIN <<x>> : <<x>>[k] = n}) =
                                IF n = x THEN 1 ELSE 0
    BY <2>3, <2>4, CountIs
  <2> QED
    BY <2>1, <2>2, <2>5
<1>5. iommu' \in [Mappings -> Nat] /\ (dma_cb # "nic" => iommu' = iommu)
  <2>1. dma_cb # "nic" => iommu' = iommu
    BY DEF CallCallback
  <2> QED
    BY <1>3, <1>4, <2>1
<1>6. MemoryTypeOK'
  BY <1>1, <1>5 DEF MemoryInv, MemoryTypeOK
<1>7. ListInv'
  BY <1>1 DEF MemoryInv, ListInv
<1>8. AnnouncedInv'
  BY <1>1 DEF MemoryInv, AnnouncedInv
<1>9. MappedInv'
  <2>1. Last(dma_regions) \in announced /\ Last(dma_regions) \notin removed
    BY <1>2 DEF MemoryInv, AnnouncedInv
  <2>2. CASE register = "yes"
    <3>1. dma_cb = "nic"
      BY <2>2 DEF MemoryInv, MappedInv
    <3>2. iommu' = [n \in Mappings |-> iommu[n] + IF n = Last(dma_regions) THEN 1 ELSE 0]
      BY <1>4, <3>1
    <3>3. ASSUME NEW n \in Mappings \ announced PROVE iommu'[n] = 0
      BY <2>1, <3>2 DEF MemoryInv, MappedInv
    <3>4. ASSUME NEW n \in announced \ raced PROVE iommu'[n] = IF n \in removed THEN 0 ELSE 1
      <4>1. n \in Mappings
        BY DEF MemoryInv, MemoryTypeOK
      <4>2. iommu[n] = IF n \in removed \/ n = Last(dma_regions) THEN 0 ELSE 1
        BY <1>1, <2>2 DEF MemoryInv, MappedInv
      <4> QED
        BY <2>1, <3>2, <4>1, <4>2
    <3> QED
      BY <1>1, <2>2, <3>1, <3>3, <3>4 DEF MappedInv
  <2>3. CASE register # "yes"
    <3>1. iommu' = iommu
      BY <1>5, <2>3 DEF MemoryInv, MappedInv
    <3>2. register # "no" => Last(dma_regions) \in raced
      BY <1>1, <2>3 DEF MemoryInv, AnnouncedInv, MemoryTypeOK
    <3>3. ASSUME register # "no", NEW n \in announced \ raced
          PROVE  iommu'[n] = IF n \in removed THEN 0 ELSE 1
      BY <1>1, <3>1, <3>2, <3>3 DEF MemoryInv, MappedInv
    <3> QED
      BY <1>1, <2>3, <3>1, <3>3 DEF MemoryInv, MappedInv
  <2> QED
    BY <2>2, <2>3
<1> QED
  BY <1>6, <1>7, <1>8, <1>9 DEF MemoryInv

LEMMA IterateStep == ASSUME MemoryInv, Iterate PROVE MemoryInv'
<1>1. /\ register = "no" /\ register' = "iterated"
      /\ raced' = IF announce = "call" THEN raced \cup {Last(dma_regions)} ELSE raced
      /\ UNCHANGED <<list, address_hint, announce, dma_regions, dma_cb, announced, removed>>
  BY DEF Iterate, listenerVars
<1>2. dma_regions \in Seq(Mappings) /\ iommu \in [Mappings -> Nat]
  BY DEF MemoryInv, MemoryTypeOK
<1>3. announce = "call" => Last(dma_regions) \in ToSet(dma_regions)
  <2>1. SUFFICES ASSUME announce = "call" PROVE Last(dma_regions) \in ToSet(dma_regions)
    OBVIOUS
  <2>2. Len(dma_regions) \in DOMAIN dma_regions
    BY <1>2, <2>1 DEF MemoryInv, AnnouncedInv
  <2> QED
    BY <2>2 DEF Last, ToSet
<1>4. \A n \in Mappings : iommu[n] = 0
  BY <1>1 DEF MemoryInv, MappedInv
<1>5. \A n \in Mappings : iommu'[n] = IF n \in ToSet(dma_regions) THEN 1 ELSE 0
  <2>1. \A n \in Mappings : iommu'[n] =
            iommu[n] + Cardinality({k \in DOMAIN dma_regions : dma_regions[k] = n})
    BY DEF Iterate, MapForNic
  <2>2. \A i, j \in DOMAIN dma_regions : dma_regions[i] = dma_regions[j] => i = j
    BY DEF MemoryInv, AnnouncedInv
  <2>3. \A n \in Mappings : Cardinality({k \in DOMAIN dma_regions : dma_regions[k] = n}) =
                                IF n \in ToSet(dma_regions) THEN 1 ELSE 0
    BY <1>2, <2>2, CountIs
  <2>4. ASSUME NEW n \in Mappings PROVE iommu'[n] = IF n \in ToSet(dma_regions) THEN 1 ELSE 0
    <3>1. PICK c \in {0, 1} :
              /\ c = Cardinality({k \in DOMAIN dma_regions : dma_regions[k] = n})
              /\ c = IF n \in ToSet(dma_regions) THEN 1 ELSE 0
      BY <2>3
    <3>2. iommu'[n] = 0 + c
      BY <1>4, <2>1, <3>1
    <3> QED
      BY <3>1, <3>2
  <2> QED
    BY <2>4
<1>6. iommu' \in [Mappings -> Nat]
  <2>1. iommu' = [n \in Mappings |-> iommu'[n]]
    BY DEF Iterate, MapForNic
  <2> QED
    BY <1>5, <2>1
<1>7. raced' \subseteq announced
  BY <1>1, <1>3 DEF MemoryInv, AnnouncedInv
<1>8. MemoryTypeOK'
  BY <1>1, <1>6, <1>7 DEF MemoryInv, MemoryTypeOK
<1>9. ListInv'
  BY <1>1 DEF MemoryInv, ListInv
<1>10. AnnouncedInv'
  BY <1>1, <1>7 DEF MemoryInv, AnnouncedInv
<1>11. MappedInv'
  <2>1. announced = ToSet(dma_regions) \cup removed /\ removed \cap ToSet(dma_regions) = {}
    BY <1>1 DEF MemoryInv, MappedInv, AnnouncedInv
  <2>2. \A n \in Mappings \ announced : iommu'[n] = 0
    BY <1>5, <2>1
  <2>3. ASSUME NEW n \in announced \ raced'
        PROVE  iommu'[n] = IF n \in removed \/ (announce = "call" /\ n = Last(dma_regions))
                             THEN 0 ELSE 1
    <3>1. n \in Mappings
      BY DEF MemoryInv, MemoryTypeOK
    <3>2. ~ (announce = "call" /\ n = Last(dma_regions))
      BY <1>1, <2>3
    <3> QED
      BY <1>5, <2>1, <2>3, <3>1, <3>2
  <2>4. dma_cb' = "empty"
    BY <1>1 DEF MemoryInv, MappedInv
  <2> QED
    BY <1>1, <2>2, <2>3, <2>4 DEF MappedInv
<1> QED
  BY <1>8, <1>9, <1>10, <1>11 DEF MemoryInv

LEMMA SetStep == ASSUME MemoryInv, SetCallback PROVE MemoryInv'
<1>1. /\ register = "iterated" /\ register' = "yes" /\ dma_cb' = "nic"
      /\ UNCHANGED <<list, address_hint, announce, dma_regions, iommu, announced, raced, removed>>
  BY DEF SetCallback, listenerVars
<1>2. MemoryTypeOK'
  BY <1>1 DEF MemoryInv, MemoryTypeOK
<1>3. ListInv' /\ AnnouncedInv'
  BY <1>1 DEF MemoryInv, ListInv, AnnouncedInv
<1>4. MappedInv'
  BY <1>1 DEF MemoryInv, MappedInv
<1> QED
  BY <1>2, <1>3, <1>4 DEF MemoryInv

LEMMA MemoryStepInv == MemoryInv /\ [MemoryNext]_memoryVars => MemoryInv'
<1>1. SUFFICES ASSUME MemoryInv, [MemoryNext]_memoryVars PROVE MemoryInv'
  OBVIOUS
<1>2. CASE UNCHANGED memoryVars
  BY <1>1, <1>2 DEF MemoryInv, MemoryTypeOK, ListInv, AnnouncedInv, MappedInv, memoryVars, listenerVars
<1>3. CASE HangUp
  <2>1. /\ announce = "idle" /\ EndSession /\ address_hint' = address_hint
        /\ UNCHANGED <<dma_cb, iommu, register, announced, raced>>
    BY <1>3 DEF HangUp
  <2>2. address_hint' \in 0 .. MaxMappings
    BY <1>1, <2>1 DEF MemoryInv, MemoryTypeOK
  <2> QED
    BY <1>1, <2>1, <2>2, EndStep
<1> QED
  BY <1>1, <1>2, <1>3, RegionStep, CallStep, IterateStep, SetStep DEF MemoryNext

-----------------------------------------------------------------------------
(* GuestMemory: what follows from it *)

\* In every state: the regions of the session are in order, and what was announced is
\* mapped for the NIC as far as the registration of the upstream port has come.
THEOREM MemoryInvariance == MemorySpec => []MemoryInv
  BY MemoryInitInv, MemoryStepInv, PTL DEF MemorySpec

\* The lists, the hint and the counts stay within their types.
THEOREM MemoryTypeCorrect == MemorySpec => []MemoryTypeOK
<1>1. MemoryInv => MemoryTypeOK
  BY DEF MemoryInv
<1> QED
  BY <1>1, MemoryInvariance, PTL

\* RegionList::insert keeps the list sorted and its regions disjoint.
THEOREM Disjoint == MemorySpec => []RegionsApart
<1>1. ASSUME MemoryInv PROVE RegionsApart
  <2>1. SUFFICES ASSUME NEW i \in DOMAIN list, NEW j \in DOMAIN list, i < j,
                        NEW a \in Bytes(list[i].addr, list[i].size),
                        NEW b \in Bytes(list[j].addr, list[j].size)
                 PROVE  a < b
    BY DEF RegionsApart
  <2>2. End(list[i]) <= list[j].addr
    BY <1>1, <2>1 DEF MemoryInv, ListInv
  <2>3. /\ list[i].addr \in Nat /\ list[i].size \in Nat
        /\ list[j].addr \in Nat /\ list[j].size \in Nat
    BY <1>1, Regions DEF MemoryInv
  <2> QED
    BY <2>2, <2>3 DEF Bytes, End
<1> QED
  BY <1>1, MemoryInvariance, PTL

\* translate_ptr finds every buffer that is within a region, and no other.
THEOREM Translates == MemorySpec => []TranslatesRegions
<1>1. ASSUME MemoryInv PROVE TranslatesRegions
  <2>0. MemoryTypeOK /\ ListInv
    BY <1>1 DEF MemoryInv
  <2>1. SUFFICES ASSUME NEW a \in Addresses, NEW n \in Addresses
                 PROVE  LET within == {i \in DOMAIN list :
                                /\ n > 0
                                /\ Bytes(a, n + 1) \subseteq Bytes(list[i].addr, list[i].size)}
                        IN  IF within = {} THEN Translate(a, n) = Nowhere
                            ELSE \A i \in within :
                                     Translate(a, n) = <<list[i].mapping, a - list[i].addr>>
    BY DEF TranslatesRegions
  <2> DEFINE within == {i \in DOMAIN list :
                          /\ n > 0
                          /\ Bytes(a, n + 1) \subseteq Bytes(list[i].addr, list[i].size)}
             found == {i \in DOMAIN list : IsIn(list[i], a, n)}
  <2>2. a \in Nat /\ n \in Nat /\ a < AddressSpace /\ n < AddressSpace
    BY MemorySizes DEF Addresses
  <2>3. ASSUME NEW i \in DOMAIN list
        PROVE  /\ list[i].addr \in Nat /\ list[i].size \in Nat /\ list[i].size > 0
               /\ list[i].addr + list[i].size < AddressSpace
               /\ Plus(list[i].addr, list[i].size) = list[i].addr + list[i].size
    <3>1. PICK x \in Addresses, z \in Addresses : x = list[i].addr /\ z = list[i].size
      BY <2>0, Regions
    <3>2. x \in Nat /\ z \in Nat /\ z > 0 /\ x + z < AddressSpace
      BY <2>0, <3>1, MemorySizes DEF ListInv, End, Addresses
    <3>3. ~ (z = 0 \/ x + z >= AddressSpace)
      BY <3>2, MemorySizes
    <3>4. Plus(x, z) = x + z
      BY <3>3, WrapsIs
    <3> QED
      BY <3>1, <3>2, <3>4
  <2>4. ASSUME NEW i \in DOMAIN list, n > 0
        PROVE  Bytes(a, n + 1) \subseteq Bytes(list[i].addr, list[i].size) <=>
                   list[i].addr <= a /\ a + n < list[i].addr + list[i].size
    <3>1. PICK x \in Nat, z \in Nat : x = list[i].addr /\ z = list[i].size
      BY <2>3
    <3>2. a \in Bytes(a, n + 1) /\ a + n \in Bytes(a, n + 1)
      BY <2>2 DEF Bytes
    <3>3. Bytes(a, n + 1) \subseteq Bytes(x, z) => x <= a /\ a + n < x + z
      <4>1. SUFFICES ASSUME Bytes(a, n + 1) \subseteq Bytes(x, z) PROVE x <= a /\ a + n < x + z
        OBVIOUS
      <4>2. a \in Bytes(x, z) /\ a + n \in Bytes(x, z)
        BY <3>2, <4>1
      <4> QED
        BY <2>2, <4>2 DEF Bytes
    <3>4. x <= a /\ a + n < x + z => Bytes(a, n + 1) \subseteq Bytes(x, z)
      BY <2>2 DEF Bytes
    <3> QED
      BY <3>1, <3>3, <3>4
  <2>5. CASE Wraps(a, n)
    <3>1. within = {}
      <4>1. SUFFICES ASSUME NEW i \in within PROVE FALSE
        OBVIOUS
      <4>2. i \in DOMAIN list /\ n > 0 /\ a + n < list[i].addr + list[i].size
        BY <2>4
      <4>3. n = 0 \/ a + n >= AddressSpace
        BY <2>5, WrapsIs
      <4> QED
        BY <2>2, <2>3, <4>2, <4>3, MemorySizes
    <3> QED
      BY <2>5, <3>1 DEF Translate
  <2>6. CASE ~ Wraps(a, n)
    <3>1. n > 0 /\ a + n < AddressSpace /\ Plus(a, n) = a + n
      BY <2>6, WrapsIs
    <3>2. found = within
      <4>1. ASSUME NEW i \in DOMAIN list
            PROVE  IsIn(list[i], a, n) <=>
                       Bytes(a, n + 1) \subseteq Bytes(list[i].addr, list[i].size)
        <5>1. Plus(list[i].addr, list[i].size) = list[i].addr + list[i].size
          BY <2>3
        <5> QED
          BY <2>4, <3>1, <5>1 DEF IsIn
      <4> QED
        BY <3>1, <4>1
    <3>3. ASSUME NEW i \in found, NEW j \in found PROVE i = j
      <4>1. /\ i \in DOMAIN list /\ j \in DOMAIN list /\ i \in Nat /\ j \in Nat
        BY <2>0, Regions
      <4>2. ASSUME NEW k \in DOMAIN list, NEW m \in DOMAIN list, k \in found, m \in found, k < m
            PROVE  FALSE
        <5>1. list[m].addr <= a /\ a + n < list[k].addr + list[k].size
          BY <2>3, <3>1, <4>2 DEF IsIn
        <5>2. list[k].addr + list[k].size <= list[m].addr
          BY <2>0, <4>2 DEF ListInv, End
        <5> QED
          BY <2>2, <2>3, <5>1, <5>2
      <4>3. ~ (i < j) /\ ~ (j < i)
        BY <4>1, <4>2
      <4> QED
        BY <4>1, <4>3
    <3>4. ASSUME NEW i \in within
          PROVE  Translate(a, n) = <<list[i].mapping, a - list[i].addr>>
      <4>1. found \in SUBSET Nat /\ found # {} /\ i \in found
        BY <2>0, <3>2, Regions
      <4>2. Min(found) \in found
        <5> HIDE DEF found
        <5> QED
          BY <4>1, LeastIs
      <4>3. Min(found) = i
        BY <3>3, <4>1, <4>2
      <4>4. Translate(a, n) = LET r == list[Min(found)] IN <<r.mapping, a - r.addr>>
        BY <2>6, <4>1 DEF Translate
      <4> QED
        BY <4>3, <4>4
    <3>5. within = {} => Translate(a, n) = Nowhere
      BY <3>2 DEF Translate
    <3> QED
      BY <3>4, <3>5
  <2> QED
    BY <2>5, <2>6
<1> QED
  BY <1>1, MemoryInvariance, PTL

\* However the listener and the main thread interleave, what is announced outside the
\* registration of the upstream port is mapped for the NIC exactly once.
THEOREM Mapped == MemorySpec => []MappedOnce
<1>1. MemoryInv => MappedOnce
  BY DEF MemoryInv, MappedInv, MappedOnce
<1> QED
  BY <1>1, MemoryInvariance, PTL

-----------------------------------------------------------------------------
(* VirtioConfig *)

\* What a guest owes the device before it says it is ready.
Prepared == fast /\ {"rx", "tx"} \subseteq vector

\* The list has the port once, while it is online and was not thrown out.  Between
\* requests online follows the queues; reset takes it offline first.
AttachInv ==
    /\ entries = IF online /\ ~thrown THEN 1 ELSE 0
    /\ request \in {"off", "idle"} => (online <=> Complete)
    /\ request = "reset" => ~online

\* The loop's list has the port outside Quiesce only; unless the listener has
\* detached it since, it is in the list still.
LoopInv ==
    /\ in_loop <=> step # "quiesce"
    /\ in_loop /\ ~stale => entries = 1

\* An interrupt is wanted only between receive and poll_irq.
IrqInv == irq_wanted => step = "irq"

\* A driver that is ready has prepared; so has the one receive looked at, even if it
\* has withdrawn DRIVER_OK since.  Only reset forgets what the guest did wrong, and
\* reset detaches the port.
GuestInv ==
    /\ driver_ok /\ ~wrong => Prepared
    /\ ~wrong /\ ~stale =>
           /\ step = "receive" => Prepared
           /\ step = "irq" /\ irq_wanted => "rx" \in vector
           /\ step # "broken"

ConfigIInv ==
    /\ ConfigTypeOK
    /\ AttachInv
    /\ LoopInv
    /\ IrqInv
    /\ GuestInv

-----------------------------------------------------------------------------
LEMMA ConfigInitInv == ConfigInit("idle") => ConfigIInv
  BY DEF ConfigInit, ConfigIInv, ConfigTypeOK, AttachInv, LoopInv, IrqInv, GuestInv,
         Prepared, Complete, VirtQueues

LEMMA ConfigStep == ConfigIInv /\ [ConfigNext]_configVars => ConfigIInv'
<1> SUFFICES ASSUME ConfigIInv, [ConfigNext]_configVars PROVE ConfigIInv'
  OBVIOUS
<1> USE DEF ConfigIInv, ConfigTypeOK, AttachInv, LoopInv, IrqInv, GuestInv, Prepared, Complete,
            configVars, deviceRegs, loopPlace, Listener, Elsewhere, VirtQueues
<1>1. CASE WriteQueueSel
  BY <1>1 DEF WriteQueueSel
<1>2. ASSUME NEW translated \in BOOLEAN, WriteQueuePfn(translated) PROVE ConfigIInv'
  BY <1>2 DEF WriteQueuePfn
<1>3. CASE SetOnline
  <2>1. CASE ToEnable
    <3>1. ~ToDisable
      BY <2>1 DEF ToEnable, ToDisable
    <3>2. Enable
      BY <1>3, <2>1, <3>1 DEF SetOnline
    <3> QED
      <4>1. /\ request' = "idle"
            /\ UNCHANGED <<Listener, driver_ok, fast, queue_sel, desc, vector, wrong>>
        BY <1>3 DEF SetOnline
      <4>2. ~online /\ entries = 0 /\ entries' = 1
        BY <2>1, <3>2 DEF Enable, ToEnable
      <4>3. ConfigTypeOK'
        BY <3>2, <4>1, <4>2 DEF Enable
      <4>4. AttachInv'
        BY <2>1, <3>2, <4>1, <4>2 DEF Enable, ToEnable
      <4>5. LoopInv' /\ IrqInv' /\ GuestInv'
        BY <3>2, <4>1, <4>2 DEF Enable
      <4> QED
        BY <4>3, <4>4, <4>5
  <2>2. CASE ToDisable
    <3>1. ~ToEnable
      BY <2>2 DEF ToEnable, ToDisable
    <3>2. Disable
      BY <1>3, <2>2, <3>1 DEF SetOnline
    <3>3. stale' \in BOOLEAN /\ (in_loop' => stale')
      BY <1>3, <3>2 DEF SetOnline, Disable
    <3> QED
      BY <1>3, <2>2, <3>2, <3>3 DEF SetOnline, Disable, ToDisable
  <2>3. CASE ~ToEnable /\ ~ToDisable
    BY <1>3, <2>3 DEF SetOnline, ToEnable, ToDisable
  <2> QED
    BY <2>1, <2>2, <2>3
<1>4. CASE WriteFeatures
  BY <1>4 DEF WriteFeatures
<1>5. CASE WriteStatus
  BY <1>5 DEF WriteStatus
<1>6. CASE WriteVector
  BY <1>6 DEF WriteVector
<1>7. CASE Reset
  BY <1>7 DEF Reset, Disable
<1>8. CASE ClearRegisters
  <2>1. ConfigTypeOK'
    BY <1>8 DEF ClearRegisters
  <2>2. AttachInv' /\ LoopInv' /\ IrqInv' /\ GuestInv'
    BY <1>8 DEF ClearRegisters
  <2> QED
    BY <2>1, <2>2
<1>9. CASE Quiesce
  <2>1. in_loop' \in BOOLEAN /\ (in_loop' <=> entries > 0) /\ stale' = FALSE
    BY <1>9 DEF Quiesce
  <2>2. /\ step' = IF entries > 0 THEN "poll" ELSE "quiesce"
        /\ UNCHANGED <<Elsewhere, irq_wanted, entries, thrown>>
    BY <1>9 DEF Quiesce
  <2>3. step = "quiesce" /\ request # "off"
    BY <1>9 DEF Quiesce
  <2>4. ConfigTypeOK'
    BY <2>1, <2>2, <2>3
  <2>5. AttachInv' /\ LoopInv'
    BY <2>1, <2>2, <2>3
  <2>6. IrqInv' /\ GuestInv'
    BY <2>1, <2>2, <2>3
  <2> QED
    BY <2>4, <2>5, <2>6
<1>10. CASE PollPort
  BY <1>10 DEF PollPort
<1>11. CASE ReceiveBegin
  BY <1>11 DEF ReceiveBegin, Asked
<1>12. CASE ReceiveEnd
  BY <1>12 DEF ReceiveEnd
<1>13. CASE PollPortIrq
  BY <1>13 DEF PollPortIrq
<1>14. CASE ThrowOut
  BY <1>14 DEF ThrowOut
<1>15. CASE UNCHANGED configVars
  BY <1>15
<1> QED
  BY <1>1, <1>2, <1>3, <1>4, <1>5, <1>6, <1>7, <1>8, <1>9, <1>10, <1>11, <1>12, <1>13,
     <1>14, <1>15 DEF ConfigNext

-----------------------------------------------------------------------------
\* The inductive invariant holds in every state of every run.
THEOREM ConfigInvariance == ConfigSpec => []ConfigIInv
  BY ConfigStep, ConfigInitInv, PTL DEF ConfigSpec

\* The registers of the device and the places of both threads keep their types; in
\* particular the port is never in the list twice.
THEOREM ConfigTypeCorrect == ConfigSpec => []ConfigTypeOK
<1>1. ConfigIInv => ConfigTypeOK
  BY DEF ConfigIInv
<1> QED
  BY <1>1, ConfigInvariance, PTL

\* VirtioDevice::io_write attaches and detaches as the queues are set and taken away.
THEOREM ConfigAttaches == ConfigSpec => []AttachedAsConfigured
<1>1. ConfigIInv => AttachedAsConfigured
  BY DEF ConfigIInv, AttachInv, AttachedAsConfigured
<1> QED
  BY <1>1, ConfigInvariance, PTL

\* The loop finds the queues and the vector it uses, but in the two windows.
THEOREM ConfigUses == ConfigSpec => []UsesConfigured
<1>1. ConfigIInv => UsesConfigured
  BY DEF ConfigIInv, ConfigTypeOK, AttachInv, LoopInv, GuestInv, UsesConfigured
<1> QED
  BY <1>1, ConfigInvariance, PTL

\* PortBrokenException hits the guest that did wrong, but in the second window.
THEOREM ConfigThrowsOut == ConfigSpec => []ThrownOutIfWrong
<1>1. ConfigIInv => ThrownOutIfWrong
  BY DEF ConfigIInv, GuestInv, ThrownOutIfWrong
<1> QED
  BY <1>1, ConfigInvariance, PTL

-----------------------------------------------------------------------------
(* MacTable *)

\* A bucket of one way, with r in it.
Only(r) == [w \in Ways |-> r]

\* With one way, a bucket has what was learned last in it, whatever the hash.
TableInv ==
    /\ hash \in Hashes
    /\ learned \in [Buckets -> [v : TablePorts \cup {EMPTY}, k : Stations]]
    /\ buckets = [b \in Buckets |-> Only(learned[b])]

\* What a bucket's only way is, a lookup finds.
LEMMA LookupIs ==
    ASSUME WAYS = 1, TableInv, NEW key \in Stations
    PROVE  Lookup(key) = IF learned[hash[key]].k = key THEN learned[hash[key]].v ELSE EMPTY
<1>1. hash[key] \in Buckets
  BY DEF TableInv, Hashes
<1>2. Ways = {1}
  BY DEF Ways
<1>3. PICK l : l = learned[hash[key]]
  OBVIOUS
<1>4. buckets[hash[key]][1] = l
  BY <1>1, <1>2, <1>3 DEF TableInv, Only
<1>5. CASE l.k = key
  <2>1. {w \in Ways : buckets[hash[key]][w].k = key} = {1}
    BY <1>2, <1>4, <1>5
  <2>2. Min({1}) = 1
    BY DEF Min
  <2>3. Lookup(key) = buckets[hash[key]][1].v
    BY <2>1, <2>2 DEF Lookup
  <2> QED
    BY <1>3, <1>4, <1>5, <2>3
<1>6. CASE l.k # key
  <2>1. {w \in Ways : buckets[hash[key]][w].k = key} = {}
    BY <1>2, <1>4, <1>6
  <2> QED
    BY <1>3, <1>6, <2>1 DEF Lookup
<1> QED
  BY <1>5, <1>6

\* Adding to a bucket of one way replaces what was in it.
LEMMA AddedIs ==
    ASSUME WAYS = 1, NEW old, NEW slot, slot = Only(old), NEW key, NEW value
    PROVE  Added(slot, key, value) = Only([v |-> value, k |-> key])
<1> USE DEF Only
<1>1. Ways = {1} /\ slot[1] = old
  BY DEF Ways
<1>2. CASE old.v = EMPTY
  <2>1. {w \in Ways : slot[w].v = EMPTY} = {1}
    BY <1>1, <1>2
  <2>2. Min({1}) = 1
    BY DEF Min
  <2> QED
    BY <1>1, <2>1, <2>2 DEF Added
<1>3. CASE old.v # EMPTY
  <2>1. {w \in Ways : slot[w].v = EMPTY} = {}
    BY <1>1, <1>3
  <2> QED
    BY <1>1, <2>1 DEF Added
<1> QED
  BY <1>2, <1>3

LEMMA TableStep ==
    ASSUME WAYS = 1, TableInv, NEW port \in TablePorts, NEW src \in Stations \cup {Group},
           NEW dst \in Stations \cup {Group}, SwitchPacket(port, src, dst)
    PROVE  TableInv'
<1>1. hash' = hash /\ hash \in Hashes
  BY DEF SwitchPacket, TableInv
<1>2. CASE UNCHANGED <<buckets, learned>>
  BY <1>1, <1>2 DEF TableInv
<1>3. CASE src \in Stations /\ Learn(src, port)
  <2>1. PICK b \in Buckets : b = hash[src]
    BY <1>1, <1>3 DEF Hashes
  <2>2. PICK r \in [v : TablePorts \cup {EMPTY}, k : Stations] : r = [v |-> port, k |-> src]
    BY <1>3
  <2>3. learned' = [learned EXCEPT ![b] = r]
    BY <1>3, <2>1, <2>2 DEF Learn
  <2>4. buckets' = [buckets EXCEPT ![b] = Only(r)]
    <3>1. PICK old : old = learned[b]
      OBVIOUS
    <3>2. PICK slot : slot = buckets[b] /\ slot = Only(old)
      BY <3>1 DEF TableInv
    <3>3. Added(slot, src, port) = Only(r)
      BY <2>2, <3>2, AddedIs
    <3> QED
      BY <1>3, <2>1, <2>2, <3>2, <3>3 DEF Learn
  <2>5. learned' \in [Buckets -> [v : TablePorts \cup {EMPTY}, k : Stations]]
    BY <2>3 DEF TableInv
  <2>6. buckets' = [c \in Buckets |-> Only(learned'[c])]
    BY <2>3, <2>4 DEF TableInv
  <2> QED
    BY <1>1, <2>5, <2>6 DEF TableInv
<1>4. UNCHANGED <<buckets, learned>> \/ (src \in Stations /\ Learn(src, port))
  BY DEF SwitchPacket
<1> QED
  BY <1>2, <1>3, <1>4

LEMMA TableInvariance == ASSUME WAYS = 1 PROVE TableSpec => []TableInv
<1>1. TableInit(Hashes) => TableInv
  <2>1. [v |-> EMPTY, k |-> Zero] \in [v : TablePorts \cup {EMPTY}, k : Stations]
    BY TableAssumption
  <2> QED
    BY <2>1 DEF TableInit, TableInv, Only
<1>2. TableInv /\ [TableNext]_tableVars => TableInv'
  <2>1. ASSUME TableInv, UNCHANGED tableVars PROVE TableInv'
    BY <2>1 DEF TableInv, tableVars
  <2> QED
    BY <2>1, TableStep DEF TableNext
<1> QED
  BY <1>1, <1>2, PTL DEF TableSpec

\* For every hash function and any number of buckets of one way, as in the code:
\* work_quantum sends a packet to where its destination was learned at last and
\* nowhere else, or to all others if the bucket has another address.
THEOREM TableDelivers == ASSUME WAYS = 1 PROVE TableSpec => DeliversToLatest
<1> DEFINE Latest ==
        LET l == learned[hash[packet'.dst]]
        IN  sent_to' = (IF packet'.dst # Group /\ l.k = packet'.dst /\ l.v # EMPTY
                          THEN {l.v} ELSE TablePorts) \ {packet'.from}
<1>1. ASSUME TableInv, NEW port \in TablePorts, NEW src \in Stations \cup {Group},
             NEW dst \in Stations \cup {Group}, SwitchPacket(port, src, dst)
      PROVE  Latest
  <2>1. packet'.from = port /\ packet'.dst = dst
    BY <1>1 DEF SwitchPacket
  <2>2. port # EMPTY
    BY TableAssumption
  <2>3. CASE dst = Group
    BY <1>1, <2>1, <2>2, <2>3 DEF SwitchPacket
  <2>4. CASE dst # Group
    <3>1. PICK l : l = learned[hash[dst]]
      OBVIOUS
    <3>2. PICK to : to = IF l.k = dst THEN l.v ELSE EMPTY
      OBVIOUS
    <3>3. Lookup(dst) = to
      BY <1>1, <2>4, <3>1, <3>2, LookupIs
    <3>4. sent_to' = IF to = port THEN {} ELSE IF to # EMPTY THEN {to} ELSE TablePorts \ {port}
      BY <1>1, <2>4, <3>3 DEF SwitchPacket
    <3>5. sent_to' = (IF l.k = dst /\ l.v # EMPTY THEN {l.v} ELSE TablePorts) \ {port}
      BY <2>2, <3>2, <3>4
    <3> QED
      BY <2>1, <2>4, <3>1, <3>5
  <2> QED
    BY <2>3, <2>4
<1>2. TableInv /\ [TableNext]_tableVars => [Latest]_tableVars
  <2> HIDE DEF Latest
  <2> QED
    BY <1>1 DEF TableNext
<1>3. TableSpec => [][Latest]_tableVars
  <2> HIDE DEF Latest
  <2> QED
    BY <1>2, TableInvariance, PTL DEF TableSpec
<1> QED
  BY <1>3 DEF DeliversToLatest

-----------------------------------------------------------------------------
(* Checksum: numbers, sums and powers *)

\* Induction, over a set instead of a predicate.
LEMMA SetInduction ==
    ASSUME NEW N \in Nat, NEW S, 0 \in S, \A i \in 0 .. N - 1 : i \in S => i + 1 \in S
    PROVE  \A i \in 0 .. N : i \in S
<1> DEFINE Missing == {i \in Nat : i <= N /\ i \notin S}
<1>1. ASSUME Missing # {} PROVE FALSE
  <2>1. PICK m \in Missing : \A j \in Missing : ~ (<<j, m>> \in OpToRel(<, Nat))
    BY <1>1, NatLessThanWellFounded, WFMin
  <2>2. m \in Nat /\ m <= N /\ m \notin S /\ m # 0
    OBVIOUS
  <2>3. PICK j \in Nat : m = j + 1 /\ j \in 0 .. N - 1 /\ j <= N
    <3>1. m - 1 \in Nat /\ m = (m - 1) + 1 /\ m - 1 \in 0 .. N - 1 /\ m - 1 <= N
      BY <2>2
    <3> QED
      BY <3>1
  <2>4. <<j, m>> \in OpToRel(<, Nat)
    BY <2>2, <2>3 DEF OpToRel
  <2>5. j \in S
    <3>1. j \notin Missing
      BY <2>1, <2>4
    <3> QED
      BY <2>3, <3>1
  <2> QED
    BY <2>2, <2>3, <2>5
<1> QED
  BY <1>1

\* SumOf, unfolded: its CHOOSE has one function to choose, which the induction builds.
Addends(d, N) == \A i \in 0 .. N - 1 : d[i] \in Nat

PartialSums(d, N, s) ==
    /\ s \in [0 .. N -> Nat]
    /\ s[0] = 0 /\ SumOf(d, N) = s[N]
    /\ \A i \in 0 .. N - 1 : s[i + 1] = s[i] + d[i]

LEMMA SumUnfolds ==
    ASSUME NEW N \in Nat, NEW d, Addends(d, N)
    PROVE  \E s : PartialSums(d, N, s)
<1>0. \A i \in 0 .. N - 1 : d[i] \in Nat
  BY DEF Addends
<1> DEFINE Sums(s, m) == s[0] = 0 /\ \A i \in 0 .. m - 1 : s[i + 1] = s[i] + d[i]
           S == {m \in Nat : m <= N => \E s \in [0 .. m -> Nat] : Sums(s, m)}
<1>1. 0 \in S
  <2>1. [i \in 0 .. 0 |-> 0] \in [0 .. 0 -> Nat] /\ Sums([i \in 0 .. 0 |-> 0], 0)
    OBVIOUS
  <2> QED
    BY <2>1
<1>2. ASSUME NEW m \in 0 .. N - 1, m \in S PROVE m + 1 \in S
  <2>1. PICK s \in [0 .. m -> Nat] : Sums(s, m)
    BY <1>2
  <2>2. m + 1 \in Nat /\ m \in 0 .. m /\ d[m] \in Nat
    BY <1>0
  <2> DEFINE t == [i \in 0 .. m + 1 |-> IF i = m + 1 THEN s[m] + d[m] ELSE s[i]]
  <2>3. t \in [0 .. m + 1 -> Nat]
    <3> SUFFICES ASSUME NEW i \in 0 .. m + 1 PROVE (IF i = m + 1 THEN s[m] + d[m] ELSE s[i]) \in Nat
      OBVIOUS
    <3>1. s[m] \in Nat
      BY <2>1, <2>2
    <3>2. CASE i = m + 1
      BY <2>2, <3>1, <3>2
    <3>3. CASE i \in 0 .. m
      BY <2>1, <3>3
    <3> QED
      BY <3>2, <3>3
  <2>4. t[0] = 0
    BY <2>1
  <2>5. ASSUME NEW i \in 0 .. (m + 1) - 1 PROVE t[i + 1] = t[i] + d[i]
    <3>1. i \in 0 .. m + 1 /\ i + 1 \in 0 .. m + 1 /\ i # m + 1 /\ t[i] = s[i]
      OBVIOUS
    <3>2. CASE i = m
      BY <3>1, <3>2
    <3>3. CASE i # m
      <4>1. i \in 0 .. m - 1 /\ t[i + 1] = s[i + 1]
        BY <3>1, <3>3
      <4> QED
        BY <2>1, <3>1, <4>1
    <3> QED
      BY <3>2, <3>3
  <2>6. Sums(t, m + 1)
    BY <2>4, <2>5
  <2> HIDE DEF t
  <2> QED
    BY <2>2, <2>3, <2>6
<1>3. N \in S
  <2> HIDE DEF S
  <2> QED
    BY <1>1, <1>2, SetInduction
<1>4. PICK s \in [0 .. N -> Nat] : Sums(s, N)
  BY <1>3
<1> DEFINE Unfold(f) == [i \in 0 .. N |-> IF i = 0 THEN 0 ELSE f[i - 1] + d[i - 1]]
<1>5. s = Unfold(s)
  <2>1. ASSUME NEW i \in 0 .. N PROVE s[i] = IF i = 0 THEN 0 ELSE s[i - 1] + d[i - 1]
    <3>1. CASE i = 0
      BY <1>4, <3>1
    <3>2. CASE i # 0
      <4>1. PICK j \in 0 .. N - 1 : i = j + 1 /\ i - 1 = j
        <5>1. i - 1 \in 0 .. N - 1 /\ i = (i - 1) + 1
          BY <3>2
        <5> QED
          BY <5>1
      <4> QED
        BY <1>4, <3>2, <4>1
    <3> QED
      BY <3>1, <3>2
  <2> QED
    BY <1>4, <2>1
<1>6. ASSUME NEW f, f = Unfold(f) PROVE f = s
  <2>1. f[0] = 0
    BY <1>6
  <2>2. \A i \in 0 .. N - 1 : f[i + 1] = f[i] + d[i]
    <3> SUFFICES ASSUME NEW i \in 0 .. N - 1 PROVE f[i + 1] = f[i] + d[i]
      OBVIOUS
    <3>1. i + 1 \in 0 .. N /\ i + 1 # 0 /\ (i + 1) - 1 = i
      OBVIOUS
    <3>2. f[i + 1] = Unfold(f)[i + 1]
      BY <1>6
    <3> QED
      BY <3>1, <3>2
  <2> DEFINE E == {i \in Nat : f[i] = s[i]}
  <2>3. 0 \in E
    BY <1>4, <2>1
  <2>4. \A i \in 0 .. N - 1 : i \in E => i + 1 \in E
    BY <1>4, <2>2
  <2>5. \A i \in 0 .. N : i \in E
    <3> HIDE DEF E
    <3> QED
      BY <2>3, <2>4, SetInduction
  <2>6. f = [i \in 0 .. N |-> f[i]]
    <3>1. DOMAIN f = 0 .. N
      BY <1>6
    <3> QED
      BY <1>6, <3>1
  <2> QED
    BY <1>4, <2>5, <2>6
<1>7. SumOf(d, N) = (CHOOSE f : f = Unfold(f))[N]
  BY DEF SumOf
<1> HIDE DEF Unfold
<1>8. SumOf(d, N) = s[N]
  BY <1>5, <1>6, <1>7
<1> QED
  BY <1>4, <1>8 DEF PartialSums

LEMMA SumWidths ==
    /\ BYTE \in Nat /\ BYTE >= 2 /\ UNROLLED \in Nat /\ UNROLLED >= 1
    /\ LONG_WORDS \in Nat /\ LONG_WORDS >= 2 /\ \E h \in Nat : LONG_WORDS = 2 * h
    /\ LONG_BYTES = 2 * LONG_WORDS /\ LONG_BYTES \in Nat
  BY WidthAssumption DEF LONG_BYTES

\* The powers of BYTE, unfolded.
LEMMA PowersAre ==
    /\ Values \in [0 .. LONG_BYTES -> Nat] /\ Values[0] = 1
    /\ \A i \in 0 .. LONG_BYTES - 1 : Values[i + 1] = BYTE * Values[i]
    /\ \A i \in 0 .. LONG_BYTES : Values[i] \in Nat /\ Values[i] >= 1
<1> DEFINE N == LONG_BYTES
           Powers(v, m) == v[0] = 1 /\ \A i \in 0 .. m - 1 : v[i + 1] = BYTE * v[i]
           S == {m \in Nat : m <= N => \E v \in [0 .. m -> Nat] : Powers(v, m)}
<1>0. N \in Nat /\ BYTE \in Nat /\ BYTE >= 2
  BY SumWidths
<1> HIDE DEF N
<1>1. 0 \in S
  <2>1. [i \in 0 .. 0 |-> 1] \in [0 .. 0 -> Nat] /\ Powers([i \in 0 .. 0 |-> 1], 0)
    OBVIOUS
  <2> QED
    BY <2>1
<1>2. ASSUME NEW m \in 0 .. N - 1, m \in S PROVE m + 1 \in S
  <2>1. PICK v \in [0 .. m -> Nat] : Powers(v, m)
    BY <1>0, <1>2
  <2>2. m + 1 \in Nat /\ m \in 0 .. m
    BY <1>0
  <2>3. PICK x \in Nat : x = BYTE * v[m]
    BY <1>0, <2>1, <2>2
  <2> DEFINE t == [i \in 0 .. m + 1 |-> IF i = m + 1 THEN x ELSE v[i]]
  <2>4. t \in [0 .. m + 1 -> Nat]
    <3> SUFFICES ASSUME NEW i \in 0 .. m + 1 PROVE (IF i = m + 1 THEN x ELSE v[i]) \in Nat
      OBVIOUS
    <3>1. CASE i = m + 1
      BY <3>1
    <3>2. CASE i \in 0 .. m
      BY <2>1, <2>2, <3>2
    <3> QED
      BY <2>2, <3>1, <3>2
  <2>5. t[0] = 1
    BY <2>1, <2>2
  <2>6. ASSUME NEW i \in 0 .. (m + 1) - 1 PROVE t[i + 1] = BYTE * t[i]
    <3>1. i \in 0 .. m + 1 /\ i + 1 \in 0 .. m + 1 /\ i # m + 1 /\ t[i] = v[i]
      BY <2>2
    <3>2. CASE i = m
      BY <2>3, <3>1, <3>2
    <3>3. CASE i # m
      <4>1. i \in 0 .. m - 1 /\ t[i + 1] = v[i + 1]
        BY <2>2, <3>1, <3>3
      <4> QED
        BY <2>1, <3>1, <4>1
    <3> QED
      BY <3>2, <3>3
  <2>7. Powers(t, m + 1)
    BY <2>5, <2>6
  <2> HIDE DEF t
  <2> QED
    BY <2>2, <2>4, <2>7
<1>3. N \in S
  <2> HIDE DEF S
  <2> QED
    BY <1>0, <1>1, <1>2, SetInduction
<1>4. PICK v \in [0 .. N -> Nat] : Powers(v, N)
  BY <1>0, <1>3
<1> DEFINE Unfold(f) == [i \in 0 .. N |-> IF i = 0 THEN 1 ELSE BYTE * f[i - 1]]
<1>5. v = Unfold(v)
  <2>1. ASSUME NEW i \in 0 .. N PROVE v[i] = IF i = 0 THEN 1 ELSE BYTE * v[i - 1]
    <3>1. CASE i = 0
      BY <1>4, <3>1
    <3>2. CASE i # 0
      <4>1. PICK j \in 0 .. N - 1 : i = j + 1 /\ i - 1 = j
        <5>1. i - 1 \in 0 .. N - 1 /\ i = (i - 1) + 1
          BY <1>0, <3>2
        <5> QED
          BY <5>1
      <4> QED
        BY <1>4, <3>2, <4>1
    <3> QED
      BY <3>1, <3>2
  <2> QED
    BY <1>4, <2>1
<1>6. Values = CHOOSE f : f = Unfold(f)
  BY DEF Values, N
<1> HIDE DEF Unfold
<1>7. Values = Unfold(Values)
  BY <1>5, <1>6
<1> USE DEF Unfold
<1>8. Values[0] = 1
  BY <1>0, <1>7
<1>9. \A i \in 0 .. N - 1 : Values[i + 1] = BYTE * Values[i]
  <2> SUFFICES ASSUME NEW i \in 0 .. N - 1 PROVE Values[i + 1] = BYTE * Values[i]
    OBVIOUS
  <2>1. i + 1 \in 0 .. N /\ i + 1 # 0 /\ (i + 1) - 1 = i
    BY <1>0
  <2>2. Values[i + 1] = Unfold(Values)[i + 1]
    BY <1>7
  <2> QED
    BY <2>1, <2>2
<1> DEFINE E == {i \in Nat : Values[i] \in Nat /\ Values[i] >= 1}
<1>10. 0 \in E
  BY <1>8
<1>11. ASSUME NEW i \in 0 .. N - 1, i \in E PROVE i + 1 \in E
  <2>1. PICK x \in Nat : x = Values[i] /\ x >= 1
    BY <1>11
  <2>2. PICK b \in Nat, y \in Nat : b = BYTE /\ b >= 1 /\ x = y + 1
    <3>1. x - 1 \in Nat /\ x = (x - 1) + 1
      BY <2>1
    <3> QED
      BY <1>0, <3>1
  <2>3. PICK z \in Nat : z = b * x /\ z >= 1
    <3>1. b * x = b * y + b /\ b * y \in Nat
      BY <2>2
    <3> QED
      BY <2>2, <3>1
  <2>4. Values[i + 1] = z /\ i + 1 \in Nat
    <3>1. Values[i + 1] = BYTE * Values[i]
      BY <1>9
    <3>2. i + 1 \in Nat
      BY <1>0
    <3> QED
      BY <2>1, <2>2, <2>3, <3>1, <3>2
  <2> QED
    BY <2>3, <2>4
<1>12. \A i \in 0 .. N : i \in E
  <2> HIDE DEF E
  <2> QED
    BY <1>0, <1>10, <1>11, SetInduction
<1>13. Values = [i \in 0 .. N |-> Values[i]]
  <2>1. DOMAIN Values = 0 .. N
    BY <1>7
  <2> QED
    BY <1>7, <2>1
<1> QED
  BY <1>8, <1>9, <1>12, <1>13 DEF N

\* Division of natural numbers.
LEMMA DivisionIs ==
    ASSUME NEW n \in Nat, NEW b \in Nat, b >= 1
    PROVE  \E q \in Nat, r \in 0 .. b - 1 : n = b * q + r /\ n \div b = q /\ n % b = r
<1>1. n \div b \in Nat /\ n % b \in 0 .. b - 1 /\ n = b * (n \div b) + (n % b)
  OBVIOUS
<1> QED
  BY <1>1

LEMMA DivisionOf ==
    ASSUME NEW b \in Nat, b >= 1, NEW q \in Nat, NEW r \in 0 .. b - 1, NEW n, n = b * q + r
    PROVE  n \div b = q /\ n % b = r
  OBVIOUS

LEMMA DivisionTwice ==
    ASSUME NEW n \in Nat, NEW b \in Nat, b >= 1, NEW c \in Nat, c >= 1
    PROVE  (n \div b) \div c = n \div (b * c) /\ n % (b * c) = (n % b) + b * ((n \div b) % c)
<1>1. PICK q \in Nat, r \in 0 .. b - 1 : n = b * q + r /\ n \div b = q /\ n % b = r
  BY DivisionIs
<1>2. PICK p \in Nat, s \in 0 .. c - 1 : q = c * p + s /\ q \div c = p /\ q % c = s
  BY DivisionIs
<1>3. n = (b * c) * p + (b * s + r)
  BY <1>1, <1>2
<1>4. PICK t \in Nat : c = s + 1 + t
  <2>1. c - s - 1 \in Nat
    OBVIOUS
  <2> QED
    BY <2>1
<1>5. b * c = b * s + b + b * t /\ b * s \in Nat /\ b * t \in Nat /\ b * c \in Nat
  BY <1>4
<1>6. PICK d \in Nat, e \in Nat : d = b * c /\ e = b * s + r
  BY <1>5
<1>7. e \in 0 .. d - 1 /\ d >= 1 /\ n = d * p + e
  BY <1>3, <1>5, <1>6
<1>8. n \div d = p /\ n % d = e
  BY <1>7, DivisionOf
<1> QED
  BY <1>1, <1>2, <1>6, <1>8

\* The checksum of a number: modulo WORD - 1, and zero for zero only.
LEMMA WordIs == WORD \in Nat /\ WORD >= 4 /\ WORD = BYTE * BYTE /\ WORD - 1 \in Nat
<1>1. BYTE \in Nat /\ BYTE >= 2
  BY SumWidths
<1>2. PICK c \in Nat : BYTE = c + 2
  <2>1. BYTE - 2 \in Nat /\ BYTE = (BYTE - 2) + 2
    BY <1>1
  <2> QED
    BY <2>1
<1>3. WORD = c * c + 4 * c + 4 /\ c * c \in Nat
  BY <1>2 DEF WORD
<1> QED
  BY <1>3 DEF WORD

LEMMA ReduceIs ==
    ASSUME NEW n \in Nat
    PROVE  /\ Reduce(n) \in Nat /\ Reduce(n) <= WORD - 1 /\ (Reduce(n) = 0 <=> n = 0)
           /\ \E k \in Nat : n = Reduce(n) + (WORD - 1) * k
<1>1. PICK m \in Nat : m = WORD - 1 /\ m >= 1
  BY WordIs
<1>2. CASE n = 0
  <2>1. Reduce(n) = 0 /\ n = 0 + (WORD - 1) * 0
    BY <1>1, <1>2 DEF Reduce
  <2> QED
    BY <1>1, <1>2, <2>1
<1>3. CASE n # 0
  <2>1. PICK x \in Nat : x = n - 1 /\ n = x + 1
    <3>1. n - 1 \in Nat /\ n = (n - 1) + 1
      BY <1>3
    <3> QED
      BY <3>1
  <2>2. PICK q \in Nat, r \in 0 .. m - 1 : x = m * q + r /\ x \div m = q /\ x % m = r
    BY <1>1, DivisionIs
  <2>3. Reduce(n) = r + 1
    BY <1>1, <1>3, <2>1, <2>2 DEF Reduce
  <2>4. n = Reduce(n) + (WORD - 1) * q
    BY <1>1, <2>1, <2>2, <2>3
  <2>5. Reduce(n) \in Nat /\ Reduce(n) <= WORD - 1 /\ Reduce(n) # 0
    BY <1>1, <2>3
  <2> QED
    BY <1>3, <2>4, <2>5
<1> QED
  BY <1>2, <1>3

LEMMA ReduceOf ==
    ASSUME NEW n \in Nat, NEW r \in Nat, r <= WORD - 1, NEW k \in Int,
           n = r + (WORD - 1) * k, r = 0 <=> n = 0
    PROVE  Reduce(n) = r
<1>1. PICK m \in Nat : m = WORD - 1 /\ m >= 3
  BY WordIs
<1>2. CASE n = 0
  BY <1>2 DEF Reduce
<1>3. CASE n # 0
  <2>1. PICK s \in 0 .. m - 1 : r = s + 1
    <3>1. r - 1 \in 0 .. m - 1 /\ r = (r - 1) + 1
      BY <1>1, <1>3
    <3> QED
      BY <3>1
  <2>2. n - 1 = m * k + s /\ n - 1 \in Nat
    BY <1>1, <1>3, <2>1
  <2>3. k \in Nat
    <3>1. ASSUME k < 0 PROVE FALSE
      <4>1. PICK j \in Nat : k = - j - 1
        <5>1. - k - 1 \in Nat /\ k = - (- k - 1) - 1
          BY <3>1
        <5> QED
          BY <5>1
      <4>2. m * k = - (m * j) - m /\ m * j \in Nat
        BY <4>1
      <4> QED
        BY <2>2, <4>2
    <3> QED
      BY <3>1
  <2>4. (n - 1) % m = s
    BY <1>1, <2>2, <2>3, DivisionOf
  <2> QED
    BY <1>1, <1>3, <2>1, <2>4 DEF Reduce
<1> QED
  BY <1>2, <1>3

\* Two numbers have the same checksum if they differ by a multiple of WORD - 1, and
\* neither or both are zero.
Same(a, b) == Reduce(a) = Reduce(b)

LEMMA SameSelf == ASSUME NEW a PROVE Same(a, a)
  BY DEF Same

LEMMA SameVia == ASSUME NEW a, NEW b, NEW c, Same(a, b), Same(b, c) PROVE Same(a, c) /\ Same(b, a)
  BY DEF Same

LEMMA SameIf ==
    ASSUME NEW a \in Nat, NEW b \in Nat, NEW k \in Int, a = b + (WORD - 1) * k, a = 0 <=> b = 0
    PROVE  Same(a, b)
<1>1. PICK m \in Nat : m = WORD - 1
  BY WordIs
<1>2. PICK r \in Nat, j \in Nat :
          r = Reduce(b) /\ r <= m /\ (r = 0 <=> b = 0) /\ b = r + m * j
  BY <1>1, ReduceIs
<1>3. a = r + m * (j + k) /\ j + k \in Int
  BY <1>1, <1>2
<1> QED
  BY <1>1, <1>2, <1>3, ReduceOf DEF Same

LEMMA SameIs ==
    ASSUME NEW a \in Nat, NEW b \in Nat, Same(a, b)
    PROVE  (a = 0 <=> b = 0) /\ \E k \in Int : a = b + (WORD - 1) * k
<1>1. PICK m \in Nat : m = WORD - 1
  BY WordIs
<1>2. PICK r \in Nat, j \in Nat : r = Reduce(b) /\ (r = 0 <=> b = 0) /\ b = r + m * j
  BY <1>1, ReduceIs
<1>3. PICK i \in Nat : (r = 0 <=> a = 0) /\ a = r + m * i
  <2>1. r = Reduce(a)
    BY <1>2 DEF Same
  <2> QED
    BY <1>1, <2>1, ReduceIs
<1>4. PICK k \in Int : a = b + m * k
  <2>1. PICK x \in Nat, y \in Nat : x = m * i /\ y = m * j
    OBVIOUS
  <2>2. m * (i - j) = x - y /\ i - j \in Int
    BY <2>1
  <2>3. b = r + y
    BY <1>2, <2>1
  <2>4. a = r + x
    BY <1>3, <2>1
  <2>5. a = b + (x - y)
    BY <2>3, <2>4
  <2> QED
    BY <2>2, <2>5
<1> QED
  BY <1>1, <1>2, <1>3, <1>4

LEMMA SameSum ==
    ASSUME NEW a \in Nat, NEW b \in Nat, NEW c \in Nat, NEW d \in Nat, Same(a, b), Same(c, d)
    PROVE  Same(a + c, b + d)
<1>1. PICK m \in Nat : m = WORD - 1
  BY WordIs
<1>2. PICK k \in Int : a = b + m * k /\ (a = 0 <=> b = 0)
  BY <1>1, SameIs
<1>3. PICK l \in Int : c = d + m * l /\ (c = 0 <=> d = 0)
  BY <1>1, SameIs
<1>4. a + c = (b + d) + m * (k + l) /\ k + l \in Int /\ a + c \in Nat /\ b + d \in Nat
  BY <1>2, <1>3
<1>5. a + c = 0 <=> b + d = 0
  BY <1>2, <1>3
<1> QED
  BY <1>1, <1>4, <1>5, SameIf

LEMMA SameProduct ==
    ASSUME NEW a \in Nat, NEW b \in Nat, NEW c \in Nat, Same(a, b)
    PROVE  Same(a * c, b * c) /\ Same(c * a, c * b)
<1>1. PICK m \in Nat : m = WORD - 1
  BY WordIs
<1>2. PICK k \in Int : a = b + m * k /\ (a = 0 <=> b = 0)
  BY <1>1, SameIs
<1>3. a * c = b * c + m * (k * c) /\ k * c \in Int /\ a * c \in Nat /\ b * c \in Nat
  BY <1>2
<1>4. a * c = 0 <=> b * c = 0
  <2>1. CASE a = 0
    BY <1>2, <2>1
  <2>2. CASE a # 0
    <3>1. PICK x \in Nat, y \in Nat : a = x + 1 /\ b = y + 1
      <4>1. a - 1 \in Nat /\ b - 1 \in Nat /\ a = (a - 1) + 1 /\ b = (b - 1) + 1
        BY <1>2, <2>2
      <4> QED
        BY <4>1
    <3>2. a * c = x * c + c /\ b * c = y * c + c /\ x * c \in Nat /\ y * c \in Nat
      BY <3>1
    <3> QED
      BY <3>2
  <2> QED
    BY <2>1, <2>2
<1>5. c * a = a * c /\ c * b = b * c
  OBVIOUS
<1> QED
  BY <1>1, <1>3, <1>4, <1>5, SameIf

\* WORD counts as one, and what was reduced already as itself.
LEMMA SameWord == ASSUME NEW n \in Nat PROVE Same(WORD * n, n) /\ WORD * n \in Nat
<1>1. PICK m \in Nat : m = WORD - 1 /\ WORD = m + 1
  BY WordIs
<1>2. WORD * n = n + m * n /\ m * n \in Nat
  BY <1>1
<1>3. WORD * n = 0 <=> n = 0
  <2>1. n = 0 => m * n = 0
    OBVIOUS
  <2> QED
    BY <1>2, <2>1
<1> QED
  BY <1>1, <1>2, <1>3, SameIf

LEMMA SameReduced == ASSUME NEW n \in Nat PROVE Same(Reduce(n), n) /\ Reduce(n) \in Nat
<1>1. PICK r \in Nat, k \in Nat : r = Reduce(n) /\ r <= WORD - 1 /\ (r = 0 <=> n = 0) /\ n = r + (WORD - 1) * k
  BY ReduceIs
<1>2. r = r + (WORD - 1) * 0
  BY WordIs
<1>3. Reduce(r) = r
  BY <1>1, <1>2, ReduceOf
<1> QED
  BY <1>1, <1>3 DEF Same

\* Powers of WORD count as one, other powers of BYTE as BYTE.
LEMMA PowersCount ==
    \A i \in 0 .. LONG_BYTES : Same(Values[i], IF i % 2 = 0 THEN 1 ELSE BYTE)
<1> DEFINE Power(i) == IF i % 2 = 0 THEN 1 ELSE BYTE
           S == {i \in Nat : Same(Values[i], Power(i))}
<1>1. 0 \in S
  BY PowersAre DEF Same
<1>2. ASSUME NEW i \in 0 .. LONG_BYTES - 1, i \in S PROVE i + 1 \in S
  <2>1. PICK v \in Nat, b \in Nat : v = Values[i] /\ b = BYTE
    BY SumWidths, PowersAre
  <2>2. Values[i + 1] = b * v /\ i + 1 \in Nat
    BY <2>1, PowersAre
  <2>3. CASE i % 2 = 0
    <3>1. (i + 1) % 2 # 0 /\ Same(v, 1)
      BY <1>2, <2>1, <2>3
    <3>2. Same(b * v, b * 1)
      BY <3>1, SameProduct
    <3> QED
      BY <2>1, <2>2, <3>1, <3>2
  <2>4. CASE i % 2 # 0
    <3>1. (i + 1) % 2 = 0 /\ Same(v, b)
      BY <1>2, <2>1, <2>4
    <3>2. Same(b * v, b * b)
      BY <3>1, SameProduct
    <3>3. Same(WORD * 1, 1) /\ WORD * 1 = b * b
      BY <2>1, WordIs, SameWord
    <3> QED
      BY <2>1, <2>2, <3>1, <3>2, <3>3 DEF Same
  <2> QED
    BY <2>3, <2>4
<1> QED
  <2>1. \A i \in 0 .. LONG_BYTES : i \in S
    <3> HIDE DEF S
    <3> QED
      BY <1>1, <1>2, SumWidths, SetInduction
  <2> QED
    BY <2>1

\* LONG and HALF count as one.
LEMMA LongIs ==
    /\ LONG \in Nat /\ HALF \in Nat /\ HALF >= 1 /\ HALF <= LONG /\ WORD <= LONG
    /\ Same(LONG, 1) /\ Same(HALF, 1)
<1>1. PICK N \in Nat : N = LONG_BYTES /\ N = 2 * LONG_WORDS /\ LONG_WORDS \in 0 .. N /\ LONG_WORDS >= 2 /\ N >= 4
  BY SumWidths
<1>2. LONG = Values[N] /\ HALF = Values[LONG_WORDS] /\ LONG \in Nat /\ HALF \in Nat /\ HALF >= 1
  BY <1>1, PowersAre DEF LONG, HALF
<1>3. N % 2 = 0 /\ LONG_WORDS % 2 = 0
  BY <1>1, SumWidths
<1>4. Same(LONG, 1) /\ Same(HALF, 1)
  BY <1>1, <1>2, <1>3, PowersCount
<1>5. ASSUME NEW l \in 0 .. N PROVE Values[l] <= LONG
  <2> DEFINE S == {i \in Nat : i >= l => Values[l] <= Values[i]}
  <2>1. 0 \in S
    BY PowersAre
  <2>2. ASSUME NEW i \in 0 .. N - 1, i \in S PROVE i + 1 \in S
    <3>1. PICK v \in Nat, b \in Nat : v = Values[i] /\ b = BYTE /\ b >= 1
      BY <1>1, SumWidths, PowersAre
    <3>2. PICK c \in Nat : b = c + 1
      <4>1. b - 1 \in Nat /\ b = (b - 1) + 1
        BY <3>1
      <4> QED
        BY <4>1
    <3>3. Values[i + 1] = c * v + v /\ c * v \in Nat
      <4>1. Values[i + 1] = b * v
        BY <1>1, <3>1, PowersAre
      <4>2. b * v = c * v + v /\ c * v \in Nat
        BY <3>2
      <4> QED
        BY <4>1, <4>2
    <3>4. PICK w \in Nat : w = Values[l]
      BY <1>1, PowersAre
    <3>5. CASE i + 1 = l
      BY <3>3, <3>4, <3>5
    <3>6. CASE i >= l
      BY <2>2, <3>1, <3>3, <3>4, <3>6
    <3> QED
      BY <3>5, <3>6
  <2>3. \A i \in 0 .. N : i \in S
    <3> HIDE DEF S
    <3> QED
      BY <2>1, <2>2, SetInduction
  <2> QED
    BY <1>2, <2>3
<1>6. WORD = Values[2]
  <2>1. Values[0 + 1] = BYTE * Values[0] /\ Values[1 + 1] = BYTE * Values[1] /\ Values[0] = 1
    BY <1>1, PowersAre
  <2> QED
    BY <2>1, SumWidths, WordIs
<1> QED
  BY <1>1, <1>2, <1>4, <1>5, <1>6

-----------------------------------------------------------------------------
(* Checksum: words and bytes of a long *)

\* The words of a number are worth as much as the number.
LEMMA Words ==
    ASSUME NEW n \in 0 .. LONG - 1
    PROVE  WordSum(n) \in Nat /\ Same(WordSum(n), n)
<1>1. PICK N \in Nat : N = LONG_WORDS
  BY SumWidths
<1>2. PICK d : d = [i \in 0 .. N - 1 |-> WordOf(n, i)]
  OBVIOUS
<1>3. n \in Nat /\ LONG_BYTES = 2 * N
  BY <1>1, SumWidths, LongIs
<1>4. PICK c \in Nat : c = WORD /\ c >= 1
  BY WordIs
<1>5. ASSUME NEW i \in 0 .. N - 1
      PROVE  \E v \in Nat, q \in Nat, w \in Nat :
                 /\ v = Values[2 * i] /\ v >= 1 /\ q = n \div Values[2 * (i + 1)] /\ w = WordOf(n, i)
                 /\ n \div v = c * q + w
  <2>1. PICK v \in Nat : v = Values[2 * i] /\ v >= 1
    BY <1>3, PowersAre
  <2>2. Values[2 * (i + 1)] = v * c
    <3>1. 2 * i \in 0 .. LONG_BYTES - 1 /\ 2 * i + 1 \in 0 .. LONG_BYTES - 1 /\ (2 * i + 1) + 1 = 2 * (i + 1)
      BY <1>3
    <3>2. Values[2 * i + 1] = BYTE * v /\ Values[2 * (i + 1)] = BYTE * (BYTE * v)
      BY <2>1, <3>1, PowersAre
    <3> QED
      BY <1>4, <3>2, SumWidths, WordIs
  <2>3. PICK p \in Nat : p = n \div v
    BY <1>3, <2>1, DivisionIs
  <2>4. PICK q \in Nat, w \in 0 .. c - 1 : p = c * q + w /\ p \div c = q /\ p % c = w
    BY <1>4, DivisionIs
  <2>5. n \div (v * c) = q
    <3>1. n \in Nat /\ v >= 1 /\ c >= 1
      BY <1>3, <1>4, <2>1
    <3>2. (n \div v) \div c = n \div (v * c)
      BY <3>1, DivisionTwice, ZenonT(30)
    <3> QED
      BY <2>3, <2>4, <3>2
  <2>6. w = WordOf(n, i)
    BY <1>4, <2>1, <2>3, <2>4 DEF WordOf
  <2> QED
    BY <2>1, <2>2, <2>3, <2>4, <2>5, <2>6
<1>6. \A i \in 0 .. N - 1 : d[i] = WordOf(n, i)
  BY <1>2
<1>7. \A i \in 0 .. N - 1 : d[i] \in Nat
  BY <1>5, <1>6
<1>8. PICK s : PartialSums(d, N, s)
  BY <1>7, SumUnfolds DEF Addends
<1>9. /\ s \in [0 .. N -> Nat] /\ s[0] = 0 /\ SumOf(d, N) = s[N]
      /\ \A i \in 0 .. N - 1 : s[i + 1] = s[i] + d[i]
  BY <1>8 DEF PartialSums
<1>10. WordSum(n) = s[N] /\ s[N] \in Nat
  BY <1>1, <1>9, <1>2 DEF WordSum
<1> DEFINE S == {i \in Nat : \E q \in Nat : q = n \div Values[2 * i] /\ Same(s[i] + q, n)}
<1>11. 0 \in S
  <2>1. n \div 1 = n /\ 0 + n = n
    BY <1>3
  <2>2. Values[2 * 0] = 1
    BY PowersAre
  <2> QED
    BY <1>3, <1>9, <2>1, <2>2 DEF Same
<1>12. ASSUME NEW i \in 0 .. N - 1, i \in S PROVE i + 1 \in S
  <2>1. PICK v \in Nat, q \in Nat, w \in Nat :
            /\ v = Values[2 * i] /\ q = n \div Values[2 * (i + 1)] /\ w = d[i]
            /\ n \div v = c * q + w
    <3>1. PICK v \in Nat, q \in Nat, w \in Nat :
              /\ v = Values[2 * i] /\ v >= 1 /\ q = n \div Values[2 * (i + 1)] /\ w = WordOf(n, i)
              /\ n \div v = c * q + w
      BY <1>5
    <3> QED
      BY <1>6, <3>1
  <2>2. PICK t \in Nat : t = s[i] /\ s[i + 1] = t + w
    BY <1>3, <1>9, <2>1
  <2>3. Same(t + (c * q + w), n)
    BY <1>12, <2>1, <2>2
  <2>4. PICK x \in Nat : x = c * q /\ Same(x, q)
    BY <1>4, SameWord
  <2>5. Same((t + w) + x, (t + w) + q)
    <3>1. t + w \in Nat /\ Same(t + w, t + w)
      BY DEF Same
    <3> QED
      BY <2>4, <3>1, SameSum
  <2>6. t + (c * q + w) = (t + w) + x
    BY <2>4
  <2>7. Same(s[i + 1] + q, n)
    BY <2>2, <2>3, <2>5, <2>6 DEF Same
  <2> QED
    BY <2>1, <2>7
<1>13. N \in S
  <2>1. \A i \in 0 .. N : i \in S
    <3> HIDE DEF S
    <3> QED
      BY <1>3, <1>11, <1>12, SetInduction
  <2> QED
    BY <1>3, <2>1
<1>14. n \div LONG = 0
  <2>1. n \in 0 .. LONG - 1 /\ LONG \in Nat /\ LONG >= 1 /\ n = LONG * 0 + n
    BY LongIs
  <2> QED
    BY <2>1, DivisionOf
<1>15. Same(s[N] + 0, n)
  BY <1>3, <1>13, <1>14 DEF LONG
<1> QED
  BY <1>10, <1>15

\* fold keeps what it does not lose.
LEMMA FoldIs ==
    ASSUME NEW n \in 0 .. LONG - 1
    PROVE  Fold(n) \in 0 .. WORD - 1 /\ FoldLoses(n) \in Nat /\ Same(Fold(n) + FoldLoses(n), n)
<1>1. PICK c \in Nat, x \in Nat : c = WORD /\ c >= 1 /\ x = WordSum(n) /\ Same(x, n)
  BY Words, WordIs
<1>2. PICK q \in Nat, r \in 0 .. c - 1 : x = c * q + r /\ x \div c = q /\ x % c = r
  BY <1>1, DivisionIs
<1>3. PICK y \in Nat : y = r + q
  OBVIOUS
<1>4. PICK p \in Nat, t \in 0 .. c - 1 : y = c * p + t /\ y \div c = p /\ y % c = t
  BY <1>1, DivisionIs
<1>5. Fold(n) = t
  <2>1. PICK z \in Nat, w \in Nat : z = x + q /\ w = q + p
    OBVIOUS
  <2>2. z = c * w + t
    BY <1>2, <1>3, <1>4, <2>1
  <2>3. z % c = t
    <3>1. c >= 1
      BY <1>1
    <3> QED
      BY <2>2, <3>1, DivisionOf
  <2> QED
    BY <1>1, <1>2, <2>1, <2>3 DEF Fold
<1>6. FoldLoses(n) = p
  BY <1>1, <1>2, <1>3, <1>4 DEF FoldLoses
<1>7. PICK u \in Nat, v \in Nat : u = c * q /\ v = c * p /\ Same(u, q) /\ Same(v, p)
  BY <1>1, SameWord
<1>8. Same(v + t, p + t) /\ Same(u + r, q + r)
  <2>1. t \in Nat /\ r \in Nat /\ Same(t, t) /\ Same(r, r)
    BY DEF Same
  <2> QED
    BY <1>7, <2>1, SameSum
<1>9. v + t = q + r /\ u + r = x /\ p + t = t + p
  BY <1>2, <1>3, <1>4, <1>7
<1> QED
  BY <1>1, <1>4, <1>5, <1>6, <1>8, <1>9 DEF Same

LEMMA Swap16Is ==
    ASSUME NEW n \in 0 .. WORD - 1
    PROVE  Swap16(n) \in 0 .. WORD - 1 /\ Same(Swap16(n), BYTE * n)
<1>1. PICK b \in Nat : b = BYTE /\ b >= 1 /\ WORD = b * b
  BY SumWidths, WordIs
<1>2. PICK x \in Nat : x = n /\ x < b * b
  BY <1>1
<1>3. PICK q \in Nat, r \in 0 .. b - 1 : x = b * q + r /\ x \div b = q /\ x % b = r
  BY <1>1, DivisionIs
<1>4. q < b
  <2>1. ASSUME q >= b PROVE FALSE
    <3>1. PICK d \in Nat : q = b + d
      <4>1. q - b \in Nat /\ q = b + (q - b)
        BY <2>1
      <4> QED
        BY <4>1
    <3>2. b * q = b * b + b * d /\ b * d \in Nat /\ b * b \in Nat
      BY <3>1
    <3> QED
      BY <1>2, <1>3, <3>2
  <2> QED
    BY <2>1
<1>5. Swap16(n) = r * b + q
  BY <1>1, <1>2, <1>3 DEF Swap16
<1>6. r * b + q \in 0 .. WORD - 1
  <2>1. PICK e \in Nat : b = r + 1 + e
    <3>1. b - r - 1 \in Nat /\ b = r + 1 + (b - r - 1)
      OBVIOUS
    <3> QED
      BY <3>1
  <2>2. b * b = r * b + b + e * b /\ r * b \in Nat /\ e * b \in Nat
    BY <2>1
  <2> QED
    BY <1>1, <1>4, <2>2
<1>7. PICK y \in Nat : y = WORD * q /\ Same(y, q)
  BY SameWord
<1>8. BYTE * n = r * b + y /\ r * b \in Nat
  <2>1. b * x = b * (b * q) + b * r
    BY <1>3
  <2>2. b * (b * q) = (b * b) * q /\ b * r = r * b /\ r * b \in Nat
    OBVIOUS
  <2> QED
    BY <1>1, <1>2, <1>7, <2>1, <2>2
<1>9. Same(r * b + y, r * b + q)
  BY <1>7, <1>8, SameSum DEF Same
<1> QED
  BY <1>5, <1>6, <1>8, <1>9 DEF Same

\* n, cut in two at LONG or HALF.
LEMMA CutIs ==
    ASSUME NEW n \in Nat, NEW w \in {LONG, HALF}
    PROVE  /\ n % w \in 0 .. w - 1 /\ n \div w \in Nat /\ n \div w <= n
           /\ Same((n % w) + (n \div w), n) /\ n = w * (n \div w) + (n % w)
<1>1. PICK v \in Nat : v = w /\ v >= 1 /\ Same(v, 1)
  BY LongIs
<1>2. PICK q \in Nat, r \in 0 .. v - 1 : n = v * q + r /\ n \div v = q /\ n % v = r
  BY <1>1, DivisionIs
<1>3. PICK x \in Nat : x = v * q
  OBVIOUS
<1>4. Same(x, q)
  BY <1>1, <1>3, SameProduct
<1>5. Same(r + x, r + q)
  <2>1. r \in Nat /\ Same(r, r)
    BY DEF Same
  <2> QED
    BY <1>4, <2>1, SameSum
<1>6. q <= x
  <2>1. PICK e \in Nat : v = e + 1
    <3>1. v - 1 \in Nat /\ v = (v - 1) + 1
      BY <1>1
    <3> QED
      BY <3>1
  <2>2. v * q = e * q + q /\ e * q \in Nat
    BY <2>1
  <2> QED
    BY <1>3, <2>2
<1>7. n = r + x
  BY <1>2, <1>3
<1> QED
  BY <1>1, <1>2, <1>3, <1>5, <1>6, <1>7 DEF Same

\* The carry flag: what add and adc leave of a sum, and what goes around the end.
LEMMA CarryIs ==
    ASSUME NEW s \in Nat, s <= 2 * LONG - 2
    PROVE  /\ s % LONG \in 0 .. LONG - 1 /\ s \div LONG \in {0, 1}
           /\ s \div LONG = 1 => (s % LONG) + 1 < LONG
           /\ Same((s % LONG) + (s \div LONG), s)
<1>1. PICK l \in Nat : l = LONG /\ l >= 1
  BY LongIs
<1>2. PICK q \in Nat, r \in 0 .. l - 1 : s = l * q + r /\ s \div l = q /\ s % l = r
  BY <1>1, DivisionIs
<1>3. q \in {0, 1}
  <2>1. ASSUME q >= 2 PROVE FALSE
    <3>1. PICK e \in Nat : q = e + 2
      <4>1. q - 2 \in Nat /\ q = (q - 2) + 2
        BY <2>1
      <4> QED
        BY <4>1
    <3>2. l * q = l * e + 2 * l /\ l * e \in Nat
      BY <3>1
    <3> QED
      BY <1>1, <1>2, <3>2
  <2> QED
    BY <2>1
<1>4. q = 1 => r + 1 < l
  BY <1>1, <1>2
<1>5. Same(r + q, s)
  BY <1>1, <1>2, CutIs
<1> QED
  BY <1>1, <1>2, <1>3, <1>4, <1>5

\* add loses no carry, if both operands are not the largest values.
LEMMA AddIs ==
    ASSUME NEW a \in Nat, NEW b \in Nat, a + b <= 2 * LONG - 2
    PROVE  Add(a, b) \in 0 .. LONG - 1 /\ Same(Add(a, b), a + b)
<1>1. PICK s \in Nat, l \in Nat : s = a + b /\ l = LONG
  BY LongIs
<1>2. PICK q \in {0, 1}, r \in 0 .. l - 1 :
          q = s \div LONG /\ r = s % LONG /\ (q = 1 => r + 1 < l) /\ Same(r + q, s)
  BY <1>1, CarryIs
<1>3. Add(a, b) = r + q
  BY <1>1, <1>2 DEF Add
<1> QED
  BY <1>1, <1>2, <1>3

\* LONG - HALF counts as nothing.
LEMMA SignExtendIs ==
    ASSUME NEW n \in 0 .. HALF - 1
    PROVE  SignExtend(n) \in 0 .. LONG - 1 /\ Same(SignExtend(n), n)
<1>1. PICK l \in Nat, h \in Nat : l = LONG /\ h = HALF /\ h >= 1 /\ h <= l /\ Same(l, 1) /\ Same(h, 1)
  BY LongIs
<1>2. CASE 2 * n >= HALF
  <2>1. PICK m \in Nat : m = WORD - 1
    BY WordIs
  <2>2. PICK k \in Int, j \in Int : l = 1 + m * k /\ h = 1 + m * j
    BY <1>1, <2>1, SameIs
  <2>3. m * (k - j) = m * k - m * j /\ k - j \in Int
    OBVIOUS
  <2>4. PICK x \in Int, y \in Int : x = m * k /\ y = m * j
    OBVIOUS
  <2>5. n + l - h = n + m * (k - j)
    <3>1. l = 1 + x /\ h = 1 + y /\ m * (k - j) = x - y
      BY <2>2, <2>3, <2>4
    <3> QED
      BY <3>1
  <2>6. n + l - h \in 0 .. l - 1 /\ n + l - h # 0 /\ n # 0
    BY <1>1, <1>2
  <2>7. SignExtend(n) = n + l - h
    BY <1>1, <1>2 DEF SignExtend
  <2>8. Same(n + l - h, n)
    BY <2>1, <2>3, <2>5, <2>6, SameIf
  <2> QED
    BY <1>1, <2>6, <2>7, <2>8
<1>3. CASE ~ (2 * n >= HALF)
  BY <1>1, <1>3 DEF SignExtend, Same
<1> QED
  BY <1>2, <1>3

\* bswapl is worth a factor of BYTE, as LONG_BYTES is even: byte i moves from Values[i]
\* to Values[LONG_BYTES - 1 - i].
LEMMA SwapLongIs ==
    ASSUME NEW n \in 0 .. LONG - 1
    PROVE  SwapLong(n) \in 0 .. LONG - 1 /\ Same(SwapLong(n), BYTE * n)
<1>1. PICK N \in Nat : N = LONG_BYTES /\ N = 2 * LONG_WORDS
  BY SumWidths
<1>2. PICK b \in Nat : b = BYTE /\ b >= 1
  BY SumWidths
<1>3. n \in Nat
  BY LongIs
<1>4. PICK d : d = [i \in 0 .. N - 1 |-> ByteOf(n, i) * Values[N - 1 - i]]
  OBVIOUS
\* Byte i: its value, where it comes from and where it goes.
<1>5. ASSUME NEW i \in 0 .. N - 1
      PROVE  \E v \in Nat, u \in Nat, w \in Nat, y \in 0 .. b - 1 :
                 /\ v = Values[i] /\ w = n % v /\ Values[i + 1] = b * v
                 /\ n % Values[i + 1] = w + v * y
                 /\ u = Values[N - 1 - i] /\ Values[N - i] = b * u /\ Same(u, b * v)
                 /\ d[i] = y * u
  <2>1. PICK v \in Nat : v = Values[i] /\ v >= 1
    BY <1>1, PowersAre
  <2>2. N - 1 - i \in 0 .. N - 1 /\ N - i = (N - 1 - i) + 1 /\ N - 1 - i \in 0 .. N /\ i \in 0 .. N
    OBVIOUS
  <2>3. PICK j \in 0 .. N - 1 : j = N - 1 - i /\ N - i = j + 1 /\ i + j + 1 = N
    BY <2>2
  <2>4. PICK u \in Nat : u = Values[j]
    <3>1. j \in 0 .. N
      OBVIOUS
    <3> QED
      BY <1>1, <3>1, PowersAre
  <2>5. Values[i + 1] = b * v /\ Values[N - i] = b * u
    BY <1>1, <1>2, <2>1, <2>3, <2>4, PowersAre
  <2>6. PICK w \in Nat, p \in Nat : w = n % v /\ p = n \div v
    BY <1>3, <2>1, DivisionIs
  <2>7. PICK y \in 0 .. b - 1 : y = p % b
    BY <1>2, DivisionIs
  <2>8. n % Values[i + 1] = w + v * y
    <3>1. v >= 1 /\ b >= 1
      BY <1>2, <2>1
    <3>2. n % (v * b) = (n % v) + v * ((n \div v) % b)
      BY <1>3, <3>1, DivisionTwice, ZenonT(30)
    <3>3. v * b = b * v
      OBVIOUS
    <3> QED
      BY <2>5, <2>6, <2>7, <3>2, <3>3
  <2>9. Same(u, b * v)
    <3>1. i \in 0 .. N /\ j \in 0 .. N
      OBVIOUS
    <3>2. Same(v, IF i % 2 = 0 THEN 1 ELSE b) /\ Same(u, IF j % 2 = 0 THEN 1 ELSE b)
      BY <1>1, <1>2, <2>1, <2>4, <3>1, PowersCount
    <3>3. CASE i % 2 = 0
      <4>1. j % 2 # 0
        BY <1>1, <2>3, <3>3, SumWidths
      <4>2. Same(u, b) /\ Same(v, 1)
        BY <3>2, <3>3, <4>1
      <4>3. Same(b * v, b * 1) /\ b * 1 = b
        BY <4>2, SameProduct
      <4> QED
        BY <4>2, <4>3 DEF Same
    <3>4. CASE i % 2 # 0
      <4>1. j % 2 = 0
        BY <1>1, <2>3, <3>4, SumWidths
      <4>2. Same(u, 1) /\ Same(v, b)
        BY <3>2, <3>4, <4>1
      <4>3. Same(b * v, b * b)
        BY <4>2, SameProduct
      <4>4. Same(b * b, 1)
        <5>1. Same(WORD * 1, 1) /\ WORD * 1 = WORD /\ WORD = b * b
          BY <1>2, SameWord, WordIs
        <5> QED
          BY <5>1
      <4> QED
        BY <4>2, <4>3, <4>4 DEF Same
    <3> QED
      BY <3>3, <3>4
  <2>10. d[i] = y * u
    <3>1. ByteOf(n, i) = y
      BY <1>2, <2>1, <2>6, <2>7 DEF ByteOf
    <3> QED
      BY <1>4, <2>3, <2>4, <3>1
  <2> QED
    BY <2>1, <2>3, <2>4, <2>5, <2>6, <2>7, <2>8, <2>9, <2>10
<1>6. Addends(d, N)
  <2> SUFFICES ASSUME NEW i \in 0 .. N - 1 PROVE d[i] \in Nat
    BY DEF Addends
  <2>1. PICK u \in Nat, y \in 0 .. b - 1 : d[i] = y * u
    BY <1>5
  <2> QED
    BY <2>1
<1>7. PICK s : PartialSums(d, N, s)
  BY <1>6, SumUnfolds
<1>8. /\ s \in [0 .. N -> Nat] /\ s[0] = 0 /\ SumOf(d, N) = s[N]
      /\ \A i \in 0 .. N - 1 : s[i + 1] = s[i] + d[i]
  BY <1>7 DEF PartialSums
<1>9. SwapLong(n) = s[N] /\ s[N] \in Nat
  BY <1>1, <1>4, <1>8 DEF SwapLong
<1> DEFINE S == {i \in Nat : \E w \in Nat : w = n % Values[i] /\ Same(s[i], b * w)}
           T == {i \in Nat : s[i] + Values[N - i] <= LONG}
<1>10. 0 \in S /\ 0 \in T
  <2>1. n % 1 = 0 /\ Values[0] = 1 /\ Values[N - 0] = LONG /\ LONG \in Nat
    BY <1>1, <1>3, PowersAre, LongIs DEF LONG
  <2>2. b * 0 = 0
    OBVIOUS
  <2> QED
    BY <1>8, <2>1, <2>2 DEF Same
<1>11. ASSUME NEW i \in 0 .. N - 1 PROVE (i \in S => i + 1 \in S) /\ (i \in T => i + 1 \in T)
  <2>1. PICK v \in Nat, u \in Nat, w \in Nat, y \in 0 .. b - 1 :
            /\ v = Values[i] /\ w = n % v /\ Values[i + 1] = b * v
            /\ n % Values[i + 1] = w + v * y
            /\ u = Values[N - 1 - i] /\ Values[N - i] = b * u /\ Same(u, b * v)
            /\ d[i] = y * u
    BY <1>5
  <2>2. PICK t \in Nat, a \in Nat : t = s[i] /\ a = y * u /\ s[i + 1] = t + a
    <3>1. s[i] \in Nat /\ s[i + 1] = s[i] + d[i]
      BY <1>8
    <3>2. y \in Nat /\ y * u \in Nat
      BY <2>1
    <3> QED
      BY <2>1, <3>1, <3>2
  <2>3. ASSUME i \in S PROVE i + 1 \in S
    <3>1. Same(t, b * w)
      BY <2>1, <2>2, <2>3
    <3>2. PICK e \in Nat, f \in Nat : e = b * w /\ f = b * v
      OBVIOUS
    <3>3. Same(a, y * f)
      BY <2>1, <2>2, <3>2, SameProduct
    <3>4. PICK g \in Nat : g = y * f
      BY <3>2
    <3>5. Same(t + a, e + g)
      BY <3>1, <3>2, <3>3, <3>4, SameSum
    <3>6. PICK h \in Nat : h = w + v * y
      OBVIOUS
    <3>7. b * h = e + g
      <4>1. b * (w + v * y) = b * w + y * (b * v)
        OBVIOUS
      <4> QED
        BY <3>2, <3>4, <3>6, <4>1
    <3>8. Same(s[i + 1], b * h) /\ h = n % Values[i + 1] /\ i + 1 \in Nat
      BY <2>1, <2>2, <3>5, <3>6, <3>7
    <3> QED
      BY <3>8
  <2>4. ASSUME i \in T PROVE i + 1 \in T
    <3>1. t + b * u <= LONG /\ N - (i + 1) = N - 1 - i
      BY <2>1, <2>2, <2>4
    <3>2. PICK e \in Nat : b = y + 1 + e
      <4>1. b - y - 1 \in Nat /\ b = y + 1 + (b - y - 1)
        OBVIOUS
      <4> QED
        BY <4>1
    <3>3. PICK x \in Nat : x = e * u /\ b * u = a + u + x
      <4>1. b * u = y * u + u + e * u /\ e * u \in Nat
        BY <3>2
      <4> QED
        BY <2>2, <4>1
    <3>4. (t + a) + u <= LONG
      BY <3>1, <3>3, LongIs
    <3> QED
      BY <2>1, <2>2, <3>1, <3>4
  <2> QED
    BY <2>3, <2>4
<1>12. N \in S /\ N \in T
  <2>1. \A i \in 0 .. N : i \in S
    <3> HIDE DEF S, T
    <3> QED
      BY <1>10, <1>11, SetInduction
  <2>2. \A i \in 0 .. N : i \in T
    <3> HIDE DEF S, T
    <3> QED
      BY <1>10, <1>11, SetInduction
  <2> QED
    BY <2>1, <2>2
<1>13. s[N] \in 0 .. LONG - 1
  <2>1. s[N] + Values[N - N] <= LONG
    BY <1>12
  <2>2. N - N = 0 /\ Values[0] = 1
    BY PowersAre
  <2> QED
    BY <1>9, <2>1, <2>2, LongIs
<1>14. Same(s[N], b * n)
  <2>1. Values[N] = LONG /\ n % LONG = n
    <3>1. n \in 0 .. LONG - 1 /\ LONG \in Nat /\ LONG >= 1 /\ n = LONG * 0 + n
      BY LongIs
    <3>2. n % LONG = n
      BY <3>1, DivisionOf
    <3> QED
      BY <1>1, <3>2 DEF LONG
  <2> QED
    BY <1>12, <2>1
<1> QED
  BY <1>2, <1>9, <1>13, <1>14

-----------------------------------------------------------------------------
(* Checksum: the invariant *)

\* What checksum_adc or checksum_sse sums up from an odd place is worth BYTE times as
\* much, as they swap its bytes at their end; checksum_rest adds at the right place.
Weight == IF odd /\ summing \in {"adc", "sse"} THEN BYTE ELSE 1
Worth  == sum + lost + (rstate + carry) * Weight

\* The inductive invariant: all that was summed up is worth the data seen.  The flag is
\* set only below the largest value, so that the last adc cannot overflow again.
SumInv ==
    /\ ChecksumTypeOK
    /\ summing \in {"off", "caller"} => rstate = 0
    /\ summing # "adc" => load = 1
    /\ load = 1 => carry = 0
    /\ carry = 1 => rstate + 1 < LONG
    /\ Reduce(Worth) = right

\* The types, as the arithmetic below needs them.
LEMMA SumTypes ==
    ASSUME SumInv
    PROVE  /\ sum \in Nat /\ rstate \in Nat /\ carry \in Nat /\ right \in Nat /\ lost \in Nat
           /\ Weight \in Nat /\ Worth \in Nat /\ Same(Worth, right)
<1>1. sum \in Nat /\ rstate \in Nat /\ carry \in Nat /\ right \in Nat /\ lost \in Nat
  BY LongIs, WordIs DEF SumInv, ChecksumTypeOK
<1>2. Weight \in Nat
  BY SumWidths DEF Weight
<1>3. PICK x \in Nat : x = (rstate + carry) * Weight
  BY <1>1, <1>2
<1>4. Worth \in Nat
  BY <1>1, <1>3 DEF Worth
<1>5. Same(Worth, right)
  <2>1. PICK w \in Nat : w = Worth /\ Reduce(w) = right
    BY <1>4 DEF SumInv
  <2> QED
    BY <2>1, SameReduced DEF Same
<1> QED
  BY <1>1, <1>2, <1>4, <1>5

\* Data worth x are seen, and what is there is worth more by x: then it still is right.
LEMMA SeenStep ==
    ASSUME SumInv, NEW w, NEW x \in Nat, right' = Reduce(right + x),
           w \in Nat, Same(w, Worth + x)
    PROVE  Reduce(w) = right' /\ right' \in 0 .. WORD - 1
<1>1. PICK a \in Nat, b \in Nat : a = Worth /\ b = right /\ Same(a, b)
  BY SumTypes
<1>2. Same(a + x, b + x)
  <2>1. Same(x, x)
    BY SameSelf
  <2> QED
    BY <1>1, <2>1, SameSum
<1>3. b + x \in Nat
  OBVIOUS
<1> QED
  BY <1>1, <1>2, <1>3, ReduceIs, WordIs DEF Same

\* Part of what is there is replaced by something worth the same.
LEMMA Replace ==
    ASSUME NEW a \in Nat, NEW b \in Nat, NEW k \in Nat, NEW s \in Nat, Same(a, b)
    PROVE  Same(s + a * k, s + b * k) /\ s + a * k \in Nat /\ s + b * k \in Nat
<1>1. PICK x \in Nat, y \in Nat : x = a * k /\ y = b * k /\ Same(x, y)
  BY SameProduct
<1>2. Same(s, s)
  BY SameSelf
<1>3. Same(x, y)
  BY <1>1
<1>4. Same(s + x, s + y)
  BY <1>2, <1>3, SameSum
<1>5. s + x \in Nat /\ s + y \in Nat
  OBVIOUS
<1> QED
  BY <1>1, <1>4, <1>5

-----------------------------------------------------------------------------
(* Checksum: steps *)

LEMMA PseudoHeaderStep == ASSUME SumInv, AddPseudoHeader PROVE SumInv'
<1>1. /\ ChecksumTypeOK /\ summing = "caller" /\ ~ odd /\ rstate = 0 /\ load = 1 /\ carry = 0
      /\ UNCHANGED <<odd, summing, rstate, load, carry, lost>>
  BY DEF SumInv, AddPseudoHeader
<1>2. PICK n \in 0 .. LONG - 1 : sum' = Add(sum, n) /\ right' = Reduce(right + n)
  BY <1>1 DEF AddPseudoHeader, Seen
<1>3. PICK s \in Nat, l \in Nat, x \in Nat :
          s = sum /\ l = lost /\ x = n /\ s <= LONG - 1 /\ x <= LONG - 1 /\ s + x <= 2 * LONG - 2
  BY <1>1, SumTypes, LongIs DEF ChecksumTypeOK
<1>4. PICK t \in Nat : t = sum' /\ t \in 0 .. LONG - 1 /\ Same(t, s + x)
  BY <1>2, <1>3, AddIs, LongIs
<1>5. Worth = s + l /\ Worth' = t + l
  BY <1>1, <1>3, <1>4 DEF Worth, Weight
<1>6. Same(t + l, (s + x) + l) /\ (s + x) + l = (s + l) + x
  BY <1>4, SameSelf, SameSum
<1>7. Reduce(Worth') = right' /\ right' \in 0 .. WORD - 1
  BY <1>2, <1>3, <1>5, <1>6, SeenStep
<1> QED
  BY <1>1, <1>4, <1>7 DEF SumInv, ChecksumTypeOK

LEMMA NextFragmentStep == ASSUME SumInv, NEW f \in {"adc", "sse"}, NextFragment(f) PROVE SumInv'
<1>1. /\ ChecksumTypeOK /\ summing = "caller" /\ summing' = f /\ rstate = 0 /\ load = 1 /\ carry = 0
      /\ UNCHANGED <<sum, odd, rstate, load, carry, right, lost>>
  BY DEF SumInv, NextFragment
<1>2. Worth' = Worth
  <2>1. PICK k \in Nat, j \in Nat : k = Weight /\ j = Weight'
    BY SumWidths DEF Weight
  <2>2. (0 + 0) * k = (0 + 0) * j
    OBVIOUS
  <2> QED
    BY <1>1, <2>1, <2>2 DEF Worth
<1> QED
  BY <1>1, <1>2 DEF SumInv, ChecksumTypeOK

LEMMA AdcLoadStep == ASSUME SumInv, AdcLoad PROVE SumInv'
<1>1. /\ ChecksumTypeOK /\ summing = "adc" /\ load' = NextLoad /\ Reduce(Worth) = right
      /\ UNCHANGED <<sum, odd, summing, lost>>
  BY DEF SumInv, AdcLoad
<1>2. PICK n \in 0 .. LONG - 1 :
          /\ IF load = UNROLLED
               THEN rstate' = Add(rstate + carry, n) /\ carry' = 0
               ELSE /\ rstate' = (rstate + n + carry) % LONG
                    /\ carry' = (rstate + n + carry) \div LONG
          /\ right' = Reduce(right + IF odd THEN n * BYTE ELSE n)
  BY DEF AdcLoad, Seen
<1>3. PICK s \in Nat, r \in Nat, c \in Nat, k \in Nat, x \in Nat :
          /\ s = sum + lost /\ r = rstate /\ c = carry /\ k = Weight /\ x = n /\ Worth = s + (r + c) * k
  BY SumTypes, LongIs DEF Worth
<1>4. PICK y \in Nat : y = (r + c) + x /\ y = rstate + n + carry /\ y <= 2 * LONG - 2
  <2>1. (r + c) + x <= 2 * LONG - 2
    BY <1>1, <1>3, LongIs DEF SumInv, ChecksumTypeOK
  <2> QED
    BY <1>3, <2>1
<1>5. PICK t \in Nat, d \in Nat :
          /\ t = rstate' /\ d = carry' /\ t \in 0 .. LONG - 1 /\ d \in {0, 1}
          /\ d = 1 => t + 1 < LONG /\ load # UNROLLED
          /\ Same(t + d, y)
  <2>1. CASE load = UNROLLED
    <3>1. PICK z \in Nat : z = r + c
      OBVIOUS
    <3>2. rstate' = Add(z, x) /\ carry' = 0 /\ z + x = y
      BY <1>2, <1>3, <1>4, <2>1, <3>1
    <3>3. Add(z, x) \in 0 .. LONG - 1 /\ Same(Add(z, x), z + x)
      BY <1>4, <3>2, AddIs
    <3> QED
      BY <3>2, <3>3, LongIs
  <2>2. CASE load # UNROLLED
    <3>1. rstate' = y % LONG /\ carry' = y \div LONG
      BY <1>2, <1>4, <2>2
    <3> QED
      BY <1>4, <2>2, <3>1, CarryIs, LongIs
  <2> QED
    BY <2>1, <2>2
<1>6. Worth' = s + (t + d) * k
  <2>1. Weight' = Weight
    BY <1>1 DEF Weight
  <2> QED
    BY <1>1, <1>3, <1>5, <2>1 DEF Worth
<1>7. PICK z \in Nat : z = x * k /\ right' = Reduce(right + z)
  BY <1>1, <1>2, <1>3, SumWidths DEF Weight
<1>8. Same(s + (t + d) * k, s + y * k) /\ s + (t + d) * k \in Nat
  <2>1. PICK e \in Nat : e = t + d
    OBVIOUS
  <2>2. Same(e, y)
    BY <1>5, <2>1
  <2>3. Same(s + e * k, s + y * k) /\ s + e * k \in Nat
    BY <2>2, Replace
  <2> QED
    BY <2>1, <2>3
<1>9. s + y * k = (s + (r + c) * k) + z
  <2>1. ((r + c) + x) * k = (r + c) * k + x * k /\ (r + c) * k \in Nat
    OBVIOUS
  <2> QED
    BY <1>4, <1>7, <2>1
<1>10. Reduce(Worth') = right' /\ right' \in 0 .. WORD - 1
  BY <1>3, <1>6, <1>7, <1>8, <1>9, SeenStep
<1>11. load' \in 1 .. UNROLLED /\ (load' = 1 => load = UNROLLED)
  BY <1>1, SumWidths DEF NextLoad, ChecksumTypeOK
<1> QED
  BY <1>1, <1>5, <1>10, <1>11 DEF SumInv, ChecksumTypeOK

LEMMA AdcEndStep == ASSUME SumInv, AdcEnd PROVE SumInv'
<1>1. /\ ChecksumTypeOK /\ summing = "adc" /\ load = 1 /\ carry = 0 /\ summing' = "rest"
      /\ rstate' = IF odd THEN SwapLong(rstate) ELSE rstate
      /\ UNCHANGED <<sum, odd, load, carry, right, lost>> /\ Reduce(Worth) = right
  BY DEF SumInv, AdcEnd
<1>2. PICK s \in Nat, r \in Nat, b \in Nat : s = sum + lost /\ r = rstate /\ b = BYTE /\ r \in 0 .. LONG - 1
  BY <1>1, SumTypes, SumWidths DEF ChecksumTypeOK
<1>3. PICK t \in Nat : t = rstate' /\ t \in 0 .. LONG - 1 /\ Same(t, IF odd THEN b * r ELSE r)
  BY <1>1, <1>2, SwapLongIs, SameSelf, LongIs
<1>4. Worth = s + IF odd THEN b * r ELSE r
  <2>1. (r + 0) * b = b * r /\ (r + 0) * 1 = r
    OBVIOUS
  <2> QED
    BY <1>1, <1>2, <2>1 DEF Worth, Weight
<1>5. Worth' = s + t
  <2>1. (t + 0) * 1 = t
    OBVIOUS
  <2> QED
    BY <1>1, <1>2, <1>3, <2>1 DEF Worth, Weight
<1>6. Same(Worth', Worth)
  <2>1. PICK x \in Nat : x = IF odd THEN b * r ELSE r
    OBVIOUS
  <2> QED
    BY <1>3, <1>4, <1>5, <2>1, SameSelf, SameSum
<1> QED
  BY <1>1, <1>3, <1>6 DEF SumInv, ChecksumTypeOK, Same

LEMMA SseStepStep == ASSUME SumInv, SseStep PROVE SumInv'
<1>1. /\ ChecksumTypeOK /\ summing = "sse" /\ load = 1 /\ carry = 0 /\ Reduce(Worth) = right
      /\ UNCHANGED <<sum, odd, summing, load, carry, lost>>
  BY DEF SumInv, SseStep
<1>2. PICK n \in 0 .. 8 * (HALF - 1) :
          /\ rstate + n < LONG /\ rstate' = rstate + n
          /\ right' = Reduce(right + IF odd THEN n * BYTE ELSE n)
  BY DEF SseStep, Seen
<1>3. PICK s \in Nat, r \in Nat, k \in Nat, x \in Nat :
          s = sum + lost /\ r = rstate /\ k = Weight /\ x = n /\ Worth = s + (r + 0) * k
  BY <1>1, SumTypes, LongIs DEF Worth
<1>4. Worth' = s + ((r + x) + 0) * k
  <2>1. Weight' = Weight
    BY <1>1 DEF Weight
  <2> QED
    BY <1>1, <1>2, <1>3, <2>1 DEF Worth
<1>5. PICK z \in Nat : z = x * k /\ right' = Reduce(right + z)
  BY <1>1, <1>2, <1>3, SumWidths DEF Weight
<1>6. Worth' = Worth + z /\ Worth \in Nat /\ Worth + z \in Nat
  <2>1. ((r + x) + 0) * k = (r + 0) * k + x * k /\ (r + 0) * k \in Nat
    OBVIOUS
  <2> QED
    BY <1>3, <1>4, <1>5, <2>1
<1>7. Reduce(Worth') = right' /\ right' \in 0 .. WORD - 1
  BY <1>5, <1>6, SeenStep, SameSelf
<1>8. rstate' \in 0 .. LONG - 1
  BY <1>2, <1>3, LongIs
<1> QED
  BY <1>1, <1>7, <1>8 DEF SumInv, ChecksumTypeOK

LEMMA SseFinalStep == ASSUME SumInv, SseFinal PROVE SumInv'
<1>1. /\ ChecksumTypeOK /\ summing = "sse" /\ load = 1 /\ carry = 0 /\ summing' = "rest"
      /\ UNCHANGED <<sum, odd, load, carry, right>> /\ Reduce(Worth) = right
  BY DEF SumInv, SseFinal
<1>2. PICK g \in Nat, r \in Nat, l \in Nat, b \in Nat :
          g = sum /\ r = rstate /\ l = lost /\ b = BYTE
  BY SumTypes, SumWidths
\* s is what sse_final adds up, t what it keeps of that, and u what it loses.
<1>3. PICK s \in Nat : s = (rstate % HALF) + (rstate \div HALF) /\ Same(s, r)
  <2>1. PICK h \in {LONG, HALF} : h = HALF
    OBVIOUS
  <2>2. r % h \in Nat /\ r \div h \in Nat /\ Same((r % h) + (r \div h), r)
    <3>1. h \in Nat /\ h >= 1
      BY <2>1, LongIs
    <3>2. r % h \in 0 .. h - 1 /\ r \div h \in Nat /\ Same((r % h) + (r \div h), r)
      BY CutIs
    <3>3. r % h \in Nat
      BY <3>1
    <3> QED
      BY <3>2, <3>3
  <2> QED
    BY <1>2, <2>1, <2>2
<1>4. PICK t \in 0 .. HALF - 1, u \in Nat : t = s % HALF /\ u = s \div HALF /\ Same(t + u, s) /\ t \in Nat
  <2>1. PICK h \in {LONG, HALF} : h = HALF
    OBVIOUS
  <2>2. s % h \in 0 .. h - 1 /\ s \div h \in Nat /\ Same((s % h) + (s \div h), s)
    BY CutIs
  <2> QED
    BY <2>1, <2>2, LongIs
<1>5. PICK e \in 0 .. LONG - 1 : e = SignExtend(t) /\ Same(e, t) /\ e \in Nat
  BY <1>4, SignExtendIs, LongIs
<1>6. /\ rstate' = IF odd THEN Swap16(Fold(e)) ELSE e
      /\ lost' = Reduce(lost + IF odd THEN (u + FoldLoses(e)) * BYTE ELSE u)
  BY <1>3, <1>4, <1>5 DEF SseFinal
<1>7. Same(e + u, r)
  <2>1. Same(e + u, t + u)
    BY <1>4, <1>5, SameSelf, SameSum
  <2> QED
    BY <1>3, <1>4, <2>1, SameVia
\* What is kept and what is lost are worth what there was.
<1>8. PICK p \in Nat, q \in Nat :
          /\ p = rstate' /\ p \in 0 .. LONG - 1 /\ lost' = Reduce(l + q)
          /\ Same(p + q, IF odd THEN b * r ELSE r)
  <2>1. CASE ~ odd
    BY <1>2, <1>5, <1>6, <1>7, <2>1
  <2>2. CASE odd
    <3>1. PICK f \in 0 .. WORD - 1, v \in Nat :
              f = Fold(e) /\ v = FoldLoses(e) /\ Same(f + v, e) /\ f \in Nat
      BY <1>5, FoldIs, WordIs
    <3>2. PICK x \in Nat : x = Swap16(f) /\ Same(x, b * f) /\ x \in 0 .. LONG - 1
      BY <1>2, <3>1, Swap16Is, WordIs, LongIs
    <3>3. PICK y \in Nat, w \in Nat, z \in Nat : y = b * f /\ w = (u + v) * b /\ z = b * r
      OBVIOUS
    <3>4. Same(x + w, y + w)
      BY <3>2, <3>3, SameSelf, SameSum
    <3>5. PICK a \in Nat : a = (f + v) + u /\ Same(a, r)
      <4>1. Same((f + v) + u, e + u)
        BY <1>5, <3>1, SameSelf, SameSum
      <4> QED
        BY <1>7, <3>1, <4>1, SameVia
    <3>6. Same(b * a, b * r)
      BY <3>5, SameProduct
    <3>7. y + w = b * a
      <4>1. b * ((f + v) + u) = b * f + (u + v) * b
        BY <3>1
      <4> QED
        BY <3>3, <3>5, <4>1
    <3>8. Same(x + w, b * r)
      BY <3>4, <3>6, <3>7, SameVia
    <3> QED
      BY <1>2, <1>6, <2>2, <3>1, <3>2, <3>3, <3>8
  <2> QED
    BY <2>1, <2>2
<1>9. PICK m \in Nat, x \in Nat :
          m = lost' /\ m \in 0 .. WORD - 1 /\ Same(m, l + q) /\ x = IF odd THEN b * r ELSE r
  <2>1. PICK n \in Nat : n = l + q
    BY <1>8
  <2>2. Reduce(n) \in Nat /\ Reduce(n) <= WORD - 1
    BY ReduceIs
  <2>3. Same(Reduce(n), n)
    BY SameReduced
  <2>4. Reduce(n) \in 0 .. WORD - 1
    BY <2>2, WordIs
  <2>5. PICK x \in Nat : x = IF odd THEN b * r ELSE r
    OBVIOUS
  <2>6. PICK m \in Nat : m = Reduce(n) /\ m \in 0 .. WORD - 1
    BY <2>2, <2>4
  <2>7. m = lost' /\ Same(m, l + q)
    BY <1>8, <2>1, <2>3, <2>6
  <2> QED
    BY <2>5, <2>6, <2>7
<1>10. Worth = (g + l) + x
  <2>1. (r + 0) * b = b * r /\ (r + 0) * 1 = r
    OBVIOUS
  <2> QED
    BY <1>1, <1>2, <1>9, <2>1 DEF Worth, Weight
<1>11. Worth' = (g + m) + p
  <2>1. (p + 0) * 1 = p
    OBVIOUS
  <2> QED
    BY <1>1, <1>2, <1>8, <1>9, <2>1 DEF Worth, Weight
<1>12. Same((g + m) + p, (g + l) + x)
  <2>1. PICK c \in Nat, d \in Nat, h \in Nat, k \in Nat :
            c = g + p /\ d = l + q /\ h = g + l /\ k = p + q
    OBVIOUS
  <2>2. Same(m, d)
    BY <1>9, <2>1
  <2>3. Same(k, x)
    BY <1>8, <1>9, <2>1
  <2>4. Same(c + m, c + d)
    BY <2>2, SameSelf, SameSum
  <2>5. Same(h + k, h + x)
    BY <2>3, SameSelf, SameSum
  <2>6. c + m = (g + m) + p /\ c + d = h + k /\ h + x = (g + l) + x
    BY <2>1
  <2>7. Same(c + m, h + x)
    BY <2>4, <2>5, <2>6, SameVia
  <2> QED
    BY <2>6, <2>7
<1>13. Reduce(Worth') = right
  BY <1>1, <1>10, <1>11, <1>12 DEF Same
<1> QED
  BY <1>1, <1>8, <1>9, <1>13 DEF SumInv, ChecksumTypeOK

LEMMA RestByteStep == ASSUME SumInv, RestByte PROVE SumInv'
<1>1. /\ ChecksumTypeOK /\ summing = "rest" /\ load = 1 /\ carry = 0 /\ Reduce(Worth) = right
      /\ UNCHANGED <<sum, summing, load, carry, lost>> /\ odd' = ~ odd
  BY DEF SumInv, RestByte
<1>2. PICK v \in 0 .. BYTE - 1 :
          /\ rstate' = Add(rstate, IF odd THEN Swap16(v) ELSE v)
          /\ right' = Reduce(right + IF odd THEN v * BYTE ELSE v)
  BY DEF RestByte, Seen
<1>3. PICK s \in Nat, r \in Nat, b \in Nat, x \in Nat :
          /\ s = sum + lost /\ r = rstate /\ r \in 0 .. LONG - 1 /\ b = BYTE /\ b >= 2
          /\ x = v /\ x <= b - 1
  BY <1>1, <1>2, SumTypes, SumWidths DEF ChecksumTypeOK
<1>4. Swap16(v) = x * b
  <2>1. b >= 1 /\ x \in 0 .. b - 1
    BY <1>3
  <2>2. x \div b = 0 /\ x % b = x
    <3>1. PICK q \in Nat, y \in 0 .. b - 1 : x = b * q + y /\ x \div b = q /\ x % b = y
      BY <2>1, DivisionIs
    <3>2. CASE q = 0
      <4>1. b * q = 0
        BY <3>2
      <4> QED
        BY <3>1, <3>2, <4>1
    <3>3. CASE q # 0
      <4>1. PICK p \in Nat : q = p + 1
        <5>1. q - 1 \in Nat /\ q = (q - 1) + 1
          BY <3>3
        <5> QED
          BY <5>1
      <4>2. b * q = b * p + b /\ b * p \in Nat
        BY <4>1
      <4> QED
        BY <2>1, <3>1, <4>2
    <3> QED
      BY <3>2, <3>3
  <2> QED
    BY <1>3, <2>2 DEF Swap16
<1>5. x * b <= WORD - 1 /\ x * b \in Nat /\ x <= WORD - 1
  <2>1. PICK e \in Nat : b = x + 1 + e
    <3>1. b - x - 1 \in Nat /\ b = x + 1 + (b - x - 1)
      BY <1>3
    <3> QED
      BY <3>1
  <2>2. b * b = x * b + b + e * b /\ x * b \in Nat /\ e * b \in Nat
    BY <2>1
  <2>3. PICK d \in Nat : b = d + 1
    <3>1. b - 1 \in Nat /\ b = (b - 1) + 1
      BY <1>3
    <3> QED
      BY <3>1
  <2>4. b * b = d * b + b /\ d * b \in Nat
    BY <2>3
  <2> QED
    BY <1>3, <2>2, <2>4, WordIs
<1>6. PICK y \in Nat : y = (IF odd THEN x * b ELSE x) /\ y <= WORD - 1
  BY <1>5
<1>7. PICK t \in Nat : t = rstate' /\ t \in 0 .. LONG - 1 /\ Same(t, r + y)
  <2>1. rstate' = Add(r, y)
    BY <1>2, <1>3, <1>4, <1>6
  <2>2. r + y <= 2 * LONG - 2
    BY <1>3, <1>6, WordIs, LongIs
  <2> QED
    BY <2>1, <2>2, AddIs, LongIs
<1>8. Worth = s + r /\ Worth' = s + t
  <2>1. (r + 0) * 1 = r /\ (t + 0) * 1 = t
    OBVIOUS
  <2> QED
    BY <1>1, <1>3, <1>7, <2>1 DEF Worth, Weight
<1>9. right' = Reduce(right + y)
  BY <1>2, <1>3, <1>6
<1>10. Same(s + t, s + (r + y)) /\ s + (r + y) = (s + r) + y
  BY <1>7, SameSelf, SameSum
<1>11. Reduce(Worth') = right' /\ right' \in 0 .. WORD - 1
  BY <1>8, <1>9, <1>10, SeenStep
<1> QED
  BY <1>1, <1>7, <1>11 DEF SumInv, ChecksumTypeOK

LEMMA ReturnStep == ASSUME SumInv, Return PROVE SumInv'
<1>1. /\ ChecksumTypeOK /\ summing = "rest" /\ load = 1 /\ carry = 0 /\ Reduce(Worth) = right
      /\ sum' = Add(sum, rstate) /\ rstate' = 0 /\ summing' = "caller"
      /\ UNCHANGED <<odd, load, carry, right, lost>>
  BY DEF SumInv, Return
<1>2. PICK s \in Nat, r \in Nat, l \in Nat :
          s = sum /\ r = rstate /\ l = lost /\ s + r <= 2 * LONG - 2
  BY <1>1, SumTypes, LongIs DEF ChecksumTypeOK
<1>3. PICK t \in Nat : t = sum' /\ t \in 0 .. LONG - 1 /\ Same(t, s + r)
  BY <1>1, <1>2, AddIs, LongIs
<1>4. Worth = (s + r) + l /\ Worth' = t + l
  BY <1>1, <1>2, <1>3 DEF Worth, Weight
<1>5. Same(t + l, (s + r) + l)
  BY <1>3, SameSelf, SameSum
<1> QED
  BY <1>1, <1>3, <1>4, <1>5, LongIs DEF SumInv, ChecksumTypeOK, Same

LEMMA SumInit == ChecksumInit("caller") => SumInv
<1> SUFFICES ASSUME ChecksumInit("caller") PROVE SumInv
  OBVIOUS
<1>1. ChecksumTypeOK
  <2>1. 0 \in 0 .. LONG - 1
    BY LongIs
  <2>2. 0 \in 0 .. WORD - 1
    BY WordIs
  <2>3. 1 \in 1 .. UNROLLED
    BY SumWidths
  <2> QED
    BY <2>1, <2>2, <2>3 DEF ChecksumInit, ChecksumTypeOK
<1>2. Worth = 0 /\ Reduce(0) = 0
  BY DEF ChecksumInit, Worth, Weight, Reduce
<1> QED
  BY <1>1, <1>2 DEF ChecksumInit, SumInv

LEMMA SumStep == SumInv /\ [ChecksumNext]_sumVars => SumInv'
<1> SUFFICES ASSUME SumInv, [ChecksumNext]_sumVars PROVE SumInv'
  OBVIOUS
<1>1. CASE UNCHANGED sumVars
  BY <1>1 DEF sumVars, SumInv, ChecksumTypeOK, Worth, Weight
<1>2. CASE AddPseudoHeader \/ \E function \in {"adc", "sse"} : NextFragment(function)
  BY <1>2, PseudoHeaderStep, NextFragmentStep
<1>3. CASE AdcLoad \/ AdcEnd
  BY <1>3, AdcLoadStep, AdcEndStep
<1>4. CASE SseStep \/ SseFinal
  BY <1>4, SseStepStep, SseFinalStep
<1>5. CASE RestByte \/ Return
  BY <1>5, RestByteStep, ReturnStep
<1> QED
  BY <1>1, <1>2, <1>3, <1>4, <1>5 DEF ChecksumNext

\* The sum so far, what is under way and what is lost are always worth the data seen.
THEOREM SumInvariance == ChecksumSpec => []SumInv
  BY SumInit, SumStep, PTL DEF ChecksumSpec

\* The accumulators of checksum_adc, checksum_sse and their callers stay 64-bit values,
\* and the carry flag is one bit: no step of add, adc, fold or bswap leaves its width.
THEOREM ChecksumTypeCorrect == ChecksumSpec => []ChecksumTypeOK
<1>1. SumInv => ChecksumTypeOK
  BY DEF SumInv
<1> QED
  BY <1>1, SumInvariance, PTL

\* For every width of a long, any fragments and any data, the sum of the fragments has
\* the checksum of the packet, but for the two carries sse_final loses.
THEOREM NoOtherCarryLost == ChecksumSpec => []CarriesKept
<1>1. SumInv => CarriesKept
  <2> SUFFICES ASSUME SumInv, summing = "caller" PROVE Reduce(sum + lost) = right
    BY DEF CarriesKept
  <2>1. rstate = 0 /\ carry = 0 /\ Reduce(Worth) = right
    BY DEF SumInv
  <2>2. Worth = sum + lost
    BY <2>1, SumTypes DEF Worth
  <2> QED
    BY <2>1, <2>2
<1> QED
  BY <1>1, SumInvariance, PTL

=============================================================================
