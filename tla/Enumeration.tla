------------------------------ MODULE Enumeration ------------------------------
(***************************************************************************)
(* Finite sets of numbers in ascending order, without recursion: the k-th  *)
(* number is the one above k - 1 others.  The rings of VirtQueue and       *)
(* IntelTx are seen that way by the specifications they implement.         *)
(***************************************************************************)
EXTENDS Integers, FunctionTheorems, FiniteSetTheorems, TLAPS

Below(P, n) == {m \in P : m < n}
Rank(P, n)  == Cardinality(Below(P, n))
Item(P, k)  == CHOOSE n \in P : Rank(P, n) = k - 1

\* The set, seen from n further on.
Shifted(P, n) == {m \in Nat : m + n \in P}

\* A rank counts numbers, and orders those of the set.
LEMMA Ranks ==
    ASSUME NEW b \in Nat, NEW P \in SUBSET (0 .. b)
    PROVE  /\ IsFiniteSet(P) /\ Cardinality(P) \in Nat
           /\ \A n : IsFiniteSet(Below(P, n)) /\ Rank(P, n) \in Nat
           /\ \A n \in P : Rank(P, n) \in 0 .. Cardinality(P) - 1
           /\ \A m, n \in P : m < n => Rank(P, m) < Rank(P, n)
<1>1. IsFiniteSet(P) /\ Cardinality(P) \in Nat
  <2>1. IsFiniteSet(0 .. b)
    BY FS_Interval
  <2>2. IsFiniteSet(P)
    BY <2>1, FS_Subset
  <2> QED
    BY <2>2, FS_CardinalityType
<1>2. ASSUME NEW n
      PROVE  IsFiniteSet(Below(P, n)) /\ Rank(P, n) \in Nat /\ Rank(P, n) <= Cardinality(P)
  <2>1. Below(P, n) \in SUBSET P
    BY DEF Below
  <2> QED
    BY <1>1, <2>1, FS_Subset, FS_CardinalityType DEF Rank
<1>3. ASSUME NEW m \in P, NEW n \in P \cup {b + 1}, m < n
      PROVE  Rank(P, m) < Rank(P, n)
  <2>1. Below(P, m) \in SUBSET Below(P, n) /\ Below(P, m) # Below(P, n)
    <3>1. m \in Below(P, n) /\ m \notin Below(P, m)
      BY <1>3 DEF Below
    <3>2. \A k \in Below(P, m) : k \in Below(P, n)
      BY <1>3 DEF Below
    <3> QED
      BY <3>1, <3>2
  <2>2. Cardinality(Below(P, m)) <= Cardinality(Below(P, n))
    BY <1>2, <2>1, FS_Subset
  <2>3. Cardinality(Below(P, m)) # Cardinality(Below(P, n))
    BY <1>2, <2>1, FS_Subset
  <2> QED
    BY <1>2, <2>2, <2>3 DEF Rank
<1>4. Below(P, b + 1) = P
  <2>1. \A m \in P : m \in 0 .. b /\ m < b + 1
    OBVIOUS
  <2> QED
    BY <2>1 DEF Below
<1>5. ASSUME NEW n \in P PROVE Rank(P, n) \in 0 .. Cardinality(P) - 1
  <2>1. Rank(P, n) < Rank(P, b + 1)
    BY <1>3
  <2> QED
    BY <1>1, <1>2, <1>4, <2>1 DEF Rank
<1> QED
  BY <1>1, <1>2, <1>3, <1>5

\* Every number of the enumeration is there, and once.
LEMMA Items ==
    ASSUME NEW b \in Nat, NEW P \in SUBSET (0 .. b)
    PROVE  /\ \A k \in 1 .. Cardinality(P) : Item(P, k) \in P /\ Rank(P, Item(P, k)) = k - 1
           /\ \A k \in 1 .. Cardinality(P), n \in P : Rank(P, n) = k - 1 => Item(P, k) = n
<1> DEFINE C == Cardinality(P)
           f == [n \in P |-> Rank(P, n)]
<1>1. IsFiniteSet(P) /\ C \in Nat
  BY Ranks
<1>2. f \in [P -> 0 .. C - 1]
  BY Ranks
<1>3. \A m, n \in P : m # n => Rank(P, m) # Rank(P, n)
  <2>1. ASSUME NEW m \in P, NEW n \in P, m # n PROVE Rank(P, m) # Rank(P, n)
    <3>1. m < n \/ n < m
      BY <2>1
    <3>2. Rank(P, m) \in Nat /\ Rank(P, n) \in Nat
      BY Ranks
    <3>3. m < n => Rank(P, m) < Rank(P, n)
      BY Ranks
    <3>4. n < m => Rank(P, n) < Rank(P, m)
      BY Ranks
    <3> QED
      BY <3>1, <3>2, <3>3, <3>4
  <2> QED
    BY <2>1
<1>4. f \in Injection(P, 0 .. C - 1)
  BY <1>2, <1>3, Fun_IsInj
<1>5. IsFiniteSet(0 .. C - 1) /\ Cardinality(0 .. C - 1) = C
  <2>1. C - 1 \in Int
    BY <1>1
  <2> QED
    BY <1>1, <2>1, FS_Interval
<1>6. f \in Surjection(P, 0 .. C - 1)
  BY <1>4, <1>5, FS_Injection
<1>7. ASSUME NEW k \in 1 .. C PROVE \E n \in P : Rank(P, n) = k - 1
  <2>1. k - 1 \in 0 .. C - 1
    BY <1>1
  <2>2. \A j \in 0 .. C - 1 : \E n \in P : f[n] = j
    <3> HIDE DEF f, C
    <3> QED
      BY <1>6 DEF Surjection
  <2>3. PICK n \in P : f[n] = k - 1
    BY <2>1, <2>2
  <2> QED
    BY <2>3
<1>8. ASSUME NEW k \in 1 .. C PROVE Item(P, k) \in P /\ Rank(P, Item(P, k)) = k - 1
  BY <1>7 DEF Item
<1> QED
  BY <1>3, <1>8

\* A number beyond the last one comes last.
LEMMA ItemsAppend ==
    ASSUME NEW b \in Nat, NEW P \in SUBSET (0 .. b), NEW x \in 0 .. b, \A m \in P : m < x
    PROVE  /\ Cardinality(P \cup {x}) = Cardinality(P) + 1
           /\ \A k \in 1 .. Cardinality(P) : Item(P \cup {x}, k) = Item(P, k)
           /\ Item(P \cup {x}, Cardinality(P) + 1) = x
<1> DEFINE Q == P \cup {x}
<1>1. IsFiniteSet(P) /\ Cardinality(P) \in Nat
  BY Ranks
<1>2. x \notin P
  OBVIOUS
<1>3. Cardinality(Q) = Cardinality(P) + 1
  BY <1>1, <1>2, FS_AddElement
<1>4. ASSUME NEW n \in P PROVE Rank(Q, n) = Rank(P, n)
  <2>1. Below(Q, n) = Below(P, n)
    BY DEF Below
  <2> QED
    BY <2>1 DEF Rank
<1>5. Rank(Q, x) = Cardinality(P)
  <2>1. \A m \in P : m < x
    OBVIOUS
  <2>2. ~ (x < x)
    OBVIOUS
  <2>3. Below(Q, x) = P
    BY <2>1, <2>2 DEF Below
  <2> QED
    BY <2>3 DEF Rank
<1>6. Q \in SUBSET (0 .. b)
  OBVIOUS
<1> HIDE DEF Q
<1>7. ASSUME NEW k \in 1 .. Cardinality(P) PROVE Item(Q, k) = Item(P, k)
  <2>1. Item(P, k) \in P /\ Rank(P, Item(P, k)) = k - 1
    BY Items
  <2>2. Item(P, k) \in Q /\ Rank(Q, Item(P, k)) = k - 1
    BY <1>4, <2>1 DEF Q
  <2>3. k \in 1 .. Cardinality(Q)
    BY <1>1, <1>3
  <2> QED
    BY <1>6, <2>2, <2>3, Items
<1>8. Item(Q, Cardinality(P) + 1) = x
  <2>1. PICK k \in 1 .. Cardinality(Q) : k = Cardinality(P) + 1 /\ k - 1 = Cardinality(P)
    BY <1>1, <1>3
  <2>2. x \in Q /\ Rank(Q, x) = k - 1
    BY <1>5, <2>1 DEF Q
  <2>3. Item(Q, k) = x
    BY <1>6, <2>2, Items
  <2> QED
    BY <2>1, <2>3
<1> QED
  BY <1>3, <1>7, <1>8 DEF Q

\* Some steps on, when at most the number 0 is left behind.
LEMMA ShiftedSize ==
    ASSUME NEW b \in Nat, NEW S \in SUBSET (0 .. b), NEW d \in Nat \ {0},
           \A m \in S : m = 0 \/ m >= d
    PROVE  /\ Shifted(S, d) \in SUBSET (0 .. b)
           /\ Cardinality(Shifted(S, d)) = IF 0 \in S THEN Cardinality(S) - 1 ELSE Cardinality(S)
<1> DEFINE f == [m \in Shifted(S, d) |-> m + d]
<1>1. Shifted(S, d) \in SUBSET (0 .. b)
  BY DEF Shifted
<1>2. f \in [Shifted(S, d) -> S \ {0}]
  BY DEF Shifted
<1>3. \A m, n \in Shifted(S, d) : f[m] = f[n] => m = n
  BY DEF Shifted
<1>4. \A n \in S \ {0} : \E m \in Shifted(S, d) : f[m] = n
  <2>1. ASSUME NEW n \in S \ {0} PROVE n - d \in Shifted(S, d) /\ f[n - d] = n
    BY DEF Shifted
  <2> QED
    BY <2>1
<1>5. f \in Bijection(Shifted(S, d), S \ {0})
  BY <1>2, <1>3, <1>4, Fun_IsBij
<1>6. IsFiniteSet(Shifted(S, d)) /\ IsFiniteSet(S)
  BY <1>1, Ranks
<1>7. Cardinality(S \ {0}) = Cardinality(Shifted(S, d))
  BY <1>5, <1>6, FS_Bijection, Fun_ExistsBij
<1> QED
  BY <1>1, <1>6, <1>7, FS_RemoveElement

\* ... and the enumeration goes on behind it.
LEMMA ItemsShifted ==
    ASSUME NEW b \in Nat, NEW P \in SUBSET (0 .. b), NEW d \in Nat \ {0},
           \A m \in P : m = 0 \/ m >= d
    PROVE  \A k \in 1 .. Cardinality(Shifted(P, d)) :
               Item(Shifted(P, d), k) = (IF 0 \in P THEN Item(P, k + 1) ELSE Item(P, k)) - d
<1> DEFINE Q == Shifted(P, d)
           o == IF 0 \in P THEN 1 ELSE 0
<1>1. /\ Q \in SUBSET (0 .. b) /\ Cardinality(Q) = Cardinality(P) - o
      /\ Cardinality(P) \in Nat
  <2>1. Cardinality(P) \in Nat
    BY Ranks
  <2>2. /\ Shifted(P, d) \in SUBSET (0 .. b)
        /\ Cardinality(Shifted(P, d)) = IF 0 \in P THEN Cardinality(P) - 1 ELSE Cardinality(P)
    BY ShiftedSize
  <2> QED
    BY <2>1, <2>2
<1>2. ASSUME NEW n \in P, n # 0 PROVE n - d \in Q /\ Rank(Q, n - d) = Rank(P, n) - o
  <2>1. Below(Q, n - d) = Shifted(Below(P, n), d)
    BY DEF Below, Shifted
  <2>2. 0 \in Below(P, n) <=> 0 \in P
    BY <1>2 DEF Below
  <2>3. /\ Below(P, n) \in SUBSET (0 .. b) /\ Rank(P, n) \in Nat
        /\ \A m \in Below(P, n) : m = 0 \/ m >= d
    BY Ranks DEF Below
  <2>4. Rank(Q, n - d) = Rank(P, n) - o
    BY <2>1, <2>2, <2>3, ShiftedSize DEF Rank
  <2> QED
    BY <1>2, <2>4 DEF Shifted
<1>3. ASSUME 0 \in P PROVE Rank(P, 0) = 0
  <2>1. \A m \in P : ~ (m < 0)
    OBVIOUS
  <2>2. Below(P, 0) = {}
    BY <2>1 DEF Below
  <2> QED
    BY <2>2, FS_EmptySet DEF Rank
<1>4. ASSUME NEW k \in 1 .. Cardinality(Q) PROVE Item(Q, k) = Item(P, k + o) - d
  <2>1. PICK l \in 1 .. Cardinality(P) : l = k + o /\ (0 \in P => l > 1) /\ l - 1 - o = k - 1
    BY <1>1
  <2>2. PICK n \in P : n = Item(P, l) /\ Rank(P, n) = l - 1
    <3>1. Item(P, l) \in P /\ Rank(P, Item(P, l)) = l - 1
      <4> HIDE DEF o
      <4> QED
        BY Items
    <3> QED
      BY <3>1
  <2>3. n # 0
    BY <1>3, <2>1, <2>2
  <2>4. n - d \in Q /\ Rank(Q, n - d) = k - 1
    BY <1>2, <2>1, <2>2, <2>3
  <2>5. Item(Q, k) = n - d
    BY <1>1, <2>4, Items
  <2> QED
    BY <2>1, <2>2, <2>5
<1> QED
  BY <1>4

\* The numbers of an interval are one after the other.
LEMMA ItemsOfRun ==
    ASSUME NEW l \in Nat, NEW h \in Nat, l <= h
    PROVE  /\ Cardinality(l + 1 .. h) = h - l
           /\ \A k \in 1 .. h - l : Item(l + 1 .. h, k) = l + k
<1> DEFINE P == l + 1 .. h
<1>1. P \in SUBSET (0 .. h) /\ Cardinality(P) = h - l
  <2>1. PICK m \in Int : m = l + 1
    OBVIOUS
  <2>2. Cardinality(m .. h) = IF m > h THEN 0 ELSE h - m + 1
    BY FS_Interval
  <2> QED
    BY <2>1, <2>2
<1>2. ASSUME NEW n \in P PROVE Rank(P, n) = n - l - 1
  <2>1. Below(P, n) = l + 1 .. n - 1
    BY DEF Below
  <2>2. PICK m \in Int, x \in Int : m = l + 1 /\ x = n - 1
    OBVIOUS
  <2>3. Cardinality(m .. x) = IF m > x THEN 0 ELSE x - m + 1
    BY FS_Interval
  <2> QED
    BY <2>1, <2>2, <2>3 DEF Rank
<1>3. ASSUME NEW k \in 1 .. h - l PROVE Item(P, k) = l + k
  <2>1. l + k \in P /\ Rank(P, l + k) = k - 1 /\ k \in 1 .. Cardinality(P)
    BY <1>1, <1>2
  <2> HIDE DEF P
  <2> QED
    BY <1>1, <2>1, Items
<1> QED
  BY <1>1, <1>3

=============================================================================
