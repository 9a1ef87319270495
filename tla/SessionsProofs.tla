----------------------------- MODULE SessionsProofs -----------------------------
(***************************************************************************)
(* Proofs about Sessions, for any number of clients, descriptors and       *)
(* vectors: sessions keep their hands off each other's descriptors unless  *)
(* a REGION request left a number behind, and no descriptor is forgotten.  *)
(***************************************************************************)
EXTENDS Sessions, SequenceTheorems, WellFoundedInduction, TLAPS

-----------------------------------------------------------------------------
(* The inductive invariant *)

\* The iterator is on a session, accept has a client to take, and the listening
\* socket is what it was as long as nobody closed it.
PlaceInv ==
    /\ pc = "recv" => at <= Len(sessions)
    /\ pc = "accept" /\ ListenFd \in ready /\ table[ListenFd] = Listening => backlog # << >>
    /\ ~ disturbed /\ stage # "closing" => table[ListenFd] = Listening

\* A client has one connection at most, waiting or served.
ClientInv ==
    /\ \A i, j \in DOMAIN sessions : sessions[i].client = sessions[j].client => i = j
    /\ \A i, j \in DOMAIN backlog : backlog[i] = backlog[j] => i = j
    /\ \A i \in DOMAIN sessions : sessions[i].client \notin ToSet(backlog)
    /\ \A c \in Clients : peer[c] = "new" =>
           c \notin ToSet(backlog) /\ \A i \in DOMAIN sessions : sessions[i].client # c

IInv == TypeOK /\ PlaceInv /\ ClientInv /\ SessionsApart /\ NothingForgotten

-----------------------------------------------------------------------------
(* Sequences, numbers and descriptors *)

\* The least of some numbers.
LEMMA LeastIs ==
    ASSUME NEW P \in SUBSET Nat, P # {}
    PROVE  Min(P) \in P /\ \A k \in P : Min(P) <= k
<1> DEFINE R == {ss \in Nat \X Nat : ss[1] < ss[2]}
<1>1. IsWellFoundedOn(R, Nat)
  BY NatLessThanWellFounded DEF OpToRel
<1>2. \A i, j \in Nat : i < j => <<i, j>> \in R
  OBVIOUS
<1> HIDE DEF R
<1>3. PICK m \in P : \A k \in P : ~ (<<k, m>> \in R)
  BY <1>1, WFMin
<1>4. \A k \in P : k \in Nat /\ m \in Nat /\ ~ (k < m)
  BY <1>2, <1>3
<1>5. \A k \in P : m <= k
  BY <1>4
<1> QED
  BY <1>5 DEF Min

\* One more at the end of a sequence.
LEMMA AppendIs ==
    ASSUME NEW S, NEW s \in Seq(S), NEW x \in S
    PROVE  /\ Append(s, x) \in Seq(S) /\ Append(s, x) # << >> /\ Len(Append(s, x)) = Len(s) + 1
           /\ DOMAIN Append(s, x) = 1 .. Len(s) + 1 /\ DOMAIN s = 1 .. Len(s) /\ Len(s) \in Nat
           /\ Append(s, x)[Len(s) + 1] = x
           /\ \A i \in 1 .. Len(s) : Append(s, x)[i] = s[i]
           /\ ToSet(Append(s, x)) = ToSet(s) \cup {x}
<1> DEFINE t == Append(s, x)
           n == Len(s)
<1>1. /\ t \in Seq(S) /\ Len(t) = n + 1 /\ n \in Nat /\ t # << >>
      /\ DOMAIN t = 1 .. n + 1 /\ DOMAIN s = 1 .. n
      /\ \A i \in 1 .. n : t[i] = s[i]
      /\ t[n + 1] = x
  BY AppendProperties
<1> HIDE DEF t, n
<1>2. \A i \in 1 .. n + 1 : i \in 1 .. n \/ i = n + 1
  BY <1>1
<1>3. 1 .. n \subseteq 1 .. n + 1 /\ n + 1 \in 1 .. n + 1
  BY <1>1
<1>4. ToSet(t) = ToSet(s) \cup {x}
  BY <1>1, <1>2, <1>3 DEF ToSet
<1> QED
  BY <1>1, <1>4 DEF t, n

\* One fewer in the middle of a sequence.
LEMMA RemoveAtIs ==
    ASSUME NEW S, NEW s \in Seq(S), NEW i \in 1 .. Len(s)
    PROVE  /\ RemoveAt(s, i) \in Seq(S) /\ Len(RemoveAt(s, i)) = Len(s) - 1
           /\ DOMAIN RemoveAt(s, i) = 1 .. Len(s) - 1
           /\ \A k \in 1 .. Len(s) - 1 :
                  RemoveAt(s, i)[k] = IF k < i THEN s[k] ELSE s[k + 1]
<1> DEFINE u == SubSeq(s, 1, i - 1)
           w == SubSeq(s, i + 1, Len(s))
<1>1. Len(s) \in Nat /\ i \in Nat /\ i >= 1 /\ i <= Len(s)
  OBVIOUS
<1>2. u \in Seq(S) /\ Len(u) = i - 1 /\ \A k \in 1 .. i - 1 : u[k] = s[k]
  BY <1>1
<1>3. w \in Seq(S) /\ Len(w) = Len(s) - i /\ \A k \in 1 .. Len(s) - i : w[k] = s[i + k]
  BY <1>1
<1> HIDE DEF u, w
<1>4. /\ u \o w \in Seq(S) /\ Len(u \o w) = Len(s) - 1
      /\ \A k \in 1 .. i - 1 : (u \o w)[k] = u[k]
      /\ \A k \in i .. Len(s) - 1 : (u \o w)[k] = w[k - (i - 1)]
  BY <1>1, <1>2, <1>3
<1>5. RemoveAt(s, i) = u \o w
  BY DEF RemoveAt, u, w
<1>6. ASSUME NEW k \in 1 .. Len(s) - 1
      PROVE  (u \o w)[k] = IF k < i THEN s[k] ELSE s[k + 1]
  <2>1. CASE k < i
    <3>1. k \in 1 .. i - 1
      BY <1>1, <2>1
    <3> QED
      BY <1>2, <1>4, <2>1, <3>1
  <2>2. CASE ~ (k < i)
    <3>1. /\ k \in i .. Len(s) - 1 /\ k - (i - 1) \in 1 .. Len(s) - i
          /\ i + (k - (i - 1)) = k + 1
      BY <1>1, <2>2
    <3>2. w[k - (i - 1)] = s[k + 1]
      BY <1>3, <3>1
    <3> QED
      BY <1>4, <2>2, <3>1, <3>2
  <2> QED
    BY <2>1, <2>2
<1> QED
  BY <1>1, <1>4, <1>5, <1>6

\* A number that is put into a list of numbers and taken from it: the list has
\* the same elements, even if its first occurrence was another one.
LEMMA PutAndTaken ==
    ASSUME NEW S, NEW f \in Seq(S), NEW x \in S
    PROVE  /\ RemoveFirst(Append(f, x), x) \in Seq(S)
           /\ ToSet(RemoveFirst(Append(f, x), x)) = ToSet(f)
<1> DEFINE t == Append(f, x)
           I == {i \in 1 .. Len(t) : t[i] = x}
           n == Len(f)
<1>1. /\ t \in Seq(S) /\ Len(t) = n + 1 /\ n \in Nat /\ t[n + 1] = x
      /\ DOMAIN f = 1 .. n /\ \A i \in 1 .. n : t[i] = f[i]
  BY AppendIs
<1> HIDE DEF t, n
<1>2. n + 1 \in I /\ I \in SUBSET Nat
  BY <1>1
<1>3. PICK m \in 1 .. n + 1 : m = Min(I) /\ t[m] = x /\ \A i \in 1 .. n + 1 : t[i] = x => m <= i
  <2>1. Min(I) \in I /\ \A i \in I : Min(I) <= i
    <3> HIDE DEF I
    <3> QED
      BY <1>2, LeastIs
  <2> QED
    BY <1>1, <2>1
<1>4. RemoveFirst(t, x) = RemoveAt(t, m)
  <2>1. SelectInSeq(t, LAMBDA v : v = x) = m
    BY <1>2, <1>3 DEF SelectInSeq
  <2>2. \E i \in 1 .. Len(t) : t[i] = x
    BY <1>1, <1>3
  <2> QED
    BY <2>1, <2>2 DEF RemoveFirst
<1> DEFINE r == RemoveAt(t, m)
<1>5. /\ r \in Seq(S) /\ DOMAIN r = 1 .. n
      /\ \A k \in 1 .. n : r[k] = IF k < m THEN t[k] ELSE t[k + 1]
  <2>1. m \in 1 .. Len(t) /\ Len(t) - 1 = n
    BY <1>1, <1>3
  <2> QED
    BY <1>1, <2>1, RemoveAtIs
<1> HIDE DEF r, I
<1>6. ASSUME NEW k \in 1 .. n PROVE r[k] \in ToSet(f)
  <2>1. CASE k < m
    BY <1>1, <1>5, <2>1 DEF ToSet
  <2>2. CASE ~ (k < m) /\ k < n
    <3>1. k + 1 \in 1 .. n
      BY <1>1, <2>2
    <3> QED
      BY <1>1, <1>5, <2>2, <3>1 DEF ToSet
  <2>3. CASE ~ (k < m) /\ ~ (k < n)
    <3>1. k = n /\ m <= n /\ m \in 1 .. n
      BY <1>1, <1>3, <2>3
    <3>2. r[k] = x /\ f[m] = x
      BY <1>1, <1>3, <1>5, <2>3, <3>1
    <3> QED
      BY <1>1, <3>1, <3>2 DEF ToSet
  <2> QED
    BY <2>1, <2>2, <2>3
<1>7. ASSUME NEW k \in 1 .. n PROVE f[k] \in ToSet(r)
  <2>1. CASE k < m
    <3>1. r[k] = f[k]
      BY <1>1, <1>5, <2>1
    <3> QED
      BY <1>5, <3>1 DEF ToSet
  <2>2. CASE k > m
    <3>1. k - 1 \in 1 .. n /\ ~ (k - 1 < m) /\ (k - 1) + 1 = k
      BY <1>1, <1>3, <2>2
    <3>2. r[k - 1] = f[k]
      BY <1>1, <1>5, <3>1
    <3> QED
      BY <1>5, <3>1, <3>2 DEF ToSet
  <2>3. CASE k = m
    <3>1. n \in 1 .. n /\ ~ (n < m) /\ f[k] = x
      BY <1>1, <1>3, <2>3
    <3>2. r[n] = x
      BY <1>1, <1>5, <3>1
    <3> QED
      BY <1>5, <3>1, <3>2 DEF ToSet
  <2> QED
    BY <1>1, <1>3, <2>1, <2>2, <2>3
<1>8. ToSet(r) = ToSet(f)
  BY <1>1, <1>5, <1>6, <1>7 DEF ToSet
<1> QED
  BY <1>4, <1>5, <1>8 DEF t, r

\* The first of a sequence without repetitions is not in the rest.
LEMMA TailIs ==
    ASSUME NEW S, NEW s \in Seq(S), s # << >>
    PROVE  /\ Tail(s) \in Seq(S) /\ Head(s) \in S /\ Head(s) \in ToSet(s)
           /\ ToSet(Tail(s)) \subseteq ToSet(s)
           /\ (\A i, j \in DOMAIN s : s[i] = s[j] => i = j) =>
                  /\ Head(s) \notin ToSet(Tail(s))
                  /\ \A i, j \in DOMAIN Tail(s) : Tail(s)[i] = Tail(s)[j] => i = j
<1> DEFINE t == Tail(s)
           n == Len(s)
<1>1. n \in Nat /\ n >= 1 /\ DOMAIN s = 1 .. n /\ Head(s) = s[1] /\ s[1] \in S
  BY EmptySeq
<1>2. t \in Seq(S) /\ DOMAIN t = 1 .. n - 1 /\ \A i \in 1 .. n - 1 : t[i] = s[i + 1]
  BY HeadTailProperties
<1> HIDE DEF t, n
<1>3. \A i \in 1 .. n - 1 : i + 1 \in 1 .. n /\ i + 1 # 1
  BY <1>1
<1>4. 1 \in 1 .. n
  BY <1>1
<1>5. ToSet(t) \subseteq ToSet(s) /\ Head(s) \in ToSet(s)
  BY <1>1, <1>2, <1>3, <1>4 DEF ToSet
<1>6. ASSUME \A i, j \in DOMAIN s : s[i] = s[j] => i = j
      PROVE  /\ Head(s) \notin ToSet(t)
             /\ \A i, j \in DOMAIN t : t[i] = t[j] => i = j
  <2>1. \A i \in 1 .. n - 1 : t[i] # s[1]
    BY <1>1, <1>2, <1>3, <1>4, <1>6
  <2>2. Head(s) \notin ToSet(t)
    BY <1>1, <1>2, <2>1 DEF ToSet
  <2>3. ASSUME NEW i \in 1 .. n - 1, NEW j \in 1 .. n - 1, t[i] = t[j] PROVE i = j
    <3>1. s[i + 1] = s[j + 1]
      BY <1>2, <2>3
    <3>2. i + 1 = j + 1
      BY <1>1, <1>3, <1>6, <3>1
    <3> QED
      BY <1>1, <3>2
  <2> QED
    BY <1>2, <2>2, <2>3
<1> QED
  BY <1>1, <1>2, <1>5, <1>6 DEF t

\* What a number stands for is one thing only.
LEMMA ObjectsDiffer ==
    /\ Closed # Listening /\ Closed # Stray /\ Listening # Stray
    /\ \A c \in Clients : /\ Socket(c) \notin {Closed, Listening, Stray}
                          /\ File(c) \notin {Closed, Listening, Stray}
    /\ \A c, d \in Clients : /\ Socket(c) # File(d)
                             /\ Socket(c) = Socket(d) => c = d
                             /\ File(c) = File(d) => c = d
  BY DEF Closed, Listening, Stray, Socket, File

\* A new descriptor has a number that was free.
LEMMA NewFdIs ==
    ASSUME NewFd # NoFd
    PROVE  NewFd \in Descriptors /\ table[NewFd] = Closed
<1> DEFINE free == {n \in Descriptors : table[n] = Closed}
<1>1. free # {} /\ NewFd = Min(free)
  BY DEF NewFd
<1>2. free \in SUBSET Nat
  BY DescriptorAssumption
<1>3. Min(free) \in free
  <2> HIDE DEF free
  <2> QED
    BY <1>1, <1>2, LeastIs
<1> QED
  BY <1>1, <1>3

-----------------------------------------------------------------------------
(* A session after its request *)

\* s is the session at the iterator after its request was handled, and files the
\* descriptor table: what was open stays as it was, and what was opened is in the
\* list of the session, but for what a short message brought.
Handled(s, files) ==
    /\ s \in Session
    /\ files \in [Descriptors -> Objects]
    /\ s.client = sessions[at].client
    /\ s.fd = sessions[at].fd
    /\ ToSet(sessions[at].files) \subseteq ToSet(s.files)
    /\ \A n \in Descriptors : table[n] # Closed => files[n] = table[n]
    /\ \A n \in Descriptors : files[n] # table[n] => n \in ToSet(s.files) \/ files[n] = Stray

\* What SessionsApart says of one session's vectors and its list.
Intact(s, files) ==
    ~ disturbed =>
        /\ \A v \in Vectors : s.irq[v] # NoFd => files[s.irq[v]] = File(s.client)
        /\ \A n \in ToSet(s.files) : files[n] \in Own(s) \/ n \in s.mapped

\* The session the listener polls, and those it does not.
LEMMA Polled ==
    ASSUME TypeOK, PlaceInv, pc = "recv"
    PROVE  /\ sessions \in Seq(Session) /\ Len(sessions) \in Nat
           /\ DOMAIN sessions = 1 .. Len(sessions)
           /\ at \in 1 .. Len(sessions) /\ at \in Nat /\ sessions[at] \in Session
           /\ \A i \in 1 .. Len(sessions) : sessions[i] \in Session
<1>1. sessions \in Seq(Session) /\ at \in 1 .. Len(sessions) + 1 /\ at <= Len(sessions)
  BY DEF TypeOK, PlaceInv
<1> QED
  BY <1>1

LEMMA InSession ==
    ASSUME NEW r \in Session
    PROVE  /\ r.client \in Clients /\ r.fd \in Descriptors
           /\ r.files \in Seq(Descriptors) /\ ToSet(r.files) \subseteq Descriptors
           /\ \A v \in Vectors : r.irq[v] # NoFd => r.irq[v] \in Descriptors
<1>1. /\ r.client \in Clients /\ r.fd \in Descriptors /\ r.files \in Seq(Descriptors)
      /\ r.irq \in [Vectors -> Descriptors \cup {NoFd}]
  BY DEF Session
<1>2. ToSet(r.files) \subseteq Descriptors
  <2>1. \A i \in DOMAIN r.files : r.files[i] \in Descriptors
    BY <1>1
  <2> QED
    BY <2>1 DEF ToSet
<1> QED
  BY <1>1, <1>2

\* The session stays.
LEMMA KeepStep ==
    ASSUME IInv, pc = "recv",
           NEW s, NEW files, NEW left,
           Handled(s, files), Intact(s, files), left \in [Clients -> Seq(Requests)],
           KeepSession(s, files, left), UNCHANGED <<ready, stage, peer, backlog, requests>>
    PROVE  IInv'
<1> USE DEF IInv
<1>1. /\ sessions' = [sessions EXCEPT ![at] = s] /\ table' = files /\ messages' = left
      /\ at' = at + 1 /\ pc' = "round"
      /\ disturbed' = disturbed /\ ready' = ready /\ stage' = stage /\ peer' = peer
      /\ backlog' = backlog /\ requests' = requests
  BY DEF KeepSession
<1>2. /\ sessions \in Seq(Session) /\ Len(sessions) \in Nat
      /\ DOMAIN sessions = 1 .. Len(sessions)
      /\ at \in 1 .. Len(sessions) /\ at \in Nat /\ sessions[at] \in Session
      /\ \A i \in 1 .. Len(sessions) : sessions[i] \in Session
  BY Polled
<1>3. s \in Session /\ s.client = sessions[at].client /\ s.fd = sessions[at].fd
  BY DEF Handled
<1>4. /\ sessions' \in Seq(Session) /\ Len(sessions') = Len(sessions)
      /\ DOMAIN sessions' = 1 .. Len(sessions)
      /\ sessions'[at] = s
      /\ \A i \in 1 .. Len(sessions) : i # at => sessions'[i] = sessions[i]
  BY <1>1, <1>2, <1>3
<1>5. \A i \in 1 .. Len(sessions) : /\ sessions'[i].client = sessions[i].client
                                    /\ sessions'[i].fd = sessions[i].fd
  BY <1>3, <1>4
<1>6. /\ \A n \in Descriptors : table[n] # Closed => files[n] = table[n]
      /\ \A n \in Descriptors : files[n] # table[n] => n \in ToSet(s.files) \/ files[n] = Stray
      /\ files \in [Descriptors -> Objects]
      /\ ToSet(sessions[at].files) \subseteq ToSet(s.files)
  BY DEF Handled
<1>7. TypeOK'
  <2>1. at' \in 1 .. Len(sessions') + 1
    BY <1>1, <1>2, <1>4
  <2> QED
    BY <1>1, <1>4, <1>6, <2>1 DEF TypeOK
<1>8. PlaceInv'
  <2>1. table[ListenFd] = Listening => files[ListenFd] = Listening
    BY <1>6, DescriptorAssumption, ObjectsDiffer
  <2> QED
    BY <1>1, <2>1 DEF PlaceInv
<1>9. ClientInv'
  BY <1>1, <1>2, <1>4, <1>5 DEF ClientInv
<1>10. SessionsApart'
  <2> SUFFICES ASSUME ~ disturbed, NEW i \in 1 .. Len(sessions)
               PROVE  LET r == sessions'[i]
                      IN  /\ files[r.fd] = Socket(r.client)
                          /\ \A v \in Vectors : r.irq[v] # NoFd => files[r.irq[v]] = File(r.client)
                          /\ \A n \in ToSet(r.files) : files[n] \in Own(r) \/ n \in r.mapped
    BY <1>1, <1>4 DEF SessionsApart
  <2>1. PICK r \in Session : r = sessions[i]
    BY <1>2
  <2>2. /\ table[r.fd] = Socket(r.client)
        /\ \A v \in Vectors : r.irq[v] # NoFd => table[r.irq[v]] = File(r.client)
        /\ \A n \in ToSet(r.files) : table[n] \in Own(r) \/ n \in r.mapped
    BY <1>2, <2>1 DEF SessionsApart
  <2>3. /\ files[r.fd] = Socket(r.client)
        /\ \A v \in Vectors : r.irq[v] # NoFd => files[r.irq[v]] = File(r.client)
        /\ \A n \in ToSet(r.files) : files[n] \in Own(r) \/ n \in r.mapped
    BY <1>6, <2>2, InSession, ObjectsDiffer DEF Own
  <2>4. CASE i = at
    BY <1>3, <1>4, <2>1, <2>3, <2>4 DEF Intact
  <2>5. CASE i # at
    BY <1>4, <2>1, <2>3, <2>5
  <2> QED
    BY <2>4, <2>5
<1>11. NothingForgotten'
  <2> SUFFICES ASSUME NEW n \in Descriptors, files[n] \notin {Closed, Listening, Stray}
               PROVE  \E i \in 1 .. Len(sessions) :
                          n \in {sessions'[i].fd} \cup ToSet(sessions'[i].files)
    BY <1>1, <1>4 DEF NothingForgotten
  <2>1. CASE files[n] # table[n]
    BY <1>2, <1>4, <1>6, <2>1
  <2>2. CASE files[n] = table[n]
    <3>1. PICK i \in 1 .. Len(sessions) : n \in {sessions[i].fd} \cup ToSet(sessions[i].files)
      BY <1>2, <2>2 DEF NothingForgotten
    <3> QED
      BY <1>2, <1>3, <1>4, <1>6, <3>1
  <2> QED
    BY <2>1, <2>2
<1> QED
  BY <1>7, <1>8, <1>9, <1>10, <1>11

\* The session ends.
LEMMA EndStep ==
    ASSUME IInv, pc = "recv",
           NEW s, NEW files, NEW left,
           Handled(s, files), left \in [Clients -> Seq(Requests)],
           EndSession(s, files, left), UNCHANGED <<ready, stage, peer, backlog, requests>>
    PROVE  IInv'
<1> USE DEF IInv
<1> DEFINE numbers == {s.fd} \cup ToSet(s.files)
           N == Len(sessions)
<1>1. /\ table' = [n \in Descriptors |-> IF n \in numbers THEN Closed ELSE files[n]]
      /\ messages' = [c \in Clients |-> IF Socket(c) \in {files[n] : n \in numbers}
                                        THEN << >> ELSE left[c]]
      /\ disturbed' = (disturbed \/ \E n \in numbers :
                          files[n] \notin {Closed, Socket(s.client), File(s.client)})
      /\ sessions' = RemoveAt(sessions, at)
      /\ at' = (IF at < N THEN at + 1 ELSE 1)
      /\ pc' \in {"round", "aborted"}
      /\ ready' = ready /\ stage' = stage /\ peer' = peer
      /\ backlog' = backlog /\ requests' = requests
  BY DEF EndSession
<1>2. /\ sessions \in Seq(Session) /\ N \in Nat
      /\ DOMAIN sessions = 1 .. N
      /\ at \in 1 .. N /\ at \in Nat /\ sessions[at] \in Session
      /\ \A i \in 1 .. N : sessions[i] \in Session
  BY Polled
<1>3. s \in Session /\ s.client = sessions[at].client /\ s.fd = sessions[at].fd
  BY DEF Handled
<1>4. /\ sessions' \in Seq(Session) /\ Len(sessions') = N - 1
      /\ DOMAIN sessions' = 1 .. N - 1
      /\ \A k \in 1 .. N - 1 : sessions'[k] = IF k < at THEN sessions[k] ELSE sessions[k + 1]
  BY <1>1, <1>2, RemoveAtIs
<1>5. numbers \subseteq Descriptors
  BY <1>3, InSession
<1>6. /\ \A n \in Descriptors : table[n] # Closed => files[n] = table[n]
      /\ \A n \in Descriptors : files[n] # table[n] => n \in ToSet(s.files) \/ files[n] = Stray
      /\ files \in [Descriptors -> Objects]
      /\ ToSet(sessions[at].files) \subseteq ToSet(s.files)
  BY DEF Handled
<1> HIDE DEF numbers, N
<1> DEFINE old(k) == IF k < at THEN k ELSE k + 1
<1>7. /\ \A k \in 1 .. N - 1 : /\ old(k) \in 1 .. N /\ old(k) # at
                               /\ sessions'[k] = sessions[old(k)]
      /\ \A k, l \in 1 .. N - 1 : old(k) = old(l) => k = l
      /\ \A i \in 1 .. N : i # at => \E k \in 1 .. N - 1 : old(k) = i
  <2>1. ASSUME NEW i \in 1 .. N, i # at PROVE \E k \in 1 .. N - 1 : old(k) = i
    <3>1. CASE i < at
      <4>1. i \in 1 .. N - 1 /\ old(i) = i
        BY <1>2, <3>1
      <4> QED
        BY <4>1
    <3>2. CASE i > at
      <4>1. i - 1 \in 1 .. N - 1 /\ old(i - 1) = i
        BY <1>2, <3>2
      <4> QED
        BY <4>1
    <3> QED
      BY <1>2, <2>1, <3>1, <3>2
  <2>2. \A k \in 1 .. N - 1 : /\ old(k) \in 1 .. N /\ old(k) # at
                              /\ sessions'[k] = sessions[old(k)]
    BY <1>2, <1>4
  <2>3. \A k, l \in 1 .. N - 1 : old(k) = old(l) => k = l
    BY <1>2
  <2> QED
    BY <2>1, <2>2, <2>3
<1> HIDE DEF old
<1>8. TypeOK'
  <2>1. at' \in 1 .. Len(sessions') + 1
    BY <1>1, <1>2, <1>4
  <2>2. table' \in [Descriptors -> Objects]
    BY <1>1, <1>6 DEF Objects
  <2>3. messages' \in [Clients -> Seq(Requests)]
    <3>1. << >> \in Seq(Requests)
      OBVIOUS
    <3> QED
      BY <1>1, <3>1
  <2>4. disturbed' \in BOOLEAN /\ pc' \in {"select", "accept", "round", "recv", "exited", "aborted"}
    BY <1>1
  <2> QED
    BY <1>1, <1>4, <2>1, <2>2, <2>3, <2>4 DEF TypeOK
<1>9. \A n \in Descriptors : /\ n \notin numbers => table'[n] = files[n]
                             /\ n \in numbers => table'[n] = Closed
  BY <1>1
<1>10. ~ disturbed' => /\ ~ disturbed
                       /\ \A n \in numbers : files[n] \in {Closed, Socket(s.client), File(s.client)}
  BY <1>1
<1>11. s.client \in Clients
  BY <1>3, InSession
<1>12. PlaceInv'
  <2>1. ~ disturbed' /\ stage' # "closing" => table'[ListenFd] = Listening
    <3> SUFFICES ASSUME ~ disturbed', stage # "closing" PROVE table'[ListenFd] = Listening
      BY <1>1
    <3>1. table[ListenFd] = Listening /\ ListenFd \in Descriptors
      BY <1>10, DescriptorAssumption DEF PlaceInv
    <3>2. files[ListenFd] = Listening
      BY <1>6, <3>1, ObjectsDiffer
    <3>3. ListenFd \notin numbers
      BY <1>10, <1>11, <3>2, ObjectsDiffer
    <3> QED
      BY <1>9, <3>1, <3>2, <3>3
  <2> QED
    BY <1>1, <2>1 DEF PlaceInv
<1>13. ClientInv'
  <2>1. \A k, l \in 1 .. N - 1 : sessions'[k].client = sessions'[l].client => k = l
    BY <1>2, <1>7 DEF ClientInv
  <2>2. \A k \in 1 .. N - 1 : sessions'[k].client \notin ToSet(backlog)
    BY <1>2, <1>7 DEF ClientInv
  <2>3. \A c \in Clients : peer[c] = "new" => \A k \in 1 .. N - 1 : sessions'[k].client # c
    BY <1>2, <1>7 DEF ClientInv
  <2> QED
    BY <1>1, <1>4, <2>1, <2>2, <2>3 DEF ClientInv
<1>14. SessionsApart'
  <2> SUFFICES ASSUME ~ disturbed', NEW k \in 1 .. N - 1
               PROVE  LET r == sessions'[k]
                      IN  /\ table'[r.fd] = Socket(r.client)
                          /\ \A v \in Vectors : r.irq[v] # NoFd => table'[r.irq[v]] = File(r.client)
                          /\ \A n \in ToSet(r.files) : table'[n] \in Own(r) \/ n \in r.mapped
    BY <1>4 DEF SessionsApart
  <2>1. PICK i \in 1 .. N : i = old(k) /\ i # at /\ sessions'[k] = sessions[i]
    BY <1>7
  <2>2. PICK r \in Session : r = sessions[i]
    BY <1>2
  <2>3. /\ table[r.fd] = Socket(r.client)
        /\ \A v \in Vectors : r.irq[v] # NoFd => table[r.irq[v]] = File(r.client)
        /\ \A n \in ToSet(r.files) : table[n] \in Own(r) \/ n \in r.mapped
    BY <1>2, <1>10, <2>2 DEF SessionsApart
  <2>4. r.client # s.client /\ r.client \in Clients
    BY <1>2, <1>3, <2>1, <2>2, InSession DEF ClientInv
  <2>5. \A n \in Descriptors : table[n] \in Own(r) => table'[n] = table[n]
    <3> SUFFICES ASSUME NEW n \in Descriptors, table[n] \in Own(r) PROVE table'[n] = table[n]
      OBVIOUS
    <3>1. files[n] = table[n]
      BY <1>6, <2>4, ObjectsDiffer DEF Own
    <3>2. table[n] \notin {Closed, Socket(s.client), File(s.client)}
      BY <1>11, <2>4, ObjectsDiffer DEF Own
    <3> QED
      BY <1>9, <1>10, <3>1, <3>2
  <2>6. /\ r.fd \in Descriptors /\ ToSet(r.files) \subseteq Descriptors
        /\ \A v \in Vectors : r.irq[v] # NoFd => r.irq[v] \in Descriptors
    BY InSession
  <2>7. /\ table'[r.fd] = Socket(r.client)
        /\ \A v \in Vectors : r.irq[v] # NoFd => table'[r.irq[v]] = File(r.client)
        /\ \A n \in ToSet(r.files) : table'[n] \in Own(r) \/ n \in r.mapped
    <3>1. Socket(r.client) \in Own(r) /\ File(r.client) \in Own(r)
      BY DEF Own
    <3> QED
      BY <2>3, <2>5, <2>6, <3>1
  <2> QED
    BY <2>1, <2>2, <2>7
<1>15. NothingForgotten'
  <2> SUFFICES ASSUME NEW n \in Descriptors, table'[n] \notin {Closed, Listening, Stray}
               PROVE  \E k \in 1 .. N - 1 :
                          n \in {sessions'[k].fd} \cup ToSet(sessions'[k].files)
    BY <1>4 DEF NothingForgotten
  <2>1. n \notin numbers /\ files[n] = table'[n]
    BY <1>9
  <2>2. files[n] = table[n]
    BY <1>6, <2>1 DEF numbers
  <2>3. PICK i \in 1 .. N : n \in {sessions[i].fd} \cup ToSet(sessions[i].files)
    BY <1>2, <2>1, <2>2 DEF NothingForgotten
  <2>4. i # at
    BY <1>3, <1>6, <2>1, <2>3 DEF numbers
  <2>5. PICK k \in 1 .. N - 1 : old(k) = i
    BY <1>7, <2>4
  <2> QED
    BY <1>7, <2>3, <2>5
<1> QED
  BY <1>8, <1>12, <1>13, <1>14, <1>15

-----------------------------------------------------------------------------
(* The requests *)

\* What the requests of the poll have in common: the reply, or the end.
LEMMA ReplyStep ==
    ASSUME IInv, pc = "recv",
           NEW s, NEW files, NEW left, NEW c,
           Handled(s, files), Intact(s, files), left \in [Clients -> Seq(Requests)],
           Reply(s, files, left, c) \/ EndSession(s, files, left),
           UNCHANGED <<ready, stage, peer, backlog, requests>>
    PROVE  IInv'
  BY KeepStep, EndStep DEF Reply

\* A session that is as it was, or has one number more in its list.
LEMMA SameHandled ==
    ASSUME IInv, pc = "recv"
    PROVE  Handled(sessions[at], table) /\ Intact(sessions[at], table)
<1>1. sessions[at] \in Session /\ at \in DOMAIN sessions
  BY Polled DEF IInv
<1> QED
  BY <1>1 DEF IInv, TypeOK, Handled, Intact, SessionsApart

LEMMA PlainStep ==
    ASSUME IInv, pc = "recv",
           NEW left \in [Clients -> Seq(Requests)], NEW c,
           \/ PlainRequest(sessions[at], left, c)
           \/ EndSession(sessions[at], table, left),
           UNCHANGED <<ready, stage, peer, backlog, requests>>
    PROVE  IInv'
<1>1. sessions[at] \in Session /\ table \in [Descriptors -> Objects]
  BY Polled DEF IInv, TypeOK
<1>2. PICK s \in Session : s = sessions[at]
  BY <1>1
<1>3. PICK files \in [Descriptors -> Objects] : files = table
  BY <1>1
<1>4. Handled(s, files) /\ Intact(s, files)
  BY <1>2, <1>3, SameHandled
<1>5. Reply(s, files, left, c) \/ EndSession(s, files, left)
  BY <1>2, <1>3 DEF PlainRequest
<1> QED
  BY <1>4, <1>5, ReplyStep

LEMMA RegionStep ==
    ASSUME IInv, pc = "recv", NewFd # NoFd,
           NEW left \in [Clients -> Seq(Requests)], NEW c,
           RegionRequest(sessions[at], left, c),
           UNCHANGED <<ready, stage, peer, backlog, requests>>
    PROVE  IInv'
<1>1. /\ sessions[at] \in Session /\ table \in [Descriptors -> Objects]
      /\ NewFd \in Descriptors /\ table[NewFd] = Closed
  BY Polled, NewFdIs DEF IInv, TypeOK
<1>2. PICK s \in Session : s = sessions[at]
  BY <1>1
<1>3. PICK files \in [Descriptors -> Objects] : files = table
  BY <1>1
<1>4. PICK n \in Descriptors : n = NewFd
  BY <1>1
<1>5. PICK list \in Seq(Descriptors) : list = Append(s.files, n)
  BY InSession, AppendIs
<1>6. ToSet(list) = ToSet(s.files) \cup {n}
  BY <1>5, InSession, AppendIs
<1>7. PICK owner : owner = [s EXCEPT !.files = list, !.mapped = @ \cup {n}]
  OBVIOUS
<1>8. PICK told : told = [owner EXCEPT !.announced = TRUE]
  OBVIOUS
<1>9. /\ owner \in Session /\ told \in Session
      /\ owner.client = s.client /\ owner.fd = s.fd /\ owner.irq = s.irq
      /\ owner.files = list /\ owner.mapped = s.mapped \cup {n}
      /\ told.client = s.client /\ told.fd = s.fd /\ told.irq = s.irq
      /\ told.files = list /\ told.mapped = s.mapped \cup {n}
  BY <1>7, <1>8 DEF Session
<1>10. Handled(s, files) /\ Intact(s, files)
  BY <1>2, <1>3, SameHandled
<1>11. Handled(owner, files) /\ Intact(owner, files)
  BY <1>6, <1>9, <1>10 DEF Handled, Intact, Own
<1>12. Handled(told, files) /\ Intact(told, files)
  BY <1>6, <1>9, <1>10 DEF Handled, Intact, Own
<1>13. \/ Reply(told, files, left, c)
       \/ EndSession(owner, files, left)
  BY <1>2, <1>3, <1>4, <1>5, <1>7, <1>8 DEF RegionRequest
<1> QED
  BY <1>11, <1>12, <1>13, ReplyStep

LEMMA IrqStep ==
    ASSUME IInv, pc = "recv", NewFd # NoFd,
           NEW left \in [Clients -> Seq(Requests)], NEW c,
           IrqRequest(sessions[at], left, c),
           UNCHANGED <<ready, stage, peer, backlog, requests>>
    PROVE  IInv'
<1>1. /\ sessions[at] \in Session /\ table \in [Descriptors -> Objects]
      /\ NewFd \in Descriptors /\ table[NewFd] = Closed
  BY Polled, NewFdIs DEF IInv, TypeOK
<1>2. PICK s \in Session : s = sessions[at]
  BY <1>1
<1>3. PICK old \in [Descriptors -> Objects] : old = table
  BY <1>1
<1>4. PICK n \in Descriptors : n = NewFd
  BY <1>1
<1>5. s.client \in Clients /\ File(s.client) \in Objects
  BY InSession DEF Objects
<1>6. PICK files \in [Descriptors -> Objects] : files = [old EXCEPT ![n] = File(s.client)]
  BY <1>5
<1>7. PICK list \in Seq(Descriptors) : list = Append(s.files, n)
  BY InSession, AppendIs
<1>8. ToSet(list) = ToSet(s.files) \cup {n}
  BY <1>7, InSession, AppendIs
<1>9. PICK back \in Seq(Descriptors) : back = RemoveFirst(list, n) /\ ToSet(back) = ToSet(s.files)
  BY <1>7, InSession, PutAndTaken
<1>10. PICK owner : owner = [s EXCEPT !.files = list]
  OBVIOUS
<1>11. PICK same : same = [owner EXCEPT !.files = back]
  OBVIOUS
<1>12. /\ owner \in Session /\ same \in Session
       /\ owner.client = s.client /\ owner.fd = s.fd /\ owner.irq = s.irq
       /\ owner.files = list /\ owner.mapped = s.mapped
       /\ same.client = s.client /\ same.fd = s.fd /\ same.irq = s.irq
       /\ same.files = back /\ same.mapped = s.mapped
  BY <1>10, <1>11 DEF Session
<1>13. Handled(s, old) /\ Intact(s, old)
  BY <1>2, <1>3, SameHandled
<1>14. old[n] = Closed /\ old = table
  BY <1>1, <1>3, <1>4
<1>15. Handled(same, old) /\ Intact(same, old)
  BY <1>9, <1>12, <1>13 DEF Handled, Intact, Own
<1>16. files[n] = File(s.client) /\ \A m \in Descriptors : m # n => files[m] = old[m]
  BY <1>6
<1>17. Handled(owner, files)
  <2>1. /\ \A m \in Descriptors : table[m] # Closed => files[m] = table[m]
        /\ \A m \in Descriptors : files[m] # table[m] => m \in ToSet(list)
    BY <1>8, <1>14, <1>16
  <2> QED
    BY <1>8, <1>12, <1>13, <2>1 DEF Handled
<1>18. ~ disturbed =>
           /\ \A v \in Vectors : s.irq[v] # NoFd => files[s.irq[v]] = File(s.client)
           /\ \A m \in ToSet(list) : files[m] \in Own(s) \/ m \in s.mapped
  <2> SUFFICES ASSUME ~ disturbed
               PROVE  /\ \A v \in Vectors : s.irq[v] # NoFd => files[s.irq[v]] = File(s.client)
                      /\ \A m \in ToSet(list) : files[m] \in Own(s) \/ m \in s.mapped
    OBVIOUS
  <2>1. /\ \A v \in Vectors : s.irq[v] # NoFd => old[s.irq[v]] = File(s.client)
        /\ \A m \in ToSet(s.files) : old[m] \in Own(s) \/ m \in s.mapped
    BY <1>13 DEF Intact
  <2>2. \A m \in Descriptors : old[m] \in Own(s) => files[m] = old[m]
    BY <1>5, <1>14, <1>16, ObjectsDiffer DEF Own
  <2> QED
    BY <1>8, <1>16, <2>1, <2>2, InSession DEF Own
<1>19. Intact(owner, files)
  BY <1>12, <1>18 DEF Intact, Own
<1>20. ASSUME NEW v \in Vectors, NEW set, set = [owner EXCEPT !.irq[v] = n]
       PROVE  Handled(set, files) /\ Intact(set, files)
  <2>1. /\ set \in Session
        /\ set.client = s.client /\ set.fd = s.fd /\ set.files = list /\ set.mapped = s.mapped
        /\ set.irq = [s.irq EXCEPT ![v] = n]
    BY <1>12, <1>20 DEF Session
  <2>2. s.irq \in [Vectors -> Descriptors \cup {NoFd}]
    BY DEF Session
  <2>3. \A w \in Vectors : set.irq[w] = IF w = v THEN n ELSE s.irq[w]
    BY <2>1, <2>2
  <2>4. Handled(set, files)
    BY <1>12, <1>17, <2>1 DEF Handled
  <2>5. Intact(set, files)
    BY <1>16, <1>18, <2>1, <2>3 DEF Intact, Own
  <2> QED
    BY <2>4, <2>5
<1>21. \/ \E v \in Vectors : Reply([owner EXCEPT !.irq[v] = n], files, left, c)
       \/ Reply(same, old, left, c)
       \/ Reply(owner, files, left, c)
  BY <1>2, <1>3, <1>4, <1>6, <1>7, <1>9, <1>10, <1>11, <1>12 DEF IrqRequest, Open, CloseFd
<1>22. CASE \E v \in Vectors : Reply([owner EXCEPT !.irq[v] = n], files, left, c)
  <2>1. PICK v \in Vectors : Reply([owner EXCEPT !.irq[v] = n], files, left, c)
    BY <1>22
  <2>2. PICK set : set = [owner EXCEPT !.irq[v] = n]
    OBVIOUS
  <2>3. Handled(set, files) /\ Intact(set, files) /\ Reply(set, files, left, c)
    BY <1>20, <2>1, <2>2
  <2> QED
    BY <2>3, ReplyStep
<1>23. CASE Reply(same, old, left, c)
  BY <1>15, <1>23, ReplyStep
<1>24. CASE Reply(owner, files, left, c)
  BY <1>17, <1>19, <1>24, ReplyStep
<1> QED
  BY <1>21, <1>22, <1>23, <1>24

LEMMA ShortStep ==
    ASSUME IInv, pc = "recv",
           NEW left \in [Clients -> Seq(Requests)],
           ShortMessage(sessions[at], left),
           UNCHANGED <<ready, stage, peer, backlog, requests>>
    PROVE  IInv'
<1>1. /\ sessions[at] \in Session /\ table \in [Descriptors -> Objects]
      /\ NewFd # NoFd => NewFd \in Descriptors /\ table[NewFd] = Closed
  BY Polled, NewFdIs DEF IInv, TypeOK
<1>2. PICK s \in Session : s = sessions[at]
  BY <1>1
<1>3. PICK files \in [Descriptors -> Objects] :
          files = IF NewFd = NoFd THEN table ELSE [table EXCEPT ![NewFd] = Stray]
  <2>1. Stray \in Objects
    BY DEF Objects
  <2> QED
    BY <1>1, <2>1
<1>4. Handled(s, table)
  BY <1>2, SameHandled
<1>5. /\ \A m \in Descriptors : table[m] # Closed => files[m] = table[m]
      /\ \A m \in Descriptors : files[m] # table[m] => files[m] = Stray
  BY <1>1, <1>3
<1>6. Handled(s, files)
  BY <1>4, <1>5 DEF Handled
<1>7. EndSession(s, files, left)
  BY <1>2, <1>3 DEF ShortMessage, Open
<1> QED
  BY <1>6, <1>7, EndStep

\* One request, or the end of the connection.
LEMMA PollStep == ASSUME IInv, Poll PROVE IInv'
<1>1. pc = "recv" /\ UNCHANGED <<ready, stage, peer, backlog, requests>>
  BY DEF Poll
<1>2. messages \in [Clients -> Seq(Requests)]
  BY DEF IInv, TypeOK
<1>3. CASE \E c \in Clients : /\ table[sessions[at].fd] = Socket(c)
                              /\ messages[c] # << >>
                              /\ HandleRequest(sessions[at], c)
  <2>1. PICK c \in Clients : messages[c] # << >> /\ HandleRequest(sessions[at], c)
    BY <1>3
  <2>2. PICK left \in [Clients -> Seq(Requests)] : left = [messages EXCEPT ![c] = Tail(@)]
    <3>1. Tail(messages[c]) \in Seq(Requests)
      BY <1>2, <2>1, TailIs
    <3> QED
      BY <1>2, <3>1
  <2>3. \/ PlainRequest(sessions[at], left, c) \/ EndSession(sessions[at], table, left)
        \/ NewFd # NoFd /\ RegionRequest(sessions[at], left, c)
        \/ NewFd # NoFd /\ IrqRequest(sessions[at], left, c)
        \/ ShortMessage(sessions[at], left)
    BY <2>1, <2>2 DEF HandleRequest
  <2> QED
    BY <1>1, <2>3, PlainStep, RegionStep, IrqStep, ShortStep
<1>4. CASE EndSession(sessions[at], table, messages)
  <2>1. PICK left \in [Clients -> Seq(Requests)] : left = messages
    BY <1>2
  <2>2. EndSession(sessions[at], table, left)
    BY <1>4, <2>1
  <2> QED
    BY <1>1, <2>2, PlainStep
<1> QED
  BY <1>3, <1>4 DEF Poll

-----------------------------------------------------------------------------
(* The listener thread *)

LEMMA InitInv == Init => IInv
<1> SUFFICES ASSUME Init PROVE IInv
  OBVIOUS
<1> USE DEF Init
<1>1. table \in [Descriptors -> Objects]
  BY DEF Objects
<1>2. /\ sessions \in Seq(Session) /\ backlog \in Seq(Clients)
      /\ messages \in [Clients -> Seq(Requests)]
  OBVIOUS
<1>3. at \in 1 .. Len(sessions) + 1 /\ requests \in 0 .. MaxRequests
  BY BoundAssumption
<1>4. TypeOK
  BY <1>1, <1>2, <1>3 DEF TypeOK
<1>5. DOMAIN sessions = {} /\ DOMAIN backlog = {} /\ ToSet(backlog) = {}
  BY DEF ToSet
<1>6. PlaceInv
  BY DescriptorAssumption DEF PlaceInv
<1>7. ClientInv
  BY <1>5 DEF ClientInv
<1>8. SessionsApart /\ NothingForgotten
  BY <1>5 DEF SessionsApart, NothingForgotten
<1> QED
  BY <1>4, <1>6, <1>7, <1>8 DEF IInv

\* accept finds a client: the listening socket is in the set only if one waits.
LEMMA SelectStep == ASSUME IInv, Select PROVE IInv'
<1> USE DEF IInv
<1>1. /\ UNCHANGED <<table, sessions, at, stage, peer, backlog, messages, requests, disturbed>>
      /\ pc' = "accept"
  BY DEF Select
<1>2. ready' \subseteq Readable
  BY DEF Select
<1>3. Watched \subseteq Descriptors
  <2>1. \A i \in DOMAIN sessions : sessions[i] \in Session
    BY DEF TypeOK
  <2>2. \A i \in DOMAIN sessions : sessions[i].fd \in Descriptors
    BY <2>1, InSession
  <2> QED
    BY <2>2, DescriptorAssumption DEF Watched
<1>4. ready' \subseteq Descriptors
  BY <1>2, <1>3 DEF Readable
<1>5. ListenFd \in Readable /\ table[ListenFd] = Listening => backlog # << >>
  <2> SUFFICES ASSUME ListenFd \in Readable, table[ListenFd] = Listening PROVE backlog # << >>
    OBVIOUS
  <2>1. (CASE table[ListenFd] = Listening -> backlog # << >>
           [] table[ListenFd] \in {Socket(c) : c \in Clients} -> Returns(ListenFd)
           [] OTHER -> TRUE)
    BY DEF Readable
  <2>2. table[ListenFd] \notin {Socket(c) : c \in Clients}
    BY ObjectsDiffer
  <2> QED
    BY <2>1, <2>2
<1>6. TypeOK'
  BY <1>1, <1>4 DEF TypeOK
<1>7. PlaceInv'
  BY <1>1, <1>2, <1>5 DEF PlaceInv
<1>8. ClientInv'
  BY <1>1 DEF ClientInv
<1>9. SessionsApart' /\ NothingForgotten'
  BY <1>1 DEF SessionsApart, NothingForgotten
<1> QED
  BY <1>6, <1>7, <1>8, <1>9

LEMMA SelectFailsStep == ASSUME IInv, SelectFails PROVE IInv'
<1>1. /\ UNCHANGED <<table, sessions, at, ready, stage, peer, backlog, messages, requests,
                     disturbed>>
      /\ pc' = "exited"
  BY DEF SelectFails
<1> QED
  BY <1>1 DEF IInv, TypeOK, PlaceInv, ClientInv, SessionsApart, NothingForgotten

LEMMA ScanStep == ASSUME IInv, Scan PROVE IInv'
<1> USE DEF IInv
<1> DEFINE next == {i \in at .. Len(sessions) : sessions[i].fd \in ready}
<1>1. /\ UNCHANGED <<table, sessions, stage, peer, backlog, messages, requests, disturbed>>
      /\ \/ next = {} /\ pc' = "select" /\ at' = 1 /\ ready' = {}
         \/ next # {} /\ pc' = "recv" /\ at' = Min(next) /\ ready' = ready
  BY DEF Scan
<1>2. at \in Nat /\ at >= 1 /\ Len(sessions) \in Nat
  BY DEF TypeOK
<1>3. next # {} => Min(next) \in next
  <2>1. next \in SUBSET Nat
    BY <1>2
  <2> HIDE DEF next
  <2> QED
    BY <2>1, LeastIs
<1>4. /\ at' \in 1 .. Len(sessions) + 1
      /\ pc' = "recv" => at' <= Len(sessions)
      /\ pc' \in {"select", "recv"} /\ ready' \subseteq Descriptors
  BY <1>1, <1>2, <1>3 DEF TypeOK
<1>5. TypeOK'
  BY <1>1, <1>4 DEF TypeOK
<1>6. PlaceInv'
  BY <1>1, <1>4 DEF PlaceInv
<1>7. ClientInv'
  BY <1>1 DEF ClientInv
<1>8. SessionsApart' /\ NothingForgotten'
  BY <1>1 DEF SessionsApart, NothingForgotten
<1> QED
  BY <1>5, <1>6, <1>7, <1>8

\* A new session starts with a descriptor that nobody else holds.
LEMMA AcceptStep == ASSUME IInv, Accept PROVE IInv'
<1> USE DEF IInv
<1>1. /\ UNCHANGED <<at, ready, stage, peer, messages, requests, disturbed>>
      /\ pc = "accept" /\ pc' = "round"
  BY DEF Accept
<1>2. CASE UNCHANGED <<sessions, table, backlog>>
  BY <1>1, <1>2 DEF TypeOK, PlaceInv, ClientInv, SessionsApart, NothingForgotten
<1>3. CASE /\ ListenFd \in ready /\ table[ListenFd] = Listening /\ NewFd # NoFd
           /\ sessions' = Append(sessions, NewSession(Head(backlog), NewFd))
           /\ table' = Open(NewFd, Socket(Head(backlog)))
           /\ backlog' = Tail(backlog)
  <2> DEFINE N == Len(sessions)
  <2>1. /\ sessions \in Seq(Session) /\ N \in Nat /\ DOMAIN sessions = 1 .. N
        /\ \A i \in 1 .. N : sessions[i] \in Session
        /\ backlog \in Seq(Clients) /\ backlog # << >>
        /\ table \in [Descriptors -> Objects]
    BY <1>1, <1>3 DEF TypeOK, PlaceInv
  <2>2. PICK c \in Clients : c = Head(backlog)
    BY <2>1, TailIs
  <2>3. PICK n \in Descriptors : n = NewFd /\ table[n] = Closed
    BY <1>3, NewFdIs
  <2>4. PICK s \in Session : s = NewSession(c, n)
    <3>1. << >> \in Seq(Descriptors) /\ [v \in Vectors |-> NoFd] \in [Vectors -> Descriptors \cup {NoFd}]
      OBVIOUS
    <3>2. NewSession(c, n) \in Session
      BY <2>3, <3>1 DEF NewSession, Session
    <3> QED
      BY <3>2
  <2>5. /\ s.client = c /\ s.fd = n /\ \A v \in Vectors : s.irq[v] = NoFd
        /\ ToSet(s.files) = {}
    BY <2>4 DEF NewSession, ToSet
  <2>6. /\ sessions' = Append(sessions, s) /\ table' = [table EXCEPT ![n] = Socket(c)]
        /\ backlog' = Tail(backlog)
    BY <1>3, <2>2, <2>3, <2>4 DEF Open
  <2>7. /\ sessions' \in Seq(Session) /\ DOMAIN sessions' = 1 .. N + 1 /\ Len(sessions') = N + 1
        /\ sessions'[N + 1] = s /\ \A i \in 1 .. N : sessions'[i] = sessions[i]
    BY <2>1, <2>6, AppendIs
  <2>8. /\ backlog' \in Seq(Clients) /\ c \in ToSet(backlog)
        /\ ToSet(backlog') \subseteq ToSet(backlog)
        /\ c \notin ToSet(backlog')
        /\ \A i, j \in DOMAIN backlog' : backlog'[i] = backlog'[j] => i = j
    BY <2>1, <2>2, <2>6, TailIs DEF ClientInv
  <2>9. /\ table' \in [Descriptors -> Objects] /\ table'[n] = Socket(c)
        /\ \A m \in Descriptors : table[m] # Closed => table'[m] = table[m]
        /\ \A m \in Descriptors : m # n => table'[m] = table[m]
    <3>1. Socket(c) \in Objects
      BY DEF Objects
    <3> QED
      BY <2>1, <2>3, <2>6, <3>1
  <2> HIDE DEF N
  <2>10. \A i \in 1 .. N + 1 : i \in 1 .. N \/ i = N + 1
    BY <2>1
  <2>11. 1 .. N \subseteq 1 .. N + 1 /\ N + 1 \in 1 .. N + 1
    BY <2>1
  <2>12. TypeOK'
    <3>1. at' \in 1 .. Len(sessions') + 1
      BY <1>1, <2>1, <2>7 DEF TypeOK, N
    <3> QED
      BY <1>1, <2>7, <2>8, <2>9, <3>1 DEF TypeOK
  <2>13. PlaceInv'
    BY <1>1, <2>9, DescriptorAssumption, ObjectsDiffer DEF PlaceInv
  <2>14. ClientInv'
    <3>1. \A i \in 1 .. N : sessions[i].client # c
      BY <2>1, <2>8 DEF ClientInv
    <3>2. \A i, j \in 1 .. N + 1 : sessions'[i].client = sessions'[j].client => i = j
      BY <2>1, <2>5, <2>7, <2>10, <3>1 DEF ClientInv
    <3>3. \A i \in 1 .. N + 1 : sessions'[i].client \notin ToSet(backlog')
      <4>1. \A i \in 1 .. N : sessions[i].client \notin ToSet(backlog)
        BY <2>1 DEF ClientInv
      <4>2. \A i \in 1 .. N : sessions'[i].client \notin ToSet(backlog')
        BY <2>7, <2>8, <4>1
      <4>3. sessions'[N + 1].client \notin ToSet(backlog')
        BY <2>5, <2>7, <2>8
      <4> QED
        BY <2>10, <4>2, <4>3
    <3>4. \A d \in Clients : peer[d] = "new" =>
              d \notin ToSet(backlog') /\ \A i \in 1 .. N + 1 : sessions'[i].client # d
      BY <2>1, <2>5, <2>7, <2>8, <2>10, SMTT(30) DEF ClientInv
    <3> QED
      BY <1>1, <2>7, <2>8, <3>2, <3>3, <3>4 DEF ClientInv
  <2>15. SessionsApart'
    <3> SUFFICES ASSUME ~ disturbed, NEW i \in 1 .. N + 1
                 PROVE  LET r == sessions'[i]
                        IN  /\ table'[r.fd] = Socket(r.client)
                            /\ \A v \in Vectors : r.irq[v] # NoFd =>
                                   table'[r.irq[v]] = File(r.client)
                            /\ \A m \in ToSet(r.files) : table'[m] \in Own(r) \/ m \in r.mapped
      BY <1>1, <2>7 DEF SessionsApart
    <3>1. CASE i = N + 1
      BY <2>5, <2>7, <2>9, <3>1
    <3>2. CASE i \in 1 .. N
      <4>1. PICK r \in Session : r = sessions[i] /\ r = sessions'[i]
        BY <2>1, <2>7, <3>2
      <4>2. /\ table[r.fd] = Socket(r.client)
            /\ \A v \in Vectors : r.irq[v] # NoFd => table[r.irq[v]] = File(r.client)
            /\ \A m \in ToSet(r.files) : table[m] \in Own(r) \/ m \in r.mapped
        BY <2>1, <3>2, <4>1 DEF SessionsApart
      <4>3. /\ table'[r.fd] = Socket(r.client)
            /\ \A v \in Vectors : r.irq[v] # NoFd => table'[r.irq[v]] = File(r.client)
            /\ \A m \in ToSet(r.files) : table'[m] \in Own(r) \/ m \in r.mapped
        BY <2>9, <4>2, InSession, ObjectsDiffer DEF Own
      <4> QED
        BY <4>1, <4>3
    <3> QED
      BY <2>10, <3>1, <3>2
  <2>16. NothingForgotten'
    <3> SUFFICES ASSUME NEW m \in Descriptors, table'[m] \notin {Closed, Listening, Stray}
                 PROVE  \E i \in 1 .. N + 1 :
                            m \in {sessions'[i].fd} \cup ToSet(sessions'[i].files)
      BY <2>7 DEF NothingForgotten
    <3>1. CASE m = n
      BY <2>5, <2>7, <2>11, <3>1
    <3>2. CASE m # n
      <4>1. PICK i \in 1 .. N : m \in {sessions[i].fd} \cup ToSet(sessions[i].files)
        BY <2>1, <2>9, <3>2 DEF NothingForgotten
      <4> QED
        BY <2>7, <2>11, <4>1
    <3> QED
      BY <3>1, <3>2
  <2> QED
    BY <2>12, <2>13, <2>14, <2>15, <2>16
<1> QED
  BY <1>2, <1>3 DEF Accept

-----------------------------------------------------------------------------
(* The main thread and the clients *)

\* The listening socket is closed; no session has its number.
LEMMA CloseListeningStep == ASSUME IInv, CloseListening PROVE IInv'
<1> USE DEF IInv
<1>1. /\ UNCHANGED <<sessions, pc, at, ready, messages, backlog, disturbed, peer, requests>>
      /\ stage = "signalled" /\ stage' = "closing" /\ table' = [table EXCEPT ![ListenFd] = Closed]
  BY DEF CloseListening
<1>2. /\ table' \in [Descriptors -> Objects] /\ table'[ListenFd] = Closed
      /\ \A m \in Descriptors : m # ListenFd => table'[m] = table[m]
  BY <1>1, DescriptorAssumption DEF TypeOK, Objects
<1>3. TypeOK'
  BY <1>1, <1>2 DEF TypeOK
<1>4. PlaceInv'
  BY <1>1, <1>2, ObjectsDiffer DEF PlaceInv
<1>5. ClientInv'
  BY <1>1 DEF ClientInv
<1>6. SessionsApart'
  <2> SUFFICES ASSUME ~ disturbed, NEW i \in DOMAIN sessions
               PROVE  LET r == sessions[i]
                      IN  /\ table'[r.fd] = Socket(r.client)
                          /\ \A v \in Vectors : r.irq[v] # NoFd => table'[r.irq[v]] = File(r.client)
                          /\ \A m \in ToSet(r.files) : table'[m] \in Own(r) \/ m \in r.mapped
    BY <1>1 DEF SessionsApart
  <2>1. PICK r \in Session : r = sessions[i]
    BY DEF TypeOK
  <2>2. /\ table[r.fd] = Socket(r.client)
        /\ \A v \in Vectors : r.irq[v] # NoFd => table[r.irq[v]] = File(r.client)
        /\ \A m \in ToSet(r.files) : table[m] \in Own(r) \/ m \in r.mapped
    BY <2>1 DEF SessionsApart
  <2>3. table[ListenFd] = Listening
    BY <1>1 DEF PlaceInv
  <2>4. \A m \in Descriptors : table[m] \in Own(r) => table'[m] = table[m]
    BY <1>2, <2>3, InSession, ObjectsDiffer DEF Own
  <2>5. /\ table'[r.fd] = Socket(r.client)
        /\ \A v \in Vectors : r.irq[v] # NoFd => table'[r.irq[v]] = File(r.client)
        /\ \A m \in ToSet(r.files) : table'[m] \in Own(r) \/ m \in r.mapped
    <3>1. Socket(r.client) \in Own(r) /\ File(r.client) \in Own(r)
      BY DEF Own
    <3> QED
      BY <2>2, <2>4, <3>1, InSession
  <2> QED
    BY <2>1, <2>5
<1>7. NothingForgotten'
  BY <1>1, <1>2 DEF NothingForgotten
<1> QED
  BY <1>3, <1>4, <1>5, <1>6, <1>7

LEMMA ConnectStep == ASSUME IInv, NEW c \in Clients, Connect(c) PROVE IInv'
<1> USE DEF IInv
<1>1. /\ UNCHANGED <<table, sessions, pc, at, ready, stage, messages, requests, disturbed>>
      /\ peer[c] = "new" /\ peer' = [peer EXCEPT ![c] = "connected"]
      /\ backlog' = Append(backlog, c)
  BY DEF Connect
<1> DEFINE n == Len(backlog)
<1>2. /\ backlog' \in Seq(Clients) /\ backlog' # << >> /\ n \in Nat
      /\ DOMAIN backlog' = 1 .. n + 1 /\ DOMAIN backlog = 1 .. n
      /\ backlog'[n + 1] = c /\ \A i \in 1 .. n : backlog'[i] = backlog[i]
      /\ ToSet(backlog') = ToSet(backlog) \cup {c}
  <2>1. PICK b \in Seq(Clients) : b = backlog
    BY DEF TypeOK
  <2> QED
    BY <1>1, <2>1, AppendIs
<1> HIDE DEF n
<1>3. peer' \in [Clients -> {"new", "connected", "hungup"}] /\ peer'[c] = "connected"
      /\ \A d \in Clients : d # c => peer'[d] = peer[d]
  BY <1>1 DEF TypeOK
<1>4. TypeOK'
  BY <1>1, <1>2, <1>3 DEF TypeOK
<1>5. PlaceInv'
  BY <1>1, <1>2 DEF PlaceInv
<1>6. ClientInv'
  <2>1. c \notin ToSet(backlog) /\ \A i \in DOMAIN sessions : sessions[i].client # c
    BY <1>1 DEF ClientInv
  <2>2. \A i \in 1 .. n : backlog[i] # c
    BY <1>2, <2>1 DEF ToSet
  <2>3. \A i \in 1 .. n + 1 : i \in 1 .. n \/ i = n + 1
    BY <1>2
  <2>4. \A i, j \in 1 .. n + 1 : backlog'[i] = backlog'[j] => i = j
    BY <1>2, <2>2, <2>3 DEF ClientInv
  <2>5. \A i \in DOMAIN sessions : sessions[i].client \notin ToSet(backlog')
    BY <1>2, <2>1 DEF ClientInv
  <2>6. \A d \in Clients : peer'[d] = "new" =>
            d \notin ToSet(backlog') /\ \A i \in DOMAIN sessions : sessions[i].client # d
    BY <1>2, <1>3 DEF ClientInv
  <2> QED
    BY <1>1, <1>2, <2>4, <2>5, <2>6 DEF ClientInv
<1>7. SessionsApart' /\ NothingForgotten'
  BY <1>1 DEF SessionsApart, NothingForgotten
<1> QED
  BY <1>4, <1>5, <1>6, <1>7

LEMMA SendStep == ASSUME IInv, NEW c \in Clients, Send(c) PROVE IInv'
<1> USE DEF IInv
<1>1. /\ UNCHANGED <<table, sessions, pc, at, ready, stage, peer, backlog, disturbed>>
      /\ requests < MaxRequests /\ requests' = requests + 1
  BY DEF Send
<1>2. requests' \in 0 .. MaxRequests
  BY <1>1, BoundAssumption DEF TypeOK
<1>3. messages' \in [Clients -> Seq(Requests)]
  <2>1. PICK request \in Requests : messages' = [messages EXCEPT ![c] = Append(@, request)]
    BY DEF Send
  <2>2. messages \in [Clients -> Seq(Requests)]
    BY DEF TypeOK
  <2> QED
    BY <2>1, <2>2
<1>4. TypeOK'
  BY <1>1, <1>2, <1>3 DEF TypeOK
<1>5. PlaceInv' /\ ClientInv'
  BY <1>1 DEF PlaceInv, ClientInv
<1>6. SessionsApart' /\ NothingForgotten'
  BY <1>1 DEF SessionsApart, NothingForgotten
<1> QED
  BY <1>4, <1>5, <1>6

LEMMA HangUpStep == ASSUME IInv, NEW c \in Clients, HangUp(c) PROVE IInv'
<1> USE DEF IInv
<1>1. /\ UNCHANGED <<table, sessions, pc, at, ready, stage, messages, backlog, requests, disturbed>>
      /\ peer[c] = "connected" /\ peer' = [peer EXCEPT ![c] = "hungup"]
  BY DEF HangUp, threadVars
<1>2. /\ peer' \in [Clients -> {"new", "connected", "hungup"}]
      /\ \A d \in Clients : peer'[d] = "new" => peer[d] = "new"
  BY <1>1 DEF TypeOK
<1>3. TypeOK'
  BY <1>1, <1>2 DEF TypeOK
<1>4. PlaceInv' /\ ClientInv'
  BY <1>1, <1>2 DEF PlaceInv, ClientInv
<1>5. SessionsApart' /\ NothingForgotten'
  BY <1>1 DEF SessionsApart, NothingForgotten
<1> QED
  BY <1>3, <1>4, <1>5

LEMMA StepInv == IInv /\ [Next]_vars => IInv'
<1> SUFFICES ASSUME IInv, [Next]_vars PROVE IInv'
  OBVIOUS
<1>1. CASE Select
  BY <1>1, SelectStep
<1>2. CASE SelectFails
  BY <1>2, SelectFailsStep
<1>3. CASE Accept
  BY <1>3, AcceptStep
<1>4. CASE Scan
  BY <1>4, ScanStep
<1>5. CASE Poll
  BY <1>5, PollStep
<1>6. CASE Signal
  <2>1. UNCHANGED <<table, sessions, pc, at, ready, messages, backlog, disturbed, peer, requests>>
    BY <1>6 DEF Signal, threadVars
  <2>2. stage = "running" /\ stage' = "signalled"
    BY <1>6 DEF Signal
  <2> QED
    BY <2>1, <2>2 DEF IInv, TypeOK, PlaceInv, ClientInv, SessionsApart, NothingForgotten
<1>7. CASE CloseListening
  BY <1>7, CloseListeningStep
<1>8. CASE \E c \in Clients : Connect(c) \/ Send(c) \/ HangUp(c)
  BY <1>8, ConnectStep, SendStep, HangUpStep
<1>9. CASE UNCHANGED vars
  BY <1>9 DEF vars, IInv, TypeOK, PlaceInv, ClientInv, SessionsApart, NothingForgotten
<1> QED
  BY <1>1, <1>2, <1>3, <1>4, <1>5, <1>6, <1>7, <1>8, <1>9 DEF Next, ThreadFun

-----------------------------------------------------------------------------
(* The theorems *)

\* The inductive invariant holds, whatever clients send and whenever they go.
THEOREM Invariance == Spec => []IInv
<1> QED
  BY InitInv, StepInv, PTL DEF Spec

\* The descriptor table, the sessions and the sockets stay of their types: among
\* others, the listener never polls behind the last session.
THEOREM TypeCorrect == Spec => []TypeOK
<1>1. IInv => TypeOK
  BY DEF IInv
<1> QED
  BY <1>1, Invariance, PTL

\* For any number of clients, and however numbers are used again (accept_session,
\* Session::poll, ~Session): as long as no session closed a number a REGION
\* request left in its list, each session has its own client's descriptors.
THEOREM Apart == Spec => []SessionsApart
<1>1. IInv => SessionsApart
  BY DEF IInv
<1> QED
  BY <1>1, Invariance, PTL

\* What a client sent is closed with a session in the end, unless it came with a
\* message of the wrong length: no open descriptor is without an owner.
THEOREM Remembered == Spec => []NothingForgotten
<1>1. IInv => NothingForgotten
  BY DEF IInv
<1> QED
  BY <1>1, Invariance, PTL

=============================================================================
