---------------------------- MODULE PortsRcuProofs ----------------------------
(***************************************************************************)
(* Proofs about PortsRcu, for any ports, any set of registered threads and *)
(* any number of calls of modify_ports: type correctness, that every list  *)
(* and every MAC cache is reclaimed at most once and never while it is     *)
(* published, and that none leaks.  The argument is ownership: each        *)
(* version is at every moment in exactly one place.                        *)
(***************************************************************************)
EXTENDS PortsRcu, TLAPS

\* From the copy to the push onto _pending_free a call owns one list and one
\* MAC cache: what it allocated until it publishes that, then what it replaced.
Owns(t)    == stage[t] \in {"copied", "published", "swapped"}
ListOf(t)  == IF stage[t] = "copied" THEN call[t].new ELSE call[t].old_list
TableOf(t) == IF stage[t] \in {"copied", "published"} THEN call[t].new
                                                     ELSE call[t].old_table

\* Versions that exist and are neither published nor reclaimed.
LooseLists  == (0 .. allocated) \ (freed_lists \cup {ports_ptr})
LooseTables == (0 .. allocated) \ (freed_tables \cup {mac_table})

\* What is published exists and is not reclaimed.
PublishedInv ==
    /\ ports_ptr \in (0 .. allocated) \ freed_lists
    /\ mac_table \in (0 .. allocated) \ freed_tables
    /\ freed_lists \subseteq 0 .. allocated
    /\ freed_tables \subseteq 0 .. allocated

\* The entries of _pending_free are loose, and no two have the same.
PendingInv ==
    /\ \A e \in pending_free : e.old_list \in LooseLists /\ e.old_table \in LooseTables
    /\ \A e, f \in pending_free :
           e # f => e.old_list # f.old_list /\ e.old_table # f.old_table

\* What a call owns is loose and in no entry ...
OwnedInv ==
    \A t \in Threads : Owns(t) =>
        /\ ListOf(t) \in LooseLists /\ TableOf(t) \in LooseTables
        /\ \A e \in pending_free : e.old_list # ListOf(t) /\ e.old_table # TableOf(t)

\* ... and the other thread does not own it.
ApartInv ==
    \A t, u \in Threads : t # u /\ Owns(t) /\ Owns(u) =>
        ListOf(t) # ListOf(u) /\ TableOf(t) # TableOf(u)

\* No version is nowhere: the loose ones are queued or in the hands of a call.
ListCover ==
    \A v \in LooseLists :
        \/ \E e \in pending_free : e.old_list = v
        \/ \E t \in Threads : Owns(t) /\ ListOf(t) = v

TableCover ==
    \A v \in LooseTables :
        \/ \E e \in pending_free : e.old_table = v
        \/ \E t \in Threads : Owns(t) /\ TableOf(t) = v

\* Whoever pushed an entry is about to queue a callback that takes it.
CallbackInv == pending_free # {} => queued # {} \/ \E t \in Threads : stage[t] = "pushed"

IInv ==
    /\ RcuTypeOK
    /\ PublishedInv
    /\ PendingInv
    /\ OwnedInv
    /\ ApartInv
    /\ ListCover
    /\ TableCover
    /\ CallbackInv

-----------------------------------------------------------------------------
(* Type correctness *)

\* The conjuncts of TypeOK about what modify_ports and free_pending change ...
SharedTypeOK ==
    /\ ports_ptr \in Versions
    /\ mac_table \in Versions
    /\ pending_free \subseteq Entries
    /\ lists \in [Versions -> SUBSET Ports]
    /\ known \in [Versions -> SUBSET Ports]
    /\ allocated \in Versions
    /\ freed_lists \subseteq Versions
    /\ freed_tables \subseteq Versions
    /\ stage \in [Threads -> Steps]
    /\ call \in [Threads -> Calls]
    /\ \A t \in Threads : LocalsSet(t)

\* ... and about the loop, the ports and the grace periods.
RestTypeOK ==
    /\ pc \in LoopSteps
    /\ my_ports \in Versions \cup {NoVersion}
    /\ my_macs \in Versions \cup {NoVersion}
    /\ pc \in {"list", "work", "poll", "receive", "broken"} <=> my_ports # NoVersion
    /\ pc \in {"work", "poll", "receive", "broken"} <=> my_macs # NoVersion
    /\ in_use \subseteq Ports
    /\ life \in [Ports -> Lives]
    /\ queued \subseteq Versions
    /\ gp_wait \in [Versions -> SUBSET Threads]
    /\ sync_wait \subseteq Threads

LEMMA TypeParts == RcuTypeOK <=> SharedTypeOK /\ RestTypeOK
  BY DEF RcuTypeOK, SharedTypeOK, RestTypeOK

LEMMA VersionFacts == Versions \subseteq Nat /\ NoVersion \notin Versions /\ 0 \in Versions
  BY BoundAssumption DEF Versions, NoVersion

LEMMA NoCallType == NoCall \in Calls
  BY VersionFacts DEF NoCall, Calls

LEMMA CopyType ==
    ASSUME SharedTypeOK, NEW t \in Threads, NEW op \in {"attach", "detach"},
           NEW p \in Ports, Copy(t, op, p)
    PROVE  SharedTypeOK'
<1>1. allocated + 1 \in Versions
  BY BoundAssumption DEF Copy, SharedTypeOK, Versions
<1>2. lists' \in [Versions -> SUBSET Ports]
  BY <1>1 DEF Copy, SharedTypeOK
<1>3. [NoCall EXCEPT !.op = op, !.port = p, !.new = allocated + 1] \in Calls
  BY <1>1, VersionFacts DEF NoCall, Calls
<1>4. call' \in [Threads -> Calls]
  BY <1>3 DEF Copy, SharedTypeOK
<1>5. stage' \in [Threads -> Steps]
  BY DEF Copy, SharedTypeOK, Steps
<1>6. ASSUME NEW u \in Threads PROVE LocalsSet(u)'
  <2>1. CASE u = t
    <3>1. stage'[t] = "copied" /\ call'[t].port = p
      BY DEF Copy, SharedTypeOK, NoCall
    <3> QED
      BY <2>1, <3>1 DEF LocalsSet
  <2>2. CASE u # t
    BY <2>2 DEF Copy, SharedTypeOK, LocalsSet
  <2> QED
    BY <2>1, <2>2
<1> QED
  BY <1>1, <1>2, <1>4, <1>5, <1>6 DEF Copy, SharedTypeOK, switchVars

LEMMA PublishType ==
    ASSUME SharedTypeOK, NEW t \in Threads, Publish(t)
    PROVE  SharedTypeOK'
<1>1. call[t] \in Calls /\ call[t].new \in Versions /\ call[t].port \in Ports
  BY DEF SharedTypeOK, Calls, Publish, LocalsSet
<1>2. Apply(call[t], lists[call[t].new]) \in SUBSET Ports
  BY <1>1 DEF SharedTypeOK, Apply
<1>3. lists' \in [Versions -> SUBSET Ports]
  BY <1>2 DEF Publish, SharedTypeOK
<1>4. [call[t] EXCEPT !.old_list = ports_ptr] \in Calls
  BY <1>1 DEF SharedTypeOK, Calls
<1>5. call' \in [Threads -> Calls]
  BY <1>1, <1>4 DEF Publish, SharedTypeOK
<1>6. stage' \in [Threads -> Steps]
  BY DEF Publish, SharedTypeOK, Steps
<1>7. ASSUME NEW u \in Threads PROVE LocalsSet(u)'
  <2>1. CASE u = t
    <3>1. /\ stage'[t] = "published"
          /\ call'[t].port = call[t].port
          /\ call'[t].old_list = ports_ptr
      BY <1>1 DEF Publish, SharedTypeOK, Calls
    <3> QED
      BY <1>1, <2>1, <3>1 DEF LocalsSet, SharedTypeOK, Publish
  <2>2. CASE u # t
    BY <2>2 DEF Publish, SharedTypeOK, LocalsSet
  <2> QED
    BY <2>1, <2>2
<1> QED
  BY <1>1, <1>3, <1>5, <1>6, <1>7 DEF Publish, SharedTypeOK

LEMMA SwapCacheType ==
    ASSUME SharedTypeOK, NEW t \in Threads, SwapCache(t)
    PROVE  SharedTypeOK'
<1>1. call[t] \in Calls /\ call[t].new \in Versions
  BY DEF SharedTypeOK, Calls
<1>2. [call[t] EXCEPT !.old_table = mac_table] \in Calls
  BY <1>1 DEF SharedTypeOK, Calls
<1>3. call' \in [Threads -> Calls]
  BY <1>1, <1>2 DEF SwapCache, SharedTypeOK
<1>4. stage' \in [Threads -> Steps]
  BY DEF SwapCache, SharedTypeOK, Steps
<1>5. ASSUME NEW u \in Threads PROVE LocalsSet(u)'
  <2>1. CASE u = t
    <3>1. /\ stage[t] = "published" /\ stage'[t] = "swapped"
          /\ call'[t].port = call[t].port
          /\ call'[t].old_list = call[t].old_list
          /\ call'[t].old_table = mac_table
      BY <1>1 DEF SwapCache, SharedTypeOK, Calls
    <3> QED
      BY <2>1, <3>1 DEF LocalsSet, SharedTypeOK, SwapCache
  <2>2. CASE u # t
    BY <2>2 DEF SwapCache, SharedTypeOK, LocalsSet
  <2> QED
    BY <2>1, <2>2
<1> QED
  BY <1>1, <1>3, <1>4, <1>5 DEF SwapCache, SharedTypeOK, heapVars

LEMMA PushPendingType ==
    ASSUME SharedTypeOK, NEW t \in Threads, PushPending(t)
    PROVE  SharedTypeOK'
<1>1. /\ call[t] \in Calls /\ call[t].new \in Versions
      /\ call[t].old_list \in Versions /\ call[t].old_table \in Versions
  BY DEF SharedTypeOK, Calls, LocalsSet, PushPending
<1>2. pending_free' \subseteq Entries
  BY <1>1 DEF PushPending, SharedTypeOK, Entries
<1>3. stage' \in [Threads -> Steps]
  BY DEF PushPending, SharedTypeOK, Steps
<1>4. ASSUME NEW u \in Threads PROVE LocalsSet(u)'
  BY DEF PushPending, SharedTypeOK, LocalsSet
<1> QED
  BY <1>2, <1>3, <1>4 DEF PushPending, SharedTypeOK, heapVars

LEMMA FreePendingType ==
    ASSUME SharedTypeOK, NEW v \in Versions, FreePending(v)
    PROVE  SharedTypeOK'
<1>1. freed_lists' \subseteq Versions /\ freed_tables' \subseteq Versions
  BY DEF FreePending, SharedTypeOK, Entries
<1> QED
  BY <1>1 DEF FreePending, SharedTypeOK, LocalsSet

\* A step on the way from call_rcu to the end of a call.
LEMMA FinishType ==
    ASSUME SharedTypeOK, UNCHANGED <<switchVars, heapVars>>, NEW t \in Threads,
           NEW s \in {"idle", "called", "sync"}, stage[t] # "idle",
           stage' = [stage EXCEPT ![t] = s],
           (call' = [call EXCEPT ![t] = NoCall] /\ s = "idle") \/ call' = call
    PROVE  SharedTypeOK'
<1>1. call' \in [Threads -> Calls]
  BY NoCallType DEF SharedTypeOK
<1>2. stage' \in [Threads -> Steps]
  BY DEF SharedTypeOK, Steps
<1>3. ASSUME NEW u \in Threads PROVE LocalsSet(u)'
  BY DEF SharedTypeOK, LocalsSet
<1> QED
  BY <1>1, <1>2, <1>3 DEF SharedTypeOK, switchVars, heapVars

LEMMA SharedTypeStep == RcuTypeOK /\ [RcuNext]_rcuVars => SharedTypeOK'
<1> SUFFICES ASSUME SharedTypeOK, RestTypeOK, [RcuNext]_rcuVars PROVE SharedTypeOK'
  BY TypeParts
<1> USE PortsAssumption DEF Threads, Main, ListenerThread, Ports
\* A call begins.
<1>1. ASSUME NEW p \in VirtioPorts, EnablePort(p) \/ DisablePort(p) PROVE
  SharedTypeOK'
  BY <1>1, CopyType DEF EnablePort, DisablePort
<1>2. CASE AttachUpstream
  BY <1>2, CopyType DEF AttachUpstream
<1>3. ASSUME NEW p \in Ports, PortBroken(p) PROVE SharedTypeOK'
  BY <1>3, CopyType DEF PortBroken
\* It goes on.
<1>4. ASSUME NEW t \in Threads, ModifyPorts(t) PROVE SharedTypeOK'
  BY <1>4, PublishType, SwapCacheType, PushPendingType DEF ModifyPorts
\* It ends.
<1>5. CASE EnableDone
  BY <1>5, FinishType DEF EnableDone, Queue, EndCall
<1>6. CASE DisableQueued
  BY <1>6, FinishType DEF DisableQueued, Queue
<1>7. CASE StartSynchronize
  BY <1>7, FinishType DEF StartSynchronize
<1>8. CASE EndSynchronize
  BY <1>8, FinishType DEF EndSynchronize, EndCall
<1>9. CASE MainCallRcu
  BY <1>9, FinishType DEF MainCallRcu, Queue, EndCall
<1>10. ASSUME NEW v \in Versions, FreePending(v) PROVE SharedTypeOK'
  BY <1>10, FreePendingType
\* The loop learns, or changes nothing of this.
<1>11. ASSUME NEW p \in Ports, NEW dests \in SUBSET Ports, Forward(p, dests)
  PROVE SharedTypeOK'
  BY <1>11 DEF Forward, LearnFrom, SharedTypeOK, RestTypeOK, LocalsSet, switchVars
<1>12. ASSUME NEW p \in Ports, PollFrom(p) PROVE SharedTypeOK'
  BY <1>12 DEF PollFrom, SharedTypeOK, LocalsSet, switchVars, heapVars
<1>13. CASE SkipUpstream \/ StartReading \/ DerefMacTable \/ DropPacket \/
  Delivered \/ LeaveReadSection \/ GoOffline \/ GoOnline
  BY <1>13 DEF SkipUpstream, StartReading, DerefMacTable, DropPacket, Delivered,
    LeaveReadSection, GoOffline, GoOnline, SharedTypeOK, LocalsSet,
    switchVars, heapVars
<1>14. CASE UNCHANGED rcuVars
  BY <1>14 DEF rcuVars, SharedTypeOK, LocalsSet, switchVars, heapVars
<1> QED
  BY <1>1, <1>2, <1>3, <1>4, <1>5, <1>6, <1>7, <1>8, <1>9, <1>10, <1>11,
    <1>12, <1>13, <1>14 DEF RcuNext, ListenerSteps, MainThread

LEMMA QuiescentType ==
    ASSUME RestTypeOK, NEW t \in Threads, Quiescent(t)
    PROVE  gp_wait' \in [Versions -> SUBSET Threads] /\ sync_wait' \subseteq Threads
  BY DEF RestTypeOK, Quiescent

LEMMA RestTypeStep == RcuTypeOK /\ [RcuNext]_rcuVars => RestTypeOK'
<1> SUFFICES ASSUME SharedTypeOK, RestTypeOK, [RcuNext]_rcuVars PROVE RestTypeOK'
  BY TypeParts
<1> USE PortsAssumption, RegisteredAssumption, VersionFacts
    DEF Threads, Main, ListenerThread, Ports, RestTypeOK, LoopSteps, Lives, Readers,
        graceVars, loopVars
<1>1. ASSUME NEW p \in VirtioPorts, EnablePort(p) \/ DisablePort(p) PROVE RestTypeOK'
  BY <1>1 DEF EnablePort, DisablePort
<1>2. CASE AttachUpstream
  BY <1>2 DEF AttachUpstream
<1>3. ASSUME NEW p \in Ports, PortBroken(p) PROVE RestTypeOK'
  BY <1>3 DEF PortBroken
<1>4. ASSUME NEW t \in Threads, ModifyPorts(t) PROVE RestTypeOK'
  BY <1>4 DEF ModifyPorts, Publish, SwapCache, PushPending
<1>5. CASE EnableDone
  <2>1. gp_wait' \in [Versions -> SUBSET Threads]
    BY <1>5 DEF EnableDone
  <2>2. call[ListenerThread].new \in Versions /\ call[ListenerThread].port \in Ports
    BY <1>5 DEF EnableDone, Queue, SharedTypeOK, Calls, LocalsSet
  <2> QED
    BY <1>5, <2>1, <2>2 DEF EnableDone, Queue
<1>6. CASE DisableQueued
  <2>1. call[ListenerThread].new \in Versions
    BY DEF SharedTypeOK, Calls
  <2>2. gp_wait' \in [Versions -> SUBSET Threads]
    BY <1>6 DEF DisableQueued
  <2>3. queued' \subseteq Versions
    BY <1>6, <2>1 DEF DisableQueued, Queue
  <2> QED
    BY <1>6, <2>2, <2>3 DEF DisableQueued
<1>7. CASE StartSynchronize
  BY <1>7 DEF StartSynchronize
<1>8. CASE EndSynchronize
  BY <1>8 DEF EndSynchronize, SharedTypeOK, LocalsSet
<1>9. CASE MainCallRcu
  BY <1>9 DEF MainCallRcu, Queue, SharedTypeOK, Calls
<1>10. ASSUME NEW v \in Versions, FreePending(v) PROVE RestTypeOK'
  BY <1>10 DEF FreePending
<1>11. ASSUME NEW p \in Ports, NEW dests \in SUBSET Ports, Forward(p, dests)
  PROVE RestTypeOK'
  BY <1>11 DEF Forward
<1>12. ASSUME NEW p \in Ports, PollFrom(p) PROVE RestTypeOK'
  BY <1>12 DEF PollFrom
<1>13. CASE StartReading
  BY <1>13, QuiescentType DEF StartReading, SharedTypeOK
<1>14. CASE DerefMacTable
  BY <1>14 DEF DerefMacTable, SharedTypeOK
<1>15. CASE GoOffline
  BY <1>15, QuiescentType DEF GoOffline
<1>16. CASE SkipUpstream \/ DropPacket \/ Delivered \/ LeaveReadSection \/
  GoOnline
  BY <1>16 DEF SkipUpstream, DropPacket, Delivered, LeaveReadSection, GoOnline
<1>17. CASE UNCHANGED rcuVars
  BY <1>17 DEF rcuVars
<1> QED
  BY <1>1, <1>2, <1>3, <1>4, <1>5, <1>6, <1>7, <1>8, <1>9, <1>10, <1>11,
    <1>12, <1>13, <1>14, <1>15, <1>16, <1>17 DEF RcuNext, ListenerSteps, MainThread

LEMMA TypeInit == RcuInit => RcuTypeOK
<1> SUFFICES ASSUME RcuInit PROVE RcuTypeOK
  OBVIOUS
<1>1. SharedTypeOK
  BY VersionFacts, NoCallType DEF RcuInit, SharedTypeOK, LocalsSet, Steps
<1>2. RestTypeOK
  BY VersionFacts DEF RcuInit, RestTypeOK, LoopSteps, Lives
<1> QED
  BY <1>1, <1>2, TypeParts

\* Every variable keeps its type, whatever the threads do.
THEOREM TypeCorrect == RcuSpec => []RcuTypeOK
<1>1. RcuTypeOK /\ [RcuNext]_rcuVars => RcuTypeOK'
  BY SharedTypeStep, RestTypeStep, TypeParts DEF RcuTypeOK, SharedTypeOK, RestTypeOK
<1> QED
  BY TypeInit, <1>1, PTL DEF RcuSpec

-----------------------------------------------------------------------------
(* Ownership *)

\* A step from call_rcu to the end of a call, as ownership sees it.
Finish(t, s) ==
    /\ stage[t] \in {"pushed", "called", "sync"}
    /\ stage' = [stage EXCEPT ![t] = s]
    /\ call' = call \/ call' = [call EXCEPT ![t] = NoCall]
    /\ queued \subseteq queued'
    /\ stage[t] = "pushed" => queued' # {}
    /\ UNCHANGED <<switchVars, allocated, freed_lists, freed_tables>>

\* Five kinds of steps are all that ownership can tell apart.
LEMMA StepKinds ==
    ASSUME [RcuNext]_rcuVars
    PROVE  \/ \E t \in Threads, op \in {"attach", "detach"}, p \in Ports :
                  Copy(t, op, p) /\ UNCHANGED queued
           \/ \E t \in Threads : ModifyPorts(t)
           \/ \E t \in Threads, s \in {"idle", "called", "sync"} : Finish(t, s)
           \/ \E v \in Versions : FreePending(v)
           \/ UNCHANGED <<switchVars, allocated, freed_lists, freed_tables, stage,
                          call, queued>>
<1> DEFINE Quiet == UNCHANGED <<switchVars, allocated, freed_lists, freed_tables, stage,
                                call, queued>>
<1> USE DEF Threads, Main, ListenerThread, Ports
<1>1. ASSUME NEW p \in VirtioPorts, EnablePort(p) \/ DisablePort(p)
      PROVE  \E op \in {"attach", "detach"} : Copy(ListenerThread, op, p) /\ UNCHANGED queued
  BY <1>1 DEF EnablePort, DisablePort, graceVars
<1>2. CASE AttachUpstream
  BY <1>2 DEF AttachUpstream, graceVars
<1>3. ASSUME NEW p \in Ports, PortBroken(p)
      PROVE  Copy(Main, "detach", p) /\ UNCHANGED queued
  BY <1>3 DEF PortBroken, graceVars
<1>4. CASE EnableDone
  <2>1. Finish(ListenerThread, "idle")
    BY <1>4 DEF EnableDone, Queue, EndCall, Finish, heapVars
  <2> QED
    BY <2>1
<1>5. CASE DisableQueued
  <2>1. Finish(ListenerThread, "called")
    BY <1>5 DEF DisableQueued, Queue, Finish, heapVars
  <2> QED
    BY <2>1
<1>6. CASE StartSynchronize
  <2>1. Finish(ListenerThread, "sync")
    BY <1>6 DEF StartSynchronize, Finish, heapVars
  <2> QED
    BY <2>1
<1>7. CASE EndSynchronize
  <2>1. Finish(ListenerThread, "idle")
    BY <1>7 DEF EndSynchronize, EndCall, Finish, heapVars, graceVars
  <2> QED
    BY <2>1
<1>8. CASE MainCallRcu
  <2>1. Finish(Main, "idle")
    BY <1>8 DEF MainCallRcu, Queue, EndCall, Finish, heapVars
  <2> QED
    BY <2>1
<1>9. ASSUME NEW p \in Ports, NEW dests \in SUBSET Ports, Forward(p, dests) PROVE Quiet
  BY <1>9 DEF Forward, graceVars
<1>10. ASSUME NEW p \in Ports, PollFrom(p) PROVE Quiet
  BY <1>10 DEF PollFrom, heapVars, graceVars
<1>11. CASE SkipUpstream \/ StartReading \/ DerefMacTable \/ DropPacket \/ Delivered
            \/ LeaveReadSection \/ GoOffline \/ GoOnline
  <2>1. Quiet
    BY <1>11 DEF SkipUpstream, StartReading, DerefMacTable, DropPacket, Delivered,
                 LeaveReadSection, GoOffline, GoOnline, heapVars, graceVars
  <2> QED
    BY <2>1
<1>12. CASE UNCHANGED rcuVars
  BY <1>12 DEF rcuVars, heapVars, graceVars
<1> QED
  BY <1>1, <1>2, <1>3, <1>4, <1>5, <1>6, <1>7, <1>8, <1>9, <1>10, <1>11, <1>12
  DEF RcuNext, ListenerSteps, MainThread

\* No other call of modify_ports than that of t moves.
OthersKeep(t) ==
    \A u \in Threads \ {t} :
        /\ Owns(u)' <=> Owns(u)
        /\ ListOf(u)' = ListOf(u)
        /\ TableOf(u)' = TableOf(u)

\* What each kind of step does to the owners.  A new call allocates a version
\* that nobody has seen.
LEMMA CopyFacts ==
    ASSUME RcuTypeOK, NEW t \in Threads, NEW op \in {"attach", "detach"}, NEW p \in Ports,
           Copy(t, op, p)
    PROVE  /\ allocated \in Nat /\ allocated' = allocated + 1
           /\ ~Owns(t)
           /\ Owns(t)' /\ ListOf(t)' = allocated + 1 /\ TableOf(t)' = allocated + 1
           /\ OthersKeep(t)
           /\ stage[t] # "pushed"
           /\ \A u \in Threads \ {t} : stage'[u] = stage[u]
           /\ UNCHANGED <<ports_ptr, mac_table, pending_free, freed_lists, freed_tables>>
<1>1. allocated \in Nat
  BY VersionFacts DEF RcuTypeOK
<1>2. stage[t] = "idle" /\ stage'[t] = "copied" /\ call'[t].new = allocated + 1
  BY <1>1 DEF RcuTypeOK, Copy, NoCall
<1>3. \A u \in Threads \ {t} : stage'[u] = stage[u] /\ call'[u] = call[u]
  BY DEF RcuTypeOK, Copy
<1> QED
  BY <1>1, <1>2, <1>3 DEF Copy, Owns, ListOf, TableOf, OthersKeep, switchVars

\* Publish exchanges the new list for the old.
LEMMA PublishFacts ==
    ASSUME RcuTypeOK, NEW t \in Threads, Publish(t)
    PROVE  /\ Owns(t) /\ ports_ptr' = ListOf(t)
           /\ Owns(t)' /\ ListOf(t)' = ports_ptr /\ TableOf(t)' = TableOf(t)
           /\ OthersKeep(t)
           /\ stage[t] # "pushed"
           /\ \A u \in Threads \ {t} : stage'[u] = stage[u]
           /\ UNCHANGED <<mac_table, pending_free, allocated, freed_lists,
                          freed_tables, queued>>
<1>1. /\ stage[t] = "copied" /\ stage'[t] = "published"
      /\ call'[t].new = call[t].new /\ call'[t].old_list = ports_ptr
  BY DEF RcuTypeOK, Calls, Publish
<1>2. \A u \in Threads \ {t} : stage'[u] = stage[u] /\ call'[u] = call[u]
  BY DEF RcuTypeOK, Publish
<1>3. OthersKeep(t)
  BY <1>2 DEF Owns, ListOf, TableOf, OthersKeep
<1> QED
  BY <1>1, <1>2, <1>3 DEF Publish, Owns, ListOf, TableOf, graceVars

\* SwapCache exchanges the new cache for the old.
LEMMA SwapFacts ==
    ASSUME RcuTypeOK, NEW t \in Threads, SwapCache(t)
    PROVE  /\ Owns(t) /\ mac_table' = TableOf(t)
           /\ Owns(t)' /\ ListOf(t)' = ListOf(t) /\ TableOf(t)' = mac_table
           /\ OthersKeep(t)
           /\ stage[t] # "pushed"
           /\ \A u \in Threads \ {t} : stage'[u] = stage[u]
           /\ UNCHANGED <<ports_ptr, pending_free, allocated, freed_lists,
                          freed_tables, queued>>
<1>1. /\ stage[t] = "published" /\ stage'[t] = "swapped"
      /\ call'[t].old_list = call[t].old_list /\ call'[t].old_table = mac_table
  BY DEF RcuTypeOK, Calls, SwapCache
<1>2. \A u \in Threads \ {t} : stage'[u] = stage[u] /\ call'[u] = call[u]
  BY DEF RcuTypeOK, SwapCache
<1>3. OthersKeep(t)
  BY <1>2 DEF Owns, ListOf, TableOf, OthersKeep
<1> QED
  BY <1>1, <1>2, <1>3 DEF SwapCache, Owns, ListOf, TableOf, heapVars, graceVars

\* PushPending hands what a call owns to the queue.
LEMMA PushFacts ==
    ASSUME RcuTypeOK, NEW t \in Threads, PushPending(t)
    PROVE  /\ Owns(t) /\ ~Owns(t)' /\ stage'[t] = "pushed"
           /\ \E e : /\ pending_free' = pending_free \cup {e}
                     /\ e.old_list = ListOf(t) /\ e.old_table = TableOf(t)
           /\ OthersKeep(t)
           /\ UNCHANGED <<ports_ptr, mac_table, allocated, freed_lists,
                          freed_tables, queued>>
<1> DEFINE e == [by |-> call[t].new, old_list |-> call[t].old_list,
                 old_table |-> call[t].old_table]
<1>1. stage[t] = "swapped" /\ stage'[t] = "pushed"
  BY DEF RcuTypeOK, PushPending
<1>2. \A u \in Threads \ {t} : stage'[u] = stage[u] /\ call'[u] = call[u]
  BY DEF RcuTypeOK, PushPending
<1>3. OthersKeep(t)
  BY <1>2 DEF Owns, ListOf, TableOf, OthersKeep
<1>4. pending_free' = pending_free \cup {e}
  BY DEF PushPending
<1>5. e.old_list = ListOf(t) /\ e.old_table = TableOf(t)
  BY <1>1 DEF ListOf, TableOf
<1> HIDE DEF e
<1>6. \E x : /\ pending_free' = pending_free \cup {x}
             /\ x.old_list = ListOf(t) /\ x.old_table = TableOf(t)
  BY <1>4, <1>5
<1> QED
  BY <1>1, <1>3, <1>6 DEF PushPending, Owns, heapVars, graceVars

\* From call_rcu to the end of the call nothing is owned.
LEMMA FinishFacts ==
    ASSUME RcuTypeOK, NEW t \in Threads, NEW s \in {"idle", "called", "sync"}, Finish(t, s)
    PROVE  /\ ~Owns(t) /\ ~Owns(t)'
           /\ OthersKeep(t)
           /\ \A u \in Threads \ {t} : stage'[u] = stage[u]
           /\ UNCHANGED <<ports_ptr, mac_table, pending_free, allocated, freed_lists,
                          freed_tables>>
<1>1. stage[t] \in {"pushed", "called", "sync"} /\ stage'[t] = s
  BY DEF RcuTypeOK, Finish
<1>2. \A u \in Threads \ {t} : stage'[u] = stage[u] /\ call'[u] = call[u]
  BY DEF RcuTypeOK, Finish
<1> QED
  BY <1>1, <1>2 DEF Finish, Owns, ListOf, TableOf, OthersKeep, switchVars

\* free_pending takes all there is in the queue, and nothing else.
LEMMA FreeFacts ==
    ASSUME NEW v \in Versions, FreePending(v)
    PROVE  /\ pending_free' = {}
           /\ freed_lists' = freed_lists \cup {e.old_list : e \in pending_free}
           /\ freed_tables' = freed_tables \cup {e.old_table : e \in pending_free}
           /\ \A u \in Threads : /\ Owns(u)' <=> Owns(u)
                                 /\ ListOf(u)' = ListOf(u)
                                 /\ TableOf(u)' = TableOf(u)
           /\ UNCHANGED <<ports_ptr, mac_table, allocated, stage, call>>
  BY DEF FreePending, Owns, ListOf, TableOf

\* A step that is none of those.
LEMMA QuietFacts ==
    ASSUME UNCHANGED <<switchVars, allocated, freed_lists, freed_tables, stage,
                       call, queued>>
    PROVE  /\ \A u \in Threads : /\ Owns(u)' <=> Owns(u)
                                 /\ ListOf(u)' = ListOf(u)
                                 /\ TableOf(u)' = TableOf(u)
           /\ UNCHANGED <<ports_ptr, mac_table, pending_free, allocated, freed_lists,
                          freed_tables, stage, queued>>
  BY DEF Owns, ListOf, TableOf, switchVars

\* What is published is not reclaimed.
LEMMA PublishedStep == IInv /\ [RcuNext]_rcuVars => PublishedInv'
<1> SUFFICES ASSUME IInv, [RcuNext]_rcuVars PROVE PublishedInv'
  OBVIOUS
<1> USE DEF IInv, PublishedInv, PendingInv, OwnedInv, LooseLists, LooseTables
<1>1. ASSUME NEW t \in Threads, NEW op \in {"attach", "detach"}, NEW p \in Ports,
             Copy(t, op, p)
      PROVE  PublishedInv'
  <2>1. 0 .. allocated \subseteq 0 .. allocated'
    BY <1>1, CopyFacts
  <2>2. UNCHANGED <<ports_ptr, mac_table, freed_lists, freed_tables>>
    BY <1>1, CopyFacts
  <2>3. PublishedInv
    OBVIOUS
  <2> HIDE DEF IInv, PendingInv, OwnedInv, LooseLists, LooseTables
  <2> QED
    BY <2>1, <2>2, <2>3
<1>2. ASSUME NEW t \in Threads, Publish(t)
      PROVE  PublishedInv'
  BY <1>2, PublishFacts DEF OthersKeep
<1>3. ASSUME NEW t \in Threads, SwapCache(t)
      PROVE  PublishedInv'
  BY <1>3, SwapFacts DEF OthersKeep
<1>4. ASSUME NEW t \in Threads, PushPending(t)
      PROVE  PublishedInv'
  BY <1>4, PushFacts DEF OthersKeep
<1>5. ASSUME NEW t \in Threads, NEW s \in {"idle", "called", "sync"}, Finish(t, s)
      PROVE  PublishedInv'
  BY <1>5, FinishFacts DEF OthersKeep
<1>6. ASSUME NEW v \in Versions, FreePending(v)
      PROVE  PublishedInv'
  <2>1. /\ {e.old_list : e \in pending_free} \subseteq LooseLists
        /\ {e.old_table : e \in pending_free} \subseteq LooseTables
    OBVIOUS
  <2> QED
    BY <1>6, <2>1, FreeFacts
<1>7. CASE UNCHANGED <<switchVars, allocated, freed_lists, freed_tables, stage,
                       call, queued>>
  BY <1>7, QuietFacts
<1> QED
  BY <1>1, <1>2, <1>3, <1>4, <1>5, <1>6, <1>7, StepKinds DEF ModifyPorts

\* What is queued is queued once.
LEMMA PendingStep == IInv /\ [RcuNext]_rcuVars => PendingInv'
<1> SUFFICES ASSUME IInv, [RcuNext]_rcuVars PROVE PendingInv'
  OBVIOUS
<1> USE DEF IInv, PublishedInv, PendingInv, OwnedInv, LooseLists, LooseTables
<1>1. ASSUME NEW t \in Threads, NEW op \in {"attach", "detach"}, NEW p \in Ports,
             Copy(t, op, p)
      PROVE  PendingInv'
  BY <1>1, CopyFacts DEF OthersKeep
<1>2. ASSUME NEW t \in Threads, Publish(t)
      PROVE  PendingInv'
  BY <1>2, PublishFacts DEF OthersKeep
<1>3. ASSUME NEW t \in Threads, SwapCache(t)
      PROVE  PendingInv'
  BY <1>3, SwapFacts DEF OthersKeep
<1>4. ASSUME NEW t \in Threads, PushPending(t)
      PROVE  PendingInv'
  BY <1>4, PushFacts DEF OthersKeep
<1>5. ASSUME NEW t \in Threads, NEW s \in {"idle", "called", "sync"}, Finish(t, s)
      PROVE  PendingInv'
  BY <1>5, FinishFacts DEF OthersKeep
<1>6. ASSUME NEW v \in Versions, FreePending(v)
      PROVE  PendingInv'
  BY <1>6, FreeFacts DEF OthersKeep
<1>7. CASE UNCHANGED <<switchVars, allocated, freed_lists, freed_tables, stage,
                       call, queued>>
  BY <1>7, QuietFacts
<1> QED
  BY <1>1, <1>2, <1>3, <1>4, <1>5, <1>6, <1>7, StepKinds DEF ModifyPorts

\* What a call owns is nowhere else.
LEMMA OwnedStep == IInv /\ [RcuNext]_rcuVars => OwnedInv'
<1> SUFFICES ASSUME IInv, [RcuNext]_rcuVars PROVE OwnedInv'
  OBVIOUS
<1> USE DEF IInv, PublishedInv, PendingInv, OwnedInv, LooseLists, LooseTables, ApartInv
<1>1. ASSUME NEW t \in Threads, NEW op \in {"attach", "detach"}, NEW p \in Ports,
             Copy(t, op, p)
      PROVE  OwnedInv'
  BY <1>1, CopyFacts DEF OthersKeep
<1>2. ASSUME NEW t \in Threads, Publish(t)
      PROVE  OwnedInv'
  BY <1>2, PublishFacts DEF OthersKeep
<1>3. ASSUME NEW t \in Threads, SwapCache(t)
      PROVE  OwnedInv'
  BY <1>3, SwapFacts DEF OthersKeep
<1>4. ASSUME NEW t \in Threads, PushPending(t)
      PROVE  OwnedInv'
  BY <1>4, PushFacts DEF OthersKeep
<1>5. ASSUME NEW t \in Threads, NEW s \in {"idle", "called", "sync"}, Finish(t, s)
      PROVE  OwnedInv'
  BY <1>5, FinishFacts DEF OthersKeep
<1>6. ASSUME NEW v \in Versions, FreePending(v)
      PROVE  OwnedInv'
  BY <1>6, FreeFacts DEF OthersKeep
<1>7. CASE UNCHANGED <<switchVars, allocated, freed_lists, freed_tables, stage,
                       call, queued>>
  BY <1>7, QuietFacts
<1> QED
  BY <1>1, <1>2, <1>3, <1>4, <1>5, <1>6, <1>7, StepKinds DEF ModifyPorts

\* The two threads never own the same.
LEMMA ApartStep == IInv /\ [RcuNext]_rcuVars => ApartInv'
<1> SUFFICES ASSUME IInv, [RcuNext]_rcuVars PROVE ApartInv'
  OBVIOUS
<1> USE DEF IInv, PublishedInv, OwnedInv, ApartInv, LooseLists, LooseTables
<1>1. ASSUME NEW t \in Threads, NEW op \in {"attach", "detach"}, NEW p \in Ports,
             Copy(t, op, p)
      PROVE  ApartInv'
  BY <1>1, CopyFacts DEF OthersKeep
<1>2. ASSUME NEW t \in Threads, Publish(t)
      PROVE  ApartInv'
  BY <1>2, PublishFacts DEF OthersKeep
<1>3. ASSUME NEW t \in Threads, SwapCache(t)
      PROVE  ApartInv'
  BY <1>3, SwapFacts DEF OthersKeep
<1>4. ASSUME NEW t \in Threads, PushPending(t)
      PROVE  ApartInv'
  BY <1>4, PushFacts DEF OthersKeep
<1>5. ASSUME NEW t \in Threads, NEW s \in {"idle", "called", "sync"}, Finish(t, s)
      PROVE  ApartInv'
  BY <1>5, FinishFacts DEF OthersKeep
<1>6. ASSUME NEW v \in Versions, FreePending(v)
      PROVE  ApartInv'
  BY <1>6, FreeFacts DEF OthersKeep
<1>7. CASE UNCHANGED <<switchVars, allocated, freed_lists, freed_tables, stage,
                       call, queued>>
  BY <1>7, QuietFacts
<1> QED
  BY <1>1, <1>2, <1>3, <1>4, <1>5, <1>6, <1>7, StepKinds DEF ModifyPorts

\* No list is dropped.
LEMMA ListCoverStep == IInv /\ [RcuNext]_rcuVars => ListCover'
<1> SUFFICES ASSUME IInv, [RcuNext]_rcuVars PROVE ListCover'
  OBVIOUS
<1> USE DEF IInv, ListCover, LooseLists
<1>1. ASSUME NEW t \in Threads, NEW op \in {"attach", "detach"}, NEW p \in Ports,
             Copy(t, op, p)
      PROVE  ListCover'
  BY <1>1, CopyFacts DEF OthersKeep
<1>2. ASSUME NEW t \in Threads, Publish(t)
      PROVE  ListCover'
  BY <1>2, PublishFacts DEF OthersKeep
<1>3. ASSUME NEW t \in Threads, SwapCache(t)
      PROVE  ListCover'
  BY <1>3, SwapFacts DEF OthersKeep
<1>4. ASSUME NEW t \in Threads, PushPending(t)
      PROVE  ListCover'
  BY <1>4, PushFacts DEF OthersKeep
<1>5. ASSUME NEW t \in Threads, NEW s \in {"idle", "called", "sync"}, Finish(t, s)
      PROVE  ListCover'
  BY <1>5, FinishFacts DEF OthersKeep
<1>6. ASSUME NEW v \in Versions, FreePending(v)
      PROVE  ListCover'
  BY <1>6, FreeFacts DEF OthersKeep
<1>7. CASE UNCHANGED <<switchVars, allocated, freed_lists, freed_tables, stage,
                       call, queued>>
  BY <1>7, QuietFacts
<1> QED
  BY <1>1, <1>2, <1>3, <1>4, <1>5, <1>6, <1>7, StepKinds DEF ModifyPorts

\* No MAC cache is dropped.
LEMMA TableCoverStep == IInv /\ [RcuNext]_rcuVars => TableCover'
<1> SUFFICES ASSUME IInv, [RcuNext]_rcuVars PROVE TableCover'
  OBVIOUS
<1> USE DEF IInv, TableCover, LooseTables
<1>1. ASSUME NEW t \in Threads, NEW op \in {"attach", "detach"}, NEW p \in Ports,
             Copy(t, op, p)
      PROVE  TableCover'
  BY <1>1, CopyFacts DEF OthersKeep
<1>2. ASSUME NEW t \in Threads, Publish(t)
      PROVE  TableCover'
  BY <1>2, PublishFacts DEF OthersKeep
<1>3. ASSUME NEW t \in Threads, SwapCache(t)
      PROVE  TableCover'
  BY <1>3, SwapFacts DEF OthersKeep
<1>4. ASSUME NEW t \in Threads, PushPending(t)
      PROVE  TableCover'
  BY <1>4, PushFacts DEF OthersKeep
<1>5. ASSUME NEW t \in Threads, NEW s \in {"idle", "called", "sync"}, Finish(t, s)
      PROVE  TableCover'
  BY <1>5, FinishFacts DEF OthersKeep
<1>6. ASSUME NEW v \in Versions, FreePending(v)
      PROVE  TableCover'
  BY <1>6, FreeFacts DEF OthersKeep
<1>7. CASE UNCHANGED <<switchVars, allocated, freed_lists, freed_tables, stage,
                       call, queued>>
  BY <1>7, QuietFacts
<1> QED
  BY <1>1, <1>2, <1>3, <1>4, <1>5, <1>6, <1>7, StepKinds DEF ModifyPorts

\* An entry always has a callback that will take it, or a caller about to
\* queue one.
LEMMA CallbackStep == IInv /\ [RcuNext]_rcuVars => CallbackInv'
<1> SUFFICES ASSUME RcuTypeOK, CallbackInv, [RcuNext]_rcuVars PROVE CallbackInv'
  BY DEF IInv
<1> USE DEF CallbackInv
<1>1. ASSUME NEW t \in Threads, NEW op \in {"attach", "detach"}, NEW p \in Ports,
             Copy(t, op, p), UNCHANGED queued
      PROVE  CallbackInv'
  BY <1>1, CopyFacts
<1>2. ASSUME NEW t \in Threads, ModifyPorts(t) PROVE CallbackInv'
  BY <1>2, PublishFacts, SwapFacts, PushFacts DEF ModifyPorts
<1>3. ASSUME NEW t \in Threads, NEW s \in {"idle", "called", "sync"}, Finish(t, s)
      PROVE  CallbackInv'
  BY <1>3, FinishFacts DEF Finish, switchVars
<1>4. ASSUME NEW v \in Versions, FreePending(v) PROVE CallbackInv'
  BY <1>4, FreeFacts
<1>5. CASE UNCHANGED <<switchVars, allocated, freed_lists, freed_tables, stage,
                       call, queued>>
  BY <1>5 DEF switchVars
<1> QED
  BY <1>1, <1>2, <1>3, <1>4, <1>5, StepKinds

LEMMA OwnershipInit == RcuInit => IInv
<1> SUFFICES ASSUME RcuInit PROVE IInv
  OBVIOUS
<1>1. RcuTypeOK
  BY TypeInit
<1>2. LooseLists = {} /\ LooseTables = {}
  BY DEF RcuInit, LooseLists, LooseTables
<1>3. \A t \in Threads : stage[t] = "idle"
  BY DEF RcuInit
<1> QED
  BY <1>1, <1>2, <1>3
  DEF RcuInit, IInv, PublishedInv, PendingInv, OwnedInv, ApartInv, ListCover, TableCover,
      CallbackInv, Owns

\* Every version of the list and of the cache is in exactly one place.
THEOREM Ownership == RcuSpec => []IInv
<1>1. RcuTypeOK /\ [RcuNext]_rcuVars => RcuTypeOK'
  BY SharedTypeStep, RestTypeStep, TypeParts DEF RcuTypeOK, SharedTypeOK, RestTypeOK
<1>2. IInv /\ [RcuNext]_rcuVars => IInv'
  BY <1>1, PublishedStep, PendingStep, OwnedStep, ApartStep, ListCoverStep, TableCoverStep, CallbackStep DEF IInv
<1> QED
  BY OwnershipInit, <1>2, PTL DEF RcuSpec

-----------------------------------------------------------------------------
(* What follows from it *)

\* free_pending deletes no list and no cache twice, and none that is still
\* published, however the two threads interleave their calls of modify_ports.
THEOREM Reclamation == RcuSpec => []ReclaimedOnce
<1>1. IInv => ReclaimedOnce
  BY DEF IInv, PublishedInv, PendingInv, LooseLists, LooseTables, ReclaimedOnce
<1> QED
  BY Ownership, <1>1, PTL

\* Once no call is under way and no callback is queued, everything but the
\* published list and cache has been deleted.
THEOREM NoLeak == RcuSpec => []NothingLeaked
<1>1. IInv => NothingLeaked
  <2> SUFFICES ASSUME IInv, \A t \in Threads : stage[t] \in {"idle", "called", "sync"},
                      queued = {}
               PROVE  /\ pending_free = {}
                      /\ LooseLists = {} /\ LooseTables = {}
                      /\ freed_lists \subseteq (0 .. allocated) \ {ports_ptr}
                      /\ freed_tables \subseteq (0 .. allocated) \ {mac_table}
    BY DEF NothingLeaked, LooseLists, LooseTables
  <2>1. pending_free = {}
    BY DEF IInv, CallbackInv
  <2>2. LooseLists = {}
    BY <2>1 DEF IInv, ListCover, Owns
  <2>3. LooseTables = {}
    BY <2>1 DEF IInv, TableCover, Owns
  <2> QED
    BY <2>1, <2>2, <2>3 DEF IInv, PublishedInv
<1> QED
  BY Ownership, <1>1, PTL

=============================================================================
