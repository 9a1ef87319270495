------------------------------- MODULE PortsRcu -------------------------------
(***************************************************************************)
(* The list of ports and the MAC cache of the switch under concurrent      *)
(* change: Switch::modify_ports with its copy, its mutex, the exchange of  *)
(* the cache and the deferred reclamation (switch/switch.cc), Port::enable *)
(* and Port::disable (switch/port.cc), and the way Switch::loop reads both *)
(* structures and learns addresses.                                        *)
(*                                                                         *)
(* Two threads change the list: the listener, for the virtio ports of its  *)
(* sessions, and the main thread, which attaches the upstream port before  *)
(* it enters the loop and detaches broken ports inside it.  liburcu (QSBR) *)
(* is external: a grace period waits for every thread that is registered   *)
(* and online, until that thread is quiescent or goes offline.             *)
(***************************************************************************)
EXTENDS Naturals

CONSTANTS
    VirtioPorts,    \* ports of sessions, changed by the listener
    Upstream,       \* the port the main thread attaches
    NoPort,         \* "no port"
    Registered,     \* threads that called rcu_register_thread
    MaxUpdates      \* bound on the calls of modify_ports

Main     == "main"
ListenerThread == "listener"
Threads  == {Main, ListenerThread}
Ports    == VirtioPorts \cup {Upstream}

ASSUME PortsAssumption      == Upstream \notin VirtioPorts /\ NoPort \notin Ports
ASSUME RegisteredAssumption == Registered \subseteq Threads
ASSUME BoundAssumption      == MaxUpdates \in Nat

\* Version i of the list and of the cache is what the i-th call of
\* modify_ports allocates; version 0 comes from the constructor of Switch.
Versions  == 0 .. MaxUpdates
NoVersion == MaxUpdates + 1

VARIABLES
    \* Switch
    ports_ptr,      \* _ports: the version of the list that is published
    mac_table,      \* _mac_table: the version of the cache that is published
    pending_free,   \* _pending_free: what is waiting to be reclaimed
    \* the heap
    lists,          \* version -> ports in the list
    known,          \* version -> ports the cache has an address of
    allocated,      \* calls of modify_ports so far
    freed_lists,
    freed_tables,
    \* modify_ports, per thread
    stage,          \* next step of the call
    call,           \* its arguments and locals
    \* the main loop
    pc,
    my_ports,       \* version of the list of the read section
    my_macs,        \* version of the cache of the read section
    in_use,         \* ports whose poll or receive is running
    \* the listener and liburcu
    life,           \* what became of each port
    queued,         \* callbacks given to call_rcu and not yet run
    gp_wait,        \* whom the grace period of each of them still waits for
    sync_wait       \* whom synchronize_rcu of the listener still waits for

switchVars == <<ports_ptr, mac_table, pending_free>>
heapVars   == <<lists, known, allocated, freed_lists, freed_tables>>
loopVars   == <<pc, my_ports, my_macs, in_use>>
graceVars  == <<queued, gp_wait, sync_wait>>
rcuVars == <<switchVars, heapVars, stage, call, loopVars, life, graceVars>>

Steps   == {"idle", "copied", "published", "swapped", "pushed", "called",
              "sync"}
Calls   == [op: {"attach", "detach"}, port: Ports \cup {NoPort}, new: Versions,
            old_list: Versions \cup {NoVersion}, old_table: Versions \cup {NoVersion}]
Entries == [by: Versions, old_list: Versions, old_table: Versions]
LoopSteps == {"start", "starting", "top", "list", "work", "poll", "receive",
              "broken", "offline"}
Lives   == {"new", "attached", "detached", "destroyed"}

\* The locals of a call are set as far as the call has got.
LocalsSet(t) ==
    /\ stage[t] # "idle" => call[t].port \in Ports
    /\ stage[t] \in {"published", "swapped"} => call[t].old_list \in Versions
    /\ stage[t] = "swapped" => call[t].old_table \in Versions

RcuTypeOK ==
    /\ ports_ptr \in Versions
    /\ mac_table \in Versions
    /\ pending_free \subseteq Entries
    /\ lists \in [Versions -> SUBSET Ports]
    /\ known \in [Versions -> SUBSET Ports]
    /\ allocated \in Versions
    /\ freed_lists \subseteq Versions
    /\ freed_tables \subseteq Versions
    /\ stage \in [Threads -> Steps]
    /\ call \in [Threads -> Calls]
    /\ \A t \in Threads : LocalsSet(t)
    /\ pc \in LoopSteps
    /\ my_ports \in Versions \cup {NoVersion}
    /\ my_macs \in Versions \cup {NoVersion}
    /\ pc \in {"list", "work", "poll", "receive", "broken"} <=> my_ports # NoVersion
    /\ pc \in {"work", "poll", "receive", "broken"} <=> my_macs # NoVersion
    /\ in_use \subseteq Ports
    /\ life \in [Ports -> Lives]
    /\ queued \subseteq Versions
    /\ gp_wait \in [Versions -> SUBSET Threads]
    /\ sync_wait \subseteq Threads

NoCall == [op |-> "attach", port |-> NoPort, new |-> 0,
           old_list |-> NoVersion, old_table |-> NoVersion]

RcuInit ==
    /\ ports_ptr = 0
    /\ mac_table = 0
    /\ pending_free = {}
    /\ lists = [v \in Versions |-> {}]
    /\ known = [v \in Versions |-> {}]
    /\ allocated = 0
    /\ freed_lists = {}
    /\ freed_tables = {}
    /\ stage = [t \in Threads |-> "idle"]
    /\ call = [t \in Threads |-> NoCall]
    /\ pc = "start"
    /\ my_ports = NoVersion
    /\ my_macs = NoVersion
    /\ in_use = {}
    /\ life = [p \in Ports |-> "new"]
    /\ queued = {}
    /\ gp_wait = [v \in Versions |-> {}]
    /\ sync_wait = {}

-----------------------------------------------------------------------------
(* liburcu, external *)

\* Which threads are online right now.  The listener is offline between two
\* messages and inside synchronize_rcu.
Online(t) ==
    IF t = Main THEN pc \notin {"start", "starting", "offline"}
                ELSE stage[t] \notin {"idle", "sync"}

\* Whom a grace period that starts now has to wait for.
Readers == {t \in Registered : Online(t)}

\* No grace period waits for thread t any longer.
Quiescent(t) ==
    /\ gp_wait' = [v \in Versions |-> gp_wait[v] \ {t}]
    /\ sync_wait' = sync_wait \ {t}

-----------------------------------------------------------------------------
(* Switch::modify_ports, step by step, on thread t *)

\* newp = new list(*_ports), before the mutex is taken; newm = new SwitchHash.
Copy(t, op, p) ==
    /\ stage[t] = "idle"
    /\ allocated < MaxUpdates
    /\ allocated' = allocated + 1
    /\ lists' = [lists EXCEPT ![allocated + 1] = lists[ports_ptr]]
    /\ call' = [call EXCEPT ![t] = [NoCall EXCEPT !.op = op, !.port = p,
                                                  !.new = allocated + 1]]
    /\ stage' = [stage EXCEPT ![t] = "copied"]
    /\ UNCHANGED <<switchVars, known, freed_lists, freed_tables>>

\* What the f of attach_port and detach_port makes of a list.
Apply(c, ps) == IF c.op = "attach" THEN ps \cup {c.port} ELSE ps \ {c.port}

\* Under _ports_mtx: oldp = _ports; f(*newp); _ports = newp.
Publish(t) ==
    /\ stage[t] = "copied"
    /\ lists' = [lists EXCEPT ![call[t].new] = Apply(call[t], @)]
    /\ call' = [call EXCEPT ![t].old_list = ports_ptr]
    /\ ports_ptr' = call[t].new
    /\ stage' = [stage EXCEPT ![t] = "published"]
    /\ UNCHANGED <<mac_table, pending_free, known, allocated, freed_lists,
                   freed_tables, loopVars, life, graceVars>>

\* oldm = rcu_xchg_pointer(&_mac_table, newm).
SwapCache(t) ==
    /\ stage[t] = "published"
    /\ call' = [call EXCEPT ![t].old_table = mac_table]
    /\ mac_table' = call[t].new
    /\ stage' = [stage EXCEPT ![t] = "swapped"]
    /\ UNCHANGED <<ports_ptr, pending_free, heapVars, loopVars, life, graceVars>>

\* Under _pending_free_mtx: queue the closure that deletes oldm and oldp.
PushPending(t) ==
    /\ stage[t] = "swapped"
    /\ pending_free' = pending_free \cup {[by        |-> call[t].new,
                                           old_list  |-> call[t].old_list,
                                           old_table |-> call[t].old_table]}
    /\ stage' = [stage EXCEPT ![t] = "pushed"]
    /\ UNCHANGED <<ports_ptr, mac_table, heapVars, call, loopVars, life, graceVars>>

\* call_rcu(this, cb_free_pending) ...
Queue(t) ==
    /\ stage[t] = "pushed"
    /\ queued' = queued \cup {call[t].new}

\* ... and modify_ports returns into attach_port or detach_port.
EndCall(t) == call' = [call EXCEPT ![t] = NoCall]

-----------------------------------------------------------------------------
(* cb_free_pending, free_pending: on the thread of liburcu, after the grace *)
(* period of one call, delete everything that is queued by then.            *)

\* Mutant: the vector is copied where it should be swapped.
FreePendingAgain(v) ==
    /\ v \in queued
    /\ gp_wait[v] = {}
    /\ queued' = queued \ {v}
    /\ freed_lists' = freed_lists \cup {e.old_list : e \in pending_free}
    /\ freed_tables' = freed_tables \cup {e.old_table : e \in pending_free}
    /\ UNCHANGED <<switchVars, lists, known, allocated, stage, call, loopVars,
                   life, gp_wait, sync_wait>>

\* Mutant: the closures delete the list and forget the cache.
FreePendingListsOnly(v) ==
    /\ v \in queued
    /\ gp_wait[v] = {}
    /\ queued' = queued \ {v}
    /\ pending_free' = {}
    /\ freed_lists' = freed_lists \cup {e.old_list : e \in pending_free}
    /\ UNCHANGED <<ports_ptr, mac_table, lists, known, allocated, freed_tables,
                   stage, call, loopVars, life, gp_wait, sync_wait>>

FreePending(v) ==
    /\ v \in queued
    /\ gp_wait[v] = {}
    /\ queued' = queued \ {v}
    /\ pending_free' = {}
    /\ freed_lists' = freed_lists \cup {e.old_list : e \in pending_free}
    /\ freed_tables' = freed_tables \cup {e.old_table : e \in pending_free}
    /\ UNCHANGED <<ports_ptr, mac_table, lists, known, allocated, stage, call,
                   loopVars, life, gp_wait, sync_wait>>

-----------------------------------------------------------------------------
(* The listener: Port::enable and Port::disable of virtio ports *)

\* enable(): both rings of a port that is not online have been set.
EnablePort(p) ==
    /\ life[p] \in {"new", "detached"}
    /\ Copy(ListenerThread, "attach", p)
    /\ UNCHANGED <<loopVars, life, graceVars>>

\* disable(): the device is reset, or its session ends.
DisablePort(p) ==
    /\ life[p] # "destroyed"
    /\ Copy(ListenerThread, "detach", p)
    /\ UNCHANGED <<loopVars, life, graceVars>>

\* The call_rcu of an attach.  The call is over with it, and the thread goes
\* offline to wait for the next message.
EnableDone ==
    /\ Queue(ListenerThread)
    /\ call[ListenerThread].op = "attach"
    /\ gp_wait' = [v \in Versions |->
                      IF v = call[ListenerThread].new
                        THEN Readers \ {ListenerThread}
                        ELSE gp_wait[v] \ {ListenerThread}]
    /\ life' = [life EXCEPT ![call[ListenerThread].port] = "attached"]
    /\ stage' = [stage EXCEPT ![ListenerThread] = "idle"]
    /\ EndCall(ListenerThread)
    /\ UNCHANGED <<switchVars, heapVars, loopVars, sync_wait>>

\* The call_rcu of a detach.
DisableQueued ==
    /\ Queue(ListenerThread)
    /\ call[ListenerThread].op = "detach"
    /\ gp_wait' = [gp_wait EXCEPT ![call[ListenerThread].new] = Readers]
    /\ stage' = [stage EXCEPT ![ListenerThread] = "called"]
    /\ UNCHANGED <<switchVars, heapVars, call, loopVars, life, sync_wait>>

\* It goes on with synchronize_rcu, during which the caller is offline.
StartSynchronize ==
    /\ stage[ListenerThread] = "called"
    /\ stage' = [stage EXCEPT ![ListenerThread] = "sync"]
    /\ gp_wait' = [v \in Versions |-> gp_wait[v] \ {ListenerThread}]
    /\ sync_wait' = Readers \ {ListenerThread}
    /\ UNCHANGED <<switchVars, heapVars, call, loopVars, life, queued>>

\* synchronize_rcu returns.  disable() was called by reset(), or by ~Port(),
\* after which the object is gone.
EndSynchronize ==
    /\ stage[ListenerThread] = "sync"
    /\ sync_wait = {}
    /\ \E fate \in {"detached", "destroyed"} :
           life' = [life EXCEPT ![call[ListenerThread].port] = fate]
    /\ stage' = [stage EXCEPT ![ListenerThread] = "idle"]
    /\ EndCall(ListenerThread)
    /\ UNCHANGED <<switchVars, heapVars, loopVars, graceVars>>

-----------------------------------------------------------------------------
(* The main thread: main, then Switch::loop *)

\* The upstream port is optional.
SkipUpstream ==
    /\ pc = "start"
    /\ pc' = "top"
    /\ UNCHANGED <<switchVars, heapVars, stage, call, my_ports, my_macs, in_use,
                   life, graceVars>>

\* The constructor of the upstream port ends in enable().
AttachUpstream ==
    /\ pc = "start"
    /\ pc' = "starting"
    /\ Copy(Main, "attach", Upstream)
    /\ UNCHANGED <<my_ports, my_macs, in_use, life, graceVars>>

\* The main thread's call_rcu: enter the loop, or leave the read section after
\* a broken port was detached.
MainCallRcu ==
    /\ Queue(Main)
    /\ gp_wait' = [gp_wait EXCEPT ![call[Main].new] = Readers]
    /\ life' = IF call[Main].op = "attach"
                 THEN [life EXCEPT ![Upstream] = "attached"]
                 ELSE life
    /\ stage' = [stage EXCEPT ![Main] = "idle"]
    /\ EndCall(Main)
    /\ pc' = "top"
    /\ my_ports' = NoVersion
    /\ my_macs' = NoVersion
    /\ UNCHANGED <<switchVars, heapVars, in_use, sync_wait>>

\* rcu_quiescent_state(), then rcu_dereference of _ports ...
StartReading ==
    /\ pc = "top"
    /\ Quiescent(Main)
    /\ my_ports' = ports_ptr
    /\ pc' = "list"
    /\ UNCHANGED <<switchVars, heapVars, stage, call, my_macs, in_use, life, queued>>

\* ... and of _mac_table.
DerefMacTable ==
    /\ pc = "list"
    /\ my_macs' = mac_table
    /\ pc' = "work"
    /\ UNCHANGED <<switchVars, heapVars, stage, call, my_ports, in_use, life, graceVars>>

\* work_quantum calls poll of one port of its list.
PollFrom(p) ==
    /\ pc = "work"
    /\ p \in lists[my_ports]
    /\ in_use' = {p}
    /\ pc' = "poll"
    /\ UNCHANGED <<switchVars, heapVars, stage, call, my_ports, my_macs, life, graceVars>>

\* No packet, or one for the port it came from.
DropPacket ==
    /\ pc = "poll"
    /\ in_use' = {}
    /\ pc' = "work"
    /\ UNCHANGED <<switchVars, heapVars, stage, call, my_ports, my_macs, life, graceVars>>

\* mac_cache.add(ehdr.src, src_port), in whichever cache we dereferenced.
LearnFrom(src) == known' = [known EXCEPT ![my_macs] = @ \cup {src}]

\* A packet of src goes to the port the cache knows for its destination, or
\* is flooded to the other ports of the list.
Forward(src, dests) ==
    /\ pc = "poll"
    /\ in_use = {src}
    /\ \/ \E d \in known[my_macs] \ {src} : dests = {d}
       \/ dests = lists[my_ports] \ {src}
    /\ LearnFrom(src)
    /\ in_use' = {src} \cup dests
    /\ pc' = "receive"
    /\ UNCHANGED <<switchVars, lists, allocated, freed_lists, freed_tables, stage,
                   call, my_ports, my_macs, life, graceVars>>

\* The packet is delivered and marked done.
Delivered ==
    /\ pc = "receive"
    /\ in_use' = {}
    /\ pc' = "work"
    /\ UNCHANGED <<switchVars, heapVars, stage, call, my_ports, my_macs, life, graceVars>>

\* poll or receive throws PortBrokenException: detach_port(e.port()).
PortBroken(p) ==
    /\ pc \in {"poll", "receive"}
    /\ p \in in_use
    /\ in_use' = {}
    /\ pc' = "broken"
    /\ Copy(Main, "detach", p)
    /\ UNCHANGED <<my_ports, my_macs, life, graceVars>>

\* Mutant: the next read section goes on with the old cache.
LeaveReadSectionKeepMacs ==
    /\ pc = "work"
    /\ pc' = "top"
    /\ my_ports' = NoVersion
    /\ UNCHANGED <<switchVars, heapVars, stage, call, my_macs, in_use, life, graceVars>>

\* The RCU timer elapsed: start over.
LeaveReadSection ==
    /\ pc = "work"
    /\ pc' = "top"
    /\ my_ports' = NoVersion
    /\ my_macs' = NoVersion
    /\ UNCHANGED <<switchVars, heapVars, stage, call, in_use, life, graceVars>>

\* rcu_thread_offline(), then block.
GoOffline ==
    /\ pc = "work"
    /\ pc' = "offline"
    /\ my_ports' = NoVersion
    /\ my_macs' = NoVersion
    /\ Quiescent(Main)
    /\ UNCHANGED <<switchVars, heapVars, stage, call, in_use, life, queued>>

GoOnline ==
    /\ pc = "offline"
    /\ pc' = "top"
    /\ UNCHANGED <<switchVars, heapVars, stage, call, my_ports, my_macs, in_use,
                   life, graceVars>>

-----------------------------------------------------------------------------
ModifyPorts(t) == Publish(t) \/ SwapCache(t) \/ PushPending(t)

ListenerSteps ==
    \/ \E p \in VirtioPorts : EnablePort(p) \/ DisablePort(p)
    \/ ModifyPorts(ListenerThread)
    \/ EnableDone
    \/ DisableQueued
    \/ StartSynchronize
    \/ EndSynchronize

MainThread ==
    \/ SkipUpstream
    \/ AttachUpstream
    \/ ModifyPorts(Main)
    \/ MainCallRcu
    \/ StartReading
    \/ DerefMacTable
    \/ DropPacket
    \/ Delivered
    \/ LeaveReadSection
    \/ GoOffline
    \/ GoOnline
    \/ \E p \in Ports : PollFrom(p) \/ PortBroken(p)
    \/ \E p \in Ports, dests \in SUBSET Ports : Forward(p, dests)

RcuNext == ListenerSteps \/ MainThread \/ \E v \in Versions : FreePending(v)

RcuSpec == RcuInit /\ [][RcuNext]_rcuVars

-----------------------------------------------------------------------------
(* Properties *)

\* Nothing is reclaimed twice or while it is still published, however the
\* calls of modify_ports on the two threads and free_pending interleave.
ReclaimedOnce ==
    /\ ports_ptr \notin freed_lists /\ mac_table \notin freed_tables
    /\ \A e \in pending_free :
           /\ e.old_list \notin freed_lists \cup {ports_ptr}
           /\ e.old_table \notin freed_tables \cup {mac_table}
    /\ \A e, f \in pending_free :
           e # f => e.old_list # f.old_list /\ e.old_table # f.old_table

\* Nothing leaks: once no call and no callback is under way, every list and
\* cache there ever was, but the published ones, has been reclaimed.
NothingLeaked ==
    (\A t \in Threads : stage[t] \in {"idle", "called", "sync"}) /\ queued = {} =>
        /\ pending_free = {}
        /\ freed_lists = (0 .. allocated) \ {ports_ptr}
        /\ freed_tables = (0 .. allocated) \ {mac_table}

\* switch.hh, of Port::disable: "Waits until the switch loop doesn't see the
\* port anymore, i.e. calls to poll() and receive() have finished."
DisableWaits ==
    \A p \in Ports :
        life[p] = "destroyed" =>
            /\ p \notin in_use
            /\ my_ports # NoVersion => p \notin lists[my_ports]

\* switch.cc, of the mutex in modify_ports: "Use a mutex to not race with other
\* calls to this function."  Then each call changes the list it replaces.
UpdatesKept ==
    [][\A t \in Threads :
           Publish(t) => lists'[ports_ptr'] = Apply(call[t], lists[ports_ptr])]_rcuVars

\* switch.cc, of the exchange of the cache: "Delete MAC address cache. No
\* problem to race here."  Then, between two calls, the published cache knows
\* ports of the published list and of the list the loop still works on only.
CacheForgets ==
    (\A t \in Threads : stage[t] \notin {"copied", "published"}) =>
        known[mac_table] \subseteq
            lists[ports_ptr] \cup (IF my_ports = NoVersion THEN {} ELSE lists[my_ports])

=============================================================================
