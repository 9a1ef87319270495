-------------------------------- MODULE MacTable --------------------------------
(***************************************************************************)
(* Where a packet goes: the table of addresses (include/hash/hashtable.hh  *)
(* as SwitchHash of include/switch.hh) and what Switch::work_quantum makes *)
(* of it.  The loop alone uses a table; a change of the port list gives it *)
(* a new one (PortsRcu).                                                   *)
(***************************************************************************)
EXTENDS Naturals, FiniteSetsExt

CONSTANTS
    Stations,       \* unicast addresses, with the one of zeros only
    Zero, Group,    \* ... which is Zero; and a multicast address
    TablePorts,
    Buckets, WAYS   \* 1024 and 1 in the code

EMPTY == "nullptr"

ASSUME TableAssumption ==
    /\ Zero \in Stations /\ Group \notin Stations
    /\ EMPTY \notin TablePorts
    /\ WAYS \in Nat \ {0}

Hashes == [Stations -> Buckets]
Ways   == 1 .. WAYS

VARIABLES
    hash,           \* never changes; the packets of a run may have any
    buckets,
    sent_to,        \* the ports that got the last packet
    packet,         \* ... which was this one
    learned         \* history: per bucket, the address and the port learned last

tableVars == <<hash, buckets, sent_to, packet, learned>>

NoPacket == [from |-> EMPTY, src |-> Zero, dst |-> Zero]

TableInit(hashes) ==
    /\ hash \in hashes
    /\ buckets = [b \in Buckets |-> [w \in Ways |-> [v |-> EMPTY, k |-> Zero]]]
    /\ sent_to = {} /\ packet = NoPacket
    /\ learned = [b \in Buckets |-> [v |-> EMPTY, k |-> Zero]]

-----------------------------------------------------------------------------
\* operator[]: the first way with the key.
Lookup(key) ==
    LET slot == buckets[hash[key]]
        same == {w \in Ways : slot[w].k = key}
    IN  IF same = {} THEN EMPTY ELSE slot[Min(same)].v

\* Mutant: all ways are full, and nothing is thrown out.
AddIfRoom(slot, key, value) ==
    LET free == {w \in Ways : slot[w].v = EMPTY}
    IN  IF free # {} THEN [slot EXCEPT ![Min(free)] = [v |-> value, k |-> key]] ELSE slot

\* add: the first free way, if need be after all ways were emptied, keys remain.
Added(slot, key, value) ==
    LET free == {w \in Ways : slot[w].v = EMPTY}
    IN  IF free # {} THEN [slot EXCEPT ![Min(free)] = [v |-> value, k |-> key]]
        ELSE [w \in Ways |-> IF w = 1 THEN [v |-> value, k |-> key] ELSE [slot[w] EXCEPT !.v = EMPTY]]

Learn(key, port) ==
    /\ buckets' = [buckets EXCEPT ![hash[key]] = Added(@, key, port)]
    /\ learned' = [learned EXCEPT ![hash[key]] = [v |-> port, k |-> key]]

\* work_quantum: to the port of the destination, or to all others.  A packet that
\* would go back is dropped, and nothing is learned from it.
SwitchPacket(port, src, dst) ==
    LET dst_port == IF dst = Group THEN EMPTY ELSE Lookup(dst)
    IN  /\ packet' = [from |-> port, src |-> src, dst |-> dst]
        /\ sent_to' = IF dst_port = port THEN {}
                      ELSE IF dst_port # EMPTY THEN {dst_port} ELSE TablePorts \ {port}
        /\ IF dst_port = port \/ src = Group THEN UNCHANGED <<buckets, learned>> ELSE Learn(src, port)
        /\ UNCHANGED hash

TableNext ==
    \E port \in TablePorts, src, dst \in Stations \cup {Group} : SwitchPacket(port, src, dst)

\* For any hash function.
TableSpec == TableInit(Hashes) /\ [][TableNext]_tableVars

-----------------------------------------------------------------------------
(* Properties *)

\* A packet goes to the port its destination was learned at last, and there alone,
\* unless another address of the same bucket was learned since; then, and before it
\* was ever learned, it goes to everyone else.  It never goes back, nor to a port
\* the station has left.  (This takes a single way: with two, a station that moved
\* is found at its old port.)
DeliversToLatest ==
    [][LET l == learned[hash[packet'.dst]]
       IN  sent_to' = (IF packet'.dst # Group /\ l.k = packet'.dst /\ l.v # EMPTY
                         THEN {l.v} ELSE TablePorts) \ {packet'.from}]_tableVars

=============================================================================
