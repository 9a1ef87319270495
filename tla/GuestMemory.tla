------------------------------ MODULE GuestMemory ------------------------------
(***************************************************************************)
(* The memory of the guests: RegionList of a session (include/session.hh   *)
(* and switch/listener.cc), which turns guest addresses into pointers, and *)
(* its announcement to the upstream port, which maps it for DMA            *)
(* (Switch::announce_dma_memory, register_dma_memory_callback and          *)
(* remove_dma_memory).  The listener thread adds the regions of one        *)
(* session after the other; meanwhile the main thread creates the upstream *)
(* port.                                                                   *)
(*                                                                         *)
(* A mapping is a number; each is as long as the hint moves on for it.     *)
(***************************************************************************)
EXTENDS Naturals, SequencesExt

CONSTANTS
    AddressSpace,   \* addresses are modulo this: 2^64 in the code
    MaxMappings     \* bound on the REGION requests of all sessions

ASSUME MemoryAssumption == AddressSpace \in Nat \ {0} /\ MaxMappings \in Nat

Addresses == 0 .. AddressSpace - 1
Mappings  == 0 .. MaxMappings - 1
Nowhere   == "nullptr"

VARIABLES
    list,           \* RegionList::_list of the session there is
    address_hint,
    dma_regions,    \* _dma_regions of its port: <<>> without an entry
    dma_cb,         \* _dma_cb: the empty one, or the one of the NIC
    iommu,          \* mapping -> how often it was mapped for the NIC
    announce,       \* where the listener thread is
    register,       \* where the main thread is
    \* history
    announced,      \* mappings announced by all sessions
    raced,          \* ... while the callback was being registered
    removed         \* ... and removed before that

listenerVars == <<list, address_hint, announce>>
memoryVars   == <<listenerVars, dma_regions, dma_cb, iommu, register, announced, raced, removed>>

Region == [addr : Addresses, size : Addresses, mapping : Mappings]

MemoryTypeOK ==
    /\ list \in Seq(Region)
    /\ address_hint \in 0 .. MaxMappings
    /\ dma_regions \in Seq(Mappings)
    /\ dma_cb \in {"empty", "nic"}
    /\ iommu \in [Mappings -> Nat]
    /\ announce \in {"off", "idle", "call", "aborted"}
    /\ register \in {"no", "iterated", "yes"}
    /\ announced \cup raced \cup removed \subseteq Mappings

MemoryInit(start) ==
    /\ list = <<>> /\ dma_regions = <<>>
    /\ address_hint = 0
    /\ dma_cb = "empty"
    /\ iommu = [n \in Mappings |-> 0]
    /\ announce = start /\ register = "no"
    /\ announced = {} /\ raced = {} /\ removed = {}

-----------------------------------------------------------------------------
(* RegionList *)

Plus(a, n) == (a + n) % AddressSpace

\* Is it empty, or does it wrap around the address space?
Wraps(a, n) == Plus(a, n) <= a

\* Mutant: a region that surrounds another one does not overlap it.
BeginsInside(r, other) ==
    /\ r.addr < Plus(other.addr, other.size)
    /\ other.addr <= r.addr

Overlap(r, other) ==
    /\ r.addr < Plus(other.addr, other.size)
    /\ other.addr < Plus(r.addr, r.size)

Insertable(r) ==
    /\ ~Wraps(r.addr, r.size)
    /\ \A i \in DOMAIN list : ~Overlap(r, list[i])

\* Sorted insert: in front of the first region that begins behind r.
Insert(r) ==
    LET behind == {i \in DOMAIN list : list[i].addr >= Plus(r.addr, r.size)}
    IN  InsertAt(list, IF behind = {} THEN Len(list) + 1 ELSE Min(behind), r)

\* Mutant: only the first address is looked at.
BeginsIn(r, a, n) == r.addr <= a /\ a < Plus(r.addr, r.size)

IsIn(r, a, n) == r.addr <= a /\ Plus(a, n) < Plus(r.addr, r.size)

\* translate_ptr: the mapping and how far it is into it.
Translate(a, n) ==
    LET found == {i \in DOMAIN list : IsIn(list[i], a, n)}
    IN  IF Wraps(a, n) \/ found = {} THEN Nowhere
        ELSE LET r == list[Min(found)] IN <<r.mapping, a - r.addr>>

-----------------------------------------------------------------------------
(* Session::handle_request and insert_region, and the end of the session *)

\* Mutant: every mapping is asked for at the same address.
SameHint == 0

NextHint == address_hint + 1

\* Mutant: the hint moves on first.
MmapBehindHint == NextHint

\* mmap takes the hint if nobody is there, and something else otherwise.
Mmap ==
    IF \A i \in DOMAIN list : list[i].mapping # address_hint THEN address_hint
    ELSE Min(Mappings \ {list[i].mapping : i \in DOMAIN list})

\* ~Port insists on an entry for the port; the memory of the session is unmapped,
\* but not from the NIC.
EndSession ==
    /\ list' = <<>>
    /\ dma_regions' = <<>>
    /\ removed' = IF register = "no" THEN removed \cup ToSet(dma_regions) ELSE removed
    /\ announce' = IF dma_regions = <<>> THEN "aborted" ELSE "idle"

\* A region that does not fit ends the session.
RegionRequest(addr, size) ==
    LET r == [addr |-> addr, size |-> size, mapping |-> Mmap]
    IN  /\ announce = "idle"
        /\ Cardinality(announced) < MaxMappings
        /\ address_hint < MaxMappings
        /\ address_hint' = NextHint
        /\ IF Insertable(r)
             THEN /\ list' = Insert(r)
                  /\ dma_regions' = Append(dma_regions, r.mapping)
                  /\ announce' = "call"
                  /\ announced' = announced \cup {r.mapping}
                  /\ raced' = IF register = "iterated" THEN raced \cup {r.mapping} ELSE raced
                  /\ UNCHANGED removed
             ELSE EndSession /\ UNCHANGED <<announced, raced>>
        /\ UNCHANGED <<dma_cb, iommu, register>>

HangUp ==
    /\ announce = "idle"
    /\ EndSession
    /\ UNCHANGED <<address_hint, dma_cb, iommu, register, announced, raced>>

MapForNic(mappings) ==
    iommu' = [n \in Mappings |-> iommu[n] + Cardinality({k \in DOMAIN mappings : mappings[k] = n})]

\* ... and then announce_dma_memory calls the callback there is by now.
CallCallback ==
    /\ announce = "call"
    /\ announce' = "idle"
    /\ IF dma_cb = "nic" THEN MapForNic(<<Last(dma_regions)>>) ELSE UNCHANGED iommu
    /\ UNCHANGED <<list, address_hint, dma_regions, dma_cb, register, announced, raced, removed>>

-----------------------------------------------------------------------------
(* The main thread in register_dma_memory_callback *)

\* Mutant: what is there already is passed over.
IterateNothing ==
    /\ register = "no"
    /\ announce # "off"
    /\ register' = "iterated"
    /\ raced' = IF announce = "call" THEN raced \cup {Last(dma_regions)} ELSE raced
    /\ UNCHANGED <<listenerVars, dma_regions, dma_cb, iommu, announced, removed>>

Iterate ==
    /\ register = "no"
    /\ announce # "off"
    /\ register' = "iterated"
    /\ MapForNic(dma_regions)
    /\ raced' = IF announce = "call" THEN raced \cup {Last(dma_regions)} ELSE raced
    /\ UNCHANGED <<listenerVars, dma_regions, dma_cb, announced, removed>>

SetCallback ==
    /\ register = "iterated"
    /\ register' = "yes"
    /\ dma_cb' = "nic"
    /\ UNCHANGED <<listenerVars, dma_regions, iommu, announced, raced, removed>>

-----------------------------------------------------------------------------
MemoryNext ==
    \/ \E addr, size \in Addresses : RegionRequest(addr, size)
    \/ HangUp
    \/ CallCallback
    \/ Iterate
    \/ SetCallback

MemorySpec == MemoryInit("idle") /\ [][MemoryNext]_memoryVars

-----------------------------------------------------------------------------
(* Properties *)

\* The list is sorted, and no two regions have an address in common.
Bytes(a, n) == a .. a + n - 1

RegionsApart ==
    \A i, j \in DOMAIN list : i < j =>
        \A a \in Bytes(list[i].addr, list[i].size), b \in Bytes(list[j].addr, list[j].size) : a < b

\* A buffer is translated if and only if it is in a region as a whole and does not
\* have its last byte (see README): to where it is in the mapping of that region.
\* So it is for every address and size, those that wrap around included.
TranslatesRegions ==
    \A a, n \in Addresses :
        LET within == {i \in DOMAIN list :
                          /\ n > 0
                          /\ Bytes(a, n + 1) \subseteq Bytes(list[i].addr, list[i].size)}
        IN  IF within = {} THEN Translate(a, n) = Nowhere
            ELSE \A i \in within : Translate(a, n) = <<list[i].mapping, a - list[i].addr>>

\* When the upstream port is there and the listener is idle, all memory that was
\* announced can be reached by the NIC, and none was mapped for it twice, be it by
\* a later session at the same place; but for memory that was gone before, and for
\* what was announced in the middle of the registration.
MappedOnce ==
    register = "yes" /\ announce = "idle" =>
        \A n \in announced \ raced : iommu[n] = IF n \in removed THEN 0 ELSE 1

=============================================================================
