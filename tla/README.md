# A formal model of sv3

sv3 is a userspace network switch for virtual machines. QEMU hands the PCI
accesses of a guest over a Unix socket to sv3, sv3 plays the virtio-net device,
reads and writes the guest's memory directly, and switches frames between guests
and one Intel 82599 NIC. This directory holds TLA+ models of it, the TLC
configurations that check them, and proofs for TLAPS. `PROJECT.json` is the
machine-readable index: which lines every definition stands for, which run
checks what, what would break each property, and what can go wrong where.

All references are to the source tree under `src/`.

## 1. Inventory

Three kinds of thread run: the **main thread** (`Switch::loop`, sv3.cc:193), the
**listener thread** (`Listener::thread_fun`), and a **callback thread** of liburcu
(`call_rcu`); an upstream port adds a thread that forwards link interrupts. The
guests are further actors: they write the memory the virtqueues live in at any
time, and the event fd of the switch when they kick.

| component | state | operations | how it interacts |
|---|---|---|---|
| **Switch main loop** (`switch/switch.cc`, `include/switch.hh`) | polling state, batch quota, shutdown flag, event fd | `loop`, `work_quantum`, `schedule_poll`, `shutdown` | calls `poll`, `receive`, `mark_done`, `poll_irq` of every port; woken through the event fd by guests, the listener and signal handlers |
| **Port list, MAC cache, reclamation** (`switch.cc`, `switch/port.cc`) | `_ports`, `_mac_table`, `_pending_free`, its mutexes | `modify_ports`, `attach_port`, `detach_port`, `free_pending`, `Port::enable`, `Port::disable` | written by listener and main thread, read by the loop under RCU, freed by the callback thread |
| **DMA announcements** (`switch.cc`) | `_dma_regions`, callback | `announce_dma_memory`, `register_dma_memory_callback`, `remove_dma_memory` | sessions announce, the NIC listens |
| **Virtio device, data path** (`switch/virtiodevice-io.cc`) | `last_avail_idx`, `inuse`, `pending_irq` per queue; the rings in guest memory | `poll`, `receive`, `mark_done`, `poll_irq`, the `vq_` functions | loop on one side, guest drivers through shared memory on the other |
| **Virtio device, configuration** (`virtiodevice-io.cc`, `virtiodevice.cc`) | register file, queue addresses, `online` | `io_read`, `io_write`, `reset`, `get_msix_info` | run by the listener while the loop may use the device |
| **Sessions and listener** (`switch/listener.cc`, `include/session.hh`) | session list, descriptors per session | `thread_fun`, `accept_session`, `Session::poll`, `handle_request`, `~Session`, `~Listener` | sockets of the clients, descriptor table of the process |
| **Guest memory regions** (`session.hh`, `listener.cc`) | sorted list of mappings | `RegionList::insert`, `translate_ptr` | written by the listener, read by the loop |
| **Intel 82599 port** (`switch/intel82599.cc`) | descriptor rings, saved completion infos | `receive`, `poll`, `mark_done`, `reset` | loop; marks packets of other ports done later |
| **Checksums** (`include/hash/onescomplement.hh`) | none | `add`, `fold`, three implementations | NIC port, tests |
| **MAC hash table** (`include/hash/`) | cache lines of a key and a value | lookup, learn | loop |
| **Packets** (`include/packetjob.hh`, `switch/packet.cc`) | fragments, completion info | `copy_from`, `copy_completion_info` | loop and ports |
| VFIO access, timers, tracing, logging, option parsing | none of interest | | |

**What is hard.** The loop turns notifications of the guests off while it polls
and must never go to sleep on a packet that was published meanwhile. The port
list changes under the loop's feet, from two threads, with deferred reclamation.
Rings are shared with guests that never stop, their 16-bit indices wrap, a packet
may use several receive buffers, or more than there are, and any step may throw.
Sessions come and go, and descriptor numbers are used again. `PROJECT.json` lists
every such hazard at its line, with the property that covers it, or why none does.

**What makes each component correct.** Loop: no lost wakeup, no missed shutdown,
every packet is taken, a round with a broken port ends, and nobody but listed ports
is served. Port list: each list and
cache is freed exactly once and not while published, changes are not lost, a port
that was disabled is not used. Virtqueues: buffers are conserved, the receiver
sees whole packets, interrupts are not lost (the code alone does not see to that on
x86), well-behaved guests are not thrown out. Registers: a port is in the list exactly when its device is configured, and
what the loop uses of it is there. Sessions: they do not touch each other's
descriptors, every request is taken, the only listener thread does not get stuck.
Regions: they are disjoint, a translation stays in one, and the NIC can reach each
of them. Checksums: no carry is lost, whichever way they are computed (but SSE and
`fold` each lose one, see below). NIC: every
packet lent is marked done once and in order, receive buffers return, frames are
put together from the buffers they came in. Table: a packet goes to the port its
destination was heard at last.

## 2. Modules

```
PacketService   <-- implemented by -- SwitchLoop <-- SwitchLoopTSO (store buffer)
                                          ^-- SwitchLoopProofs
PacketLink      <-- implemented by -- VirtQueue  <-- VirtQueueTSO (store buffer)
                                          ^-- VirtQueueProofs
Uplink          <-- implemented by -- IntelTx   <-- IntelTxProofs
IntelRx     <-- IntelRxProofs
PortsRcu    <-- PortsRcuProofs        Sessions    <-- SessionsProofs
VirtioConfig, MacTable, GuestMemory, Checksum <-- PartsProofs
Enumeration     lemmas about finite sets of numbers in order: VirtQueueProofs, IntelTxProofs
MC*  instances for TLC: MCParts for the seven small ones (IntelTx, IntelRx, VirtioConfig,
     GuestMemory, Checksum, MacTable, PortsRcu)
```

### SwitchLoop: the main loop and who wakes it

One action per step of `Switch::loop` at which another thread can come in between.
`pc` follows the code: `top` (before `rcu_quiescent_state`), `while` (the inner
loop), `ports` (the `for` over the ports in `work_quantum`), `notify` and `pop` (the
two halves of `VirtioDevice::poll`: the store to `used->flags`, then the look at
`avail->idx`), `copy` and `publish` (the two halves of `modify_ports` when a broken port
is detached), `read` (blocking on the event fd), `until`, `done`, and `crashed`. `state` is
the three-valued polling state; `quota` the rest of the batch. The two timers elapse at
some time; the counter of the event fd is reduced to zero or not; a packet of a port is
one of a number (`pending`), forwarded, hairpin, or the one that finds a port broken,
its own or a receiver.

Around the loop run `Switch::shutdown` in its two halves, a driver per port that
publishes, looks at the flag and kicks (through the hotspot, which is the event fd
itself, or by a trapped write), and the listener, which works on one message at a time
(`listener` and `task` say on which, and what is left to do):

| message | steps |
|---|---|
| `QUEUE_PFN` with both queues then set | `SetQueues`, and if the device was not online `CopyToModify`, `AttachPort` |
| `QUEUE_PFN` that takes a queue away | `TakeQueue` (the pointers are null), `CopyToModify`, `DetachPort` |
| `STATUS` | `DriverOk` or `ClearStatus`; the port list stays |
| `RESET` (the end of a session is one) | `Reset`, `CopyToModify`, `DetachPort`, `ClearDevice` |
| `QUEUE_NOTIFY` | `NotifyDisable`, `SchedulePoll` |

`CopyPorts` and `PublishPorts` are `modify_ports` in either thread, with the copy before
the mutex: changes get lost, a broken port or a detached one may be listed again,
and the loop works on whatever list it dereferenced last (`ports`), while `attached` is
the one published. Nobody waits for the loop (finding 3), so a listed or a no
longer listed port may lose its rings under it; then it uses a null pointer, which is
`Fault`. `online` of the device is not a variable: between messages it is true exactly if
both queues are set. That a port can be in the list twice (attached anew after a lost
detach) is not modelled, a list is a set: such a port differs only in that it stays
after the next detach, which a lost update does as well. Queues taken away in the
model are cleared, since the driver sets them up anew, or keep what is in them if it was
the RX queue only.

`overlooked` is a history variable: the ports that came into the list with packets in
the ring or with notifications off and were not polled since. `attach_port` does not
wake the loop, so nothing can be promised to these until the loop gets to them; the
wakeup properties and the liveness of the service are about all others (`Noticed`).
A port attached the ordinary way, with an empty ring, is never one of them.

`PacketService` is what the ports may expect, and no more than the code gives. The
service works in rounds. A round begins with the ports listed at that moment, and
packets are taken of these alone. Who changes the list does not wait for the round to
end, and may publish any list. A port found broken ends the round, and the list
published for it is without it, which is not to say that it is not listed again later.
The service stops when and only when told to, or breaks down when the
queues of a port of the round have been withdrawn. And a packet of a listed port,
not overlooked, is not left lying for ever. `ImplementsService` says that the
loop implements this, liveness included.

`SwitchLoopTSO` puts the store of `used->flags` into a store buffer. Everything that
is a full barrier in the code waits for the buffer: `rcu_quiescent_state`,
`rcu_thread_offline`, the mutex and the exchange of `modify_ports`, and the locked or of
`disable_notification`.

### PortsRcu: the port list, the MAC cache and their reclamation

`modify_ports` runs on two threads, in the steps between which the other one can
come: copy the list (outside the mutex), publish, exchange the cache, push to
`_pending_free`, `call_rcu`. Lists and caches are versions, one pair per call. The
loop dereferences list and cache in two steps, is in `poll` or `receive` of ports
(`in_use`), learns addresses into the cache it read, and detaches broken ports.
`Port::disable` goes on to `synchronize_rcu`; `gp_wait` and `sync_wait` say whom a
grace period still waits for. `Registered` is the set of threads that called
`rcu_register_thread`: in this code the listener alone (listener.cc:272).

Abstractions: a list is a set, its order does not matter to what is asserted; a
cache is the set of ports it has an address of, so that two addresses that collide
in the direct-mapped table merely forget more than the model does; callbacks
run one per call, which is what liburcu does unless an `rcu_head` is re-linked
while it is queued (a hazard of its own).

### VirtQueue: from one guest's TX queue to another's RX queue

The rings with their indices modulo `IndexModulus` (2^16 in the code, a multiple of
twice the ring size in general), `VirtQueue`'s three fields, and one action per
step of `work_quantum`, `poll`, `receive`, `mark_done` and `poll_irq` between which a
guest can act. `receive` copies part by part (`ReceivePart`), may run out of chains
in the middle (`ReceiveDone` publishes what there is), may throw (`ReceiveThrows`,
`ReceiveSlow`); in every case `MarkDone` follows, as the completion of the packet
runs when it goes out of scope. The guests add chains, take what is in the used
ring, and use interrupts the way virtio drivers do: enable, look again, sleep.

Abstractions: a descriptor chain is its head, and is either good or one the device
has to refuse (`bad` stands for a wrong direction, an address that does not
translate, an index or length out of bounds); how full a receive chain is and
checksums are left out; `Size` says how many chains a packet fills. MSI-X
vectors are configured. Memory is sequentially consistent, which the code does not
see to; the next module is about that. One sender and one receiver: other receivers and other senders show up only as
`SwitchElsewhere`. Completion that a NIC defers is in IntelTx. A guest
that moves `avail->idx` wildly is not modelled, `BrokenOnlyIfIllegal` is about those
that do not. An exception at the third port of a flood, after the second one got
its copy, is not modelled either.

`NoLostInterrupt` is the soundness of the handshake between `poll_irq` (publish, then
look at `avail->flags`) and a driver that goes to sleep (enable interrupts, then look at
`used->idx`): whatever the interleaving, and whatever is thrown between publishing and
`poll_irq`, one of the two sees the other. It holds for a port that is not detached: no
one calls `poll_irq` of one that is. It presupposes that both sides' stores come before
their loads. **VirtQueueTSO** drops that for the device: `used->idx` becomes visible to the
drivers (`shown`) some time after the device has stored it, unless the device writes an
event fd, and everything the drivers do is what they do in `VirtQueue`, to what they see
(`INSTANCE VirtQueue WITH used_idx <- shown`). There the same formula is violated
(finding 8); a full barrier between virtiodevice-io.cc:306 and :152 is what it takes to be
back in `VirtQueue`. The liveness half of `ImplementsLink`, that what has arrived is
read, depends on the interrupts and so on that barrier.

`PacketLink` is the abstract link: packets arrive in the order they were sent, at
most once, whole or cut short; the buffer of each goes back once; what has arrived
is read. It allows loss, since the switch drops packets whenever the receiver has
no room.

### Sessions: the listener thread and the descriptor table

The thread with `select`, `accept`, the walk along the session list and
`Session::poll`; around it the descriptor table (lowest free number first, numbers
used again), clients that connect, send and hang up at any time, and the main
thread that gets a signal and destroys the listener. A request is its kind. The
walk is modelled with what libstdc++ makes of it: `erase` returns the next
element, `++` skips it, and past `end()` it comes to the first one again. `mapped`
and `disturbed` are history variables; nothing reads them but the property. A
session that ends without an entry in `_dma_regions` aborts the process (the
assertion at switch.cc:62; with `NDEBUG`, `erase(end())`).

Left out: what a request does to the device (VirtioConfig, GuestMemory), a client
that does not read its replies, more than one descriptor in a message.

### IntelTx, IntelRx: the two rings of the upstream port

**IntelTx**: `Receive` is one call of `Intel82599Port::receive` with a context descriptor
or without, and with as many fragments as the packet has; where the tail meets the
head it gives up, and what it wrote stays in the ring unpublished, but for the
context descriptor, which was published already. (The loop holds the port, so a
call is not interrupted by its own `poll`; the NIC may take the context before the
rest is there, which is a state the model has as well when the rest does not fit.)
`Poll` reads the write-back once, `Clean` completes one descriptor at a time. The NIC
sends, and writes its head back behind a descriptor with `TXDESC_LO_DCMD_RS`. `lent` and
`gone` of `Uplink` are computed from the ring: the slots between head and tail that
need completion, and those of them the NIC has passed. `ImplementsUplink` says that
packets come back once each, in order, after they were sent, and in time.

Two facts the model makes visible and no property is about: the ring is taken to be
full one fragment early, so that a packet that would fill it exactly is dropped; and
`assert(_tx0_inflight >= 0)` compares an unsigned number.

**IntelRx**: `Scan` and `Examine` read the two halves of a descriptor, `DD` first, while the
NIC fills buffers in any order of frames: with large receives (RSC) several chains
are interleaved in the ring, linked by `NEXTP`, and end in any order. `FragmentList` is
the list `poll` builds backwards from the last buffer. `MarkDone` gives back one buffer
of the chain per step, to the tail, whichever slot it came from. `PollRx(enable)`
unmasks the interrupt, `WakeUp` is the loop that slept on the event fd.

`Window` is the one assumption about the NIC that is not in its manual: a receive that
never ends while the ring goes round would let `mark_done` overwrite a slot whose
buffer is still out. 1792 buffers in 4096 slots, and at most eight buffers to a
receive, keep the two apart; the bound of the model is the exact one.

Left out: offload flags and lengths (only whether there is a context descriptor), the
registers `reset` programs, `poll_for`, which cannot time out as its counter is never
decremented (intel82599.hh:27-36), the miscellaneous interrupt.

### VirtioConfig: registers under the loop

Each action of the listener is one write of `io_write`, or one half of it where the loop
sees the difference: `QUEUE_PFN` changes the ring pointers first and the port list
afterwards, `RESET` the list first and the registers afterwards. The loop takes its
list (`Quiesce`), polls, receives in two halves (status, then features), interrupts,
and throws the port out. `wrong` remembers whether the guest ever did what the device
has to refuse, `thrown` and `stale` whom a port was detached by. `UsesConfigured` excuses the
two windows the code has (and which finding 3 is about): inside a `QUEUE_PFN` write,
and after a detach the loop has not noticed.

Facts of the code that no property is about: a write of `QUEUE_NOTIFY` before the
queue has an address, or in the window, dereferences a null pointer, as does the loop
in that window; a driver that deletes its queues by writing PFN 0 gives them guest
address 0, which is usually mapped, so that the port stays attached; writing 0 to the
status does not reset the device; an exception thrown just before a reset detaches
the device's next incarnation; the registers are uninitialised until the first
`RESET`, which clients send first.

### GuestMemory: regions and DMA

`RegionRequest` is a REGION request up to the push into `_dma_regions`, `CallCallback` the
call after it; between the two, and between `Iterate` and `SetCallback`, the other
thread may run. Addresses are modulo `AddressSpace`, so that requests and buffers that
wrap occur. `TranslatesRegions` compares `translate_ptr` with membership, byte by byte,
for every address and size: as the code stands a buffer that ends with the last
byte of its region is not translated (`<` in session.hh:59), which costs a guest the
use of that byte and nothing else. `MappedOnce` excuses what was announced in the
middle of a registration (`raced`): such a region may be mapped twice, on which VFIO
fails and the exception ends the process, or never. A session that ends leaves its
memory mapped for the NIC: nothing unmaps it.

### Checksum

The functions of `onescomplement.hh`, one instruction a step, over any sequence of
fragments, each with `checksum_adc` or `checksum_sse`, beginning at odd places too. The
width of a byte and of a `long` and the unrolling of the loop are parameters
(`Values` are the powers of `BYTE`). `fold` sums the words of its argument (`WordSum`)
and `bswapl` moves byte `i` to the mirrored place (`SwapLong`). Data is whatever a load
returns; instead of the data the model keeps the checksum it ought to have (`right`).
`CarriesKept` says that this is what is summed up, but for what `sse_final` drops
(`lost`): the carry when it adds two 32-bit halves, and, for a fragment at an odd place, the
one its `fold` drops (`FoldLoses`). The first is lost, for instance, by data whose 32-bit
words add up to 0x1FFFFFFFF, whose sum is 0 with `checksum_sse` and 1 with
`checksum_adc` (onescomplement.hh:167). `ChecksumRight` says that folding makes the
checksum of a sum of which nothing was lost, which it does not (finding 7).

### MacTable

`Hashtable` with the forwarding decision of `work_quantum`, for every hash function. A
packet that would go back to its sender is dropped before anything is learned
from it, so that a station that moves next to its peer and talks only to it stays
unknown there: `learned` follows the code in this.

## 3. Runs

| run | question | instance and why it is enough | result |
|---|---|---|---|
| `switch_loop` | wakeups, shutdown, liveness of the loop; does it implement the service? | two ports, one with hairpin traffic; batch of one, so that a batch ends with packets left; two packets outstanding at the other port; idle polling on; one upset of any kind at any time (see Bounds) | holds |
| `switch_loop_hairpin` | the same wakeup property for hairpin packets | as above, two packets at the hairpin port | violated: finding 1 |
| `switch_loop_tso` | does `poll` notify before it polls? | one port, store buffer of two | violated: finding 2 |
| `ports_rcu_disable` | does `disable` wait for the loop? | one virtio port, the upstream port, three calls of `modify_ports` | violated: finding 3 |
| `ports_rcu_lost_update` | is every change kept? | as above | violated: finding 4 |
| `ports_rcu_cache` | does the cache forget? | listener alone changes the list | violated: finding 5 |
| `virt_queue` | conservation, headers, the interrupt handshake, who is thrown out; does the pair of queues implement the link? | rings of two, indices modulo four; packets of two chains and of one, five RX chains in all, so that RX indices wrap, receive runs out of chains in the middle of a packet, and rings are full and empty | holds |
| `virt_queue_tso` | does `poll_irq` look in time? | two packets of one chain | violated: finding 8 |
| `sessions` | descriptors, requests | two clients, three requests, four numbers: two sessions with a file between them, so that numbers are used again and run out | holds |
| `sessions_block` | does `Session::poll` block? | as above | violated: finding 6 |
| `parts` | the seven small components, one at a time | *IntelTx*: five slots, two packets of up to two fragments and a context: the ring wraps and fills at every place of a packet. *IntelRx*: seven slots, four buffers, chains of up to three: two chains interleave and return while the ring wraps. *VirtioConfig*: all registers, no bound. *GuestMemory*: six addresses, three requests: two neighbours and one between, beside or around them, and a second session. *Checksum*: bytes of two values, two words to a long (for which `fold` loses nothing; for longer ones there is the proof, and `checksum_fold`), three loads to a round, no bound on fragments. *MacTable*: three stations, one of them with the address the empty table has, three ports, two buckets, so that three stations collide in every way. *PortsRcu*: one virtio port, the upstream port, two calls of `modify_ports`, after each other or at once, with their callbacks in any order (three calls, 446,000 states, hold as well; the theorem is for any number) | holds |
| `checksum_fold` | is the folded sum the checksum? | four words to a long as in the code | violated: finding 7 |

Deadlock is not checked: each of the systems may stop (after shutdown, when the
clients and guests have nothing more to do, or at a bound). What must not stop is
stated as liveness.

**Bounds.** `MaxPending` (packets outstanding per guest), `MaxUpsets` (broken ports, queues
taken away, statuses cleared, resets and shutdowns, together), `MaxUpdates` (calls of
`modify_ports`), `StoreBufferSize`, `MaxRefills` (RX chains added), `Len(Size)` (packets
sent), `MaxRequests` (requests of all clients), `MaxMappings` (REGION requests of all
sessions), `MaxFragments`, `MaxChain` (a register of the NIC), and the sizes of the sets. Each
run's guards use them only where a guest, a client or a caller could go on.

One upset is enough for `switch_loop` to have each kind of change under the loop: a
detach and a later attach while it is in its round, a fault, a port thrown out, and a
listener that copies the list before and publishes it after the loop's own detach, which is
the lost update of finding 4 (ports are attached without an upset). What needs two
of them, such as a broken port that is listed again, reset and set up once more, is covered
by the theorems, which are for every `MaxUpsets`; that bound stands in the liveness
all the same: it is about systems that are upset finitely often, as a driver that resets
its device again and again has no claim to be served.

**Fairness.** `SwitchLoop`: the loop runs when it is not blocked (its thread does
nothing else); the timers elapse, since the cycle counter they compare with keeps
growing: no idle period lasts for ever (`[]<>(state # "IDLE")`: with `PollUs` at zero there
is none), and the RCU timer is not missed each time it is tested (strong fairness, as
the loop comes by and goes on); a driver that published goes on to look at the flag
and to kick; the listener finishes the message it works on and executes forwarded
kicks; `shutdown` returns once called. Nobody is obliged to publish, attach or
shut down. `VirtQueue`: the switch thread runs (it is awake; `SwitchLoop` is about
when it may sleep), the interrupt handlers of the two drivers run. `Sessions`: the
listener thread runs. `IntelTx`: the NIC sends, `poll` goes on to its end, and begins
again and again although calls of `receive` come in between (strong fairness:
`work_quantum` polls every port in every quantum). `IntelRx`: the loop runs unless it
sleeps, and then only the event fd wakes it; a pending interrupt is delivered and a
receive that began ends; nothing obliges the NIC to receive, nor the loop to sleep.
`PortsRcu` and the other parts have safety properties only and assume none.

**Findings** (details, with the lines quoted, in `PROJECT.json`):

1. Packets to the sender's own port are consumed but not counted as work, and the
   loop can block with packets pending (switch.cc:98).
2. `VirtioDevice::poll` has no full barrier between enabling notifications and
   looking for packets: on x86 a kick can be lost (virtiodevice-io.cc:326).
3. The thread of the main loop is not registered with liburcu: `Port::disable`
   does not wait for it, and a port can be destroyed under `poll` (port.cc:39).
4. `modify_ports` copies the list before it takes the mutex: a concurrent change
   can be lost (switch.cc:257).
5. The loop reads list and cache one after the other: the new cache can learn
   the port that was just detached (switch.cc:271).
6. The walk along the sessions runs past `end()` after the last one is deleted, and
   polls sessions again that have nothing to say (listener.cc:307).
7. `fold` loses the carry of its second addition: words that add up to 0x1FFFF fold to
   0 (onescomplement.hh:60).
8. There is no full barrier between publishing the used index and looking whether the
   driver wants an interrupt: on x86 an interrupt can be lost (virtiodevice-io.cc:152).

## 4. Proofs

Everything in this section is checked by TLAPS for all values of the constants that
satisfy the `ASSUME`s of the module: any ports, batch size and polling time; any set of
registered threads; any ring size, index width and packets; any guests, descriptor
table and address space; any length of the NIC's rings; any width of a byte and of a
`long`. Every theorem is about a
specification without fairness (`SafeSpec`, `Spec`, `ConfigSpec`, `TxSpec`, ...): what a
system can do, not what it must. The assumptions are what the code guarantees of
its constants: rings are not empty and their indices are a multiple of twice their size
(`RingAssumption`), there are fewer receive buffers than slots (`RxAssumption`), the NULL
port is not a port, a `long` has an even number of 16-bit words (`WidthAssumption`). Each inductive invariant was checked by TLC on small instances
before it was proved.

**SwitchLoopProofs** (about `SafeSpec`, which has no fairness). `Invariance` proves the
inductive invariant `IInv`. The properties `NoLostWakeup` and `AsleepIsWakeable` speak of
the moment the loop sleeps and are not inductive; what carries them there is
`NotifyInv` and `PendingInv`: a port with notifications off, or with packets, *will be
polled again* before the loop can sleep (`WillPoll`: it is still to be visited in
a round that enables notifications, or such a round is still to come), or the event
fd is signalled, or somebody who will signal it is on the way. `StopInv` is the same
for shutdown, and `DriverInv` says that a ring has packets and a flag only while it is
there, and that a driver waits while the listener reconfigures its device. No invariant
relates the loop's list to the published one, since in this code nothing does. From
`IInv` follow `WakeupsKept`, `SleepIsWakeable`, `ShutdownWakes`, `TypeCorrect`, and `Refinement`:
every step of the loop, the listener and the drivers is a step of `PacketService` or a
stutter, through detaches under the loop's feet, lost updates and faults, for any
number of upsets. (One lemma per kind of step of the service, `NoticeStep`, `BlameStep`,
`ExpelStep`, `RelistStep`, ... .)

**PortsRcuProofs.** `ReclaimedOnce` and `NothingLeaked` are not inductive either: they do
not see what a call of `modify_ports` has in its hands. The invariant of `Ownership`
says where every version is: published, owned by exactly one call, in exactly
one entry of `_pending_free`, or freed (`PublishedInv`, `PendingInv`, `OwnedInv`, `ApartInv`),
and that there is no other place (`ListCover`, `TableCover`); `CallbackInv` says that while
something is pending a callback is queued or about to be. `Reclamation` and `NoLeak`
follow. `TypeCorrect` is proved first, on its own.

**VirtQueueProofs.** `ChainsConserved` speaks of the chains of a queue as sequences; its
invariant says where each single chain is (`AddedAt`, `ReturnedAt`, in hand, owned by
the guest), that no chain is in two places (`ApartInv`), and that with a port that
behaves each is in one (`CoverInv`). That the numbers add up is then the injection
of heads into places. The ring indices wrap, so the first part of the module is
about distances modulo `IndexModulus` and slots modulo the ring size. `PlaceInv` says
what is in hand at each step of `work_quantum`. `PacketInv` carries `PacketsComplete`:
every packet in the used ring begins with a header whose count ends where the
next one begins, and behind it `receive` has filled the beginning of the packet in
hand; the invariant has to look at all packets in the ring, because `ReadPacket`
makes the next one the first. `InterruptInv` carries `NoLostInterrupt`: a driver that is
not awake has interrupts on. (`InterruptsKept` is a theorem about sequentially consistent
memory; it says that the handshake needs nothing but the barrier the code lacks.) `BrokenOnlyIfIllegal` (theorem `NoFalseAccusation`) needs the
conservation of chains: a guest that behaves can have added no more than the
ring holds, so the difference of wrapped indices that the device computes is never
too large.

The second half of the module proves the safety half of `ImplementsLink` (`LinkSteps`:
every step of the rings is a step of `PacketLink` or a stutter). It needs two facts
beyond `IInv`: the sender's packets lie in its ring in the order it numbered them,
the one in hand first (`OrderInv`), and `receive` fills no more chains than the packet
has parts (`CutInv`). With them the sorted set `Outstanding` is an interval of
numbers, from the last one given back to the last one sent (`OutboxIs`), and what
`Arrived` selects from the used ring is a function of the entries in it alone
(`InboxIs`). So publishing a packet appends to the inbox (`EntriesAppend`), reading takes
its head (`EntriesTail`), and all other steps leave it as it is.

**Enumeration** has the lemmas on which it rests: the elements of a finite set of
numbers by rank (`Items`), what adding a last one or removing the first does to the
enumeration (`ItemsAppend`, `ItemsShifted`), and that an interval is enumerated by
itself (`ItemsOfRun`).

**IntelTxProofs.** `IInv` is `TxInOrder` with two facts behind it: the value of the
write-back that `poll` has read is a lower bound of what the NIC has done since
(`WritebackRead`), and every descriptor between head and tail belongs to the packet
lent in its turn (`DescsKept`). `ReadsLent` follows from the latter; `UplinkSteps` shows
each step of the ring to be a step of `Uplink` or a stutter under the mapping
of `Wire`, which is the safety half of `ImplementsUplink`.

**IntelRxProofs.** The hard one of the two rings, since buffers come back out of
order. `RingInv` cuts the ring in two: from the NIC's head to the tail there is
nothing but fresh buffers, and the slots the NIC has taken follow within the
window; all others are zero. Counting buffers then shows that the slot behind the tail
is free, or the very slot `mark_done` empties, and `Conserved` follows. `LinksInv` is
about chains: each slot taken is in exactly one (of an unfinished frame, a finished one,
or the packet that is with the switch or half recycled), forwards linked by
the NIC, and backwards by `poll` as far as it has examined them. `FragmentsAre` shows
that the list `poll` fills backwards from those links is the chain: `FragmentList`
is a recursive function, and its value is unique by a least counterexample. `Whole`
is `FramesWhole`. The one thing asked of the NIC is the window of `NicTake`.

**SessionsProofs.** `SessionsApart` and `NothingForgotten` are nearly inductive; missing are
what the thread relies on at each step (`PlaceInv`) and that a client has one
connection at most (`ClientInv`). The argument for `Apart` is that a number is closed
only with the session in whose list it is, and that the kernel gives out only numbers that
are closed; `disturbed` is exactly where a REGION request breaks it.

**PartsProofs** holds the proofs about four small modules. For `GuestMemory`, `Disjoint`: the insertion of a region at the first place behind
its predecessors keeps the list sorted (`ListInv`). `Translates` is about the search in
a list of any length. `Mapped` needs to know, for every moment of the registration of the
callback and of an announcement, which mappings the NIC was told of (`AnnouncedInv`,
`MappedInv`). For `VirtioConfig`:
`AttachInv` relates the list to the queues and the status in the middle of a register
write, `LoopInv` says what of it the loop still has, `GuestInv` what the guest owes the
device. For `MacTable`, where `DeliversToLatest` is an action property: with a single
way a bucket is what was learned last in it (`TableInv`), for every hash function. The
theorem says `WAYS = 1`, which is what the code instantiates; with two ways the
property is false.

For `Checksum` numbers are compared by `Same`: they have the same checksum, which is to
say that they differ by a multiple of `WORD - 1` and neither or both are zero (`SameIf`,
`SameIs`). `Same` is kept by sums and products (`SameSum`, `SameProduct`), `WORD` counts as
one, and so even powers of `BYTE` count as one and odd ones as `BYTE` (`PowersCount`, by
a least counterexample over a set, `SetInduction`; `PowersAre` and `SumUnfolds` unfold the
recursive functions). Hence each function of the code is worth what it should be: `add`
and the carry flag (`AddIs`, `CarryIs`), the cut of `sse_final` in two (`CutIs`), the sum of
the words in `fold`, which keeps what it does not lose (`FoldIs`), and `bswapl`, which is worth
a factor of `BYTE` because a `long` has an even number of bytes (`SwapLongIs`). The
inductive invariant `SumInv` says that the caller's sum, what is lost, and the
accumulator with its carry flag, times `BYTE` while a fragment at an odd place is
summed up unswapped (`Worth`), have the checksum of the data; and that the flag is set
only when the accumulator is below its largest value, which is why the last `adc $0`
cannot carry again. `NoOtherCarryLost` is that between two calls.

**Only model-checked.**

- Liveness: `RequestsTaken`, `BuffersReturn`, and the liveness halves of `ImplementsService`,
  `ImplementsLink` and `ImplementsUplink`. Fairness and `ENABLED` are out of the prover's reach.
- `SwitchLoopTSO`, `VirtQueueTSO`, and the properties the findings refute.

## 5. Not modelled, and the plan

Of every safety property that holds in a run there is a theorem, the three refinements
included.

Worth a composition, and not there yet: the teardown of a session, `Sessions` with
`PortsRcu` and `IntelTx` (descriptors are closed before the port is detached,
listener.cc:34, and the NIC may still hold packets of the port, intel82599.cc:613). Both
presuppose finding 3, which would be the counterexample to nearly everything one
could say there.

Left out for good: VFIO access (`switch/vfio.cc`: ioctls and mappings without a
protocol of their own), the register programming of `Intel82599::reset`, tracing,
logging, option parsing, the calibration of the timers, `io_read`, `Packet::copy_from`
(nobody calls it), and the arithmetic of addresses inside a packet. They hold no
state that another component relies on. The walk along a descriptor chain is a good
or a bad head in `VirtQueue`; what it does at `MAX_FRAGMENTS` (virtiodevice-io.cc:268)
is listed as a hazard without a property.

Some hazards are failures the code simply has, with no line of the repository that
says otherwise: the null rings in a `QUEUE_PFN` write, the descriptor of a REGION
request that is closed twice, the one of a short message that is never closed, the region
that is announced in the middle of the registration, the port that is attached
with packets and not looked at. The models have them, the properties excuse them where
they would fail, and `PROJECT.json` lists them without a property rather than under one
that excuses them.

## 6. Running it

    tlc -workers 2 -config SwitchLoop.cfg MCSwitchLoop      # likewise the others
    tlapm SwitchLoopProofs.tla                              # likewise the other *Proofs

`switch_loop` has a million states and takes two minutes and a half, `sessions` and `parts`
take a little more than two minutes, `virt_queue` two; the others take less.
