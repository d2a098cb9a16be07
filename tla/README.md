# Formal models of the Flexus CMP memory hierarchy

Flexus is a cycle-level simulator of chip multiprocessors. The logic that is
hard to get right, and hard to test, is its timing memory hierarchy: private L1
caches, a shared L2 bank with a directory, and a memory controller exchange
messages over a network that reorders them, through controllers that hold
requests back, wake them up, and reserve finite buffers. This project models
that core, for the simulator `simulators/CMP.L2SharedNUCA.OoO`, in TLA+: the
coherence protocol, the L2 controller, the interconnect, the fetch unit, and the memory side of
the out-of-order core with the value tracker that keeps Simics' memory right;
and the functional hierarchy of the trace simulators (`CMP.L2Shared.Trace`).

Paths below are relative to the repository; `src/` in PROJECT.json is its root.

## 1. Inventory

| Component | State | Operations | Talks to |
|---|---|---|---|
| `components/Cache` (`InclusiveMESI`, `CacheController`): an L1 data cache | block array (MESI), evict buffer, snoop buffer, MAF, controller queues and pipelines | `handleRequestMessage`, `handleBackMessage` (requests and replies), `handleSnoopMessage`/`finalizeSnoop`, `handleEvict`, `handleIdleWork`, `handleWakeSnoop` | core (front side), directory (back side) |
| `components/CMPCache` policy (`NonInclusiveMESIPolicy`): L2 bank and directory | L2 array, sharers of each block, cache evict buffer, MAF | `doRequest`, `doEvict`, `handleReply`, `handleCacheEvict`, `wakeMAFs`, `wakeAfterEvict` | all L1s, memory |
| `components/CMPCache` controller (`CMPCacheController`, `AbstractCacheController`, `ProcessEntry`) | processes in the pipelines, reservations in three output queues, in the MAF, in the evict buffer | `scheduleNewProcesses`, `run*Process`, `finalizeProcess`, `drive` | the policy, the NIC |
| `components/MemoryLoopback` | a queue of delayed replies | `push(LoopbackIn)` | L2 |
| `components/MultiNic`, `components/NetShim` | queues of the interfaces, buffers, timers and counters of channels, ports and switches, three virtual channels | `push`, `msgFromNode`/`msgToNode`, `drive` of nodes, switches, channels, ports | everybody |
| `components/uArch/CoreModel`: the memory unit of the out-of-order core | memory queue, MSHRs, port requests, store prefetches, write permissions | dispatch, address and value resolution, issue, replies, snoops, retirement, squash | L1, value tracker, the instructions' actions in `v9Decoder` |
| `components/uArch/ValueTracker` | for each double word with outstanding stores the global value and one per CPU; which of them Simics' memory shows | `store`, `commitStore`, `load`, `access`, `invalidate` | core, Simics, devices |
| `components/FastCache`, `FastCMPCache`, `FastMemoryLoopback` | LRU sets of MESI states, sharers of each block | `push(RequestIn)`, `processRequest`, `evict`, `push(SnoopIn)`, `push(DMA)` | trace feeder, each other |
| `components/uFetch`: the fetch unit and its instruction cache | LRU sets of lines, outstanding miss and prefetch, queue of misses, set of unacknowledged evictions | `doFetch`, `prefetchNext`, `push(SquashIn)`, `sendMisses`, `fetchReply`, `issueEvict` | branch predictor, core, directory |
| rest of the front end, DRAM adapter, trace feeders, `core/`, tools | | | |

How they interact: an L1 miss becomes a request on the Request channel; the
directory answers itself, forwards the request to a sharer, invalidates the
sharers, or asks memory; replies and acks travel on the Reply channel, forwards,
invalidates and evict acks on the Snoop channel; the requester sends a final ack
to the directory, which closes the transaction and wakes what had stalled.

What is hard: evictions that cross forwards and invalidates; acks that overtake
the notification with their number; snoops that wait for the core while the
block they are about leaves; wake-ups that must not be lost; resources reserved
cycles before they are used, by processes that finish in another order. The full
list, at its lines, is `hazards` in PROJECT.json.

What correctness means, per component:

- L1s, directory and memory together: one writer or many readers; the directory
  knows every copy; no policy assertion fails; every miss and every eviction
  ends; nothing waits for an event that will not come.
- L2 controller: no queue, MAF or evict buffer overflows, whatever the policy
  decides; every reservation is given back; processes do not share MAF entries.
- Network: every message delivered once, no deadlock between virtual channels
  with finite buffers, no message overlooked by a counter.
- Core: a load gets the youngest older store or memory, TSO is kept when other
  cores write, no operation is forgotten, permissions are real.
- Value tracker: a CPU sees its own stores at once and the others' when they
  have drained, through one memory image.
- Functional caches: no combination of states the protocol table excludes, one
  writer, an exact directory, no dirty block lost, hits and misses told apart.
- Fetch unit: the fetch the pipeline waits for is not lost, whatever was squashed
  and asked for twice; the directory's idea of its copies is one it can answer for.

## 2. Modules

| Module | Models |
|---|---|
| `CoherenceNet` | messages (`MemoryMessage`, `DestinationMessage`) and the virtual channels |
| `InclusiveMESI` | the L1 policy for one block, one instance per core |
| `NonInclusiveMESI` | the L2 policy and the infinite directory for one block |
| `MemoryLoopback` | memory: one reply per request, in order |
| `CmpCoherence` | the composition, its fairness and the properties |
| `MCCmpCoherence` | symmetry for TLC |
| `CoherenceTokens` | abstract: the protocol as an exchange of tokens, and its invariant |
| `CoherenceTokensProofs` | that `CoherenceTokens` keeps its invariant |
| `CmpCoherenceL1Steps` | the mapping from `CmpCoherence` to `CoherenceTokens` and the rest of the inductive invariant, what the operations on queues, buffers and MAFs do to both, that the steps of an L1 keep the invariant, and what they are in `BlockRights` |
| `CmpCoherenceProofs` | that the steps of the L2 and of memory do, and the theorems about `CmpCoherence` |
| `CMPCacheController` | the process engine of an L2 bank and its reservations |
| `MCCMPCacheController` | symmetry for TLC |
| `CMPCacheControllerProofs` | the theorems about `CMPCacheController` |
| `BlockRights` | abstract: what the cores are promised of one block |
| `CoreMemory`, `MCCoreMemory` | the memory unit of a core, and the programs it runs |
| `CoreMemoryProofs` | the theorems about `CoreMemory` |
| `ValueTracker`, `MCValueTracker` | the value tracker and Simics' memory image |
| `ValueTrackerProofs` | the theorems about `ValueTracker` |
| `MemoryNetwork`, `MCMemoryNetwork` | network interfaces, switches, channels, memory queues; two topologies |
| `FunctionalCaches`, `MCFunctionalCaches` | the caches of the trace simulators |
| `FunctionalCachesProofs` | the theorems about `FunctionalCaches` |
| `UFetch`, `MCUFetch` | the instruction fetch unit, and the directory as it sees it |
| `UFetchProofs` | the theorems about `UFetch` |

The modules meet at the interfaces of the components. `CoreMemory` is what
`InclusiveMESI` abstracts to accesses and snoop answers at any time, and its L1
(`l1`, `Answer`, `Snoop`) is what `SingleWriter` allows. `CoherenceNet` assumes of
its channels delivery, which `MemoryNetwork` shows, and FIFO for each flow (one
virtual channel between two nodes). The second is an assumption: a switch whose
bandwidth is used up can break it (section 3.3).

### 2.1 The coherence model

*State.* Per core: `array` (MESI state), `evict` (the evict buffer entry: state,
pending, evictable, snoopRequired), `snoops` (the snoop buffer: active, waiting
and waking snoops), `maf` (the miss). In the L2: `l2`, `sharers`, `ceb` (cache
evict buffer), `dmaf` (the MAF, a sequence in order of age). `mem` is memory.
`request[c]` and `snoop[c]` are FIFO (one virtual channel between two nodes);
`reply` is a bag, because replies come from different nodes; `toMem` is FIFO.

*Steps.* One action is one handler, with the controller's part of it
(`finalizeProcess`: sends, MAF removal, wake-ups). The cycles between the
handler and its last message are not told apart from network delay. A failed
`DBG_Assert` sets `failed` and stops the system.

*Ghosts.* Flexus caches hold no data, only states. `data`, `ver` and `latest`
are version numbers that say which store a copy would contain. Only
`LoadsCurrent` looks at them.

*Abstractions.*

- One block. Blocks interact only through replacement, which is an action of the
  environment (`L1Replacement`, `L2Replacement`), and through finite resources,
  which `CMPCacheController` models.
- One outstanding request per L1 and block; further ones wait for it
  (`kWaitAddress`) and behave as later requests.
- `pickSharer` is any sharer. The core answers a snoop at any time.
- Data caches only: no fetches, prefetches, non-allocating stores. The directory
  is infinite, as configured, so there are no BackInvalidates; `EvictClean` is
  off in the L2, as configured.
- Channels are unbounded, the MAF and the evict buffers always have a place for
  this block. The branch of `doEvict` that forwards an `EvictDirty` to memory
  because the evict buffer is full is not here: it is never taken, because the
  process holds a place (`HoldsEB` in `Ownership`, proved as `EntriesOwned`).
- The MAF entry that a woken evict leaves behind (section 3.3) is dropped.

*Refinement.* `BlockRights` says what the protocol is for, without caches or
messages: a core asks, is served in the end with rights that suffice, loses them
at any time, and rights are compatible. `CmpCoherence` implements it
(`ImplementsBlockRights`, with fairness) under the mapping `want` = the
operation in the MAF, `rights` = the copy the core can use without asking
(`UsableState`: nothing while a request is under way or an eviction announced).

Between the two stands `CoherenceTokens`, for the proofs: who has a copy, a miss,
a posted or a served request, and which messages of each transaction are under
way, but not in which channel, buffer or MAF entry they are. Each handler of
`CmpCoherence` is one of its steps or moves no token (`ProtocolTokens`,
section 5.5).

*Scheduling in an L1.* `scheduleNewProcesses` (`CacheController.cpp:703-890`)
starts woken MAF entries first (715-749), then woken snoops (781-796), then
requests of the directory (864-880). A woken snoop needs a place in
`BackSideOut_Reply` and in `FrontSideOut`; a woken MAF entry and a core request do
not, so while the reply queue is full they overtake it, and in the model they may
always do so. A request of the directory needs the same two places as a woken
snoop and is looked at after it: `BackRequest` therefore waits for
`snoops[c].waking = <<>>`. `NoOrphan` depends on this: otherwise an `EvictAck` could
take away the block a woken forward was to ask the core about, and the forward
would be answered at once and wake nobody.

*Simplifications in an L1.* The code takes a woken snoop out of `theWakeList` when
it schedules it, the model when it runs it. `IdleWork` is `getIdleWorkMessage` and
`handleIdleWork` in one step; the path for a block that has come back between the
two (`InclusiveMESI.cpp:2134-2143`) is left out. `FinalizeEvictSnoop` finds no
evict buffer entry when a request has taken the block back; the code then calls
`setEvictable` through `end()` (1888), which writes to the header of the container
and to no entry: the model leaves the buffer alone.

*Options.* `NAckAlways` is `AlwaysNAck` of the L1 configuration.

`EarlyVictim` says whether replacement may take a block although a transaction
that has just used it is not over. Replacement is LRU, so such a block is the
most recently used one of its set: it goes only if all other ways are refilled
during that transaction. With `EarlyVictim = FALSE`

- an L1 does not replace a block it brought back from its evict buffer for a
  request that still waits for a snoop (`kWaitSnoop`);
- the L2 does not replace a block with a request active in the MAF
  (`eWaitAck`), nor a dirty one while an L1's `EvictDirty` of it is on its way.

The replacement code (`InclusiveMESI.cpp:616-649`,
`NonInclusiveMESIPolicy.cpp:1743-1762`) has no such guard: the setting is a
hypothesis about the load of the set, not a fact about the code. Nothing else is
excluded. The run `two_cores` and all theorems of section 5.5 are conditional on
it. Without it the code does fail: the run `write_back_ack`, with
`EarlyVictim = TRUE`, shows the failure of the assertion at
`NonInclusiveMESIPolicy.cpp:1508`, and `NoOrphan` does not hold either (section
3.3).

### 2.2 The controller model

*State.* `proc` is what is in the pipelines (`Procs` bounds how many), `held`
the places each process has reserved in each output queue, `usage` and `reserve`
the counters of the queues; `maf`, `mafHeld`, `mafReserve` for the MAF;
`ebUsed`, `ebPending`, `ebReserve`, `ebProc`, `ebMaf` for the cache evict buffer
and the reservations that a process or a MAF entry keeps; `idleWork`.

*Steps.* `Schedule*` are the cases of `scheduleNewProcesses` with their tests
for room; the next group is `run*Process` with every action the policy can set
for the message at hand, including the reservations each one returns;
`FinalizeProcess` is `finalizeProcess`; `Drain` sends from an output queue.

*Abstractions.* No addresses: an action on one entry may wake any set of waiting
entries, which allows more than the code does. The policy is a nondeterministic
choice of actions, so every result holds for any decision it makes. A block has
one write-back, so the memory's `EvictAck` does not touch an entry a process is
working on. The order of processes in a pipeline is dropped; the tag and data
pipelines are one stage. A multicast invalidate is one `SnoopOut` transport.
`SnoopIn` receives nothing in this simulator; the directory evict buffer of an
infinite directory has no capacity; `evictionResourcePressure` of `StdArray` is
false.

### 2.3 The memory unit of the core (`CoreMemory`)

*State.* `core` is what `CoreImpl` keeps of memory operations: `queue`
(`theMemQueue`, load/store queue and store buffer), `mshrs`, `requests` (of the
memory port arbiter), `prefetches` and `outstanding` (store prefetches wanted
and under way), `permission` (`theSBLines_Permission`). `sent`, `replies` and
`snoops` connect it with the L1; `l1` and `memory` stand for the L1 and the
other cores; `result` keeps what retired.

*Steps.* A call of the core is an action with everything it triggers: a store
that gets its value (`SetValue`) updates the loads that depend on it, breaks
their links to MSHRs, requests ports again, and so on, through operators with
the names of the methods that take and return `core`. An instruction's address
or value can depend on an earlier load; when that load must be repeated the
dependants are taken back (`Unresolve`), as the semantic actions of `v9Decoder`
do; the code does it in the same call, the model in steps of its own that come
before any other (`Settled`). A store in a delay slot can be annulled (`Annul`),
and reinstated when its branch is resolved the other way (`Reinstate`:
`updateStoreValue` clears `theAnnulled` and searches the loads again only if the
value changed). `Snoop` is the L1 as an environment: it may take any block away
at any time. `doSquash` removes the youngest instructions, which are dispatched again.

*Abstractions.* TSO without speculation past memory order, as wired; cacheable
accesses within one double word; no checkpoints, no side-effect accesses; a
byte's value is the store that wrote it. The program is one of `MCPrograms`:
eleven of at most four instructions over three bytes in two blocks, one for each
mechanism (forwarding, partial overlap, address and value dependence, a store in
a delay slot that is annulled and reinstated, MEMBAR, RMW, CAS, a full store buffer).

### 2.4 The value tracker (`ValueTracker`)

*State.* `track` (`theTracker`), `simics` (the image), `buffer` (each core's
committed stores, in order), `memory` (ghost: what memory holds), `mixed`
(ghost: double words that an atomic or a device wrote in the circumstances of
finding `atomic_kept`). Every call of the tracker is an action, named for the
place that makes it. A double word is written in two parts; values are the
numbers of the writes. Several virtual machines and the per-ASI cases are left
out.

### 2.5 The interconnect (`MemoryNetwork`)

The simulator is synchronous, so a cycle is one action: the interfaces, the
network (nodes, then channels, input ports and switches, in the order of
`NetContainer::drive`) and the memory controllers are driven by operators that
map one state of the network to the next. Between cycles the caches push
messages (`Push`). Open are what is sent, which interface can pass a message on,
and when an access of memory ends. Latencies, channel occupancy, virtual channel
numbers, priorities, credits (`hasBufferSpace`) and the counters that let a
component skip its work are those of the code. Left out: the parser of topology
files (its `Top` and `Route` lines are the constants `Links` and `Routes`),
fast mode, statistics.

### 2.6 The functional caches (`FunctionalCaches`)

A reference of the trace feeder runs through all caches in one call, so one
action is one reference with the snoops it sends, the replacement in the L2, and
the eviction the fill of the L1 causes, which reaches the L2 a second time. A
cache is one set in LRU order. The table of `SingleCMPProtocol` is an operator
per request (`ReadAction` and so on) of the L2 state and the number of sharers.
`cfg` is chosen in `Init`: `clean` is `CleanEvictions` of the L1s, `multicast`
is `AlwaysMulticast`. `counted` is the counter the L2 increments, `owed` a
ghost: blocks whose last store memory does not have. `SnoopLRU`, a parameter
that lets a snoop touch the LRU order, is fixed to its default, off; `DowngradeLRU` is no parameter, because the two branches of
`InclusiveMESI.hpp:130-137` are the same.

### 2.7 The fetch unit (`UFetch`)

*State.* `theI` is one set of the instruction cache in LRU order; `miss`,
`prefetch`, `lastPrefetch`, `missQueue`, `evictSet` are the members with those
names. Of the directory, per line: `transaction` (the active MAF entry),
`request` (the Request channel and the entries stalled in the MAF, in order),
`snoop` (the Snoop channel) and `sharer` (whether it records this cache).

*Steps.* `FetchUntranslated`, `FetchHit` and `FetchMiss` are `doFetch` for the
first address of `theFAQ`, with what `prefetchNext` does; `SendMiss` is one turn
of `sendMisses`; `Fill`, `Invalidate`, `ReadFwd`, `FetchFwd` and `EvictAck` are
the cases of `fetchReply`; `Dir*` are the handlers of `NonInclusiveMESIPolicy`
seen from this cache: other cores read a line (any number of times, overlapping
with fetches) or write it. The `Ack` of a fetch and the answers to snoops travel
without a state of their own. A failed assertion sets `failed` and stops the
system.

*Abstractions.* `theFAQ` is its first line, which the branch predictor and a
squash may set to any; one thread; prefetching on; `CleanEvict` on and
`EvictOnSnoop` off (evictions on the Request channel), as in the shipped
configurations: the other branch of `issueEvict` (`uFetchImpl.cpp:767-771`) is
left out. A virtual line and the
physical line it translates to are one; an untranslated address is `NoLine`.
There is no BackInvalidate (infinite directory). `MaxQueue` bounds
`theMissQueue` for misses, `ChannelSize` the Request channel.

## 3. Runs

### 3.1 What holds

| Run | Bounds | Checks | Distinct states |
|---|---|---|---|
| `two_cores` | 2 cores, fair | types, assertions, single writer, directory coverage, no orphan stall, snoop or request (`NoOrphanStall`, `NoOrphan`), no dropped write snoop; refinement of `BlockRights`; every eviction ends | 41 163 |
| `resources` | 2 processes, 3 entries, MAF 2, queues 4, evict buffer 2 | reservation accounting and ownership | 787 937 |
| `value_tracker` | 2 CPUs, 1 double word in 2 parts, 5 writes, 3 outstanding stores, devices | tracked while outstanding, own stores seen, memory seen | 109 405 |
| `core_memory` | 11 programs, store buffer 2, 2 disturbances | MSHR links and nothing forgotten (`WaitersKnown`), permissions, forwarding, order of loads, every program finishes | 566 650 |
| `network` | 3 nodes, 2 switches, buffers of one entry, one stubborn receiver | types, counters, delivery | 93 942 |
| `functional` | 2 cores (4 L1s), 2 blocks, direct-mapped sets, all settings of `cfg` | assertions and poison, single writer and directory (`Coherent`), dirty data, hits | 128 604 |
| `fetch` | 2 lines for 1 way, prefetcher, miss queue 2, channel 2 | types, awaited fetches not lost, evictions tracked and forwards answered | 939 382 |

Why the bounds are enough to be interesting.

- *Coherence.* Two cores have every two-party race (forward against eviction,
  upgrade against upgrade, eviction against its own re-request). What needs
  three (several invalidate acks that overtake the notification, a forward plus
  invalidates, a third request behind a stalled one) is left to the theorems of
  section 5.5, which hold for any number of cores and both settings of
  `NAckAlways`. `Vers`
  is the number of versions the ghost tells apart: 1 switches it off (no property
  of the passing runs reads it and it guards no action), 2, in `loads_current`,
  tells a copy from the one before the last store.
- *Resources.* `QueueSize = 4` lets two requests, which reserve two places in
  `SnoopOut` each, be in the pipeline at once and makes the test for room fail
  for a third. `Entries` has one identifier more than `MafSize`, so that an
  overflow would be representable. `MCResources.cfg` does not check deadlock: the
  MAF really can fill up with leaked entries (section 3.3) and then the bank
  stops.
- *Core.* Two disturbances are an invalidation and the write that follows it, or
  a squash and an invalidation; a store buffer of two entries is full in one of
  the programs. `MCCoreMemory.cfg` does not check deadlock because a program
  ends; that it does not end too early is `ProgramFinishes`.
- *Value tracker.* Five writes let both CPUs have two stores outstanding and an
  atomic or a device come in between. The run ends when the writes are used up,
  so deadlock is not checked.
- *Network.* Buffers of one entry fill at once, so every test for room is
  exercised; four requests to a directory that never takes one fill the whole
  way there, while its own requests to memory share the same channels.
- *Functional caches.* With fewer ways than blocks every fill replaces, in the
  L1 and in the L2, which makes an eviction inside a fill and a block that is in
  an L1 but not in the L2 common. Two cores give four caches, so a snoop list
  can have three entries and stop early.
- *Fetch unit.* The second line follows the first in the program, so the
  prefetcher asks for it, and the two compete for the only way: every fill
  evicts. Two places in `theMissQueue` make its limit for prefetches bite, and
  let a redundant fetch wait behind the first one. Deadlock is not checked
  because a failed assertion stops the modelled system.

### 3.2 Where the code and its own words disagree

`findings` in PROJECT.json quotes the lines.

| Run | What it shows |
|---|---|
| `loads_current` | the L2 keeps an old Exclusive copy after the owner answered a forward with modified data, and serves later reads from it |
| `atomic_kept` | an atomic that commits while another CPU has a store outstanding to the double word is lost with the next rewrite of Simics' image |
| `load_order` | a load that an invalidation found in order and left alone is out of order again when an older load is repeated for a store value |
| `torus` | the routes to directories and memory controllers in `16x3-torus.topology`, headed "Deadlock-free routing tables", use one virtual channel around a ring: under load four flows block each other for ever |
| `write_back_ack` | an `EvictDirty` that arrives after the L2 has replaced the block takes the L2's write-back out of the evict buffer, and memory's `EvictAck` fails `DBG_Assert(c_eb != theCacheEvictBuffer.end())` |

`torus` checks the invariant `DeadlockFree`: while a message is under way, a
cycle in which everybody accepts moves something. It has the four switches of one column, with the ports and virtual channels
the file gives them, and one schedule (`BurstSpec`): every cache sends when it
can, every receiver accepts at once.

`write_back_ack` checks `WriteBackAwaited`, the two assertions of `doReply` for
an `EvictAck` (`NonInclusiveMESIPolicy.cpp:1508-1509`), with `EarlyVictim = TRUE`.
The trace: core 1 evicts its Modified block; before its `EvictDirty` arrives the
L2 forwards a read of core 2 to it; core 1 answers `FwdReplyOwned` from its evict
buffer, and core 2's `ReadAckDirty` puts the block into the L2 as Modified; the L2
replaces it and writes it back; the `EvictDirty` arrives, allocates the block
again and removes the evict buffer entry (965-970); memory acknowledges.

### 3.3 Other observations

Met while modelling, visible in the models, without a run of their own:

- A `ReadFwd` that has to ask the core first can be finalized after the
  `EvictAck` removed the block (`finalizeSnoop`; the comment at
  `NonInclusiveMESIPolicy.cpp:885` says outstanding reads complete before).
- An L1 that replaces a block for which a request waits in `kWaitSnoop`
  (`EarlyVictim = TRUE`) leaves the snoop nothing to ask the core about: it is
  answered at once, and the request is not woken (`NoOrphan`).
- Network. A switch whose `SwitchBandwidth` a lower virtual channel has used up
  skips the internal buffer of a higher one (`netswitch.cpp:161`), but the loop over
  the ports (184-207) still serves the first of them: a later message of a flow can
  overtake the one in the internal buffer. No comment, doc or test promises order
  within a flow, and the instance of `network` has too few messages to fill the
  bandwidth, so no property is stated; `CoherenceNet` assumes the order.
- Fetch unit. A redundant fetch (after a squash, or from the prefetcher) can
  still be queued when the line it asks for is filled and evicted again: the
  `EvictClean` is then queued behind a fetch that waits for the end of that very
  eviction, and `sendMisses` sends nothing any more (`uFetchImpl.cpp:553`). If
  the redundant fetch has already been sent, its reply brings the line back while
  the eviction is not acknowledged, and the next eviction of it fails
  `DBG_Assert(ret.second)` (757). `MissOnItsWay` says that a fetch is on its way,
  not that it gets past such a queue.
- With `CleanEvict` off, the default in `wiring.cpp` (`L1i-32KB-2way.simics` sets
  it), a new fetch can overtake the `FetchAck` of the previous one, and the
  directory drops it as redundant: `MissOnItsWay` does not hold.
- A woken evict leaves its MAF entry `eInPipeline` for ever; enough of them fill
  the MAF.
- `updateDependantLoads` says that it stops "on a subsequent store which
  intersects this store" (`memforward.cpp:246`), but an atomic, which is a load
  too, takes the other branch (235): with
  `<<St({1}), Ld({1}), RMW({1}), Ld({1})>>` the value of the store is handed on to
  the load behind the RMW.
- `updateStoreValue` of a store that is reinstated with the value it had before
  it was annulled repeats no load (`memunit.cpp:887-893`): with
  `<<St({1}), InSlot(St({1})), Ld({1})>>` a load that took the first store's value
  meanwhile keeps it.
- Accesses of different sizes lose a forwarding link also without annulment:
  `<<Ld({3}), St({1,2}), From(St({1}),1), Ld({2})>>`.
- A load in `kAwaitingPort` is not requested again, "port request is already done"
  (`memunit.cpp:817`). The request of a blocked load is dropped when it is woken
  as a partial snoop that is not the head of the LSQ (`arbiter.cpp:251`). With
  `<<InSlot(St({1,2})), InSlot(St({1})), Ld({1,2}), Ld({1})>>` the first load is
  blocked by the MSHR of the second, becomes a partial snoop, is woken, and after
  both stores are annulled it waits without a request for ever:
  `ProgramFinishes` does not hold for this program.
- A load whose request was already queued when
  it became a partial snoop is issued out of turn (`arbiter.cpp:290`), and can
  then miss an older store that gets its value later (`memforward.cpp:272`).
- Functional caches with `CleanEvictions` off (the default in the wiring; the
  shipped configurations switch it on): a read by an L1 that the directory still
  lists although it dropped the block, when the L2 has dropped it too, counts as
  an L2 hit and never reaches memory; and a non-allocating store in that
  situation is not forwarded to memory (`SingleCMPProtocol.cpp:188`, where the
  terminal response `NoRequest` is also the initial one). `DirtyKept` and
  `HitsAreInL2` are therefore stated for `clean` only.

The three that fail something the code says of itself, `uFetchImpl.cpp:757`,
`memunit.cpp:817` and `memforward.cpp:246`, are excluded by the programs, or end the behaviours, of
the passing runs; they are recorded with their hazards and have no run.

Each property of a passing run has a mutant in PROJECT.json: a change of one
definition, of the kind a slip in the code would be, under which TLC finds the
property violated.

## 4. Fairness

*Coherence.* `drive()` runs every controller in every cycle, so weak fairness
holds for each step of an L1, the L2 and memory that stays possible. A request
at the head of its channel can be overtaken by woken MAF entries, which have
priority, again and again; `RequestIn` is a queue and the entries come to an end,
so strong fairness holds for `L2Request(c)`. Nothing is assumed about the
program's accesses, about replacements, or about the idle-time evictions
(`L1Idle`, `L1Evict`, `L2Evict`): a block may stay in an evict buffer for ever.

*Core.* Core and L1 work in every cycle until there is nothing left to do
(`Quiet`); no single action is favoured. Snoops, writes of other cores and
squashes are bounded by `MaxDisturb` and need not happen.

*Network.* Again and again there is a cycle in which the memory accesses have
ended and all receivers outside `Stubborn` have room: a cache that serves its
replies does not refuse them for ever. Requests to a directory may be refused
for ever.

## 5. Proofs

Eight modules hold theorems, three of them about the coherence protocol
(section 5.5). Each of the others has the same shape: an inductive invariant
`IInv`, lemmas about the operators of the model, one lemma per action, the theorem
`Spec => []IInv`, and the properties the runs check as its consequences.

### 5.1 The L2 controller

`CMPCacheControllerProofs` proves, for any finite set of processes and entries
and any sizes of MAF, queues and evict buffer, that the reservation discipline of
the L2 controller is sound:

- `TypeCorrect`, `QueuesNeverOverflow`, `EvictBufferNeverOverflows`,
  `MafNeverOverflows`, `EntriesOwned`, `NothingKept`, `FillsAreReserved`, each
  of the form `Spec => []P` for a property `P` that `resources` checks;
- `ReservationDiscipline`: `Spec => []IInv`, from which they follow.

Assumptions: `ProcsAssumption`, `EntriesAssumption` (finite sets; `"None"` is no
entry) and `SizesAssumption` (sizes are naturals). TLC evaluates them.

The inductive invariant is

    IInv == TypeOK /\ QueueAccounting /\ EBAccounting /\ MafAccounting /\ Ownership

No part is inductive alone. The counters say how many places are reserved, not
by whom: that finalizing one process does not use a place another one reserved
needs the sums over processes and entries (`QueueAccounting`, `EBAccounting`,
`MafAccounting`). That removing a MAF entry does not take the reservation from
under another process needs `Ownership`: every process past scheduling that has
an entry is the only one that has it. The proof splits `IInv` into four groups
of variables (`QueueInv`, `OwnInv`, `MafInv`, `EBInv`), has a lemma per group
for how an abstract step changes it (`QueueStep`, `OwnStep`, `MafKeep`/`MafTake`/
`MafGive`, `EBStep`), and one lemma per action that combines them. Sums are taken
level by level (`Total`), which needs only cardinalities and no induction.

### 5.2 The value tracker

`ValueTrackerProofs`: `TrackerInvariant`, and from it `TrackerTyped` (`TypeOK`),
`TrackerCounts` (`TrackedWhileOutstanding`), `TrackerShowsOwnStores`
(`OwnStoresSeen`) and `TrackerShowsMemory` (`MemorySeen`), for any CPUs, double
words and parts and any bounds (`BoundsAssumption`: naturals; `ReflectsAssumption`:
the marks `"G"` and `"Poisoned"` are no CPUs).

    IInv == TypeOK /\ buffer \in Buffers /\ \A d : Good(...)
    Good == Sound /\ Counted /\ Kept /\ (~apart => Shows)

The properties speak of what a CPU would see if it looked now (`See`). `Kept` says
it of the values kept for every CPU: each shows the youngest outstanding stores
of its CPU. `Shows` says that what is kept as the global value, or Simics' image
when it reflects no CPU, is memory. `Sound` ties the image to the CPU it reflects,
and `Counted` the counters to the buffers: an entry with a wrong count would be
dropped too early or too late. `Good` takes the entry, the buffered
stores and memory of one double word as arguments, so a step that changes one
double word needs no argument about the others.

### 5.3 The fetch unit

`UFetchProofs`: `FetchTyped` (`TypeOK`, with or without clean evictions), and
under `CleanEvict` the invariant (`FetchInvariant`), `FetchNotLost`
(`MissOnItsWay`: not lost, which is less than that it arrives, section 3.3) and `FetchEvictsTracked` (`EvictsTracked`), for any lines,
ways, queue sizes and successor function (`LinesAssumption`, `SizesAssumption`). `CleanEvict` is a hypothesis of these
theorems because the properties do not hold without it (section 3.3).

    IInv == TypeOK /\ OneEvictEach /\ \A l : LineInv(l) /\ MissOnItsWay /\ RefetchWaits
    LineInv(l) == EvictLast(l) /\ AckAlone(l) /\ OneDirected(l) /\ SharersFindable(l)

`ForwardFindsLine` speaks of the head of a channel and is not inductive. `LineInv`
says of a line and its whole channels that an announced eviction is the last
request (`EvictLast`), that the directory knows nothing of the line while an
`EvictAck` is under way (`AckAlone`), that a transaction has one message under
way and the directory is in the state that sent it (`OneDirected`), and that a
line the directory will forward to is in the cache, on its way or in
`theEvictSet` (`SharersFindable`). `RefetchWaits` is what `MissOnItsWay` lacks: a
line asked for again before the `FetchAck` of the last fill has arrived has been
evicted meanwhile, so its fetch is not the one the directory ignores.

### 5.4 The functional caches

`FunctionalCachesProofs`: `FunctionalInvariant`, and from it `FunctionalTyped`
(`TypeOK`), `FunctionalNoAssert` (`NoAssert`), `FunctionalCoherent` (`Coherent`),
`FunctionalDirtyKept` (`DirtyKept`) and the action property `FunctionalHits`
(`HitsAreInL2`), for any number of cores, any blocks and ways, and every setting
of `cfg` (`SizeAssumption`: numbers of cores and ways are positive).

The invariant says of every block (`GoodBlock`) that the directory covers the
copies, and is exact when the L1s report clean evictions; that a writable copy
is alone, with an L2 that has it Exclusive or not at all; and that a block owed
to memory is Modified in the L2 or in one L1. `NoAssert` is not inductive
without them: what SingleCMP calls poison is a combination of the L2 state, the
sharers and the snoop answers that only they exclude. A reference is a nest of
calls (an L1 fill evicts, the eviction is a request to the L2, the L2's fill
evicts again), so the invariant is carried through operators: lemmas about the
LRU sets (`Lookup`, `ChangeState`, `Allocate`), about each request of the protocol
table (`ReadWorks`, `FetchWorks`, `WriteWorks`, `UpgradeWorks`, `StoreAroundWorks`,
`EvictWorks`), about an allocation with its victim (`AllocateGood`), and about each
reference (`LoadLands`, `FetchLands`, `StoreLands`, `DmaLands`). The snoop loops of
the code stop at the first answer; the least-number argument `FirstOf` replaces
induction over them.

Writing the proofs showed `CASE` expressions whose guards overlapped, whose value
TLA+ leaves open where TLC takes the first arm: they have disjoint guards now.

### 5.5 The coherence protocol

`CmpCoherenceProofs` proves, for any finite set of cores and either setting of
`NAckAlways`, if replacement takes no block in the middle of its last transaction
(`~EarlyVictim`):

| Theorem | Property |
|---|---|
| `ProtocolTyped` | `TypeOK` |
| `NoAssertUnlessEarlyVictim` | `NoAssert` |
| `ProtocolSingleWriter` | `SingleWriter` |
| `ProtocolDirectoryCovers` | `DirectoryCovers` |
| `ProtocolNoOrphanStall` | `NoOrphanStall` |
| `ProtocolNoOrphan` | `NoOrphan` |
| `ProtocolWriteSnoop` | `WriteSnoopFindsBlock` |
| `ProtocolInvariant` | the inductive invariant `IndInv` they follow from |
| `ProtocolTokens` | `CmpCoherence` implements `CoherenceTokens` |
| `ProtocolRights` | the safety half of `ImplementsBlockRights`: `Rights!Init /\ [][Rights!Next]_(Rights!vars)` |

These are all the invariants of the run `two_cores`.

*Assumptions.* `~EarlyVictim`, as in the run (section 2.1). The code does not
guarantee it; the theorems say that the protocol is right as long as LRU spares a
block in use, and `write_back_ack` shows that it is not otherwise: `NoAssert` and
`NoOrphan` are false then. Nothing is assumed about queues that are full or about the
order of processes in an L1, except that requests of the directory come after
woken snoops (section 2.1). `CoresAssumption`: the cores are a finite set that
contains neither the directory nor memory.

*Why two levels.* `SingleWriter` is a statement about four or five messages at a
time: a store ends when the acks it was told to expect have come, every
`Invalidate` is answered by who had a copy, a `ReadFwd` that an L1 holds for its
core keeps the directory from serving anybody else. None of it depends on where
in a channel or buffer a message is, and the queues alone make every handler a
page long. So the argument has two parts.

1. `CoherenceTokens` keeps its invariant `Inv` (`TokensInvariant`, proved in
   `CoherenceTokensProofs`, one lemma per action and part). Its parts say, in
   groups: an announced eviction is posted or acknowledged, never both; a miss
   has one request; a write is served alone and then the L2 has no copy; a read
   has one token (a `ReadFwd`, a request at memory or a reply); a write has one
   token for every copy it takes away, and its balance of acks is the number of
   those tokens (`NotifyBalance`, `ToldBalance`: the `MissNotify` may come after
   the acks, the balance is negative until then); every copy is a sharer, a
   reader, or asked for (`CopyCovered`, `CopyAsked`); a snoop finds a copy
   (`SnoopFindsCopy`, `ForwardFindsCopy`); who has or is about to get a writable
   copy is alone (`OwnerAlone`, `WriterAlone`, `HeldAlone`, `RefusedAlone`); no
   dirty copy comes back while the last one is written back (`OneDirty`).
2. Every step of `CmpCoherence` is a step of it, under the mapping of
   `CmpCoherenceL1Steps` (`copyV` ... `victimV`). The rest of the inductive invariant,

       CInv == failed = "none" /\ ... /\ T!Inv /\ PostInv /\ SnoopInv /\ AskInv
                 /\ ReplyInv /\ MemInv /\ L2Inv /\ L1Inv

   says how the tokens are stored: no message is in two places, a MAF has one
   entry for a request of a core and one for its eviction, an L1 has one active
   snoop, the `EvictAck` is the last message of its channel, the array, the evict
   buffer and the MAF of an L1 agree. It is what makes an `EvictAck` or a reply
   find its entry. The handlers are long, but each branch needs only the lemma
   about the queue it touches (`PostRequest`, `SnoopTaken`, ...) and the token
   step it maps to. That a failing `DBG_Assert` is out of reach follows branch
   by branch from `T!Inv` (`failed'` stays `"none"`).

`NoOrphan` needs two more facts on top of `IndInv` (in `CmpCoherenceL1Steps`).
`WakeInv`, for the snoops: they wait only behind one that is at the core or a snoop
of an eviction that is about to be sent, and with neither there a waking snoop of
the directory finds no other business of its block in its way. `StayInv`, for the requests: a
snoop of the directory that was put off still finds a block it has to ask the core
about (`AsksCore`), unless the block is announced as evicted. A request that waits
for a snoop has taken the block back, so nothing is announced, and the snoop it saw will go to
the core and wake it when it comes back. What could break this is an `EvictAck` that
removes the block first; it is handled only when no snoop is in `theWakeList`, and
none of the directory waits behind an eviction snoop while an eviction is announced.

`ProtocolRights` follows from the tokens: what a core may use (`T!Use`) is a
function of its copy, its miss and its eviction, gets better only by the reply to
a miss (`UseStep`), and two cores' copies are compatible by `OwnerAlone` and
`WriterAlone` (`UseIs`). Only the requests that wait at an L1 without a miss
(`kWaitEvict`, `kWaitSnoop`) need the code (`RequestUse`): `BlockRights` counts
them as asking, the tokens do not.

`Inv` was checked with TLC under the mapping, and `WakeInv` and `StayInv` as
invariants, before they were proved. Three things in `Inv` are easily overlooked: an announced
dirty eviction can be of a block that is Shared by now; a core can be served while
it has a new request posted, once its ack is sent; and the sharers of the directory
include readers whose reply is still on its way.

### 5.6 The memory unit of the core

`CoreMemoryProofs` proves, for any set of programs, any bytes and blocks, and any
sizes of the store buffer, the prefetches, the replies and the snoop buffer:

| Theorem | Property |
|---|---|
| `TypesHold` | `TypeOK` |
| `PermissionsHold` | `PermissionKept` |
| `LinksHold` | `LinksMatch`, the first half of `WaitersKnown` |
| `WaitersHold` | `WaitersKnown`, for programs whose overlapping accesses are the same (`SameSize`) |
| `ForwardingHolds` | `ForwardedFromYoungest` |
| `InvariantHolds` | the inductive invariant `CoreMemoryInv` they follow from |

*Assumptions.* `BoundsAssumption` and `BytesAssumption` say that sizes are
naturals and addresses are numbers. `ProgramsAssumption` says what the decoder
guarantees: an instruction depends on earlier loads and atomics only, and an
access is not empty and lies in one block. `SameSize` and `Plain` are about the
program that runs, not about all of `Programs`. `WaitersHold` has the hypothesis
`SameSize` because `WaitersKnown` is false without it: with
`<<St({1,2}), InSlot(St({1})), Ld({1,2}), Ld({1})>>` the request of a load is lost
(section 3.3). `ForwardedFromYoungest` is itself about programs of one size,
without atomics and without stores whose address depends on a load (`Plain`), and
about loads whose youngest older store is not in a delay slot. Each condition is needed:
the load can have another value with a store in a delay slot that is reinstated
(`<<St({1}), InSlot(St({1})), Ld({1})>>`, section 3.3), with atomics
(`<<St({1}), Ld({1}), RMW({1}), Ld({1})>>`, section 3.3), with different
sizes (`<<St({2}), InSlot(St({1,2})), Ld({1}), Ld({2})>>`, the store found for one
load is handed on to a load it is not the youngest for), and when the address of a
store is taken back before the store has its value
(`<<Membar, Ld({3}), St({1}), At(St({1}), 2, {2}), Ld({1})>>`). Some programs of
`core_memory` have one size and some are plain; `WaitersKnown` holds for the others
in the run because they do not run into these cases.

The invariant has four parts.

- `CoreInv(core)`: every entry is in a state its operation can be in (`EntryOK`:
  only the oldest entry is a store or an atomic that has been issued; a store has
  address and value when it leaves the LSQ), the two ends of a link agree
  (`Linked`), the store buffer is older than the LSQ (`SBOrder`) and, for one
  size, nothing is a partial snoop and what waits for a port is known
  (`PortsKnown`). Only stores of the LSQ are annulled (`Annulled`).
- `BaseFixed`: an address that depends on a load that has retired is the one its
  result selects, so retired stores are never taken back: `Unresolve` would
  otherwise take the address of a store that a permission is counted for.
- `Counted`: the permissions count the store buffer. A count that is one off is
  what makes `unrequireWritePermission` give up a permission too early.
- `StoreOut` and `Protocol`: at most one store is with the L1, the oldest; the
  L1 has a block Modified, or has sent a snoop for it, for every permission that
  is held (`Held`) or still in a reply (`WriteCovered`), and there is one snoop
  of a block at a time (`SnoopsOnce`). `PermissionKept` alone is not inductive:
  a reply that grants a permission may be followed by the snoop that ends it,
  and the order in `theMemoryReplies` is the argument.

Forwarding needs one more part, `Supply(core)`: what the youngest older store of a
load supplies is nothing or what the load has, for every load with an address and
not only for complete ones, unless the store is in a delay slot. It is kept for two reasons. A call
that changes a store (`resolveVAddr`, `updateStoreValue`, `annulStoreValue`) repeats
the loads that depend on it, `DependantLoads`; with one size these are the loads
that look at the store and at none after it (`DependantOlder`, `DependsOn`), and
the others look at a younger one (`ApartSupply`). Every other call changes no store
that a load looks at, except that the oldest entry leaves (`Kin`): if it was the
youngest store of a load, the load looks at none any more. A late reply cannot
replace a forwarded value, because a load that has one is linked to no MSHR.

The calls of the core are nests of calls that map one core to the next, so the
invariant is carried through operators, as in section 5.4. Two relations do most
of the work: `Loading(c, d)`, what `doLoad` may change, and `Stays(c, d, E)`, a
call that leaves the store buffer alone and changes no address outside `E`; both
are transitive. `breakMSHRLink` clears an entry in the middle of such a nest, so
`CoreInvBut(c, X)` is the invariant except that the loads in `X` may not have
asked for a port yet.
The loops over the loads of a store and over the squashed instructions are
recursive functions; that their results are reached by steps of `doLoad` and
`eraseLSQ` is shown with the least argument at which a claim about the function
fails, which takes the place of induction.

Proving it changed the model: the port requests of a woken MSHR are one step
(`requestPorts`), `doLoad` clears `theIssued` of a load that is complete again as
the code does. The observations at `memforward.cpp:246` and `memunit.cpp:817` in section
3.3 are claims that could not be proved.

### 5.7 Only model-checked

Liveness (`EveryEvictEnds`, `AllDelivered`, `ProgramFinishes`, and that every
request is served in `ImplementsBlockRights`) is out of the prover's reach.

`UnorderedLoadsCurrent` of `CoreMemory` holds in `core_memory` and not for every
program: it is false with atomics (`<<RMW({1}), Ld({1}), Ld({1,2})>>`).
`WaitersKnown` for programs of several sizes is checked for those of the run only.

Nothing is proved about `MemoryNetwork`: its steps are folds over switches and
ports.

## 6. Not modelled

- In the coherence model: instruction caches (`UFetch` has one, against the
  directory alone), prefetches, non-allocating stores, address interleaving over
  several banks. Finite directories (`StdDirectory`, `BackInvalidate`), region and
  tagless directories and arrays, and the MOESI policies: no shipped
  configuration of this simulator uses them.
- The L1 controller's own reservations. Its queues and buffers follow the same
  discipline as those of the L2 controller, with other rules for giving back.
- In the core: registers, bypass network, branch prediction, checkpoints and
  speculative retirement, SC and RMO, exceptions, side-effect accesses,
  accounting. `v9Decoder` is modelled only where an instruction's address or value
  reaches the memory unit, fetch address generation and translation not at all: their logic is the
  SPARC instruction set, and what they should do is in no part of the repository.
- In the functional caches: region-based arrays, the finite and the tagless
  directory, the MOESI protocols, saved and loaded state.
- The DRAM adapter (a wrapper of vendored DRAMSim2), `core/` (wiring, statistics,
  debugging, configuration; the models take from it that components are driven
  in order in every cycle), trace feeders and trackers, the Simics interface,
  tools and data.

PROJECT.json gives the reason for each component. These parts, with the vendored
and generated code beside them, are most of the repository's lines.

## 7. Plan

Done: the coherence core with its proofs and its refinement of `BlockRights`, the
L2 controller with its proofs, the interconnect, and the memory unit, the value tracker, the
functional caches and the fetch unit with theirs. Next, in this order:

1. Proofs: of `MemoryNetwork`: `CountersMatch`; of `CoreMemory`:
   `UnorderedLoadsCurrent` for programs without atomics.
2. The L1 `CacheController` in the manner of `CMPCacheController`.
3. Fetches next to loads and stores, and clean evictions of the L2, in
   `NonInclusiveMESI`.
4. `StdDirectory` with its evict buffer and BackInvalidates.
