# A TLA+ model of MuchiSim

MuchiSim simulates a chip of many small tiles (a processor, a scratchpad, a
router) connected by networks on chip. Applications are split into tasks; a
task runs where its data lives and invokes tasks on other tiles by sending
messages. The simulator itself is a parallel program: pairs of POSIX threads,
each in charge of some columns of the grid, that share memory and synchronise
by hand. This directory holds TLA+ modules of its core logic, TLC
configurations that check them on small instances, and proofs checked by TLAPS.

## 1. Inventory

Paths are relative to `src/src/` of the repository.

| Part | State | Operations | Who uses it, how |
|---|---|---|---|
| Circular queue (`network/r_queue.h`) | `arr`, `head`, `tail`, `virtual_size` | `enqueue`, `dequeue`, `peek`, `is_full`, `is_empty`, `capacity`, `occupancy`, `cannot_fit_two` | every port of a router and every task queue; one thread writes, another reads, no lock |
| Router (`network/router.h`) | per port and channel an input queue; `open` (output held by an input, and how many flits are left), round-robin pointers, `input_empty` | `next_route`, `get_dst`, `comp_destXY`, `find_dest`, `calc_inp4out`, `advance` | called by its router thread once per cycle; pops its own inputs, pushes the neighbours' inputs |
| Network (`network/network.h`) | the routers, bus arbitration of board links | `connect_routers`, `board_arbitration_X/Y` | `main` |
| Router threads (`network/router_thread.h`) | `router_timer`, `column_active`, `waiting_*` counters, `global_router_active` | cycle loop, wait for cores and for other routers, end-of-epoch check, barriers | read `isActive`, `core_timer`, `epoch_has_work` of the workers |
| Worker threads and task scheduling unit (`network/tsu_core_thread.h`) | `core_timer`, `isActive`, `epoch_begin`, `epoch_has_work`, `epoch_counter` | `task_init`, choice of a task, run it, explore the frontier, drain the proxy cache, end of epoch | read and write the tiles' queues |
| Frontier (`apps/frontier_common.h`) | bitmap of nodes, circular list of bitmap words, the node task 1 is working on | `add_to_frontier`, `task4_kernel`, `process_nodes`, `task1_helper` | tasks of the graph applications |
| Proxy cache (`mem/proxy_cache.h`) | tags, frequencies, `pcache_last_evicted`, `pcache_occupancy`, the proxy copies | `check_pcache`, `drain_pcache` and their helpers | task 3' on a proxy tile; idle worker |
| Data cache and memory timing (`mem/data_cache.h`) | tags of each tile, one global array of frequencies, requests of each memory channel | `check_dcache`, `get_dcache`, `write_dcache` | tasks, to count cycles and memory traffic |
| Applications (`apps/*.h`) | result arrays, `task_global_params` (what task 1 parked; the rounds of FFT) | `task_init`, `task1_kernel` ... `task3bis_kernel` | called by the worker threads |
| Graph loader (`dataset_loaders/graph_loader.h`) | `node_array`, `edge_array`, `edge_values` | read, fill up, `shuffle_dataset`, `output_result` | `config_dataset` of an application, once; results at the end |
| Sizes (`config_app` of `apps/*.h`, `configs/config_queue.h`, `mem/memory_util.h`) | lengths of queues and messages, the longest piece of edges, the frontier's list, the caches of a tile | `config_app`, `config_queue`, `calculate_storage_per_tile`, `setup_cache_sizes` | `main`, once, in this order |
| Entry point (`main.cpp`) | - | set up, start the threads, join them | - |
| Cost, area, energy, statistics, plots, GUI | counters, files | formulas, printing | off the simulated machine's path |

**How they interact.** A worker thread reads its tiles' queues, picks a task,
runs it and charges its cycles to the tile's timer. Tasks leave messages in the
tile's output queues. Router threads move those from router to router, one or
two flits a cycle, to the input queues of the destination. A tile is simulated
only while its timer is not past its router's, a router only while it is not
past the slowest of its tiles and the other routers. When router thread 0 sees
nothing active it ends the *epoch*: all threads meet at two barriers and decide
whether another epoch (another kernel, or another level of the frontier) follows.

**What is hard.** Router thread 0 looks for the end of an epoch while workers
run, reading flags and ring indices that others move. Barriers are counters that
the last thread resets, reused at once. Queues have no lock and guards are
evaluated before they are used. Messages hold output ports until their last
flit, on rings. Copies in the proxy cache must reach their owner. `PROJECT.json`
lists each of these hazards at its line, with the properties that cover it.

**What makes each part correct.**
* Queue: a bounded FIFO; guards stay true until used; an occupancy read by a
  third thread is one the queue had.
* Threads: an epoch ends only when no message is left and every worker has begun
  it; decisions agree; the simulation ends; timers stay close.
* Router: flits of a message stay together and in order, nothing is lost or
  duplicated, a message reaches its destination, a ring never fills up.
* Frontier: each node set is explored exactly once per time it is set; a task
  that runs out of room resumes where it stopped.
* Applications that add up: each product of the input is added exactly once,
  wherever task 1 was stopped by a full queue.
* FFT: a tile takes an element for the round it was sent in, fetches it before it
  is overwritten, and computes when it has all of them.
* Sizes: no task waits for room that an empty queue does not have; the parts of
  a tile's memory add up to it.
* Graph loader: the graph in memory is that of the file, under the numbers the
  results are written with.
* Proxy cache: no update to a proxied element is lost.
* Scheduling unit: a task runs only with its parameters and with room for its
  output, and tasks that wait for each other's room always go on.
* Data cache: the global frequencies and the tags agree although tiles share
  lines; a stored result is never forgotten; the counters add up.

## 2. Plan

| Order | Module | Content | State |
|---|---|---|---|
| 1 | `BoundedFifo` | abstract FIFO | done |
| 2 | `RQueue`, `RQueue_proofs` | ring buffer in micro-steps implements `BoundedFifo`; invariants proved | done |
| 3 | `SimThreads`, `SimThreads_proofs` | router and worker threads, barriers, epochs; all but the end of the simulation (liveness) proved, the lag of timers for one column | done |
| 4 | `RoutingRules`, `Routing`, `Routing_proofs` | destinations, ports and wiring; one message hop by hop; all but the liveness proved for any network | done |
| 5 | `Router` (uses `RoutingRules`), `Router_proofs` | arbitration, open routes and delivery, flit by flit; all but the liveness proved | done |
| 6 | `Tiles`, `Search`, `Search_proofs` | queues and scheduling of a tile; tasks 1 to 4 of SSSP and WCC, frontier; all safety proved, the paths and components found included | done |
| 7 | `ProxyCache`, `ProxyCache_proofs` | tasks 3 and 3', eviction, drains, cascading; all safety proved: the cache, its queues, and that no update is lost | done |
| 8 | `DataCache`, `DataCache_proofs`, `MCCacheLines` | the tasks' accesses and stores in order, tags and validity, write-back, channel counters; all three invariants proved for one thread; three disagreements with comments and assertions | done |
| 9 | `Sums` (on `Tiles`) | SPMV, SPMV_FLEX, SPMM and HISTO | done |
| 10 | `FFT`, `FFT_proofs`, `FFTLine` | transpositions whose round is told by the receiver, proved not to mix; the transform of a line | done |
| 11 | `CacheSizes`, `Setup` | the sizes of queues, frontier and caches | done |
| 12 | `GraphLoader` | reading, filling up, the shuffle and the order of the output | done |
| 13 | link arbitration between boards (`network/network.h`, MUX_BUS) on top of `RoutingRules` | one flit per cycle on a shared link | later |

Abstract specifications worth stating: `BoundedFifo` (done); a memory in which each line has one owner
for `DataCache`; a single counter per datum for `ProxyCache`.

Theorems worth proving next: for `Sums` what is proved of `Search` about queues
and pieces (`QueuesFit`, `PiecesLocal`); no `RECURSIVE` operator is in the way.

## 3. Modules and runs

Some MC modules check several configurations in one run: they instantiate the
module once per configuration and add a variable `conf` that never changes, so
that a reachable state belongs to one configuration. Properties are then stated
for all of them, under a name of their own, unless the module's property already
speaks of the tiles there are.

### `BoundedFifo`, `RQueue`
`BoundedFifo` is a sequence of at most `Size` flits. `RQueue` is the ring of
`r_queue.h`: `arr`, `head`, `tail` are the fields. The producer evaluates a
guard for `n` flits (`PCheck`), then for each stores the flit (`PStore`) and
moves `head` (`PPublish`); the consumer is symmetric (`CCheck`, `CLoad`,
`CRelease`); a third thread reads the two indices in either order (`OBegin`,
`OEnd`). Memory is sequentially consistent: the model does not reorder a store
of `arr` with the store of `head`.

* `threads` (`MCThreads`, configuration `queue`): `Size = 3` gives four slots, enough for the wrap and for a batch of
  two next to the slot kept free; batches up to 3; two flit values.
  `GuardsHold`, `LoadedIntact`, `ObservedOccupancyIsReal`, and `FifoSpec`, which
  maps the slots from `tail` to `head` to the abstract queue.

### `SimThreads`, `MCSim`
One action per shared access or per run of accesses no other thread can tell
apart. `rpc` and `wpc` are the positions of the router and worker threads in
`router_thread()` and `tsu_core_thread()`. `RScan`, `RSpin`, `RMate` are the
waits on timers; `RLookActive`, `RLookQueues` the activity look; `RAdvance` what
one router moves; `RTick` the end of the cycle; `RCheck`, `RStore` the
end-of-epoch check; `RDecide` the decision. `WInit` is `task_init`; `WRead`,
`WFlag`, `WFirst`, `WSecond` split one visit of a tile where another thread may
look; `WEnd`, `WPublish`, `WDecide` end the epoch. Barriers are counters with
`Arrive`/`Wake` actions as in the code: the last thread resets the counter, a
waiter goes on when it sees 0, a thread may be back before that.

Data is abstracted: a message is a count per task kind, what a task sends is a
choice among the sets of tiles `Fanout`, a message crosses the network in one
hop, a frontier is empty or not.

Tiles are numbered as with `TORUS=1` (row by row).

* `sim`: one thread pair with a column of two tiles, the frontier explored once
  per epoch (`GLOBAL_BARRIER=1`), two kernels, at most one addition to a frontier
  (`MaxPushes`, which makes work finite), tasks of one or two cycles.
  `EpochEndsInOrder`: router thread 0, which reads flags and queues of all columns
  one after the other while workers run, never ends an epoch with a message left
  or before every tile has begun it. `WorkCompleted`: a thread stops only when all
  kernels and frontiers are done and nothing is left. `LagBounded`: the router
  waits only for the tile it found slowest, yet no tile falls further behind than
  its thread has other tiles (proved for one column of any number of tiles). With
  two pairs this bound does not hold: a router
  stops waiting for its tiles when the other is at the barrier
  (`router_thread.h:117`). `Termination`: the simulation ends.
* `threads` (`MCThreads`, configuration `pairs`): two thread pairs with a tile each over the epochs of two kernels,
  tasks that all send to the last tile. `ThreadsInStep`: no thread leaves a barrier
  too early (it would be in another epoch, or would route while the check runs).
  `EpochEndsInOrder` again, now with a check that reads two columns.
* `OwnFlags` is when the two statements about messages hold. At the end of an epoch
  a worker marks as active not its tile but the one with the same number within
  the thread (`tsu_core_thread.h:284`, section 5). The flags are right as long as
  this is the same tile (one column of threads), has not happened yet (the first
  epoch) or is not needed (one kernel without a barrier between epochs).
* `sim_kernel_skipped`: a place where the code does not do what its comment says
  (section 5): outside `OwnFlags` an epoch ends before it has begun everywhere.

**Bounds.** `MaxSkew`, `MaxLag` bound the difference of timers: `RTick` is not
taken beyond them. With one column `MaxSkew` never binds, and `LagBounded` (with
`MaxLag` above what it allows) shows that `MaxLag` does not bind either. With
two columns they cut off routers that run far ahead of an inactive one. `IQCap`
is the room of an input queue; routers stall when it is full, and the
exploration of the frontier stops, as in the code.

**Fairness.** Each thread is weakly fair: the operating system schedules it. A
message that a router can move over and over is moved in the end (strong
fairness of `MoveAll`): `advance()` gives each input its turn by round robin.
Liveness is checked with one thread pair; with two pairs the bound on the timers
could stop a router that is really free to go on, so it is not claimed.

### `RoutingRules`, `Routing`
`RoutingRules` has the pure part of `router.h` and `network.h`: the tile of a
datum (`get_dst`; on a mesh rows alternate in direction), the nearest proxy
(`Nearest`, with C++ division and remainder), who may capture a message
(`MayCapture`, `MustCapture`), the port (`Direction`, with the choice between
boards and the bubble of a ring), express links, and the wiring (`HasPort`,
`Neighbour`, `InputAt`). `Routing` follows one message from any tile to any
datum on any channel; every router decides anew at each hop.

* `routing`: 8x8 tiles as a torus with proxy regions of four and stealing, as a
  mesh with `PROXY_ROUTING=5`, as four boards that are a torus each, and as a
  torus with express links. All starting points, data and channels are covered,
  so there is no bound but the size of the grid. `RightTiles` and `Arrives` say
  that messages get to a tile that may run their task; `DimensionOrders` and
  `AlwaysNearer` that two routers never send a message back and forth;
  `OneProducers` that each input queue has a single router that fills it, which
  is what `RQueue` assumes. Fairness: the one message is moved if it can be.

### `Router`
All routers and the queues between them, flit by flit. `Advance` is one call of
`advance()` for one channel: every output in turn takes a flit (or two on a wide
channel) from the input that holds it, or gives it to the input whose turn it is
(`Granted`), if the guard on the destination holds. Heads ask for what
`RoutingRules` says. `Run` is a task that takes its parameters out of the core's
queue; tasks 3 and 3' share queues as `t3_to_core` does.

Left to a choice: time stamps (a head that is not due is passed over), flits
that arrived after `check_queues_occupancy()`, the order of channels on a shared
link. Any subset of the waiting inputs may thus be looked at in a cycle.

* `router`: a 2x2 torus of four proxy regions. Two messages of three flits meet at a
  corner, where one turns and the other is injected; a message for task 3 may be
  taken by the proxy there, whose queue is shared with task 3'. Channel 1 moves two
  flits per cycle into queues of four and five, so that a guard that asks for one
  place too few lets them overflow. `RoutesOpen` (flits of two messages never
  interleave, and the input that holds an output has the rest of that message),
  `FlitsConserved` (no queue is overfilled, although outputs are served one after
  the other; no flit is lost or doubled), `RightTask` (a task runs once, at the owner
  or a proxy), `Arrives`. The safety properties are proved for every network
  (section 4), so one that has all the interesting encounters is enough here.
  Fairness is for the whole: every message is finite and no step undoes another, so
  this is weaker than what the threads give.

### `Tiles`, `Search`, `Sums`
`Tiles` is what graph applications share: the data set cut over the tiles, the
queues of a tile, `task1_helper()` with its cuts at chunks and at the tiles'
borders (`Cuts`) and its parking (`Park`), the flags `runnable`, `output_pri`,
`input_not_almost_full` and the choice of the next task. Messages with different
ends may overtake each other. Queue lengths are inputs: they are scaled down so
that every task meets a full queue. `router_collision`, a statistic that only
delays the count of idle turns, is left out.

`Search` has the tasks of SSSP and WCC with their frontier, and one visit of a
tile by the scheduling unit (`Visit`): run a task, or explore the frontier after
enough idle turns (16 in the code, `EXPLORE` here) or once per epoch. A frontier
is a bitmap (words of 32 nodes in the code, `BLOCK` here) and a circular list of
its words. Order is told by counting rather than by recursion, so that it can be
reasoned about: `Ascending` lists a set of numbers by how many are not above each
(the cuts of a piece, the edges T2 tells), and T4 moves the nodes with fewer than
the free places ahead of them (`Ahead`: in an earlier block, or higher in theirs).
`TilesAssumption` asks that T1's queue has a place and that T2's output queue has
room for two messages, what `SizesSuffice` finds of every build, since a node's
entry and the longest piece must fit; `SearchAssumption` that a node's number as
a label of WCC is below the initial value.

`Sums` has SPMV, SPMV_FLEX, SPMM and HISTO, which go over the data once. T1 walks
over the nodes of its tile until a node's edges had to be parked (`T1Nodes`), and
leaves the place to go on at in its own queue (`GoOn`); HISTO walks over edges
(`T1Edges`), SPMV_FLEX sends to task 3 itself (`iterate`). T2 begins in the
middle of its piece (`Rotated`). The values of the matrix are integers, as in the
code; `ret` is not cut at 32 bits.

* `search`: seven configurations on two tiles: SSSP without barrier and with
  epochs, WCC, SPMV, SPMM with two columns, SPMV_FLEX, HISTO. A node has an edge
  more than T1's queue takes, and for the sums the last node of a tile does.
  `RightResults` compares final results with `Distances`, `Reaching` and
  `Products`, computed independently. `NoneLost` holds at every step: a value not
  yet sent along an edge is still somewhere, and a node's sum, the messages, the
  parked edges and those not yet visited always add up to what it will have.
  `PiecesLocal` (a piece of edges goes to the tile that owns it), `ListAgrees`
  (bitmap and list say the same; the cursor of WCC over its own nodes and frontier
  nodes share a queue and are not confused), `QueuesFit`, `AllTerminate`.
  Fairness: each tile's turn, each router. WCC and SPMM are checked for safety
  only. Products are powers of two times five, so that no two sums agree.
* `search_barrier`, `histo`: section 5.

### `FFT`, `FFTLine`
`FFT` has the rounds: T1 transforms the tile's line, sends its elements in two
waves and parks when the queue is full (`SendWave`), T3 fetches an element from
where it stands and counts (`T3`); whoever comes last begins the next round, T3
through T1's queue or, when T1 is still sending, through a flag (`restart`). An
element is its history: which computation of which tile left it at which place.
T3 tells the round of a message from its own tile. Nothing in the code makes that
true but time: a computation takes more than 60 cycles per element, so the
messages of a round leave after all tiles have begun it. This is the assumption
`Paced`; without it `RoundsAgree` fails, so that no message comes a round early is
assumed and not checked.

`FFTLine` is `fft_1d()` with `bit_reversal()`, in place, over the integers modulo
17, which have the roots of unity that lines up to 16 need. Rounding is left out.

* `fft`: the three rounds on 2x2 tiles; the first exchange in a row of four with a
  queue for two elements; lines of 2, 4, 8 and 16. `RoundsAgree`;
  `UnreadStands` (an element is not overwritten before it was fetched, so the
  assertion at `fft.h:274` holds); `RightTransposes` (each computation begins on
  the complete transposition of the one before); `LinesAreDFT` (against the sums
  of the definition, for all lines with a single 1, whose sums are all lines, and
  one other); `AllTransform`. Fairness: some tile or the network goes on.

### `CacheSizes`, `Setup`, `GraphLoader`
`Setup` has `config_app()` of each application, `config_queue()` and
`calculate_storage_per_tile()` as steps, in the order `main()` takes them; a
default is UINT32_MAX until it is set. `CacheSizes` is the division of the rest
of the memory between the proxy cache and the data cache. Differences wrap as
those of `u_int32_t` do, at `U32`. `GraphLoader` reads a file, or takes the arrays
of a binary data set, fills up with empty nodes, shuffles node by node, and has
the order results are written in. Memory that nobody wrote holds `Junk`.

* `memory` (`MCMemory`, which also has the data caches below): two independent
  parts. Sizes: all applications, with and
  without proxies, barriers, hardware threads and options for queues; SSSP, SPMV
  and SPMM with memories around the 4 to 11 thousand words that queues take; tiles
  with 37 to 1000 nodes. `U32` is 2^26 so that TLC's integers hold the products;
  no size comes near it except by wrapping. Graphs: five nodes with up to two
  edges each, and two larger ones, for four tiles, in both formats.
  `SizesSuffice`: an empty output queue has room for the longest output of each
  task that fills it, so that no task waits for ever. `MemoryFits`: the parts of a
  tile's memory add up to it, so no difference wrapped, which
  `assert(remaining_sram_words>=0)` cannot tell. `GraphKept`: the graph in memory
  is that of the file under the numbers of the output. Set-up ends, hence deadlock
  is not checked. The steps are deterministic: what varies are the inputs.
  Left out of `SizesSuffice`: the list of `GLOBAL_BARRIER=3`.

### `ProxyCache`
A datum has its owner (tile 0) and a copy in each region; `Access` is
`check_pcache` with `update_pcache`: hit, or eviction of the line in the set and
write-back, `drain_pcache` takes the next valid line, `Visit` is the tile's turn
with its order of task 3, task 3', drain. Updates travel along a line of regions
towards the owner and may be captured on their way (`PROXY_ROUTING`).
Direct mapped only: `DIRECT_MAPPED` is fixed at 1.

* `proxy`: sums, sums drained in epochs (`GLOBAL_BARRIER=2`), minima written
  through, and proxies that hold everything. `NoneLost` says that for each datum
  the owner's value, the valid copies and the messages combine to what was sent;
  `LinesAgree` that tags, frequencies and occupancy agree; `AllDrain` that in the
  end the owner has everything. The first two are proved (section 4). Behaviours are finite (`MaxSends`), hence
  deadlock is not checked. Fairness: each tile's turn, each router, the end of an
  epoch.

### `DataCache`
Which lines each tile holds, in micro-steps where threads share memory: the
lookup, the load and the store of the channel's counter, the assertion, the
eviction, the insertion. Arrays are laid out as `cache_tag()` does, so lines
straddle tiles and arrays.

`check_dcache()` only tells the cache that a word is used; the tasks load and store
the word themselves, before the call, after it, or without one. A task is therefore
the sequence of its accesses (`Look`) and stores (`Put`), in the order of the code,
and a thread does one of them after the other (`todo`); every access takes its own
steps. `Improve` is what task 3 does with a better result: the store of `ret` after its
access (`sssp.h:145`), then `add_to_frontier()`, which accesses the bitmap, stores and
accesses the list if the block is not in it, stores the head of the list without an
access, and only then stores the bitmap (`frontier_common.h:189`, `:173`, `:174`, `:176`,
`:200`). `Explore` is task 4: it accesses the list and the bitmap, stores what is left of
the block, and at the end the tail, without an access. `frontier_list` is what decides
these branches: the blocks that are listed (those whose word of the bitmap is not
zero: `ListAgrees`) and where. `unsaved` is the set of words that were stored since
their line was last written to memory. The library's `write_dcache()` is modelled
although no application of the repository calls it.

* `memory`: three configurations of the cache. `bfs`: one thread and the tasks of BFS
  with 6 nodes on two tiles, `check_dcache()`; tiles share lines, and so do `ret` and
  `edge_array`, and `node_array` and the bitmap, which begins in the middle of a line.
  `vector`: one thread, `get_dcache()` and `write_dcache()`. `threads`: two threads with
  lines of their own on one channel. Lines of two words, one or two sets, and 4 to 6
  tasks (`MAX_TASKS`): a task 3 has up to three accesses and four stores, so the
  accesses of one task evict each other's lines, and other tasks fetch them again.
  Behaviours are finite, hence deadlock is not checked. `OneHolder`: validity and tags
  agree; `ResultsKept`: a word of `ret` that memory does not have yet has not left the
  caches, whatever accesses came between; `Accounted`: requests, misses, write-backs
  and evictions add up (with one thread).
* `cache_border` (`MCCacheLines`): the smallest layout of BFS in which `WrittenBack`, the
  comment at `memory_util.h:42`, is not so: a line with a word that memory does not have
  is written back when it leaves (section 5). Two more configurations of the module, which
  are not listed as runs, reproduce what section 5 says of SPMM (`MCCacheColumns.cfg`) and of
  threads whose tiles share a line (`MCCacheShared.cfg`); TLC ends both with a
  counterexample.

`ResultsKept` is about results of one word for each node, because frontiers and the
results of SPMM are dropped in the first two of these. Two threads whose tiles share a line are in `MCCacheShared.cfg` only, and for two threads on a
channel nothing is claimed about the counters: they lose requests.

## 4. Proofs

`RQueue_proofs` proves, for every size, batch and set of flits:
`TypeCorrect` (the type invariant `TypeOK`, which therefore has no run of its own), `GuardsStayTrue` (`GuardsHold`), `NoOverwrite`
(`LoadedIntact`), `ImplementsFifo` (`FifoSpec`). None but the type invariant is
inductive alone. `IInv` adds `PendingIntact`: a producer that has stored but not
moved `head` still owes an enqueue, hence by `GuardsHold` the ring is not full
and its slot is not live; a consumer that has loaded still owes a dequeue. One
lemma per action shows `IInv` kept (`PCheckIInv` ... `ObserverIInv`), from the
arithmetic of the ring (`SuccWraps`, `UsedAndFree`, `UsedAfterMove`,
`LiveSlots`). For the refinement, `ContentsKept` shows that every other action
leaves the contents alone, `PublishEnqueues` and `ReleaseDequeues` that the two
moves of an index are the two abstract operations. The only assumptions are that
the size and the batch are positive naturals.
For the third thread, `ObservedIsReal` (`ObservedOccupancyIsReal`): it has read
one index and not yet the other, and `HalfSeen` says that until both have moved
the occupancy it would compute is one the ring has had since it began; the
property claims no more.

`SimThreads_proofs` is about the threads, for any grid, any
number of columns of threads, any kernels, tasks, frontiers and timing; the only
assumptions are those `SimThreads` names, that the columns of the grid divide
evenly among the threads, that tasks send to tiles and that `GLOBAL_BARRIER` is 0 or 1.

* `BarrierInvariance`, `ThreadsStayInStep` (`ThreadsInStep`). A barrier is a counter
  that the last thread resets and a thread may re-enter before the others have
  left. The two barriers of the routers are in one of two states: between checks
  the first fills up and the second is at most being left (`RoutersFree`), during a
  check the other way round (`RoutersMeet`); the counter of the one that fills up is
  the number of threads that wait at it. `ThreadsFree` and `ThreadsMeet` say the
  same of the two barriers of all threads. A thread can change the state only as
  the last one to arrive, by the cardinality of the set of those that wait.
* `EpochInvariance`, `EpochsEndInOrder`, `WorkIsCompleted`. `EpochInv` adds, to the
  barriers and the types: where threads can be while `global_router_active` is 1
  and 0 (`PhaseInv`) and that the loops' counters are reset (`LoopInv`); that a
  worker's chosen task still has its message (`HandInv`) and a router's noted input
  its own (`SnapInv`), so that no count goes below zero; that a tile with work of
  its own is marked (`FlagInv`); that a column without activity has messages on
  marked tiles only (`CleanInv`); that what the check has looked at so far, of
  each tile first the mark and then the queues, has stayed idle (`CheckInv`): no
  router moves during the check, so work on a tile can only come from the tile; that nothing is left when the epoch is over (`Settled`), that the flags are
  right again for the next (`EndInv`); and that all threads decide alike, from
  what the workers published (`DecisionInv`, `WorkInv`, `DoneInv`). Flags are only
  spoken of under `OwnFlags`, which fails for the reason given in section 5; that the
  threads agree, and leave no kernel and no frontier, is proved without it. One
  lemma for each part and thread shows it kept, from facts about the order in which
  threads visit the tiles of a rectangular grid (`Areas`, `TileAt` ...).
* `TilesLagBounded` (`LagBounded`), for one column of threads and any number of tiles.
  When a router looks which tile is the slowest it is only told of one, and other
  tiles may be behind as well. `LagInv` counts them: the tiles that are behind by `j`
  cycles or more are at most the number of tiles less `j` (`Few`). The router goes on
  when the tile it waits for has caught up with it (`Passed`), which makes one tile
  less that is behind at all (`BehindAre`, `FewerTiles`); its own cycle then puts
  every tile that has not gone on one further back (`TickLag`). With more columns a
  router stops waiting when another is at the barrier, and nothing is claimed.

`Termination` is a liveness property and model-checked only.

`DataCache_proofs` proves `OneHolderAlways`: if one thread runs the tasks, then
for any tiles, lines, sets and layout of the arrays the assertion of a miss
never fails, and between accesses a valid line is in exactly one cache and a line
that is not valid in none. `OneHolder` only speaks of the states between
accesses. `CacheInv` extends it to each step of a miss: a line is kept in its own
set (`InPlace`) by one tile (`Unique`); a held line is valid unless it is the
victim of an access that has yet to put its own line there (`HeldValid`); a valid
line is held (`ValidHeld`); the line being fetched is absent (`Missing`). The
step that needs all of them is the eviction: it clears the validity for every
tile, which is right only because no other tile holds the victim. The assumptions
are in `DataCacheAssumption` (the arrays and the frontier lie in the data set, every
tile has a thread and a channel). Which words tasks access is in `TaskInv`: what is left
of each task consists of accesses and stores in the data set, and a result is stored
right after its own access (`Paired`). With several threads whose tiles share a line
the theorem does not hold (section 5).

`ResultsAreKept` proves `ResultsKept`, for every layout of the arrays and of the
frontier, from `TaskInv`, `CacheInv` and `ResultsInv`: a result that memory does not have
yet lies on a valid line that would be written back now (`UnsavedKept`), and when a
result is about to be stored its line is valid (`StoresHit`). The second holds because
nothing lies between a result's access and its store: a hit leaves the line where it
is, and a miss ends by putting it there. The first holds because a line with one
of the first `NODES` words begins with one of them (`ResultDirty`), so `is_dirty()` is
right about results even where it is wrong about the frontier; with `write_dcache()` the
mark says it. The eviction is the step that needs both. No hypothesis
restricts the layout. What is stored to the frontier is not part of the theorem,
as it is not kept (section 5).

`CountersAddUp` proves `Accounted`. That property speaks of the states between
accesses; `CountInv` says what it is in the middle of one: a request that is not counted
yet (`Uncounted`: its load and its store of the channel's counter are two steps), a miss
whose line is not in the cache yet (`Unplaced`), a set whose victim is gone and whose new
line is to come, which the occupancy still counts (`Reserved`), and the value the
thread has loaded is the counter's (`Loaded`). The last one is where several threads lose
a request. A counter of one channel or tile grows by one and so does the sum over all of
them: `SumOf` is a fold, and the lemmas before the theorem derive what it computes on a
finite set from its definition, by a least counterexample among the sizes of the subsets.
Hence the assumption that there are finitely many tiles.

`FFT_proofs` proves, for grids of any size, any number of rounds, queues of any
size, and data that is sent or fetched: `RoundsNeverMix` (`RoundsAgree`),
`UnreadStaysThere` (`UnreadStands`) and `TransposesRight` (`RightTransposes`), from
`FFTInvariance`. `FFTInv` has, next to the types, one part for each thing the code
relies on without saying so. A tile is told to go on, by its queue or its flag,
exactly when it has received everything (`ProgressInv`); one of its arrays holds
the line as it computed it, the other the transposed line where an element came
and the line of the round before where none did (`DataInv`); a message is underway
once, was sent, and its element is not there yet (`MessageInv`); what was received
was sent (`SentInv`); a tile receives only when all have begun its round, so that
none is two rounds ahead of another (`PaceInv`). The last is why an element still
stands where T3 fetches it: its tile may be a round on, but has then received
nothing there. `Paced` is used, as in the model, for messages that leave a tile;
without it none of the three holds. `AllTransform` and `LinesAreDFT` are
model-checked only (liveness; induction over the stages of a line).

`Router_proofs` proves every safety property of `Router`,
for grids of any size, torus or mesh, queues of any lengths, any proxies, any
channels that move two flits, and any messages. `RouterAssumption` asks for at least
two columns, since with one a router would be its own neighbour, and that channel 2
is wide when there are proxies, as `RoutingAssumption` asks that regions divide the
grid.

* `RoutesStayOpen` (`RoutesOpen`). The queues alone do not tell which message an
  empty one is in the middle of. `RInv` therefore speaks of `gone[k]`, the flit that
  left queue `k` last, and of `Newest`, the last flit that entered it; the theorem
  says that there always is such a `gone`. In every queue flits follow each other
  from `gone` on (`QueueOrdered`); an output that an input holds was last fed what
  left that input last, and this was not the end of a message, while an output that
  nobody holds ended one (`OutputHeld`, `InputHolds`); the core goes on with the
  message it began (`Queueing`, `CoreEnded`); and with proxies a message for task 3
  or 3' enters the core at once (`InOnePiece`), which is what lets two channels share
  its queue. The outputs of one step do not disturb each other: no two of them take
  from one input or feed one queue, and none feeds a queue that another empties
  (`OneTaker`, `FedApart`).
* `NoQueueOverflows` (`TypeOK`). `Roomy` adds that the queue of a core has room for
  the rest of the message it began.
* `NothingLost` (`FlitsConserved`). `Placed`: what is in a queue was sent and has not been
  used (`Known`), is in no other place (`Once`), and what was sent and not used is
  somewhere (`Somewhere`). For a step of a router the proof names the place each flit
  goes to (`RoutePlaces`).
* `TasksRunRight` (`RightTask`). `Delivered`: the queues of a core hold what its tasks
  may run. A head that asks for the core is at its owner or at a proxy, because the
  nearest proxy is a proxy even where C++ remainders are negative
  (`NearestIsProxy`); the flits behind it follow an open output.

`Arrives` is a liveness property and model-checked only.

`Routing_proofs` proves the four safety properties of `Routing` for grids of any size,
one board or many, torus or mesh, any regions of proxies and of stealing, any express
links: what `RoutingAssumption` allows, which are the conditions that the code asserts
or its layout needs. The run checks the same definitions for four networks of 8x8.

* `TasksRunWhereAllowed` (`RightTile`). A router that chooses the core as direction
  has its own tile as target; `NearestIsProxy` shows that the nearest proxy, where it
  is on the grid, has the right place in its region, negative numbers and C++
  remainders included.
* `ProducersAlone` (`OneProducer`). A message that came by a link has the router at
  its other end as producer (`Feeds`); there is no second one, because the wiring is
  injective: `AroundOne` for rings and express links, `OtherBoardOne` for the links
  between boards, which leave from the first tile and from the middle of a board.
* `DimensionsInOrder` (`DimensionOrder`). A message in an X port has the Y of its
  target, and keeps it (`Walk`). That it is never sent back is `NoReturn`: on one axis a
  tile sends it to a goal that each tile chooses anew, over a ring on which the shorter
  way may cross the end, or to the edge or the middle of the board when the goal is on
  another. `AimIs` and `NearestIs` put this in plain numbers, in which it is a fact
  about the nearest numbers of one class on a ring (`NearestNeverBack`): goals of two
  tiles are equal or a region apart (`ClassApart`). It holds for jumps of any length,
  although these are judged by the difference of coordinates and may overshoot.
* `HopsGoNearer` (`Nearer`) for one board without express links: if the two goals
  differ they are as far from the tile (`NearestNearer`).

`Arrives` is a liveness property and model-checked only, in all four networks.

`ProxyCache_proofs` proves four theorems for any number of regions, elements and lines,
with and without a cache, with any barriers, captures and order of sends. They are
about the definitions of `ProxyCache` that the run checks under other names for each of
its configurations. The assumption `oq_size > 2` is what `SizesSuffice` finds of every
build; with less a tile could not send what it drains.

* `LinesStayRight` (`TypeOK`, `CacheAgrees`; in the run `QueuesFit`, `LinesAgree`). In
  `CacheInv`, `Tagged` says which elements have a line in place of how many, so that a
  line that is taken, freed or reused (`LineTaken`, `LineFreed`, `LineReused`) changes
  one element; without a cache there is always a free line, by the pigeonhole
  principle (`FreeLine`). A task 3' sends one message at most: the copy it evicts, or
  with `WRITE_THROUGH` its value, which is what `Runnable` leaves room for.
* `MinimaKept` (`UpdatesConserved`; in the run `NoneLost`), where the least update counts
  (SSSP, BFS, WCC): the least value sent for an element is always with the owner, in
  a queue or in a valid copy, and nothing holds a lower one. `Sound` adds that what is
  underway or in a valid copy is below the default: this is why an element that is
  missed is always written, and no copy becomes valid with an old value. With
  `WRITE_THROUGH` a copy is dropped without write-back. `SentAhead` says why this loses
  nothing: for a valid copy, a value as good is ahead of it, between its tile and the
  owner. An update that task 3' discards because the copy is better is therefore
  represented ahead, and so is the copy itself when it is evicted (`NeverLost`).
* `SumsKept` (`UpdatesConserved` again), where updates are added (HISTO): the
  owner's value, the updates in queues and the valid copies add up to what was sent, for
  each element. Here the property is inductive together with `CacheInv`. The work is in the
  sum: `Parts` is a set, and its sum a fold over it. The lemmas up to `SumOfMoved`
  derive from the definition of `MapThenSumSet`, for any finite set of parts, that a
  part more adds its value (`OneMore`), that disjoint sets add up (`SumOfBoth`), and that
  parts may be renumbered (`SumOfMoved`): a message that leaves the head of a queue moves
  all others up (`HeldFirst`). Parts are then told apart by their place (`Slots`), and each
  action changes three places at most (`Balance`): an eviction takes from the copy what
  it puts in the output queue, while the update taken from the input queue goes into
  another copy (`T3bisSums`).
* `UpdatesAreKept`: both together, `Spec => []UpdatesConserved` without a hypothesis.

The liveness property `AllDrain` is model-checked only.

`Search_proofs` proves seven theorems about SSSP and WCC, for any graph, any number of
tiles, any sizes of blocks, chunks and queues that `TilesAssumption` and
`SearchAssumption` allow, with and without a barrier between epochs. They are about
the definitions of `Search` and `Tiles` that the run checks under other names for each
of its configurations.

* `SearchTypeOK` (`QueuesFit` in the run), `SearchRangesLocal` (`PiecesLocal`) and
  `SearchListAgrees` (`ListAgrees`) follow from `Safe`, which has, next to the types
  (`Shapes`): what is in a queue or on a wire is a piece between two cuts or an update,
  and on its way to its owner (`QueuesRight`); no queue holds more than its size
  (`RoomsLeft`); the list of the frontier has each block with a bit set once, and its
  nodes are the tile's own (`FrontierRight`, `Agrees`); and what is parked belongs to
  the entry in front of T1's queue, which holds one seed or only nodes (`WorkRight`).
  The lemmas behind it are about the code's arithmetic: what T1 sends and parks are
  the edges it was given, cut at chunks and at borders of tiles (`CutsAre`,
  `PiecesAre`); the circular list grows by one at its head and shrinks at its tail as a
  sequence does (`RingGrows`, `RingShrinks`), never full because there are more slots
  than blocks; T4 moves the first nodes of an order in which all of a block come
  before the next block (`FrontierOrder`, `MovedAre`), so that the blocks it empties
  are the first of the list (`DropAgrees`).
* `SearchNoUpdateLost` (`NoneLost`). `Underway` is the model's `Pending` as five named
  places: the frontier, T1's queue, what is parked, a piece, an update. One lemma for
  each step shows that what was underway along an edge is underway after it or was
  delivered, and that a value that changes puts its node in the frontier or is sent at
  once (`Keeps`). A node that is explored again while its edges are parked is why a
  piece may carry an older value than the node has, and the node is then in the
  frontier or behind in the queue.
* `SearchEndsRelaxed`: when nothing is left (`Finished`), nothing is underway
  (`AtRest`), so no edge of a node with a value offers a better one.

* `SearchFindsPaths` and `SearchFindsComponents` (`ShortestPaths`, `Components`;
  `RightResults` in the run) compare with what a sequential program would compute by
  rounds over all nodes. That no value is better than possible is `AllSound`: for any
  set of values that is closed under what edges offer (`Possible`), all values in
  queues, messages and `ret` are in it. With the values not below a given potential this says
  that no value is below the distance, and with the labels of nodes that reach a node
  that labels are right (`PathsAreRight`, `LabelsAreRight`). At the end the values are
  a fixed point (`SearchEndsRelaxed`), hence a potential themselves. What is left is
  that the rounds compute the greatest potential and the set of nodes that reach a
  node: each round settles one node more (`DistancesGreatest`, `ReachingClosed`), along
  edges that are tight (`TightEdge`). The induction over the rounds is done by a least
  counterexample (`Rises`). `Undirected`, that each edge is stored both ways, is what
  WCC is defined for; without it `SearchFindsComponents` still says that a label only
  comes from a node that reaches the node.

The liveness property `AllTerminate` is model-checked only.

Everything about the other modules is model-checked only, on the instances above.
Liveness under fairness stays with TLC in any case.

## 5. Where the code and its comments disagree

* `tsu_core_thread.h:284` writes `isActive[cid]` where `cid` counts the tiles of
  the thread; everywhere else the array is indexed by `global(x,y)`. The comment
  above says the store keeps the router from ending the next epoch at once. With
  one column the two numbers agree for every tile; with more they do not.
  `sim_kernel_skipped` shows an epoch that ends before a worker has queued the
  kernel's first invocations.
* `tsu_core_thread.h:203` wants the frontier explored only at the beginning of an
  epoch; a tile with an empty frontier keeps its mark (`search_barrier`).
* `histo.h:73` takes the first edge of a tile without a test. `edgePerTile` is
  rounded up, so a tile may lie behind the last edge; it then never meets its
  `end` and counts what lies behind `edge_array` until its chunk is done or its
  queue is full, and the comparison at `graph_loader.h:83` fails (`histo`: three
  edges on four tiles).

* `memory_util.h:42` does without dirty bits "as we write-back based on address
  range", but `is_dirty()` (`data_cache.h:44`) asks only where a line begins. The
  frontier of SSSP, BFS and WCC begins at any word, so the line with its first words
  is taken for one of the array in front of it, and leaves without a write-back
  after the bitmap was written (`cache_border`).

Also seen, without a run of its own:

* `data_cache.h:63` says `ret` is `[0, nodes]` for all applications and `is_dirty()`
  takes it to be; SPMM has one word for each node and column (`:60`), and the results
  behind the first `nodes` words are never written back (`MCCacheColumns.cfg`: TLC finds
  `WrittenBack` violated). Here and in `cache_border` fewer write-backs and requests
  are counted than there are.
* `data_cache.h:295` (and `:178`) asserts that a missed line is still absent, but
  `dcache_freq` is one array for all threads and is not locked: two threads whose tiles
  share a line both miss it, and the second finds it present (`MCCacheShared.cfg`: TLC
  finds `MissIsAbsent` violated). A compiler that keeps the value of the lookup, which it
  may, lets the assertion pass, and then both tiles insert the line; the model has
  both outcomes (`Check`).
* `sssp.h:68` returns without removing a node that has no edges: if the root is
  such a node, task 1 repeats and the simulation never ends. `search` has roots
  with edges.
* `frontier_common.h:200` stores a word of the bitmap that was accessed at `:189`; if
  its block was not listed, the access to the list in between (`:174`) may have evicted
  the line, and the store is not seen by the cache. The head and the tail of the list
  (`:176`, `:159`) are stored without an access, as is `ret` in the first round of WCC
  (`wcc.h:81`, except where the loop before accessed it). "Surely it's a hit in the
  cache" (`sssp.h:150`) and "Hit's for sure" (`wcc.h:173`) are right with one thread:
  `ResultsAreKept`.
* `in_r`, which PageRank writes (`pagerank.h:194`), lies neither in `ret` nor in the
  frontier, and its lines are never written back.
* Two threads on one memory channel store its counter back without a lock
  (`data_cache.h:276`) and lose requests.
* `router.h:822` updates the round-robin pointer of the inputs with the number of
  the output (the model does the same, and `Arrives` holds).
* `config_queue.h:81` asserts before the default is replaced, and so sees the
  sizes of some applications only; `SizesSuffice` asks for it afterwards.
* `router_thread.h:115` says all cores should be ahead of the router, while the
  wait follows one tile (`LagBounded` says how far others may be behind).
* `memory_util.h`: with `DCACHE` 3 or 4 and queues that take all of `SRAM_SIZE`,
  the data cache gets nothing and the footprint is divided by its size (:170; the
  model stops there). With `DCACHE` 3 and more its size is not taken off the
  unused words (:150), so fewer words are reported as used.
* `graph_loader.h`: with `SHUFFLE` a TSV file is not shuffled, while results are
  written as if it were; that combination is left out. Nodes without edges at the
  end of a TSV file keep what memory held in `node_array`; the files of the run
  end with a node that has edges. `output_result()` of SPMM steps by columns and
  writes the first one only.

## 6. Not modelled

* Out of scope by nature: area, energy, cost, performance formulas and statistics
  (`common/calc_*.h`, `common/util_stats.h`, `energy_cost_model.cpp`,
  `common/yield.cpp`), the loaders of other formats, printing
  (`common/print_lock.h`), plots, GUI, scripts. These are floating-point formulas
  over final counters, and input and output. `doall/` is a separate program.
* Of the threads: `GLOBAL_BARRIER=2` (its drains are in `ProxyCache`),
  `MUX_BUS` arbitration, several hardware threads per tile, sampling.
* Of the network at flit level: express links, several boards, stealing; they are
  in `Routing` for one message at a time.
* Of the applications: PageRank (the same tasks and frontier with floating-point
  values), `GLOBAL_BARRIER=3`, task 3' of the applications that add up (it is in
  `ProxyCache`), overflow of results.
* Of the caches: sets of several ways (`check_freq`), latencies, prefetch.
