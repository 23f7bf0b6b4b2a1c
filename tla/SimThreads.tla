----------------------------- MODULE SimThreads -----------------------------
(***************************************************************************)
(* The threads of the simulator: COLUMNS router threads (router_thread.h)  *)
(* and as many worker threads (tsu_core_thread.h), each pair in charge of  *)
(* GRID_X / COLUMNS columns of tiles.  They share flags, counters and      *)
(* timers, most of them plain memory, and four hand-made barriers; router  *)
(* thread 0 decides from what it reads of them when an epoch has no work   *)
(* left.  Every shared load or store that another thread can interleave    *)
(* with is a step of its own.                                              *)
(*                                                                         *)
(* Abstracted: what a task computes (it sends to any tile of Fanout), the  *)
(* path of a message (one hop over the router of its destination), its     *)
(* flits (one message moves at once), and the cycles both kinds of threads *)
(* add at an epoch's end (barrier_penalty, the same for all).  A timer is  *)
(* kept relative: routers to the slowest one, tiles to their own router.   *)
(***************************************************************************)
EXTENDS Integers, FiniteSets

CONSTANTS
  GRID_X, GRID_Y, COLUMNS,
  num_kernels,         \* kernels run one after the other, one per epoch
  GLOBAL_BARRIER,      \* 0: the frontier is explored at once; 1: per epoch
  EXPLORE_FRONTIER_ID, \* idle cycles before a tile explores its frontier
  RootTiles,           \* tiles for which task_init() queues an invocation
  Fanout,              \* the sets of tiles a task may send to
  MaxPushes,           \* bound: nodes added to frontiers in a behaviour
  IQCap,               \* bound: messages in one input queue of a tile
  MaxDelay,            \* bound: cycles charged for one task
  MaxSkew, MaxLag      \* bounds: router ahead of a router, of its tiles

Rid  == 0 .. COLUMNS - 1
Tile == 0 .. GRID_X * GRID_Y - 1

ASSUME GridAssumption ==
  /\ GRID_X \in Nat \ {0} /\ GRID_Y \in Nat \ {0} /\ COLUMNS \in 1 .. GRID_X
  /\ GRID_X % COLUMNS = 0
ASSUME WorkAssumption ==
  /\ num_kernels \in Nat \ {0} /\ GLOBAL_BARRIER \in {0, 1}
  /\ EXPLORE_FRONTIER_ID \in Nat \ {0}
  /\ RootTiles \subseteq Tile /\ Fanout \subseteq SUBSET Tile

columns     == GRID_X \div COLUMNS
global(x, y) == y * GRID_X + x
CORES_PER_TH == columns * GRID_Y

(* The n-th tile a router thread visits, column by column, the cid-th tile *)
(* of a worker thread, row by row, and the thread in charge of a tile.     *)
RouterTile(r, i) == global((r * columns) + (i \div GRID_Y), i % GRID_Y)
WorkerTile(w, i) == global((w * columns) + (i % columns), i \div columns)
ColumnOf(t)        == (t % GRID_X) \div columns
TilesOf(r)         == {t \in Tile : ColumnOf(t) = r}

Barrier == {"routers", "routers2", "threads2", "threads"}
Kind    == 1 .. 3   \* message of task 1 (local), task 2 and task 3

VARIABLES
  global_router_active, epoch_counter, waiting, column_active, epoch_has_work,
  isActive,
  router_timer, lead,         \* see above; lead[t] is the tile's timer
  iq, oq, net, frontier,      \* a tile's queues, its router's, its frontier
  epoch_begin, pushes,
  rpc, n, local, tileid_min, min_lead, snap, rongoing, \* router threads
  wpc, cid, next, act, any, wongoing                   \* worker threads

shared     == <<global_router_active, epoch_counter, waiting>>
flags      == <<column_active, epoch_has_work, isActive>>
timers     == <<router_timer, lead>>
tileVars   == <<iq, oq, net, frontier, epoch_begin, pushes>>
routerVars == <<rpc, n, local, tileid_min, min_lead, snap, rongoing>>
workerVars == <<wpc, cid, next, act, any, wongoing>>
vars == <<shared, flags, timers, tileVars, routerVars, workerVars>>
-----------------------------------------------------------------------------
(* intialize_sync_structures() and the local variables of the threads.     *)
Init ==
  /\ global_router_active = 1 /\ epoch_counter = 1
  /\ waiting = [b \in Barrier |-> 0]
  /\ column_active = [r \in Rid |-> TRUE] /\ epoch_has_work = [r \in Rid |-> TRUE]
  /\ isActive = [t \in Tile |-> TRUE]
  /\ router_timer = [r \in Rid |-> 0] /\ lead = [t \in Tile |-> 0]
  /\ iq = [t \in Tile |-> [k \in Kind |-> 0]] /\ oq = [t \in Tile |-> {}]
  /\ net = [t \in Tile |-> [k \in Kind |-> 0]]
  /\ frontier = [t \in Tile |-> FALSE] /\ epoch_begin = [t \in Tile |-> 0]
  /\ pushes = 0
  /\ rpc = [r \in Rid |-> "epoch"] /\ n = [r \in Rid |-> 0]
  /\ local = [r \in Rid |-> TRUE] /\ tileid_min = [r \in Rid |-> r]
  /\ min_lead = [r \in Rid |-> 0] /\ snap = [r \in Rid |-> {}]
  /\ rongoing = [r \in Rid |-> TRUE]
  /\ wpc = [w \in Rid |-> "init"] /\ cid = [w \in Rid |-> 0]
  /\ next = [w \in Rid |-> 0] /\ act = [w \in Rid |-> TRUE]
  /\ any = [w \in Rid |-> FALSE] /\ wongoing = [w \in Rid |-> TRUE]

(* Fault: the barrier opens one thread early.                              *)
ArriveEarly(b, size) == waiting' = [waiting EXCEPT ![b] = IF @ + 1 = size - 1 THEN 0 ELSE @ + 1]
(* A thread arrives at barrier b of size threads; the last one resets it.  *)
Arrive(b, size) == waiting' = [waiting EXCEPT ![b] = IF @ + 1 = size THEN 0 ELSE @ + 1]

IsLast(b, size) == waiting[b] + 1 = size

(* check_queues_occupancy() of the router of tile t.                       *)
QueuesBusy(t) == oq[t] # {} \/ \E k \in Kind : iq[t][k] + net[t][k] > 0

(* The router inputs of tile t that hold a message: input_empty.           *)
Inputs(t) == {<<t, "core", m[1]>> : m \in oq[t]}
             \union {<<t, "net", k>> : k \in {j \in Kind : net[t][j] > 0}}
-----------------------------------------------------------------------------
(* Router threads.                                                         *)

GoR(r, pc) == rpc' = [rpc EXCEPT ![r] = pc]
At(r, pc)  == rpc[r] = pc

(* while (global_router_active)                                            *)
REpoch(r) ==
  /\ At(r, "epoch")
  /\ GoR(r, IF global_router_active = 1 THEN "loop" ELSE "all2")
  /\ local' = [local EXCEPT ![r] = TRUE]
  /\ UNCHANGED <<shared, flags, timers, tileVars, n, tileid_min, min_lead, snap, rongoing,
                 workerVars>>

(* while (local_router_active && waiting_routers==0)                       *)
RLoop(r) ==
  /\ At(r, "loop")
  /\ GoR(r, IF local[r] /\ waiting["routers"] = 0 THEN "scan" ELSE "bar1")
  /\ n' = [n EXCEPT ![r] = 0]
  /\ tileid_min' = [tileid_min EXCEPT ![r] = r]
  /\ min_lead' = [min_lead EXCEPT ![r] = 0]
  /\ UNCHANGED <<shared, flags, timers, tileVars, local, snap, rongoing, workerVars>>

(* The loop that looks for the slowest tile reads one timer after another. *)
RScan(r) ==
  LET t == RouterTile(r, n[r]) IN
  /\ At(r, "scan")
  /\ IF lead[t] < min_lead[r]
     THEN /\ min_lead' = [min_lead EXCEPT ![r] = lead[t]]
          /\ tileid_min' = [tileid_min EXCEPT ![r] = t]
     ELSE UNCHANGED <<min_lead, tileid_min>>
  /\ IF n[r] + 1 < CORES_PER_TH
     THEN n' = [n EXCEPT ![r] = @ + 1] /\ UNCHANGED rpc
     ELSE n' = [n EXCEPT ![r] = 0] /\ GoR(r, "spin")
  /\ UNCHANGED <<shared, flags, timers, tileVars, local, snap, rongoing, workerVars>>

(* Fault: the router goes on when the tile is only as far as itself.       *)
CoreAheadByNone(t, r) == lead[t] + router_timer[ColumnOf(t)] - router_timer[r] + 1
(* The timer of tile t minus the timer of router r, in cycles.             *)
CoreAhead(t, r) == lead[t] + router_timer[ColumnOf(t)] - router_timer[r]

(* while (current_pu_cy >= min_pu_cy): spin on the tile found, give up     *)
(* when another router waits at the barrier.                               *)
RSpin(r) ==
  /\ At(r, "spin")
  /\ waiting["routers"] > 0 \/ CoreAhead(tileid_min[r], r) > 0
  /\ GoR(r, "mate")
  /\ tileid_min' = [tileid_min EXCEPT ![r] = r]
  /\ min_lead' = [min_lead EXCEPT ![r] = 0]
  /\ UNCHANGED <<shared, flags, timers, tileVars, n, local, snap, rongoing, workerVars>>

(* while (mate_id < COLUMNS): wait for each active router not yet here.    *)
RMate(r) ==
  /\ At(r, "mate")
  /\ \/ router_timer[n[r]] >= router_timer[r]
     \/ ~column_active[n[r]]
     \/ waiting["routers"] > 0
  /\ IF n[r] + 1 < COLUMNS
     THEN n' = [n EXCEPT ![r] = @ + 1] /\ UNCHANGED <<rpc, local>>
     ELSE /\ n' = [n EXCEPT ![r] = 0] /\ GoR(r, "look")
          /\ local' = [local EXCEPT ![r] = FALSE]
  /\ UNCHANGED <<shared, flags, timers, tileVars, tileid_min, min_lead, snap, rongoing,
                 workerVars>>

(* local_router_active |= isActive[global(i,j)]                            *)
RLookActive(r) ==
  /\ At(r, "look")
  /\ local' = [local EXCEPT ![r] = @ \/ isActive[RouterTile(r, n[r])]]
  /\ GoR(r, "lookq")
  /\ UNCHANGED <<shared, flags, timers, tileVars, n, tileid_min, min_lead, snap, rongoing,
                 workerVars>>

(* local_router_active |= (check_queues_occupancy() > 0); the call also    *)
(* notes which router inputs hold something.  While it runs only the       *)
(* tile's worker can touch these queues, and it does so in two steps.      *)
RLookQueues(r) ==
  LET t == RouterTile(r, n[r]) IN
  /\ At(r, "lookq")
  /\ local' = [local EXCEPT ![r] = @ \/ QueuesBusy(t)]
  /\ snap' = [snap EXCEPT ![r] = @ \union Inputs(t)]
  /\ IF n[r] + 1 < CORES_PER_TH
     THEN n' = [n EXCEPT ![r] = @ + 1] /\ GoR(r, "look")
     ELSE n' = [n EXCEPT ![r] = 0] /\ GoR(r, "advance")
  /\ UNCHANGED <<shared, flags, timers, tileVars, tileid_min, min_lead, rongoing, workerVars>>

(* advance() of one router.  Of the inputs noted before, the kinds in      *)
(* arrived enter the tile, the messages in sent leave its core for their   *)
(* destination; entering a tile takes room in its input queue.             *)
RAdvance(r, arrived, sent) ==
  LET t == RouterTile(r, n[r])
      In(k)     == IF k \in arrived THEN 1 ELSE 0
      Own(k)    == IF <<k, t>> \in sent THEN 1 ELSE 0
      Hop(k, d) == IF d # t /\ <<k, d>> \in sent THEN 1 ELSE 0
  IN
  /\ At(r, "advance")
  /\ \A k \in arrived : <<t, "net", k>> \in snap[r]
  /\ \A m \in sent : m \in oq[t] /\ <<t, "core", m[1]>> \in snap[r]
  /\ \A k \in Kind : In(k) + Own(k) > 0 => iq[t][k] + In(k) + Own(k) <= IQCap
  /\ iq' = [iq EXCEPT ![t] = [k \in Kind |-> @[k] + In(k) + Own(k)]]
  /\ oq' = [oq EXCEPT ![t] = @ \ sent]
  /\ net' = [d \in Tile |-> [k \in Kind |->
                net[d][k] + Hop(k, d) - (IF d = t THEN In(k) ELSE 0)]]
  /\ IF n[r] + 1 < CORES_PER_TH
     THEN n' = [n EXCEPT ![r] = @ + 1] /\ UNCHANGED <<rpc, snap>>
     ELSE n' = [n EXCEPT ![r] = 0] /\ GoR(r, "tick") /\ snap' = [snap EXCEPT ![r] = {}]
  /\ UNCHANGED <<shared, flags, timers, frontier, epoch_begin, pushes, local, tileid_min,
                 min_lead, rongoing, workerVars>>

(* ++router_timer[rid]; column_active[rid] = local_router_active           *)
RTick(r) ==
  LET ticked == [router_timer EXCEPT ![r] = @ + 1]
      base   == CHOOSE m \in {ticked[q] : q \in Rid} : \A q \in Rid : m <= ticked[q]
  IN
  /\ At(r, "tick")
  /\ ticked[r] - base <= MaxSkew /\ \A t \in TilesOf(r) : lead[t] > -MaxLag
  /\ router_timer' = [q \in Rid |-> ticked[q] - base]
  /\ lead' = [t \in Tile |-> IF ColumnOf(t) = r THEN lead[t] - 1 ELSE lead[t]]
  /\ column_active' = [column_active EXCEPT ![r] = local[r]]
  /\ GoR(r, "loop")
  /\ UNCHANGED <<shared, epoch_has_work, isActive, tileVars, n, local, tileid_min, min_lead,
                 snap, rongoing, workerVars>>
-----------------------------------------------------------------------------
(* The barriers of the router threads and the check of thread 0.           *)

RArrive(r, at, b, size, wait, after) ==
  /\ At(r, at)
  /\ Arrive(b, size)
  /\ GoR(r, IF IsLast(b, size) THEN after ELSE wait)
  /\ global_router_active' = IF b = "threads" /\ IsLast(b, size) THEN 1
                             ELSE global_router_active
  /\ UNCHANGED <<epoch_counter, flags, timers, tileVars, n, local, tileid_min, min_lead, snap,
                 rongoing, workerVars>>

RWake(r, wait, b, after) ==
  /\ At(r, wait)
  /\ waiting[b] = 0
  /\ GoR(r, after)
  /\ UNCHANGED <<shared, flags, timers, tileVars, n, local, tileid_min, min_lead, snap, rongoing,
                 workerVars>>

AfterBar1(r)    == IF r = 0 THEN "check" ELSE "bar2"
AfterThreads(r) == IF rongoing[r] THEN "epoch" ELSE "done"

(* What step i of the check of thread 0 reads: for one tile after the      *)
(* other isActive, preceded by column_active at the first tile of a        *)
(* column thread, then the tile's queues.                                  *)
CheckColumn(i) == i \div (2 * CORES_PER_TH)
CheckTile(i)   == RouterTile(CheckColumn(i), (i \div 2) % CORES_PER_TH)

(* Fault: the check does not look at column_active.                        *)
SeenInTiles(i)  == IF i % 2 = 1 THEN QueuesBusy(CheckTile(i)) ELSE isActive[CheckTile(i)]
Seen(i) == IF i % 2 = 1 THEN QueuesBusy(CheckTile(i))
           ELSE \/ isActive[CheckTile(i)]
                \/ i % (2 * CORES_PER_TH) = 0 /\ column_active[CheckColumn(i)]

(* check_active: thread 0 goes through the tiles until something is active.*)
RCheck ==
  /\ At(0, "check")
  /\ local' = [local EXCEPT ![0] = Seen(n[0])]
  /\ IF Seen(n[0]) \/ n[0] + 1 = 2 * Cardinality(Tile)
     THEN n' = [n EXCEPT ![0] = 0] /\ GoR(0, "store")
     ELSE n' = [n EXCEPT ![0] = @ + 1] /\ UNCHANGED rpc
  /\ UNCHANGED <<shared, flags, timers, tileVars, tileid_min, min_lead, snap, rongoing, workerVars>>

(* Fault: the check never clears the flag.                                 *)
RStoreSticky ==
  /\ At(0, "store")
  /\ GoR(0, "bar2")
  /\ UNCHANGED <<shared, flags, timers, tileVars, n, local, tileid_min, min_lead, snap, rongoing,
                 workerVars>>
(* global_router_active = check_active                                     *)
RStore ==
  /\ At(0, "store")
  /\ global_router_active' = IF local[0] THEN 1 ELSE 0
  /\ GoR(0, "bar2")
  /\ UNCHANGED <<epoch_counter, waiting, flags, timers, tileVars, n, local, tileid_min, min_lead,
                 snap, rongoing, workerVars>>

(* column_active[rid] = true; current_epoch_ongoing |= epoch_has_work[t]   *)
RDecide(r) ==
  /\ At(r, "decide")
  /\ column_active' = [column_active EXCEPT ![r] = TRUE]
  /\ rongoing' = [rongoing EXCEPT ![r] = \E q \in Rid : epoch_has_work[q]]
  /\ GoR(r, "all")
  /\ UNCHANGED <<shared, epoch_has_work, isActive, timers, tileVars, n, local, tileid_min,
                 min_lead, snap, workerVars>>

RBarriers(r) ==
  \/ RArrive(r, "bar1", "routers", COLUMNS, "wait1", AfterBar1(r))
  \/ RWake(r, "wait1", "routers", AfterBar1(r))
  \/ RArrive(r, "bar2", "routers2", COLUMNS, "wait2", "epoch")
  \/ RWake(r, "wait2", "routers2", "epoch")
  \/ RArrive(r, "all2", "threads2", 2 * COLUMNS, "waitall2", "decide")
  \/ RWake(r, "waitall2", "threads2", "decide")
  \/ RArrive(r, "all", "threads", 2 * COLUMNS, "waitall", AfterThreads(r))
  \/ RWake(r, "waitall", "threads", AfterThreads(r))

Router(r) ==
  \/ REpoch(r) \/ RLoop(r) \/ RScan(r) \/ RSpin(r) \/ RMate(r)
  \/ RLookActive(r) \/ RLookQueues(r)
  \/ /\ At(r, "advance")
     /\ \E arrived \in SUBSET Kind, sent \in SUBSET oq[RouterTile(r, n[r])] :
          RAdvance(r, arrived, sent)
  \/ RTick(r) \/ RBarriers(r) \/ RDecide(r)
  \/ (r = 0 /\ (RCheck \/ RStore))
-----------------------------------------------------------------------------
(* Worker threads.                                                         *)

GoW(w, pc)   == wpc' = [wpc EXCEPT ![w] = pc]
Is(w, pc)    == wpc[w] = pc
TileNow(w)   == WorkerTile(w, cid[w])

(* for (cid = 0; cid < CORES_PER_TH; cid++): the loop goes on, or to pc.   *)
NextCid(w, again, pc) ==
  IF cid[w] + 1 < CORES_PER_TH THEN cid' = [cid EXCEPT ![w] = @ + 1] /\ GoW(w, again)
                               ELSE cid' = [cid EXCEPT ![w] = 0] /\ GoW(w, pc)

(* task_init(x,y) for each tile, in the epochs that start a kernel.        *)
WInit(w) ==
  /\ Is(w, "init")
  /\ IF epoch_counter <= num_kernels
     THEN /\ iq' = IF TileNow(w) \in RootTiles THEN [iq EXCEPT ![TileNow(w)][1] = @ + 1] ELSE iq
          /\ NextCid(w, "init", "loop")
     ELSE GoW(w, "loop") /\ UNCHANGED <<iq, cid>>
  /\ UNCHANGED <<shared, flags, timers, oq, net, frontier, epoch_begin, pushes, routerVars,
                 next, act, any, wongoing>>

(* while (global_router_active), tested once per pass over the tiles.      *)
WLoop(w) ==
  /\ Is(w, "loop")
  /\ GoW(w, IF global_router_active = 1 THEN "tile" ELSE "end")
  /\ any' = [any EXCEPT ![w] = FALSE]
  /\ UNCHANGED <<shared, flags, timers, tileVars, routerVars, cid, next, act, wongoing>>

(* A tile whose timer is past its router's is left alone.                  *)
WSkip(w) ==
  /\ Is(w, "tile") /\ lead[TileNow(w)] > 0
  /\ NextCid(w, "tile", "loop")
  /\ UNCHANGED <<shared, flags, timers, tileVars, routerVars, next, act, any, wongoing>>

(* The tasks with an invocation queued and room for what they send.        *)
Runnable(t) ==
  {k \in Kind : iq[t][k] > 0 /\ (k < 3 => \A m \in oq[t] : m[1] # k + 1)}

(* The queues and the frontier of the tile are read: this decides whether  *)
(* it is active and what it does next (0: idle, 4: explore the frontier).  *)
(* Which of the runnable tasks the TSU prefers is left open.               *)
WRead(w) ==
  LET t == TileNow(w)
      queued == oq[t] # {} \/ \E k \in Kind : iq[t][k] > 0
      begin == IF GLOBAL_BARRIER > 0 THEN epoch_begin[t]
               ELSE IF queued THEN 0
               ELSE IF epoch_begin[t] < EXPLORE_FRONTIER_ID THEN epoch_begin[t] + 1
               ELSE EXPLORE_FRONTIER_ID
      explorable == frontier[t] /\ begin >= EXPLORE_FRONTIER_ID
  IN
  /\ Is(w, "tile") /\ lead[t] <= 0
  /\ epoch_begin' = [epoch_begin EXCEPT ![t] = begin]
  /\ act' = [act EXCEPT ![w] = queued \/ (IF GLOBAL_BARRIER > 0 THEN explorable ELSE frontier[t])]
  /\ \E k \in IF Runnable(t) # {} THEN Runnable(t) ELSE IF explorable THEN {4} ELSE {0} :
       next' = [next EXCEPT ![w] = k]
  /\ GoW(w, "flag")
  /\ UNCHANGED <<shared, flags, timers, iq, oq, net, frontier, pushes, routerVars, cid, any,
                 wongoing>>

(* isActive[global_cid] = ...                                              *)
WFlag(w) ==
  /\ Is(w, "flag")
  /\ isActive' = [isActive EXCEPT ![TileNow(w)] = act[w]]
  /\ GoW(w, IF next[w] = 0 THEN "second" ELSE "first")
  /\ UNCHANGED <<shared, column_active, epoch_has_work, timers, tileVars, routerVars, cid, next,
                 act, any, wongoing>>

(* The first effect of a task: task 1 sends before it dequeues, tasks 2    *)
(* and 3 dequeue first, the exploration queues invocations of task 1.      *)
WFirst(w) ==
  LET t == TileNow(w) IN
  /\ Is(w, "first")
  /\ \/ /\ next[w] = 1
        /\ \E D \in Fanout : oq' = [oq EXCEPT ![t] = @ \union {<<2, d>> : d \in D}]
        /\ UNCHANGED <<iq, epoch_begin, next>>
     \/ /\ next[w] \in {2, 3}
        /\ iq' = [iq EXCEPT ![t][next[w]] = @ - 1]
        /\ UNCHANGED <<oq, epoch_begin, next>>
     \/ /\ next[w] = 4
        /\ epoch_begin' = [epoch_begin EXCEPT ![t] = 0]
        /\ IF iq[t][1] < IQCap
           THEN iq' = [iq EXCEPT ![t][1] = @ + 1] /\ UNCHANGED next
           ELSE next' = [next EXCEPT ![w] = 0] /\ UNCHANGED iq
        /\ UNCHANGED oq
  /\ GoW(w, "second")
  /\ UNCHANGED <<shared, flags, timers, net, frontier, pushes, routerVars, cid, act, any, wongoing>>

(* Its second effect, and the cycles it is charged; a tile with nothing to *)
(* do is charged one.                                                      *)
WSecond(w) ==
  LET t == TileNow(w) IN
  /\ Is(w, "second")
  /\ \/ next[w] = 0 /\ UNCHANGED <<iq, oq, frontier, pushes>>
     \/ next[w] = 1 /\ iq' = [iq EXCEPT ![t][1] = @ - 1] /\ UNCHANGED <<oq, frontier, pushes>>
     \/ /\ next[w] = 2
        /\ \E D \in Fanout : oq' = [oq EXCEPT ![t] = @ \union {<<3, d>> : d \in D}]
        /\ UNCHANGED <<iq, frontier, pushes>>
     \/ /\ next[w] = 3
        /\ \/ UNCHANGED <<frontier, pushes>>
           \/ /\ pushes < MaxPushes /\ pushes' = pushes + 1
              /\ frontier' = [frontier EXCEPT ![t] = TRUE]
        /\ UNCHANGED <<iq, oq>>
     \/ /\ next[w] = 4
        /\ frontier' = [frontier EXCEPT ![t] = FALSE]
        /\ UNCHANGED <<iq, oq, pushes>>
  /\ \E delay \in IF next[w] = 0 THEN {1} ELSE 1 .. MaxDelay :
       lead' = [lead EXCEPT ![t] = @ + delay]
  /\ next' = [next EXCEPT ![w] = 0] /\ act' = [act EXCEPT ![w] = TRUE]
  /\ NextCid(w, "tile", "loop")
  /\ UNCHANGED <<shared, flags, router_timer, net, epoch_begin, routerVars, any, wongoing>>

(* Fault: the kernels still to come are forgotten.                         *)
CidActiveFrontier(t) == frontier[t]
(* cid_active: is there more to do on tile t after this epoch?             *)
CidActive(t) == frontier[t] \/ epoch_counter < num_kernels

(* Fault: only a tile with a frontier is marked.                           *)
EndFlagsFrontier(w) == [isActive EXCEPT ![cid[w]] = frontier[TileNow(w)]]
(* isActive[cid] = cid_active: the index is cid, the tile's number within  *)
(* its thread.                                                             *)
EndFlags(w) == [isActive EXCEPT ![cid[w]] = CidActive(TileNow(w))]

(* The epoch is over: each worker looks at its tiles.                      *)
WEnd(w) ==
  /\ Is(w, "end")
  /\ any' = [any EXCEPT ![w] = @ \/ CidActive(TileNow(w))]
  /\ isActive' = EndFlags(w)
  /\ NextCid(w, "end", "publish")
  /\ UNCHANGED <<shared, column_active, epoch_has_work, timers, tileVars, routerVars, next, act,
                 wongoing>>

(* epoch_has_work[wtid] = any_cid_active                                   *)
WPublish(w) ==
  /\ Is(w, "publish")
  /\ epoch_has_work' = [epoch_has_work EXCEPT ![w] = any[w]]
  /\ GoW(w, "all2")
  /\ UNCHANGED <<shared, column_active, isActive, timers, tileVars, routerVars, cid, next, act,
                 any, wongoing>>

(* epoch_begin[cid] = next_epoch_begin: frontiers may be explored again.   *)
EpochBegin(w) ==
  [t \in Tile |-> IF t \in TilesOf(w) THEN EXPLORE_FRONTIER_ID ELSE epoch_begin[t]]

(* Between the two barriers of all threads: is there another epoch?        *)
(* Thread 0 counts it (saturating: only num_kernels is compared with it).  *)
WDecide(w) ==
  /\ Is(w, "decide")
  /\ wongoing' = [wongoing EXCEPT ![w] = \E q \in Rid : epoch_has_work[q]]
  /\ epoch_begin' = EpochBegin(w)
  /\ epoch_counter' = IF w = 0 /\ epoch_counter <= num_kernels THEN epoch_counter + 1
                      ELSE epoch_counter
  /\ GoW(w, "all")
  /\ UNCHANGED <<global_router_active, waiting, flags, timers, iq, oq, net, frontier, pushes,
                 routerVars, cid, next, act, any>>

WArrive(w, at, b, wait, after) ==
  /\ Is(w, at)
  /\ Arrive(b, 2 * COLUMNS)
  /\ GoW(w, IF IsLast(b, 2 * COLUMNS) THEN after ELSE wait)
  /\ global_router_active' = IF b = "threads" /\ IsLast(b, 2 * COLUMNS) THEN 1
                             ELSE global_router_active
  /\ UNCHANGED <<epoch_counter, flags, timers, tileVars, routerVars, cid, next, act, any, wongoing>>

WWake(w, wait, b, after) ==
  /\ Is(w, wait)
  /\ waiting[b] = 0
  /\ GoW(w, after)
  /\ UNCHANGED <<shared, flags, timers, tileVars, routerVars, cid, next, act, any, wongoing>>

WAfterThreads(w) == IF wongoing[w] THEN "init" ELSE "done"

WBarriers(w) ==
  \/ WArrive(w, "all2", "threads2", "waitall2", "decide")
  \/ WWake(w, "waitall2", "threads2", "decide")
  \/ WArrive(w, "all", "threads", "waitall", WAfterThreads(w))
  \/ WWake(w, "waitall", "threads", WAfterThreads(w))

Worker(w) ==
  \/ WInit(w) \/ WLoop(w) \/ WSkip(w) \/ WRead(w) \/ WFlag(w) \/ WFirst(w) \/ WSecond(w)
  \/ WEnd(w) \/ WPublish(w) \/ WDecide(w) \/ WBarriers(w)
-----------------------------------------------------------------------------
AllDone == \A r \in Rid : At(r, "done") /\ Is(r, "done")

(* main() joins the threads.                                               *)
Terminating == AllDone /\ UNCHANGED vars

Next == (\E r \in Rid : Router(r) \/ Worker(r)) \/ Terminating

Spec == Init /\ [][Next]_vars

(* The router of tile t moves everything it noted, which is something.     *)
MoveAll(t) ==
  LET r == ColumnOf(t)
      arrived == {k \in Kind : <<t, "net", k>> \in snap[r]}
      sent    == {m \in oq[t] : <<t, "core", m[1]>> \in snap[r]}
  IN
  /\ At(r, "advance") /\ t = RouterTile(r, n[r])
  /\ arrived # {} \/ sent # {}
  /\ RAdvance(r, arrived, sent)

(* Threads are scheduled, and a message at a router is held back only for  *)
(* some cycles: a router that keeps advancing in the end moves it.         *)
Fairness == /\ \A r \in Rid : WF_vars(Router(r)) /\ WF_vars(Worker(r))
            /\ \A t \in Tile : SF_vars(MoveAll(t))

FairSpec == Spec /\ Fairness
-----------------------------------------------------------------------------
Counter == 0 .. 2 * COLUMNS
TypeOK ==
  /\ global_router_active \in {0, 1} /\ epoch_counter \in 1 .. num_kernels + 1
  /\ waiting \in [Barrier -> Counter]
  /\ column_active \in [Rid -> BOOLEAN] /\ epoch_has_work \in [Rid -> BOOLEAN]
  /\ isActive \in [Tile -> BOOLEAN]
  /\ router_timer \in [Rid -> 0 .. MaxSkew] /\ lead \in [Tile -> -MaxLag .. MaxDelay]
  /\ iq \in [Tile -> [Kind -> 0 .. IQCap]] /\ oq \in [Tile -> SUBSET ((2 .. 3) \X Tile)]
  /\ \A t \in Tile, k \in Kind : net[t][k] \in Nat
  /\ frontier \in [Tile -> BOOLEAN] /\ epoch_begin \in [Tile -> 0 .. EXPLORE_FRONTIER_ID]
  /\ pushes \in 0 .. MaxPushes

(* No message is in a queue and no task is under way.                      *)
Quiescent == /\ \A t \in Tile : ~QueuesBusy(t)
             /\ \A w \in Rid : ~(wpc[w] \in {"first", "second"} /\ next[w] # 0)

(* "CHECK WHETHER THIS EPOCH IS DONE" (router_thread.h:208): when router   *)
(* thread 0 clears global_router_active no message is left anywhere,       *)
(* although it reads flags and queues one by one while the workers run.    *)
EpochEndsQuiescent == global_router_active = 0 => Quiescent

(* An epoch that starts a kernel does not end before every worker has run  *)
(* task_init() on its tiles (tsu_core_thread.h:92).                        *)
KernelStarted ==
  global_router_active = 0 /\ epoch_counter <= num_kernels => \A w \in Rid : ~Is(w, "init")

(* At the end of an epoch a worker sets the flags of its tiles under their *)
(* numbers within its thread (tsu_core_thread.h:284): they are its own     *)
(* tiles' with one column of threads, they were not set yet in the first   *)
(* epoch, and they do not matter when there is only one and no barrier.    *)
OwnFlags == \/ COLUMNS = 1
            \/ epoch_counter = 1
            \/ num_kernels = 1 /\ GLOBAL_BARRIER = 0

(* Then an epoch ends neither with messages left nor before its kernel was *)
(* started on every tile (router_thread.h:208, tsu_core_thread.h:92).      *)
EpochEndsInOrder == OwnFlags => EpochEndsQuiescent /\ KernelStarted

(* When a thread stops no kernel is to come and no node is in a frontier   *)
(* (tsu_core_thread.h:278), whatever the flags; and if they are the tiles' *)
(* own no message and no task is left either (router_thread.h:208).        *)
WorkCompleted ==
  (\E r \in Rid : At(r, "done") \/ Is(r, "done")) =>
    /\ epoch_counter > num_kernels /\ \A t \in Tile : ~frontier[t]
    /\ OwnFlags => Quiescent

(* No thread is in the next epoch while one still settles this one.        *)
EpochsInLockstep ==
  (\E r \in Rid : rpc[r] \in {"decide", "all"} \/ wpc[r] \in {"decide", "all"}) =>
    \A r \in Rid : /\ rpc[r] \in {"waitall2", "decide", "all", "waitall"}
                   /\ wpc[r] \in {"waitall2", "decide", "all", "waitall"}

(* While router thread 0 looks for work, no router moves a message.        *)
RoutersStopped ==
  rpc[0] \in {"check", "store"} => \A r \in Rid : rpc[r] \in {"check", "store", "wait1", "bar2", "wait2"}

(* The threads go through the epochs and the checks together.              *)
ThreadsInStep == EpochsInLockstep /\ RoutersStopped

(* A router waits for one tile only, and for it only until its timer is    *)
(* past the router's: still no tile falls back by more cycles than its     *)
(* thread has other tiles.                                                 *)
LagBounded == \A t \in Tile : lead[t] >= -(CORES_PER_TH - 1)

(* The simulation ends.                                                    *)
Termination == <>AllDone
=============================================================================
