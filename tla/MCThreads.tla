------------------------------ MODULE MCThreads ------------------------------
(***************************************************************************)
(* What the threads of the simulator share without locks, in one run:      *)
(*   queue   a ring of three flits and two values, with every position of  *)
(*           head and tail, batches of up to three, and a third thread     *)
(*           that reads the occupancy;                                     *)
(*   pairs   two pairs of router and worker threads with a tile each, over *)
(*           the epochs of two kernels; a task sends to the last tile.     *)
(***************************************************************************)
EXTENDS RQueue

VARIABLES
  conf,
  global_router_active, epoch_counter, waiting, column_active, epoch_has_work, isActive,
  router_timer, lead, iq, oq, net, frontier, epoch_begin, pushes,
  rpc, n, local, tileid_min, min_lead, snap, rongoing,
  wpc, cid, next, act, any, wongoing

simulation ==
  <<global_router_active, epoch_counter, waiting, column_active, epoch_has_work, isActive,
    router_timer, lead, iq, oq, net, frontier, epoch_begin, pushes,
    rpc, n, local, tileid_min, min_lead, snap, rongoing, wpc, cid, next, act, any, wongoing>>

Pairs == INSTANCE SimThreads WITH
  GRID_X <- 2, GRID_Y <- 1, COLUMNS <- 2, num_kernels <- 2, GLOBAL_BARRIER <- 1,
  EXPLORE_FRONTIER_ID <- 1, RootTiles <- {0}, Fanout <- {{1}},
  MaxPushes <- 1, IQCap <- 2, MaxDelay <- 1, MaxSkew <- 1, MaxLag <- 1

InitAny == conf \in {"queue", "pairs"} /\ Init /\ Pairs!Init

NextAny ==
  /\ UNCHANGED conf
  /\ \/ conf = "queue" /\ Next       /\ UNCHANGED simulation
     \/ conf = "pairs" /\ Pairs!Next /\ UNCHANGED vars

SpecAny == InitAny /\ [][NextAny]_<<conf, vars, simulation>>
-----------------------------------------------------------------------------
(* GuardsHold, LoadedIntact, ObservedOccupancyIsReal and FifoSpec are      *)
(* those of RQueue.  All threads are in the same epoch, and the routers    *)
(* stand still while the end of an epoch is looked for.                    *)
ThreadsInStep == Pairs!ThreadsInStep

(* While the flags are the tiles' own, an epoch ends without work left.    *)
EpochEndsInOrder == Pairs!EpochEndsInOrder
=============================================================================
