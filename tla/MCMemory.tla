------------------------------ MODULE MCMemory ------------------------------
(***************************************************************************)
(* The memory of a simulation in one run, told apart by conf.  Before it:  *)
(*   setup    the sizes of queues and memory for every application and     *)
(*            many builds, on tiles with few and many nodes; and the       *)
(*            reading of small graphs for four tiles, from both kinds of   *)
(*            files;                                                       *)
(* and while it runs, three configurations of the data cache:              *)
(*   bfs      one thread; the tasks and arrays of BFS, whose lines are     *)
(*            shared by tiles, by arrays and by an array and the frontier  *)
(*            (the values in the .cfg file);                               *)
(*   vector   one thread; get_dcache() and write_dcache() on one vector;   *)
(*   threads  two threads with lines of their own and a common channel.    *)
(***************************************************************************)
EXTENDS Setup, GraphLoader, DataCache

VARIABLE conf

Plain == [APP |-> "SSSP", PROXY_FACTOR |-> 1, PROXY_ROUTING |-> 4, smt_per_tile |-> 1, TEST_QUEUES |-> 0,
          GLOBAL_BARRIER |-> 0, DCACHE |-> 1, FORCE_PROXY_RATIO |-> 0, SRAM_SIZE |-> 0]
apps == {"SSSP", "BFS", "WCC", "PAGE", "SPMV", "SPMM", "SPMV_FLEX", "HISTO", "FFT"}

QueueBuilds ==
  {[Plain EXCEPT !.APP = app, !.PROXY_FACTOR = p, !.PROXY_ROUTING = r, !.smt_per_tile = s, !.TEST_QUEUES = q,
                 !.GLOBAL_BARRIER = g] :
     app \in apps, p \in 1 .. 2, r \in {1, 4}, s \in {1, 4}, q \in {0, 1, 3}, g \in {0, 1, 3}}
(* Around the 4 to 11 thousand words that the queues of a tile take.       *)
MemoryBuilds ==
  {[Plain EXCEPT !.APP = app, !.PROXY_FACTOR = p, !.DCACHE = d, !.FORCE_PROXY_RATIO = f, !.SRAM_SIZE = w] :
     app \in {"SSSP", "SPMV", "SPMM"}, p \in {1, 2, 4}, d \in {0, 1, 2, 3, 5}, f \in {0, 2},
     w \in {4096, 6144, 8192, 11000, 20000}}
AllBuilds == QueueBuilds \cup MemoryBuilds
SomeGraphs == {<<37, 90>>, <<300, 2000>>, <<1000, 9000>>}

(* Each node has no edge, one or two; the last node of a TSV file has one. *)
Degrees == [0 .. 4 -> 0 .. 2] \cup {[n \in 0 .. 7 |-> n % 3], [n \in 0 .. 6 |-> 1]}
LinesOf(degree) ==
  LET out(n) == [j \in 1 .. degree[n] |-> <<n, (2 * n + 3 * j) % Cardinality(DOMAIN degree), 10 * n + j>>]
  IN FlattenSeq([k \in 1 .. Cardinality(DOMAIN degree) |-> out(k - 1)])
SomeFiles ==
  {f \in {[binary |-> b, orig_nodes |-> Cardinality(DOMAIN d), lines |-> LinesOf(d)] : b \in BOOLEAN, d \in Degrees} :
     f.lines # <<>> /\ (f.binary \/ Last(f.lines)[1] = f.orig_nodes - 1)}

-----------------------------------------------------------------------------
CONSTANTS w1, w2

(* BFS with 6 nodes and 3 edges on two tiles: ret, edge_array, node_array, *)
(* and behind them the frontier, the bitmap of which begins in mid-line.   *)
MCThreadOf == [c \in {0, 1} |-> w1]
MCChannelOf == [c \in {0, 1} |-> c]
MCArrays == {[base |-> 6, len |-> 3, per_tile |-> 2], [base |-> 9, len |-> 6, per_tile |-> 3]}

Vector == INSTANCE DataCache WITH
  BY_ADDRESS <- FALSE, SETS <- 1, ARRAYS <- {}, bitmap_len <- 0, MAX_TASKS <- 6

TwoThreads == INSTANCE DataCache WITH
  Threads <- {w1, w2}, ThreadOf <- [c \in {0, 1} |-> IF c = 0 THEN w1 ELSE w2],
  ChannelOf <- [c \in {0, 1} |-> 0], SETS <- 1, RET_PER_TILE <- 4, MAX_TASKS <- 5,
  ARRAYS <- {[base |-> 6, len |-> 4, per_tile |-> 2]}, bitmap_len <- 0

-----------------------------------------------------------------------------
none == "none"
NoLoader == /\ phase = none /\ file = none /\ SHUFFLE = none /\ i = none /\ node_ptr = none /\ node_array = none
            /\ edge_array = none /\ edge_values = none /\ pre = none /\ output = none
NoSetup == /\ stage = none /\ build = none /\ graph = none /\ queues = none /\ frontier = none
           /\ dataset_words_per_tile = none /\ memory = none
NoCache == /\ dcache_freq = <<>> /\ dcache_tags = <<>> /\ dcache_occupancy = <<>> /\ mc_transactions = <<>>
           /\ mc_writebacks = <<>> /\ dcache_misses = 0 /\ dcache_evictions = 0 /\ worker = <<>>
           /\ todo = <<>> /\ frontier_list = <<>> /\ unsaved = {} /\ begun = 0

InitAny ==
  \/ /\ conf = "setup" /\ NoCache
     /\ (InitSetup /\ NoLoader) \/ (InitLoader /\ NoSetup)
  \/ /\ NoSetup /\ NoLoader
     /\ \/ conf = "bfs"     /\ Init
        \/ conf = "vector"  /\ Vector!Init
        \/ conf = "threads" /\ TwoThreads!Init

NextAny ==
  /\ UNCHANGED conf
  /\ \/ conf = "setup" /\ stage # none /\ NextSetup  /\ UNCHANGED <<loader, vars>>
     \/ conf = "setup" /\ phase # none /\ NextLoader /\ UNCHANGED <<setup, vars>>
     \/ conf = "bfs"     /\ Next            /\ UNCHANGED <<setup, loader>>
     \/ conf = "vector"  /\ Vector!Next     /\ UNCHANGED <<setup, loader>>
     \/ conf = "threads" /\ TwoThreads!Next /\ UNCHANGED <<setup, loader>>

SpecAny == InitAny /\ [][NextAny]_<<setup, loader, vars, conf>>
-----------------------------------------------------------------------------
(* SizesSuffice and MemoryFits of Setup, GraphKept of GraphLoader, and     *)
(* OneHolder, ResultsKept and Accounted of DataCache, which speak of the   *)
(* tiles and lines there are, and so of all three configurations.          *)
=============================================================================
