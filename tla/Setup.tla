-------------------------------- MODULE Setup --------------------------------
(***************************************************************************)
(* The sizes main() sets up before a simulation, from the build options    *)
(* and the graph, in the order it does: config_app() of the application    *)
(* (apps/*.h), config_queue() (configs/config_queue.h) and                 *)
(* calculate_storage_per_tile() (mem/memory_util.h).  The options are the  *)
(* macros of the build; what an application does not set is UINT32_MAX     *)
(* until config_queue() sets it.                                           *)
(***************************************************************************)
EXTENDS CacheSizes, Sequences

CONSTANTS
  Builds,        \* the builds: records of options
  Graphs,        \* pairs <<nodePerTile, edgePerTile>>
  GRID_X, B_numcols, LOOP_CHUNK, code_size_in_words

unused_buffer == 6
UINT32_MAX == U32 - 1
frontier_apps == {"SSSP", "BFS", "WCC", "PAGE"}

VARIABLES
  stage,         \* what is done: "graph", "app", "queues", "storage"; or "stopped"
  build, graph,
  queues,        \* oq_sizes, iq_sizes, num_task_params, max_task_chunk, task1_dest
  frontier,      \* of get_frontier_size(); the list is fr_head_offset long
  dataset_words_per_tile,
  memory         \* what calculate_storage_per_tile() found

setup == <<stage, build, graph, queues, frontier, dataset_words_per_tile, memory>>

nodePerTile == graph[1]
edgePerTile == graph[2]
dest_qid == IF build.PROXY_FACTOR = 1 THEN 2 ELSE 3
io_factor_t2 == IF build.APP \notin {"SPMV", "HISTO", "SPMV_FLEX"} THEN 8
                ELSE IF build.smt_per_tile > 1 THEN 32 \div build.smt_per_tile ELSE 16
io_factor_t3 == IF build.PROXY_ROUTING = 1 THEN 1 ELSE io_factor_t2
t2_piped_tasks == 12 * build.smt_per_tile
t2_t3_ratio == build.smt_per_tile * IF build.TEST_QUEUES > 0 THEN 2^(build.TEST_QUEUES - 1) ELSE 16

InitSetup ==
  /\ stage = "graph" /\ build \in Builds /\ graph \in Graphs
  /\ queues = [oq |-> [q \in 0 .. 3 |-> UINT32_MAX], iq |-> [q \in 0 .. 3 |-> UINT32_MAX],
               params |-> <<3, 2, 2>>, chunk |-> UINT32_MAX, task1_dest |-> 1]
  /\ frontier = [list |-> 0, bitmap |-> 0]
  /\ dataset_words_per_tile = 0 /\ memory = <<>>
-----------------------------------------------------------------------------
(* The sizes T3 and T3' have with proxies: T3 keeps half, or what unused   *)
(* queues have.                                                            *)
t3_tasks(piped) == IF build.PROXY_FACTOR = 1 THEN piped
                   ELSE IF build.PROXY_ROUTING = 1 THEN unused_buffer ELSE piped \div 2
t3b_tasks(piped) == IF build.PROXY_FACTOR = 1 THEN 1 ELSE piped

(* get_frontier_size(): a list of blocks of 32 nodes, or of nodes when     *)
(* they are not coalesced.                                                 *)
frontier_size ==
  LET list == IF build.GLOBAL_BARRIER = 3 THEN u32(nodePerTile * 512)
              ELSE Max({nodePerTile \div 32, 32}) + 3
  IN [list |-> list, bitmap |-> (nodePerTile - 1) \div 32 + 1]

frontier_iq0 == CASE build.GLOBAL_BARRIER \in 1 .. 2 -> nodePerTile
                  [] build.GLOBAL_BARRIER = 3 -> frontier_size.list
                  [] OTHER -> UINT32_MAX

(* The words of the data set in a tile.                                    *)
dataset_words ==
  CASE build.APP = "SSSP" -> 2 * nodePerTile + 2 * edgePerTile
    [] build.APP \in {"BFS", "WCC"} -> 2 * nodePerTile + edgePerTile
    [] build.APP = "PAGE" -> 3 * nodePerTile + edgePerTile
    [] build.APP \in {"SPMV", "SPMV_FLEX"} -> 3 * nodePerTile + 2 * edgePerTile
    [] build.APP = "SPMM" -> 2 * nodePerTile * B_numcols + nodePerTile + 2 * edgePerTile
    [] build.APP = "HISTO" -> nodePerTile + edgePerTile
    [] build.APP = "FFT" -> 2 * GRID_X

(* SPMV_FLEX, HISTO and FFT have no T2, and size the queues of T3 (and     *)
(* T3') themselves.                                                        *)
without_t2(piped, params, chunk) ==
  LET oq2 == t3_tasks(piped) * params
      oq3 == t3b_tasks(piped) * params
      fft == build.APP = "FFT"
  IN [queues EXCEPT !.params = <<3, params, params>>, !.chunk = chunk, !.task1_dest = dest_qid,
                    !.oq = [@ EXCEPT ![1] = unused_buffer, ![2] = oq2, ![3] = IF fft THEN unused_buffer ELSE oq3],
                    !.iq = [@ EXCEPT ![1] = unused_buffer, ![2] = oq2 * io_factor_t3,
                                     ![3] = IF fft THEN unused_buffer ELSE oq3 * io_factor_t2]]

app_queues ==
  LET smt == build.smt_per_tile
      spmm == 3 * t2_piped_tasks * t2_t3_ratio
  IN CASE build.APP \in frontier_apps -> [queues EXCEPT !.iq[0] = frontier_iq0]
       [] build.APP = "SPMV" -> queues
       [] build.APP = "SPMM" -> [queues EXCEPT !.params = <<3, 3, 3>>, !.oq[2] = spmm, !.iq[2] = spmm * io_factor_t3]
       [] build.APP = "SPMV_FLEX" -> without_t2(64 * smt, 2, UINT32_MAX)
       [] build.APP = "HISTO" ->
            without_t2(8 * smt * IF build.TEST_QUEUES > 0 THEN 2^(build.TEST_QUEUES - 1) ELSE 4, 2, LOOP_CHUNK)
       [] build.APP = "FFT" -> without_t2(8 * smt, 2, UINT32_MAX)

config_app ==
  LET fits == build.APP # "FFT" \/ build.PROXY_FACTOR = 1
      listed == build.APP \in frontier_apps
  IN /\ stage = "graph"
     /\ stage' = IF fits THEN "app" ELSE "stopped"
     /\ queues' = IF fits THEN app_queues ELSE queues
     /\ frontier' = IF listed THEN frontier_size ELSE frontier
     /\ dataset_words_per_tile' = dataset_words + IF listed THEN frontier_size.bitmap + frontier_size.list + 3 ELSE 0
     /\ UNCHANGED <<build, graph, memory>>

set_conf(a, b) == IF a = UINT32_MAX THEN b ELSE a

(* Half of the output queue for one message; HISTO has set its own.        *)
(* Fault: all of it.                                                       *)
chunk_full(oq, params) == Min({oq[dest_qid] \div params[2], LOOP_CHUNK})
chunk_half(oq, params) == Min({(oq[dest_qid] \div 2) \div params[2], LOOP_CHUNK})

config_queue ==
  LET piped == t2_piped_tasks * t2_t3_ratio
      params == queues.params
      oq == [q \in 0 .. 3 |->
               set_conf(queues.oq[q], CASE q = 0 -> unused_buffer
                                        [] q = 1 -> t2_piped_tasks * params[1]
                                        [] q = 2 -> t3_tasks(piped) * params[2]
                                        [] q = 3 -> t3b_tasks(piped) * params[3])]
      iq == [q \in 0 .. 3 |->
               set_conf(queues.iq[q], CASE q = 0 -> 64
                                        [] q = 1 -> oq[1] * io_factor_t2
                                        [] q = 2 -> oq[2] * io_factor_t3
                                        [] q = 3 -> oq[3] * IF build.PROXY_FACTOR = 1 THEN 1 ELSE io_factor_t2)]
      fits == /\ build.PROXY_FACTOR > 1 => params[2] = 2 /\ params[3] = 2
              /\ queues.oq[dest_qid] >= 16 /\ io_factor_t2 > 0
  IN /\ stage = "app"
     /\ stage' = IF fits THEN "queues" ELSE "stopped"
     /\ queues' = [queues EXCEPT !.oq = oq, !.iq = iq, !.chunk = set_conf(@, chunk_half(oq, params))]
     /\ UNCHANGED <<build, graph, frontier, dataset_words_per_tile, memory>>

(* What the queues, the code and, without a data cache, the data set need  *)
(* is there even if SRAM_SIZE is less.                                     *)
max_sram(reserved, dataset) ==
  IF build.SRAM_SIZE <= 1 THEN UINT32_MAX
  ELSE LET most == Max({build.SRAM_SIZE, reserved})
           proxys == IF build.PROXY_FACTOR > 1 THEN 256 * 16 ELSE 0
       IN IF build.DCACHE = 0 THEN Max({most, reserved + proxys + dataset}) ELSE most

calculate_storage_per_tile ==
  LET proxied == build.PROXY_FACTOR > 1
      active == 1 .. IF proxied THEN 3 ELSE 2
      proxys == IF proxied THEN nodePerTile * build.PROXY_FACTOR * build.PROXY_FACTOR ELSE 0
      input == MapThenSumSet(LAMBDA q : queues.iq[q], active)
      output == MapThenSumSet(LAMBDA q : queues.oq[q], active)
      dataset == line_words * ((dataset_words_per_tile + line_words - 1) \div line_words)
      reserved == input + output + code_size_in_words
      found == setup_cache_sizes(build, max_sram(reserved, dataset), dataset, proxys, reserved, input)
  IN /\ stage = "queues"
     /\ stage' = IF found.stopped THEN "stopped" ELSE "storage"
     /\ dataset_words_per_tile' = dataset
     /\ memory' = found
     /\ UNCHANGED <<build, graph, queues, frontier>>

NextSetup == config_app \/ config_queue \/ calculate_storage_per_tile
-----------------------------------------------------------------------------
(* The least room in an output queue before the unit runs T1, T2 and T3'   *)
(* (network/tsu_core_thread.h:176-188).                                    *)
Needed == LET q == queues
          IN {<<q.task1_dest, 8>>}
             \cup (IF q.task1_dest = 1 THEN {<<dest_qid, q.chunk * q.params[dest_qid] + 2>>} ELSE {})
             \cup (IF build.PROXY_FACTOR > 1 THEN {<<2, q.params[2]>>} ELSE {})

(* No size makes a task wait forever: an empty output queue is room enough *)
(* for the longest output of each task that fills it, a message fits in    *)
(* the queue that it goes to, and every block of the bitmap in the list of *)
(* the frontier at once.  (The assertion on oq_sizes at config_queue.h:81  *)
(* is too early to see any size but those the application has set.)        *)
SizesSuffice ==
  stage \in {"queues", "storage"} =>
    /\ \A n \in Needed : queues.oq[n[1]] > n[2] /\ queues.iq[n[1]] >= queues.params[n[1]]
    /\ queues.oq[dest_qid] >= 16 /\ queues.iq[dest_qid] >= queues.params[dest_qid]
    /\ queues.iq[0] > 0 /\ queues.chunk > 0
    /\ build.APP \in frontier_apps /\ build.GLOBAL_BARRIER # 3 => frontier.bitmap < frontier.list

(* The parts of a tile's memory add up to it: no difference has wrapped,   *)
(* which assert(remaining_sram_words>=0) cannot tell (memory_util.h:195).  *)
(* What is not cached is there in full, proxies have a line of a cache at  *)
(* least, and the data cache is not smaller than what was reserved for it  *)
(* before the proxies got theirs.                                          *)
MemoryFits ==
  stage = "storage" =>
    LET m == memory
        proxys == nodePerTile * build.PROXY_FACTOR * build.PROXY_FACTOR
        sets == m.reserved \div (CACHE_WAYS * line_words)
        least == Min({sets * CACHE_WAYS * line_words, dataset_words_per_tile})
    IN /\ m.taken + m.pcache.space + m.dcache.space + m.unused = m.max
       /\ m.dcache.cached \/ m.dcache.data = dataset_words_per_tile
       /\ build.PROXY_FACTOR > 1 => m.pcache.data > 0 /\ (m.pcache.cached \/ m.pcache.data = proxys)
       /\ m.dcache.data >= least
       /\ build.DCACHE >= 3 => m.unused >= least
=============================================================================
