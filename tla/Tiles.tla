-------------------------------- MODULE Tiles --------------------------------
(***************************************************************************)
(* What the graph applications share: the data set cut over the tiles, the *)
(* queues of tasks T1, T2 and T3 of a tile, task1_helper(), which cuts the *)
(* edges of a node in pieces, the choice of the task a tile runs next      *)
(* (tsu_core_thread.h), and the network between the queues.                *)
(*                                                                         *)
(* A message is one element of a queue here; capacities are in flits.      *)
(* Between an output queue and the input queue it feeds a message is on    *)
(* its way for any time: two with the same source and destination keep     *)
(* their order, others need not.  No proxies, so task 3' never runs.       *)
(***************************************************************************)
EXTENDS Integers, Sequences, FiniteSets, SequencesExt

CONSTANTS
  APP,             \* "SSSP", "WCC", "SPMV", "SPMM", "SPMV_FLEX" or "HISTO"
  GRID_SIZE, nodePerTile, edgePerTile,
  node_array,      \* node_array[n]: the first edge of node n
  edge_array,      \* edge_array[e]: the node that edge e leads to
  edge_values,     \* edge_values[e]: its length, or value
  LOOP_CHUNK,      \* the longest piece of edges in a message
  oq_sizes, iq_sizes \* lengths of the queues of tasks 1 and 2; iq_sizes[0] of task 0

tiles == 0 .. GRID_SIZE - 1
nodes == 0 .. GRID_SIZE * nodePerTile - 1
edges == 0 .. node_array[GRID_SIZE * nodePerTile] - 1

(* config_app() of SPMM: three parameters for T3.                          *)
num_task_params == [q \in 1 .. 2 |-> IF q = 1 \/ APP = "SPMM" THEN 3 ELSE 2]
(* The queue that T1 fills: T2's, or T3's at once.                         *)
task1_dest == IF APP \in {"SPMV_FLEX", "HISTO"} THEN 2 ELSE 1

ASSUME TilesAssumption ==
  /\ APP \in {"SSSP", "WCC", "SPMV", "SPMM", "SPMV_FLEX", "HISTO"}
  /\ {GRID_SIZE, nodePerTile, edgePerTile, LOOP_CHUNK} \subseteq Nat \ {0}
  /\ node_array \in [0 .. GRID_SIZE * nodePerTile -> Nat] /\ node_array[0] = 0
  /\ \A n \in nodes : node_array[n] <= node_array[n + 1]
  /\ edge_array \in [edges -> nodes] /\ edge_values \in [edges -> Nat]
  /\ \A e \in edges : e \div edgePerTile \in tiles
  /\ oq_sizes \in [1 .. 2 -> Nat] /\ iq_sizes \in [0 .. 2 -> Nat]
  /\ iq_sizes[0] > 0 /\ oq_sizes[2] >= 2 * num_task_params[2]

(* The elements of a finite set of numbers, in ascending order.            *)
Ascending(S) == [i \in 1 .. Cardinality(S) |-> CHOOSE e \in S : Cardinality({c \in S : c <= e}) = i]

OwnerOfNode(n) == n \div nodePerTile
OwnerOfEdge(e) == e \div edgePerTile
NodesOf(t) == {n \in nodes : OwnerOfNode(n) = t}
HasEdges(n) == node_array[n] < node_array[n + 1]

(* config_queue(): the longest piece of edges whose messages fit in half   *)
(* of the output queue of task 2.                                          *)
(* Fault: of the whole queue.                                              *)
max_task_chunk_full == Min({oq_sizes[2] \div num_task_params[2], LOOP_CHUNK})
max_task_chunk == IF APP = "HISTO" THEN LOOP_CHUNK
                  ELSE Min({(oq_sizes[2] \div 2) \div num_task_params[2], LOOP_CHUNK})

VARIABLES
  ret,      \* the result array
  parked,   \* parked[t]: what is left to T1 (global_params 0 to 3), or <<>>
  iq0,      \* iq0[t]: the input queue of T1
  iq,       \* iq[<<t, q>>]: the input queues of T2 and T3
  oq,       \* oq[<<t, q>>]: the output queues that feed them
  wire      \* wire[<<s, d, q>>]: messages on their way from tile s to tile d

InitQueues ==
  /\ parked = [t \in tiles |-> <<>>]
  /\ iq = [k \in tiles \X (1 .. 2) |-> <<>>]
  /\ oq = [k \in tiles \X (1 .. 2) |-> <<>>]
  /\ wire = [k \in tiles \X tiles \X (1 .. 2) |-> <<>>]

oq_room(t, q) == oq_sizes[q] - num_task_params[q] * Len(oq[<<t, q>>])
iq_room(t, q) == iq_sizes[q] - num_task_params[q] * Len(iq[<<t, q>>])
-----------------------------------------------------------------------------
(* Cutting the edges first .. last - 1 in pieces, at the ends of tiles.    *)

(* Where they are cut: each piece begins where the one before ends, and is *)
(* a chunk long if the tile and the edges go on as far.                    *)
(* Fault: pieces are not cut at the end of a tile.                         *)
CutsLong(first, last) == {e \in first + 1 .. last : e = last \/ (e - first) % max_task_chunk = 0}
Cuts(first, last) ==
  {e \in first + 1 .. last :
     LET begin == Max({first, edgePerTile * OwnerOfEdge(e - 1)})
     IN e = last \/ e % edgePerTile = 0 \/ (e - begin) % max_task_chunk = 0}

(* Fault: what is left is forgotten.                                       *)
ParkNothing(first, last, value) == <<>>
Park(first, last, value) ==
  IF first < last THEN <<[first |-> first, last |-> last, value |-> value]>> ELSE <<>>

(* task1_helper(): the pieces that fit in a room of so many flits, and     *)
(* what is left to park.                                                   *)
task1_helper(room, first, last, value) ==
  LET cuts == Ascending(Cuts(first, last))
      cut(i) == IF i = 0 THEN first ELSE cuts[i]
      count == Min({room \div num_task_params[1], Len(cuts)})
  IN [sent |-> [i \in 1 .. count |-> [first |-> cut(i - 1), last |-> cut(i), value |-> value]],
      left |-> Park(cut(count), last, value)]
-----------------------------------------------------------------------------
(* The turn of a tile.  Tasks are numbered from 0 (T1) to 2 (T3).          *)

(* Fault: T2 only asks for room for one message.                           *)
runnable_tight(t, i) == CASE i = 0 -> iq0[t] # <<>> /\ oq_room(t, task1_dest) > 8
                          [] i = 1 -> iq[<<t, 1>>] # <<>> /\ oq_room(t, 2) >= num_task_params[2]
                          [] i = 2 -> iq[<<t, 2>>] # <<>>
runnable(t, i) ==
  CASE i = 0 -> iq0[t] # <<>> /\ oq_room(t, task1_dest) > 8
    [] i = 1 -> iq[<<t, 1>>] # <<>> /\ oq_room(t, 2) > max_task_chunk * num_task_params[2] + 2
    [] i = 2 -> iq[<<t, 2>>] # <<>>

output_pri(t, i) == i = 1 /\ iq[<<t, 1>>] # <<>> /\ oq[<<t, 2>>] = <<>>
input_not_almost_full(t, i) == iq_room(t, i) > iq_sizes[i] \div 4

(* A task waits for later ones that are ready and urgent.                  *)
Ready(t, i) ==
  LET later == i + 1 .. 2
  IN /\ runnable(t, i)
     /\ \/ \A j \in later : input_not_almost_full(t, j) /\ ~output_pri(t, j)
        \/ \A j \in later : ~runnable(t, j)

ReadyTasks(t) == {i \in 0 .. 2 : Ready(t, i)}

pu_idle(t) == iq0[t] = <<>> /\ \A q \in 1 .. 2 : iq[<<t, q>>] = <<>> /\ oq[<<t, q>>] = <<>>
-----------------------------------------------------------------------------
(* The network: one message per pair of tiles and channel is on its way.   *)
Owner(q, m) == IF q = 1 THEN OwnerOfEdge(m.first) ELSE OwnerOfNode(m.node)

Inject(t, q) ==
  /\ oq[<<t, q>>] # <<>>
  /\ LET m == Head(oq[<<t, q>>])
         k == <<t, Owner(q, m), q>>
     IN wire[k] = <<>> /\ wire' = [wire EXCEPT ![k] = <<m>>]
  /\ oq' = [oq EXCEPT ![<<t, q>>] = Tail(@)]
  /\ UNCHANGED <<ret, parked, iq0, iq>>

Deliver(s, d, q) ==
  /\ wire[<<s, d, q>>] # <<>> /\ iq_room(d, q) >= num_task_params[q]
  /\ iq' = [iq EXCEPT ![<<d, q>>] = Append(@, Head(wire[<<s, d, q>>]))]
  /\ wire' = [wire EXCEPT ![<<s, d, q>>] = <<>>]
  /\ UNCHANGED <<ret, parked, iq0, oq>>

QueuesEmpty == /\ \A t \in tiles : pu_idle(t)
               /\ \A k \in DOMAIN wire : wire[k] = <<>>

(* check_range(): a tile only gets pieces of its own edges, not empty and  *)
(* not longer than a chunk, wherever a node's edges lie.                   *)
RangesLocal == \A t \in tiles : \A i \in DOMAIN iq[<<t, 1>>] :
                  LET m == iq[<<t, 1>>][i]
                  IN /\ m.first < m.last /\ m.last - m.first <= max_task_chunk
                     /\ OwnerOfEdge(m.first) = t /\ OwnerOfEdge(m.last - 1) = t
=============================================================================
