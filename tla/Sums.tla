-------------------------------- MODULE Sums --------------------------------
(***************************************************************************)
(* The applications that go through the data set once and add into the     *)
(* result: SPMV, SPMV_FLEX and SPMM (sparse matrix times vector or matrix) *)
(* and HISTO (a histogram of edge_array), on the queues of Tiles.  T1      *)
(* walks over the nodes (HISTO: the edges) of its tile until the output    *)
(* queue is full, and puts the place to go on at in its own queue.         *)
(* Sources: apps/spmv.h, apps/spmv_flex.h, apps/spmm.h, apps/histo.h.      *)
(***************************************************************************)
EXTENDS Tiles

CONSTANTS
  B_numcols,    \* columns of the dense matrix of SPMM; 1 for the others
  dense_value   \* every element of the dense vector or matrix

sums == <<ret, parked, iq0, iq, oq, wire>>
columns == 0 .. B_numcols - 1

(* task_init(): a first invocation of T1, for the first node or edge.      *)
InitSums ==
  /\ ret = [k \in nodes \X columns |-> 0]
  /\ iq0 = [t \in tiles |-> <<IF APP = "HISTO" THEN edgePerTile * t ELSE nodePerTile * t>>]
  /\ InitQueues
-----------------------------------------------------------------------------
(* T1.                                                                     *)

Told(e, value) ==
  [node |-> edge_array[e], value |-> IF APP = "SPMM" THEN edge_values[e] ELSE value * edge_values[e]]

(* iterate() of SPMV_FLEX: T1 tells T3 itself, as many edges as fit.       *)
iterate(room, first, last, value) ==
  LET count == Min({last - first, room \div 2})
  IN [sent |-> [i \in 1 .. count |-> Told(first + i - 1, value)],
      left |-> Park(first + count, last, value)]

Send(room, first, last, value) ==
  IF APP = "SPMV_FLEX" THEN iterate(room, first, last, value) ELSE task1_helper(room, first, last, value)

(* Resuming leaves the node to go on with in the queue.                    *)
T1Resume(t) ==
  /\ parked[t] # <<>>
  /\ LET p == parked[t][1]
         sending == Send(oq_room(t, task1_dest), p.first, p.last, p.value)
     IN /\ oq' = [oq EXCEPT ![<<t, task1_dest>>] = @ \o sending.sent]
        /\ parked' = [parked EXCEPT ![t] = sending.left]
  /\ UNCHANGED iq0

(* The edges of one node after another, until some are left.               *)
AfterNode(t, s) ==
  LET room == oq_room(t, task1_dest) - num_task_params[task1_dest] * Len(s.sent)
      sending == Send(room, node_array[s.node], node_array[s.node + 1], dense_value)
  IN IF HasEdges(s.node)
     THEN [sent |-> s.sent \o sending.sent, left |-> sending.left, node |-> s.node + 1]
     ELSE [s EXCEPT !.node = @ + 1]

(* Fault: nothing to go on at when the last node of the tile is parked.    *)
GoOnUnlessDone(done, left) == ~done
GoOn(done, left) == ~done \/ left # <<>>

T1Nodes(t) ==
  LET nodeEnd == nodePerTile * (t + 1) - 1
      stop(x) == x.left # <<>> \/ x.node > nodeEnd
      walk[i \in 0 .. nodePerTile] ==
        IF i = 0 THEN [sent |-> <<>>, left |-> <<>>, node |-> Head(iq0[t])]
        ELSE LET s == walk[i - 1] IN IF stop(s) THEN s ELSE AfterNode(t, s)
  IN /\ parked[t] = <<>>
     /\ \E end \in {walk[nodePerTile]} :
          /\ oq' = [oq EXCEPT ![<<t, task1_dest>>] = @ \o end.sent]
          /\ parked' = [parked EXCEPT ![t] = end.left]
          /\ iq0' = [iq0 EXCEPT ![t] = Tail(@) \o IF GoOn(end.node > nodeEnd, end.left) THEN <<end.node>> ELSE <<>>]

(* HISTO tells T3 the edges of its tile.  The first one is taken without a *)
(* test: a tile behind the last edge goes on until its queue or the chunk  *)
(* is full, and reads what happens to lie behind the array.                *)
T1Edges(t) ==
  LET elem == Head(iq0[t])
      end == Min({edgePerTile * (t + 1), Cardinality(edges)}) - 1
      most == Min({max_task_chunk, oq_room(t, 2) \div num_task_params[2]})
      next == elem + IF elem <= end THEN Min({end - elem + 1, most}) ELSE most
  IN /\ \E beyond \in [(elem .. next - 1) \ edges -> nodes] :
          oq' = [oq EXCEPT ![<<t, 2>>] = @ \o [i \in 1 .. next - elem |->
                   LET e == elem + i - 1
                   IN [node |-> IF e \in edges THEN edge_array[e] ELSE beyond[e], value |-> 1]]]
     /\ iq0' = [iq0 EXCEPT ![t] = Tail(@) \o IF next <= end THEN <<next>> ELSE <<>>]
     /\ UNCHANGED parked

T1(t) == /\ \/ APP = "HISTO" /\ T1Edges(t)
            \/ APP # "HISTO" /\ (T1Resume(t) \/ T1Nodes(t))
         /\ UNCHANGED <<ret, iq>>
-----------------------------------------------------------------------------
(* T2 begins at some edge of its piece, and ends with those before.        *)
Rotated(first, last) == LET pivot == first + (first % (last - first))
                        IN [i \in 1 .. last - first |->
                              IF pivot + i - 1 < last THEN pivot + i - 1 ELSE pivot + i - 1 - (last - first)]

T2(t) ==
  LET m == Head(iq[<<t, 1>>])
      order == Rotated(m.first, m.last)
  IN /\ iq' = [iq EXCEPT ![<<t, 1>>] = Tail(@)]
     /\ oq' = [oq EXCEPT ![<<t, 2>>] = @ \o [i \in DOMAIN order |-> Told(order[i], m.value)]]
     /\ UNCHANGED <<ret, parked, iq0>>

(* T3 adds; SPMM adds to a row, multiplied with the dense matrix.          *)
Share(m) == IF APP = "SPMM" THEN m.value * dense_value ELSE m.value

T3(t) ==
  LET m == Head(iq[<<t, 2>>])
  IN /\ iq' = [iq EXCEPT ![<<t, 2>>] = Tail(@)]
     /\ ret' = [k \in DOMAIN ret |-> IF k[1] = m.node THEN ret[k] + Share(m) ELSE ret[k]]
     /\ UNCHANGED <<parked, iq0, oq>>

Turn(t) ==
  /\ ReadyTasks(t) # {}
  /\ LET next == Min(ReadyTasks(t))
     IN \/ next = 0 /\ T1(t)
        \/ next = 1 /\ T2(t)
        \/ next = 2 /\ T3(t)
  /\ UNCHANGED wire

NextSums == \/ \E t \in tiles : Turn(t)
            \/ \E t \in tiles, q \in 1 .. 2 : Inject(t, q)
            \/ \E s, d \in tiles, q \in 1 .. 2 : Deliver(s, d, q)

SumsSpec == InitSums /\ [][NextSums]_sums
-----------------------------------------------------------------------------
(* The tasks enqueue without a test what the unit let them: no queue holds *)
(* more than its size.                                                     *)
SumsFit == \A t \in tiles : /\ Len(iq0[t]) <= iq_sizes[0] /\ Len(parked[t]) <= 1
                            /\ \A q \in 1 .. 2 : oq_room(t, q) >= 0 /\ iq_room(t, q) >= 0

Product(e) == IF APP = "HISTO" THEN 1 ELSE dense_value * edge_values[e]
(* What the edges first .. last - 1 add to node n.                         *)
Products(n, first, last) ==
  LET sum[e \in first .. last] ==
        IF e <= first THEN 0 ELSE sum[e - 1] + IF edge_array[e - 1] = n THEN Product(e - 1) ELSE 0
  IN IF first < last THEN sum[last] ELSE 0

(* What the edges of tile t that T1 has still to go through add to it: the *)
(* parked ones, and those from the place where it goes on.                 *)
Unsent(t, n) ==
  LET p == parked[t][1]
      from == Head(iq0[t])
  IN (IF parked[t] = <<>> THEN 0 ELSE Products(n, p.first, p.last))
     + IF iq0[t] = <<>> THEN 0
       ELSE IF APP = "HISTO" THEN Products(n, from, Min({edgePerTile * (t + 1), Cardinality(edges)}))
       ELSE Products(n, node_array[from], node_array[nodePerTile * (t + 1)])

(* All messages to task q + 1, wherever they are.                          *)
Messages(q) ==
  LET at[i \in 0 .. GRID_SIZE] ==
        IF i = 0 THEN <<>> ELSE at[i - 1] \o oq[<<i - 1, q>>] \o iq[<<i - 1, q>>]
      on[i \in 0 .. GRID_SIZE * GRID_SIZE] ==
        IF i = 0 THEN <<>> ELSE on[i - 1] \o wire[<<(i - 1) \div GRID_SIZE, (i - 1) % GRID_SIZE, q>>]
  IN at[GRID_SIZE] \o on[GRID_SIZE * GRID_SIZE]

Total(f) == LET sum[i \in 0 .. Len(f)] == IF i = 0 THEN 0 ELSE sum[i - 1] + f[i] IN sum[Len(f)]

(* Each product is added exactly once: what a node has, and what is on its *)
(* way to it, always sum up to its result, whatever parks or overtakes.    *)
NothingLost ==
  LET pieces == Messages(1)
      shares == Messages(2)
  IN \A n \in nodes :
       LET due == Products(n, 0, Cardinality(edges))
                  - Total([i \in 1 .. GRID_SIZE |-> Unsent(i - 1, n)])
                  - Total([i \in DOMAIN pieces |-> Products(n, pieces[i].first, pieces[i].last)])
                  - Total([i \in DOMAIN shares |-> IF shares[i].node = n THEN Share(shares[i]) ELSE 0])
       IN \A c \in columns : ret[<<n, c>>] = due

FinishedSums == QueuesEmpty

(* In the end every row has its result (compare_out_histo() of             *)
(* graph_loader.h counts edge_array again and compares).                   *)
RightSums == FinishedSums => \A k \in DOMAIN ret : ret[k] = Products(k[1], 0, Cardinality(edges))
=============================================================================
