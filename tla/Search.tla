------------------------------- MODULE Search -------------------------------
(***************************************************************************)
(* A graph application with a frontier on the tiles: the tasks T1 (explore *)
(* the edges of a node), T2 (send its value along a piece of its edges),   *)
(* T3 (take a better value) and T4 (explore the frontier), the frontier    *)
(* they share, and the turn of a tile.                                     *)
(* Sources: apps/frontier_common.h, apps/sssp.h, apps/wcc.h and the tile's *)
(* turn in tsu_core_thread.h.                                              *)
(***************************************************************************)
EXTENDS Tiles

CONSTANTS
  GLOBAL_BARRIER,  \* 0: a tile explores when idle, 1: once per epoch
  INF,             \* the initial value of a node
  BLOCK,           \* nodes per word of the bitmap (32)
  EXPLORE          \* EXPLORE_FRONTIER_ID (16)

ASSUME SearchAssumption ==
  /\ APP \in {"SSSP", "WCC"} /\ GLOBAL_BARRIER \in {0, 1}
  /\ {BLOCK, EXPLORE} \subseteq Nat \ {0} /\ INF \in Nat
  /\ APP = "WCC" => \A n \in nodes : n < INF

Weight(e) == IF APP = "WCC" THEN 0 ELSE edge_values[e]

(* get_frontier_size(): blocks of a tile, and slots of its circular list.  *)
bitmap_len == (nodePerTile - 1) \div BLOCK + 1
fr_head_offset == Max({nodePerTile \div BLOCK, BLOCK}) + 3
(* With a barrier the whole frontier must fit in the queue of task 1.      *)
iq0_size == IF GLOBAL_BARRIER = 1 THEN nodePerTile ELSE iq_sizes[0]
Block(n) == (n % nodePerTile) \div BLOCK

VARIABLES
  bitmap,   \* bitmap[t][b]: the nodes of block b in the frontier of tile t
  fr,       \* fr[t]: the circular list of its blocks
  seeding,  \* seeding[t]: T1 still goes through the nodes (global_params 4)
  epoch_begin

vars  == <<ret, bitmap, fr, parked, seeding, iq0, iq, oq, wire, epoch_begin>>

Node(n) == [kind |-> "node", node |-> n]
Seed(n) == [kind |-> "seed", node |-> n]

Init ==
  /\ ret = [n \in nodes |-> IF APP = "SSSP" /\ n = 0 THEN 0 ELSE INF]
  /\ bitmap = [t \in tiles |-> [b \in 0 .. bitmap_len - 1 |-> {}]]
  /\ fr = [t \in tiles |-> [list |-> [i \in 0 .. fr_head_offset - 1 |-> 0], head |-> 0, tail |-> 0]]
  /\ seeding = [t \in tiles |-> APP = "WCC"]
  /\ iq0 = [t \in tiles |-> IF APP = "WCC" THEN <<Seed(nodePerTile * t)>>
                             ELSE IF t = 0 THEN <<Node(0)>> ELSE <<>>]
  /\ InitQueues
  /\ epoch_begin = [t \in tiles |-> 0]
-----------------------------------------------------------------------------
(* Fault: the list never wraps.                                            *)
frontier_occ_straight(t) == IF fr[t].head < fr[t].tail THEN 0 ELSE fr[t].head - fr[t].tail
(* calculate_frontier_occ()                                                *)
frontier_occ(t) == LET f == fr[t]
                   IN IF f.head < f.tail THEN fr_head_offset - (f.tail - f.head) ELSE f.head - f.tail
Listed(t) == [i \in 1 .. frontier_occ(t) |-> fr[t].list[(fr[t].tail + i - 1) % fr_head_offset]]
-----------------------------------------------------------------------------
(* T1: send the pieces that fit, and park the rest.                        *)
Send(t, first, last, value) ==
  LET helped == task1_helper(oq_room(t, 1), first, last, value)
  IN /\ oq' = [oq EXCEPT ![<<t, 1>>] = @ \o helped.sent]
     /\ parked' = [parked EXCEPT ![t] = helped.left]

Explore(t, n, value) == Send(t, node_array[n], node_array[n + 1], value)

(* The node stays in front until all of its edges were sent.               *)
Popped(t, left) == IF seeding[t] \/ left # <<>> THEN iq0[t] ELSE Tail(iq0[t])

T1Resume(t) ==
  /\ parked[t] # <<>>
  /\ Send(t, parked[t][1].first, parked[t][1].last, parked[t][1].value)
  /\ iq0' = [iq0 EXCEPT ![t] = Popped(t, parked'[t])]
  /\ UNCHANGED <<ret, seeding>>

(* WCC: the next node of the tile that has no label yet gets its own.      *)
T1Seed(t) ==
  LET unseen == {n \in NodesOf(t) : n >= Head(iq0[t]).node /\ ret[n] = INF}
      n == Min(unseen)
  IN /\ parked[t] = <<>> /\ seeding[t]
     /\ \/ /\ unseen = {}
           /\ iq0' = [iq0 EXCEPT ![t] = Tail(@)]
           /\ seeding' = [seeding EXCEPT ![t] = FALSE]
           /\ UNCHANGED <<ret, oq, parked>>
        \/ /\ unseen # {}
           /\ iq0' = [iq0 EXCEPT ![t] = Append(Tail(@), Seed(n))]
           /\ ret' = [ret EXCEPT ![n] = n]
           /\ Explore(t, n, n)
           /\ UNCHANGED seeding

(* SSSP leaves a node without edges where it is, in front of the queue.    *)
T1Node(t) ==
  LET n == Head(iq0[t]).node IN
  /\ parked[t] = <<>> /\ ~seeding[t]
  /\ \/ /\ APP = "SSSP" /\ ~HasEdges(n)
        /\ UNCHANGED <<oq, parked, iq0>>
     \/ /\ APP = "WCC" \/ HasEdges(n)
        /\ Explore(t, n, ret[n])
        /\ iq0' = [iq0 EXCEPT ![t] = Popped(t, parked'[t])]
  /\ UNCHANGED <<ret, seeding>>

T1(t) == /\ T1Resume(t) \/ T1Seed(t) \/ T1Node(t)
         /\ UNCHANGED <<bitmap, fr, iq>>
-----------------------------------------------------------------------------
(* T2: send the value along the edges; nodes without edges are not told.   *)
T2(t) ==
  LET m == Head(iq[<<t, 1>>])
      told == Ascending({e \in m.first .. m.last - 1 : HasEdges(edge_array[e])})
  IN /\ iq' = [iq EXCEPT ![<<t, 1>>] = Tail(@)]
     /\ oq' = [oq EXCEPT ![<<t, 2>>] = @ \o
          [i \in DOMAIN told |-> [node |-> edge_array[told[i]], value |-> m.value + Weight(told[i])]]]
     /\ UNCHANGED <<ret, bitmap, fr, parked, seeding, iq0>>

(* add_to_frontier(): list the block when its word was zero, set the bit.  *)
add_to_frontier_list(t, b) ==
  IF bitmap[t][b] # {} THEN fr[t]
  ELSE [fr[t] EXCEPT !.list[fr[t].head] = b, !.head = (@ + 1) % fr_head_offset]

(* T3: take a better value, and explore its node again.                    *)
T3(t) ==
  LET m == Head(iq[<<t, 2>>]) IN
  /\ iq' = [iq EXCEPT ![<<t, 2>>] = Tail(@)]
  /\ IF m.value < ret[m.node]
     THEN /\ ret' = [ret EXCEPT ![m.node] = m.value]
          /\ fr' = [fr EXCEPT ![t] = add_to_frontier_list(t, Block(m.node))]
          /\ bitmap' = [bitmap EXCEPT ![t][Block(m.node)] = @ \union {m.node}]
     ELSE UNCHANGED <<ret, fr, bitmap>>
  /\ UNCHANGED <<parked, seeding, iq0, oq>>

Left(t, moved) == [b \in DOMAIN bitmap[t] |-> bitmap[t][b] \ moved]

(* T4: move nodes from the frontier to T1's queue, as many as fit: block   *)
(* after block, and in a block the last node first.  A block leaves the    *)
(* list when its last node has gone.                                       *)
Ahead(blocks, n) ==
  {m \in nodes : \E i, j \in DOMAIN blocks : /\ m \in blocks[i] /\ n \in blocks[j]
                                            /\ (i < j \/ (i = j /\ m > n))}
Done(t, blocks, left) == Cardinality({i \in DOMAIN blocks : left[blocks[i]] = {}})

T4(t) ==
  LET blocks   == Listed(t)
      ahead(n) == Cardinality(Ahead([i \in DOMAIN blocks |-> bitmap[t][blocks[i]]], n))
      moved    == {n \in UNION {bitmap[t][b] : b \in ToSet(blocks)} : ahead(n) < iq0_size - Len(iq0[t])}
      left     == Left(t, moved)
  IN /\ iq0' = [iq0 EXCEPT ![t] = @ \o
          [i \in 1 .. Cardinality(moved) |-> Node(CHOOSE n \in moved : ahead(n) = i - 1)]]
     /\ bitmap' = [bitmap EXCEPT ![t] = left]
     /\ fr' = [fr EXCEPT ![t].tail = (@ + Done(t, blocks, left)) % fr_head_offset]
     /\ UNCHANGED <<ret, parked, seeding, iq, oq>>
-----------------------------------------------------------------------------
(* Without a barrier, a tile explores its frontier after some idle turns.  *)
Turns(t) == IF GLOBAL_BARRIER = 1 THEN epoch_begin[t]
            ELSE IF pu_idle(t) THEN Min({epoch_begin[t] + 1, EXPLORE}) ELSE 0

frontier_active(t) == frontier_occ(t) > 0 /\ Turns(t) >= EXPLORE

Run(t) == /\ ReadyTasks(t) # {}
          /\ LET next == Min(ReadyTasks(t))
             IN \/ next = 0 /\ T1(t)
                \/ next = 1 /\ T2(t)
                \/ next = 2 /\ T3(t)
          /\ epoch_begin' = [epoch_begin EXCEPT ![t] = Turns(t)]

ExploreFrontier(t) ==
  /\ ReadyTasks(t) = {} /\ frontier_active(t)
  /\ T4(t)
  /\ epoch_begin' = [epoch_begin EXCEPT ![t] = 0]

Idle(t) == /\ ReadyTasks(t) = {} /\ ~frontier_active(t)
           /\ epoch_begin' = [epoch_begin EXCEPT ![t] = Turns(t)]
           /\ UNCHANGED <<ret, bitmap, fr, parked, seeding, iq0, iq, oq>>

Visit(t) == (Run(t) \/ ExploreFrontier(t) \/ Idle(t)) /\ UNCHANGED wire
-----------------------------------------------------------------------------
(* The network leaves the frontier alone.                                 *)
InjectAny(t, q)     == Inject(t, q) /\ UNCHANGED <<bitmap, fr, seeding, epoch_begin>>
DeliverAny(s, d, q) == Deliver(s, d, q) /\ UNCHANGED <<bitmap, fr, seeding, epoch_begin>>

(* The end of an epoch, which the threads only reach when nothing is left  *)
(* to do in it (EpochEndsQuiescent of SimThreads), if there is a next.     *)
EndEpoch ==
  /\ GLOBAL_BARRIER = 1 /\ QueuesEmpty
  /\ \A t \in tiles : ~frontier_active(t)
  /\ \E t \in tiles : frontier_occ(t) > 0
  /\ epoch_begin' = [t \in tiles |-> EXPLORE]
  /\ UNCHANGED <<ret, bitmap, fr, parked, seeding, iq0, iq, oq, wire>>

Next == \/ \E t \in tiles : Visit(t)
        \/ \E t \in tiles, q \in 1 .. 2 : InjectAny(t, q)
        \/ \E s, d \in tiles, q \in 1 .. 2 : DeliverAny(s, d, q)
        \/ EndEpoch

Spec == Init /\ [][Next]_vars

(* The threads give every tile and router its turn again and again.        *)
FairSpec == /\ Spec
            /\ \A t \in tiles : WF_vars(Visit(t))
            /\ \A t \in tiles, q \in 1 .. 2 : WF_vars(InjectAny(t, q))
            /\ \A s, d \in tiles, q \in 1 .. 2 : WF_vars(DeliverAny(s, d, q))
            /\ WF_vars(EndEpoch)
-----------------------------------------------------------------------------
(* The state has the shape its comments say, and no queue holds more than  *)
(* its size: the tasks enqueue without a test what the unit let them.      *)
TypeOK ==
  /\ ret \in [nodes -> Nat]
  /\ \A t \in tiles : /\ \A b \in 0 .. bitmap_len - 1 : bitmap[t][b] \subseteq {n \in NodesOf(t) : Block(n) = b}
                       /\ {fr[t].head, fr[t].tail} \subseteq 0 .. fr_head_offset - 1
                       /\ Len(iq0[t]) <= iq0_size /\ Len(parked[t]) <= 1
                       /\ \A q \in 1 .. 2 : oq_room(t, q) >= 0 /\ iq_room(t, q) >= 0
  /\ seeding \in [tiles -> BOOLEAN]
  /\ epoch_begin \in [tiles -> 0 .. EXPLORE]

(* The circular list holds the blocks with a bit set, each of them once,   *)
(* however often the list wraps and however few nodes fit in T1's queue.   *)
FrontierListed ==
  \A t \in tiles : /\ IsInjective(Listed(t))
                   /\ ToSet(Listed(t)) = {b \in DOMAIN bitmap[t] : bitmap[t][b] # {}}

(* While T1 goes through the nodes of its tile its queue holds the next of *)
(* them and nothing else: no node of the frontier is taken for a seed.     *)
SeedsApart == \A t \in tiles : \A i \in DOMAIN iq0[t] :
                 /\ (iq0[t][i].kind = "seed") = seeding[t]
                 /\ seeding[t] => i = 1

(* The value that node u has now is on its way along edge e.               *)
Pending(u, e) ==
  LET t == OwnerOfNode(u)
      covers(m) == m.first <= e /\ e < m.last /\ m.value <= ret[u]
      told(m) == m.node = edge_array[e] /\ m.value <= ret[u] + Weight(e)
  IN \/ u \in bitmap[t][Block(u)]
     \/ \E i \in DOMAIN iq0[t] : iq0[t][i] = Node(u) /\ (i > 1 \/ parked[t] = <<>>)
     \/ \E i \in DOMAIN parked[t] : covers(parked[t][i])
     \/ \E k \in tiles \X (1 .. 2) : \E m \in ToSet(oq[k]) \union ToSet(iq[k]) :
           IF k[2] = 1 THEN covers(m) ELSE told(m)
     \/ \E k \in DOMAIN wire : \E m \in ToSet(wire[k]) : IF k[3] = 1 THEN covers(m) ELSE told(m)

(* No improvement is lost: as long as the node at the end of an edge has a *)
(* worse value than the edge offers, the better one is on its way.  Tasks  *)
(* that are parked, coalesced in the frontier or overtaken don't drop it.  *)
NoUpdateLost ==
  \A u \in nodes : ret[u] < INF =>
     \A e \in node_array[u] .. node_array[u + 1] - 1 :
        HasEdges(edge_array[e]) => ret[edge_array[e]] <= ret[u] + Weight(e) \/ Pending(u, e)

Finished == QueuesEmpty /\ \A t \in tiles : frontier_occ(t) = 0

Followed(u) == {e \in node_array[u] .. node_array[u + 1] - 1 : HasEdges(edge_array[e])}

(* The lengths of the shortest paths from node 0, by rounds of relaxation. *)
Distances ==
  LET dist[k \in 0 .. Cardinality(nodes)] ==
        IF k = 0 THEN [n \in nodes |-> IF n = 0 THEN 0 ELSE INF]
        ELSE [n \in nodes |-> Min({dist[k - 1][n]} \union
                 UNION {{dist[k - 1][u] + edge_values[e] : e \in {f \in Followed(u) : edge_array[f] = n}} :
                          u \in {v \in nodes : dist[k - 1][v] < INF}})]
  IN dist[Cardinality(nodes)]

(* SSSP never goes below the shortest path, and has found it in the end.   *)
ShortestPaths == /\ \A n \in nodes : ret[n] >= Distances[n]
                 /\ Finished => ret = Distances

(* The nodes that can reach node n, by rounds as well.                     *)
Reaching ==
  LET from[k \in 0 .. Cardinality(nodes)] ==
        IF k = 0 THEN [n \in nodes |-> {n}]
        ELSE [n \in nodes |-> from[k - 1][n] \union
                 UNION {from[k - 1][u] : u \in {v \in nodes : \E f \in Followed(v) : edge_array[f] = n}}]
  IN from[Cardinality(nodes)]

(* WCC: a label is always that of a node of the component; in the end two  *)
(* nodes have the same label exactly when they are in the same one.        *)
Components == /\ \A n \in nodes : ret[n] = INF \/ ret[n] \in Reaching[n]
              /\ Finished => \A m, n \in nodes : (ret[m] = ret[n]) <=> (m \in Reaching[n])

(* The application ends: tasks that wait for room in a queue, and tiles    *)
(* that wait for each other's messages, always go on.                      *)
Terminates == <>[]Finished
=============================================================================
