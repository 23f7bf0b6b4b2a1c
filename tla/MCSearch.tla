------------------------------ MODULE MCSearch ------------------------------
(***************************************************************************)
(* Small graphs on two tiles, and seven configurations of the applications *)
(* in one run, told apart by conf:                                         *)
(*   paths    SSSP, tiles explore when idle (the values in the .cfg file); *)
(*   epochs   SSSP with GLOBAL_BARRIER=1;                                  *)
(*   labels   WCC, tiles explore when idle;                                *)
(*   vector   SPMV, matrix SPMM with two columns, flex SPMV_FLEX, and      *)
(*   histo    HISTO, which use no frontier.                                *)
(***************************************************************************)
EXTENDS Search

Fun(s) == [i \in 0 .. Len(s) - 1 |-> s[i + 1]]

(* Node 0 has an edge more than the queue of T1 takes, and that edge is    *)
(* the shortest way to node 2; node 1 has no edge.                         *)
PathNodes  == Fun(<<0, 4, 4, 5, 6>>)
PathEdges  == Fun(<<2, 3, 2, 2, 3, 2>>)
PathValues == Fun(<<9, 6, 5, 3, 1, 1>>)

(* Tile 0 has more edges than the queue of T2 has room for messages, and   *)
(* the edges of node 1 lie on both tiles.                                  *)
WideNodes  == Fun(<<0, 6, 9, 10, 11>>)
WideEdges  == Fun(<<2, 1, 2, 3, 1, 2, 2, 3, 0, 1, 2>>)
WideValues == Fun(<<6, 9, 3, 5, 3, 2, 1, 1, 1, 4, 1>>)

(* Undirected: node 0 and the three nodes of the other tile, and node 1    *)
(* behind node 3; node 2 is alone.                                         *)
StarNodes  == Fun(<<0, 3, 4, 4, 6, 7, 8>>)
StarEdges  == Fun(<<5, 3, 4, 3, 0, 1, 0, 0>>)
StarValues == [e \in 0 .. 7 |-> 1]

(* The last node of tile 0 has an edge more than T1 can send after those   *)
(* of node 0, and that edge lies on tile 1; no two sums of values are      *)
(* equal.                                                                  *)
SumNodes  == Fun(<<0, 1, 5, 6, 6>>)
SumEdges  == Fun(<<2, 0, 2, 3, 2, 0>>)
SumValues == [e \in 0 .. 5 |-> 2^e]

Out == <<9, 6>>
OutWide == <<12, 10>>
OutSums == <<9, 8>>
OutFlex == <<9, 9>>
In  == 0 :> 1 @@ 1 :> 3 @@ 2 :> 4
InStar == 0 :> 2 @@ 1 :> 3 @@ 2 :> 4
InWide == 0 :> 1 @@ 1 :> 6 @@ 2 :> 4
-----------------------------------------------------------------------------
VARIABLE conf

Epochs == INSTANCE Search WITH
  GLOBAL_BARRIER <- 1, edgePerTile <- 7,
  node_array <- WideNodes, edge_array <- WideEdges, edge_values <- WideValues,
  oq_sizes <- OutWide, iq_sizes <- InWide

Labels == INSTANCE Search WITH
  APP <- "WCC", nodePerTile <- 3, edgePerTile <- 4, BLOCK <- 2,
  node_array <- StarNodes, edge_array <- StarEdges, edge_values <- StarValues,
  iq_sizes <- InStar

Vector == INSTANCE Sums WITH
  APP <- "SPMV", edgePerTile <- 4, dense_value <- 5, B_numcols <- 1,
  node_array <- SumNodes, edge_array <- SumEdges, edge_values <- SumValues,
  oq_sizes <- OutSums, iq_sizes <- InWide

Matrix == INSTANCE Sums WITH
  APP <- "SPMM", edgePerTile <- 4, dense_value <- 5, B_numcols <- 2,
  node_array <- SumNodes, edge_array <- SumEdges, edge_values <- SumValues,
  oq_sizes <- OutSums, iq_sizes <- InWide

Flex == INSTANCE Sums WITH
  APP <- "SPMV_FLEX", edgePerTile <- 4, dense_value <- 5, B_numcols <- 1,
  node_array <- SumNodes, edge_array <- SumEdges, edge_values <- SumValues,
  oq_sizes <- OutFlex, iq_sizes <- InWide

Histo == INSTANCE Sums WITH
  APP <- "HISTO", LOOP_CHUNK <- 3, edgePerTile <- 4, dense_value <- 5, B_numcols <- 1,
  node_array <- SumNodes, edge_array <- SumEdges, edge_values <- SumValues,
  oq_sizes <- OutFlex, iq_sizes <- InWide

(* What no configuration changes.  (TLC evaluates nodes and the like per   *)
(* configuration only in modules that are themselves instantiated.)        *)
Shared == INSTANCE Tiles

all == <<vars, conf>>

NoFrontier == /\ bitmap = <<>> /\ fr = <<>> /\ seeding = <<>> /\ epoch_begin = <<>>

InitAny ==
  \/ conf = "paths"  /\ Init
  \/ conf = "epochs" /\ Epochs!Init
  \/ conf = "labels" /\ Labels!Init
  \/ conf = "vector" /\ Vector!InitSums /\ NoFrontier
  \/ conf = "matrix" /\ Matrix!InitSums /\ NoFrontier
  \/ conf = "flex"   /\ Flex!InitSums /\ NoFrontier
  \/ conf = "histo"  /\ Histo!InitSums /\ NoFrontier

(* The fairness of Search!FairSpec; WCC and SPMM are checked for safety    *)
(* only.                                                                   *)
TurnOfSums(t) ==
  /\ \/ conf = "vector" /\ Vector!Turn(t)
     \/ conf = "flex"   /\ Flex!Turn(t)
     \/ conf = "histo"  /\ Histo!Turn(t)
  /\ UNCHANGED <<bitmap, fr, seeding, epoch_begin>>

TileTurn(t) ==
  /\ UNCHANGED conf
  /\ \/ conf = "paths"  /\ Visit(t)
     \/ conf = "epochs" /\ Epochs!Visit(t)
     \/ TurnOfSums(t)

Injects(t, q) ==
  /\ UNCHANGED <<conf, bitmap, fr, seeding, epoch_begin>>
  /\ \/ conf = "paths"  /\ Inject(t, q)
     \/ conf = "epochs" /\ Epochs!Inject(t, q)
     \/ conf = "vector" /\ Vector!Inject(t, q)
     \/ conf = "flex"   /\ Flex!Inject(t, q)
     \/ conf = "histo"  /\ Histo!Inject(t, q)

Delivers(s, d, q) ==
  /\ UNCHANGED <<conf, bitmap, fr, seeding, epoch_begin>>
  /\ \/ conf = "paths"  /\ Deliver(s, d, q)
     \/ conf = "epochs" /\ Epochs!Deliver(s, d, q)
     \/ conf = "vector" /\ Vector!Deliver(s, d, q)
     \/ conf = "flex"   /\ Flex!Deliver(s, d, q)
     \/ conf = "histo"  /\ Histo!Deliver(s, d, q)

EndsEpoch == UNCHANGED conf /\ conf = "epochs" /\ Epochs!EndEpoch

FinishedAny ==
  CASE conf = "paths"  -> Finished
    [] conf = "epochs" -> Epochs!Finished
    [] conf = "labels" -> Labels!Finished
    [] OTHER -> Shared!QueuesEmpty

NextAny ==
  \/ \E t \in tiles : TileTurn(t)
  \/ \E t \in tiles, q \in 1 .. 2 : Injects(t, q)
  \/ \E s, d \in tiles, q \in 1 .. 2 : Delivers(s, d, q)
  \/ EndsEpoch
  \/ UNCHANGED conf /\ conf = "labels" /\ Labels!Next
  \/ UNCHANGED <<conf, bitmap, fr, seeding, epoch_begin>> /\ conf = "matrix" /\ Matrix!NextSums
  \/ FinishedAny /\ UNCHANGED all

FairSpecAny ==
  /\ InitAny /\ [][NextAny]_all
  /\ \A t \in tiles : WF_all(TileTurn(t))
  /\ \A t \in tiles, q \in 1 .. 2 : WF_all(Injects(t, q))
  /\ \A s, d \in tiles, q \in 1 .. 2 : WF_all(Delivers(s, d, q))
  /\ WF_all(EndsEpoch)
-----------------------------------------------------------------------------
(* The properties of Search and Sums, in each configuration.               *)

(* No variable leaves its type, and no queue holds more than its size: the *)
(* tasks enqueue without a test what the scheduling unit let them.         *)
QueuesFit ==
  CASE conf = "paths"  -> TypeOK
    [] conf = "epochs" -> Epochs!TypeOK
    [] conf = "labels" -> Labels!TypeOK
    [] conf = "vector" -> Vector!SumsFit
    [] conf = "matrix" -> Matrix!SumsFit
    [] conf = "flex"   -> Flex!SumsFit
    [] conf = "histo"  -> Histo!SumsFit

(* A tile gets pieces of its own edges only (check_range()).               *)
PiecesLocal ==
  CASE conf = "paths"  -> RangesLocal
    [] conf = "epochs" -> Epochs!RangesLocal
    [] conf = "labels" -> Labels!RangesLocal
    [] conf = "vector" -> Vector!RangesLocal
    [] conf = "matrix" -> Matrix!RangesLocal
    [] OTHER -> TRUE

(* The circular list of the frontier agrees with its bitmap, and while T1  *)
(* of WCC goes through the nodes of its tile no node of the frontier is    *)
(* taken for the next of them (FrontierListed and SeedsApart of Search).   *)
ListAgrees ==
  CASE conf = "paths"  -> FrontierListed
    [] conf = "epochs" -> Epochs!FrontierListed
    [] conf = "labels" -> Labels!FrontierListed /\ Labels!SeedsApart
    [] OTHER -> TRUE

(* A better value that an edge offers is taken or on its way; a product is *)
(* added or on its way, once (NoUpdateLost of Search, NothingLost of Sums). *)
NoneLost ==
  CASE conf = "paths"  -> NoUpdateLost
    [] conf = "epochs" -> Epochs!NoUpdateLost
    [] conf = "labels" -> Labels!NoUpdateLost
    [] conf = "vector" -> Vector!NothingLost
    [] conf = "matrix" -> Matrix!NothingLost
    [] conf = "flex"   -> Flex!NothingLost
    [] conf = "histo"  -> Histo!NothingLost

PathsDistances  == Distances
EpochsDistances == Epochs!Distances
LabelsReaching  == Labels!Reaching

(* SSSP never goes below the shortest paths, and has found them in the end *)
(* (Search!ShortestPaths).                                                 *)
RightPaths(least, end) == /\ \A n \in nodes : ret[n] >= least[n]
                          /\ end => ret = least

(* WCC only gives a node labels of its component, and in the end tells the *)
(* components apart (Search!Components).                                   *)
RightLabels ==
  /\ \A n \in Labels!nodes : ret[n] = INF \/ ret[n] \in LabelsReaching[n]
  /\ Labels!Finished => \A m, n \in Labels!nodes : (ret[m] = ret[n]) <=> (m \in LabelsReaching[n])

(* Whatever parks, is coalesced or overtaken: each application's result is *)
(* that of a computation of its own in one go.                             *)
RightResults ==
  CASE conf = "paths"  -> RightPaths(PathsDistances, Finished)
    [] conf = "epochs" -> RightPaths(EpochsDistances, Epochs!Finished)
    [] conf = "labels" -> RightLabels
    [] conf = "vector" -> Vector!RightSums
    [] conf = "matrix" -> Matrix!RightSums
    [] conf = "flex"   -> Flex!RightSums
    [] conf = "histo"  -> Histo!RightSums

(* The application ends, with and without a barrier: tasks that wait for   *)
(* room and tiles that wait for each other's messages always go on.        *)
AllTerminate == <>[](FinishedAny \/ conf \in {"labels", "matrix"})
=============================================================================
