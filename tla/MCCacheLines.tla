---------------------------- MODULE MCCacheLines ----------------------------
(***************************************************************************)
(* Where the data cache does not do what the comments and assertions about *)
(* it say, on two tiles:                                                   *)
(*   border   BFS with one thread, on a graph whose frontier begins in the *)
(*            middle of a line (as in MCMemory);                           *)
(*   columns  SPMM, whose ret has B_numcols words for each node;           *)
(*   shared   two threads, and a line with edges of tiles of both.         *)
(***************************************************************************)
EXTENDS DataCache

CONSTANTS w1, w2

OneThread == [c \in {0, 1} |-> w1]
TwoThreads == [c \in {0, 1} |-> IF c = 0 THEN w1 ELSE w2]
OwnChannels == [c \in {0, 1} |-> c]

(* 3 nodes and 3 edges: ret, edge_array, node_array.                       *)
GraphArrays == {[base |-> 3, len |-> 3, per_tile |-> 2], [base |-> 6, len |-> 3, per_tile |-> 2]}

(* 2 nodes, 2 columns and 3 edges: ret, edge_array.                        *)
ColumnArrays == {[base |-> 4, len |-> 3, per_tile |-> 2]}
=============================================================================
