----------------------------- MODULE GraphLoader -----------------------------
(***************************************************************************)
(* Reading a graph (dataset_loaders/graph_loader.h): its edges become the  *)
(* arrays the applications use, filled up with empty nodes to a multiple   *)
(* of the tiles and, with SHUFFLE, dealt out to the tiles one node at a    *)
(* time; and the order the results are written in.  A binary data set has  *)
(* arrays already, a TSV file has a line per edge and is not shuffled.     *)
(***************************************************************************)
EXTENDS Integers, Sequences, FiniteSets, SequencesExt

CONSTANTS
  GRID_SIZE,
  Files,        \* records: binary, orig_nodes, and lines <<vertex, edge_idx, value>>
  Junk          \* what memory that nobody has written holds

ASSUME LoaderAssumption == GRID_SIZE \in Nat \ {0}

VARIABLES
  phase,        \* "read", "shuffle", "loaded", "written"
  file, SHUFFLE,
  i,            \* the edges, or nodes, the loop has done
  node_ptr,
  node_array, edge_array, edge_values,
  pre,          \* the three arrays before they are shuffled
  output        \* the nodes whose results the lines of the output are

loader == <<phase, file, SHUFFLE, i, node_ptr, node_array, edge_array, edge_values, pre, output>>

edges == Len(file.lines)
(* build_nodes_edges()                                                     *)
nodes == file.orig_nodes + ((GRID_SIZE - (file.orig_nodes % GRID_SIZE)) % GRID_SIZE)

(* The arrays of a binary data set, from graph_conversion/.                *)
Offsets == [n \in 0 .. file.orig_nodes |-> Cardinality({e \in 1 .. edges : file.lines[e][1] < n})]

(* The padding nodes begin and end where the last node ends.               *)
Padded(array) == [n \in 0 .. nodes |-> IF n <= file.orig_nodes THEN array[n] ELSE array[file.orig_nodes]]

InitLoader ==
  /\ file \in Files /\ SHUFFLE \in BOOLEAN /\ (file.binary \/ ~SHUFFLE)
  /\ i = 0 /\ node_ptr = 0 /\ output = <<>>
  /\ edge_array = <<>> /\ edge_values = <<>>
  /\ \/ /\ file.binary
        /\ pre = [nodes |-> Padded(Offsets), edges |-> [e \in 1 .. edges |-> file.lines[e][2]],
                  values |-> [e \in 1 .. edges |-> file.lines[e][3]]]
        /\ node_array = [n \in 0 .. nodes |-> Junk]
        /\ phase = "shuffle"
     \/ /\ ~file.binary
        /\ pre = <<>>
        /\ node_array = [n \in 0 .. nodes |-> IF n = 0 THEN 0 ELSE Junk]
        /\ phase = "read"
-----------------------------------------------------------------------------
(* A line of the TSV file: the nodes up to its vertex end before it.       *)
read_line ==
  /\ phase = "read" /\ i < edges
  /\ LET line == file.lines[i + 1]
     IN /\ node_array' = [n \in 0 .. nodes |-> IF n \in node_ptr + 1 .. line[1] THEN i ELSE node_array[n]]
        /\ node_ptr' = line[1]
        /\ edge_array' = Append(edge_array, line[2])
        /\ edge_values' = Append(edge_values, line[3])
  /\ i' = i + 1
  /\ UNCHANGED <<phase, file, SHUFFLE, pre, output>>

(* The end of the last vertex.  (Nodes behind it, if the header counts     *)
(* any, keep what memory held.)                                            *)
read_end ==
  /\ phase = "read" /\ i = edges
  /\ node_ptr' = node_ptr + 1
  /\ node_array' = Padded([node_array EXCEPT ![node_ptr + 1] = edges])
  /\ phase' = "loaded"
  /\ UNCHANGED <<file, SHUFFLE, i, edge_array, edge_values, pre, output>>

take_unshuffled ==
  /\ phase = "shuffle" /\ ~SHUFFLE
  /\ node_array' = pre.nodes /\ edge_array' = pre.edges /\ edge_values' = pre.values
  /\ phase' = "loaded"
  /\ UNCHANGED <<file, SHUFFLE, i, node_ptr, pre, output>>

(* shuffle_dataset(): the nodes 0, GRID_SIZE, 2 * GRID_SIZE... come first. *)
round_len == nodes \div GRID_SIZE
(* Fault: the row and the column are exchanged.                            *)
new_idx_exchanged(n) == (n % round_len) * GRID_SIZE + (n \div round_len)
new_idx(n) == (n % GRID_SIZE) * round_len + (n \div GRID_SIZE)

shuffle_node ==
  /\ phase = "shuffle" /\ SHUFFLE /\ i < nodes
  /\ LET node == (i \div round_len) + GRID_SIZE * (i % round_len)
         span == pre.nodes[node] + 1 .. pre.nodes[node + 1]
         copied == Len(edge_array)
     IN /\ node_array' = [node_array EXCEPT ![node_ptr] = copied]
        /\ edge_array' = edge_array \o [j \in 1 .. Cardinality(span) |-> new_idx(pre.edges[pre.nodes[node] + j])]
        /\ edge_values' = edge_values \o [j \in 1 .. Cardinality(span) |-> pre.values[pre.nodes[node] + j]]
  /\ node_ptr' = node_ptr + 1
  /\ i' = i + 1
  /\ UNCHANGED <<phase, file, SHUFFLE, pre, output>>

shuffle_end ==
  /\ phase = "shuffle" /\ SHUFFLE /\ i = nodes
  /\ node_array' = [node_array EXCEPT ![node_ptr] = Len(edge_array)]
  /\ phase' = "loaded"
  /\ UNCHANGED <<file, SHUFFLE, i, node_ptr, edge_array, edge_values, pre, output>>

(* output_result() and compare_out_pagerank(): one result of each tile     *)
(* after the other.  (SPMM, which writes in another order, is not here.)   *)
output_result ==
  LET adv == IF SHUFFLE THEN nodes \div GRID_SIZE ELSE 1
      column == nodes \div adv
  IN /\ phase = "loaded"
     /\ output' = [k \in 1 .. nodes |-> ((k - 1) \div column) + adv * ((k - 1) % column)]
     /\ phase' = "written"
     /\ UNCHANGED <<file, SHUFFLE, i, node_ptr, node_array, edge_array, edge_values, pre>>

NextLoader == read_line \/ read_end \/ take_unshuffled \/ shuffle_node \/ shuffle_end \/ output_result
-----------------------------------------------------------------------------
(* The nodes' numbers are those of the file again where results are        *)
(* written: the n-th line is the result of a node with the edges, to the   *)
(* lines they lead to and with the values they have, of node n of the      *)
(* file, in their order; a node that fills up has none; no line is twice.  *)
GraphKept ==
  phase = "written" =>
    LET line(node) == CHOOSE n \in 0 .. nodes - 1 : output[n + 1] = node
        edges_of(n) == SelectSeq(file.lines, LAMBDA e : e[1] = n)
    IN /\ ToSet(output) = 0 .. nodes - 1
       /\ \A n \in 0 .. nodes - 1 :
            LET begin == node_array[output[n + 1]]
                end == node_array[output[n + 1] + 1]
                found == [e \in 1 .. end - begin |-> <<n, line(edge_array[begin + e]), edge_values[begin + e]>>]
            IN found = edges_of(n)
=============================================================================
