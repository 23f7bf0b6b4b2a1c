-------------------------- MODULE MCSearchBarrier --------------------------
(* From node 0 to node 2 of the other tile, and back to nodes 1 and 0.     *)
EXTENDS SearchBarrier

Fun(s) == [i \in 0 .. Len(s) - 1 |-> s[i + 1]]
LineNodes  == Fun(<<0, 1, 2, 3, 3>>)
LineEdges  == Fun(<<2, 0, 1>>)
LineValues == Fun(<<1, 1, 1>>)
Out == <<9, 6>>
In  == 0 :> 1 @@ 1 :> 3 @@ 2 :> 4
=============================================================================
