--------------------------- MODULE SearchBarrier ---------------------------
(***************************************************************************)
(* Search with a history variable: the nodes that came into the frontier   *)
(* in the current epoch.                                                   *)
(***************************************************************************)
EXTENDS Search

VARIABLE added

InFrontier == {n \in nodes : n \in bitmap[OwnerOfNode(n)][Block(n)]}

BarrierSpec ==
  /\ Init /\ added = {}
  /\ [][/\ Next
        /\ added' = IF epoch_begin # epoch_begin' /\ \A t \in tiles : epoch_begin'[t] = EXPLORE
                    THEN {} ELSE added \union (InFrontier' \ InFrontier)]_<<vars, added>>

(* "Only mark the frontier as active if we just started the new epoch"     *)
(* (tsu_core_thread.h:203): with a barrier, a tile does not explore a node *)
(* in the epoch in which it came into the frontier.                        *)
NextEpochOnly == [][GLOBAL_BARRIER = 1 => \A n \in added : n \in InFrontier => n \in InFrontier']_<<vars, added>>
=============================================================================
