------------------------------ MODULE MCRouter ------------------------------
(***************************************************************************)
(* Messages that meet in the routers and the cores of a torus of two by    *)
(* two tiles, each a proxy region whose core has one queue for tasks 3 and *)
(* 3'.  Channels 1 and 2 move two flits per cycle, channel 3 one.          *)
(***************************************************************************)
EXTENDS Router

At(i, j) == [x |-> i, y |-> j]
Msg(channel, from, to) == [q |-> channel, src |-> from, data |-> global(to.x, to.y)]

(* Two messages of three flits for the same core: one turns around the     *)
(* corner where the other is injected.  A message for task 3 that the      *)
(* proxy at that corner may take, where one for task 3' is injected.       *)
Corner == <<Msg(1, At(0, 0), At(1, 1)), Msg(1, At(0, 1), At(1, 1)),
            Msg(2, At(0, 0), At(1, 1)), Msg(3, At(0, 1), At(1, 1))>>

(* Something goes on as long as anything can: no step undoes another, so   *)
(* this asks no more than the turns of FairSpec.                           *)
Go == \E t \in Tile : Core(t) \/ Network(t)
GoSpec == Spec /\ WF_vars(Go)
=============================================================================
