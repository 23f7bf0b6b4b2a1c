----------------------------- MODULE MCRouting -----------------------------
(***************************************************************************)
(* Four networks of eight by eight tiles in one run, told apart by conf:   *)
(*   torus   one board that wraps around, regions of four tiles, steal     *)
(*           regions of two (the values in the .cfg file);                 *)
(*   mesh    one board without wrap-around, where proxies must capture;    *)
(*   boards  four boards that are a torus each, regions of two tiles;      *)
(*   ruche   a torus with express links between dies.                      *)
(***************************************************************************)
EXTENDS Routing

VARIABLE conf

Mesh   == INSTANCE Routing WITH TORUS <- 0, PROXY_ROUTING <- 5, STEAL_W <- 1
Boards == INSTANCE Routing WITH BOARD_W <- 4, DIE_W <- 4, PROXY_W <- 2, STEAL_W <- 1
Ruche  == INSTANCE Routing WITH RUCHE_X <- 2, DIE_W <- 4, STEAL_W <- 1

all == <<vars, conf>>

InitAny == Init /\ conf \in {"torus", "mesh", "boards", "ruche"}

Step ==
  /\ UNCHANGED conf
  /\ \/ conf = "torus"  /\ Hop
     \/ conf = "mesh"   /\ Mesh!Hop
     \/ conf = "boards" /\ Boards!Hop
     \/ conf = "ruche"  /\ Ruche!Hop

NextAny == Step \/ (Delivered /\ UNCHANGED conf)

FairSpecAny == InitAny /\ [][NextAny]_all /\ WF_all(Step)
-----------------------------------------------------------------------------
(* The properties of Routing, in the networks they hold of.                *)

(* Whatever network, the core that gets a message may run its task.        *)
RightTiles ==
  CASE conf = "torus"  -> RightTile
    [] conf = "mesh"   -> Mesh!RightTile
    [] conf = "boards" -> Boards!RightTile
    [] conf = "ruche"  -> Ruche!RightTile

(* The link into an input port comes from one router only, across boards   *)
(* as well.                                                                *)
OneProducers ==
  CASE conf = "torus"  -> OneProducer
    [] conf = "mesh"   -> Mesh!OneProducer
    [] conf = "boards" -> Boards!OneProducer
    [] conf = "ruche"  -> Ruche!OneProducer

(* No turn from Y to X and none back (the assertion at router.h:591).      *)
DimensionOrders ==
  [][CASE conf = "torus"  -> NoTurnBack
       [] conf = "mesh"   -> Mesh!NoTurnBack
       [] conf = "boards" -> Boards!NoTurnBack
       [] conf = "ruche"  -> Ruche!NoTurnBack]_all

(* On one board without express links every hop goes nearer to where the   *)
(* router sends the message, a proxy that it looks up again at every hop.  *)
AlwaysNearer ==
  [][/\ conf = "torus" => GoesNearer
     /\ conf = "mesh"  => Mesh!GoesNearer]_all
=============================================================================
