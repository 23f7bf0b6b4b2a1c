------------------------------ MODULE Routing ------------------------------
(***************************************************************************)
(* One message walks through the grid by the rules of RoutingRules.  What  *)
(* the queues contain only shows as a choice (sink into a proxy, steal,    *)
(* jump over an express link).                                             *)
(***************************************************************************)
EXTENDS RoutingRules

(* Every port the router of tile t may choose for the message, whatever is *)
(* in its queues.                                                          *)
Choices(q, t, d, orig) ==
  LET port == Direction(q, t, d) IN
  IF MustCapture(q, t, d, orig) THEN {"C"}
  ELSE (IF MayCapture(q, t, d, orig) THEN {"C"} ELSE {}) \union {port}
       \union (IF Jumps(q, t, d, port) THEN {ExpressOf(port)} ELSE {})

VARIABLES
  qid, data,  \* the message: channel (task) and number of a tile
  at, orig,   \* the tile whose router holds it, the input port it is in
  done        \* has it been handed to the core?

vars == <<qid, data, at, orig, done>>

(* A core sends a message to any tile.                                     *)
Init == /\ qid \in 1 .. 3 /\ data \in 0 .. GRID_X * GRID_X - 1 /\ at \in Tile
        /\ orig = "C" /\ done = FALSE

(* The router passes the message on, or hands it to the core.              *)
Hop == /\ ~done
       /\ \E port \in Choices(qid, at, get_dst(data), orig) :
            /\ HasPort(at, port)
            /\ at' = Neighbour(at, port) /\ orig' = InputAt(port)
            /\ done' = (port = "C")
       /\ UNCHANGED <<qid, data>>

Delivered == done /\ UNCHANGED vars

Next == Hop \/ Delivered

Spec     == Init /\ [][Next]_vars
FairSpec == Spec /\ WF_vars(Hop)
-----------------------------------------------------------------------------
(* The message stays on the grid, in a port of the router.                 *)
TypeOK == /\ qid \in 1 .. 3 /\ data \in Nat /\ at \in Tile /\ orig \in Ports
          /\ done \in BOOLEAN

(* Wherever a message is handed over, the core there may work on it: the   *)
(* owner of the data, a tile of its steal region (task 2), or a proxy of   *)
(* the owner (tasks 3 and 3').                                             *)
RightTile ==
  LET Owner == CHOOSE t \in Tile : global(t.x, t.y) = data
  IN done => \/ at = Owner
             \/ qid = 1 /\ StealRegion(at, Owner)
             \/ qid > 1 /\ IsProxyOf(at, Owner)

(* "Assert that we don't take a turn from X-dim to Y-dim" (router.h:591),  *)
(* and no message is sent back where it came from: without this, the rings *)
(* could wait for each other in a circle.                                  *)
NoTurnBack ==
  /\ orig \in XPorts => at'.y = at.y
  /\ orig \notin {"C", "PX", "PY"} => <<at', orig'>> # <<Neighbour(at, orig), InputAt(orig)>>
DimensionOrder == [][NoTurnBack]_vars

(* On one axis, the length of the shorter way.                             *)
Shortest(a, b) == IF TORUS = 1 /\ BOARD_W - Dist(a, b) < Dist(a, b)
                  THEN BOARD_W - Dist(a, b) ELSE Dist(a, b)

(* Each hop brings the message nearer to where the router then sends it,   *)
(* although every router decides on its own (one board, no express links). *)
Away(t) == LET g == Target(qid, t, get_dst(data))
           IN Shortest(CMod(g.x + GRID_X, GRID_X), t.x) + Shortest(CMod(g.y + GRID_X, GRID_X), t.y)
GoesNearer == ~done' => Away(at') = Away(at) - 1
Nearer == [][GoesNearer]_vars

(* The input port a message is in is fed by one output of one tile: each   *)
(* queue has one producer, as its lock-free code takes for granted.        *)
OneProducer ==
  orig # "C" =>
    Cardinality({f \in Tile \X (Ports \ {"C"}) :
                   HasPort(f[1], f[2]) /\ InputAt(f[2]) = orig /\ Neighbour(f[1], f[2]) = at}) = 1

(* Every message reaches a core.                                           *)
Arrives == <>done
=============================================================================
