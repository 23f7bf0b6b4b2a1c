---------------------------- MODULE RoutingRules ----------------------------
(***************************************************************************)
(* Where a message goes: the destination and the output port that the      *)
(* router of each tile computes for it (comp_destXY, find_dest and the     *)
(* port choice of calc_inp4out, router.h) and the wiring of the ports      *)
(* (connect_routers, network.h).  No router keeps a plan: every tile       *)
(* decides anew, and for a proxied message even the destination is chosen  *)
(* anew at each hop.                                                       *)
(***************************************************************************)
EXTENDS Integers, FiniteSets

CONSTANTS
  GRID_X,         \* the grid has GRID_X by GRID_X tiles
  BOARD_W,        \* and is cut in boards of BOARD_W by BOARD_W
  TORUS,          \* 1: each board is a torus, 0: a mesh
  PROXY_W,        \* a proxy region has PROXY_W by PROXY_W tiles
  PROXY_ROUTING,  \* 3: no cascading, 4: selective, 5: sink in every proxy
  STEAL_W,        \* a region whose tiles may steal each other's tasks 2
  RUCHE_X, DIE_W  \* length of the express links (0: none), width of a die

ASSUME RoutingAssumption ==
  /\ GRID_X \in Nat \ {0} /\ BOARD_W \in Nat \ {0} /\ GRID_X % BOARD_W = 0
  /\ PROXY_W \in Nat \ {0} /\ BOARD_W % PROXY_W = 0
  /\ TORUS \in {0, 1} /\ (BOARD_W < GRID_X => TORUS = 1 /\ BOARD_W % 2 = 0)
  /\ PROXY_ROUTING \in 3 .. 5 /\ STEAL_W \in Nat \ {0}
  /\ RUCHE_X \in 0 .. BOARD_W /\ DIE_W \in Nat \ {0}

Coord == 0 .. GRID_X - 1
Tile  == [x : Coord, y : Coord]

(* The number of a tile, which is what a message carries: row by row, and  *)
(* on a mesh every other row from right to left; and the tile of a number. *)
global(x, y) == y * GRID_X + (IF TORUS = 0 /\ y % 2 = 1 THEN GRID_X - 1 - x ELSE x)
get_dst(n) == LET y == n \div GRID_X
                  x == n % GRID_X
              IN [x |-> IF TORUS = 0 /\ y % 2 = 1 THEN GRID_X - 1 - x ELSE x, y |-> y]

Express == {"RN", "RS", "RW", "RE"}
YPorts  == {"N", "S", "RN", "RS", "PY"}
XPorts  == {"W", "E", "RW", "RE", "PX"}
Ports   == YPorts \union XPorts \union {"C"}

(* Integer division and remainder of C++, which truncate towards zero.     *)
CDiv(a, b) == IF a >= 0 THEN a \div b ELSE -((-a) \div b)
CMod(a, b) == a - b * CDiv(a, b)
Dist(a, b) == IF a < b THEN b - a ELSE a - b
-----------------------------------------------------------------------------
(* Wiring.                                                                 *)

BoardOrigin(c) == (c \div BOARD_W) * BOARD_W
BoardEnd(c)    == BoardOrigin(c) + BOARD_W \div 2

(* The coordinate n further on the ring of its board.                      *)
Around(c, n) == BoardOrigin(c) + ((c + BOARD_W + n) % BOARD_W)

(* Fault: the link forward is half a board long.                           *)
OtherBoardHalf(c) == IF c % BOARD_W = 0 THEN (c + GRID_X - BOARD_W) % GRID_X
                                        ELSE (c + BOARD_W \div 2) % GRID_X
(* The far end of the link between boards that starts at c.                *)
OtherBoard(c) == IF c % BOARD_W = 0 THEN (c + GRID_X - BOARD_W) % GRID_X
                                    ELSE (c + BOARD_W) % GRID_X

(* The tiles with an output to the port, the tile it leads to and the      *)
(* input port it feeds there.                                              *)
HasPort(t, port) ==
  CASE port = "PY" -> BOARD_W < GRID_X /\ t.y \in {BoardOrigin(t.y), BoardEnd(t.y)}
    [] port = "PX" -> BOARD_W < GRID_X /\ t.x \in {BoardOrigin(t.x), BoardEnd(t.x)}
    [] port \in Express -> RUCHE_X > 0
    [] OTHER -> TRUE
Neighbour(t, port) ==
  CASE port = "N"  -> [t EXCEPT !.y = Around(@, -1)]
    [] port = "S"  -> [t EXCEPT !.y = Around(@, 1)]
    [] port = "W"  -> [t EXCEPT !.x = Around(@, -1)]
    [] port = "E"  -> [t EXCEPT !.x = Around(@, 1)]
    [] port = "RN" -> [t EXCEPT !.y = Around(@, -RUCHE_X)]
    [] port = "RS" -> [t EXCEPT !.y = Around(@, RUCHE_X)]
    [] port = "RW" -> [t EXCEPT !.x = Around(@, -RUCHE_X)]
    [] port = "RE" -> [t EXCEPT !.x = Around(@, RUCHE_X)]
    [] port = "PY" -> [t EXCEPT !.y = OtherBoard(@)]
    [] port = "PX" -> [t EXCEPT !.x = OtherBoard(@)]
    [] OTHER -> t
InputAt(port) ==
  CASE port = "N" -> "S"   [] port = "S" -> "N"   [] port = "W" -> "E"   [] port = "E" -> "W"
    [] port = "RN" -> "RS" [] port = "RS" -> "RN" [] port = "RW" -> "RE" [] port = "RE" -> "RW"
    [] OTHER -> port
-----------------------------------------------------------------------------
(* Destination.                                                            *)

(* Fault: the region of the tile loses to the next one when it is nearer.  *)
NearestSwapped(id, d) ==
  LET within == (id \div PROXY_W) * PROXY_W + (d % PROXY_W)
  IN IF Dist(within, id) < PROXY_W - Dist(within, id) THEN (within + PROXY_W) % GRID_X ELSE within
(* On one axis, the proxy of d that a tile at id sends to: the nearest of  *)
(* the one of its region and those of the two regions next to it; on the   *)
(* torus the first of them may be negative, on the mesh only the region's. *)
Nearest(id, d) ==
  LET within == (id \div PROXY_W) * PROXY_W + (d % PROXY_W)
      prior  == within - PROXY_W
      after  == within + PROXY_W
      closest == IF Dist(within, id) >= Dist(prior, id) THEN prior
                 ELSE IF Dist(within, id) < Dist(after, id) THEN within ELSE after
  IN IF TORUS = 1 THEN CMod(closest, GRID_X) ELSE within

(* Only channel 3 carries messages for the nearest proxy.                  *)
Target(q, t, d) == IF q = 3 /\ GRID_X \div PROXY_W > 1
                   THEN [x |-> Nearest(t.x, d.x), y |-> Nearest(t.y, d.y)] ELSE d

IsProxyOf(t, d)  == t.x % PROXY_W = d.x % PROXY_W /\ t.y % PROXY_W = d.y % PROXY_W
StealRegion(t, d) == t.x \div STEAL_W = d.x \div STEAL_W /\ t.y \div STEAL_W = d.y \div STEAL_W

(* Fault: any router on the way captures a message of task 3.              *)
MayCaptureAny(q, t, d, orig) == q = 2 /\ GRID_X \div PROXY_W > 1 /\ PROXY_ROUTING >= 4 /\ orig # "C"
(* May, and must, the message enter the core of a tile that is not its     *)
(* destination?                                                            *)
MayCapture(q, t, d, orig) ==
  \/ q = 2 /\ GRID_X \div PROXY_W > 1 /\ PROXY_ROUTING >= 4 /\ IsProxyOf(t, d) /\ orig # "C"
  \/ q = 1 /\ STEAL_W > 1 /\ StealRegion(t, d)
MustCapture(q, t, d, orig) == q = 2 /\ MayCapture(q, t, d, orig) /\ PROXY_ROUTING = 5

(* On one axis: the coordinate to reach on this board, and whether the     *)
(* message changes boards at the tile.                                     *)
Board(c) == CDiv(c, BOARD_W)
Aim(id, d) == IF Board(d) < Board(id) THEN BoardOrigin(id)
              ELSE IF Board(d) > Board(id) THEN BoardEnd(id) ELSE d
Switches(id, d) == Board(d) # Board(id) /\ Aim(id, d) = id

(* Fault: the shorter way around is judged one hop too far.                *)
BackwardLate(id, d) == d < id \/ d - id > BOARD_W \div 2
(* dnorth and dwest: on the torus the shorter way around the ring.         *)
Backward(id, d) == IF TORUS = 1 THEN (d < id /\ id - d <= BOARD_W \div 2) \/ d - id > BOARD_W \div 2 ELSE d < id
-----------------------------------------------------------------------------
(* Fault: the X dimension comes first.                                     *)
DirectionX(q, t, d) ==
  LET g == Target(q, t, d) IN
  IF g = t THEN "C"
  ELSE IF g.x # t.x /\ Switches(t.x, g.x) THEN "PX"
  ELSE IF g.x # t.x THEN (IF Backward(t.x, Aim(t.x, g.x)) THEN "W" ELSE "E")
  ELSE IF Switches(t.y, g.y) THEN "PY"
  ELSE IF Backward(t.y, Aim(t.y, g.y)) THEN "N" ELSE "S"
(* The output port for a message that is not captured: first Y, then X, on *)
(* each axis first to the right board.                                     *)
Direction(q, t, d) ==
  LET g == Target(q, t, d) IN
  IF g = t THEN "C"
  ELSE IF g.y # t.y /\ Switches(t.y, g.y) THEN "PY"
  ELSE IF g.y # t.y THEN (IF Backward(t.y, Aim(t.y, g.y)) THEN "N" ELSE "S")
  ELSE IF Switches(t.x, g.x) THEN "PX"
  ELSE IF Backward(t.x, Aim(t.x, g.x)) THEN "W" ELSE "E"

(* The express link next to a port, its length permitting (abs_diff is the *)
(* difference of the coordinates, not the distance on the ring).           *)
ExpressOf(port) == CASE port = "N" -> "RN" [] port = "S" -> "RS" [] port = "W" -> "RW" [] OTHER -> "RE"
AtExpress(t, port) ==
  IF RUCHE_X = DIE_W \div 2
  THEN t.x % RUCHE_X = RUCHE_X - 1 \/ t.y % RUCHE_X = RUCHE_X - 1
  ELSE IF RUCHE_X = DIE_W THEN t.x % DIE_W = DIE_W - 1 \/ t.y % DIE_W = DIE_W - 1
  ELSE IF port \in {"W", "E"} THEN t.x % RUCHE_X = 0 ELSE t.y % RUCHE_X = 0
AbsDiff(q, t, d, port) ==
  LET g == Target(q, t, d) IN
  IF port \in {"N", "S"} THEN Dist(t.y, Aim(t.y, g.y)) ELSE Dist(t.x, Aim(t.x, g.x))
Jumps(q, t, d, port) ==
  /\ RUCHE_X > 0 /\ port \in {"N", "S", "W", "E"}
  /\ AbsDiff(q, t, d, port) >= RUCHE_X /\ AtExpress(t, port)
=============================================================================
