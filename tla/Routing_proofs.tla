--------------------------- MODULE Routing_proofs ---------------------------
(***************************************************************************)
(* Proofs about the routing rules, for grids of any size, cut in boards or *)
(* not, torus or mesh, with any regions of proxies and express links: a    *)
(* message is handed to a core that may run its task, takes no turn from X *)
(* to Y, and comes in at a port that one router only feeds.                *)
(***************************************************************************)
EXTENDS Routing, FiniteSetTheorems, TLAPS

-----------------------------------------------------------------------------
(* Arithmetic.                                                             *)

LEMMA DivMod ==
  ASSUME NEW a \in Int, NEW b \in Int, b > 0
  PROVE  /\ a \div b \in Int /\ a % b \in 0 .. b - 1
         /\ a = b * (a \div b) + (a % b)
<1>1. a \div b \in Int /\ a % b \in 0 .. b - 1
  OBVIOUS
<1>2. a = b * (a \div b) + (a % b)
  BY Z3
<1>3. QED
  BY <1>1, <1>2

(* A multiple of b that is nearer to 0 than b is 0.                        *)
LEMMA Multiples ==
  ASSUME NEW b \in Nat, b > 0, NEW c \in Int, b * c < b, -b < b * c
  PROVE  c = 0
<1>1. (c >= 1 => b * c >= b) /\ (c <= -1 => b * c <= -b)
  BY Z3
<1>2. b * c \in Int
  OBVIOUS
<1>3. PICK m \in Int : m = b * c
  BY <1>2
<1>4. QED
  BY <1>1, <1>3

(* Row q and place r of a number, in rows of b.                            *)
Item(a, b, q, r) == q \in Int /\ r \in 0 .. b - 1 /\ a = b * q + r

LEMMA OneItem ==
  ASSUME NEW a \in Int, NEW b \in Nat, b > 0, NEW q, NEW r, NEW x, NEW y,
         Item(a, b, q, r), Item(a, b, x, y)
  PROVE  q = x /\ r = y
<1>1. q \in Int /\ x \in Int /\ r \in 0 .. b - 1 /\ y \in 0 .. b - 1
  BY DEF Item
<1>2. b * (q - x) = y - r
  <2>1. b * q + r = b * x + y
    BY DEF Item
  <2>2. b * (q - x) = b * q - b * x
    BY <1>1, Z3
  <2>3. PICK m \in Int, n \in Int : m = b * q /\ n = b * x
    BY <1>1
  <2>4. QED
    BY <1>1, <2>1, <2>2, <2>3
<1>3. q - x \in Int /\ b * (q - x) < b /\ -b < b * (q - x)
  BY <1>1, <1>2
<1>4. q - x = 0
  BY <1>3, Multiples
<1>5. QED
  BY <1>1, <1>2, <1>4

LEMMA ItemOf ==
  ASSUME NEW a \in Int, NEW b \in Nat, b > 0
  PROVE  /\ Item(a, b, a \div b, a % b)
         /\ \A q, r : Item(a, b, q, r) => a \div b = q /\ a % b = r
<1>1. Item(a, b, a \div b, a % b)
  BY DivMod DEF Item
<1>2. QED
  BY <1>1, OneItem

(* The rows of m numbers in k rows of b.                                   *)
LEMMA InRows ==
  ASSUME NEW b \in Nat, b > 0, NEW k \in Nat, NEW m, m = b * k, NEW a, NEW q, NEW r, Item(a, b, q, r)
  PROVE  a \in 0 .. m - 1 <=> q \in 0 .. k - 1
<1>1. q \in Int /\ r \in 0 .. b - 1 /\ a = b * q + r
  BY DEF Item
<1>2. (q >= 0 => b * q >= 0) /\ (q <= -1 => b * q <= -b)
  BY <1>1, Z3
<1>3. (q <= k - 1 => b * q <= b * k - b) /\ (q >= k => b * q >= b * k)
  BY <1>1, Z3
<1>4. PICK u \in Int, v \in Int : u = b * q /\ v = b * k
  BY <1>1
<1>5. QED
  BY <1>1, <1>2, <1>3, <1>4

-----------------------------------------------------------------------------
(* The grid.                                                               *)

(* Regions fill a board, and boards the grid.                              *)
LEMMA Grid ==
  /\ GRID_X \in Nat \ {0} /\ BOARD_W \in Nat \ {0} /\ PROXY_W \in Nat \ {0}
  /\ TORUS \in {0, 1} /\ RUCHE_X \in 0 .. BOARD_W
  /\ TORUS = 0 => BOARD_W = GRID_X
  /\ \E k \in Nat : GRID_X = BOARD_W * k
  /\ \E k \in Nat : BOARD_W = PROXY_W * k
  /\ \E k \in Nat : GRID_X = PROXY_W * k
<1>1. /\ GRID_X \in Nat \ {0} /\ BOARD_W \in Nat \ {0} /\ PROXY_W \in Nat \ {0}
      /\ TORUS \in {0, 1} /\ RUCHE_X \in 0 .. BOARD_W
      /\ GRID_X % BOARD_W = 0 /\ BOARD_W % PROXY_W = 0
      /\ BOARD_W < GRID_X => TORUS = 1
  BY RoutingAssumption
<1>2. PICK k \in Int : GRID_X = BOARD_W * k
  BY <1>1, DivMod
<1>3. PICK m \in Int : BOARD_W = PROXY_W * m
  BY <1>1, DivMod
<1>4. k \in Nat /\ k > 0
  <2>1. k <= 0 => BOARD_W * k <= 0
    BY <1>1, Z3
  <2>2. QED
    BY <1>1, <1>2, <2>1
<1>5. m \in Nat
  <2>1. m <= 0 => PROXY_W * m <= 0
    BY <1>1, Z3
  <2>2. QED
    BY <1>1, <1>3, <2>1
<1>6. GRID_X = PROXY_W * (m * k)
  BY <1>1, <1>2, <1>3, Z3
<1>7. m * k \in Nat
  BY <1>4, <1>5
<1>8. BOARD_W <= GRID_X
  <2>1. BOARD_W * k >= BOARD_W
    BY <1>1, <1>4, Z3
  <2>2. QED
    BY <1>2, <2>1
<1>9. QED
  BY <1>1, <1>2, <1>3, <1>4, <1>5, <1>6, <1>7, <1>8

LEMMA Sizes == PROXY_W <= BOARD_W /\ BOARD_W <= GRID_X
<1>1. GRID_X \in Nat /\ GRID_X > 0 /\ BOARD_W \in Nat /\ BOARD_W > 0 /\ PROXY_W \in Nat /\ PROXY_W > 0
  BY Grid
<1>2. ASSUME NEW a \in Nat, NEW b \in Nat, NEW k \in Nat, a > 0, b > 0, a = b * k
      PROVE  b <= a
  <2>1. k = 0 => b * k = 0
    BY <1>2
  <2>2. k > 0 => b * k >= b
    BY <1>2, Z3
  <2>3. QED
    BY <1>2, <2>1, <2>2
<1>3. QED
  BY <1>1, <1>2, Grid

(* The number of a tile tells the tile.                                    *)
LEMMA TilesNumbered ==
  /\ \A n \in 0 .. GRID_X * GRID_X - 1 : get_dst(n) \in Tile /\ global(get_dst(n).x, get_dst(n).y) = n
  /\ \A t \in Tile : get_dst(global(t.x, t.y)) = t
<1>1. GRID_X \in Nat /\ GRID_X > 0 /\ TORUS \in {0, 1}
  BY Grid
<1>2. ASSUME NEW n \in 0 .. GRID_X * GRID_X - 1
      PROVE  get_dst(n) \in Tile /\ global(get_dst(n).x, get_dst(n).y) = n
  <2>1. n \in Int
    BY <1>1
  <2>2. Item(n, GRID_X, n \div GRID_X, n % GRID_X)
    BY <1>1, <2>1, ItemOf
  <2>3. n \div GRID_X \in 0 .. GRID_X - 1
    BY <1>1, <2>2, InRows
  <2>4. PICK y \in 0 .. GRID_X - 1, x \in 0 .. GRID_X - 1 :
           y = n \div GRID_X /\ x = n % GRID_X /\ n = GRID_X * y + x
    BY <2>2, <2>3 DEF Item
  <2>5. get_dst(n) = [x |-> IF TORUS = 0 /\ y % 2 = 1 THEN GRID_X - 1 - x ELSE x, y |-> y]
    BY <2>4 DEF get_dst
  <2>6. get_dst(n) \in Tile
    BY <1>1, <2>4, <2>5 DEF Tile, Coord
  <2>7. global(get_dst(n).x, get_dst(n).y) = y * GRID_X + x
    <3>1. get_dst(n).y = y /\ get_dst(n).x = IF TORUS = 0 /\ y % 2 = 1 THEN GRID_X - 1 - x ELSE x
      BY <2>5
    <3>2. GRID_X - 1 - (GRID_X - 1 - x) = x
      BY <1>1
    <3>3. QED
      BY <3>1, <3>2 DEF global
  <2>8. y * GRID_X = GRID_X * y
    BY <1>1
  <2>9. QED
    BY <2>4, <2>6, <2>7, <2>8
<1>3. ASSUME NEW t \in Tile PROVE get_dst(global(t.x, t.y)) = t
  <2>1. PICK x \in 0 .. GRID_X - 1, y \in 0 .. GRID_X - 1 : x = t.x /\ y = t.y /\ t = [x |-> x, y |-> y]
    BY DEF Tile, Coord
  <2>2. PICK z \in 0 .. GRID_X - 1 : z = IF TORUS = 0 /\ y % 2 = 1 THEN GRID_X - 1 - x ELSE x
    <3>1. GRID_X - 1 - x \in 0 .. GRID_X - 1
      BY <1>1
    <3>2. QED
      BY <3>1
  <2>3. global(x, y) = GRID_X * y + z
    BY <1>1, <2>2 DEF global
  <2>4. Item(GRID_X * y + z, GRID_X, y, z)
    BY <1>1 DEF Item
  <2>5. GRID_X * y + z \in Int
    BY <1>1
  <2>6. (GRID_X * y + z) \div GRID_X = y /\ (GRID_X * y + z) % GRID_X = z
    BY <1>1, <2>4, <2>5, ItemOf
  <2>7. get_dst(GRID_X * y + z) = [x |-> IF TORUS = 0 /\ y % 2 = 1 THEN GRID_X - 1 - z ELSE z, y |-> y]
    BY <2>6 DEF get_dst
  <2>8. (IF TORUS = 0 /\ y % 2 = 1 THEN GRID_X - 1 - z ELSE z) = x
    BY <1>1, <2>2
  <2>9. QED
    BY <2>1, <2>3, <2>7, <2>8
<1>4. QED
  BY <1>2, <1>3

LEMMA OwnerIs ==
  ASSUME NEW n \in 0 .. GRID_X * GRID_X - 1
  PROVE  (CHOOSE t \in Tile : global(t.x, t.y) = n) = get_dst(n)
<1>1. get_dst(n) \in Tile /\ global(get_dst(n).x, get_dst(n).y) = n
  BY TilesNumbered
<1>2. \A t \in Tile : global(t.x, t.y) = n => t = get_dst(n)
  BY TilesNumbered
<1>3. QED
  BY <1>1, <1>2

(* The nearest proxy is a proxy: where it is on the grid at all.           *)
LEMMA NearestIsProxy ==
  ASSUME NEW id \in Coord, NEW d \in Coord
  PROVE  /\ Nearest(id, d) \in Int
         /\ Nearest(id, d) >= 0 => Nearest(id, d) % PROXY_W = d % PROXY_W
<1>1. GRID_X \in Nat /\ GRID_X > 0 /\ PROXY_W \in Nat /\ PROXY_W > 0 /\ id \in Nat /\ d \in Nat
  BY Grid DEF Coord
<1>2. PICK k \in Nat : GRID_X = PROXY_W * k
  BY Grid
<1>3. PICK r \in 0 .. PROXY_W - 1 : r = d % PROXY_W
  BY <1>1, DivMod
<1>4. PICK s \in Int : s = id \div PROXY_W
  BY <1>1, DivMod
<1> DEFINE within == s * PROXY_W + r
           closest == IF Dist(within, id) >= Dist(within - PROXY_W, id) THEN within - PROXY_W
                      ELSE IF Dist(within, id) < Dist(within + PROXY_W, id) THEN within ELSE within + PROXY_W
<1>5. Nearest(id, d) = IF TORUS = 1 THEN CMod(closest, GRID_X) ELSE within
  BY <1>3, <1>4 DEF Nearest
<1>6. \E q \in Int : within = PROXY_W * q + r
  BY <1>1
<1>7. \E q \in Int : closest = PROXY_W * q + r
  <2>1. within - PROXY_W = PROXY_W * (s - 1) + r
    BY <1>1, Z3
  <2>2. within + PROXY_W = PROXY_W * (s + 1) + r
    BY <1>1, Z3
  <2>3. closest \in {within - PROXY_W, within, within + PROXY_W}
    OBVIOUS
  <2>4. s - 1 \in Int /\ s + 1 \in Int
    OBVIOUS
  <2> HIDE DEF closest, within
  <2>5. QED
    BY <1>6, <2>1, <2>2, <2>3, <2>4
<1>8. ASSUME NEW c \in Int, NEW q \in Int, c = PROXY_W * q + r
      PROVE  \E p \in Int : CMod(c, GRID_X) = PROXY_W * p + r
  <2>1. PICK e \in Int : CMod(c, GRID_X) = c - GRID_X * e
    <3>1. CDiv(c, GRID_X) \in Int
      <4>1. c \div GRID_X \in Int /\ (-c) \div GRID_X \in Int
        BY <1>1, DivMod
      <4>2. QED
        BY <4>1 DEF CDiv
    <3>2. QED
      BY <3>1 DEF CMod
  <2>2. c - GRID_X * e = PROXY_W * (q - k * e) + r
    <3>1. GRID_X * e = PROXY_W * (k * e)
      BY <1>1, <1>2, Z3
    <3>2. k * e \in Int
      OBVIOUS
    <3>3. PICK m \in Int : m = k * e
      BY <3>2
    <3>4. PROXY_W * (q - m) = PROXY_W * q - PROXY_W * m
      BY <1>1, Z3
    <3>5. PICK u \in Int, v \in Int : u = PROXY_W * q /\ v = PROXY_W * m
      BY <1>1
    <3>6. QED
      BY <1>8, <3>1, <3>3, <3>4, <3>5
  <2>3. q - k * e \in Int
    OBVIOUS
  <2>4. QED
    BY <2>1, <2>2, <2>3
<1>9. PICK p \in Int : Nearest(id, d) = PROXY_W * p + r
  <2>1. closest \in Int
    BY <1>1, <1>7
  <2> HIDE DEF closest, within
  <2>2. QED
    BY <1>5, <1>6, <1>7, <1>8, <2>1
<1>10. Nearest(id, d) \in Int
  BY <1>1, <1>9
<1>11. Item(Nearest(id, d), PROXY_W, p, r)
  BY <1>9 DEF Item
<1>12. Nearest(id, d) % PROXY_W = r
  BY <1>1, <1>10, <1>11, ItemOf
<1>13. QED
  BY <1>3, <1>10, <1>12

-----------------------------------------------------------------------------
(* Wiring.                                                                 *)

(* Tile c is number r on the ring of its board, which starts at o.         *)
OnRing(c, o, r) == o \in 0 .. GRID_X - BOARD_W /\ r \in 0 .. BOARD_W - 1 /\ c = o + r /\ o = BoardOrigin(c)

LEMMA Rings ==
  ASSUME NEW c \in Coord
  PROVE  /\ \E o, r : OnRing(c, o, r) /\ r = c % BOARD_W
         /\ \E q \in Nat : BoardOrigin(c) = BOARD_W * q
<1>1. GRID_X \in Nat /\ BOARD_W \in Nat /\ BOARD_W > 0 /\ c \in Int /\ c >= 0 /\ c <= GRID_X - 1
  BY Grid DEF Coord
<1>2. PICK k \in Nat : GRID_X = BOARD_W * k
  BY Grid
<1>3. PICK q \in Int, r \in 0 .. BOARD_W - 1 : q = c \div BOARD_W /\ r = c % BOARD_W /\ c = BOARD_W * q + r
  BY <1>1, DivMod
<1>4. Item(c, BOARD_W, q, r)
  BY <1>3 DEF Item
<1>5. q \in 0 .. k - 1
  BY <1>1, <1>2, <1>4, InRows
<1>6. BoardOrigin(c) = BOARD_W * q
  BY <1>1, <1>3 DEF BoardOrigin
<1>7. BOARD_W * q >= 0 /\ BOARD_W * q <= BOARD_W * k - BOARD_W
  BY <1>1, <1>5, Z3
<1>8. PICK o \in Int : o = BOARD_W * q
  BY <1>1
<1>9. PICK g \in Int : g = BOARD_W * k
  BY <1>1
<1>10. OnRing(c, o, r)
  BY <1>1, <1>2, <1>3, <1>6, <1>7, <1>8, <1>9 DEF OnRing
<1>11. QED
  BY <1>3, <1>5, <1>6, <1>10

(* The rings of two boards have no tile in common.                         *)
LEMMA RingsApart ==
  ASSUME NEW c \in Coord, NEW b \in Coord, NEW o, NEW r \in 0 .. BOARD_W - 1, NEW p, NEW s \in 0 .. BOARD_W - 1,
         o = BoardOrigin(c), p = BoardOrigin(b), o + r = p + s
  PROVE  o = p /\ r = s
<1>1. BOARD_W \in Nat /\ BOARD_W > 0
  BY Grid
<1>2. PICK x \in Nat : o = BOARD_W * x
  BY Rings
<1>3. PICK y \in Nat : p = BOARD_W * y
  BY Rings
<1>4. Item(o + r, BOARD_W, x, r) /\ Item(o + r, BOARD_W, y, s)
  BY <1>2, <1>3 DEF Item
<1>5. o + r \in Int
  BY <1>1, <1>2
<1>6. QED
  BY <1>1, <1>2, <1>3, <1>4, <1>5, OneItem

(* The tile n further on the ring.                                         *)
LEMMA AroundIs ==
  ASSUME NEW c \in Coord, NEW n \in Int, -BOARD_W <= n, n <= BOARD_W, NEW o, NEW r, OnRing(c, o, r)
  PROVE  \E s \in 0 .. BOARD_W - 1 :
           /\ Around(c, n) = o + s /\ OnRing(o + s, o, s) /\ o + s \in Coord
           /\ s \in {r + n - BOARD_W, r + n, r + n + BOARD_W}
<1>1. GRID_X \in Nat /\ BOARD_W \in Nat /\ BOARD_W > 0
  BY Grid
<1>2. o \in 0 .. GRID_X - BOARD_W /\ r \in 0 .. BOARD_W - 1 /\ c = o + r /\ o = BoardOrigin(c)
  BY DEF OnRing
<1>3. PICK q \in Nat : o = BOARD_W * q
  BY <1>2, Rings
<1> DEFINE s == IF r + n < 0 THEN r + n + BOARD_W ELSE IF r + n < BOARD_W THEN r + n ELSE r + n - BOARD_W
<1>4. s \in 0 .. BOARD_W - 1 /\ s \in {r + n - BOARD_W, r + n, r + n + BOARD_W}
  BY <1>1, <1>2
<1>5. (c + BOARD_W + n) % BOARD_W = s
  <2>1. c + BOARD_W + n \in Int
    BY <1>1, <1>2
  <2>2. BOARD_W * (q + 1) = o + BOARD_W /\ BOARD_W * (q + 2) = o + 2 * BOARD_W
    BY <1>1, <1>3, Z3
  <2>3. \E x \in Int : c + BOARD_W + n = BOARD_W * x + s
    <3>1. CASE r + n < 0
      <4>1. c + BOARD_W + n = o + s
        BY <1>1, <1>2, <3>1
      <4>2. QED
        BY <1>3, <4>1
    <3>2. CASE r + n >= 0 /\ r + n < BOARD_W
      <4>1. c + BOARD_W + n = BOARD_W * (q + 1) + s
        BY <1>1, <1>2, <2>2, <3>2
      <4>2. QED
        BY <4>1
    <3>3. CASE r + n >= BOARD_W
      <4>1. s = r + n - BOARD_W
        BY <1>1, <1>2, <3>3
      <4>2. c + BOARD_W + n = (o + 2 * BOARD_W) + s
        BY <1>1, <1>2, <4>1
      <4>3. QED
        BY <2>2, <4>2
    <3>4. QED
      BY <1>1, <1>2, <3>1, <3>2, <3>3
  <2>4. PICK x \in Int : Item(c + BOARD_W + n, BOARD_W, x, s)
    BY <1>4, <2>3 DEF Item
  <2>5. QED
    BY <1>1, <2>1, <2>4, ItemOf
<1>6. Around(c, n) = o + s
  BY <1>2, <1>5 DEF Around
<1> HIDE DEF s
<1>7. o + s \in Coord
  BY <1>1, <1>2, <1>4 DEF Coord
<1>8. BoardOrigin(o + s) = o
  <2>1. PICK p, u : OnRing(o + s, p, u)
    BY <1>7, Rings
  <2>2. QED
    BY <1>2, <1>4, <1>7, <2>1, RingsApart DEF OnRing
<1>9. QED
  BY <1>2, <1>4, <1>6, <1>7, <1>8 DEF OnRing

(* Two tiles have the same tile n further only when they are the same.     *)
LEMMA AroundOne ==
  ASSUME NEW c \in Coord, NEW b \in Coord, NEW n \in Int, -BOARD_W <= n, n <= BOARD_W,
         Around(c, n) = Around(b, n)
  PROVE  c = b
<1>1. BOARD_W \in Nat /\ BOARD_W > 0
  BY Grid
<1>2. PICK o, r : OnRing(c, o, r)
  BY Rings
<1>3. PICK p, u : OnRing(b, p, u)
  BY Rings
<1>4. PICK s \in 0 .. BOARD_W - 1 : Around(c, n) = o + s /\ s \in {r + n - BOARD_W, r + n, r + n + BOARD_W}
  BY <1>2, AroundIs
<1>5. PICK v \in 0 .. BOARD_W - 1 : Around(b, n) = p + v /\ v \in {u + n - BOARD_W, u + n, u + n + BOARD_W}
  BY <1>3, AroundIs
<1>6. o = p /\ s = v
  BY <1>2, <1>3, <1>4, <1>5, RingsApart DEF OnRing
<1>7. r \in 0 .. BOARD_W - 1 /\ u \in 0 .. BOARD_W - 1 /\ c = o + r /\ b = o + u
  BY <1>2, <1>3, <1>6 DEF OnRing
<1>8. r = u
  BY <1>1, <1>4, <1>5, <1>6, <1>7
<1>9. QED
  BY <1>7, <1>8

(* Two tiles at the edge, or both in the middle, of their boards have the  *)
(* same tile at the other end of the link only when they are the same.     *)
Across(c) == BOARD_W < GRID_X /\ c \in {BoardOrigin(c), BoardEnd(c)}

LEMMA OtherBoardIs ==
  ASSUME NEW c \in Coord, BOARD_W <= GRID_X, NEW o, NEW r, OnRing(c, o, r), r = c % BOARD_W
  PROVE  /\ OtherBoard(c) \in Coord
         /\ r = 0 => OtherBoard(c) = IF o = 0 THEN GRID_X - BOARD_W ELSE o - BOARD_W
         /\ r # 0 => OtherBoard(c) = IF o = GRID_X - BOARD_W THEN r ELSE o + BOARD_W + r
         /\ \E x \in Int : OtherBoard(c) = BOARD_W * x + r
<1>1. GRID_X \in Nat /\ GRID_X > 0 /\ BOARD_W \in Nat /\ BOARD_W > 0
  BY Grid
<1>2. o \in 0 .. GRID_X - BOARD_W /\ r \in 0 .. BOARD_W - 1 /\ c = o + r /\ o = BoardOrigin(c)
  BY DEF OnRing
<1>3. PICK k \in Nat : GRID_X = BOARD_W * k
  BY Grid
<1>4. PICK q \in Nat : o = BOARD_W * q
  BY <1>2, Rings
<1>5. o = 0 \/ o >= BOARD_W
  <2>1. q >= 1 => BOARD_W * q >= BOARD_W
    BY <1>1, Z3
  <2>2. q = 0 => BOARD_W * q = 0
    BY <1>1
  <2>3. QED
    BY <1>4, <2>1, <2>2
<1>6. o = GRID_X - BOARD_W \/ o <= GRID_X - 2 * BOARD_W
  <2>1. q >= k - 1 => BOARD_W * q >= BOARD_W * k - BOARD_W
    BY <1>1, Z3
  <2>2. q <= k - 2 => BOARD_W * q <= BOARD_W * k - 2 * BOARD_W
    BY <1>1, Z3
  <2>3. q >= k - 1 \/ q <= k - 2
    OBVIOUS
  <2>4. PICK u \in Int, v \in Int : u = BOARD_W * q /\ v = BOARD_W * k
    BY <1>1
  <2>5. u >= v - BOARD_W \/ u <= v - 2 * BOARD_W
    BY <2>1, <2>2, <2>3, <2>4
  <2>6. u = o /\ v = GRID_X
    BY <1>3, <1>4, <2>4
  <2>7. QED
    BY <1>1, <1>2, <2>5, <2>6
<1>7. \A a \in Int : (a >= 0 /\ a < GRID_X => a % GRID_X = a) /\ (a >= GRID_X /\ a < 2 * GRID_X => a % GRID_X = a - GRID_X)
  <2>1. SUFFICES ASSUME NEW a \in Int
                 PROVE  (a >= 0 /\ a < GRID_X => a % GRID_X = a) /\ (a >= GRID_X /\ a < 2 * GRID_X => a % GRID_X = a - GRID_X)
    OBVIOUS
  <2>2. GRID_X * 0 = 0 /\ GRID_X * 1 = GRID_X
    BY <1>1
  <2>3. (a >= 0 /\ a < GRID_X => Item(a, GRID_X, 0, a)) /\ (a >= GRID_X /\ a < 2 * GRID_X => Item(a, GRID_X, 1, a - GRID_X))
    BY <1>1, <2>1, <2>2 DEF Item
  <2>4. QED
    BY <1>1, <2>1, <2>3, ItemOf
<1>8. ASSUME r = 0
      PROVE  OtherBoard(c) = (IF o = 0 THEN GRID_X - BOARD_W ELSE o - BOARD_W) /\ OtherBoard(c) \in Coord
  <2>1. OtherBoard(c) = (c + GRID_X - BOARD_W) % GRID_X
    BY <1>8 DEF OtherBoard
  <2>2. PICK a \in Int : a = c + GRID_X - BOARD_W
    BY <1>1, <1>2
  <2>3. OtherBoard(c) = IF o = 0 THEN GRID_X - BOARD_W ELSE o - BOARD_W
    <3>1. a \in Int /\ a = o + GRID_X - BOARD_W /\ OtherBoard(c) = a % GRID_X
      <4>1. c = o
        BY <1>2, <1>8
      <4>2. QED
        BY <2>1, <2>2, <4>1
    <3>2. CASE o = 0
      <4>1. a >= 0 /\ a < GRID_X
        BY <1>1, <3>1, <3>2
      <4>2. a % GRID_X = a
        BY <1>7, <4>1
      <4>3. QED
        BY <1>1, <3>1, <3>2, <4>2
    <3>3. CASE o # 0
      <4>1. a >= GRID_X /\ a < 2 * GRID_X
        BY <1>1, <1>2, <1>5, <3>1, <3>3
      <4>2. a % GRID_X = a - GRID_X
        BY <1>7, <4>1
      <4>3. a - GRID_X = o - BOARD_W
        BY <1>1, <1>2, <3>1
      <4>4. QED
        BY <3>1, <3>3, <4>2, <4>3
    <3>4. QED
      BY <3>2, <3>3
  <2>4. QED
    BY <1>1, <1>2, <1>5, <2>3 DEF Coord
<1>9. ASSUME r # 0
      PROVE  OtherBoard(c) = (IF o = GRID_X - BOARD_W THEN r ELSE o + BOARD_W + r) /\ OtherBoard(c) \in Coord
  <2>1. OtherBoard(c) = (c + BOARD_W) % GRID_X
    BY <1>9 DEF OtherBoard
  <2>2. PICK a \in Int : a = c + BOARD_W
    BY <1>1, <1>2
  <2>3. OtherBoard(c) = IF o = GRID_X - BOARD_W THEN r ELSE o + BOARD_W + r
    BY <1>1, <1>2, <1>6, <1>7, <1>9, <2>1, <2>2
  <2>4. QED
    BY <1>1, <1>2, <1>6, <2>3 DEF Coord
<1>10. \E x \in Int : OtherBoard(c) = BOARD_W * x + r
  <2>1. /\ BOARD_W * (k - 1) = GRID_X - BOARD_W /\ BOARD_W * (q - 1) = o - BOARD_W
        /\ BOARD_W * (q + 1) = o + BOARD_W /\ BOARD_W * 0 = 0
    BY <1>1, <1>3, <1>4, Z3
  <2>2. /\ r = 0 => OtherBoard(c) \in {BOARD_W * (k - 1), BOARD_W * (q - 1)}
        /\ r # 0 => OtherBoard(c) \in {BOARD_W * 0 + r, BOARD_W * (q + 1) + r}
    <3>1. r # 0 => BOARD_W * 0 + r = r
      BY <1>2, <2>1
    <3>2. QED
      BY <1>8, <1>9, <2>1, <3>1
  <2>3. \A x \in Int : BOARD_W * x \in Int /\ BOARD_W * x + 0 = BOARD_W * x
    BY <1>1
  <2>4. k - 1 \in Int /\ q - 1 \in Int /\ q + 1 \in Int /\ 0 \in Int
    OBVIOUS
  <2>5. QED
    BY <2>2, <2>3, <2>4
<1>11. QED
  BY <1>8, <1>9, <1>10

LEMMA OtherBoardOne ==
  ASSUME NEW c \in Coord, NEW b \in Coord, Across(c), Across(b), OtherBoard(c) = OtherBoard(b)
  PROVE  c = b
<1>1. GRID_X \in Nat /\ BOARD_W \in Nat /\ BOARD_W > 0 /\ BOARD_W < GRID_X
  BY Grid DEF Across
<1>2. PICK o, r : OnRing(c, o, r) /\ r = c % BOARD_W
  BY Rings
<1>3. PICK p, u : OnRing(b, p, u) /\ u = b % BOARD_W
  BY Rings
<1>4. /\ o \in 0 .. GRID_X - BOARD_W /\ r \in 0 .. BOARD_W - 1 /\ c = o + r /\ o = BoardOrigin(c)
      /\ p \in 0 .. GRID_X - BOARD_W /\ u \in 0 .. BOARD_W - 1 /\ b = p + u /\ p = BoardOrigin(b)
  BY <1>2, <1>3 DEF OnRing
<1>5. PICK h \in Int : h = BOARD_W \div 2
  BY <1>1
<1>6. BOARD_W % 2 = 0 /\ BOARD_W < GRID_X
  BY <1>1, RoutingAssumption
<1>7. h > 0 /\ h < BOARD_W
  BY <1>1, <1>5, <1>6
<1>8. r \in {0, h} /\ u \in {0, h}
  BY <1>4, <1>5, <1>1 DEF Across, BoardEnd
<1>8a. BOARD_W <= GRID_X
  BY <1>1
<1>9. /\ \E x \in Int : OtherBoard(c) = BOARD_W * x + r
      /\ r = 0 => OtherBoard(c) = IF o = 0 THEN GRID_X - BOARD_W ELSE o - BOARD_W
      /\ r # 0 => OtherBoard(c) = IF o = GRID_X - BOARD_W THEN r ELSE o + BOARD_W + r
  BY <1>2, <1>8a, OtherBoardIs
<1>10. /\ \E x \in Int : OtherBoard(b) = BOARD_W * x + u
       /\ u = 0 => OtherBoard(b) = IF p = 0 THEN GRID_X - BOARD_W ELSE p - BOARD_W
       /\ u # 0 => OtherBoard(b) = IF p = GRID_X - BOARD_W THEN u ELSE p + BOARD_W + u
  BY <1>3, <1>8a, OtherBoardIs
<1>11. r = u
  <2>1. PICK x \in Int : OtherBoard(c) = BOARD_W * x + r
    BY <1>9
  <2>2. PICK y \in Int : OtherBoard(c) = BOARD_W * y + u
    BY <1>10
  <2>3. Item(OtherBoard(c), BOARD_W, x, r) /\ Item(OtherBoard(c), BOARD_W, y, u)
    BY <1>4, <2>1, <2>2 DEF Item
  <2>4. OtherBoard(c) \in Int
    BY <1>1, <1>4, <2>1
  <2>5. QED
    BY <1>1, <2>3, <2>4, OneItem
<1>12. o = p
  <2>1. CASE r = 0
    <3>1. (IF o = 0 THEN GRID_X - BOARD_W ELSE o - BOARD_W) = IF p = 0 THEN GRID_X - BOARD_W ELSE p - BOARD_W
      BY <1>9, <1>10, <1>11, <2>1
    <3>2. QED
      BY <1>1, <1>4, <3>1
  <2>2. CASE r # 0
    <3>1. (IF o = GRID_X - BOARD_W THEN r ELSE o + BOARD_W + r) = IF p = GRID_X - BOARD_W THEN r ELSE p + BOARD_W + r
      BY <1>9, <1>10, <1>11, <2>2
    <3>2. QED
      BY <1>1, <1>4, <3>1
  <2>3. QED
    BY <2>1, <2>2
<1>13. QED
  BY <1>4, <1>11, <1>12

LEMMA Neighbours ==
  ASSUME NEW t \in Tile, NEW port \in Ports, HasPort(t, port)
  PROVE  Neighbour(t, port) \in Tile
<1>1. GRID_X \in Nat /\ BOARD_W \in Nat /\ RUCHE_X \in 0 .. BOARD_W
  BY Grid
<1>2. ASSUME NEW c \in Coord, NEW n \in {-1, 1, -RUCHE_X, RUCHE_X}
      PROVE  Around(c, n) \in Coord
  <2>1. n \in Int /\ -BOARD_W <= n /\ n <= BOARD_W
    BY <1>1, Grid
  <2>2. PICK o, r : OnRing(c, o, r)
    BY Rings
  <2>3. QED
    BY <2>1, <2>2, AroundIs
<1>3. ASSUME NEW c \in Coord, BOARD_W < GRID_X
      PROVE  OtherBoard(c) \in Coord
  <2>1. PICK o, r : OnRing(c, o, r) /\ r = c % BOARD_W
    BY Rings
  <2>2. BOARD_W <= GRID_X
    BY <1>1, <1>3
  <2>3. QED
    BY <2>1, <2>2, OtherBoardIs
<1>4. t.x \in Coord /\ t.y \in Coord /\ t = [x |-> t.x, y |-> t.y]
  BY DEF Tile
<1>5. port \in {"PX", "PY"} => BOARD_W < GRID_X
  BY DEF HasPort, Express
<1>6. \A c \in Coord : [t EXCEPT !.x = c] \in Tile /\ [t EXCEPT !.y = c] \in Tile
  BY <1>4 DEF Tile
<1>7. \/ Neighbour(t, port) = t
      \/ \E n \in {-1, 1, -RUCHE_X, RUCHE_X} : Neighbour(t, port) = [t EXCEPT !.x = Around(t.x, n)]
      \/ \E n \in {-1, 1, -RUCHE_X, RUCHE_X} : Neighbour(t, port) = [t EXCEPT !.y = Around(t.y, n)]
      \/ port = "PX" /\ Neighbour(t, port) = [t EXCEPT !.x = OtherBoard(t.x)]
      \/ port = "PY" /\ Neighbour(t, port) = [t EXCEPT !.y = OtherBoard(t.y)]
  BY <1>4 DEF Neighbour, Ports, XPorts, YPorts
<1>8. QED
  BY <1>2, <1>3, <1>4, <1>5, <1>6, <1>7

(* The input ports are the outputs they are linked with, each with one.    *)
LEMMA InputsOne ==
  /\ \A port \in Ports : InputAt(port) \in Ports /\ (InputAt(port) = "C" <=> port = "C")
  /\ \A p, f \in Ports : InputAt(p) = InputAt(f) => p = f
BY DEF InputAt, Ports, XPorts, YPorts

(* An input port has one producer at most.                                 *)
LEMMA ProducerOne ==
  ASSUME NEW t \in Tile, NEW u \in Tile, NEW port \in Ports, HasPort(t, port), HasPort(u, port),
         Neighbour(t, port) = Neighbour(u, port)
  PROVE  t = u
<1>1. t.x \in Coord /\ t.y \in Coord /\ u.x \in Coord /\ u.y \in Coord
  BY DEF Tile
<1>2. t = [x |-> t.x, y |-> t.y] /\ u = [x |-> u.x, y |-> u.y]
  BY DEF Tile
<1>3. ASSUME NEW n \in {-1, 1, -RUCHE_X, RUCHE_X}, NEW c \in Coord, NEW b \in Coord, Around(c, n) = Around(b, n)
      PROVE  c = b
  <2>1. n \in Int /\ -BOARD_W <= n /\ n <= BOARD_W
    BY Grid
  <2>2. QED
    BY <1>3, <2>1, AroundOne
<1>4. ASSUME NEW n \in {-1, 1, -RUCHE_X, RUCHE_X}, Neighbour(t, port) = [t EXCEPT !.x = Around(t.x, n)],
             Neighbour(u, port) = [u EXCEPT !.x = Around(u.x, n)]
      PROVE  t = u
  <2>1. Around(t.x, n) = Around(u.x, n) /\ t.y = u.y
    BY <1>2, <1>4
  <2>2. QED
    BY <1>1, <1>2, <1>3, <2>1
<1>5. ASSUME NEW n \in {-1, 1, -RUCHE_X, RUCHE_X}, Neighbour(t, port) = [t EXCEPT !.y = Around(t.y, n)],
             Neighbour(u, port) = [u EXCEPT !.y = Around(u.y, n)]
      PROVE  t = u
  <2>1. Around(t.y, n) = Around(u.y, n) /\ t.x = u.x
    BY <1>2, <1>5
  <2>2. QED
    BY <1>1, <1>2, <1>3, <2>1
<1>6. CASE port = "PX"
  <2>1. Across(t.x) /\ Across(u.x)
    BY <1>6 DEF HasPort, Across, Express
  <2>2. Neighbour(t, port) = [t EXCEPT !.x = OtherBoard(t.x)] /\ Neighbour(u, port) = [u EXCEPT !.x = OtherBoard(u.x)]
    BY <1>6 DEF Neighbour
  <2>3. OtherBoard(t.x) = OtherBoard(u.x) /\ t.y = u.y
    BY <1>2, <2>2
  <2>4. QED
    BY <1>1, <1>2, <2>1, <2>3, OtherBoardOne
<1>7. CASE port = "PY"
  <2>1. Across(t.y) /\ Across(u.y)
    BY <1>7 DEF HasPort, Across, Express
  <2>2. Neighbour(t, port) = [t EXCEPT !.y = OtherBoard(t.y)] /\ Neighbour(u, port) = [u EXCEPT !.y = OtherBoard(u.y)]
    BY <1>7 DEF Neighbour
  <2>3. OtherBoard(t.y) = OtherBoard(u.y) /\ t.x = u.x
    BY <1>2, <2>2
  <2>4. QED
    BY <1>1, <1>2, <2>1, <2>3, OtherBoardOne
<1>8. CASE port = "C"
  BY <1>8 DEF Neighbour
<1>9. CASE port \in {"W", "E", "RW", "RE"}
  <2>1. \E n \in {-1, 1, -RUCHE_X, RUCHE_X} : /\ Neighbour(t, port) = [t EXCEPT !.x = Around(t.x, n)]
                                              /\ Neighbour(u, port) = [u EXCEPT !.x = Around(u.x, n)]
    BY <1>9 DEF Neighbour
  <2>2. QED
    BY <1>4, <2>1
<1>10. CASE port \in {"N", "S", "RN", "RS"}
  <2>1. \E n \in {-1, 1, -RUCHE_X, RUCHE_X} : /\ Neighbour(t, port) = [t EXCEPT !.y = Around(t.y, n)]
                                              /\ Neighbour(u, port) = [u EXCEPT !.y = Around(u.y, n)]
    BY <1>10 DEF Neighbour
  <2>2. QED
    BY <1>5, <2>1
<1>11. QED
  BY <1>6, <1>7, <1>8, <1>9, <1>10 DEF Ports, XPorts, YPorts

-----------------------------------------------------------------------------
(* The router's choice.                                                    *)

(* What the direction says of the target.                                  *)
LEMMA Directions ==
  ASSUME NEW q, NEW t, NEW d
  PROVE  /\ Direction(q, t, d) \in {"C", "N", "S", "W", "E", "PX", "PY"}
         /\ Direction(q, t, d) = "C" => Target(q, t, d) = t
         /\ Target(q, t, d) # t /\ Target(q, t, d).y = t.y => Direction(q, t, d) \in {"PX", "W", "E"}
         /\ Target(q, t, d).y # t.y => Direction(q, t, d) \in {"PY", "N", "S"}
BY DEF Direction

(* A message enters the core, follows its direction, or takes the express  *)
(* link of the same direction.                                             *)
LEMMA ChoicesAre ==
  ASSUME NEW q, NEW t, NEW d, NEW from, NEW port \in Choices(q, t, d, from)
  PROVE  /\ port \in Ports
         /\ \/ port = "C" /\ MayCapture(q, t, d, from)
            \/ port = Direction(q, t, d)
            \/ /\ Jumps(q, t, d, Direction(q, t, d)) /\ port = ExpressOf(Direction(q, t, d))
               /\ Direction(q, t, d) \in {"N", "S", "W", "E"}
<1>1. Direction(q, t, d) \in {"C", "N", "S", "W", "E", "PX", "PY"}
  BY Directions
<1>2. MustCapture(q, t, d, from) => MayCapture(q, t, d, from)
  BY DEF MustCapture
<1>3. Jumps(q, t, d, Direction(q, t, d)) => Direction(q, t, d) \in {"N", "S", "W", "E"}
  BY DEF Jumps
<1>4. \/ port = "C" /\ MayCapture(q, t, d, from)
      \/ port = Direction(q, t, d)
      \/ Jumps(q, t, d, Direction(q, t, d)) /\ port = ExpressOf(Direction(q, t, d))
  BY <1>2 DEF Choices
<1>5. QED
  BY <1>1, <1>3, <1>4 DEF ExpressOf, Ports, XPorts, YPorts

(* On one axis, the coordinate that Target aims at.                        *)
Goal(q, id, d) == IF q = 3 /\ GRID_X \div PROXY_W > 1 THEN Nearest(id, d) ELSE d

LEMMA TargetIs ==
  ASSUME NEW q, NEW t, NEW d \in Tile
  PROVE  Target(q, t, d) = [x |-> Goal(q, t.x, d.x), y |-> Goal(q, t.y, d.y)]
BY DEF Target, Goal, Tile

-----------------------------------------------------------------------------
(* What holds at every step: the message is in the port that the router it *)
(* came from feeds, and off the Y axis once it moves along X.              *)
Feeds(f) == f \in Tile \X (Ports \ {"C"}) /\ HasPort(f[1], f[2]) /\ InputAt(f[2]) = orig /\ Neighbour(f[1], f[2]) = at

MayRun == done => \/ at = get_dst(data)
                  \/ qid = 1 /\ StealRegion(at, get_dst(data))
                  \/ qid > 1 /\ IsProxyOf(at, get_dst(data))

Walk == /\ TypeOK /\ data \in 0 .. GRID_X * GRID_X - 1
        /\ orig # "C" => \E f \in Tile \X (Ports \ {"C"}) : Feeds(f)
        /\ orig \in XPorts => Target(qid, at, get_dst(data)).y = at.y
        /\ MayRun

LEMMA InitWalk == Init => Walk
<1>1. SUFFICES ASSUME Init PROVE Walk
  OBVIOUS
<1>2. 0 .. GRID_X * GRID_X - 1 \subseteq Nat
  BY Grid
<1>3. "C" \notin XPorts /\ "C" \in Ports
  BY DEF XPorts, Ports
<1>4. QED
  BY <1>1, <1>2, <1>3 DEF Init, Walk, TypeOK, MayRun

(* A message handed over at its target is at the owner or at a proxy.      *)
LEMMA AtTarget ==
  ASSUME NEW q, NEW t \in Tile, NEW d \in Tile, Target(q, t, d) = t
  PROVE  t = d \/ (q = 3 /\ IsProxyOf(t, d))
<1>1. t.x \in Coord /\ t.y \in Coord /\ d.x \in Coord /\ d.y \in Coord
  BY DEF Tile
<1>2. CASE q = 3 /\ GRID_X \div PROXY_W > 1
  <2>1. Nearest(t.x, d.x) = t.x /\ Nearest(t.y, d.y) = t.y
    BY <1>2, TargetIs DEF Goal
  <2>2. t.x >= 0 /\ t.y >= 0
    BY <1>1 DEF Coord
  <2>3. t.x % PROXY_W = d.x % PROXY_W
    BY <1>1, <2>1, <2>2, NearestIsProxy
  <2>4. t.y % PROXY_W = d.y % PROXY_W
    BY <1>1, <2>1, <2>2, NearestIsProxy
  <2>5. QED
    BY <1>2, <2>3, <2>4 DEF IsProxyOf
<1>3. CASE ~(q = 3 /\ GRID_X \div PROXY_W > 1)
  <2>1. Target(q, t, d) = d
    BY <1>3 DEF Target
  <2>2. QED
    BY <2>1
<1>4. QED
  BY <1>2, <1>3

LEMMA HopWalk == Walk /\ Hop => Walk'
<1>1. SUFFICES ASSUME Walk, Hop PROVE Walk'
  OBVIOUS
<1> DEFINE d == get_dst(data)
<1>2. /\ qid \in 1 .. 3 /\ data \in Nat /\ at \in Tile /\ orig \in Ports /\ done = FALSE
      /\ data \in 0 .. GRID_X * GRID_X - 1 /\ qid' = qid /\ data' = data
  BY <1>1 DEF Walk, TypeOK, Hop
<1>3. PICK port \in Choices(qid, at, d, orig) :
        /\ HasPort(at, port)
        /\ at' = Neighbour(at, port) /\ orig' = InputAt(port)
        /\ done' = (port = "C")
  BY <1>1 DEF Hop
<1>4. d \in Tile
  BY <1>2, TilesNumbered
<1>5. /\ port \in Ports
      /\ \/ port = "C" /\ MayCapture(qid, at, d, orig)
         \/ port = Direction(qid, at, d)
         \/ /\ Jumps(qid, at, d, Direction(qid, at, d)) /\ port = ExpressOf(Direction(qid, at, d))
            /\ Direction(qid, at, d) \in {"N", "S", "W", "E"}
  BY <1>3, ChoicesAre
<1>6. TypeOK' /\ (data \in 0 .. GRID_X * GRID_X - 1)'
  BY <1>2, <1>3, <1>5, Neighbours, InputsOne DEF TypeOK
<1>7. (orig # "C" => \E f \in Tile \X (Ports \ {"C"}) : Feeds(f))'
  <2>1. ASSUME orig' # "C" PROVE (\E f \in Tile \X (Ports \ {"C"}) : Feeds(f))'
    <3>1. port # "C"
      BY <1>3, <2>1, InputsOne DEF Ports
    <3>2. <<at, port>> \in Tile \X (Ports \ {"C"})
      BY <1>2, <1>5, <3>1
    <3>3. PICK f \in Tile \X (Ports \ {"C"}) : f = <<at, port>>
      BY <3>2
    <3>4. Feeds(f)'
      BY <1>3, <3>3 DEF Feeds
    <3>5. QED
      BY <3>4
  <2>2. QED
    BY <2>1
<1>8. (orig \in XPorts => Target(qid, at, d).y = at.y)'
  <2>1. ASSUME orig' \in XPorts PROVE Target(qid', at', d).y = at'.y
    <3>1. port \in XPorts
      BY <1>3, <1>5, <2>1 DEF InputAt, Ports, XPorts, YPorts
    <3>2. Direction(qid, at, d) \in {"PX", "W", "E"}
      <4>1. port # "C" /\ port \notin YPorts
        BY <3>1 DEF XPorts, YPorts
      <4>2. Direction(qid, at, d) \in {"C", "N", "S", "W", "E", "PX", "PY"}
        BY Directions
      <4>3. QED
        BY <1>5, <4>1, <4>2 DEF ExpressOf, YPorts
    <3>3. Target(qid, at, d).y = at.y
      BY <3>2, Directions
    <3>4. at'.y = at.y
      BY <1>2, <1>3, <3>1 DEF Neighbour, XPorts, Tile
    <3>5. QED
      BY <1>2, <1>4, <3>3, <3>4, TargetIs
  <2>2. d' = d
    BY <1>2 DEF get_dst
  <2>3. QED
    BY <2>1, <2>2
<1>9. MayRun'
  <2>1. ASSUME port = "C"
        PROVE  at = d \/ (qid = 1 /\ StealRegion(at, d)) \/ (qid > 1 /\ IsProxyOf(at, d))
    <3>1. CASE MayCapture(qid, at, d, orig)
      BY <3>1 DEF MayCapture
    <3>2. CASE ~MayCapture(qid, at, d, orig)
      <4>1. Direction(qid, at, d) = "C"
        BY <1>5, <2>1, <3>2 DEF ExpressOf
      <4>2. Target(qid, at, d) = at
        BY <4>1, Directions
      <4>3. QED
        BY <1>2, <1>4, <4>2, AtTarget
    <3>3. QED
      BY <3>1, <3>2
  <2>2. port = "C" => at' = at
    BY <1>3 DEF Neighbour
  <2>3. QED
    BY <1>2, <1>3, <2>1, <2>2 DEF MayRun
<1>10. QED
  BY <1>6, <1>7, <1>8, <1>9 DEF Walk

LEMMA SameWalk == Walk /\ UNCHANGED vars => Walk'
BY DEF Walk, vars, TypeOK, MayRun, Feeds

LEMMA WalkAlways == Spec => []Walk
<1>1. Walk /\ [Next]_vars => Walk'
  BY HopWalk, SameWalk DEF Next, Delivered
<1>2. QED
  BY <1>1, InitWalk, PTL DEF Spec

(* In any network, a message is handed only to a core that may run its     *)
(* task: the owner's, one of its steal region, or one of its proxies.      *)
THEOREM TasksRunWhereAllowed == Spec => []RightTile
<1>1. Walk => RightTile
  BY OwnerIs DEF Walk, MayRun, RightTile
<1>2. QED
  BY <1>1, WalkAlways, PTL

(* In any network, the queue of the input port a message waits in is fed   *)
(* by one output of one router, as the queue without locks needs it.       *)
THEOREM ProducersAlone == Spec => []OneProducer
<1>1. ASSUME Walk PROVE OneProducer
  <2>1. SUFFICES ASSUME orig # "C"
                 PROVE  Cardinality({f \in Tile \X (Ports \ {"C"}) :
                           HasPort(f[1], f[2]) /\ InputAt(f[2]) = orig /\ Neighbour(f[1], f[2]) = at}) = 1
    BY DEF OneProducer
  <2> DEFINE fs == {f \in Tile \X (Ports \ {"C"}) :
                      HasPort(f[1], f[2]) /\ InputAt(f[2]) = orig /\ Neighbour(f[1], f[2]) = at}
  <2>2. PICK f : f \in fs
    BY <1>1, <2>1 DEF Walk, Feeds
  <2>3. ASSUME NEW g \in fs PROVE g = f
    <3>1. /\ f = <<f[1], f[2]>> /\ f[1] \in Tile /\ f[2] \in Ports
          /\ g = <<g[1], g[2]>> /\ g[1] \in Tile /\ g[2] \in Ports
      BY <2>2, <2>3
    <3>2. f[2] = g[2]
      BY <2>2, <2>3, <3>1, InputsOne
    <3>3. f[1] = g[1]
      BY <2>2, <2>3, <3>1, <3>2, ProducerOne
    <3>4. QED
      BY <3>1, <3>2, <3>3
  <2>4. fs = {f}
    BY <2>2, <2>3
  <2>5. QED
    BY <2>4, FS_Singleton
<1>2. QED
  BY <1>1, WalkAlways, PTL

-----------------------------------------------------------------------------
(* One axis, in plain numbers: G tiles, in boards of B, regions of W, half *)
(* a board h; the board of the tile starts at o.                           *)
Wrap(G, c)         == IF c >= G THEN c - G ELSE c
Off(B, o, x)       == (o > 0 /\ x < o) \/ x >= o + B
AimAt(B, h, o, x)  == IF o > 0 /\ x < o THEN o ELSE IF x >= o + B THEN o + h ELSE x
Shorter(h, i, a)   == (a < i /\ i - a <= h) \/ a - i > h
Far(i, a, n)       == a - i >= n \/ i - a >= n
Apart(W, m)        == m = 0 \/ m >= W \/ m <= -W
AtMostHalf(W, c, i) == 2 * (c - i) <= W /\ 2 * (i - c) <= W

(* A tile i sends a message n tiles on, backward or forward.               *)
Sends(B, h, o, i, x, back, n) ==
  /\ x # i /\ ~(Off(B, o, x) /\ AimAt(B, h, o, x) = i)
  /\ Shorter(h, i, AimAt(B, h, o, x)) <=> back
  /\ Far(i, AimAt(B, h, o, x), n)

(* When each sends to a nearest one of the numbers of a class of W, a tile *)
(* never gets back what it sent.                                           *)
LEMMA NearestNeverBack ==
  ASSUME NEW B \in Int, NEW W \in Int, NEW G \in Int, NEW h \in Int, NEW o \in Int, NEW r \in 0 .. B - 1,
         NEW s \in 0 .. B - 1, NEW c \in Int, NEW e \in Int, NEW n \in Int,
         W >= 1, B = W \/ B >= 2 * W, 2 * h <= B, B <= 2 * h + 1, B < G => 2 * h = B,
         o = 0 \/ o >= B, o = G - B \/ o <= G - 2 * B, n >= 1,
         AtMostHalf(W, c, o + r), AtMostHalf(W, e, o + s),
         Apart(W, c - e), Apart(W, c - e + B), Apart(W, c - e - B)
  PROVE  /\ s \in {r - n, r - n + B} => ~ /\ Sends(B, h, o, o + r, Wrap(G, c), TRUE, n)
                                          /\ Sends(B, h, o, o + s, Wrap(G, e), FALSE, n)
         /\ s \in {r + n, r + n - B} => ~ /\ Sends(B, h, o, o + r, Wrap(G, c), FALSE, n)
                                          /\ Sends(B, h, o, o + s, Wrap(G, e), TRUE, n)
<1> DEFINE x == Wrap(G, c)
           y == Wrap(G, e)
           a == AimAt(B, h, o, x)
           b == AimAt(B, h, o, y)
<1>1. x \in Int /\ y \in Int
  BY DEF Wrap
<1>2. a \in Int /\ b \in Int
  BY <1>1 DEF AimAt
<1>3. ASSUME s \in {r - n, r - n + B}, Sends(B, h, o, o + r, x, TRUE, n), Sends(B, h, o, o + s, y, FALSE, n)
      PROVE  FALSE
  BY <1>1, <1>2, <1>3, Z3 DEF Sends, Wrap, AimAt, Off, Shorter, Far, Apart, AtMostHalf
<1>4. ASSUME s \in {r + n, r + n - B}, Sends(B, h, o, o + r, x, FALSE, n), Sends(B, h, o, o + s, y, TRUE, n)
      PROVE  FALSE
  BY <1>1, <1>2, <1>4, Z3 DEF Sends, Wrap, AimAt, Off, Shorter, Far, Apart, AtMostHalf
<1>5. QED
  BY <1>3, <1>4

(* When all send to the same one, likewise.                                *)
LEMMA SameNeverBack ==
  ASSUME NEW B \in Int, NEW h \in Int, NEW o \in Int, NEW r \in 0 .. B - 1,
         NEW s \in 0 .. B - 1, NEW x \in Int, NEW n \in Int,
         2 * h <= B, B <= 2 * h + 1, n >= 1, o >= 0, x >= 0
  PROVE  /\ s \in {r - n, r - n + B} => ~ /\ Sends(B, h, o, o + r, x, TRUE, n)
                                          /\ Sends(B, h, o, o + s, x, FALSE, n)
         /\ s \in {r + n, r + n - B} => ~ /\ Sends(B, h, o, o + r, x, FALSE, n)
                                          /\ Sends(B, h, o, o + s, x, TRUE, n)
<1> DEFINE a == AimAt(B, h, o, x)
<1>1. a \in Int
  BY DEF AimAt
<1>2. ASSUME s \in {r - n, r - n + B}, Sends(B, h, o, o + r, x, TRUE, n), Sends(B, h, o, o + s, x, FALSE, n)
      PROVE  FALSE
  BY <1>1, <1>2, Z3 DEF Sends, AimAt, Off, Shorter, Far
<1>3. ASSUME s \in {r + n, r + n - B}, Sends(B, h, o, o + r, x, FALSE, n), Sends(B, h, o, o + s, x, TRUE, n)
      PROVE  FALSE
  BY <1>1, <1>3, Z3 DEF Sends, AimAt, Off, Shorter, Far
<1>4. QED
  BY <1>2, <1>3

-----------------------------------------------------------------------------
(* One axis of the grid.                                                   *)
HalfBoard == BOARD_W \div 2

LEMMA Halves ==
  /\ HalfBoard \in Int /\ 2 * HalfBoard <= BOARD_W /\ BOARD_W <= 2 * HalfBoard + 1
  /\ BOARD_W < GRID_X => 2 * HalfBoard = BOARD_W
<1>1. BOARD_W \in Nat /\ GRID_X \in Nat
  BY Grid
<1>2. BOARD_W < GRID_X => BOARD_W % 2 = 0
  BY RoutingAssumption
<1>3. QED
  BY <1>1, <1>2 DEF HalfBoard

LEMMA AimIs ==
  ASSUME NEW id \in Coord, NEW o, NEW r, OnRing(id, o, r), NEW x \in Int, -BOARD_W < x
  PROVE  /\ Aim(id, x) = AimAt(BOARD_W, HalfBoard, o, x)
         /\ Switches(id, x) <=> Off(BOARD_W, o, x) /\ AimAt(BOARD_W, HalfBoard, o, x) = id
         /\ o = 0 \/ o >= BOARD_W
         /\ o = GRID_X - BOARD_W \/ o <= GRID_X - 2 * BOARD_W
<1>1. GRID_X \in Nat /\ BOARD_W \in Nat /\ BOARD_W > 0
  BY Grid
<1>2. o \in 0 .. GRID_X - BOARD_W /\ r \in 0 .. BOARD_W - 1 /\ id = o + r /\ o = BoardOrigin(id)
  BY DEF OnRing
<1>3. PICK k \in Nat : GRID_X = BOARD_W * k
  BY Grid
<1>4. PICK q \in Nat : o = BOARD_W * q
  BY <1>2, Rings
<1>5. Board(id) = q
  <2>1. Item(id, BOARD_W, q, r)
    <3>1. q \in Int /\ r \in 0 .. BOARD_W - 1 /\ id = o + r
      BY <1>2
    <3>2. id = BOARD_W * q + r
      BY <1>4, <3>1, Zenon
    <3>3. QED
      BY <3>1, <3>2 DEF Item
  <2>2. id \in Int /\ id >= 0
    BY <1>1, <1>2
  <2>3. id \div BOARD_W = q
    BY <1>1, <2>1, <2>2, ItemOf
  <2>4. QED
    BY <2>2, <2>3 DEF Board, CDiv
<1>6. PICK p \in Int : /\ Board(x) = p
                       /\ x >= 0 => BOARD_W * p <= x /\ x < BOARD_W * p + BOARD_W
                       /\ x < 0 => p = 0
  <2>1. CASE x >= 0
    <3>1. PICK m \in Int, u \in 0 .. BOARD_W - 1 : m = x \div BOARD_W /\ x = BOARD_W * m + u
      BY <1>1, DivMod
    <3>2. PICK v \in Int : v = BOARD_W * m
      BY <1>1
    <3>3. v <= x /\ x < v + BOARD_W
      BY <1>1, <3>1, <3>2
    <3>4. Board(x) = m
      BY <2>1, <3>1 DEF Board, CDiv
    <3>5. QED
      BY <2>1, <3>2, <3>3, <3>4
  <2>2. CASE x < 0
    <3>1. Item(-x, BOARD_W, 0, -x)
      BY <1>1, <2>2 DEF Item
    <3>2. (-x) \div BOARD_W = 0
      BY <1>1, <3>1, ItemOf
    <3>3. Board(x) = 0
      BY <2>2, <3>2 DEF Board, CDiv
    <3>4. QED
      BY <2>2, <3>3
  <2>3. QED
    BY <2>1, <2>2
<1>7. PICK v \in Int : v = BOARD_W * p
  BY <1>1
<1>8. /\ p < q => v + BOARD_W <= o
      /\ p > q => v >= o + BOARD_W
      /\ p = q => v = o
  <2>1. p < q => BOARD_W * p + BOARD_W <= BOARD_W * q
    BY <1>1, Z3
  <2>2. p > q => BOARD_W * p >= BOARD_W * q + BOARD_W
    BY <1>1, Z3
  <2>3. QED
    BY <1>4, <1>7, <2>1, <2>2
<1>9. (q = 0 => o = 0) /\ (q > 0 => o >= BOARD_W)
  <2>1. q > 0 => BOARD_W * q >= BOARD_W
    BY <1>1, Z3
  <2>2. q = 0 => BOARD_W * q = 0
    BY <1>1
  <2>3. QED
    BY <1>4, <2>1, <2>2
<1>10. /\ p < q <=> o > 0 /\ x < o
       /\ p > q <=> x >= o + BOARD_W
  <2>1. CASE x >= 0
    <3>1. v <= x /\ x < v + BOARD_W
      BY <1>6, <1>7, <2>1
    <3>2. q = 0 \/ q > 0
      OBVIOUS
    <3>3. p < q \/ p = q \/ p > q
      OBVIOUS
    <3>4. QED
      BY <1>1, <1>2, <1>8, <1>9, <2>1, <3>1, <3>2, <3>3
  <2>2. CASE x < 0
    BY <1>1, <1>2, <1>6, <1>9, <2>2
  <2>3. QED
    BY <2>1, <2>2
<1>11. BoardEnd(id) = o + HalfBoard
  BY <1>2 DEF BoardEnd, HalfBoard
<1>12. Aim(id, x) = AimAt(BOARD_W, HalfBoard, o, x)
  BY <1>2, <1>5, <1>6, <1>10, <1>11 DEF Aim, AimAt
<1>13. Switches(id, x) <=> Off(BOARD_W, o, x) /\ AimAt(BOARD_W, HalfBoard, o, x) = id
  <2>1. p # q <=> p < q \/ p > q
    OBVIOUS
  <2>2. Board(x) # Board(id) <=> Off(BOARD_W, o, x)
    BY <1>5, <1>6, <1>10, <2>1 DEF Off
  <2>3. QED
    BY <1>12, <2>2 DEF Switches
<1>14. o = GRID_X - BOARD_W \/ o <= GRID_X - 2 * BOARD_W
  <2>1. q >= k - 1 => BOARD_W * q >= BOARD_W * k - BOARD_W
    BY <1>1, Z3
  <2>2. q <= k - 2 => BOARD_W * q <= BOARD_W * k - 2 * BOARD_W
    BY <1>1, Z3
  <2>3. q >= k - 1 \/ q <= k - 2
    OBVIOUS
  <2>4. PICK u \in Int, w \in Int : u = BOARD_W * q /\ w = BOARD_W * k
    BY <1>1
  <2>5. u >= w - BOARD_W \/ u <= w - 2 * BOARD_W
    BY <2>1, <2>2, <2>3, <2>4
  <2>6. u = o /\ w = GRID_X
    BY <1>3, <1>4, <2>4
  <2>7. QED
    BY <1>1, <1>2, <2>5, <2>6
<1>15. QED
  BY <1>9, <1>12, <1>13, <1>14

LEMMA NearestIs ==
  ASSUME NEW id \in Coord, NEW d \in Coord
  PROVE  /\ TORUS = 1 => \E c, k \in Int : /\ Nearest(id, d) = Wrap(GRID_X, c)
                                           /\ c = PROXY_W * k + (d % PROXY_W)
                                           /\ AtMostHalf(PROXY_W, c, id)
         /\ TORUS = 0 => \E k \in Int : /\ Nearest(id, d) = PROXY_W * k + (d % PROXY_W)
                                        /\ id >= PROXY_W * k /\ id < PROXY_W * k + PROXY_W
<1>1. /\ GRID_X \in Nat /\ GRID_X > 0 /\ PROXY_W \in Nat /\ PROXY_W > 0
      /\ id \in Int /\ id >= 0 /\ id < GRID_X /\ d \in Int
  BY Grid DEF Coord
<1>2. PROXY_W <= GRID_X
  BY <1>1, Sizes, Grid
<1>3. PICK r \in 0 .. PROXY_W - 1 : r = d % PROXY_W
  BY <1>1, DivMod
<1>4. PICK s \in Int, i \in 0 .. PROXY_W - 1 : s = id \div PROXY_W /\ id = PROXY_W * s + i
  BY <1>1, DivMod
<1>5. PICK u \in Int : u = PROXY_W * s
  BY <1>1
<1> DEFINE within == u + r
           closest == IF Dist(within, id) >= Dist(within - PROXY_W, id) THEN within - PROXY_W
                      ELSE IF Dist(within, id) < Dist(within + PROXY_W, id) THEN within ELSE within + PROXY_W
<1>6. u = s * PROXY_W /\ id = u + i
  BY <1>1, <1>4, <1>5
<1>7. Nearest(id, d) = IF TORUS = 1 THEN CMod(closest, GRID_X) ELSE within
  BY <1>3, <1>4, <1>6 DEF Nearest
<1>8. CASE TORUS = 1
  <2>1. closest \in Int /\ AtMostHalf(PROXY_W, closest, id)
    BY <1>1, <1>3, <1>4, <1>6 DEF Dist, AtMostHalf
  <2>2. PICK k \in Int : closest = PROXY_W * k + r
    <3>1. PROXY_W * (s - 1) = u - PROXY_W /\ PROXY_W * (s + 1) = u + PROXY_W
      BY <1>1, <1>5, Z3
    <3>2. closest \in {PROXY_W * (s - 1) + r, PROXY_W * s + r, PROXY_W * (s + 1) + r}
      <4>1. closest \in {u - PROXY_W + r, u + r, u + PROXY_W + r}
        BY <1>1
      <4>2. QED
        BY <1>5, <3>1, <4>1
    <3>3. s - 1 \in Int /\ s + 1 \in Int
      OBVIOUS
    <3> HIDE DEF closest
    <3>4. QED
      BY <3>2, <3>3
  <2> HIDE DEF closest, within
  <2>3. closest > -GRID_X /\ closest < 2 * GRID_X
    BY <1>1, <1>2, <2>1 DEF AtMostHalf
  <2>4. CMod(closest, GRID_X) = Wrap(GRID_X, closest)
    <3>1. \A a \in Int : (a >= 0 /\ a < GRID_X => a \div GRID_X = 0) /\ (a >= GRID_X /\ a < 2 * GRID_X => a \div GRID_X = 1)
      <4>1. SUFFICES ASSUME NEW a \in Int
                     PROVE  (a >= 0 /\ a < GRID_X => a \div GRID_X = 0) /\ (a >= GRID_X /\ a < 2 * GRID_X => a \div GRID_X = 1)
        OBVIOUS
      <4>2. GRID_X * 0 = 0 /\ GRID_X * 1 = GRID_X
        BY <1>1
      <4>3. (a >= 0 /\ a < GRID_X => Item(a, GRID_X, 0, a)) /\ (a >= GRID_X /\ a < 2 * GRID_X => Item(a, GRID_X, 1, a - GRID_X))
        BY <1>1, <4>1, <4>2 DEF Item
      <4>4. QED
        BY <1>1, <4>1, <4>3, ItemOf
    <3>2. PICK m \in Int : m = -closest
      BY <2>1
    <3>3. closest < 0 => CDiv(closest, GRID_X) = 0
      <4>1. ASSUME closest < 0 PROVE CDiv(closest, GRID_X) = 0
        <5>1. m >= 0 /\ m < GRID_X
          BY <1>1, <2>1, <2>3, <3>2, <4>1
        <5>2. m \div GRID_X = 0
          BY <3>1, <5>1
        <5>3. CDiv(closest, GRID_X) = -((-closest) \div GRID_X)
          BY <2>1, <4>1 DEF CDiv
        <5>4. QED
          BY <3>2, <5>2, <5>3
      <4>2. QED
        BY <4>1
    <3>4. closest >= 0 /\ closest < GRID_X => CDiv(closest, GRID_X) = 0
      BY <2>1, <3>1 DEF CDiv
    <3>5. closest >= GRID_X => CDiv(closest, GRID_X) = 1
      <4>1. ASSUME closest >= GRID_X PROVE CDiv(closest, GRID_X) = 1
        <5>1. closest >= 0
          BY <1>1, <2>1, <4>1
        <5>2. closest \div GRID_X = 1
          BY <2>1, <2>3, <3>1, <4>1
        <5>3. QED
          BY <5>1, <5>2 DEF CDiv
      <4>2. QED
        BY <4>1
    <3>6. GRID_X * 0 = 0 /\ GRID_X * 1 = GRID_X /\ closest - 0 = closest
      BY <1>1, <2>1
    <3>7. closest < 0 \/ (closest >= 0 /\ closest < GRID_X) \/ closest >= GRID_X
      BY <1>1, <2>1
    <3>8. closest < 0 => ~ (closest >= GRID_X)
      BY <1>1, <2>1
    <3>9. closest < GRID_X => ~ (closest >= GRID_X)
      BY <1>1, <2>1
    <3>10. QED
      BY <3>3, <3>4, <3>5, <3>6, <3>7, <3>8, <3>9 DEF CMod, Wrap
  <2>5. Nearest(id, d) = Wrap(GRID_X, closest)
    BY <1>7, <1>8, <2>4
  <2>6. QED
    BY <1>3, <1>8, <2>1, <2>2, <2>5
<1>9. CASE TORUS = 0
  <2>1. Nearest(id, d) = u + r
    BY <1>7, <1>9
  <2>2. id >= u /\ id < u + PROXY_W
    BY <1>1, <1>4, <1>6
  <2>3. QED
    BY <1>3, <1>5, <1>9, <2>1, <2>2
<1>10. QED
  BY <1>8, <1>9

(* Numbers of one class are equal or at least W apart.                     *)
LEMMA ClassApart ==
  ASSUME NEW W \in Int, W > 0, NEW k \in Int, NEW m \in Int, NEW r \in Int, NEW c \in Int, NEW e \in Int,
         NEW z \in Int, NEW b \in Int, c = W * k + r, e = W * m + r, b = W * z
  PROVE  Apart(W, c - e) /\ Apart(W, c - e + b) /\ Apart(W, c - e - b)
<1>1. ASSUME NEW t \in Int PROVE Apart(W, W * t)
  <2>1. (t = 0 => W * t = 0) /\ (t > 0 => W * t >= W) /\ (t < 0 => W * t <= -W)
    BY Z3
  <2>2. t = 0 \/ t > 0 \/ t < 0
    OBVIOUS
  <2>3. QED
    BY <2>1, <2>2 DEF Apart
<1>2. PICK u \in Int, v \in Int : u = W * k /\ v = W * m
  OBVIOUS
<1>3. W * (k - m) = u - v /\ W * (k - m + z) = u - v + b /\ W * (k - m - z) = u - v - b
  BY <1>2, Z3
<1>4. c - e = u - v
  BY <1>2
<1>5. k - m \in Int /\ k - m + z \in Int /\ k - m - z \in Int
  OBVIOUS
<1>6. QED
  BY <1>1, <1>3, <1>4, <1>5

(* The router of a tile at id sends a message for d on along the axis, at  *)
(* least n tiles, backward or forward.                                     *)
Goes(q, id, d, back, n) ==
  LET x == Goal(q, id, d) IN
  /\ x # id /\ ~Switches(id, x)
  /\ Backward(id, Aim(id, x)) <=> back
  /\ Dist(id, Aim(id, x)) >= n

(* What Goes says, in plain numbers: on a torus, and on a mesh.            *)
LEMMA GoesSends ==
  ASSUME NEW q, NEW id \in Coord, NEW d, NEW back, NEW n \in Int, NEW o, NEW r, OnRing(id, o, r),
         Goal(q, id, d) \in Int, -BOARD_W < Goal(q, id, d), Goes(q, id, d, back, n)
  PROVE  /\ TORUS = 1 => Sends(BOARD_W, HalfBoard, o, o + r, Goal(q, id, d), back, n)
         /\ TORUS = 0 => /\ Goal(q, id, d) < GRID_X =>
                              /\ Goal(q, id, d) < id <=> back
                              /\ Far(id, Goal(q, id, d), n)
<1>1. GRID_X \in Nat /\ BOARD_W \in Nat /\ BOARD_W > 0 /\ HalfBoard \in Int /\ TORUS \in {0, 1}
  BY Grid, Halves
<1>2. o \in 0 .. GRID_X - BOARD_W /\ r \in 0 .. BOARD_W - 1 /\ id = o + r
  BY DEF OnRing
<1>3. PICK x \in Int : x = Goal(q, id, d) /\ -BOARD_W < x
  OBVIOUS
<1>4. PICK a : a = Aim(id, x)
  OBVIOUS
<1>5. /\ a = AimAt(BOARD_W, HalfBoard, o, x)
      /\ Switches(id, x) <=> Off(BOARD_W, o, x) /\ a = id
  BY <1>3, <1>4, AimIs
<1>6. x # id /\ ~Switches(id, x) /\ (Backward(id, a) <=> back) /\ Dist(id, a) >= n
  BY <1>3, <1>4 DEF Goes
<1>7. a \in Int
  BY <1>1, <1>2, <1>3, <1>5 DEF AimAt
<1>8. Far(id, a, n)
  <2>1. id \in Int
    BY <1>1, <1>2
  <2>2. QED
    BY <1>6, <1>7, <2>1 DEF Far, Dist
<1>9. TORUS = 1 => (Backward(id, a) <=> Shorter(HalfBoard, id, a))
  BY DEF Backward, Shorter, HalfBoard
<1>10. TORUS = 1 => Sends(BOARD_W, HalfBoard, o, o + r, x, back, n)
  BY <1>2, <1>5, <1>6, <1>8, <1>9 DEF Sends
<1>11. TORUS = 0 /\ x < GRID_X => a = x /\ (x < id <=> back)
  <2>1. TORUS = 0 => o = 0 /\ BOARD_W = GRID_X
    BY <1>1, <1>2, Grid
  <2>2. TORUS = 0 /\ x < GRID_X => a = x
    BY <1>1, <1>3, <1>5, <2>1 DEF AimAt
  <2>3. TORUS = 0 => (Backward(id, a) <=> a < id)
    BY <1>1 DEF Backward
  <2>4. QED
    BY <1>6, <2>2, <2>3
<1>12. QED
  BY <1>3, <1>8, <1>10, <1>11

(* What a tile may send to.                                                *)
LEMMA GoalIs ==
  ASSUME NEW q, NEW id \in Coord, NEW d \in Coord
  PROVE  /\ Goal(q, id, d) \in Int /\ -BOARD_W < Goal(q, id, d) /\ Goal(q, id, d) < GRID_X
         /\ TORUS = 0 => Goal(q, id, d) >= 0
<1>1. /\ GRID_X \in Nat /\ BOARD_W \in Nat /\ BOARD_W > 0 /\ PROXY_W \in Nat /\ PROXY_W > 0 /\ TORUS \in {0, 1}
      /\ id \in Int /\ id >= 0 /\ id < GRID_X /\ d \in Int /\ d >= 0 /\ d < GRID_X
  BY Grid DEF Coord
<1>2. CASE Goal(q, id, d) = d
  BY <1>1, <1>2
<1>3. CASE Goal(q, id, d) = Nearest(id, d)
  <2>1. PROXY_W <= BOARD_W /\ BOARD_W <= GRID_X
    BY Sizes
  <2>2. CASE TORUS = 1
    <3>1. PICK c \in Int : Nearest(id, d) = Wrap(GRID_X, c) /\ AtMostHalf(PROXY_W, c, id)
      BY <2>2, NearestIs
    <3>2. QED
      BY <1>1, <1>3, <2>1, <2>2, <3>1 DEF Wrap, AtMostHalf
  <2>3. CASE TORUS = 0
    <3>1. PICK k \in Int : Nearest(id, d) = PROXY_W * k + (d % PROXY_W) /\ id >= PROXY_W * k /\ id < PROXY_W * k + PROXY_W
      BY <2>3, NearestIs
    <3>2. PICK g \in Nat : GRID_X = PROXY_W * g
      BY Grid
    <3>3. PICK u \in Int, v \in Int, r \in 0 .. PROXY_W - 1 : u = PROXY_W * k /\ v = PROXY_W * g /\ r = d % PROXY_W
      BY <1>1, DivMod
    <3>4. (k <= -1 => u <= -PROXY_W) /\ (k >= 0 => u >= 0) /\ (k >= g => u >= v) /\ (k <= g - 1 => u <= v - PROXY_W)
      <4>1. /\ k <= -1 => PROXY_W * k <= -PROXY_W
            /\ k >= 0 => PROXY_W * k >= 0
            /\ k >= g => PROXY_W * k >= PROXY_W * g
            /\ k <= g - 1 => PROXY_W * k <= PROXY_W * g - PROXY_W
        BY <1>1, Z3
      <4>2. QED
        BY <3>3, <4>1
    <3>5. Nearest(id, d) = u + r /\ id >= u /\ id < u + PROXY_W /\ v = GRID_X
      BY <3>1, <3>2, <3>3
    <3>6. (k <= -1 \/ k >= 0) /\ (k >= g \/ k <= g - 1)
      OBVIOUS
    <3>7. u >= 0 /\ u <= GRID_X - PROXY_W
      BY <1>1, <3>4, <3>5, <3>6
    <3>8. QED
      BY <1>1, <1>3, <3>3, <3>5, <3>7
  <2>4. QED
    BY <1>1, <2>2, <2>3
<1>4. QED
  BY <1>2, <1>3 DEF Goal

(* A message is never sent back along the axis.                            *)
LEMMA NoReturn ==
  ASSUME NEW q, NEW i \in Coord, NEW d \in Coord, NEW n \in Int, n >= 1, n <= BOARD_W
  PROVE  /\ Goes(q, i, d, TRUE, n) => ~Goes(q, Around(i, -n), d, FALSE, n)
         /\ Goes(q, i, d, FALSE, n) => ~Goes(q, Around(i, n), d, TRUE, n)
<1>1. /\ GRID_X \in Nat /\ BOARD_W \in Nat /\ BOARD_W > 0 /\ PROXY_W \in Nat /\ PROXY_W > 0 /\ TORUS \in {0, 1}
      /\ HalfBoard \in Int /\ 2 * HalfBoard <= BOARD_W /\ BOARD_W <= 2 * HalfBoard + 1
      /\ BOARD_W < GRID_X => 2 * HalfBoard = BOARD_W
  BY Grid, Halves
<1>2. PICK o, r : OnRing(i, o, r)
  BY Rings
<1>3. o \in 0 .. GRID_X - BOARD_W /\ r \in 0 .. BOARD_W - 1 /\ i = o + r
  BY <1>2 DEF OnRing
<1>4. \A m \in {-n, n} : \E s \in 0 .. BOARD_W - 1 :
           /\ Around(i, m) = o + s /\ OnRing(o + s, o, s) /\ o + s \in Coord
           /\ s \in {r + m - BOARD_W, r + m, r + m + BOARD_W}
  <2>1. \A m \in {-n, n} : m \in Int /\ -BOARD_W <= m /\ m <= BOARD_W
    BY <1>1
  <2>2. QED
    BY <1>2, <2>1, AroundIs
<1>5. d \in Int /\ d >= 0 /\ d < GRID_X
  BY <1>1 DEF Coord
<1>6. /\ o = 0 \/ o >= BOARD_W
      /\ o = GRID_X - BOARD_W \/ o <= GRID_X - 2 * BOARD_W
  <2>1. 0 \in Int /\ -BOARD_W < 0
    BY <1>1
  <2>2. QED
    BY <1>2, <2>1, AimIs
<1>7. SUFFICES ASSUME NEW m \in {-n, n}, NEW s \in 0 .. BOARD_W - 1, Around(i, m) = o + s, OnRing(o + s, o, s), o + s \in Coord,
                      s \in {r + m - BOARD_W, r + m, r + m + BOARD_W},
                      NEW back \in BOOLEAN, back <=> m = -n,
                      Goes(q, i, d, back, n), Goes(q, o + s, d, ~back, n)
               PROVE  FALSE
  <2>1. ASSUME NEW m \in {-n, n}, NEW back \in BOOLEAN, back <=> m = -n, Goes(q, i, d, back, n),
               Goes(q, Around(i, m), d, ~back, n)
        PROVE  FALSE
    BY <1>4, <1>7, <2>1
  <2>2. (TRUE <=> -n = -n) /\ (FALSE <=> n = -n) /\ (~TRUE <=> FALSE) /\ (~FALSE <=> TRUE)
    OBVIOUS
  <2>3. QED
    BY <2>1, <2>2
<1> DEFINE x == Goal(q, i, d)
           y == Goal(q, o + s, d)
<1>8. /\ x \in Int /\ -BOARD_W < x /\ (TORUS = 0 => x >= 0 /\ x < GRID_X)
      /\ y \in Int /\ -BOARD_W < y /\ (TORUS = 0 => y >= 0 /\ y < GRID_X)
  BY <1>7, GoalIs
<1>9. CASE TORUS = 1
  <2>1. Sends(BOARD_W, HalfBoard, o, o + r, x, back, n)
    BY <1>2, <1>7, <1>8, <1>9, GoesSends
  <2>2. Sends(BOARD_W, HalfBoard, o, o + s, y, ~back, n)
    BY <1>7, <1>8, <1>9, GoesSends
  <2>3. /\ back => s \in {r - n, r - n + BOARD_W}
        /\ ~back => s \in {r + n, r + n - BOARD_W}
    BY <1>1, <1>3, <1>7
  <2>4. CASE q = 3 /\ GRID_X \div PROXY_W > 1
    <3>1. PICK c \in Int, k \in Int : /\ x = Wrap(GRID_X, c) /\ c = PROXY_W * k + (d % PROXY_W)
                                      /\ AtMostHalf(PROXY_W, c, o + r)
      BY <1>3, <1>9, <2>4, NearestIs DEF Goal
    <3>2. PICK e \in Int, l \in Int : /\ y = Wrap(GRID_X, e) /\ e = PROXY_W * l + (d % PROXY_W)
                                      /\ AtMostHalf(PROXY_W, e, o + s)
      BY <1>7, <1>9, <2>4, NearestIs DEF Goal
    <3>3. PICK z \in Nat : BOARD_W = PROXY_W * z
      BY Grid
    <3>4. Apart(PROXY_W, c - e) /\ Apart(PROXY_W, c - e + BOARD_W) /\ Apart(PROXY_W, c - e - BOARD_W)
      <4>1. d % PROXY_W \in Int
        BY <1>1, <1>5, DivMod
      <4>2. PROXY_W \in Int /\ BOARD_W \in Int /\ z \in Int
        BY <1>1
      <4>3. QED
        BY <1>1, <3>1, <3>2, <3>3, <4>1, <4>2, ClassApart
    <3>5. BOARD_W = PROXY_W \/ BOARD_W >= 2 * PROXY_W
      <4>1. (z = 0 => PROXY_W * z = 0) /\ (z = 1 => PROXY_W * z = PROXY_W)
        BY <1>1
      <4>2. z >= 2 => PROXY_W * z >= 2 * PROXY_W
        BY <1>1, Z3
      <4>3. z = 0 \/ z = 1 \/ z >= 2
        OBVIOUS
      <4>4. QED
        BY <1>1, <3>3, <4>1, <4>2, <4>3
    <3>6. BOARD_W \in Int /\ PROXY_W \in Int /\ GRID_X \in Int /\ o \in Int /\ PROXY_W >= 1 /\ r \in 0 .. BOARD_W - 1
      BY <1>1, <1>3
    <3>7. /\ s \in {r - n, r - n + BOARD_W} => ~ /\ Sends(BOARD_W, HalfBoard, o, o + r, Wrap(GRID_X, c), TRUE, n)
                                                 /\ Sends(BOARD_W, HalfBoard, o, o + s, Wrap(GRID_X, e), FALSE, n)
          /\ s \in {r + n, r + n - BOARD_W} => ~ /\ Sends(BOARD_W, HalfBoard, o, o + r, Wrap(GRID_X, c), FALSE, n)
                                                 /\ Sends(BOARD_W, HalfBoard, o, o + s, Wrap(GRID_X, e), TRUE, n)
      BY <1>1, <1>6, <3>1, <3>2, <3>4, <3>5, <3>6, NearestNeverBack
    <3>8. CASE back = TRUE
      BY <2>1, <2>2, <2>3, <3>1, <3>2, <3>7, <3>8
    <3>9. CASE back = FALSE
      BY <2>1, <2>2, <2>3, <3>1, <3>2, <3>7, <3>9
    <3>10. QED
      BY <1>7, <3>8, <3>9
  <2>5. CASE ~(q = 3 /\ GRID_X \div PROXY_W > 1)
    <3>1. x = d /\ y = d
      BY <2>5 DEF Goal
    <3>2. BOARD_W \in Int /\ o \in Int /\ o >= 0 /\ r \in 0 .. BOARD_W - 1
      BY <1>1, <1>3
    <3>3. /\ s \in {r - n, r - n + BOARD_W} => ~ /\ Sends(BOARD_W, HalfBoard, o, o + r, d, TRUE, n)
                                                 /\ Sends(BOARD_W, HalfBoard, o, o + s, d, FALSE, n)
          /\ s \in {r + n, r + n - BOARD_W} => ~ /\ Sends(BOARD_W, HalfBoard, o, o + r, d, FALSE, n)
                                                 /\ Sends(BOARD_W, HalfBoard, o, o + s, d, TRUE, n)
      BY <1>1, <1>5, <3>2, SameNeverBack
    <3>4. CASE back = TRUE
      BY <2>1, <2>2, <2>3, <3>1, <3>3, <3>4
    <3>5. CASE back = FALSE
      BY <2>1, <2>2, <2>3, <3>1, <3>3, <3>5
    <3>6. QED
      BY <1>7, <3>4, <3>5
  <2>6. QED
    BY <2>4, <2>5
<1>10. CASE TORUS = 0
  <2>1. o = 0 /\ BOARD_W = GRID_X /\ i = r
    BY <1>1, <1>3, <1>10, Grid
  <2>2. (x < i <=> back) /\ Far(i, x, n)
    BY <1>2, <1>7, <1>8, <1>10, GoesSends
  <2>3. (y < o + s <=> ~back) /\ Far(o + s, y, n)
    BY <1>7, <1>8, <1>10, GoesSends
  <2>4. o + s = s
    BY <2>1
  <2>5. (back => s = i - n) /\ (~back => s = i + n)
    BY <1>1, <1>3, <1>7, <1>8, <1>10, <2>1, <2>2 DEF Far
  <2>6. \E W \in Int, u, v \in Int : \E l \in 0 .. W - 1 :
           x = u + l /\ y = v + l /\ i >= u /\ i < u + W /\ s >= v /\ s < v + W /\ Apart(W, x - y)
    <3>1. CASE q = 3 /\ GRID_X \div PROXY_W > 1
      <4>1. PICK k \in Int : x = PROXY_W * k + (d % PROXY_W) /\ i >= PROXY_W * k /\ i < PROXY_W * k + PROXY_W
        BY <1>10, <3>1, NearestIs DEF Goal
      <4>2. PICK l \in Int : y = PROXY_W * l + (d % PROXY_W) /\ o + s >= PROXY_W * l /\ o + s < PROXY_W * l + PROXY_W
        BY <1>7, <1>10, <3>1, NearestIs DEF Goal
      <4>3. PICK e \in 0 .. PROXY_W - 1 : e = d % PROXY_W
        BY <1>1, <1>5, DivMod
      <4>4. Apart(PROXY_W, x - y)
        <5>1. PROXY_W \in Int /\ e \in Int /\ x = PROXY_W * k + e /\ y = PROXY_W * l + e
          BY <1>1, <4>1, <4>2, <4>3
        <5>2. PROXY_W * 0 = 0 /\ 0 \in Int
          BY <1>1
        <5>3. QED
          BY <1>1, <1>8, <5>1, <5>2, ClassApart
      <4>5. PROXY_W \in Int /\ PROXY_W * k \in Int /\ PROXY_W * l \in Int
        BY <1>1
      <4>6. QED
        BY <2>4, <4>1, <4>2, <4>3, <4>4, <4>5
    <3>2. CASE ~(q = 3 /\ GRID_X \div PROXY_W > 1)
      <4>1. x = d /\ y = d
        BY <3>2 DEF Goal
      <4>2. GRID_X \in Int /\ 0 \in Int /\ d \in 0 .. GRID_X - 1 /\ d = 0 + d /\ d - d = 0
        BY <1>1, <1>5
      <4>3. i >= 0 /\ i < 0 + GRID_X /\ s >= 0 /\ s < 0 + GRID_X
        BY <1>1, <1>3, <2>1
      <4>4. Apart(GRID_X, x - y)
        BY <4>1, <4>2 DEF Apart
      <4>5. QED
        BY <4>1, <4>2, <4>3, <4>4
    <3>3. QED
      BY <3>1, <3>2
  <2>7a. PICK W \in Int, u \in Int, v \in Int : \E l \in 0 .. W - 1 :
           x = u + l /\ y = v + l /\ i >= u /\ i < u + W /\ s >= v /\ s < v + W /\ Apart(W, x - y)
    BY <2>6
  <2>7. PICK l \in 0 .. W - 1 :
           x = u + l /\ y = v + l /\ i >= u /\ i < u + W /\ s >= v /\ s < v + W /\ Apart(W, x - y)
    BY <2>7a
  <2>8. i \in Int /\ s \in Int
    BY <1>1, <1>3
  <2>9. ~ (s = i - n /\ x < i /\ ~(y < s)) /\ ~ (s = i + n /\ ~(x < i) /\ y < s)
    <3>1. Far(i, x, n) /\ Far(s, y, n)
      BY <2>2, <2>3, <2>4
    <3>2. n \in Int /\ n >= 1 /\ x \in Int /\ y \in Int
      BY <1>8
    <3> HIDE DEF x, y
    <3>3. QED
      BY <2>7, <2>8, <3>1, <3>2, Z3 DEF Far, Apart
  <2>10. QED
    BY <2>2, <2>3, <2>4, <2>5, <2>9
<1>11. QED
  BY <1>1, <1>9, <1>10

(* What a direction says of the axis.                                      *)
LEMMA DirectionGoes ==
  ASSUME NEW q, NEW t \in Tile, NEW d \in Tile, NEW n \in Int,
         n = 1 \/ AbsDiff(q, t, d, Direction(q, t, d)) >= n
  PROVE  /\ Direction(q, t, d) = "N" => Goes(q, t.y, d.y, TRUE, n)
         /\ Direction(q, t, d) = "S" => Goes(q, t.y, d.y, FALSE, n)
         /\ Direction(q, t, d) = "W" => Goes(q, t.x, d.x, TRUE, n)
         /\ Direction(q, t, d) = "E" => Goes(q, t.x, d.x, FALSE, n)
<1>1. t.x \in Coord /\ t.y \in Coord /\ d.x \in Coord /\ d.y \in Coord
  BY DEF Tile
<1> DEFINE gx == Goal(q, t.x, d.x)
           gy == Goal(q, t.y, d.y)
<1>2. Target(q, t, d).x = gx /\ Target(q, t, d).y = gy /\ (Target(q, t, d) = t <=> gx = t.x /\ gy = t.y)
  BY TargetIs DEF Tile
<1>3. /\ Direction(q, t, d) = "N" => gy # t.y /\ ~Switches(t.y, gy) /\ Backward(t.y, Aim(t.y, gy))
      /\ Direction(q, t, d) = "S" => gy # t.y /\ ~Switches(t.y, gy) /\ ~Backward(t.y, Aim(t.y, gy))
      /\ Direction(q, t, d) = "W" => gx # t.x /\ ~Switches(t.x, gx) /\ Backward(t.x, Aim(t.x, gx))
      /\ Direction(q, t, d) = "E" => gx # t.x /\ ~Switches(t.x, gx) /\ ~Backward(t.x, Aim(t.x, gx))
  BY <1>2 DEF Direction
<1>4. ASSUME NEW c \in Coord, NEW e \in Coord, Goal(q, c, e) # c, ~Switches(c, Goal(q, c, e))
      PROVE  Dist(c, Aim(c, Goal(q, c, e))) >= 1
  <2>1. GRID_X \in Nat /\ BOARD_W \in Nat /\ HalfBoard \in Int /\ c \in Int
    BY <1>1, Grid, Halves DEF Coord
  <2>2. PICK o, r : OnRing(c, o, r)
    BY Rings
  <2>3. PICK x \in Int : x = Goal(q, c, e) /\ -BOARD_W < x
    BY GoalIs
  <2>4. /\ Aim(c, x) = AimAt(BOARD_W, HalfBoard, o, x)
        /\ Switches(c, x) <=> Off(BOARD_W, o, x) /\ AimAt(BOARD_W, HalfBoard, o, x) = c
    BY <2>2, <2>3, AimIs
  <2>5. o \in Int
    BY <2>1, <2>2 DEF OnRing
  <2>6. Aim(c, x) \in Int /\ Aim(c, x) # c
    BY <1>4, <2>1, <2>3, <2>4, <2>5 DEF AimAt, Off
  <2>7. Dist(c, Aim(c, x)) >= 1
    BY <2>1, <2>6 DEF Dist
  <2>8. QED
    BY <2>3, <2>7
<1>5. /\ Direction(q, t, d) \in {"N", "S"} => Dist(t.y, Aim(t.y, gy)) >= n
      /\ Direction(q, t, d) \in {"W", "E"} => Dist(t.x, Aim(t.x, gx)) >= n
  <2>1. CASE n = 1
    BY <1>1, <1>3, <1>4, <2>1
  <2>2. CASE AbsDiff(q, t, d, Direction(q, t, d)) >= n
    BY <1>2, <2>2 DEF AbsDiff
  <2>3. QED
    BY <2>1, <2>2
<1>6. QED
  BY <1>3, <1>5 DEF Goes

(* A message is not sent back over the link it came in by.                 *)
Onward == orig \notin {"C", "PX", "PY"} => orig \notin Choices(qid, at, get_dst(data), orig)

LEMMA HopOnward == Walk /\ Hop => Onward'
<1>1. SUFFICES ASSUME Walk, Hop PROVE Onward'
  OBVIOUS
<1> DEFINE d == get_dst(data)
<1>2. /\ qid \in 1 .. 3 /\ data \in Nat /\ at \in Tile /\ orig \in Ports
      /\ data \in 0 .. GRID_X * GRID_X - 1 /\ qid' = qid /\ d' = d
  BY <1>1 DEF Walk, TypeOK, Hop, get_dst
<1>3. PICK port \in Choices(qid, at, d, orig) : HasPort(at, port) /\ at' = Neighbour(at, port) /\ orig' = InputAt(port)
  BY <1>1 DEF Hop
<1>4. d \in Tile /\ d.x \in Coord /\ d.y \in Coord /\ at.x \in Coord /\ at.y \in Coord
  BY <1>2, TilesNumbered DEF Tile
<1>5. /\ port \in Ports
      /\ \/ port = "C"
         \/ port = Direction(qid, at, d)
         \/ /\ Jumps(qid, at, d, Direction(qid, at, d)) /\ port = ExpressOf(Direction(qid, at, d))
            /\ Direction(qid, at, d) \in {"N", "S", "W", "E"}
  BY <1>3, ChoicesAre
<1>6. at' \in Tile
  BY <1>2, <1>3, <1>5, Neighbours
<1>7. SUFFICES ASSUME orig' \notin {"C", "PX", "PY"}, orig' \in Choices(qid, at', d, orig')
               PROVE  FALSE
  BY <1>2 DEF Onward
<1>8. \/ orig' = Direction(qid, at', d)
      \/ /\ Jumps(qid, at', d, Direction(qid, at', d)) /\ orig' = ExpressOf(Direction(qid, at', d))
         /\ Direction(qid, at', d) \in {"N", "S", "W", "E"}
  BY <1>7, ChoicesAre
<1>9. Direction(qid, at, d) \in {"C", "N", "S", "W", "E", "PX", "PY"} /\ Direction(qid, at', d) \in {"C", "N", "S", "W", "E", "PX", "PY"}
  BY Directions
<1>10. BOARD_W \in Nat /\ BOARD_W > 0 /\ RUCHE_X \in 0 .. BOARD_W
  BY Grid
(* The link and its way: n tiles, from the direction dir against back.     *)
<1>11. PICK n \in {1, RUCHE_X} : /\ n = 1 \/ (n > 0 /\ AbsDiff(qid, at, d, Direction(qid, at, d)) >= n)
                                 /\ n = 1 \/ AbsDiff(qid, at', d, Direction(qid, at', d)) >= n
                                 /\ \/ /\ Direction(qid, at, d) = "N" /\ Direction(qid, at', d) = "S"
                                       /\ at'.y = Around(at.y, -n)
                                    \/ /\ Direction(qid, at, d) = "S" /\ Direction(qid, at', d) = "N"
                                       /\ at'.y = Around(at.y, n)
                                    \/ /\ Direction(qid, at, d) = "W" /\ Direction(qid, at', d) = "E"
                                       /\ at'.x = Around(at.x, -n)
                                    \/ /\ Direction(qid, at, d) = "E" /\ Direction(qid, at', d) = "W"
                                       /\ at'.x = Around(at.x, n)
  <2>1. port # "C" /\ port \notin {"PX", "PY"}
    BY <1>3, <1>7 DEF InputAt
  <2>2. CASE port \in {"N", "S", "W", "E"}
    <3>1. Direction(qid, at, d) = port
      BY <1>5, <1>9, <2>2 DEF ExpressOf
    <3>2. orig' \in {"N", "S", "W", "E"} /\ orig' = InputAt(port)
      BY <1>3, <2>2 DEF InputAt
    <3>3. Direction(qid, at', d) = orig'
      BY <1>8, <1>9, <3>2 DEF ExpressOf
    <3>4. /\ port = "N" => orig' = "S" /\ at'.y = Around(at.y, -1)
          /\ port = "S" => orig' = "N" /\ at'.y = Around(at.y, 1)
          /\ port = "W" => orig' = "E" /\ at'.x = Around(at.x, -1)
          /\ port = "E" => orig' = "W" /\ at'.x = Around(at.x, 1)
      BY <1>2, <1>3 DEF InputAt, Neighbour, Tile
    <3>5. QED
      BY <2>2, <3>1, <3>3, <3>4
  <2>3. CASE port \in {"RN", "RS", "RW", "RE"}
    <3>1. Jumps(qid, at, d, Direction(qid, at, d)) /\ port = ExpressOf(Direction(qid, at, d)) /\ Direction(qid, at, d) \in {"N", "S", "W", "E"}
      BY <1>5, <1>9, <2>3
    <3>2. orig' \in {"RN", "RS", "RW", "RE"} /\ orig' = InputAt(port)
      BY <1>3, <2>3 DEF InputAt
    <3>3. Jumps(qid, at', d, Direction(qid, at', d)) /\ orig' = ExpressOf(Direction(qid, at', d)) /\ Direction(qid, at', d) \in {"N", "S", "W", "E"}
      BY <1>8, <1>9, <3>2
    <3>4. /\ RUCHE_X > 0 /\ AbsDiff(qid, at, d, Direction(qid, at, d)) >= RUCHE_X
          /\ AbsDiff(qid, at', d, Direction(qid, at', d)) >= RUCHE_X
      BY <3>1, <3>3 DEF Jumps
    <3>5. /\ port = "RN" => orig' = "RS" /\ at'.y = Around(at.y, -RUCHE_X)
          /\ port = "RS" => orig' = "RN" /\ at'.y = Around(at.y, RUCHE_X)
          /\ port = "RW" => orig' = "RE" /\ at'.x = Around(at.x, -RUCHE_X)
          /\ port = "RE" => orig' = "RW" /\ at'.x = Around(at.x, RUCHE_X)
      BY <1>2, <1>3 DEF InputAt, Neighbour, Tile
    <3>6. \A dir \in {"N", "S", "W", "E"} : /\ ExpressOf(dir) = "RN" <=> dir = "N"
                                            /\ ExpressOf(dir) = "RS" <=> dir = "S"
                                            /\ ExpressOf(dir) = "RW" <=> dir = "W"
                                            /\ ExpressOf(dir) = "RE" <=> dir = "E"
      BY DEF ExpressOf
    <3>7. QED
      BY <2>3, <3>1, <3>3, <3>4, <3>5, <3>6
  <2>4. QED
    BY <1>5, <2>1, <2>2, <2>3 DEF Ports, XPorts, YPorts
<1>12. n \in Int /\ n >= 1 /\ n <= BOARD_W
  BY <1>10, <1>11
<1>13. /\ Direction(qid, at, d) = "N" => Goes(qid, at.y, d.y, TRUE, n)
       /\ Direction(qid, at, d) = "S" => Goes(qid, at.y, d.y, FALSE, n)
       /\ Direction(qid, at, d) = "W" => Goes(qid, at.x, d.x, TRUE, n)
       /\ Direction(qid, at, d) = "E" => Goes(qid, at.x, d.x, FALSE, n)
  BY <1>2, <1>4, <1>11, <1>12, DirectionGoes
<1>14. /\ Direction(qid, at', d) = "N" => Goes(qid, at'.y, d.y, TRUE, n)
       /\ Direction(qid, at', d) = "S" => Goes(qid, at'.y, d.y, FALSE, n)
       /\ Direction(qid, at', d) = "W" => Goes(qid, at'.x, d.x, TRUE, n)
       /\ Direction(qid, at', d) = "E" => Goes(qid, at'.x, d.x, FALSE, n)
  BY <1>4, <1>6, <1>11, <1>12, DirectionGoes
<1>15. /\ Goes(qid, at.y, d.y, TRUE, n) => ~Goes(qid, Around(at.y, -n), d.y, FALSE, n)
       /\ Goes(qid, at.y, d.y, FALSE, n) => ~Goes(qid, Around(at.y, n), d.y, TRUE, n)
       /\ Goes(qid, at.x, d.x, TRUE, n) => ~Goes(qid, Around(at.x, -n), d.x, FALSE, n)
       /\ Goes(qid, at.x, d.x, FALSE, n) => ~Goes(qid, Around(at.x, n), d.x, TRUE, n)
  BY <1>4, <1>12, NoReturn
<1>16. QED
  BY <1>11, <1>13, <1>14, <1>15

LEMMA OnwardAlways == Spec => [](Walk /\ Onward)
<1>1. Init => Walk /\ Onward
  BY InitWalk DEF Init, Onward
<1>2. Walk /\ Onward /\ [Next]_vars => Walk' /\ Onward'
  <2>1. Walk /\ Hop => Walk' /\ Onward'
    BY HopWalk, HopOnward
  <2>2. Walk /\ Onward /\ UNCHANGED vars => Walk' /\ Onward'
    BY SameWalk DEF Onward, vars
  <2>3. QED
    BY <2>1, <2>2 DEF Next, Delivered
<1>3. QED
  BY <1>1, <1>2, PTL DEF Spec

(* In any network, no message turns from X to Y (the assertion of          *)
(* router.h:591), and none is sent back over the link it came in by.       *)
THEOREM DimensionsInOrder == Spec => DimensionOrder
<1>1. ASSUME Walk, Onward, [Next]_vars PROVE [NoTurnBack]_vars
  <2>1. CASE Hop
    <3> DEFINE d == get_dst(data)
    <3>1. PICK port \in Choices(qid, at, d, orig) : HasPort(at, port) /\ at' = Neighbour(at, port) /\ orig' = InputAt(port)
      BY <2>1 DEF Hop
    <3>2. at \in Tile /\ orig \in Ports /\ port \in Ports
      BY <1>1, <3>1, ChoicesAre DEF Walk, TypeOK
    <3>3. orig \in XPorts => at'.y = at.y
      <4>1. SUFFICES ASSUME orig \in XPorts PROVE at'.y = at.y
        OBVIOUS
      <4>2. Target(qid, at, d).y = at.y
        BY <1>1, <4>1 DEF Walk
      <4>3. Direction(qid, at, d) \in {"C", "PX", "W", "E"}
        BY <4>2, Directions DEF Direction
      <4>4. port \in {"C", "PX", "W", "E", "RW", "RE"}
        BY <3>1, <4>3, ChoicesAre DEF ExpressOf
      <4>5. QED
        BY <3>1, <3>2, <4>4 DEF Neighbour, Tile
    <3>4. orig \notin {"C", "PX", "PY"} => orig' # InputAt(orig)
      <4>1. orig \notin {"C", "PX", "PY"} => port # orig
        BY <1>1, <3>1 DEF Onward
      <4>2. QED
        BY <3>1, <3>2, <4>1, InputsOne
    <3>5. QED
      BY <3>3, <3>4 DEF NoTurnBack
  <2>2. CASE UNCHANGED vars
    BY <2>2
  <2>3. QED
    BY <1>1, <2>1, <2>2 DEF Next, Delivered
<1>2. QED
  BY <1>1, OnwardAlways, PTL DEF Spec, DimensionOrder

-----------------------------------------------------------------------------
(* One board without express links: every hop goes nearer.                 *)

(* The way from i to x on a ring of G, in plain numbers.                   *)
Onto(G, x)      == IF x < 0 THEN x + G ELSE x
Ring(G, x, i)   == IF G - Dist(Onto(G, x), i) < Dist(Onto(G, x), i) THEN G - Dist(Onto(G, x), i) ELSE Dist(Onto(G, x), i)

Before(G, i, j) == i \in {j - 1, j - 1 + G}
OneLess(G, y, j, x, i) == Ring(G, y, j) = Ring(G, x, i) - 1

(* Tiles i and j and the numbers of a class of W that are nearest to them. *)
NearestTo(W, G, h, i, j, c, e) ==
  /\ W \in Int /\ G \in Int /\ h \in Int /\ c \in Int /\ e \in Int
  /\ i \in 0 .. G - 1 /\ j \in 0 .. G - 1
  /\ W >= 1 /\ G >= 2 * W /\ 2 * h <= G /\ G <= 2 * h + 1
  /\ AtMostHalf(W, c, i) /\ AtMostHalf(W, e, j)
  /\ Apart(W, c - e) /\ Apart(W, c - e + G) /\ Apart(W, c - e - G)

LEMMA NearestNearer ==
  ASSUME NEW W, NEW G, NEW h, NEW i, NEW j, NEW c, NEW e, NearestTo(W, G, h, i, j, c, e)
  PROVE  /\ Before(G, j, i) /\ Sends(G, h, 0, i, Wrap(G, c), TRUE, 1) =>
               OneLess(G, Wrap(G, e), j, Wrap(G, c), i)
         /\ Before(G, i, j) /\ Sends(G, h, 0, i, Wrap(G, c), FALSE, 1) =>
               OneLess(G, Wrap(G, e), j, Wrap(G, c), i)
<1> DEFINE x == Wrap(G, c)
           y == Wrap(G, e)
           a == AimAt(G, h, 0, x)
<1>1. x \in Int /\ y \in Int
  BY DEF Wrap, NearestTo
<1>2. a \in Int
  BY <1>1 DEF AimAt, NearestTo
<1>3. ASSUME Before(G, j, i), Sends(G, h, 0, i, x, TRUE, 1)
      PROVE  OneLess(G, y, j, x, i)
  BY <1>1, <1>2, <1>3, Z3 DEF NearestTo, Sends, Wrap, AimAt, Off, Shorter, Far, Apart, AtMostHalf, Ring, Onto, Dist, Before, OneLess
<1>4. ASSUME Before(G, i, j), Sends(G, h, 0, i, x, FALSE, 1)
      PROVE  OneLess(G, y, j, x, i)
  BY <1>1, <1>2, <1>4, Z3 DEF NearestTo, Sends, Wrap, AimAt, Off, Shorter, Far, Apart, AtMostHalf, Ring, Onto, Dist, Before, OneLess
<1>5. QED
  BY <1>3, <1>4

LEMMA SameNearer ==
  ASSUME NEW G \in Int, NEW h \in Int, NEW i \in 0 .. G - 1, NEW j \in 0 .. G - 1, NEW x \in 0 .. G - 1,
         2 * h <= G, G <= 2 * h + 1
  PROVE  /\ Before(G, j, i) /\ Sends(G, h, 0, i, x, TRUE, 1) => OneLess(G, x, j, x, i)
         /\ Before(G, i, j) /\ Sends(G, h, 0, i, x, FALSE, 1) => OneLess(G, x, j, x, i)
<1> DEFINE a == AimAt(G, h, 0, x)
<1>1. a \in Int
  BY DEF AimAt
<1>2. ASSUME Before(G, j, i), Sends(G, h, 0, i, x, TRUE, 1)
      PROVE  OneLess(G, x, j, x, i)
  BY <1>1, <1>2, Z3 DEF Sends, AimAt, Off, Shorter, Far, Ring, Onto, Dist, Before, OneLess
<1>3. ASSUME Before(G, i, j), Sends(G, h, 0, i, x, FALSE, 1)
      PROVE  OneLess(G, x, j, x, i)
  BY <1>1, <1>3, Z3 DEF Sends, AimAt, Off, Shorter, Far, Ring, Onto, Dist, Before, OneLess
<1>4. QED
  BY <1>2, <1>3

(* The way along one axis that a message still has to go from id.          *)
Span(q, id, d) == Shortest(CMod(Goal(q, id, d) + GRID_X, GRID_X), id)

LEMMA SpanIs ==
  ASSUME BOARD_W = GRID_X, NEW q, NEW id \in Coord, NEW d \in Coord
  PROVE  /\ TORUS = 1 => Span(q, id, d) = Ring(GRID_X, Goal(q, id, d), id)
         /\ TORUS = 0 => Span(q, id, d) = Dist(Goal(q, id, d), id)
<1>1. GRID_X \in Nat /\ GRID_X > 0
  BY Grid
<1>2. PICK x \in Int : x = Goal(q, id, d) /\ -GRID_X < x /\ x < GRID_X /\ (TORUS = 0 => x >= 0)
  BY GoalIs
<1>3. CMod(x + GRID_X, GRID_X) = Onto(GRID_X, x)
  <2>1. PICK a \in Int : a = x + GRID_X
    BY <1>1
  <2>2. a >= 0 /\ a < 2 * GRID_X /\ GRID_X * 0 = 0 /\ GRID_X * 1 = GRID_X
    BY <1>1, <1>2, <2>1
  <2>3. CASE x < 0
    <3>1. Item(a, GRID_X, 0, a)
      BY <1>1, <1>2, <2>1, <2>2, <2>3 DEF Item
    <3>2. a \div GRID_X = 0
      BY <1>1, <3>1, ItemOf
    <3>3. CMod(a, GRID_X) = a - GRID_X * 0
      BY <2>2, <3>2 DEF CMod, CDiv
    <3>4. QED
      BY <2>1, <2>2, <2>3, <3>3 DEF Onto
  <2>4. CASE x >= 0
    <3>1. Item(a, GRID_X, 1, x)
      BY <1>1, <1>2, <2>1, <2>2, <2>4 DEF Item
    <3>2. a \div GRID_X = 1
      BY <1>1, <3>1, ItemOf
    <3>3. CMod(a, GRID_X) = a - GRID_X * 1
      BY <2>2, <3>2 DEF CMod, CDiv
    <3>4. QED
      BY <1>1, <2>1, <2>2, <2>4, <3>3 DEF Onto
  <2>5. QED
    BY <2>1, <2>3, <2>4
<1>4. TORUS = 0 => Onto(GRID_X, x) = x
  BY <1>2 DEF Onto
<1>5. QED
  BY <1>2, <1>3, <1>4 DEF Span, Shortest, Ring

LEMMA SpanShrinks ==
  ASSUME BOARD_W = GRID_X, NEW q, NEW i \in Coord, NEW d \in Coord
  PROVE  /\ Goes(q, i, d, TRUE, 1) => Span(q, Around(i, -1), d) = Span(q, i, d) - 1
         /\ Goes(q, i, d, FALSE, 1) => Span(q, Around(i, 1), d) = Span(q, i, d) - 1
<1>1. /\ GRID_X \in Nat /\ GRID_X > 0 /\ PROXY_W \in Nat /\ PROXY_W > 0 /\ TORUS \in {0, 1}
      /\ HalfBoard \in Int /\ 2 * HalfBoard <= GRID_X /\ GRID_X <= 2 * HalfBoard + 1
  BY Grid, Halves
<1>2. PICK o, r : OnRing(i, o, r)
  BY Rings
<1>3. o = 0 /\ r \in 0 .. GRID_X - 1 /\ i = r
  BY <1>1, <1>2 DEF OnRing
<1>4. i \in 0 .. GRID_X - 1 /\ d \in 0 .. GRID_X - 1
  BY DEF Coord
<1>5. \A m \in {-1, 1} : \E s \in 0 .. GRID_X - 1 : Around(i, m) = s /\ s \in {i + m - GRID_X, i + m, i + m + GRID_X}
  <2>1. \A m \in {-1, 1} : m \in Int /\ -BOARD_W <= m /\ m <= BOARD_W
    BY <1>1
  <2>2. \A s \in 0 .. GRID_X - 1 : o + s = s
    BY <1>3
  <2>3. QED
    BY <1>2, <1>3, <2>1, <2>2, AroundIs
<1>6. SUFFICES ASSUME NEW m \in {-1, 1}, NEW j \in 0 .. GRID_X - 1, Around(i, m) = j, j \in {i + m - GRID_X, i + m, i + m + GRID_X},
                      NEW back \in BOOLEAN, back <=> m = -1, Goes(q, i, d, back, 1)
               PROVE  Span(q, j, d) = Span(q, i, d) - 1
  <2>1. ASSUME NEW m \in {-1, 1}, NEW back \in BOOLEAN, back <=> m = -1, Goes(q, i, d, back, 1)
        PROVE  Span(q, Around(i, m), d) = Span(q, i, d) - 1
    BY <1>5, <1>6, <2>1
  <2>2. (TRUE <=> -1 = -1) /\ (FALSE <=> 1 = -1) /\ TRUE \in BOOLEAN /\ FALSE \in BOOLEAN
    OBVIOUS
  <2>3. QED
    BY <2>1, <2>2
<1>7. j \in Coord
  BY DEF Coord
<1> DEFINE x == Goal(q, i, d)
           y == Goal(q, j, d)
<1>8. /\ x \in Int /\ -GRID_X < x /\ x < GRID_X /\ (TORUS = 0 => x >= 0)
      /\ y \in Int /\ -GRID_X < y /\ y < GRID_X /\ (TORUS = 0 => y >= 0)
  BY <1>7, GoalIs
<1>9. CASE TORUS = 1
  <2>1. Sends(GRID_X, HalfBoard, 0, i, x, back, 1)
    <3>1. 1 \in Int
      OBVIOUS
    <3>2. Sends(BOARD_W, HalfBoard, o, o + r, x, back, 1)
      BY <1>2, <1>6, <1>8, <1>9, <3>1, GoesSends
    <3>3. o + r = i
      BY <1>3
    <3>4. QED
      BY <1>3, <3>2, <3>3
  <2>2. (back => Before(GRID_X, j, i)) /\ (~back => Before(GRID_X, i, j))
    BY <1>1, <1>4, <1>6 DEF Before
  <2>3. OneLess(GRID_X, y, j, x, i)
    <3>1. CASE q = 3 /\ GRID_X \div PROXY_W > 1
      <4>1. PICK c \in Int, k \in Int : x = Wrap(GRID_X, c) /\ c = PROXY_W * k + (d % PROXY_W) /\ AtMostHalf(PROXY_W, c, i)
        BY <1>9, <3>1, NearestIs DEF Goal
      <4>2. PICK e \in Int, l \in Int : y = Wrap(GRID_X, e) /\ e = PROXY_W * l + (d % PROXY_W) /\ AtMostHalf(PROXY_W, e, j)
        BY <1>7, <1>9, <3>1, NearestIs DEF Goal
      <4>3. PICK z \in Nat : GRID_X = PROXY_W * z
        BY Grid
      <4>4. Apart(PROXY_W, c - e) /\ Apart(PROXY_W, c - e + GRID_X) /\ Apart(PROXY_W, c - e - GRID_X)
        <5>1. d % PROXY_W \in Int
          BY <1>1, <1>4, DivMod
        <5>2. PROXY_W \in Int /\ GRID_X \in Int /\ z \in Int
          BY <1>1
        <5>3. QED
          BY <1>1, <4>1, <4>2, <4>3, <5>1, <5>2, ClassApart
      <4>5. GRID_X >= 2 * PROXY_W
        <5>1. Item(GRID_X, PROXY_W, z, 0)
          BY <1>1, <4>3 DEF Item
        <5>2. GRID_X \div PROXY_W = z
          <6>1. GRID_X \in Int
            BY <1>1
          <6>2. \A k1, r1 : Item(GRID_X, PROXY_W, k1, r1) => GRID_X \div PROXY_W = k1
            BY <1>1, <6>1, ItemOf
          <6>3. QED
            BY <5>1, <6>2
        <5>3. PROXY_W * z >= 2 * PROXY_W
          BY <1>1, <3>1, <5>2, Z3
        <5>4. QED
          BY <4>3, <5>3
      <4>6. /\ PROXY_W \in Int /\ GRID_X \in Int /\ PROXY_W >= 1
            /\ c \in Int /\ e \in Int /\ AtMostHalf(PROXY_W, c, i) /\ AtMostHalf(PROXY_W, e, j)
            /\ i \in 0 .. GRID_X - 1 /\ j \in 0 .. GRID_X - 1
            /\ HalfBoard \in Int /\ 2 * HalfBoard <= GRID_X /\ GRID_X <= 2 * HalfBoard + 1
        BY <1>1, <1>4, <1>6, <4>1, <4>2
      <4>7. /\ Before(GRID_X, j, i) /\ Sends(GRID_X, HalfBoard, 0, i, Wrap(GRID_X, c), TRUE, 1) =>
                   OneLess(GRID_X, Wrap(GRID_X, e), j, Wrap(GRID_X, c), i)
            /\ Before(GRID_X, i, j) /\ Sends(GRID_X, HalfBoard, 0, i, Wrap(GRID_X, c), FALSE, 1) =>
                   OneLess(GRID_X, Wrap(GRID_X, e), j, Wrap(GRID_X, c), i)
        <5>1. NearestTo(PROXY_W, GRID_X, HalfBoard, i, j, c, e)
          BY <4>4, <4>5, <4>6 DEF NearestTo
        <5>2. QED
          BY <5>1, NearestNearer
      <4>8. CASE back = TRUE
        BY <2>1, <2>2, <4>1, <4>2, <4>7, <4>8
      <4>9. CASE back = FALSE
        BY <2>1, <2>2, <4>1, <4>2, <4>7, <4>9
      <4>10. QED
        BY <1>6, <4>8, <4>9
    <3>2. CASE ~(q = 3 /\ GRID_X \div PROXY_W > 1)
      <4>1. x = d /\ y = d
        BY <3>2 DEF Goal
      <4>2. GRID_X \in Int
        BY <1>1
      <4>3. /\ Before(GRID_X, j, i) /\ Sends(GRID_X, HalfBoard, 0, i, d, TRUE, 1) => OneLess(GRID_X, d, j, d, i)
            /\ Before(GRID_X, i, j) /\ Sends(GRID_X, HalfBoard, 0, i, d, FALSE, 1) => OneLess(GRID_X, d, j, d, i)
        BY <1>1, <1>4, <4>2, SameNearer
      <4>4. CASE back = TRUE
        BY <2>1, <2>2, <4>1, <4>3, <4>4
      <4>5. CASE back = FALSE
        BY <2>1, <2>2, <4>1, <4>3, <4>5
      <4>6. QED
        BY <1>6, <4>4, <4>5
    <3>3. QED
      BY <3>1, <3>2
  <2>4. QED
    BY <1>7, <1>9, <2>3, SpanIs DEF OneLess
<1>10. CASE TORUS = 0
  <2>1. (x < i <=> back) /\ Far(i, x, 1)
    <3>1. 1 \in Int /\ -BOARD_W < x
      BY <1>8
    <3>2. QED
      BY <1>2, <1>6, <1>8, <1>10, <3>1, GoesSends
  <2>2. (back => j = i - 1) /\ (~back => j = i + 1)
    BY <1>1, <1>4, <1>6, <1>8, <1>10, <2>1 DEF Far
  <2>3. y = x
    <3>1. CASE q = 3 /\ GRID_X \div PROXY_W > 1
      <4>1. PICK k \in Int : x = PROXY_W * k + (d % PROXY_W) /\ i >= PROXY_W * k /\ i < PROXY_W * k + PROXY_W
        BY <1>10, <3>1, NearestIs DEF Goal
      <4>2. PICK l \in Int : y = PROXY_W * l + (d % PROXY_W) /\ j >= PROXY_W * l /\ j < PROXY_W * l + PROXY_W
        BY <1>7, <1>10, <3>1, NearestIs DEF Goal
      <4>3. PICK e \in 0 .. PROXY_W - 1 : e = d % PROXY_W
        BY <1>1, <1>4, DivMod
      <4>4. Apart(PROXY_W, x - y)
        <5>1. PROXY_W \in Int /\ e \in Int /\ x = PROXY_W * k + e /\ y = PROXY_W * l + e
          BY <1>1, <4>1, <4>2, <4>3
        <5>2. PROXY_W * 0 = 0 /\ 0 \in Int
          BY <1>1
        <5>3. QED
          BY <1>1, <1>8, <5>1, <5>2, ClassApart
      <4>5. PICK u \in Int, v \in Int : u = PROXY_W * k /\ v = PROXY_W * l
        BY <1>1
      <4>6. x = u + e /\ y = v + e /\ i >= u /\ i < u + PROXY_W /\ j >= v /\ j < v + PROXY_W
        BY <4>1, <4>2, <4>3, <4>5
      <4> HIDE DEF x, y
      <4>7. QED
        BY <1>1, <1>4, <1>8, <2>1, <2>2, <4>3, <4>4, <4>6 DEF Apart, Far
    <3>2. CASE ~(q = 3 /\ GRID_X \div PROXY_W > 1)
      BY <3>2 DEF Goal
    <3>3. QED
      BY <3>1, <3>2
  <2>4. Dist(x, j) = Dist(x, i) - 1
    <3> HIDE DEF x, y
    <3>1. QED
      BY <1>1, <1>4, <1>8, <2>1, <2>2 DEF Dist, Far
  <2>5. QED
    BY <1>7, <1>10, <2>3, <2>4, SpanIs
<1>11. QED
  BY <1>1, <1>9, <1>10

(* On one board without express links every hop brings a message nearer to *)
(* the tile that the next router sends it to, although with proxies each   *)
(* router chooses anew.                                                    *)
THEOREM HopsGoNearer == BOARD_W = GRID_X /\ RUCHE_X = 0 => (Spec => Nearer)
<1> SUFFICES ASSUME BOARD_W = GRID_X, RUCHE_X = 0 PROVE Spec => Nearer
  OBVIOUS
<1>1. ASSUME Walk, [Next]_vars PROVE [GoesNearer]_vars
  <2>1. CASE Hop
    <3> DEFINE d == get_dst(data)
    <3>1. PICK port \in Choices(qid, at, d, orig) : /\ HasPort(at, port) /\ at' = Neighbour(at, port)
                                                    /\ done' = (port = "C")
      BY <2>1 DEF Hop
    <3>2. /\ at \in Tile /\ port \in Ports /\ qid' = qid /\ d' = d
          /\ at.x \in Coord /\ at.y \in Coord /\ d \in Tile /\ d.x \in Coord /\ d.y \in Coord
      BY <1>1, <2>1, <3>1, ChoicesAre, TilesNumbered DEF Walk, TypeOK, Hop, Tile, get_dst
    <3>3. SUFFICES ASSUME port # "C" PROVE Away(at') = Away(at) - 1
      <4>1. at' \in Tile
        BY <3>1, <3>2, Neighbours
      <4>2. [GoesNearer]_vars <=> (~done' => Away(at') = Away(at) - 1) \/ UNCHANGED vars
        BY DEF GoesNearer
      <4>3. QED
        BY <3>1, <3>3, <4>2
    <3>4. port \in {"N", "S", "W", "E"} /\ port = Direction(qid, at, d)
      <4>1. port = Direction(qid, at, d)
        BY <3>1, <3>3, ChoicesAre, Grid DEF Jumps
      <4>2. port \notin {"PX", "PY"}
        BY <3>1, Grid DEF HasPort, Express
      <4>3. QED
        BY <3>3, <4>1, <4>2, Directions
    <3>5. \A t \in Tile : Away(t) = Span(qid, t.x, d.x) + Span(qid, t.y, d.y)
      <4>1. SUFFICES ASSUME NEW t \in Tile PROVE Away(t) = Span(qid, t.x, d.x) + Span(qid, t.y, d.y)
        OBVIOUS
      <4>2. Target(qid, t, d).x = Goal(qid, t.x, d.x) /\ Target(qid, t, d).y = Goal(qid, t.y, d.y)
        BY <3>2, TargetIs
      <4>3. QED
        BY <4>2 DEF Away, Span
    <3>6. at' \in Tile
      BY <3>1, <3>2, Neighbours
    <3>7. /\ Direction(qid, at, d) = "N" => Goes(qid, at.y, d.y, TRUE, 1)
          /\ Direction(qid, at, d) = "S" => Goes(qid, at.y, d.y, FALSE, 1)
          /\ Direction(qid, at, d) = "W" => Goes(qid, at.x, d.x, TRUE, 1)
          /\ Direction(qid, at, d) = "E" => Goes(qid, at.x, d.x, FALSE, 1)
      <4>1. 1 \in Int /\ (1 = 1 \/ AbsDiff(qid, at, d, Direction(qid, at, d)) >= 1)
        OBVIOUS
      <4>2. QED
        BY <3>2, <4>1, DirectionGoes
    <3>8. /\ port = "N" => at'.x = at.x /\ at'.y = Around(at.y, -1)
          /\ port = "S" => at'.x = at.x /\ at'.y = Around(at.y, 1)
          /\ port = "W" => at'.y = at.y /\ at'.x = Around(at.x, -1)
          /\ port = "E" => at'.y = at.y /\ at'.x = Around(at.x, 1)
      BY <3>1, <3>2 DEF Neighbour, Tile
    <3>9. \/ Span(qid, at'.x, d.x) = Span(qid, at.x, d.x) /\ Span(qid, at'.y, d.y) = Span(qid, at.y, d.y) - 1
          \/ Span(qid, at'.y, d.y) = Span(qid, at.y, d.y) /\ Span(qid, at'.x, d.x) = Span(qid, at.x, d.x) - 1
      <4>1. /\ Goes(qid, at.y, d.y, TRUE, 1) => Span(qid, Around(at.y, -1), d.y) = Span(qid, at.y, d.y) - 1
            /\ Goes(qid, at.y, d.y, FALSE, 1) => Span(qid, Around(at.y, 1), d.y) = Span(qid, at.y, d.y) - 1
            /\ Goes(qid, at.x, d.x, TRUE, 1) => Span(qid, Around(at.x, -1), d.x) = Span(qid, at.x, d.x) - 1
            /\ Goes(qid, at.x, d.x, FALSE, 1) => Span(qid, Around(at.x, 1), d.x) = Span(qid, at.x, d.x) - 1
        BY <3>2, SpanShrinks
      <4>2. QED
        BY <3>4, <3>7, <3>8, <4>1
    <3>10. \A c, e \in Coord : Span(qid, c, e) \in Int
      <4>1. SUFFICES ASSUME NEW c \in Coord, NEW e \in Coord PROVE Span(qid, c, e) \in Int
        OBVIOUS
      <4>2. Goal(qid, c, e) \in Int /\ GRID_X \in Int /\ c \in Int /\ TORUS \in {0, 1}
        BY GoalIs, Grid DEF Coord
      <4>3. QED
        BY <4>2, SpanIs DEF Ring, Onto, Dist
    <3>11. at'.x \in Coord /\ at'.y \in Coord
      BY <3>6 DEF Tile
    <3>12. PICK a \in Int, b \in Int, v \in Int, w \in Int :
             a = Span(qid, at.x, d.x) /\ b = Span(qid, at.y, d.y) /\ v = Span(qid, at'.x, d.x) /\ w = Span(qid, at'.y, d.y)
      BY <3>2, <3>10, <3>11
    <3>13. Away(at) = a + b /\ Away(at') = v + w
      BY <3>2, <3>5, <3>6, <3>12
    <3>14. (v = a /\ w = b - 1) \/ (w = b /\ v = a - 1)
      BY <3>9, <3>12
    <3>15. QED
      BY <3>12, <3>13, <3>14
  <2>2. CASE UNCHANGED vars
    BY <2>2
  <2>3. QED
    BY <1>1, <2>1, <2>2 DEF Next, Delivered
<1>2. QED
  BY <1>1, WalkAlways, PTL DEF Spec, Nearer
=============================================================================
