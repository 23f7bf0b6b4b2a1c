---------------------------- MODULE Router_proofs ----------------------------
(***************************************************************************)
(* Proofs about the routers for grids of any size, torus or mesh, any      *)
(* lengths of queues, any proxies and any traffic: messages stay in one    *)
(* piece, and an input holds an output exactly while the rest of a message *)
(* is in it.                                                               *)
(***************************************************************************)
EXTENDS Router, SequenceTheorems, FiniteSetTheorems,
        WellFoundedInduction, TLAPS

(* A flit, or what an input starts from: any number with the place of a    *)
(* last flit.                                                              *)
Place == 1 .. 3
Mark  == Nat \X Place

(* With messages of n flits, g comes next after f.                         *)
Follows(f, g, n) == IF f[2] = n THEN g[2] = 1 ELSE g = <<f[1], f[2] + 1>>

(* The flits s follow f, and each other; the last of f and s.              *)
InOrder(f, s, n) == \A i \in 1 .. Len(s) : Follows(IF i = 1 THEN f ELSE s[i - 1], s[i], n)
LastOf(f, s) == IF s = <<>> THEN f ELSE s[Len(s)]

-----------------------------------------------------------------------------
(* What is left without the first j.                                       *)
LEMMA Popped ==
  ASSUME NEW S, NEW s \in Seq(S), NEW j \in 1 .. Len(s), NEW r, r = SubSeq(s, j + 1, Len(s))
  PROVE  /\ r \in Seq(S) /\ Len(r) = Len(s) - j
         /\ \A i \in 1 .. Len(r) : i + j \in 1 .. Len(s) /\ r[i] = s[i + j]
<1>1. Len(s) \in Nat /\ \A i \in 1 .. Len(s) : s[i] \in S
  BY LenProperties, ElementOfSeq
<1>2. j + 1 \in Int /\ Len(s) \in Int /\ \A i \in j + 1 .. Len(s) : s[i] \in S
  BY <1>1
<1>3. /\ r \in Seq(S) /\ Len(r) = IF j + 1 <= Len(s) THEN Len(s) - (j + 1) + 1 ELSE 0
      /\ \A i \in 1 .. Len(s) - (j + 1) + 1 : r[i] = s[(j + 1) + i - 1]
  BY <1>2, SubSeqProperties
<1>4. QED
  BY <1>1, <1>3

(* Taking the first j of some flits leaves the others in order.            *)
LEMMA PopOrder ==
  ASSUME NEW S, NEW s \in Seq(S), NEW f, NEW n, NEW j \in 1 .. Len(s), InOrder(f, s, n)
  PROVE  /\ SubSeq(s, j + 1, Len(s)) \in Seq(S)
         /\ InOrder(s[j], SubSeq(s, j + 1, Len(s)), n)
         /\ LastOf(s[j], SubSeq(s, j + 1, Len(s))) = LastOf(f, s)
<1> DEFINE r == SubSeq(s, j + 1, Len(s))
<1>1. Len(s) \in Nat /\ \A i \in 1 .. Len(s) : s[i] \in S
  BY LenProperties, ElementOfSeq
<1>2. /\ r \in Seq(S) /\ Len(r) = Len(s) - j
      /\ \A i \in 1 .. Len(r) : r[i] = s[i + j]
  BY Popped
<1> HIDE DEF r
<1>3. InOrder(s[j], r, n)
  <2>1. ASSUME NEW i \in 1 .. Len(r)
        PROVE  Follows(IF i = 1 THEN s[j] ELSE r[i - 1], r[i], n)
    <3>1. i + j \in 1 .. Len(s) /\ i + j # 1 /\ (i # 1 => i - 1 \in 1 .. Len(r))
      BY <1>1, <1>2
    <3>2. Follows(s[(i + j) - 1], s[i + j], n)
      BY <3>1 DEF InOrder
    <3>3. r[i] = s[i + j]
      BY <1>2
    <3>4. i # 1 => r[i - 1] = s[(i - 1) + j]
      BY <1>2, <3>1
    <3>5. (i - 1) + j = (i + j) - 1 /\ (i = 1 => (i + j) - 1 = j)
      BY <1>1, <1>2
    <3>6. (IF i = 1 THEN s[j] ELSE r[i - 1]) = s[(i + j) - 1]
      BY <3>4, <3>5
    <3>7. QED
      BY <3>2, <3>3, <3>6
  <2>2. QED
    BY <2>1 DEF InOrder
<1>4. LastOf(s[j], r) = LastOf(f, s)
  <2>1. s # <<>>
    BY <1>1, EmptySeq
  <2>2. CASE Len(r) = 0
    <3>1. r = <<>> /\ j = Len(s)
      BY <1>1, <1>2, <2>2, EmptySeq
    <3>2. QED
      BY <2>1, <3>1 DEF LastOf
  <2>3. CASE Len(r) # 0
    <3>1. r # <<>>
      BY <2>3, EmptySeq
    <3>2. Len(r) \in 1 .. Len(r) /\ Len(r) + j = Len(s)
      BY <1>1, <1>2, <2>3
    <3>3. r[Len(r)] = s[Len(s)]
      BY <1>2, <3>2
    <3>4. QED
      BY <2>1, <3>1, <3>3 DEF LastOf
  <2>4. QED
    BY <2>2, <2>3
<1>5. QED
  BY <1>2, <1>3, <1>4 DEF r

(* The first j of some flits.                                              *)
LEMMA TakeOrder ==
  ASSUME NEW S, NEW s \in Seq(S), NEW f, NEW n, NEW j \in 1 .. Len(s), InOrder(f, s, n)
  PROVE  /\ SubSeq(s, 1, j) \in Seq(S) /\ Len(SubSeq(s, 1, j)) = j
         /\ \A i \in 1 .. j : SubSeq(s, 1, j)[i] = s[i]
         /\ InOrder(f, SubSeq(s, 1, j), n)
         /\ LastOf(f, SubSeq(s, 1, j)) = s[j]
<1> DEFINE r == SubSeq(s, 1, j)
<1>1. Len(s) \in Nat /\ \A i \in 1 .. Len(s) : s[i] \in S
  BY LenProperties, ElementOfSeq
<1>2. /\ r \in Seq(S) /\ Len(r) = j
      /\ \A i \in 1 .. j : r[i] = s[i]
  <2>1. 1 \in Int /\ j \in Int /\ \A i \in 1 .. j : s[i] \in S
    BY <1>1
  <2>2. /\ r \in Seq(S) /\ Len(r) = IF 1 <= j THEN j - 1 + 1 ELSE 0
        /\ \A i \in 1 .. j - 1 + 1 : r[i] = s[1 + i - 1]
    BY <2>1, SubSeqProperties
  <2> HIDE DEF r
  <2>3. QED
    BY <1>1, <2>2
<1> HIDE DEF r
<1>3. InOrder(f, r, n)
  <2>1. ASSUME NEW i \in 1 .. Len(r)
        PROVE  Follows(IF i = 1 THEN f ELSE r[i - 1], r[i], n)
    <3>1. i \in 1 .. Len(s) /\ i \in 1 .. j /\ (i # 1 => i - 1 \in 1 .. j)
      BY <1>1, <1>2
    <3>2. Follows(IF i = 1 THEN f ELSE s[i - 1], s[i], n)
      BY <3>1 DEF InOrder
    <3>3. QED
      BY <1>2, <3>1, <3>2
  <2>2. QED
    BY <2>1 DEF InOrder
<1>4. LastOf(f, r) = s[j]
  BY <1>2 DEF LastOf
<1>5. QED
  BY <1>2, <1>3, <1>4 DEF r

(* Flits that follow the last of others can be put behind them.            *)
LEMMA AppendOrder ==
  ASSUME NEW S, NEW s \in Seq(S), NEW u \in Seq(S), NEW f, NEW n,
         InOrder(f, s, n), InOrder(LastOf(f, s), u, n)
  PROVE  /\ s \o u \in Seq(S)
         /\ InOrder(f, s \o u, n)
         /\ LastOf(f, s \o u) = LastOf(LastOf(f, s), u)
<1> DEFINE r == s \o u
<1>1. Len(s) \in Nat /\ Len(u) \in Nat
  BY LenProperties
<1>2. /\ r \in Seq(S) /\ Len(r) = Len(s) + Len(u)
      /\ \A i \in 1 .. Len(s) + Len(u) : r[i] = IF i <= Len(s) THEN s[i] ELSE u[i - Len(s)]
  BY ConcatProperties
<1>3. /\ s = <<>> <=> Len(s) = 0
      /\ u = <<>> <=> Len(u) = 0
      /\ r = <<>> <=> Len(r) = 0
  BY <1>1, <1>2, EmptySeq
<1> HIDE DEF r
<1>4. InOrder(f, r, n)
  <2>1. ASSUME NEW i \in 1 .. Len(r)
        PROVE  Follows(IF i = 1 THEN f ELSE r[i - 1], r[i], n)
    <3>1. CASE i <= Len(s)
      <4>1. /\ i \in 1 .. Len(s) /\ i \in 1 .. Len(s) + Len(u)
            /\ i # 1 => i - 1 \in 1 .. Len(s) + Len(u) /\ i - 1 <= Len(s)
        BY <1>1, <1>2, <3>1
      <4>2. r[i] = s[i] /\ (i # 1 => r[i - 1] = s[i - 1])
        BY <1>2, <3>1, <4>1
      <4>3. QED
        BY <4>1, <4>2 DEF InOrder
    <3>2. CASE i > Len(s)
      <4>1. i - Len(s) \in 1 .. Len(u) /\ r[i] = u[i - Len(s)]
        BY <1>1, <1>2, <3>2
      <4>2. Follows(IF i - Len(s) = 1 THEN LastOf(f, s) ELSE u[(i - Len(s)) - 1], u[i - Len(s)], n)
        BY <4>1 DEF InOrder
      <4>3. CASE i - Len(s) = 1
        <5>1. (IF i = 1 THEN f ELSE r[i - 1]) = LastOf(f, s)
          BY <1>1, <1>2, <1>3, <4>3 DEF LastOf
        <5>2. QED
          BY <4>1, <4>2, <4>3, <5>1
      <4>4. CASE i - Len(s) # 1
        <5>1. /\ i # 1 /\ i - 1 \in 1 .. Len(s) + Len(u) /\ ~(i - 1 <= Len(s))
              /\ (i - 1) - Len(s) = (i - Len(s)) - 1
          BY <1>1, <1>2, <3>2, <4>4
        <5>2. r[i - 1] = u[(i - Len(s)) - 1]
          BY <1>2, <5>1
        <5>3. QED
          BY <4>1, <4>2, <4>4, <5>1, <5>2
      <4>5. QED
        BY <4>3, <4>4
    <3>3. QED
      BY <1>1, <1>2, <3>1, <3>2
  <2>2. QED
    BY <2>1 DEF InOrder
<1>5. LastOf(f, r) = LastOf(LastOf(f, s), u)
  <2>1. CASE Len(u) = 0
    BY <1>1, <1>2, <1>3, <2>1 DEF LastOf
  <2>2. CASE Len(u) # 0
    <3>1. Len(r) # 0 /\ r[Len(r)] = u[Len(u)]
      BY <1>1, <1>2, <2>2
    <3>2. QED
      BY <1>3, <2>2, <3>1 DEF LastOf
  <2>3. QED
    BY <2>1, <2>2
<1>6. QED
  BY <1>2, <1>4, <1>5 DEF r

-----------------------------------------------------------------------------
(* On the ring of a board, one step forward or back leads somewhere else,  *)
(* and from two coordinates to two.                                        *)
LEMMA AroundApart ==
  ASSUME NEW c \in Coord, NEW e \in Coord, NEW n \in {-1, 1}
  PROVE  /\ Around(c, n) \in Coord /\ Around(c, n) # c
         /\ Around(c, n) = Around(e, n) => c = e
<1>1. BOARD_W = GRID_X /\ GRID_X \in Nat /\ GRID_X > 1
  BY RouterAssumption, RoutingAssumption
<1>2. c \in Nat /\ e \in Nat /\ c < GRID_X /\ e < GRID_X
  BY <1>1 DEF Coord
<1>3. \A x \in Nat : x < GRID_X => (x \div GRID_X) * GRID_X = 0
  BY <1>1
<1>4. Around(c, n) = (c + GRID_X + n) % GRID_X /\ Around(e, n) = (e + GRID_X + n) % GRID_X
  <2>1. BoardOrigin(c) = 0 /\ BoardOrigin(e) = 0
    BY <1>1, <1>2, <1>3 DEF BoardOrigin
  <2>2. (c + GRID_X + n) % GRID_X \in Int /\ (e + GRID_X + n) % GRID_X \in Int
    BY <1>1, <1>2
  <2>3. QED
    BY <1>1, <2>1, <2>2 DEF Around
<1>5. \A x \in 0 .. 2 * GRID_X : x % GRID_X = IF x < GRID_X THEN x
                                            ELSE IF x < 2 * GRID_X THEN x - GRID_X ELSE 0
  BY <1>1
<1>6. /\ c + GRID_X + n \in 0 .. 2 * GRID_X /\ e + GRID_X + n \in 0 .. 2 * GRID_X
      /\ GRID_X \in Int /\ c \in Int /\ e \in Int
  BY <1>1, <1>2
<1> DEFINE Ring(x) == IF x < GRID_X THEN x ELSE IF x < 2 * GRID_X THEN x - GRID_X ELSE 0
<1>7. Around(c, n) = Ring(c + GRID_X + n) /\ Around(e, n) = Ring(e + GRID_X + n)
  BY <1>4, <1>5, <1>6
<1>8. /\ Ring(c + GRID_X + n) \in Coord /\ Ring(c + GRID_X + n) # c
      /\ Ring(c + GRID_X + n) = Ring(e + GRID_X + n) => c = e
  <2>1. CASE n = 1
    BY <1>1, <1>2, <2>1 DEF Coord
  <2>2. CASE n = -1
    BY <1>1, <1>2, <2>2 DEF Coord
  <2>3. QED
    BY <2>1, <2>2
<1>9. QED
  BY <1>7, <1>8

(* The queue that an output feeds is in another router, or leads into the  *)
(* core; and it has that one output.                                       *)
LEMMA FedApart ==
  ASSUME NEW t \in Tile, NEW d \in Outputs, NEW q \in Channels
  PROVE  /\ Fed(t, d, q) \in Queues /\ Fed(t, d, q)[2] # "C" /\ Fed(t, d, q)[3] = q
         /\ \A o \in Inputs, r \in Channels : Fed(t, d, q) # <<t, o, r>>
         /\ \A u \in Tile, e \in Outputs, r \in Channels :
              Fed(t, d, q) = Fed(u, e, r) => t = u /\ d = e /\ q = r
<1> DEFINE Next1(c) == Around(c, 1)
           Prev1(c) == Around(c, -1)
<1>1. \A c, e \in Coord : /\ Next1(c) \in Coord /\ Next1(c) # c /\ (Next1(c) = Next1(e) => c = e)
                          /\ Prev1(c) \in Coord /\ Prev1(c) # c /\ (Prev1(c) = Prev1(e) => c = e)
  BY AroundApart
<1>2. \A u \in Tile : /\ u.x \in Coord /\ u.y \in Coord /\ u = [x |-> u.x, y |-> u.y]
                      /\ Neighbour(u, "N") = [x |-> u.x, y |-> Prev1(u.y)]
                      /\ Neighbour(u, "S") = [x |-> u.x, y |-> Next1(u.y)]
                      /\ Neighbour(u, "W") = [x |-> Prev1(u.x), y |-> u.y]
                      /\ Neighbour(u, "E") = [x |-> Next1(u.x), y |-> u.y]
  BY DEF Tile, Neighbour
<1>3. InputAt("N") = "S" /\ InputAt("S") = "N" /\ InputAt("W") = "E" /\ InputAt("E") = "W"
  BY DEF InputAt
<1> HIDE DEF Next1, Prev1
<1>4. ASSUME NEW u \in Tile, NEW e \in {"N", "S", "W", "E"}
      PROVE  /\ Neighbour(u, e) \in Tile /\ Neighbour(u, e) # u
             /\ InputAt(e) \in {"N", "S", "W", "E"}
             /\ \A v \in Tile : Neighbour(u, e) = Neighbour(v, e) => u = v
  <2>1. \A a, b, c, f : [x |-> a, y |-> b] = [x |-> c, y |-> f] => a = c /\ b = f
    BY Zenon
  <2>2. \A a, b \in Coord : [x |-> a, y |-> b] \in Tile
    BY DEF Tile
  <2>3. CASE e = "N"
    <3>1. /\ Neighbour(u, e) = [x |-> u.x, y |-> Prev1(u.y)] /\ InputAt(e) = "S"
          /\ Prev1(u.y) \in Coord /\ Prev1(u.y) # u.y
      BY <1>1, <1>2, <1>3, <2>3
    <3>2. Neighbour(u, e) \in Tile /\ Neighbour(u, e) # u
      BY <1>2, <2>1, <2>2, <3>1
    <3>3. ASSUME NEW v \in Tile, Neighbour(u, e) = Neighbour(v, e)
          PROVE  u = v
      <4>1. Neighbour(v, e) = [x |-> v.x, y |-> Prev1(v.y)]
        BY <1>2, <2>3
      <4>2. u.x = v.x /\ u.y = v.y
        BY <1>1, <1>2, <2>1, <3>1, <3>3, <4>1
      <4>3. QED
        BY <1>2, <4>2
    <3>4. QED
      BY <3>1, <3>2, <3>3
  <2>4. CASE e = "S"
    <3>1. /\ Neighbour(u, e) = [x |-> u.x, y |-> Next1(u.y)] /\ InputAt(e) = "N"
          /\ Next1(u.y) \in Coord /\ Next1(u.y) # u.y
      BY <1>1, <1>2, <1>3, <2>4
    <3>2. Neighbour(u, e) \in Tile /\ Neighbour(u, e) # u
      BY <1>2, <2>1, <2>2, <3>1
    <3>3. ASSUME NEW v \in Tile, Neighbour(u, e) = Neighbour(v, e)
          PROVE  u = v
      <4>1. Neighbour(v, e) = [x |-> v.x, y |-> Next1(v.y)]
        BY <1>2, <2>4
      <4>2. u.x = v.x /\ u.y = v.y
        BY <1>1, <1>2, <2>1, <3>1, <3>3, <4>1
      <4>3. QED
        BY <1>2, <4>2
    <3>4. QED
      BY <3>1, <3>2, <3>3
  <2>5. CASE e = "W"
    <3>1. /\ Neighbour(u, e) = [x |-> Prev1(u.x), y |-> u.y] /\ InputAt(e) = "E"
          /\ Prev1(u.x) \in Coord /\ Prev1(u.x) # u.x
      BY <1>1, <1>2, <1>3, <2>5
    <3>2. Neighbour(u, e) \in Tile /\ Neighbour(u, e) # u
      BY <1>2, <2>1, <2>2, <3>1
    <3>3. ASSUME NEW v \in Tile, Neighbour(u, e) = Neighbour(v, e)
          PROVE  u = v
      <4>1. Neighbour(v, e) = [x |-> Prev1(v.x), y |-> v.y]
        BY <1>2, <2>5
      <4>2. u.x = v.x /\ u.y = v.y
        BY <1>1, <1>2, <2>1, <3>1, <3>3, <4>1
      <4>3. QED
        BY <1>2, <4>2
    <3>4. QED
      BY <3>1, <3>2, <3>3
  <2>6. CASE e = "E"
    <3>1. /\ Neighbour(u, e) = [x |-> Next1(u.x), y |-> u.y] /\ InputAt(e) = "W"
          /\ Next1(u.x) \in Coord /\ Next1(u.x) # u.x
      BY <1>1, <1>2, <1>3, <2>6
    <3>2. Neighbour(u, e) \in Tile /\ Neighbour(u, e) # u
      BY <1>2, <2>1, <2>2, <3>1
    <3>3. ASSUME NEW v \in Tile, Neighbour(u, e) = Neighbour(v, e)
          PROVE  u = v
      <4>1. Neighbour(v, e) = [x |-> Next1(v.x), y |-> v.y]
        BY <1>2, <2>6
      <4>2. u.x = v.x /\ u.y = v.y
        BY <1>1, <1>2, <2>1, <3>1, <3>3, <4>1
      <4>3. QED
        BY <1>2, <4>2
    <3>4. QED
      BY <3>1, <3>2, <3>3
  <2>7. QED
    BY <2>3, <2>4, <2>5, <2>6
<1>5. \A e, g \in {"N", "S", "W", "E"} : InputAt(e) = InputAt(g) => e = g
  BY <1>3
<1>6. \A u \in Tile, e \in Outputs, r \in Channels :
        Fed(u, e, r) = IF e = "C" THEN <<u, "IQ", r>> ELSE <<Neighbour(u, e), InputAt(e), r>>
  BY DEF Fed
<1>7. \A u \in Tile, e \in {"N", "S", "W", "E"}, r \in Channels :
        /\ <<Neighbour(u, e), InputAt(e), r>> \in Queues /\ <<u, "IQ", r>> \in Queues
        /\ InputAt(e) \in Inputs \ {"C"}
  BY <1>4 DEF Queues, Inputs
<1>8. Outputs = {"N", "S", "W", "E", "C"} /\ "IQ" \notin Inputs /\ "IQ" # "C"
  BY DEF Outputs, Inputs
<1>9. CASE d = "C"
  <2>1. Fed(t, d, q) = <<t, "IQ", q>>
    BY <1>6, <1>9
  <2>2. ASSUME NEW u \in Tile, NEW e \in Outputs, NEW r \in Channels, Fed(t, d, q) = Fed(u, e, r)
        PROVE  t = u /\ d = e /\ q = r
    <3>1. CASE e = "C"
      BY <1>6, <1>9, <2>1, <2>2, <3>1
    <3>2. CASE e # "C"
      <4>1. e \in {"N", "S", "W", "E"} /\ Fed(u, e, r) = <<Neighbour(u, e), InputAt(e), r>>
        BY <1>6, <1>8, <3>2
      <4>2. InputAt(e) = "IQ"
        BY <2>1, <2>2, <4>1
      <4>3. QED
        BY <1>7, <1>8, <4>1, <4>2
    <3>3. QED
      BY <3>1, <3>2
  <2>3. Fed(t, d, q) \in Queues /\ Fed(t, d, q)[2] # "C" /\ Fed(t, d, q)[3] = q
    BY <1>8, <2>1 DEF Queues
  <2>4. \A o \in Inputs, r \in Channels : Fed(t, d, q) # <<t, o, r>>
    BY <1>8, <2>1
  <2>5. QED
    BY <2>2, <2>3, <2>4
<1>10. CASE d # "C"
  <2>1. d \in {"N", "S", "W", "E"}
    BY <1>8, <1>10
  <2>2. Fed(t, d, q) = <<Neighbour(t, d), InputAt(d), q>>
    BY <1>6, <1>10
  <2>3. /\ Fed(t, d, q) \in Queues /\ Fed(t, d, q)[2] # "C" /\ Fed(t, d, q)[3] = q
        /\ \A o \in Inputs, r \in Channels : Fed(t, d, q) # <<t, o, r>>
    <3>1. Neighbour(t, d) # t /\ InputAt(d) # "C"
      BY <1>4, <2>1
    <3>2. Fed(t, d, q) \in Queues
      BY <1>7, <2>1, <2>2
    <3>3. QED
      BY <2>2, <3>1, <3>2
  <2>4. ASSUME NEW u \in Tile, NEW e \in Outputs, NEW r \in Channels, Fed(t, d, q) = Fed(u, e, r)
        PROVE  t = u /\ d = e /\ q = r
    <3>1. CASE e = "C"
      <4>1. Fed(u, e, r) = <<u, "IQ", r>>
        BY <1>6, <3>1
      <4>2. InputAt(d) = "IQ"
        BY <2>2, <2>4, <4>1
      <4>3. QED
        BY <1>7, <1>8, <2>1, <4>2
    <3>2. CASE e # "C"
      <4>1. e \in {"N", "S", "W", "E"} /\ Fed(u, e, r) = <<Neighbour(u, e), InputAt(e), r>>
        BY <1>6, <1>8, <3>2
      <4>2. Neighbour(t, d) = Neighbour(u, e) /\ InputAt(d) = InputAt(e) /\ q = r
        BY <2>2, <2>4, <4>1
      <4>3. d = e
        BY <1>5, <2>1, <4>1, <4>2
      <4>4. t = u
        BY <1>4, <2>1, <4>2, <4>3
      <4>5. QED
        BY <4>2, <4>3, <4>4
    <3>3. QED
      BY <3>1, <3>2
  <2>5. QED
    BY <2>3, <2>4
<1>11. QED
  BY <1>9, <1>10

-----------------------------------------------------------------------------
(* The inductive invariant speaks of gone[k], the flit that left queue k   *)
(* last, or anything that could stand for it before the first: the flits   *)
(* in the queue follow that one, and Newest is the last of them all.       *)
Newest(gone, k) == LastOf(gone[k], queue[k])

Typed(gone) ==
  /\ gone \in [Queues -> Mark] /\ queue \in [Queues -> Seq(Flit)]
  /\ open \in [Tile \X Outputs \X Channels -> Inputs \union {"none"}]
  /\ next_d \in [Tile \X Channels -> 0 .. DIRECTIONS - 1]
  /\ sent \in [Messages -> Nat] /\ \A m \in Messages : sent[m] <= Size(m)

(* Every queue has messages of one length, in order; a task takes a whole  *)
(* message.                                                                *)
QueueOrdered(gone, k) ==
  /\ gone[k][2] <= Params(k[3])
  /\ \A i \in 1 .. Len(queue[k]) : Size(queue[k][i][1]) = Params(k[3])
  /\ InOrder(gone[k], queue[k], Params(k[3]))
  /\ k[2] = "IQ" => gone[k][2] = Params(k[3])

(* An output nobody holds ended a message last; else what it fed last is   *)
(* what left its holder last, and not the end of a message.                *)
OutputHeld(gone, t, d, q) ==
  LET o == open[<<t, d, q>>]
      n == Newest(gone, Fed(t, d, q))
  IN IF o = "none" THEN n[2] = Params(q) ELSE gone[<<t, o, q>>] = n /\ n[2] # Params(q)

(* An input that holds no output ended a message last; none holds two.     *)
InputHolds(gone, t, o, q) ==
  /\ (\A d \in Outputs : open[<<t, d, q>>] # o) => gone[<<t, o, q>>][2] = Params(q)
  /\ \A d, e \in Outputs : open[<<t, d, q>>] = o /\ open[<<t, e, q>>] = o => d = e

(* Messages for tasks 3 and 3' enter a core with proxies at once.          *)
InOnePiece == \A t \in Tile, q \in Channels : t3_to_core(q, "C") => open[<<t, "C", q>>] = "none"

(* A core continues the message it queued last, or ended it.               *)
Queueing(gone, m) ==
  sent[m] \notin {0, Size(m)} =>
    Newest(gone, <<Traffic[m].src, "C", Traffic[m].q>>) = <<m, sent[m]>>
CoreEnded(gone, t, q) ==
  (\A m \in Messages : Traffic[m].src = t /\ Traffic[m].q = q => sent[m] \in {0, Size(m)})
    => Newest(gone, <<t, "C", q>>)[2] = Params(q)

RInv(gone) ==
  /\ Typed(gone)
  /\ \A k \in Queues : QueueOrdered(gone, k)
  /\ \A t \in Tile, d \in Outputs, q \in Channels : OutputHeld(gone, t, d, q)
  /\ \A t \in Tile, o \in Inputs, q \in Channels : InputHolds(gone, t, o, q)
  /\ InOnePiece
  /\ \A m \in Messages : Queueing(gone, m)
  /\ \A t \in Tile, q \in Channels : CoreEnded(gone, t, q)

-----------------------------------------------------------------------------
(* Messages have two or three flits, those for tasks 3 and 3' two.         *)
LEMMA Lengths ==
  /\ \A q \in Channels : Params(q) \in {2, 3}
  /\ Params(2) = 2 /\ Params(3) = 2
  /\ Messages \subseteq Nat
  /\ \A m \in Messages : /\ Traffic[m].q \in Channels /\ Traffic[m].src \in Tile
                         /\ Size(m) = Params(Traffic[m].q)
<1>1. num_task_params[1] = 3 /\ num_task_params[2] = 2 /\ num_task_params[3] = 2
  BY DEF num_task_params
<1>2. \A q \in Channels : q = 1 \/ q = 2 \/ q = 3
  BY DEF Channels
<1> DEFINE Sort == [q : Channels, src : Tile, data : 0 .. GRID_X * GRID_X - 1]
<1>3. Traffic \in Seq(Sort)
  BY RouterAssumption
<1> HIDE DEF Sort
<1>4. Messages = 1 .. Len(Traffic) /\ Len(Traffic) \in Nat /\ \A m \in 1 .. Len(Traffic) : Traffic[m] \in Sort
  BY <1>3, LenProperties, ElementOfSeq DEF Messages
<1>5. \A m \in Messages : Traffic[m].q \in Channels /\ Traffic[m].src \in Tile
  BY <1>4 DEF Sort
<1>6. Messages \subseteq Nat
  BY <1>4
<1>7. QED
  BY <1>1, <1>2, <1>5, <1>6 DEF Params, Size

LEMMA Flits ==
  ASSUME NEW f \in Flit
  PROVE  /\ f[1] \in Messages /\ f[2] \in Place /\ f[2] <= Size(f[1])
         /\ f = <<f[1], f[2]>> /\ f \in Mark
<1>1. f \in Messages \X (1 .. 3) /\ f[2] <= Size(f[1])
  BY DEF Flit
<1>2. f[1] \in Messages /\ f[2] \in 1 .. 3 /\ f = <<f[1], f[2]>>
  BY <1>1
<1>3. f[1] \in Nat
  BY <1>2, Lengths
<1>4. <<f[1], f[2]>> \in Nat \X (1 .. 3)
  BY <1>2, <1>3
<1>5. QED
  BY <1>1, <1>2, <1>4 DEF Place, Mark

(* A message can follow any end of a message.                              *)
LEMMA SameStart ==
  ASSUME NEW f, NEW g, NEW s, NEW n, f[2] = n, g[2] = n, InOrder(f, s, n)
  PROVE  InOrder(g, s, n)
BY DEF InOrder, Follows

(* An output takes flits from an input it is open to, or from an input it  *)
(* was granted to.                                                         *)
May(t, d, q, o) ==
  /\ o \in Inputs /\ queue[<<t, o, q>>] # <<>> /\ ~cannot_fit_two(Fed(t, d, q))
  /\ \/ open[<<t, d, q>>] = o
     \/ /\ open[<<t, d, q>>] = "none" /\ MayStart(t, q, d, o)
        /\ IsHead(Head(queue[<<t, o, q>>])) /\ PortOf(t, q, Head(queue[<<t, o, q>>]), o) = d

LEMMA Least ==
  ASSUME NEW T \in SUBSET Nat, T # {}
  PROVE  \E x \in T : \A y \in T : x <= y
<1>1. PICK x \in T : \A y \in T : ~ (<<y, x>> \in OpToRel(<, Nat))
  BY NatLessThanWellFounded, WFMin
<1>2. \A y \in T : ~ (y < x)
  BY <1>1 DEF OpToRel
<1>3. QED
  BY <1>2

LEMMA Turns ==
  /\ \A d \in Outputs : Index(d) \in 0 .. 10
  /\ \A T \in SUBSET (0 .. 10) : T # {} => Max(T) \in 0 .. 10
  /\ \A n \in Int : n % DIRECTIONS \in 0 .. DIRECTIONS - 1
  /\ 0 .. DIRECTIONS - 1 \subseteq Nat /\ 0 \in 0 .. DIRECTIONS - 1
<1>1. \A d \in Outputs : Index(d) \in 0 .. 10
  BY DEF Outputs, Index
<1>2. ASSUME NEW T \in SUBSET (0 .. 10), T # {}
      PROVE  Max(T) \in 0 .. 10
  <2> DEFINE Rest == {10 - y : y \in T}
  <2>7. \A y \in T : y \in Int /\ 0 <= y /\ y <= 10
    BY <1>2
  <2>1. Rest \in SUBSET Nat /\ Rest # {}
    <3>1. \A y \in T : 10 - y \in Nat
      BY <2>7
    <3>2. QED
      BY <1>2, <3>1
  <2>2. PICK r \in Rest : \A z \in Rest : r <= z
    BY <2>1, Least
  <2>3. PICK x \in T : r = 10 - x
    BY <2>2
  <2>4. \A y \in T : x >= y
    <3>1. ASSUME NEW y \in T
          PROVE  x >= y
      <4>1. 10 - y \in Rest
        OBVIOUS
      <4>2. 10 - x <= 10 - y
        BY <2>2, <2>3, <4>1
      <4>3. QED
        BY <2>7, <4>2
    <3>2. QED
      BY <3>1
  <2>5. Max(T) \in T
    BY <2>4 DEF Max
  <2>6. QED
    BY <2>5
<1>3. /\ \A n \in Int : n % DIRECTIONS \in 0 .. DIRECTIONS - 1
      /\ 0 .. DIRECTIONS - 1 \subseteq Nat /\ 0 \in 0 .. DIRECTIONS - 1
  BY DEF DIRECTIONS
<1>4. QED
  BY <1>1, <1>2, <1>3

LEMMA Grants ==
  ASSUME NEW t \in Tile, NEW q \in Channels, NEW seen \in SUBSET Inputs, NEW d \in Outputs,
         next_d \in [Tile \X Channels -> 0 .. DIRECTIONS - 1], Granted(t, q, seen, d) # "none"
  PROVE  Granted(t, q, seen, d) \in Wants(t, q, seen, d)
<1> DEFINE W == Wants(t, q, seen, d)
<1>1. W # {} /\ W \subseteq seen
  BY DEF Granted, Wants
<1>2. \A o \in W : Rank(t, q, o) \in Nat
  <2>1. ASSUME NEW o \in W
        PROVE  Rank(t, q, o) \in Nat
    <3>1. o \in Outputs
      BY <1>1 DEF Inputs, Outputs
    <3>2. Index(o) - next_d[<<t, q>>] \in Int
      BY <3>1, Turns
    <3>3. QED
      BY <3>2, Turns DEF Rank
  <2>2. QED
    BY <2>1
<1> HIDE DEF W
<1> DEFINE R == {Rank(t, q, p) : p \in W}
<1>3. R \in SUBSET Nat /\ R # {}
  BY <1>1, <1>2
<1>4. PICK r \in R : \A z \in R : r <= z
  BY <1>3, Least
<1>5. PICK o \in W : r = Rank(t, q, o)
  BY <1>4
<1>6. \A p \in W : Rank(t, q, o) <= Rank(t, q, p)
  BY <1>4, <1>5
<1>7. Granted(t, q, seen, d) = CHOOSE a \in W : \A p \in W : Rank(t, q, a) <= Rank(t, q, p)
  BY <1>1 DEF Granted, W
<1>8. QED
  BY <1>5, <1>6, <1>7 DEF W

LEMMA Sources ==
  ASSUME NEW t \in Tile, NEW q \in Channels, NEW seen \in SUBSET Occupied(t, q), NEW d \in Outputs,
         next_d \in [Tile \X Channels -> 0 .. DIRECTIONS - 1], Source(t, q, seen, d) # "none"
  PROVE  May(t, d, q, Source(t, q, seen, d))
<1>1. \A o \in seen : o \in Inputs /\ queue[<<t, o, q>>] # <<>>
  BY DEF Occupied
<1>2. CASE open[<<t, d, q>>] # "none"
  BY <1>1, <1>2 DEF Source, May
<1>3. CASE open[<<t, d, q>>] = "none"
  <2> DEFINE g == Granted(t, q, seen, d)
  <2>1. /\ Source(t, q, seen, d) = g /\ g # "none" /\ MayStart(t, q, d, g)
        /\ ~cannot_fit_two(Fed(t, d, q))
    BY <1>3 DEF Source
  <2>2. g \in Wants(t, q, seen, d)
    BY <1>1, <2>1, Grants
  <2>3. /\ g \in seen /\ IsHead(Head(queue[<<t, g, q>>]))
        /\ PortOf(t, q, Head(queue[<<t, g, q>>]), g) = d
    BY <2>2 DEF Wants
  <2> HIDE DEF g
  <2>4. QED
    BY <1>1, <1>3, <2>1, <2>3 DEF May
<1>4. QED
  BY <1>2, <1>3

(* What an output takes from an input that it may take from: the flits T   *)
(* in front of the queue s, which continue what the output fed last; with  *)
(* proxies, a whole message for the core.                                  *)
Continues(gone, t, q, d, o, s, T, l) ==
  /\ T \in Seq(Flit) /\ Len(T) \in 1 .. Len(s) /\ \A i \in 1 .. Len(T) : T[i] = s[i]
  /\ Len(T) = 1 \/ (Len(T) = 2 /\ s[1][2] # Params(q))
  /\ InOrder(Newest(gone, Fed(t, d, l)), T, Params(q))
  /\ \A f : LastOf(f, T) = s[Len(T)]
  /\ l \in Channels /\ Params(l) = Params(q) /\ (~t3_to_core(q, d) => l = q)
  /\ Holder(t, q, d, o) = IF s[Len(T)][2] = Params(q) THEN "none" ELSE o
  /\ t3_to_core(q, d) => s[Len(T)][2] = Params(q) /\ t3_to_core(l, d)
  /\ gone[<<t, o, q>>][2] # Params(q) => open[<<t, d, q>>] = o

LEMMA TakenFlits ==
  ASSUME NEW gone, RInv(gone), NEW t \in Tile, NEW q \in Channels, NEW d \in Outputs, NEW o,
         May(t, d, q, o),
         NEW s, s = queue[<<t, o, q>>], NEW T, T = Taken(t, q, d, o), NEW l, l = Lane(t, q, d, o)
  PROVE  Continues(gone, t, q, d, o, s, T, l)
<1> DEFINE k == <<t, o, q>>
           n == Params(q)
           Both == Len(s) > 1 /\ ~IsTail(s[1]) /\ (q \in wide_noc \/ t3_to_core(q, d))
           j == IF Both THEN 2 ELSE 1
<1>1. k \in Queues /\ o \in Inputs /\ o # "none" /\ k[3] = q
  BY DEF May, Queues, Inputs
<1>2. /\ gone[k] \in Mark /\ s \in Seq(Flit) /\ QueueOrdered(gone, k)
      /\ OutputHeld(gone, t, d, q) /\ InOnePiece
  BY <1>1 DEF RInv, Typed
<1>3. s # <<>> /\ Len(s) \in Nat /\ Len(s) >= 1 /\ Head(s) = s[1]
  <2>1. s # <<>>
    BY DEF May
  <2>2. Len(s) \in Nat \ {0}
    BY <1>2, <2>1, EmptySeq
  <2>3. QED
    BY <1>2, <2>1, <2>2
<1>4. \A i \in 1 .. Len(s) : s[i] \in Flit /\ Size(s[i][1]) = n /\ s[i][2] \in Place
  <2>1. \A i \in 1 .. Len(s) : s[i] \in Flit
    BY <1>2, ElementOfSeq
  <2>2. \A i \in 1 .. Len(s) : Size(s[i][1]) = n
    BY <1>1, <1>2 DEF QueueOrdered
  <2>3. QED
    BY <2>1, <2>2, Flits
<1>5. InOrder(gone[k], s, n)
  BY <1>1, <1>2 DEF QueueOrdered
<1>6. T = SubSeq(s, 1, j)
  BY DEF Taken
<1>7. j \in 1 .. Len(s)
  BY <1>3
<1> HIDE DEF j
<1>8. /\ T \in Seq(Flit) /\ Len(T) = j /\ \A i \in 1 .. j : T[i] = s[i]
      /\ InOrder(gone[k], T, n)
  <2> HIDE DEF n, k
  <2>1. QED
    BY <1>2, <1>5, <1>6, <1>7, TakeOrder
<1>9. \A f : LastOf(f, T) = s[Len(T)]
  <2>1. T # <<>> /\ T[Len(T)] = s[Len(T)]
    BY <1>7, <1>8, EmptySeq
  <2>2. QED
    BY <2>1 DEF LastOf
<1>10. Holder(t, q, d, o) = IF s[Len(T)][2] = n THEN "none" ELSE o
  <2>1. Last(T) = s[Len(T)] /\ Size(s[Len(T)][1]) = n
    BY <1>4, <1>7, <1>8 DEF Last
  <2>2. QED
    BY <2>1 DEF Holder, IsTail
<1>11. n \in {2, 3} /\ gone[k][2] \in Place
  BY <1>2, Lengths DEF Mark
<1>12. Len(T) = 1 \/ (Len(T) = 2 /\ s[1][2] # n)
  <2>1. Size(s[1][1]) = n
    BY <1>3, <1>4
  <2>2. j = 1 \/ (j = 2 /\ ~IsTail(s[1]))
    BY DEF j
  <2> HIDE DEF n
  <2>3. QED
    BY <1>8, <2>1, <2>2 DEF IsTail
<1>13. CASE open[<<t, d, q>>] = o
  <2>1. ~t3_to_core(q, d)
    BY <1>1, <1>2, <1>13 DEF InOnePiece, t3_to_core
  <2>2. l = q
    BY <2>1 DEF Lane
  <2>3. gone[k] = Newest(gone, Fed(t, d, q))
    BY <1>1, <1>2, <1>13 DEF OutputHeld
  <2>4. QED
    BY <1>7, <1>8, <1>9, <1>10, <1>12, <1>13, <2>1, <2>2, <2>3 DEF Continues
<1>14. CASE open[<<t, d, q>>] # o
  <2>1. open[<<t, d, q>>] = "none" /\ MayStart(t, q, d, o) /\ s[1][2] = 1
    BY <1>3, <1>14 DEF May, IsHead
  <2>2. gone[k][2] = n
    <3>1. Follows(gone[k], s[1], n)
      BY <1>3, <1>5 DEF InOrder
    <3>2. ASSUME gone[k][2] # n
          PROVE  FALSE
      <4>1. s[1] = <<gone[k][1], gone[k][2] + 1>>
        BY <3>1, <3>2 DEF Follows
      <4>2. s[1][2] = gone[k][2] + 1
        BY <4>1
      <4>3. QED
        BY <1>11, <2>1, <4>2 DEF Place
    <3>3. QED
      BY <3>2
  <2>3. /\ l \in Channels /\ Params(l) = n /\ (~t3_to_core(q, d) => l = q)
        /\ Newest(gone, Fed(t, d, l))[2] = n
    <3>1. CASE ~t3_to_core(q, d)
      <4>1. l = q
        BY <3>1 DEF Lane
      <4>2. Newest(gone, Fed(t, d, q))[2] = n
        BY <1>2, <2>1 DEF OutputHeld
      <4>3. QED
        BY <3>1, <4>1, <4>2
    <3>2. CASE t3_to_core(q, d)
      <4>1. d = "C" /\ q \in {2, 3} /\ l \in {2, 3}
        BY <3>2 DEF Lane, t3_to_core
      <4>2. l \in Channels /\ Params(l) = n
        BY <4>1, Lengths DEF Channels
      <4>3. open[<<t, d, l>>] = "none"
        <5>1. t3_to_core(l, "C")
          BY <3>2, <4>1 DEF t3_to_core
        <5>2. QED
          BY <1>2, <4>1, <4>2, <5>1 DEF InOnePiece
      <4>4. OutputHeld(gone, t, d, l)
        BY <4>2 DEF RInv
      <4>5. QED
        BY <3>2, <4>2, <4>3, <4>4 DEF OutputHeld
    <3>3. QED
      BY <3>1, <3>2
  <2>4. InOrder(Newest(gone, Fed(t, d, l)), T, n)
    BY <1>8, <2>2, <2>3, SameStart
  <2>5. ASSUME t3_to_core(q, d)
        PROVE  s[Len(T)][2] = n /\ t3_to_core(l, d)
    <3>1. n = 2 /\ Len(s) > 1
      BY <2>1, <2>5, Lengths DEF t3_to_core, MayStart
    <3>2. ~IsTail(s[1])
      BY <1>3, <1>4, <2>1, <3>1 DEF IsTail
    <3>3. Len(T) = 2
      BY <1>8, <2>5, <3>1, <3>2 DEF j
    <3>4. Follows(s[1], s[2], n)
      BY <1>3, <1>5, <3>1 DEF InOrder
    <3>5. s[2] = <<s[1][1], s[1][2] + 1>>
      BY <2>1, <3>1, <3>4 DEF Follows
    <3>6. s[2][2] = 2
      BY <2>1, <3>5
    <3>7. t3_to_core(l, d)
      BY <2>5 DEF Lane, t3_to_core
    <3>8. QED
      BY <3>1, <3>3, <3>6, <3>7
  <2>6. QED
    BY <1>7, <1>8, <1>9, <1>10, <1>12, <2>2, <2>3, <2>4, <2>5 DEF Continues
<1>15. QED
  BY <1>13, <1>14

(* No two outputs take from an input, nor one from an input that another   *)
(* holds.                                                                  *)
LEMMA OneTaker ==
  ASSUME NEW gone, RInv(gone), NEW t \in Tile, NEW q \in Channels, NEW d \in Outputs, NEW e \in Outputs,
         NEW o, May(t, d, q, o), May(t, e, q, o) \/ open[<<t, e, q>>] = o
  PROVE  d = e
<1>1. o \in Inputs /\ o # "none"
  BY DEF May, Inputs
<1>2. OutputHeld(gone, t, d, q) /\ OutputHeld(gone, t, e, q) /\ InputHolds(gone, t, o, q)
  BY <1>1 DEF RInv
<1>3. \A c \in Outputs : May(t, c, q, o) /\ gone[<<t, o, q>>][2] # Params(q) => open[<<t, c, q>>] = o
  BY TakenFlits DEF Continues
<1>4. \A c \in {d, e} : open[<<t, c, q>>] = o => gone[<<t, o, q>>][2] # Params(q)
  BY <1>1, <1>2 DEF OutputHeld
<1>5. CASE open[<<t, d, q>>] = o
  <2>1. open[<<t, e, q>>] = o
    BY <1>3, <1>4, <1>5
  <2>2. QED
    BY <1>2, <1>5, <2>1 DEF InputHolds
<1>6. CASE open[<<t, d, q>>] # o
  <2>1. May(t, e, q, o) /\ open[<<t, e, q>>] # o
    BY <1>3, <1>4, <1>6
  <2>2. QED
    BY <1>6, <2>1 DEF May
<1>7. QED
  BY <1>5, <1>6

(* What a step of a router does to the queues: output d takes the flits    *)
(* tk[d] from its input and puts them in channel to[d], each of its own.   *)
Shifted(gone, t, q, from, used, to, tk) ==
  /\ queue' = [k \in Queues |-> queue'[k]]
  /\ \A d \in used :
       /\ Continues(gone, t, q, d, from[d], queue[<<t, from[d], q>>], tk[d], to[d])
       /\ tk[d] = Taken(t, q, d, from[d]) /\ to[d] = Lane(t, q, d, from[d])
       /\ queue'[<<t, from[d], q>>] =
            SubSeq(queue[<<t, from[d], q>>], Len(tk[d]) + 1, Len(queue[<<t, from[d], q>>]))
       /\ queue'[Fed(t, d, to[d])] = queue[Fed(t, d, to[d])] \o tk[d]
       /\ <<t, from[d], q>> \in Queues /\ <<t, from[d], q>>[2] # "IQ"
       /\ Fed(t, d, to[d]) \in Queues /\ Fed(t, d, to[d])[3] = to[d] /\ Fed(t, d, to[d])[2] # "C"
  /\ \A d, e \in used : /\ <<t, from[d], q>> = <<t, from[e], q>> => d = e
                        /\ Fed(t, d, to[d]) = Fed(t, e, to[e]) => d = e
                        /\ Fed(t, d, to[d]) # <<t, from[e], q>>
  /\ \A k \in Queues :
       (\A d \in used : k # <<t, from[d], q>> /\ k # Fed(t, d, to[d])) => queue'[k] = queue[k]

(* Of the flits that left last, next is what is so after it, and last[d]   *)
(* the last that output d takes.                                           *)
Used(from) == {d \in Outputs : from[d] # "none"}
Moved(gone, next, t, q, from, used, to, last) ==
  /\ next \in [Queues -> Mark] /\ queue' \in [Queues -> Seq(Flit)]
  /\ \A k \in Queues :
       /\ QueueOrdered(next, k)'
       /\ (\A d \in used : k # <<t, from[d], q>>) => next[k] = gone[k]
       /\ (\A d \in used : k # Fed(t, d, to[d])) => Newest(next, k)' = Newest(gone, k)
  /\ \A d \in used :
       /\ next[<<t, from[d], q>>] = last[d] /\ Newest(next, Fed(t, d, to[d]))' = last[d]
       /\ to[d] \in Channels /\ Params(to[d]) = Params(q) /\ (~t3_to_core(q, d) => to[d] = q)
       /\ t3_to_core(q, d) => last[d][2] = Params(q) /\ t3_to_core(to[d], d)
       /\ Holder(t, q, d, from[d]) = IF last[d][2] = Params(q) THEN "none" ELSE from[d]

LEMMA MoveFlits ==
  ASSUME NEW gone, RInv(gone), NEW t \in Tile, NEW q \in Channels, NEW from,
         NEW used, used = Used(from),
         \A d \in used : May(t, d, q, from[d]), Move(t, q, from)
  PROVE  \E to, tk : Shifted(gone, t, q, from, used, to, tk)
<1>1. PICK tk : tk = [d \in used |-> Taken(t, q, d, from[d])]
  OBVIOUS
<1>2. PICK to : to = [d \in used |-> Lane(t, q, d, from[d])]
  OBVIOUS
<1> DEFINE From(d) == <<t, from[d], q>>
           To(d) == Fed(t, d, to[d])
<1>3. ASSUME NEW d \in used
      PROVE  /\ d \in Outputs /\ from[d] \in Inputs /\ From(d) \in Queues /\ From(d)[2] # "IQ"
             /\ Continues(gone, t, q, d, from[d], queue[From(d)], tk[d], to[d]) /\ to[d] \in Channels
  <2>1. d \in Outputs /\ May(t, d, q, from[d]) /\ from[d] \in Inputs
    BY DEF Used, May
  <2>2. From(d) \in Queues /\ From(d)[2] # "IQ"
    BY <2>1 DEF Queues, Inputs
  <2>3. tk[d] = Taken(t, q, d, from[d]) /\ to[d] = Lane(t, q, d, from[d])
    BY <1>1, <1>2
  <2>4. Continues(gone, t, q, d, from[d], queue[<<t, from[d], q>>], tk[d], to[d])
    BY <2>1, <2>3, TakenFlits
  <2>5. to[d] \in Channels
    BY <2>4 DEF Continues
  <2>6. QED
    BY <2>1, <2>2, <2>4, <2>5
<1>4. /\ \A d, e \in used : From(d) = From(e) => d = e
      /\ \A d, e \in used : To(d) = To(e) => d = e
      /\ \A d, e \in used : To(d) # From(e)
      /\ \A d \in used : To(d) \in Queues /\ To(d)[3] = to[d] /\ To(d)[2] # "C"
  <2>1. ASSUME NEW d \in used, NEW e \in used, From(d) = From(e)
        PROVE  d = e
    <3>1. from[d] = from[e] /\ d \in Outputs /\ e \in Outputs
      BY <2>1 DEF Used
    <3>2. May(t, d, q, from[d]) /\ May(t, e, q, from[d])
      BY <3>1
    <3>3. QED
      BY <3>1, <3>2, OneTaker
  <2>2. ASSUME NEW d \in used, NEW e \in used
        PROVE  /\ To(d) = To(e) => d = e
               /\ To(d) # From(e)
               /\ To(d) \in Queues /\ To(d)[3] = to[d] /\ To(d)[2] # "C"
    <3>1. d \in Outputs /\ e \in Outputs /\ to[d] \in Channels /\ to[e] \in Channels /\ from[e] \in Inputs
      BY <1>3
    <3>2. QED
      BY <3>1, FedApart
  <2>3. QED
    BY <2>1, <2>2
<1> DEFINE Took(d) == Taken(t, q, d, from[d])
           Rest(d) == SubSeq(queue[From(d)], Len(Took(d)) + 1, Len(queue[From(d)]))
           Fill(d) == Fed(t, d, Lane(t, q, d, from[d]))
<1>5. /\ \A d \in used : Took(d) = tk[d] /\ Fill(d) = To(d)
      /\ queue' = [k \in Queues |->
                     IF k \in {From(d) : d \in used} THEN Rest(CHOOSE d \in used : k = From(d))
                     ELSE IF k \in {Fill(d) : d \in used}
                          THEN queue[k] \o Took(CHOOSE e \in used : k = Fill(e))
                     ELSE queue[k]]
  <2>1. \A d \in used : Took(d) = tk[d] /\ Fill(d) = To(d)
    BY <1>1, <1>2
  <2>2. QED
    BY <2>1 DEF Move, Used
<1>6. ASSUME NEW d \in used
      PROVE  queue'[From(d)] = SubSeq(queue[From(d)], Len(tk[d]) + 1, Len(queue[From(d)]))
  <2>1. (CHOOSE e \in used : From(d) = From(e)) = d
    BY <1>4
  <2>2. From(d) \in {From(e) : e \in used} /\ From(d) \in Queues
    BY <1>3
  <2> HIDE DEF From, To, Fill, Took
  <2>3. QED
    BY <1>5, <2>1, <2>2
<1>7. ASSUME NEW d \in used
      PROVE  queue'[To(d)] = queue[To(d)] \o tk[d]
  <2>1. (CHOOSE e \in used : To(d) = Fill(e)) = d
    BY <1>4, <1>5
  <2>2. To(d) \in {Fill(e) : e \in used} /\ To(d) \in Queues /\ To(d) \notin {From(e) : e \in used}
    BY <1>4, <1>5
  <2> HIDE DEF From, To, Fill, Took, Rest
  <2>3. QED
    BY <1>5, <2>1, <2>2
<1>8. ASSUME NEW k \in Queues, \A d \in used : k # From(d) /\ k # To(d)
      PROVE  queue'[k] = queue[k]
  <2> HIDE DEF From, To, Fill, Took, Rest
  <2>1. k \notin {From(d) : d \in used} /\ k \notin {Fill(d) : d \in used}
    BY <1>5, <1>8
  <2>2. QED
    BY <1>5, <2>1
<1>9. queue' = [k \in Queues |-> queue'[k]]
  <2> HIDE DEF From, To, Fill, Took, Rest
  <2>1. QED
    BY <1>5
<1>10. Shifted(gone, t, q, from, used, to, tk)
  <2>1. \A d \in used : tk[d] = Taken(t, q, d, from[d]) /\ to[d] = Lane(t, q, d, from[d])
    BY <1>1, <1>2
  <2>2. \A d \in used : /\ Continues(gone, t, q, d, from[d], queue[From(d)], tk[d], to[d])
                        /\ From(d) \in Queues /\ From(d)[2] # "IQ"
    BY <1>3
  <2>3. \A k \in Queues : (\A d \in used : k # From(d) /\ k # To(d)) => queue'[k] = queue[k]
    BY <1>8
  <2> HIDE DEF Took, Rest, Fill
  <2>4. \A d, e \in used : /\ From(d) = From(e) => d = e
                           /\ To(d) = To(e) => d = e
                           /\ To(d) # From(e)
    BY <1>4
  <2>5. \A d \in used : /\ To(d) \in Queues /\ To(d)[3] = to[d] /\ To(d)[2] # "C"
                        /\ queue'[From(d)] = SubSeq(queue[From(d)], Len(tk[d]) + 1, Len(queue[From(d)]))
                        /\ queue'[To(d)] = queue[To(d)] \o tk[d]
    BY <1>4, <1>6, <1>7
  <2>6. QED
    BY <1>9, <2>1, <2>2, <2>3, <2>4, <2>5 DEF Shifted
<1>11. QED
  BY <1>10

LEMMA MoveQueues ==
  ASSUME NEW gone, RInv(gone), NEW t \in Tile, NEW q \in Channels, NEW from, NEW used,
         NEW to, NEW tk, Shifted(gone, t, q, from, used, to, tk)
  PROVE  \E next, last : Moved(gone, next, t, q, from, used, to, last)
<1> DEFINE last == [d \in used |-> tk[d][Len(tk[d])]]
           From(d) == <<t, from[d], q>>
           To(d) == Fed(t, d, to[d])
<1>1. ASSUME NEW d \in used
      PROVE  /\ From(d) \in Queues /\ From(d)[2] # "IQ" /\ From(d)[3] = q
             /\ tk[d] \in Seq(Flit) /\ Len(tk[d]) \in 1 .. Len(queue[From(d)])
             /\ \A i \in 1 .. Len(tk[d]) : tk[d][i] = queue[From(d)][i]
             /\ InOrder(Newest(gone, To(d)), tk[d], Params(q))
             /\ \A f : LastOf(f, tk[d]) = last[d]
             /\ last[d] = queue[From(d)][Len(tk[d])]
             /\ to[d] \in Channels /\ Params(to[d]) = Params(q) /\ (~t3_to_core(q, d) => to[d] = q)
             /\ Holder(t, q, d, from[d]) = IF last[d][2] = Params(q) THEN "none" ELSE from[d]
             /\ t3_to_core(q, d) => last[d][2] = Params(q) /\ t3_to_core(to[d], d)
  <2> DEFINE s == queue[From(d)]
  <2>1. From(d) \in Queues /\ From(d)[2] # "IQ" /\ From(d)[3] = q
    BY DEF Shifted
  <2>2. /\ tk[d] \in Seq(Flit) /\ Len(tk[d]) \in 1 .. Len(s)
        /\ \A i \in 1 .. Len(tk[d]) : tk[d][i] = s[i]
        /\ InOrder(Newest(gone, To(d)), tk[d], Params(q))
        /\ \A f : LastOf(f, tk[d]) = s[Len(tk[d])]
        /\ to[d] \in Channels /\ Params(to[d]) = Params(q) /\ (~t3_to_core(q, d) => to[d] = q)
        /\ Holder(t, q, d, from[d]) = IF s[Len(tk[d])][2] = Params(q) THEN "none" ELSE from[d]
        /\ t3_to_core(q, d) => s[Len(tk[d])][2] = Params(q) /\ t3_to_core(to[d], d)
    <3>1. Continues(gone, t, q, d, from[d], queue[<<t, from[d], q>>], tk[d], to[d])
      BY DEF Shifted
    <3>2. QED
      BY <3>1 DEF Continues
  <2>3. last[d] = s[Len(tk[d])]
    <3>1. Len(tk[d]) \in 1 .. Len(tk[d])
      BY <2>2
    <3>2. last[d] = tk[d][Len(tk[d])]
      OBVIOUS
    <3>3. QED
      BY <2>2, <3>1, <3>2
  <2> HIDE DEF From, To, last
  <2>4. QED
    BY <2>1, <2>2, <2>3
<1>2. /\ \A d, e \in used : From(d) = From(e) => d = e
      /\ \A d, e \in used : To(d) # From(e)
      /\ \A d \in used : To(d) \in Queues /\ To(d)[3] = to[d]
  BY DEF Shifted
<1>3. queue' = [k \in Queues |-> queue'[k]]
  BY DEF Shifted
<1>4. \A d \in used : queue'[From(d)] = SubSeq(queue[From(d)], Len(tk[d]) + 1, Len(queue[From(d)]))
  BY DEF Shifted
<1>5. \A d \in used : queue'[To(d)] = queue[To(d)] \o tk[d]
  BY DEF Shifted
<1>6. ASSUME NEW k \in Queues, \A d \in used : k # From(d) /\ k # To(d)
      PROVE  queue'[k] = queue[k]
  BY <1>6 DEF Shifted
<1>7. PICK next : next = [k \in Queues |-> IF \E d \in used : k = From(d)
                                           THEN last[CHOOSE d \in used : k = From(d)] ELSE gone[k]]
  OBVIOUS
<1>8. /\ DOMAIN next = Queues
      /\ \A d \in used : next[From(d)] = last[d]
      /\ \A k \in Queues : (\A d \in used : k # From(d)) => next[k] = gone[k]
  <2>1. ASSUME NEW d \in used
        PROVE  next[From(d)] = last[d]
    <3>1. (CHOOSE e \in used : From(d) = From(e)) = d /\ From(d) \in Queues
      BY <1>1, <1>2
    <3> HIDE DEF From, last
    <3>2. QED
      BY <1>7, <3>1
  <2> HIDE DEF From, last
  <2>2. QED
    BY <1>7, <2>1
<1>9. \A k \in Queues : gone[k] \in Mark /\ queue[k] \in Seq(Flit) /\ QueueOrdered(gone, k)
  BY DEF RInv, Typed
<1> HIDE DEF From, To, last
<1>10. ASSUME NEW d \in used
       PROVE  /\ next[From(d)] \in Mark /\ queue'[From(d)] \in Seq(Flit)
              /\ QueueOrdered(next, From(d))' /\ Newest(next, From(d))' = Newest(gone, From(d))
  <2> DEFINE k == From(d)
             s == queue[k]
             j == Len(tk[d])
             r == queue'[k]
  <2>1. /\ k \in Queues /\ s \in Seq(Flit) /\ InOrder(gone[k], s, Params(k[3])) /\ k[2] # "IQ"
        /\ \A i \in 1 .. Len(s) : Size(s[i][1]) = Params(k[3])
    BY <1>1, <1>9 DEF QueueOrdered
  <2>2. j \in 1 .. Len(s) /\ s[j] = last[d] /\ r = SubSeq(s, j + 1, Len(s)) /\ next[k] = last[d]
    BY <1>1, <1>4, <1>8
  <2> HIDE DEF k, s, j, r
  <2>3. r \in Seq(Flit) /\ InOrder(s[j], r, Params(k[3])) /\ LastOf(s[j], r) = LastOf(gone[k], s)
    BY <2>1, <2>2, PopOrder
  <2>4. s[j] \in Flit /\ Size(s[j][1]) = Params(k[3])
    BY <2>1, <2>2, ElementOfSeq
  <2>5. \A i \in 1 .. Len(r) : Size(r[i][1]) = Params(k[3])
    <3>1. \A i \in 1 .. Len(r) : i + j \in 1 .. Len(s) /\ r[i] = s[i + j]
      BY <2>1, <2>2, Popped
    <3>2. QED
      BY <2>1, <3>1
  <2>6. s[j][2] <= Params(k[3]) /\ s[j] \in Mark
    BY <2>4, Flits
  <2>7. QueueOrdered(next, k)'
    BY <2>1, <2>2, <2>3, <2>5, <2>6 DEF QueueOrdered, r
  <2>8. Newest(next, k)' = Newest(gone, k)
    BY <2>2, <2>3 DEF Newest, r, s
  <2>9. QED
    BY <2>2, <2>3, <2>6, <2>7, <2>8 DEF k, r
<1>11. ASSUME NEW d \in used
       PROVE  /\ next[To(d)] \in Mark /\ queue'[To(d)] \in Seq(Flit)
              /\ QueueOrdered(next, To(d))' /\ Newest(next, To(d))' = last[d]
  <2> DEFINE k == To(d)
             s == queue[k]
             u == tk[d]
             r == queue'[k]
  <2>1. /\ k \in Queues /\ gone[k] \in Mark /\ gone[k][2] <= Params(k[3])
        /\ s \in Seq(Flit) /\ InOrder(gone[k], s, Params(k[3])) /\ (k[2] = "IQ" => gone[k][2] = Params(k[3]))
        /\ \A i \in 1 .. Len(s) : Size(s[i][1]) = Params(k[3])
    BY <1>2, <1>9 DEF QueueOrdered
  <2>2. r = s \o u /\ next[k] = gone[k]
    BY <1>2, <1>5, <1>8
  <2>3. /\ u \in Seq(Flit) /\ InOrder(LastOf(gone[k], s), u, Params(k[3]))
        /\ LastOf(LastOf(gone[k], s), u) = last[d]
    <3>1. k[3] = to[d] /\ Params(k[3]) = Params(q)
      BY <1>1, <1>2
    <3>2. /\ u \in Seq(Flit) /\ InOrder(Newest(gone, k), u, Params(q))
          /\ \A f : LastOf(f, u) = last[d]
      BY <1>1
    <3> HIDE DEF k, u
    <3>3. QED
      BY <3>1, <3>2 DEF Newest
  <2>4. \A i \in 1 .. Len(u) : Size(u[i][1]) = Params(k[3])
    <3>1. From(d) \in Queues /\ Params(From(d)[3]) = Params(k[3])
      BY <1>1, <1>2
    <3>2. \A i \in 1 .. Len(queue[From(d)]) : Size(queue[From(d)][i][1]) = Params(k[3])
      BY <1>9, <3>1 DEF QueueOrdered
    <3>3. Len(queue[From(d)]) \in Nat
      BY <1>9, <3>1, LenProperties
    <3>4. ASSUME NEW i \in 1 .. Len(u)
          PROVE  Size(u[i][1]) = Params(k[3])
      <4>1. i \in 1 .. Len(queue[From(d)])
        BY <1>1, <3>3
      <4>2. u[i] = queue[From(d)][i]
        BY <1>1
      <4>3. QED
        BY <3>2, <4>1, <4>2
    <3>5. QED
      BY <3>4
  <2> HIDE DEF k, s, u, r
  <2>5. /\ r \in Seq(Flit) /\ InOrder(gone[k], r, Params(k[3]))
        /\ LastOf(gone[k], r) = last[d]
    BY <2>1, <2>2, <2>3, AppendOrder
  <2>6. \A i \in 1 .. Len(r) : Size(r[i][1]) = Params(k[3])
    <3>1. Len(s) \in Nat /\ Len(u) \in Nat
      BY <2>1, <2>3, LenProperties
    <3>2. /\ Len(r) = Len(s) + Len(u)
          /\ \A i \in 1 .. Len(s) + Len(u) : r[i] = IF i <= Len(s) THEN s[i] ELSE u[i - Len(s)]
      BY <2>1, <2>2, <2>3, ConcatProperties
    <3>3. ASSUME NEW i \in 1 .. Len(r)
          PROVE  Size(r[i][1]) = Params(k[3])
      <4>1. CASE i <= Len(s)
        <5>1. i \in 1 .. Len(s) /\ r[i] = s[i]
          BY <3>1, <3>2, <4>1
        <5>2. QED
          BY <2>1, <5>1
      <4>2. CASE ~(i <= Len(s))
        <5>1. i - Len(s) \in 1 .. Len(u) /\ r[i] = u[i - Len(s)]
          BY <3>1, <3>2, <4>2
        <5>2. QED
          BY <2>4, <5>1
      <4>3. QED
        BY <4>1, <4>2
    <3>4. QED
      BY <3>3
  <2>7. QueueOrdered(next, k)'
    BY <2>1, <2>2, <2>5, <2>6 DEF QueueOrdered, r
  <2>8. Newest(next, k)' = last[d]
    BY <2>2, <2>5 DEF Newest, r
  <2>9. QED
    BY <2>1, <2>2, <2>5, <2>7, <2>8 DEF k, r
<1>12. ASSUME NEW k \in Queues, \A d \in used : k # From(d) /\ k # To(d)
       PROVE  /\ next[k] \in Mark /\ queue'[k] \in Seq(Flit)
              /\ QueueOrdered(next, k)' /\ Newest(next, k)' = Newest(gone, k)
  <2>1. next[k] = gone[k] /\ queue'[k] = queue[k]
    BY <1>6, <1>8, <1>12
  <2>2. QED
    BY <1>9, <2>1 DEF QueueOrdered, Newest
<1>13. \A k \in Queues : /\ next[k] \in Mark /\ queue'[k] \in Seq(Flit) /\ QueueOrdered(next, k)'
                         /\ (\A d \in used : k # To(d)) => Newest(next, k)' = Newest(gone, k)
  BY <1>10, <1>11, <1>12
<1>14. next \in [Queues -> Mark] /\ queue' \in [Queues -> Seq(Flit)]
  <2>1. next = [k \in Queues |-> next[k]]
    BY <1>7
  <2>2. QED
    BY <1>3, <1>13, <2>1
<1>15. Moved(gone, next, t, q, from, used, to, last)
  BY <1>1, <1>8, <1>11, <1>13, <1>14 DEF Moved, From, To
<1>16. QED
  BY <1>15

(* The step keeps the rest of the invariant.                               *)
LEMMA MoveKeeps ==
  ASSUME NEW gone, RInv(gone), NEW t \in Tile, NEW q \in Channels, NEW from,
         NEW used, used = Used(from),
         \A d \in used : May(t, d, q, from[d]), Move(t, q, from),
         NEW next, NEW to, NEW last, Moved(gone, next, t, q, from, used, to, last)
  PROVE  RInv(next)'
<1>1. ASSUME NEW d \in used
      PROVE  /\ d \in Outputs /\ from[d] \in Inputs /\ from[d] # "none" /\ May(t, d, q, from[d])
             /\ open[<<t, d, q>>] \in {"none", from[d]}
             /\ next[<<t, from[d], q>>] = last[d] /\ Newest(next, Fed(t, d, to[d]))' = last[d]
             /\ to[d] \in Channels /\ Params(to[d]) = Params(q) /\ (~t3_to_core(q, d) => to[d] = q)
             /\ t3_to_core(q, d) => last[d][2] = Params(q) /\ t3_to_core(to[d], d)
             /\ Holder(t, q, d, from[d]) = IF last[d][2] = Params(q) THEN "none" ELSE from[d]
  <2>1. d \in Outputs /\ from[d] # "none" /\ May(t, d, q, from[d])
    BY DEF Used
  <2>2. from[d] \in Inputs /\ open[<<t, d, q>>] \in {"none", from[d]}
    BY <2>1 DEF May
  <2>3. QED
    BY <2>1, <2>2 DEF Moved
<1>2. /\ open \in [Tile \X Outputs \X Channels -> Inputs \union {"none"}]
      /\ next_d \in [Tile \X Channels -> 0 .. DIRECTIONS - 1] /\ sent' = sent /\ InOnePiece
  BY DEF RInv, Typed, Move
<1>3. /\ open' \in [Tile \X Outputs \X Channels -> Inputs \union {"none"}]
      /\ \A u \in Tile, d \in Outputs, r \in Channels :
           open'[<<u, d, r>>] = IF u = t /\ r = q /\ d \in used
                                THEN (IF last[d][2] = Params(q) THEN "none" ELSE from[d])
                                ELSE open[<<u, d, r>>]
  <2>1. open' = [k \in Tile \X Outputs \X Channels |->
                  IF k[1] = t /\ k[3] = q /\ k[2] \in used THEN Holder(t, q, k[2], from[k[2]]) ELSE open[k]]
    BY <1>2 DEF Move, Used
  <2>2. \A k \in Tile \X Outputs \X Channels :
          (IF k[1] = t /\ k[3] = q /\ k[2] \in used THEN Holder(t, q, k[2], from[k[2]]) ELSE open[k])
            \in Inputs \union {"none"}
    BY <1>1, <1>2
  <2>3. open' \in [Tile \X Outputs \X Channels -> Inputs \union {"none"}]
    BY <2>1, <2>2
  <2>4. ASSUME NEW u \in Tile, NEW d \in Outputs, NEW r \in Channels
        PROVE  open'[<<u, d, r>>] = IF u = t /\ r = q /\ d \in used
                                    THEN (IF last[d][2] = Params(q) THEN "none" ELSE from[d])
                                    ELSE open[<<u, d, r>>]
    <3>1. open'[<<u, d, r>>] = IF u = t /\ r = q /\ d \in used THEN Holder(t, q, d, from[d])
                               ELSE open[<<u, d, r>>]
      BY <2>1
    <3>2. QED
      BY <1>1, <3>1
  <2>5. QED
    BY <2>3, <2>4
<1>4. next_d' \in [Tile \X Channels -> 0 .. DIRECTIONS - 1]
  <2> DEFINE new == {d \in used : open[<<t, d, q>>] = "none"}
             n == (Max({Index(d) : d \in new}) + 1) % DIRECTIONS
  <2>1. next_d' = IF new = {} THEN next_d ELSE [next_d EXCEPT ![<<t, q>>] = n]
    BY DEF Move, Used
  <2>2. new # {} => n \in 0 .. DIRECTIONS - 1
    <3>1. \A d \in new : Index(d) \in 0 .. 10
      BY <1>1, Turns
    <3>2. {Index(d) : d \in new} \in SUBSET (0 .. 10)
      BY <3>1
    <3>3. new # {} => Max({Index(d) : d \in new}) \in 0 .. 10
      BY <3>2, Turns
    <3>4. new # {} => Max({Index(d) : d \in new}) + 1 \in Int
      BY <3>3
    <3>5. QED
      BY <3>4, Turns
  <2> HIDE DEF new, n
  <2>3. QED
    BY <1>2, <2>1, <2>2
<1>5. Typed(next)'
  BY <1>2, <1>3, <1>4 DEF Typed, Moved, RInv
<1>6. \A k \in Queues : QueueOrdered(next, k)'
  BY DEF Moved
<1>7. ASSUME NEW u \in Tile, NEW r \in Channels, NEW o \in Inputs,
             NEW e \in Outputs, open[<<u, e, r>>] = o, ~(u = t /\ r = q /\ e \in used)
      PROVE  next[<<u, o, r>>] = gone[<<u, o, r>>]
  <2>1. <<u, o, r>> \in Queues
    BY DEF Queues, Inputs
  <2>2. ASSUME NEW d \in used, <<u, o, r>> = <<t, from[d], q>>
        PROVE  FALSE
    <3>1. u = t /\ o = from[d] /\ r = q
      BY <2>2
    <3>2. d = e
      <4>1. d \in Outputs /\ May(t, d, q, o) /\ open[<<t, e, q>>] = o
        BY <1>1, <1>7, <3>1
      <4>2. QED
        BY <4>1, OneTaker
    <3>3. QED
      BY <1>7, <3>1, <3>2
  <2>3. QED
    BY <2>1, <2>2 DEF Moved
<1>8. ASSUME NEW u \in Tile, NEW e \in Outputs, NEW r \in Channels
      PROVE  OutputHeld(next, u, e, r)'
  <2> DEFINE f == Fed(u, e, r)
  <2>1. f \in Queues /\ OutputHeld(gone, u, e, r) /\ (t3_to_core(r, e) => open[<<u, e, r>>] = "none")
    BY <1>2, FedApart DEF RInv, InOnePiece, t3_to_core
  <2>2. CASE u = t /\ r = q /\ e \in used /\ ~t3_to_core(q, e)
    <3>1. Newest(next, f)' = last[e] /\ next[<<u, from[e], r>>] = last[e] /\ from[e] # "none"
      BY <1>1, <2>2
    <3>2. open'[<<u, e, r>>] = IF last[e][2] = Params(q) THEN "none" ELSE from[e]
      BY <1>3, <2>2
    <3> HIDE DEF f
    <3>3. QED
      BY <2>2, <3>1, <3>2 DEF OutputHeld, f
  <2>3. CASE ~(u = t /\ r = q /\ e \in used /\ ~t3_to_core(q, e)) /\ \E d \in used : f = Fed(t, d, to[d])
    <3>1. PICK d \in used : f = Fed(t, d, to[d])
      BY <2>3
    <3>2. u = t /\ e = d /\ r = to[d]
      <4>1. d \in Outputs /\ to[d] \in Channels /\ Fed(u, e, r) = Fed(t, d, to[d])
        BY <1>1, <3>1
      <4>2. QED
        BY <4>1, FedApart
    <3>3. t3_to_core(q, d) /\ t3_to_core(r, e) /\ last[d][2] = Params(r)
      BY <1>1, <2>3, <3>2
    <3>4. open'[<<u, e, r>>] = "none"
      BY <1>1, <1>3, <2>1, <3>2, <3>3
    <3>5. Newest(next, f)' = last[d]
      BY <1>1, <3>1
    <3> HIDE DEF f
    <3>6. QED
      BY <3>3, <3>4, <3>5 DEF OutputHeld, f
  <2>4. CASE ~ \E d \in used : f = Fed(t, d, to[d])
    <3>1. Newest(next, f)' = Newest(gone, f)
      BY <2>1, <2>4 DEF Moved
    <3>2. CASE u = t /\ r = q /\ e \in used
      <4>1. t3_to_core(q, e)
        BY <1>1, <2>4, <3>2
      <4>2. open[<<u, e, r>>] = "none" /\ open'[<<u, e, r>>] = "none"
        BY <1>1, <1>3, <2>1, <3>2, <4>1
      <4> HIDE DEF f
      <4>3. QED
        BY <2>1, <3>1, <4>2 DEF OutputHeld, f
    <3>3. CASE ~(u = t /\ r = q /\ e \in used)
      <4>1. open'[<<u, e, r>>] = open[<<u, e, r>>] /\ open[<<u, e, r>>] \in Inputs \union {"none"}
        BY <1>2, <1>3, <3>3
      <4>2. open[<<u, e, r>>] # "none" => next[<<u, open[<<u, e, r>>], r>>] = gone[<<u, open[<<u, e, r>>], r>>]
        BY <1>7, <3>3, <4>1
      <4> HIDE DEF f
      <4>3. QED
        BY <2>1, <3>1, <4>1, <4>2 DEF OutputHeld, f
    <3>4. QED
      BY <3>2, <3>3
  <2>5. QED
    BY <2>2, <2>3, <2>4
<1>9. ASSUME NEW u \in Tile, NEW o \in Inputs, NEW r \in Channels
      PROVE  InputHolds(next, u, o, r)'
  <2>1. <<u, o, r>> \in Queues /\ InputHolds(gone, u, o, r) /\ o # "none"
    BY DEF Queues, RInv, Inputs
  <2>2. ASSUME \A d \in Outputs : open'[<<u, d, r>>] # o
        PROVE  next[<<u, o, r>>][2] = Params(r)
    <3>1. CASE \E d \in used : <<u, o, r>> = <<t, from[d], q>>
      <4>1. PICK d \in used : <<u, o, r>> = <<t, from[d], q>>
        BY <3>1
      <4>2. u = t /\ o = from[d] /\ r = q
        BY <4>1
      <4>3. last[d][2] = Params(q)
        BY <1>1, <1>3, <2>2, <4>2
      <4>4. QED
        BY <1>1, <4>2, <4>3
    <3>2. CASE ~ \E d \in used : <<u, o, r>> = <<t, from[d], q>>
      <4>1. next[<<u, o, r>>] = gone[<<u, o, r>>]
        BY <2>1, <3>2 DEF Moved
      <4>2. ASSUME NEW d \in Outputs, open[<<u, d, r>>] = o
            PROVE  FALSE
        <5>1. u = t /\ r = q /\ d \in used
          BY <1>3, <2>2, <4>2
        <5>2. o = from[d]
          BY <1>1, <2>1, <4>2, <5>1
        <5>3. QED
          BY <3>2, <5>1, <5>2
      <4>3. QED
        BY <2>1, <4>1, <4>2 DEF InputHolds
    <3>3. QED
      BY <3>1, <3>2
  <2>3. ASSUME NEW d \in Outputs, NEW e \in Outputs, open'[<<u, d, r>>] = o, open'[<<u, e, r>>] = o
        PROVE  d = e
    <3> DEFINE Before(c) == \/ open[<<u, c, r>>] = o
                            \/ u = t /\ r = q /\ c \in used /\ from[c] = o
    <3>1. Before(d) /\ Before(e)
      <4>1. ASSUME NEW c \in Outputs, open'[<<u, c, r>>] = o, open[<<u, c, r>>] # o
            PROVE  u = t /\ r = q /\ c \in used /\ from[c] = o
        BY <1>3, <2>1, <4>1
      <4>2. Before(d)
        BY <2>3, <4>1
      <4>3. Before(e)
        BY <2>3, <4>1
      <4>4. QED
        BY <4>2, <4>3
    <3>2. CASE open[<<u, d, r>>] = o /\ open[<<u, e, r>>] = o
      BY <2>1, <3>2 DEF InputHolds
    <3>3. CASE open[<<u, d, r>>] # o
      BY <1>1, <3>1, <3>3, OneTaker
    <3>4. CASE open[<<u, e, r>>] # o
      <4>1. u = t /\ r = q /\ e \in used /\ from[e] = o
        BY <3>1, <3>4
      <4>2. May(t, e, q, o) /\ (May(t, d, q, o) \/ open[<<t, d, q>>] = o)
        BY <1>1, <3>1, <4>1
      <4>3. QED
        BY <4>2, OneTaker
    <3>5. QED
      BY <3>2, <3>3, <3>4
  <2>4. QED
    BY <2>2, <2>3 DEF InputHolds
<1>10. InOnePiece'
  <2>1. ASSUME NEW u \in Tile, NEW r \in Channels, t3_to_core(r, "C")
        PROVE  open'[<<u, "C", r>>] = "none"
    <3>1. open[<<u, "C", r>>] = "none" /\ "C" \in Outputs
      BY <1>2, <2>1 DEF InOnePiece, Outputs
    <3>2. CASE u = t /\ r = q /\ "C" \in used
      <4>1. last["C"][2] = Params(q)
        BY <1>1, <2>1, <3>2
      <4>2. QED
        BY <1>3, <3>1, <3>2, <4>1
    <3>3. CASE ~(u = t /\ r = q /\ "C" \in used)
      BY <1>3, <3>1, <3>3
    <3>4. QED
      BY <3>2, <3>3
  <2>2. QED
    BY <2>1 DEF InOnePiece, t3_to_core
<1>11. ASSUME NEW u \in Tile, NEW r \in Channels
       PROVE  Newest(next, <<u, "C", r>>)' = Newest(gone, <<u, "C", r>>)
  <2>1. \A d \in used : <<u, "C", r>> # Fed(t, d, to[d])
    <3>1. ASSUME NEW d \in used
          PROVE  Fed(t, d, to[d])[2] # "C"
      <4>1. d \in Outputs /\ to[d] \in Channels
        BY <1>1
      <4>2. QED
        BY <4>1, FedApart
    <3>2. QED
      BY <3>1
  <2>2. <<u, "C", r>> \in Queues
    BY DEF Queues, Inputs
  <2>3. QED
    BY <2>1, <2>2 DEF Moved
<1>12. \A m \in Messages : Queueing(next, m)'
  BY <1>2, <1>11, Lengths DEF RInv, Queueing
<1>13. \A u \in Tile, r \in Channels : CoreEnded(next, u, r)'
  BY <1>2, <1>11 DEF RInv, CoreEnded
<1>14. QED
  BY <1>5, <1>6, <1>8, <1>9, <1>10, <1>12, <1>13 DEF RInv

LEMMA RouteShifts ==
  ASSUME NEW gone, RInv(gone), NEW t \in Tile, NEW q \in Channels, Route(t, q)
  PROVE  \E from, used, to, tk :
           /\ used = Used(from) /\ (\A d \in used : May(t, d, q, from[d])) /\ Move(t, q, from)
           /\ Shifted(gone, t, q, from, used, to, tk)
<1>1. PICK seen \in (SUBSET Occupied(t, q)) \ {{}} : Advance(t, q, seen)
  BY DEF Route
<1>2. PICK from : from = [d \in Outputs |-> Source(t, q, seen, d)] /\ Move(t, q, from)
  BY <1>1 DEF Advance
<1>3. PICK used : used = Used(from)
  OBVIOUS
<1>4. \A d \in used : May(t, d, q, from[d])
  <2>1. next_d \in [Tile \X Channels -> 0 .. DIRECTIONS - 1] /\ seen \in SUBSET Occupied(t, q)
    BY <1>1 DEF RInv, Typed
  <2>2. ASSUME NEW d \in used
        PROVE  May(t, d, q, from[d])
    <3>1. d \in Outputs /\ from[d] = Source(t, q, seen, d) /\ from[d] # "none"
      BY <1>2, <1>3 DEF Used
    <3>2. May(t, d, q, Source(t, q, seen, d))
      BY <2>1, <3>1, Sources
    <3>3. QED
      BY <3>1, <3>2
  <2>3. QED
    BY <2>2
<1>5. PICK to, tk : Shifted(gone, t, q, from, used, to, tk)
  BY <1>2, <1>3, <1>4, MoveFlits
<1>6. QED
  BY <1>2, <1>3, <1>4, <1>5

LEMMA RouteKeeps ==
  ASSUME NEW gone, RInv(gone), NEW t \in Tile, NEW q \in Channels, Route(t, q)
  PROVE  \E next : RInv(next)'
<1>1. PICK from, used, to, tk :
         /\ used = Used(from) /\ (\A d \in used : May(t, d, q, from[d])) /\ Move(t, q, from)
         /\ Shifted(gone, t, q, from, used, to, tk)
  BY RouteShifts
<1>2. PICK next, last : Moved(gone, next, t, q, from, used, to, last)
  BY <1>1, MoveQueues
<1>3. RInv(next)'
  BY <1>1, <1>2, MoveKeeps
<1>4. QED
  BY <1>3

(* A core ends a message before it starts another, so the flit it queues   *)
(* follows the last one.                                                   *)
LEMMA SendKeeps ==
  ASSUME NEW gone, RInv(gone), NEW t \in Tile, Send(t)
  PROVE  RInv(gone)'
<1>1. PICK m \in Messages :
        /\ Traffic[m].src = t /\ sent[m] < Size(m)
        /\ \A n \in Messages \ {m} : Traffic[n].src = t => sent[n] \in {0, Size(n)}
        /\ sent' = [sent EXCEPT ![m] = @ + 1]
        /\ queue' = [queue EXCEPT ![<<t, "C", Traffic[m].q>>] = Append(@, <<m, sent[m] + 1>>)]
        /\ UNCHANGED <<open, next_d, ran>>
  BY DEF Send
<1>2. PICK f : f = <<m, sent[m] + 1>>
  OBVIOUS
<1> DEFINE q == Traffic[m].q
           k == <<t, "C", q>>
           n == Params(q)
<1>3. q \in Channels /\ Size(m) = n /\ n \in {2, 3} /\ k \in Queues /\ k[3] = q /\ k[2] # "IQ"
  BY Lengths DEF Queues, Inputs
<1>4. Typed(gone) /\ sent[m] \in Nat
  BY DEF RInv, Typed
<1>5. f \in Flit /\ f[1] = m /\ f[2] = sent[m] + 1 /\ Size(f[1]) = n
  <2>1. sent[m] + 1 \in 1 .. 3 /\ sent[m] + 1 <= Size(m)
    BY <1>1, <1>3, <1>4
  <2>2. QED
    BY <1>2, <1>3, <2>1 DEF Flit
<1>6. Follows(Newest(gone, k), f, n)
  <2>1. CASE sent[m] = 0
    <3>1. \A a \in Messages : Traffic[a].src = t => sent[a] \in {0, Size(a)}
      BY <1>1, <2>1
    <3>2. Newest(gone, k)[2] = n
      BY <1>3, <3>1 DEF RInv, CoreEnded
    <3>3. QED
      BY <1>5, <2>1, <3>2 DEF Follows
  <2>2. CASE sent[m] # 0
    <3>1. Newest(gone, k) = <<m, sent[m]>>
      BY <1>1, <1>3, <1>4, <2>2 DEF RInv, Queueing
    <3>2. sent[m] # n
      BY <1>1, <1>3, <1>4
    <3>3. QED
      BY <1>2, <3>1, <3>2 DEF Follows
  <2>3. QED
    BY <2>1, <2>2
<1>7. /\ queue[k] \in Seq(Flit) /\ gone[k] \in Mark /\ QueueOrdered(gone, k)
      /\ queue'[k] = Append(queue[k], f)
      /\ \A j \in Queues : j # k => queue'[j] = queue[j]
  BY <1>1, <1>2, <1>3, <1>4 DEF Typed, RInv
<1>8. /\ queue'[k] \in Seq(Flit) /\ InOrder(gone[k], queue'[k], n) /\ LastOf(gone[k], queue'[k]) = f
      /\ \A i \in 1 .. Len(queue'[k]) : Size(queue'[k][i][1]) = n
  <2> DEFINE s == queue[k]
             r == queue'[k]
  <2>1. /\ Len(s) \in Nat /\ InOrder(gone[k], s, n)
        /\ \A i \in 1 .. Len(s) : Size(s[i][1]) = n
    BY <1>3, <1>7, LenProperties DEF QueueOrdered
  <2>2. /\ r \in Seq(Flit) /\ Len(r) = Len(s) + 1 /\ r[Len(s) + 1] = f
        /\ \A i \in 1 .. Len(s) : r[i] = s[i]
    BY <1>5, <1>7, AppendProperties
  <2>3. Follows(LastOf(gone[k], s), f, n)
    BY <1>6 DEF Newest
  <2>4. s = <<>> <=> Len(s) = 0
    BY <1>7, EmptySeq
  <2> HIDE DEF s, r, n, k, q
  <2>5. r # <<>> /\ r[Len(r)] = f
    BY <2>1, <2>2, EmptySeq
  <2>6. LastOf(gone[k], r) = f
    BY <2>5 DEF LastOf
  <2>7. ASSUME NEW i \in 1 .. Len(r)
        PROVE  /\ Follows(IF i = 1 THEN gone[k] ELSE r[i - 1], r[i], n)
               /\ Size(r[i][1]) = n
    <3>1. CASE i <= Len(s)
      <4>1. i \in 1 .. Len(s) /\ r[i] = s[i] /\ (i # 1 => r[i - 1] = s[i - 1])
        BY <2>1, <2>2, <3>1
      <4>2. QED
        BY <2>1, <4>1 DEF InOrder
    <3>2. CASE ~(i <= Len(s))
      <4>1. i = Len(s) + 1 /\ r[i] = f /\ (i # 1 => i - 1 \in 1 .. Len(s) /\ i - 1 = Len(s))
        BY <2>1, <2>2, <3>2
      <4>2. (IF i = 1 THEN gone[k] ELSE r[i - 1]) = LastOf(gone[k], s)
        BY <2>1, <2>2, <2>4, <4>1 DEF LastOf
      <4>3. QED
        BY <1>5, <2>3, <4>1, <4>2
    <3>3. QED
      BY <3>1, <3>2
  <2>8. QED
    BY <2>2, <2>6, <2>7 DEF InOrder, r
<1> HIDE DEF k
<1>9. /\ \A j \in Queues : j # k => Newest(gone, j)' = Newest(gone, j) /\ QueueOrdered(gone, j)'
      /\ Newest(gone, k)' = f /\ QueueOrdered(gone, k)'
  BY <1>3, <1>7, <1>8 DEF Newest, QueueOrdered, RInv
<1>10. Typed(gone)'
  <2>1. queue' \in [Queues -> Seq(Flit)]
    BY <1>1, <1>4, <1>7, <1>8 DEF Typed, k
  <2>2. sent' \in [Messages -> Nat] /\ \A a \in Messages : sent'[a] <= Size(a)
    <3>1. \A a \in Messages : sent'[a] = IF a = m THEN sent[m] + 1 ELSE sent[a]
      BY <1>1, <1>4 DEF Typed
    <3>2. sent[m] + 1 <= Size(m)
      BY <1>1, <1>3, <1>4
    <3>3. QED
      BY <1>1, <1>4, <3>1, <3>2 DEF Typed
  <2>3. QED
    BY <1>1, <1>4, <2>1, <2>2 DEF Typed
<1>11. \A j \in Queues : QueueOrdered(gone, j)'
  BY <1>9
<1>12. ASSUME NEW u \in Tile, NEW d \in Outputs, NEW r \in Channels
       PROVE  OutputHeld(gone, u, d, r)'
  <2>1. Fed(u, d, r) \in Queues /\ Fed(u, d, r) # k /\ OutputHeld(gone, u, d, r)
    BY FedApart DEF RInv, k
  <2>2. Newest(gone, Fed(u, d, r))' = Newest(gone, Fed(u, d, r)) /\ open' = open
    BY <1>1, <1>9, <2>1
  <2>3. QED
    BY <2>1, <2>2 DEF OutputHeld
<1>13. /\ \A u \in Tile, o \in Inputs, r \in Channels : InputHolds(gone, u, o, r)'
       /\ InOnePiece'
  BY <1>1 DEF RInv, InputHolds, InOnePiece, t3_to_core
<1>14. \A u \in Tile, r \in Channels : <<u, "C", r>> \in Queues /\ (<<u, "C", r>> = k <=> u = t /\ r = q)
  BY DEF Queues, Inputs, k
<1>15. \A a \in Messages : sent'[a] = IF a = m THEN sent[m] + 1 ELSE sent[a]
  BY <1>1, <1>4 DEF Typed
<1>16. ASSUME NEW a \in Messages
       PROVE  Queueing(gone, a)'
  <2>1. CASE a = m
    <3>1. k = <<Traffic[m].src, "C", Traffic[m].q>> /\ f = <<m, sent'[m]>>
      BY <1>1, <1>2, <1>15 DEF k
    <3>2. QED
      BY <1>9, <2>1, <3>1 DEF Queueing
  <2>2. CASE a # m
    <3>1. Traffic[a].src \in Tile /\ Traffic[a].q \in Channels /\ Queueing(gone, a)
      BY Lengths DEF RInv
    <3>2. CASE <<Traffic[a].src, "C", Traffic[a].q>> = k
      BY <1>1, <1>14, <1>15, <2>2, <3>1, <3>2 DEF Queueing
    <3>3. CASE <<Traffic[a].src, "C", Traffic[a].q>> # k
      BY <1>9, <1>14, <1>15, <2>2, <3>1, <3>3 DEF Queueing
    <3>4. QED
      BY <3>2, <3>3
  <2>3. QED
    BY <2>1, <2>2
<1>17. ASSUME NEW u \in Tile, NEW r \in Channels
       PROVE  CoreEnded(gone, u, r)'
  <2>1. CASE u = t /\ r = q
    <3>1. ASSUME sent'[m] \in {0, Size(m)}
          PROVE  f[2] = n
      BY <1>3, <1>4, <1>5, <1>15, <3>1
    <3>2. Newest(gone, <<u, "C", r>>)' = f
      BY <1>9, <2>1 DEF k
    <3>3. QED
      BY <1>1, <2>1, <3>1, <3>2 DEF CoreEnded
  <2>2. CASE ~(u = t /\ r = q)
    <3>1. \A a \in Messages : Traffic[a].src = u /\ Traffic[a].q = r => a # m
      BY <1>1, <2>2
    <3>2. Newest(gone, <<u, "C", r>>)' = Newest(gone, <<u, "C", r>>) /\ CoreEnded(gone, u, r)
      BY <1>9, <1>14, <2>2 DEF RInv
    <3>3. QED
      BY <1>15, <3>1, <3>2 DEF CoreEnded
  <2>3. QED
    BY <2>1, <2>2
<1>18. QED
  BY <1>10, <1>11, <1>12, <1>13, <1>16, <1>17 DEF RInv

(* In front of the queue of a core is a whole message.                     *)
LEMMA FrontMessage ==
  ASSUME NEW gone, RInv(gone), NEW t \in Tile, NEW q \in Channels,
         NEW s, s = queue[<<t, "IQ", q>>], Len(s) >= Params(q)
  PROVE  /\ s[1][1] \in Messages /\ Size(s[1][1]) = Params(q)
         /\ \A i \in 1 .. Params(q) : s[i] = <<s[1][1], i>>
<1> DEFINE k == <<t, "IQ", q>>
           n == Params(q)
<1>1. k \in Queues /\ k[3] = q /\ k[2] = "IQ" /\ n \in {2, 3}
  BY Lengths DEF Queues
<1>2. s \in Seq(Flit) /\ QueueOrdered(gone, k)
  BY <1>1 DEF RInv, Typed
<1>3. Len(s) \in Nat /\ \A i \in 1 .. Len(s) : s[i] \in Flit
  BY <1>2, LenProperties, ElementOfSeq
<1>4. /\ gone[k][2] = n /\ InOrder(gone[k], s, n)
      /\ \A i \in 1 .. Len(s) : Size(s[i][1]) = n
  BY <1>1, <1>2 DEF QueueOrdered
<1> HIDE DEF n, k
<1>5. n \in 1 .. Len(s)
  BY <1>1, <1>3 DEF n
<1>6. 1 \in 1 .. Len(s) /\ 2 \in 1 .. Len(s) /\ (n = 3 => 3 \in 1 .. Len(s))
  BY <1>1, <1>3, <1>5
<1>7. s[1] = <<s[1][1], 1>> /\ s[1][2] = 1 /\ s[1][1] \in Messages
  <2>1. Follows(gone[k], s[1], n)
    BY <1>4, <1>6 DEF InOrder
  <2>2. s[1][2] = 1
    BY <1>4, <2>1 DEF Follows
  <2>3. QED
    BY <1>3, <1>6, <2>2, Flits
<1>8. s[2] = <<s[1][1], 2>>
  <2>1. Follows(s[1], s[2], n)
    BY <1>4, <1>6 DEF InOrder
  <2>2. QED
    BY <1>1, <1>7, <2>1 DEF Follows
<1>9. n = 3 => s[3] = <<s[1][1], 3>>
  <2>1. ASSUME n = 3
        PROVE  s[3] = <<s[1][1], 3>>
    <3>1. Follows(s[2], s[3], n)
      BY <1>4, <1>6, <2>1 DEF InOrder
    <3>2. s[2][1] = s[1][1] /\ s[2][2] = 2
      BY <1>8
    <3>3. s[3] = <<s[2][1], s[2][2] + 1>>
      BY <2>1, <3>1, <3>2 DEF Follows
    <3>4. QED
      BY <3>2, <3>3
  <2>2. QED
    BY <2>1
<1>10. \A i \in 1 .. n : s[i] = <<s[1][1], i>>
  <2>1. \A i \in 1 .. n : i = 1 \/ i = 2 \/ (i = 3 /\ n = 3)
    BY <1>1
  <2>2. QED
    BY <1>7, <1>8, <1>9, <2>1
<1>11. QED
  BY <1>4, <1>6, <1>7, <1>10 DEF n

(* A task takes a whole message from the queue of its core.                *)
LEMMA RunKeeps ==
  ASSUME NEW gone, RInv(gone), NEW t \in Tile, NEW q \in Channels, Run(t, q)
  PROVE  \E next : RInv(next)'
<1> DEFINE k == <<t, "IQ", q>>
           n == Params(q)
<1>1. /\ Len(queue[k]) >= n /\ queue' = [queue EXCEPT ![k] = SubSeq(@, n + 1, Len(@))]
      /\ UNCHANGED <<open, next_d, sent>>
  BY DEF Run
<1>2. k \in Queues /\ k[3] = q /\ k[2] = "IQ" /\ n \in {2, 3} /\ "IQ" \notin Inputs
  BY Lengths DEF Queues, Inputs
<1>3. Typed(gone) /\ queue[k] \in Seq(Flit) /\ QueueOrdered(gone, k)
  BY <1>2 DEF RInv, Typed
<1>4. PICK last : last = queue[k][n]
  OBVIOUS
<1>5. PICK next : next = [gone EXCEPT ![k] = last]
  OBVIOUS
<1>6. /\ next[k] = last /\ queue'[k] = SubSeq(queue[k], n + 1, Len(queue[k]))
      /\ \A j \in Queues : j # k => next[j] = gone[j] /\ queue'[j] = queue[j]
  BY <1>1, <1>2, <1>3, <1>5 DEF Typed
<1>7. /\ last \in Mark /\ last[2] = n
      /\ queue'[k] \in Seq(Flit) /\ InOrder(last, queue'[k], n)
      /\ LastOf(last, queue'[k]) = LastOf(gone[k], queue[k])
      /\ \A i \in 1 .. Len(queue'[k]) : Size(queue'[k][i][1]) = n
  <2> DEFINE s == queue[k]
             r == queue'[k]
  <2>1. /\ Len(s) \in Nat /\ n \in 1 .. Len(s) /\ InOrder(gone[k], s, n) /\ gone[k][2] = n
        /\ \A i \in 1 .. Len(s) : Size(s[i][1]) = n
    <3>1. Len(s) \in Nat
      BY <1>3, LenProperties
    <3>2. n \in 1 .. Len(s)
      BY <1>1, <1>2, <3>1
    <3>3. /\ InOrder(gone[k], s, Params(k[3])) /\ gone[k][2] = Params(k[3])
          /\ \A i \in 1 .. Len(s) : Size(s[i][1]) = Params(k[3])
      BY <1>2, <1>3 DEF QueueOrdered
    <3>4. Params(k[3]) = n
      BY <1>2
    <3> HIDE DEF k, n
    <3>5. QED
      BY <3>1, <3>2, <3>3, <3>4
  <2> HIDE DEF s, r, n, k
  <2>2. last \in Flit /\ s[n] = last /\ s \in Seq(Flit) /\ r = SubSeq(s, n + 1, Len(s))
    BY <1>3, <1>4, <1>6, <2>1, ElementOfSeq DEF s, r
  <2>3. \A i \in 1 .. Len(s) : s[i] \in Flit
    BY <2>2, ElementOfSeq
  <2>4. last[2] = n /\ last \in Mark
    <3>1. PICK f : f = queue[<<t, "IQ", q>>]
      OBVIOUS
    <3>2. \A i \in 1 .. Params(q) : s[i] = <<s[1][1], i>>
      <4>1. Len(f) >= Params(q) /\ f = s
        BY <1>1, <3>1 DEF s, n, k
      <4>2. \A i \in 1 .. Params(q) : f[i] = <<f[1][1], i>>
        BY <3>1, <4>1, FrontMessage
      <4>3. QED
        BY <4>1, <4>2
    <3>3. n \in 1 .. Params(q)
      BY <1>2 DEF n
    <3>4. s[n] = <<s[1][1], n>>
      BY <3>2, <3>3
    <3>5. QED
      BY <2>2, <3>4, Flits
  <2>5. r \in Seq(Flit) /\ InOrder(last, r, n) /\ LastOf(last, r) = LastOf(gone[k], s)
    BY <2>1, <2>2, PopOrder
  <2>6. \A i \in 1 .. Len(r) : Size(r[i][1]) = n
    <3>1. s \in Seq(Flit) /\ n \in 1 .. Len(s) /\ r = SubSeq(s, n + 1, Len(s))
      BY <2>1, <2>2
    <3>2. \A i \in 1 .. Len(r) : i + n \in 1 .. Len(s) /\ r[i] = s[i + n]
      BY <3>1, Popped
    <3>3. QED
      BY <2>1, <3>2
  <2>7. QED
    BY <2>4, <2>5, <2>6 DEF s, r
<1>8. \A j \in Queues : Newest(next, j)' = Newest(gone, j) /\ QueueOrdered(next, j)'
  <2>1. Newest(next, k)' = Newest(gone, k) /\ QueueOrdered(next, k)'
    <3> HIDE DEF n, k
    <3>1. last[2] <= Params(k[3]) /\ n = Params(k[3])
      BY <1>2, <1>7 DEF n
    <3>2. QED
      BY <1>6, <1>7, <3>1 DEF Newest, QueueOrdered
  <2>2. \A j \in Queues : QueueOrdered(gone, j)
    BY DEF RInv
  <2> HIDE DEF k
  <2>3. \A j \in Queues : j # k => Newest(next, j)' = Newest(gone, j) /\ QueueOrdered(next, j)'
    BY <1>6, <2>2 DEF Newest, QueueOrdered
  <2>4. QED
    BY <2>1, <2>3
<1>9. Typed(next)'
  <2>1. queue' \in [Queues -> Seq(Flit)]
    BY <1>1, <1>3, <1>6, <1>7 DEF Typed
  <2>2. next \in [Queues -> Mark]
    BY <1>3, <1>5, <1>7 DEF Typed
  <2>3. QED
    BY <1>1, <1>3, <2>1, <2>2 DEF Typed
<1>10. \A u \in Tile, o \in Inputs, r \in Channels : next[<<u, o, r>>] = gone[<<u, o, r>>]
  <2>1. \A u \in Tile, o \in Inputs, r \in Channels : <<u, o, r>> \in Queues /\ <<u, o, r>> # k
    BY <1>2 DEF Queues
  <2>2. QED
    BY <1>6, <2>1
<1>11. ASSUME NEW u \in Tile, NEW d \in Outputs, NEW r \in Channels
       PROVE  OutputHeld(next, u, d, r)'
  <2>1. Fed(u, d, r) \in Queues /\ OutputHeld(gone, u, d, r) /\ open' = open
    BY <1>1, FedApart DEF RInv
  <2>2. Newest(next, Fed(u, d, r))' = Newest(gone, Fed(u, d, r))
    BY <1>8, <2>1
  <2>3. open[<<u, d, r>>] # "none" => open[<<u, d, r>>] \in Inputs
    BY <1>3 DEF Typed
  <2>4. QED
    BY <1>10, <2>1, <2>2, <2>3 DEF OutputHeld
<1>12. \A u \in Tile, o \in Inputs, r \in Channels : InputHolds(next, u, o, r)'
  <2>1. ASSUME NEW u \in Tile, NEW o \in Inputs, NEW r \in Channels
        PROVE  InputHolds(next, u, o, r)'
    <3>1. InputHolds(gone, u, o, r) /\ open' = open /\ next[<<u, o, r>>] = gone[<<u, o, r>>]
      BY <1>1, <1>10 DEF RInv
    <3>2. QED
      BY <3>1 DEF InputHolds
  <2>2. QED
    BY <2>1
<1>13. InOnePiece'
  BY <1>1 DEF RInv, InOnePiece, t3_to_core
<1>14. \A u \in Tile, r \in Channels : Newest(next, <<u, "C", r>>)' = Newest(gone, <<u, "C", r>>)
  <2>1. \A u \in Tile, r \in Channels : <<u, "C", r>> \in Queues
    BY DEF Queues, Inputs
  <2>2. QED
    BY <1>8, <2>1
<1>15. \A m \in Messages : Queueing(next, m)'
  BY <1>1, <1>14, Lengths DEF RInv, Queueing
<1>16. \A u \in Tile, r \in Channels : CoreEnded(next, u, r)'
  BY <1>1, <1>14 DEF RInv, CoreEnded
<1>17. RInv(next)'
  BY <1>8, <1>9, <1>11, <1>12, <1>13, <1>15, <1>16 DEF RInv
<1>18. QED
  BY <1>17

-----------------------------------------------------------------------------
(* The inductive invariant, and what follows from it.                      *)
RoutesInvariant == \E gone : RInv(gone)

LEMMA RoutesInit == Init => RoutesInvariant
<1>1. SUFFICES ASSUME Init PROVE RoutesInvariant
  OBVIOUS
<1>2. PICK gone : gone = [k \in Queues |-> <<0, Params(k[3])>>]
  OBVIOUS
<1>3. \A k \in Queues : k[3] \in Channels /\ Params(k[3]) \in {2, 3}
  BY Lengths DEF Queues
<1>4. /\ gone \in [Queues -> Mark]
      /\ \A k \in Queues : gone[k][2] = Params(k[3]) /\ queue[k] = <<>> /\ Newest(gone, k) = gone[k]
  <2>1. \A k \in Queues : <<0, Params(k[3])>> \in Mark
    BY <1>3 DEF Mark, Place
  <2>2. QED
    BY <1>1, <1>2, <2>1 DEF Init, Newest, LastOf
<1>5. Typed(gone)
  <2>1. queue \in [Queues -> Seq(Flit)]
    BY <1>1, EmptySeq DEF Init
  <2>2. sent \in [Messages -> Nat] /\ \A m \in Messages : sent[m] <= Size(m)
    BY <1>1, Lengths DEF Init
  <2>3. next_d \in [Tile \X Channels -> 0 .. DIRECTIONS - 1]
    BY <1>1, Turns DEF Init
  <2>4. open \in [Tile \X Outputs \X Channels -> Inputs \union {"none"}]
    BY <1>1 DEF Init
  <2>5. QED
    BY <1>4, <2>1, <2>2, <2>3, <2>4 DEF Typed
<1>6. \A k \in Queues : QueueOrdered(gone, k)
  <2>1. \A k \in Queues : Len(queue[k]) = 0 /\ gone[k][2] <= Params(k[3])
    BY <1>3, <1>4
  <2>2. QED
    BY <1>4, <2>1 DEF QueueOrdered, InOrder
<1>7. \A t \in Tile, d \in Outputs, q \in Channels : open[<<t, d, q>>] = "none"
  BY <1>1 DEF Init
<1>8. \A t \in Tile, d \in Outputs, q \in Channels : OutputHeld(gone, t, d, q)
  <2>1. ASSUME NEW t \in Tile, NEW d \in Outputs, NEW q \in Channels
        PROVE  OutputHeld(gone, t, d, q)
    <3>1. Fed(t, d, q) \in Queues /\ Fed(t, d, q)[3] = q /\ open[<<t, d, q>>] = "none"
      BY <1>7, FedApart
    <3>2. Newest(gone, Fed(t, d, q))[2] = Params(q)
      BY <1>4, <3>1
    <3>3. QED
      BY <3>1, <3>2 DEF OutputHeld
  <2>2. QED
    BY <2>1
<1>9. \A t \in Tile, o \in Inputs, q \in Channels : InputHolds(gone, t, o, q)
  <2>1. \A t \in Tile, o \in Inputs, q \in Channels : <<t, o, q>> \in Queues /\ o # "none"
    BY DEF Queues, Inputs
  <2>2. QED
    BY <1>4, <1>7, <2>1 DEF InputHolds
<1>10. InOnePiece
  BY <1>7 DEF InOnePiece, Outputs
<1>11. \A t \in Tile, q \in Channels : CoreEnded(gone, t, q)
  <2>1. \A t \in Tile, q \in Channels : <<t, "C", q>> \in Queues
    BY DEF Queues, Inputs
  <2>2. QED
    BY <1>4, <2>1 DEF CoreEnded
<1>12. \A m \in Messages : Queueing(gone, m)
  BY <1>1 DEF Init, Queueing
<1>13. QED
  BY <1>5, <1>6, <1>8, <1>9, <1>10, <1>11, <1>12 DEF RInv, RoutesInvariant

LEMMA RoutesNext == RoutesInvariant /\ [Next]_vars => RoutesInvariant'
<1>1. SUFFICES ASSUME RoutesInvariant, [Next]_vars PROVE RoutesInvariant'
  OBVIOUS
<1>2. PICK gone : RInv(gone)
  BY <1>1 DEF RoutesInvariant
<1>3. CASE UNCHANGED vars
  <2>1. RInv(gone)'
    BY <1>2, <1>3 DEF vars, RInv, Typed, QueueOrdered, OutputHeld, InputHolds, InOnePiece, Queueing,
                      CoreEnded, Newest, t3_to_core
  <2>2. QED
    BY <2>1 DEF RoutesInvariant
<1>4. ASSUME NEW t \in Tile, Network(t)
      PROVE  RoutesInvariant'
  <2>1. PICK q \in Channels : Route(t, q)
    BY <1>4 DEF Network
  <2>2. \E next : RInv(next)'
    BY <1>2, <2>1, RouteKeeps
  <2>3. QED
    BY <2>2 DEF RoutesInvariant
<1>5. ASSUME NEW t \in Tile, Core(t)
      PROVE  RoutesInvariant'
  <2>1. CASE Send(t)
    <3>1. RInv(gone)'
      BY <1>2, <2>1, SendKeeps
    <3>2. QED
      BY <3>1 DEF RoutesInvariant
  <2>2. CASE \E q \in Channels : Run(t, q)
    <3>1. PICK q \in Channels : Run(t, q)
      BY <2>2
    <3>2. \E next : RInv(next)'
      BY <1>2, <3>1, RunKeeps
    <3>3. QED
      BY <3>2 DEF RoutesInvariant
  <2>3. QED
    BY <1>5, <2>1, <2>2 DEF Core
<1>6. QED
  BY <1>1, <1>3, <1>4, <1>5 DEF Next, Tick

LEMMA RoutesImplied == RoutesInvariant => RoutesOpen
<1>1. SUFFICES ASSUME RoutesInvariant PROVE RoutesOpen
  OBVIOUS
<1>2. PICK gone : RInv(gone)
  BY <1>1 DEF RoutesInvariant
<1>3. ASSUME NEW k \in Queues
      PROVE  /\ gone[k] \in Mark /\ queue[k] \in Seq(Flit) /\ QueueOrdered(gone, k) /\ Len(queue[k]) \in Nat
             /\ queue[k] # <<>> => 1 \in 1 .. Len(queue[k])
  <2>1. gone[k] \in Mark /\ queue[k] \in Seq(Flit) /\ QueueOrdered(gone, k)
    BY <1>2 DEF RInv, Typed
  <2>2. Len(queue[k]) \in Nat /\ (queue[k] # <<>> => Len(queue[k]) \in Nat \ {0})
    BY <2>1, LenProperties, EmptySeq
  <2>3. QED
    BY <2>1, <2>2
<1>4. Unbroken
  <2>1. ASSUME NEW k \in Queues, NEW i \in 1 .. Len(queue[k]) - 1
        PROVE  Follows(queue[k][i], queue[k][i + 1], Params(k[3]))
    <3>1. i + 1 \in 1 .. Len(queue[k]) /\ i + 1 # 1 /\ (i + 1) - 1 = i
      BY <1>3
    <3>2. QED
      BY <1>3, <3>1 DEF QueueOrdered, InOrder
  <2>2. ASSUME NEW k \in Queues, k[2] = "IQ", queue[k] # <<>>
        PROVE  IsHead(queue[k][1])
    <3>1. Follows(gone[k], queue[k][1], Params(k[3])) /\ gone[k][2] = Params(k[3])
      BY <1>3, <2>2 DEF QueueOrdered, InOrder
    <3>2. QED
      BY <3>1 DEF Follows, IsHead
  <2>3. QED
    BY <2>1, <2>2 DEF Unbroken, Follows, Params, IsHead
<1>5. ASSUME NEW t \in Tile, NEW q \in Channels, NEW o \in Inputs,
             NEW held, held = {d \in Outputs : open[<<t, d, q>>] = o}
      PROVE  /\ Cardinality(held) <= 1
             /\ queue[<<t, o, q>>] # <<>> => (IsHead(queue[<<t, o, q>>][1]) <=> held = {})
  <2> DEFINE k == <<t, o, q>>
             s == queue[k]
  <2>1. k \in Queues /\ k[3] = q /\ o # "none" /\ InputHolds(gone, t, o, q)
    BY <1>2 DEF Queues, Inputs, RInv
  <2>2. Cardinality(held) <= 1
    <3>1. CASE held = {}
      BY <3>1, FS_EmptySet
    <3>2. CASE held # {}
      <4>1. PICK d : d \in held
        BY <3>2
      <4>2. held = {d}
        BY <1>5, <2>1, <4>1 DEF InputHolds
      <4>3. QED
        <5>1. Cardinality({d}) = 1
          BY FS_Singleton
        <5>2. QED
          BY <4>2, <5>1
    <3>3. QED
      BY <3>1, <3>2
  <2>3. ASSUME s # <<>>
        PROVE  IsHead(s[1]) <=> held = {}
    <3>1. Follows(gone[k], s[1], Params(q)) /\ gone[k] \in Mark
      BY <1>3, <2>1, <2>3 DEF QueueOrdered, InOrder
    <3>2. CASE held = {}
      <4>1. gone[k][2] = Params(q)
        BY <1>5, <2>1, <3>2 DEF InputHolds
      <4>2. QED
        BY <3>1, <3>2, <4>1 DEF Follows, IsHead
    <3>3. CASE held # {}
      <4>1. PICK d \in Outputs : open[<<t, d, q>>] = o
        BY <1>5, <3>3
      <4>2. gone[k][2] # Params(q)
        BY <1>2, <2>1, <4>1 DEF RInv, OutputHeld
      <4>3. s[1] = <<gone[k][1], gone[k][2] + 1>>
        BY <3>1, <4>2 DEF Follows
      <4>4. s[1][2] = gone[k][2] + 1 /\ gone[k][2] \in 1 .. 3
        BY <3>1, <4>3 DEF Mark, Place
      <4>5. s[1][2] # 1
        BY <4>4
      <4>6. QED
        BY <3>3, <4>5 DEF IsHead
    <3>4. QED
      BY <3>2, <3>3
  <2>4. QED
    BY <2>2, <2>3
<1>6. OpenRoutes
  BY <1>5 DEF OpenRoutes
<1>7. QED
  BY <1>4, <1>6 DEF RoutesOpen

(* In every queue the flits of a message are together and in order, an     *)
(* input holds at most one output, and holds one exactly while the rest of *)
(* a message is in front of it: "Flits of different messages within the    *)
(* same channel shouldn't interleave" (router.h:759) for any grid, proxies,*)
(* lengths of queues, wide channels and traffic.                           *)
THEOREM RoutesStayOpen == Spec => []RoutesOpen
<1>1. Init => RoutesInvariant
  BY RoutesInit
<1>2. RoutesInvariant /\ [Next]_vars => RoutesInvariant'
  BY RoutesNext
<1>3. RoutesInvariant => RoutesOpen
  BY RoutesImplied
<1>4. QED
  BY <1>1, <1>2, <1>3, PTL DEF Spec
-----------------------------------------------------------------------------
(***************************************************************************)
(* Proof, on that invariant, that no queue overflows, that no flit is lost *)
(* or doubled, and that a task runs once, where its message belongs.       *)
(***************************************************************************)

(* A queue has room for what is in it, and that of a core for the rest of  *)
(* the message it has begun to queue.                                      *)
FromCore(m) == <<Traffic[m].src, "C", Traffic[m].q>>
Roomy ==
  /\ \A k \in Queues : Len(queue[k]) <= Length(k)
  /\ \A m \in Messages : sent[m] # 0 =>
       Size(m) - sent[m] <= Length(FromCore(m)) - Len(queue[FromCore(m)])

(* An output that takes flits has room for two of them, in the channel they*)
(* go to.                                                                  *)
LEMMA LaneRoom ==
  ASSUME NEW gone, RInv(gone), NEW t \in Tile, NEW q \in Channels, NEW d \in Outputs, NEW o,
         May(t, d, q, o)
  PROVE  ~cannot_fit_two(Fed(t, d, Lane(t, q, d, o)))
<1>1. CASE ~t3_to_core(q, d)
  BY <1>1 DEF Lane, May
<1>2. CASE t3_to_core(q, d)
  <2>1. d = "C" /\ open[<<t, d, q>>] = "none"
    BY <1>2 DEF t3_to_core, RInv, InOnePiece
  <2>2. MayStart(t, q, d, o)
    BY <2>1 DEF May, Inputs
  <2>3. \A l : Fed(t, d, l) = <<t, "IQ", l>>
    BY <2>1 DEF Fed
  <2>4. CASE Lane(t, q, d, o) = 3
    BY <1>2, <2>2, <2>3, <2>4 DEF MayStart
  <2>5. CASE Lane(t, q, d, o) # 3
    BY <1>2, <2>3, <2>5 DEF Lane
  <2>6. QED
    BY <2>4, <2>5
<1>3. QED
  BY <1>1, <1>2

(* A queue without its first n flits, and with the flits T behind it.      *)
Less(k, n) ==
  /\ Len(queue'[k]) = Len(queue[k]) - n
  /\ \A i \in 1 .. Len(queue'[k]) : queue'[k][i] = queue[k][i + n]
More(k, T) ==
  /\ Len(queue'[k]) = Len(queue[k]) + Len(T)
  /\ \A i \in 1 .. Len(queue[k]) : queue'[k][i] = queue[k][i]
  /\ \A i \in 1 .. Len(T) : queue'[k][Len(queue[k]) + i] = T[i]

(* What a queue is after a step of a router.                               *)
LEMMA QueueShifts ==
  ASSUME NEW gone, RInv(gone), NEW t \in Tile, NEW q \in Channels, NEW from, NEW used, NEW to, NEW tk,
         used = Used(from), \A d \in used : May(t, d, q, from[d]),
         Shifted(gone, t, q, from, used, to, tk), NEW k \in Queues
  PROVE  \/ \E d \in used :
              k = <<t, from[d], q>> /\ Len(tk[d]) \in 1 .. Len(queue[k]) /\ Less(k, Len(tk[d]))
         \/ \E d \in used :
              /\ k = Fed(t, d, to[d]) /\ k[2] # "C" /\ ~cannot_fit_two(k)
              /\ Len(tk[d]) \in {1, 2} /\ More(k, tk[d])
         \/ (\A d \in used : k # <<t, from[d], q>> /\ k # Fed(t, d, to[d])) /\ queue'[k] = queue[k]
<1>1. \A j \in Queues : queue[j] \in Seq(Flit) /\ Len(queue[j]) \in Nat
  BY LenProperties DEF RInv, Typed
<1>2. ASSUME NEW d \in used
      PROVE  /\ <<t, from[d], q>> \in Queues
             /\ tk[d] \in Seq(Flit) /\ Len(tk[d]) \in 1 .. Len(queue[<<t, from[d], q>>])
             /\ Len(tk[d]) \in {1, 2}
  <2>1. /\ Continues(gone, t, q, d, from[d], queue[<<t, from[d], q>>], tk[d], to[d])
        /\ <<t, from[d], q>> \in Queues
    BY DEF Shifted
  <2>2. QED
    BY <2>1 DEF Continues
<1>3. CASE \E d \in used : k = <<t, from[d], q>>
  <2>1. PICK d \in used : k = <<t, from[d], q>>
    BY <1>3
  <2>2. PICK j : j = Len(tk[d])
    OBVIOUS
  <2>3. j \in 1 .. Len(queue[k]) /\ queue'[k] = SubSeq(queue[k], j + 1, Len(queue[k]))
    BY <1>2, <2>1, <2>2 DEF Shifted
  <2>4. Less(k, j)
    <3> DEFINE s == queue[k]
               r == queue'[k]
    <3>1. s \in Seq(Flit) /\ Len(s) \in Nat /\ r = SubSeq(s, j + 1, Len(s)) /\ j \in 1 .. Len(s)
      BY <1>1, <2>3
    <3> HIDE DEF s, r
    <3>2. Len(r) = Len(s) - j /\ \A i \in 1 .. Len(r) : r[i] = s[i + j]
      BY <3>1, Popped
    <3>3. QED
      BY <3>2 DEF s, r, Less
  <2>5. QED
    BY <2>1, <2>2, <2>3, <2>4
<1>4. CASE \E d \in used : k = Fed(t, d, to[d])
  <2>1. PICK d \in used : k = Fed(t, d, to[d])
    BY <1>4
  <2>2. queue'[k] = queue[k] \o tk[d] /\ k[2] # "C" /\ to[d] = Lane(t, q, d, from[d])
    BY <2>1 DEF Shifted
  <2>3. ~cannot_fit_two(k)
    <3>1. d \in Outputs /\ May(t, d, q, from[d])
      BY DEF Used
    <3>2. ~cannot_fit_two(Fed(t, d, Lane(t, q, d, from[d])))
      BY <3>1, LaneRoom
    <3>3. QED
      BY <2>1, <2>2, <3>2
  <2>4. PICK T : T = tk[d]
    OBVIOUS
  <2>5. More(k, T)
    <3> DEFINE s == queue[k]
               r == queue'[k]
    <3>1. /\ s \in Seq(Flit) /\ Len(s) \in Nat /\ T \in Seq(Flit) /\ Len(T) \in {1, 2}
          /\ r = s \o T
      BY <1>1, <1>2, <2>2, <2>4
    <3> HIDE DEF s, r
    <3>2. /\ Len(r) = Len(s) + Len(T)
          /\ \A i \in 1 .. Len(s) + Len(T) : r[i] = IF i <= Len(s) THEN s[i] ELSE T[i - Len(s)]
      BY <3>1, ConcatProperties
    <3>3. \A i \in 1 .. Len(s) : r[i] = s[i]
      BY <3>1, <3>2
    <3>4. \A i \in 1 .. Len(T) : r[Len(s) + i] = T[i]
      <4>1. ASSUME NEW i \in 1 .. Len(T)
            PROVE  r[Len(s) + i] = T[i]
        <5>1. /\ Len(s) + i \in 1 .. Len(s) + Len(T) /\ ~(Len(s) + i <= Len(s))
              /\ (Len(s) + i) - Len(s) = i
          BY <3>1
        <5>2. QED
          BY <3>2, <5>1
      <4>2. QED
        BY <4>1
    <3>5. QED
      BY <3>2, <3>3, <3>4 DEF s, r, More
  <2>6. QED
    BY <1>2, <2>1, <2>2, <2>3, <2>4, <2>5
<1>5. CASE \A d \in used : k # <<t, from[d], q>> /\ k # Fed(t, d, to[d])
  BY <1>5 DEF Shifted
<1>6. QED
  BY <1>3, <1>4, <1>5

LEMMA Room ==
  ASSUME NEW gone, RInv(gone)
  PROVE  /\ \A k \in Queues : Len(queue[k]) \in Nat /\ Length(k) \in Nat
         /\ \A m \in Messages : /\ sent[m] \in Nat /\ sent[m] <= Size(m) /\ Size(m) \in {2, 3}
                                /\ FromCore(m) \in Queues /\ FromCore(m)[2] = "C"
<1>1. \A k \in Queues : Len(queue[k]) \in Nat
  BY LenProperties DEF RInv, Typed
<1>2. rq_size \in Nat /\ iq_size \in Nat /\ oq_size \in Nat
  BY RouterAssumption
<1>3. \A k \in Queues : Length(k) \in Nat
  BY <1>2 DEF Length
<1>4. \A m \in Messages : FromCore(m) \in Queues /\ FromCore(m)[2] = "C" /\ Size(m) \in {2, 3}
  BY Lengths DEF FromCore, Queues, Inputs
<1>5. QED
  BY <1>1, <1>3, <1>4 DEF RInv, Typed

LEMMA RouteRoom ==
  ASSUME NEW gone, RInv(gone), Roomy, NEW t \in Tile, NEW q \in Channels, Route(t, q)
  PROVE  Roomy'
<1>1. PICK from, used, to, tk :
         /\ used = Used(from) /\ (\A d \in used : May(t, d, q, from[d])) /\ Move(t, q, from)
         /\ Shifted(gone, t, q, from, used, to, tk)
  BY RouteShifts
<1>2. sent' = sent
  BY <1>1 DEF Move
<1>3. ASSUME NEW k \in Queues
      PROVE  Len(queue'[k]) <= Length(k) /\ (k[2] = "C" => Len(queue'[k]) <= Len(queue[k]))
  <2>1. Len(queue[k]) \in Nat /\ Length(k) \in Nat /\ Len(queue[k]) <= Length(k)
    BY Room DEF Roomy
  <2>2. \/ \E j \in 1 .. Len(queue[k]) : Len(queue'[k]) = Len(queue[k]) - j
        \/ \E j \in {1, 2} : k[2] # "C" /\ ~cannot_fit_two(k) /\ Len(queue'[k]) = Len(queue[k]) + j
        \/ queue'[k] = queue[k]
    BY <1>1, QueueShifts DEF Less, More
  <2>3. QED
    BY <2>1, <2>2 DEF cannot_fit_two
<1>4. ASSUME NEW m \in Messages, sent[m] # 0
      PROVE  Size(m) - sent[m] <= Length(FromCore(m)) - Len(queue'[FromCore(m)])
  <2>1. PICK k \in Queues : k = FromCore(m) /\ k[2] = "C"
    BY Room
  <2>2. Size(m) - sent[m] <= Length(k) - Len(queue[k]) /\ Len(queue'[k]) <= Len(queue[k])
    BY <1>3, <1>4, <2>1 DEF Roomy
  <2>3. Size(m) \in Nat /\ sent[m] \in Nat /\ Length(k) \in Nat /\ Len(queue[k]) \in Nat
    BY Room
  <2>4. Len(queue'[k]) \in Nat
    <3>1. \E next : RInv(next)'
      BY RouteKeeps
    <3>2. queue'[k] \in Seq(Flit)
      BY <3>1 DEF RInv, Typed
    <3>3. QED
      BY <3>2, LenProperties
  <2>5. QED
    BY <2>1, <2>2, <2>3, <2>4
<1>5. QED
  BY <1>2, <1>3, <1>4 DEF Roomy

LEMMA SendRoom ==
  ASSUME NEW gone, RInv(gone), Roomy, NEW t \in Tile, Send(t)
  PROVE  Roomy'
<1>1. PICK m \in Messages :
        /\ Traffic[m].src = t /\ sent[m] < Size(m)
        /\ \A n \in Messages \ {m} : Traffic[n].src = t => sent[n] \in {0, Size(n)}
        /\ sent[m] = 0 => Length(FromCore(m)) - Len(queue[FromCore(m)]) >= Size(m)
        /\ sent' = [sent EXCEPT ![m] = @ + 1]
        /\ queue' = [queue EXCEPT ![FromCore(m)] = Append(@, <<m, sent[m] + 1>>)]
  BY DEF Send, FromCore
<1>2. PICK k \in Queues : k = FromCore(m) /\ k[2] = "C" /\ k = <<t, "C", Traffic[m].q>>
  BY <1>1, Room DEF FromCore
<1>3. /\ queue'[k] = Append(queue[k], <<m, sent[m] + 1>>)
      /\ \A j \in Queues : j # k => queue'[j] = queue[j]
      /\ \A n \in Messages : sent'[n] = IF n = m THEN sent[m] + 1 ELSE sent[n]
  BY <1>1, <1>2 DEF RInv, Typed
<1>4. Len(queue'[k]) = Len(queue[k]) + 1
  <2>1. queue[k] \in Seq(Flit)
    BY DEF RInv, Typed
  <2>2. Len(queue'[k]) = Len(queue[k]) + 1
    BY <1>3, <2>1
  <2>3. QED
    BY <2>2
<1>5. /\ Len(queue[k]) \in Nat /\ Length(k) \in Nat /\ Len(queue[k]) <= Length(k)
      /\ sent[m] \in Nat /\ sent[m] < Size(m) /\ Size(m) \in {2, 3}
  BY <1>1, Room DEF Roomy
<1>6. Size(m) - sent[m] <= Length(k) - Len(queue[k])
  <2>1. CASE sent[m] = 0
    BY <1>1, <1>2, <1>5, <2>1
  <2>2. CASE sent[m] # 0
    BY <1>2, <2>2 DEF Roomy
  <2>3. QED
    BY <2>1, <2>2
<1>7. Len(queue'[k]) <= Length(k) /\ Size(m) - sent'[m] <= Length(k) - Len(queue'[k])
  <2>1. sent'[m] = sent[m] + 1
    BY <1>3
  <2>2. PICK a \in Nat, b \in Nat, c \in Nat, d \in Nat :
          a = Len(queue[k]) /\ b = Length(k) /\ c = sent[m] /\ d = Size(m)
    BY <1>5
  <2>3. Len(queue'[k]) = a + 1 /\ sent'[m] = c + 1 /\ c < d /\ d - c <= b - a
    BY <1>4, <1>5, <1>6, <2>1, <2>2
  <2>4. a + 1 <= b /\ d - (c + 1) <= b - (a + 1)
    BY <2>3
  <2>5. QED
    BY <2>2, <2>3, <2>4
<1>8. \A j \in Queues : Len(queue'[j]) <= Length(j)
  BY <1>3, <1>7 DEF Roomy
<1>9. ASSUME NEW n \in Messages, sent'[n] # 0
      PROVE  Size(n) - sent'[n] <= Length(FromCore(n)) - Len(queue'[FromCore(n)])
  <2>1. FromCore(n) \in Queues /\ sent[n] \in Nat /\ sent[n] <= Size(n) /\ Size(n) \in {2, 3}
    BY Room
  <2>2. CASE n = m
    BY <1>2, <1>7, <2>2
  <2>3. CASE n # m /\ FromCore(n) = k
    <3>1. Traffic[n].src = t
      BY <1>2, <2>3 DEF FromCore
    <3>2. sent'[n] = Size(n)
      BY <1>1, <1>3, <1>9, <2>3, <3>1
    <3>3. QED
      BY <1>4, <1>5, <1>7, <2>1, <2>3, <3>2
  <2>4. CASE n # m /\ FromCore(n) # k
    BY <1>3, <1>9, <2>1, <2>4 DEF Roomy
  <2>5. QED
    BY <2>2, <2>3, <2>4
<1>10. QED
  BY <1>8, <1>9 DEF Roomy

(* What a task leaves of its queue.                                        *)
LEMMA RunShifts ==
  ASSUME NEW gone, RInv(gone), NEW t \in Tile, NEW q \in Channels, Run(t, q),
         NEW k, k = <<t, "IQ", q>>, NEW n, n = Params(q)
  PROVE  /\ k \in Queues /\ k[2] = "IQ" /\ n \in 1 .. Len(queue[k]) /\ n \in {2, 3}
         /\ Less(k, n)
         /\ \A j \in Queues : j # k => queue'[j] = queue[j]
         /\ sent' = sent
<1>1. /\ Len(queue[k]) >= n /\ queue' = [queue EXCEPT ![k] = SubSeq(@, n + 1, Len(@))]
      /\ UNCHANGED <<open, next_d, sent>>
  BY DEF Run
<1>2. k \in Queues /\ k[2] = "IQ" /\ n \in {2, 3}
  BY Lengths DEF Queues
<1>3. queue[k] \in Seq(Flit) /\ Len(queue[k]) \in Nat /\ queue \in [Queues -> Seq(Flit)]
  BY <1>2, LenProperties DEF RInv, Typed
<1>4. n \in 1 .. Len(queue[k])
  BY <1>1, <1>2, <1>3
<1>5. /\ queue'[k] = SubSeq(queue[k], n + 1, Len(queue[k]))
      /\ \A j \in Queues : j # k => queue'[j] = queue[j]
  BY <1>1, <1>2, <1>3
<1>6. Less(k, n)
  <2>1. PICK s \in Seq(Flit) : s = queue[k]
    BY <1>3
  <2>2. PICK j \in 1 .. Len(s) : j = n
    BY <1>4, <2>1
  <2>3. PICK r : r = queue'[k]
    OBVIOUS
  <2>4. r = SubSeq(s, j + 1, Len(s))
    BY <1>5, <2>1, <2>2, <2>3
  <2>5. Len(r) = Len(s) - j /\ \A i \in 1 .. Len(r) : r[i] = s[i + j]
    BY <2>4, Popped
  <2>6. QED
    BY <2>1, <2>2, <2>3, <2>5 DEF Less
<1>7. QED
  BY <1>1, <1>2, <1>4, <1>5, <1>6

LEMMA RunRoom ==
  ASSUME NEW gone, RInv(gone), Roomy, NEW t \in Tile, NEW q \in Channels, Run(t, q)
  PROVE  Roomy'
<1>1. PICK k, n : k = <<t, "IQ", q>> /\ n = Params(q)
  OBVIOUS
<1>2. /\ k \in Queues /\ k[2] = "IQ" /\ n \in 1 .. Len(queue[k])
      /\ Len(queue'[k]) = Len(queue[k]) - n
      /\ \A j \in Queues : j # k => queue'[j] = queue[j]
      /\ sent' = sent
  BY <1>1, RunShifts DEF Less
<1>3. Len(queue'[k]) <= Length(k)
  <2>1. Len(queue[k]) \in Nat /\ Length(k) \in Nat /\ Len(queue[k]) <= Length(k)
    BY <1>2, Room DEF Roomy
  <2>2. QED
    BY <1>2, <2>1
<1>4. \A m \in Messages : FromCore(m) \in Queues /\ FromCore(m) # k
  BY <1>2, Room
<1>5. QED
  BY <1>2, <1>3, <1>4 DEF Roomy

(* The state has the shape its comments say, and no queue ever holds more  *)
(* than it has room for, although the guard of an output is evaluated      *)
(* before others are served and a message may turn into another channel.   *)
THEOREM NoQueueOverflows == Spec => []TypeOK
<1>1. Init => RoutesInvariant /\ Roomy
  <2>1. SUFFICES ASSUME Init PROVE Roomy
    BY RoutesInit
  <2>2. \A k \in Queues : Len(queue[k]) = 0
    BY <2>1 DEF Init
  <2>3. PICK gone : RInv(gone)
    BY <2>1, RoutesInit DEF RoutesInvariant
  <2>4. \A k \in Queues : Length(k) \in Nat
    BY <2>3, Room
  <2>5. QED
    BY <2>1, <2>2, <2>4 DEF Init, Roomy
<1>2. RoutesInvariant /\ Roomy /\ [Next]_vars => RoutesInvariant' /\ Roomy'
  <2>1. SUFFICES ASSUME RoutesInvariant, Roomy, [Next]_vars PROVE Roomy'
    BY RoutesNext
  <2>2. PICK gone : RInv(gone)
    BY <2>1 DEF RoutesInvariant
  <2>3. CASE UNCHANGED vars
    BY <2>1, <2>3 DEF vars, Roomy
  <2>4. \A t \in Tile, q \in Channels : Route(t, q) => Roomy'
    BY <2>1, <2>2, RouteRoom
  <2>5. \A t \in Tile : Send(t) => Roomy'
    BY <2>1, <2>2, SendRoom
  <2>6. \A t \in Tile, q \in Channels : Run(t, q) => Roomy'
    BY <2>1, <2>2, RunRoom
  <2>7. QED
    BY <2>1, <2>3, <2>4, <2>5, <2>6 DEF Next, Tick, Network, Core
<1>3. RoutesInvariant /\ Roomy => TypeOK
  <2>1. SUFFICES ASSUME RoutesInvariant, Roomy PROVE TypeOK
    OBVIOUS
  <2>2. PICK gone : RInv(gone)
    BY <2>1 DEF RoutesInvariant
  <2>3. \A m \in Messages : sent[m] \in 0 .. Size(m)
    BY <2>2, Room
  <2>4. QED
    BY <2>1, <2>2, <2>3 DEF RInv, Typed, Roomy, TypeOK
<1>4. QED
  BY <1>1, <1>2, <1>3, PTL DEF Spec

-----------------------------------------------------------------------------
(* A flit in a queue was sent and its task has not run, it is in no other  *)
(* place, and a flit that was sent is in some place until its task has run.*)
HasRun(m) == \E r \in ran : r[1] = m

Known ==
  \A k \in Queues : \A i \in 1 .. Len(queue[k]) :
     queue[k][i][2] <= sent[queue[k][i][1]] /\ ~HasRun(queue[k][i][1])
Once ==
  \A k, l \in Queues : \A i \in 1 .. Len(queue[k]), j \in 1 .. Len(queue[l]) :
     queue[k][i] = queue[l][j] => k = l /\ i = j
Somewhere ==
  \A f \in Flit : f[2] <= sent[f[1]] /\ ~HasRun(f[1]) =>
     \E k \in Queues : \E i \in 1 .. Len(queue[k]) : queue[k][i] = f
Complete == \A m \in Messages : HasRun(m) => sent[m] = Size(m)

Placed == Known /\ Once /\ Somewhere /\ Complete

(* The flit that is j-th in queue l is afterwards in place now[<<l, j>>].  *)
Goes(now, l, j) ==
  /\ now[<<l, j>>][1] \in Queues /\ now[<<l, j>>][2] \in 1 .. Len(queue'[now[<<l, j>>][1]])
  /\ queue'[now[<<l, j>>][1]][now[<<l, j>>][2]] = queue[l][j]
Came(now, k, i) ==
  \E l \in Queues : \E j \in 1 .. Len(queue[l]) :
     now[<<l, j>>] = <<k, i>> /\ queue'[k][i] = queue[l][j]

(* Flits that all come from a place of their own stay apart.               *)
LEMMA ApartStays ==
  ASSUME NEW now, Once, \A k \in Queues : \A i \in 1 .. Len(queue'[k]) : Came(now, k, i)
  PROVE  Once'
<1>1. ASSUME NEW k \in Queues, NEW i \in 1 .. Len(queue'[k]), NEW a \in Queues,
             NEW b \in 1 .. Len(queue'[a]), queue'[k][i] = queue'[a][b]
      PROVE  k = a /\ i = b
  <2>1. Came(now, k, i) /\ Came(now, a, b)
    OBVIOUS
  <2>2. PICK l \in Queues :
          \E j \in 1 .. Len(queue[l]) : now[<<l, j>>] = <<k, i>> /\ queue'[k][i] = queue[l][j]
    BY <2>1 DEF Came
  <2>3. PICK j \in 1 .. Len(queue[l]) : now[<<l, j>>] = <<k, i>> /\ queue'[k][i] = queue[l][j]
    BY <2>2
  <2>4. PICK g \in Queues :
          \E h \in 1 .. Len(queue[g]) : now[<<g, h>>] = <<a, b>> /\ queue'[a][b] = queue[g][h]
    BY <2>1 DEF Came
  <2>5. PICK h \in 1 .. Len(queue[g]) : now[<<g, h>>] = <<a, b>> /\ queue'[a][b] = queue[g][h]
    BY <2>4
  <2>6. queue[l][j] = queue[g][h]
    BY <1>1, <2>3, <2>5
  <2>7. l = g /\ j = h
    BY <2>6 DEF Once
  <2>8. <<k, i>> = <<a, b>>
    BY <2>3, <2>5, <2>7
  <2>9. QED
    BY <2>8
<1>2. QED
  BY <1>1 DEF Once

(* A step of a router moves flits from place to place.                     *)
LEMMA RoutePlaces ==
  ASSUME NEW gone, RInv(gone), NEW t \in Tile, NEW q \in Channels, Route(t, q)
  PROVE  /\ sent' = sent /\ ran' = ran
         /\ \E now : /\ \A l \in Queues : \A j \in 1 .. Len(queue[l]) : Goes(now, l, j)
                     /\ \A k \in Queues : \A i \in 1 .. Len(queue'[k]) : Came(now, k, i)
<1>1. PICK from, used, to, tk :
         /\ used = Used(from) /\ (\A d \in used : May(t, d, q, from[d])) /\ Move(t, q, from)
         /\ Shifted(gone, t, q, from, used, to, tk)
  BY RouteShifts
<1> DEFINE From(d) == <<t, from[d], q>>
           To(d) == Fed(t, d, to[d])
<1>2. PICK put : put = [d \in used |-> Len(queue[To(d)])]
  OBVIOUS
<1>3. PICK now : now = [p \in Queues \X Nat |->
         IF \E d \in used : p[1] = From(d)
         THEN LET d == CHOOSE e \in used : p[1] = From(e)
              IN IF p[2] <= Len(tk[d]) THEN <<To(d), put[d] + p[2]>> ELSE <<p[1], p[2] - Len(tk[d])>>
         ELSE p]
  OBVIOUS
<1>4. /\ \A d, e \in used : /\ From(d) = From(e) => d = e
                            /\ To(d) = To(e) => d = e
                            /\ To(d) # From(e)
      /\ \A d \in used : From(d) \in Queues /\ To(d) \in Queues
  BY <1>1 DEF Shifted
<1>5. ASSUME NEW d \in used
      PROVE  /\ Len(tk[d]) \in 1 .. Len(queue[From(d)])
             /\ \A i \in 1 .. Len(tk[d]) : tk[d][i] = queue[From(d)][i]
  <2>1. Continues(gone, t, q, d, from[d], queue[From(d)], tk[d], to[d])
    BY <1>1 DEF Shifted
  <2>2. QED
    BY <2>1 DEF Continues
<1>6. ASSUME NEW k \in Queues
      PROVE  \/ \E d \in used : k = From(d) /\ Less(k, Len(tk[d]))
             \/ \E d \in used : k = To(d) /\ More(k, tk[d])
             \/ (\A d \in used : k # From(d) /\ k # To(d)) /\ queue'[k] = queue[k]
  BY <1>1, QueueShifts
<1>7. \A k \in Queues : Len(queue[k]) \in Nat
  BY Room
<1>8. \A a, b, j \in Nat : 1 <= j /\ j <= b => a + j \in 1 .. a + b /\ j \in 1 .. b /\ j \in 1 .. b + a
  OBVIOUS
<1>9. \A a, b \in Nat : \A i \in 1 .. a + b : ~(i <= a) =>
         i - a \in Nat /\ 1 <= i - a /\ i - a <= b /\ a + (i - a) = i
  OBVIOUS
<1> HIDE DEF From, To
<1>10. ASSUME NEW d \in used, NEW j \in Nat
      PROVE  now[<<From(d), j>>] = IF j <= Len(tk[d]) THEN <<To(d), put[d] + j>> ELSE <<From(d), j - Len(tk[d])>>
  <2>1. (CHOOSE e \in used : From(d) = From(e)) = d
    BY <1>4
  <2>2. <<From(d), j>> \in Queues \X Nat
    BY <1>4
  <2>3. QED
    BY <1>3, <2>1, <2>2
<1>11. ASSUME NEW l \in Queues, NEW j \in Nat, \A d \in used : l # From(d)
      PROVE  now[<<l, j>>] = <<l, j>>
  BY <1>3, <1>11
<1>12. ASSUME NEW d \in used
       PROVE  /\ Len(tk[d]) \in Nat /\ Len(tk[d]) <= Len(queue[From(d)])
              /\ Len(queue'[From(d)]) = Len(queue[From(d)]) - Len(tk[d])
              /\ \A i \in 1 .. Len(queue'[From(d)]) : queue'[From(d)][i] = queue[From(d)][i + Len(tk[d])]
  <2>1. From(d) \in Queues /\ \A e \in used : From(d) # To(e) /\ (From(d) = From(e) => e = d)
    BY <1>4
  <2>2. Len(tk[d]) \in Nat /\ Len(tk[d]) <= Len(queue[From(d)])
    BY <1>5, <1>7, <2>1
  <2>3. Less(From(d), Len(tk[d]))
    BY <1>6, <2>1
  <2>4. QED
    BY <2>2, <2>3 DEF Less
<1>13. ASSUME NEW d \in used
       PROVE  /\ put[d] = Len(queue[To(d)])
              /\ Len(queue'[To(d)]) = Len(queue[To(d)]) + Len(tk[d])
              /\ \A i \in 1 .. Len(queue[To(d)]) : queue'[To(d)][i] = queue[To(d)][i]
              /\ \A i \in 1 .. Len(tk[d]) : queue'[To(d)][Len(queue[To(d)]) + i] = queue[From(d)][i]
  <2>1. To(d) \in Queues /\ \A e \in used : To(d) # From(e) /\ (To(d) = To(e) => e = d)
    BY <1>4
  <2>2. /\ Len(queue'[To(d)]) = Len(queue[To(d)]) + Len(tk[d])
        /\ \A i \in 1 .. Len(queue[To(d)]) : queue'[To(d)][i] = queue[To(d)][i]
        /\ \A i \in 1 .. Len(tk[d]) : queue'[To(d)][Len(queue[To(d)]) + i] = tk[d][i]
    <3>1. More(To(d), tk[d])
      BY <1>6, <2>1
    <3>2. QED
      BY <3>1 DEF More
  <2>3. QED
    BY <1>2, <1>5, <2>2
<1>14. ASSUME NEW k \in Queues, \A d \in used : k # From(d) /\ k # To(d)
       PROVE  queue'[k] = queue[k]
  BY <1>6, <1>14
<1>15. ASSUME NEW l \in Queues, NEW j \in 1 .. Len(queue[l])
       PROVE  Goes(now, l, j)
  <2>1. j \in Nat /\ 1 <= j /\ j <= Len(queue[l])
    BY <1>7
  <2>2. CASE \E d \in used : l = From(d)
    <3>1. PICK d \in used : l = From(d)
      BY <2>2
    <3>2. CASE j <= Len(tk[d])
      <4>1. now[<<l, j>>] = <<To(d), Len(queue[To(d)]) + j>> /\ To(d) \in Queues
        BY <1>4, <1>10, <1>13, <2>1, <3>1, <3>2
      <4>2. /\ Len(queue[To(d)]) \in Nat /\ Len(tk[d]) \in Nat
            /\ Len(queue'[To(d)]) = Len(queue[To(d)]) + Len(tk[d])
        BY <1>7, <1>12, <1>13, <4>1
      <4>3. Len(queue[To(d)]) + j \in 1 .. Len(queue'[To(d)]) /\ j \in 1 .. Len(tk[d])
        BY <1>8, <2>1, <3>2, <4>2
      <4>4. queue'[To(d)][Len(queue[To(d)]) + j] = queue[l][j]
        BY <1>13, <3>1, <4>3
      <4>5. QED
        BY <4>1, <4>3, <4>4 DEF Goes
    <3>3. CASE ~(j <= Len(tk[d]))
      <4>1. now[<<l, j>>] = <<l, j - Len(tk[d])>>
        BY <1>10, <2>1, <3>1, <3>3
      <4>2. Len(queue[l]) \in Nat /\ Len(tk[d]) \in Nat /\ Len(queue'[l]) = Len(queue[l]) - Len(tk[d])
        BY <1>7, <1>12, <3>1
      <4>3. j - Len(tk[d]) \in 1 .. Len(queue'[l]) /\ (j - Len(tk[d])) + Len(tk[d]) = j
        BY <2>1, <3>3, <4>2
      <4>4. queue'[l][j - Len(tk[d])] = queue[l][j]
        BY <1>12, <3>1, <4>3
      <4>5. QED
        BY <4>1, <4>3, <4>4 DEF Goes
    <3>4. QED
      BY <3>2, <3>3
  <2>3. CASE \A d \in used : l # From(d)
    <3>1. now[<<l, j>>] = <<l, j>>
      BY <1>11, <2>1, <2>3
    <3>2. j \in 1 .. Len(queue'[l]) /\ queue'[l][j] = queue[l][j]
      <4>1. CASE \E d \in used : l = To(d)
        <5>1. PICK d \in used : l = To(d)
          BY <4>1
        <5>2. Len(queue[l]) \in Nat /\ Len(tk[d]) \in Nat /\ Len(queue'[l]) = Len(queue[l]) + Len(tk[d])
          BY <1>7, <1>12, <1>13, <5>1
        <5>3. j \in 1 .. Len(queue'[l])
          BY <1>8, <2>1, <5>2
        <5>4. QED
          BY <1>13, <5>1, <5>3
      <4>2. CASE \A d \in used : l # To(d)
        BY <1>14, <2>3, <4>2
      <4>3. QED
        BY <4>1, <4>2
    <3>3. QED
      BY <3>1, <3>2 DEF Goes
  <2>4. QED
    BY <2>2, <2>3
<1>16. ASSUME NEW k \in Queues, NEW i \in 1 .. Len(queue'[k])
       PROVE  Came(now, k, i)
  <2>1. CASE \E d \in used : k = From(d)
    <3>1. PICK d \in used : k = From(d)
      BY <2>1
    <3>2. /\ i + Len(tk[d]) \in 1 .. Len(queue[k]) /\ i + Len(tk[d]) \in Nat
          /\ ~(i + Len(tk[d]) <= Len(tk[d])) /\ (i + Len(tk[d])) - Len(tk[d]) = i
      <4>1. Len(queue[k]) \in Nat /\ Len(tk[d]) \in Nat /\ Len(queue'[k]) = Len(queue[k]) - Len(tk[d])
        BY <1>7, <1>12, <3>1
      <4>2. QED
        BY <4>1
    <3>3. now[<<k, i + Len(tk[d])>>] = <<k, i>>
      BY <1>10, <3>1, <3>2
    <3>4. queue'[k][i] = queue[k][i + Len(tk[d])]
      BY <1>12, <3>1
    <3>5. QED
      BY <3>2, <3>3, <3>4 DEF Came
  <2>2. CASE \A d \in used : k # From(d)
    <3>1. CASE \E d \in used : k = To(d)
      <4>1. PICK d \in used : k = To(d)
        BY <3>1
      <4>2. CASE i <= Len(queue[k])
        <5>1. i \in 1 .. Len(queue[k]) /\ i \in Nat
          BY <1>7, <4>2
        <5>2. now[<<k, i>>] = <<k, i>> /\ queue'[k][i] = queue[k][i]
          BY <1>11, <1>13, <2>2, <4>1, <5>1
        <5>3. QED
          BY <5>1, <5>2 DEF Came
      <4>3. CASE ~(i <= Len(queue[k]))
        <5>1. PICK j : j = i - Len(queue[k])
          OBVIOUS
        <5>2. /\ j \in Nat /\ 1 <= j /\ j <= Len(tk[d]) /\ Len(queue[k]) + j = i
              /\ j \in 1 .. Len(queue[From(d)]) /\ j \in 1 .. Len(tk[d])
          <6>1. /\ Len(queue[k]) \in Nat /\ Len(tk[d]) \in Nat /\ Len(queue'[k]) = Len(queue[k]) + Len(tk[d])
                /\ Len(queue[From(d)]) \in Nat /\ Len(tk[d]) <= Len(queue[From(d)])
            BY <1>4, <1>7, <1>12, <1>13, <4>1
          <6>2. PICK a, b \in Nat : a = Len(queue[k]) /\ b = Len(tk[d]) /\ Len(queue'[k]) = a + b
            BY <6>1
          <6>3. i \in 1 .. a + b /\ ~(i <= a) /\ j = i - a
            BY <4>3, <5>1, <6>2
          <6>4. j \in Nat /\ 1 <= j /\ j <= b /\ a + j = i
            <7>1. i - a \in Nat /\ 1 <= i - a /\ i - a <= b /\ a + (i - a) = i
              BY <1>9, <6>3
            <7>2. QED
              BY <6>3, <7>1
          <6>5. j \in Nat /\ 1 <= j /\ j <= Len(tk[d]) /\ Len(queue[k]) + j = i
            BY <6>2, <6>4
          <6>6. QED
            BY <6>1, <6>5
        <5>3. now[<<From(d), j>>] = <<k, i>>
          BY <1>10, <1>13, <4>1, <5>2
        <5>4. queue'[k][i] = queue[From(d)][j]
          BY <1>13, <4>1, <5>2
        <5>5. QED
          BY <1>4, <5>2, <5>3, <5>4 DEF Came
      <4>4. QED
        BY <4>2, <4>3
    <3>2. CASE \A d \in used : k # To(d)
      <4>1. queue'[k] = queue[k] /\ i \in 1 .. Len(queue[k]) /\ i \in Nat
        BY <1>7, <1>14, <2>2, <3>2
      <4>2. now[<<k, i>>] = <<k, i>> /\ queue'[k][i] = queue[k][i]
        BY <1>11, <2>2, <4>1
      <4>3. QED
        BY <4>1, <4>2 DEF Came
    <3>3. QED
      BY <3>1, <3>2
  <2>3. QED
    BY <2>1, <2>2
<1>17. QED
  BY <1>1, <1>15, <1>16 DEF Move

LEMMA RoutePlaced ==
  ASSUME NEW gone, RInv(gone), Placed, NEW t \in Tile, NEW q \in Channels, Route(t, q)
  PROVE  Placed'
<1>1. PICK now : /\ sent' = sent /\ ran' = ran
                 /\ \A l \in Queues : \A j \in 1 .. Len(queue[l]) : Goes(now, l, j)
                 /\ \A k \in Queues : \A i \in 1 .. Len(queue'[k]) : Came(now, k, i)
  BY RoutePlaces
<1>2. \A m : HasRun(m)' <=> HasRun(m)
  BY <1>1 DEF HasRun
<1>3. Once'
  BY <1>1, ApartStays DEF Placed
<1>4. Known'
  <2>1. ASSUME NEW k \in Queues, NEW i \in 1 .. Len(queue'[k])
        PROVE  queue'[k][i][2] <= sent[queue'[k][i][1]] /\ ~HasRun(queue'[k][i][1])
    <3>1. \E l \in Queues : \E j \in 1 .. Len(queue[l]) : queue'[k][i] = queue[l][j]
      BY <1>1 DEF Came
    <3>2. QED
      BY <3>1 DEF Placed, Known
  <2>2. QED
    BY <1>1, <1>2, <2>1 DEF Known
<1>5. Somewhere'
  <2>1. ASSUME NEW f \in Flit, f[2] <= sent[f[1]], ~HasRun(f[1])
        PROVE  \E k \in Queues : \E i \in 1 .. Len(queue'[k]) : queue'[k][i] = f
    <3>1. PICK l \in Queues : \E j \in 1 .. Len(queue[l]) : queue[l][j] = f
      BY <2>1 DEF Placed, Somewhere
    <3>2. PICK j \in 1 .. Len(queue[l]) : queue[l][j] = f
      BY <3>1
    <3>3. Goes(now, l, j)
      BY <1>1
    <3>4. QED
      BY <3>2, <3>3 DEF Goes
  <2>2. QED
    BY <1>1, <1>2, <2>1 DEF Somewhere
<1>6. Complete'
  BY <1>1, <1>2 DEF Placed, Complete
<1>7. QED
  BY <1>3, <1>4, <1>5, <1>6 DEF Placed

(* A task queues a flit that was not sent before.                          *)
LEMMA SendPlaced ==
  ASSUME NEW gone, RInv(gone), Placed, NEW t \in Tile, Send(t)
  PROVE  Placed'
<1>1. PICK m \in Messages :
        /\ sent[m] < Size(m) /\ sent' = [sent EXCEPT ![m] = @ + 1] /\ ran' = ran
        /\ queue' = [queue EXCEPT ![FromCore(m)] = Append(@, <<m, sent[m] + 1>>)]
  BY DEF Send, FromCore
<1>2. PICK k, f : k = FromCore(m) /\ f = <<m, sent[m] + 1>>
  OBVIOUS
<1>3. k \in Queues /\ sent[m] \in Nat /\ \A n \in Messages : sent[n] \in Nat
  BY <1>2, Room
<1>4. /\ queue'[k] = Append(queue[k], f) /\ \A j \in Queues : j # k => queue'[j] = queue[j]
      /\ \A n \in Messages : sent'[n] = IF n = m THEN sent[m] + 1 ELSE sent[n]
  BY <1>1, <1>2, <1>3 DEF RInv, Typed
<1>5. \A j \in Queues : queue[j] \in Seq(Flit) /\ Len(queue[j]) \in Nat
  BY LenProperties DEF RInv, Typed
<1>6. /\ Len(queue'[k]) = Len(queue[k]) + 1 /\ queue'[k][Len(queue[k]) + 1] = f
      /\ \A i \in 1 .. Len(queue[k]) : queue'[k][i] = queue[k][i]
  <2> DEFINE s == queue[k]
             r == queue'[k]
  <2>1. s \in Seq(Flit) /\ r = Append(s, f)
    BY <1>3, <1>4, <1>5
  <2>2. f \in Flit
    <3>1. sent[m] + 1 \in 1 .. 3 /\ sent[m] + 1 <= Size(m)
      BY <1>1, <1>3, Room
    <3>2. QED
      BY <1>2, <3>1 DEF Flit
  <2> HIDE DEF s, r
  <2>3. /\ Len(r) = Len(s) + 1 /\ r[Len(s) + 1] = f
        /\ \A i \in 1 .. Len(s) : r[i] = s[i]
    BY <2>1, <2>2, AppendProperties
  <2>4. QED
    BY <2>3 DEF s, r
<1>7. ASSUME NEW j \in Queues, NEW i \in 1 .. Len(queue'[j])
      PROVE  \/ i \in 1 .. Len(queue[j]) /\ queue'[j][i] = queue[j][i]
             \/ j = k /\ i = Len(queue[k]) + 1 /\ queue'[j][i] = f
  <2>1. CASE j # k
    BY <1>4, <2>1
  <2>2. CASE j = k
    <3>1. PICK n \in Nat : n = Len(queue[k]) /\ Len(queue'[k]) = n + 1
      BY <1>3, <1>5, <1>6
    <3>2. i \in 1 .. n + 1
      BY <2>2, <3>1
    <3>3. i \in 1 .. n \/ i = n + 1
      BY <3>2
    <3>4. QED
      BY <1>6, <2>2, <3>1, <3>3
  <2>3. QED
    BY <2>1, <2>2
<1>8. ASSUME NEW j \in Queues, NEW i \in 1 .. Len(queue[j])
      PROVE  i \in 1 .. Len(queue'[j]) /\ queue'[j][i] = queue[j][i]
  <2>1. CASE j # k
    BY <1>4, <2>1
  <2>2. CASE j = k
    <3>1. PICK n \in Nat : n = Len(queue[k]) /\ Len(queue'[k]) = n + 1
      BY <1>3, <1>5, <1>6
    <3>2. i \in 1 .. n
      BY <2>2, <3>1
    <3>3. i \in 1 .. n + 1
      BY <3>2
    <3>4. QED
      BY <1>6, <2>2, <3>1, <3>2, <3>3
  <2>3. QED
    BY <2>1, <2>2
<1>9. \A n : HasRun(n)' <=> HasRun(n)
  BY <1>1 DEF HasRun
<1>10. ~HasRun(m)
  BY <1>1, Room DEF Placed, Complete
<1>11. \A j \in Queues : \A i \in 1 .. Len(queue[j]) :
          /\ queue[j][i] \in Flit /\ queue[j][i][1] \in Messages /\ queue[j][i][2] \in Nat /\ queue[j][i] # f
          /\ queue[j][i][2] <= sent[queue[j][i][1]] /\ ~HasRun(queue[j][i][1])
  <2>1. ASSUME NEW j \in Queues, NEW i \in 1 .. Len(queue[j]), NEW g, g = queue[j][i]
        PROVE  /\ g \in Flit /\ g[1] \in Messages /\ g[2] \in Nat /\ g # f
               /\ g[2] <= sent[g[1]] /\ ~HasRun(g[1])
    <3>1. g \in Flit
      BY <1>5, <2>1, ElementOfSeq
    <3>2. g[1] \in Messages /\ g[2] \in Nat
      BY <3>1, Flits DEF Place
    <3>3. g[2] <= sent[g[1]] /\ ~HasRun(g[1])
      BY <2>1 DEF Placed, Known
    <3>4. g # f
      <4>1. ASSUME g = f
            PROVE  FALSE
        <5>1. g[1] = m /\ g[2] = sent[m] + 1
          BY <1>2, <4>1
        <5>2. QED
          BY <1>3, <3>3, <5>1
      <4>2. QED
        BY <4>1
    <3>5. QED
      BY <3>1, <3>2, <3>3, <3>4
  <2>2. QED
    BY <2>1
<1>12. Known'
  <2>1. ASSUME NEW j \in Queues, NEW i \in 1 .. Len(queue'[j])
        PROVE  queue'[j][i][2] <= sent'[queue'[j][i][1]] /\ ~HasRun(queue'[j][i][1])
    <3>1. CASE i \in 1 .. Len(queue[j]) /\ queue'[j][i] = queue[j][i]
      <4>1. PICK g : g = queue[j][i]
        OBVIOUS
      <4>2. g[1] \in Messages /\ g[2] \in Nat /\ g[2] <= sent[g[1]] /\ ~HasRun(g[1])
        BY <1>11, <3>1, <4>1
      <4>3. g[2] <= sent'[g[1]]
        BY <1>3, <1>4, <4>2
      <4>4. QED
        BY <3>1, <4>1, <4>2, <4>3
    <3>2. CASE queue'[j][i] = f
      <4>1. f[1] = m /\ f[2] = sent'[m] /\ sent'[m] \in Nat
        BY <1>2, <1>3, <1>4
      <4>2. QED
        BY <1>10, <3>2, <4>1
    <3>3. QED
      BY <1>7, <3>1, <3>2
  <2>2. QED
    BY <1>9, <2>1 DEF Known
<1>13. Once'
  <2>1. ASSUME NEW j \in Queues, NEW i \in 1 .. Len(queue'[j]), NEW l \in Queues,
               NEW h \in 1 .. Len(queue'[l]), queue'[j][i] = queue'[l][h]
        PROVE  j = l /\ i = h
    <3>1. CASE i \in 1 .. Len(queue[j]) /\ queue'[j][i] = queue[j][i]
      <4>1. h \in 1 .. Len(queue[l]) /\ queue'[l][h] = queue[l][h]
        BY <1>7, <1>11, <2>1, <3>1
      <4>2. queue[j][i] = queue[l][h]
        BY <2>1, <3>1, <4>1
      <4>3. QED
        BY <3>1, <4>1, <4>2 DEF Placed, Once
    <3>2. CASE j = k /\ i = Len(queue[k]) + 1 /\ queue'[j][i] = f
      <4>1. l = k /\ h = Len(queue[k]) + 1
        BY <1>7, <1>11, <2>1, <3>2
      <4>2. QED
        BY <3>2, <4>1
    <3>3. QED
      BY <1>7, <3>1, <3>2
  <2>2. QED
    BY <2>1 DEF Once
<1>14. Somewhere'
  <2>1. ASSUME NEW g \in Flit, g[2] <= sent'[g[1]], ~HasRun(g[1])
        PROVE  \E j \in Queues : \E i \in 1 .. Len(queue'[j]) : queue'[j][i] = g
    <3>1. g[1] \in Messages /\ g[2] \in Nat /\ g = <<g[1], g[2]>>
      BY Flits DEF Place
    <3>2. CASE g[2] <= sent[g[1]]
      <4>1. PICK j \in Queues : \E i \in 1 .. Len(queue[j]) : queue[j][i] = g
        BY <2>1, <3>2 DEF Placed, Somewhere
      <4>2. QED
        BY <1>8, <4>1
    <3>3. CASE ~(g[2] <= sent[g[1]])
      <4>1. g[1] = m /\ g[2] = sent[m] + 1
        BY <1>3, <1>4, <2>1, <3>1, <3>3
      <4>2. g = f
        BY <1>2, <3>1, <4>1
      <4>3. Len(queue[k]) + 1 \in 1 .. Len(queue'[k])
        BY <1>3, <1>5, <1>6
      <4>4. QED
        BY <1>3, <1>6, <4>2, <4>3
    <3>4. QED
      BY <3>2, <3>3
  <2>2. QED
    BY <1>9, <2>1 DEF Somewhere
<1>15. Complete'
  BY <1>4, <1>9, <1>10 DEF Placed, Complete
<1>16. QED
  BY <1>12, <1>13, <1>14, <1>15 DEF Placed

(* A task takes all flits of its message, which were sent, and no others.  *)
LEMMA RunPlaced ==
  ASSUME NEW gone, RInv(gone), Placed, NEW t \in Tile, NEW q \in Channels, Run(t, q)
  PROVE  /\ Placed'
         /\ \E m \in Messages : /\ m = queue[<<t, "IQ", q>>][1][1] /\ ~HasRun(m)
                                /\ ran' = ran \union {<<m, t, q>>}
<1>1. PICK k, n, s : k = <<t, "IQ", q>> /\ n = Params(q) /\ s = queue[k]
  OBVIOUS
<1>2. /\ k \in Queues /\ k[2] = "IQ" /\ n \in 1 .. Len(s) /\ n \in {2, 3}
      /\ Less(k, n)
      /\ \A j \in Queues : j # k => queue'[j] = queue[j]
      /\ sent' = sent
  BY <1>1, RunShifts
<1>3. PICK m : m = s[1][1]
  OBVIOUS
<1>4. m \in Messages /\ Size(m) = n /\ \A i \in 1 .. n : s[i] = <<m, i>>
  <2>1. Len(s) >= Params(q)
    BY <1>1 DEF Run
  <2>2. s = queue[<<t, "IQ", q>>]
    BY <1>1
  <2>3. /\ s[1][1] \in Messages /\ Size(s[1][1]) = Params(q)
        /\ \A i \in 1 .. Params(q) : s[i] = <<s[1][1], i>>
    BY <2>1, <2>2, FrontMessage
  <2>4. QED
    BY <1>1, <1>3, <2>3
<1>5. ran' = ran \union {<<m, t, q>>}
  BY <1>1, <1>3 DEF Run
<1>6. \A a : HasRun(a)' <=> HasRun(a) \/ a = m
  <2>1. <<m, t, q>>[1] = m
    OBVIOUS
  <2>2. \A r : r \in ran' <=> r \in ran \/ r = <<m, t, q>>
    BY <1>5
  <2>3. QED
    BY <2>1, <2>2 DEF HasRun
<1>7. \A j \in Queues : queue[j] \in Seq(Flit) /\ Len(queue[j]) \in Nat
  BY LenProperties DEF RInv, Typed
<1>8. \A i \in 1 .. n : i \in 1 .. Len(s) /\ s[i] = queue[k][i]
  BY <1>1, <1>2, <1>7
<1>9. ~HasRun(m) /\ sent[m] = n
  <2>1. n \in 1 .. n /\ n \in Nat
    BY <1>2
  <2>2. s[n] = <<m, n>> /\ n \in 1 .. Len(s) /\ s[n] = queue[k][n]
    BY <1>4, <1>8, <2>1
  <2>3. n <= sent[m] /\ ~HasRun(m)
    BY <1>1, <1>2, <2>2 DEF Placed, Known
  <2>4. sent[m] \in Nat /\ sent[m] <= n
    BY <1>4, Room
  <2>5. QED
    BY <2>1, <2>3, <2>4
<1>10. ASSUME NEW i \in 1 .. Len(queue'[k])
       PROVE  i + n \in 1 .. Len(queue[k]) /\ i + n > n /\ queue'[k][i] = queue[k][i + n]
  <2>1. PICK a \in Nat : a = Len(queue[k]) /\ n <= a /\ Len(queue'[k]) = a - n /\ n \in Nat
    BY <1>1, <1>2, <1>7 DEF Less
  <2>2. i \in 1 .. a - n
    BY <2>1
  <2>3. i + n \in 1 .. a /\ i + n > n
    BY <2>1, <2>2
  <2>4. QED
    BY <1>2, <2>1, <2>3 DEF Less
<1>11. ASSUME NEW i \in 1 .. Len(queue[k]), i > n
       PROVE  i - n \in 1 .. Len(queue'[k]) /\ queue'[k][i - n] = queue[k][i]
  <2>1. PICK a \in Nat : a = Len(queue[k]) /\ n <= a /\ Len(queue'[k]) = a - n /\ n \in Nat
    BY <1>1, <1>2, <1>7 DEF Less
  <2>2. i \in 1 .. a
    BY <2>1
  <2>3. i - n \in 1 .. a - n /\ (i - n) + n = i
    BY <1>11, <2>1, <2>2
  <2>4. queue'[k][i - n] = queue[k][(i - n) + n]
    BY <1>2, <2>1, <2>3 DEF Less
  <2>5. QED
    BY <2>1, <2>3, <2>4
<1>12. ASSUME NEW j \in Queues, NEW i \in 1 .. Len(queue[j])
       PROVE  queue[j][i][1] = m <=> j = k /\ i <= n
  <2>1. ASSUME queue[j][i][1] = m
        PROVE  j = k /\ i <= n
    <3>1. PICK g : g = queue[j][i]
      OBVIOUS
    <3>2. g \in Flit
      BY <1>7, <3>1, ElementOfSeq
    <3>3. g[2] \in 1 .. n /\ g = <<m, g[2]>>
      BY <1>2, <1>4, <2>1, <3>1, <3>2, Flits DEF Place
    <3>4. queue[k][g[2]] = queue[j][i] /\ g[2] \in 1 .. Len(queue[k])
      BY <1>1, <1>4, <1>8, <3>1, <3>3
    <3>5. k = j /\ g[2] = i
      BY <1>2, <3>4 DEF Placed, Once
    <3>6. QED
      BY <1>2, <3>3, <3>5
  <2>2. ASSUME j = k, i <= n
        PROVE  queue[j][i][1] = m
    <3>1. i \in 1 .. n
      BY <1>2, <1>7, <2>2
    <3>2. QED
      BY <1>4, <1>8, <2>2, <3>1
  <2>3. QED
    BY <2>1, <2>2
<1>13. PICK now : now = [p \in Queues \X Nat |-> IF p[1] = k THEN <<k, p[2] - n>> ELSE p]
  OBVIOUS
<1>14. ASSUME NEW j \in Queues, NEW i \in 1 .. Len(queue'[j])
       PROVE  /\ Came(now, j, i)
              /\ \E l \in Queues : \E h \in 1 .. Len(queue[l]) :
                    queue'[j][i] = queue[l][h] /\ queue[l][h][1] # m
  <2>1. CASE j = k
    <3>1. i + n \in 1 .. Len(queue[k]) /\ ~(i + n <= n) /\ queue'[k][i] = queue[k][i + n]
      BY <1>2, <1>10, <2>1
    <3>2. now[<<k, i + n>>] = <<k, i>>
      <4>1. PICK a \in Nat : a = Len(queue'[k])
        <5>1. PICK b \in Nat : b = Len(queue[k]) /\ n <= b /\ Len(queue'[k]) = b - n /\ n \in Nat
          BY <1>1, <1>2, <1>7 DEF Less
        <5>2. b - n \in Nat
          BY <5>1
        <5>3. QED
          BY <5>1, <5>2
      <4>2. i \in 1 .. a /\ n \in Nat
        BY <1>2, <2>1, <4>1
      <4>3. i + n \in Nat /\ (i + n) - n = i
        BY <4>2
      <4>4. QED
        BY <1>2, <1>13, <4>3
    <3>3. QED
      BY <1>2, <1>12, <2>1, <3>1, <3>2 DEF Came
  <2>2. CASE j # k
    <3>1. queue'[j] = queue[j] /\ i \in 1 .. Len(queue[j])
      BY <1>2, <2>2
    <3>2. i \in Nat
      BY <1>7, <3>1
    <3>3. now[<<j, i>>] = <<j, i>>
      BY <1>13, <2>2, <3>2
    <3>4. QED
      BY <1>12, <2>2, <3>1, <3>3 DEF Came
  <2>3. QED
    BY <2>1, <2>2
<1>15. Once'
  BY <1>14, ApartStays DEF Placed
<1>16. Known'
  <2>1. ASSUME NEW j \in Queues, NEW i \in 1 .. Len(queue'[j])
        PROVE  queue'[j][i][2] <= sent[queue'[j][i][1]] /\ \A r \in ran' : r[1] # queue'[j][i][1]
    <3>1. \E l \in Queues : \E h \in 1 .. Len(queue[l]) : queue'[j][i] = queue[l][h] /\ queue[l][h][1] # m
      BY <1>14
    <3>2. queue'[j][i][2] <= sent[queue'[j][i][1]] /\ ~HasRun(queue'[j][i][1]) /\ queue'[j][i][1] # m
      BY <3>1 DEF Placed, Known
    <3>3. QED
      BY <1>6, <3>2 DEF HasRun
  <2>2. QED
    BY <1>2, <2>1 DEF Known, HasRun
<1>17. Somewhere'
  <2>1. ASSUME NEW f \in Flit, f[2] <= sent[f[1]], ~HasRun(f[1]), f[1] # m
        PROVE  \E j \in Queues : \E i \in 1 .. Len(queue'[j]) : queue'[j][i] = f
    <3>1. PICK l \in Queues : \E h \in 1 .. Len(queue[l]) : queue[l][h] = f
      BY <2>1 DEF Placed, Somewhere
    <3>2. PICK h \in 1 .. Len(queue[l]) : queue[l][h] = f
      BY <3>1
    <3>3. CASE l # k
      BY <1>2, <3>2, <3>3
    <3>4. CASE l = k
      <4>1. h > n
        <5>1. ~(h <= n)
          BY <1>12, <2>1, <3>2, <3>4
        <5>2. h \in Nat /\ n \in Nat
          BY <1>2, <1>7
        <5>3. QED
          BY <5>1, <5>2
      <4>2. QED
        BY <1>11, <3>2, <3>4, <4>1
    <3>5. QED
      BY <3>3, <3>4
  <2>2. QED
    BY <1>2, <1>6, <2>1 DEF Somewhere
<1>18. Complete'
  BY <1>2, <1>4, <1>6, <1>9 DEF Placed, Complete
<1>19. QED
  BY <1>1, <1>3, <1>4, <1>5, <1>9, <1>15, <1>16, <1>17, <1>18 DEF Placed

LEMMA PlacedInvariant ==
  /\ Init => Placed
  /\ RoutesInvariant /\ Placed /\ [Next]_vars => Placed'
<1>1. ASSUME Init
      PROVE  Placed
  <2>1. \A k \in Queues : Len(queue[k]) = 0
    BY <1>1 DEF Init
  <2>2. \A f \in Flit : ~(f[2] <= sent[f[1]])
    <3>1. ASSUME NEW f \in Flit
          PROVE  ~(f[2] <= sent[f[1]])
      <4>1. f[1] \in Messages /\ f[2] \in 1 .. 3
        BY Flits DEF Place
      <4>2. QED
        BY <1>1, <4>1 DEF Init
    <3>2. QED
      BY <3>1
  <2>3. \A m : ~HasRun(m)
    BY <1>1 DEF Init, HasRun
  <2>4. QED
    BY <2>1, <2>2, <2>3 DEF Placed, Known, Once, Somewhere, Complete
<1>2. ASSUME RoutesInvariant, Placed, [Next]_vars
      PROVE  Placed'
  <2>1. PICK gone : RInv(gone)
    BY <1>2 DEF RoutesInvariant
  <2>2. CASE UNCHANGED vars
    BY <1>2, <2>2 DEF vars, Placed, Known, Once, Somewhere, Complete, HasRun
  <2>3. \A t \in Tile, q \in Channels : Route(t, q) => Placed'
    BY <1>2, <2>1, RoutePlaced
  <2>4. \A t \in Tile : Send(t) => Placed'
    BY <1>2, <2>1, SendPlaced
  <2>5. \A t \in Tile, q \in Channels : Run(t, q) => Placed'
    BY <1>2, <2>1, RunPlaced
  <2>6. QED
    BY <1>2, <2>2, <2>3, <2>4, <2>5 DEF Next, Tick, Network, Core
<1>3. QED
  BY <1>1, <1>2

(* No queue overflows, and every flit that was queued is in exactly one    *)
(* place of one queue until its task has run, and then in none: however    *)
(* routers move flits from queue to queue, none is lost, doubled or left   *)
(* behind.                                                                 *)
THEOREM NothingLost == Spec => []FlitsConserved
<1>1. Init => RoutesInvariant /\ Placed
  BY RoutesInit, PlacedInvariant
<1>2. RoutesInvariant /\ Placed /\ [Next]_vars => RoutesInvariant' /\ Placed'
  BY RoutesNext, PlacedInvariant
<1>3. RoutesInvariant /\ Placed => Conserved
  <2>1. SUFFICES ASSUME RoutesInvariant, Placed PROVE Conserved
    OBVIOUS
  <2>2. PICK gone : RInv(gone)
    BY <2>1 DEF RoutesInvariant
  <2>3. \A k \in Queues : queue[k] \in Seq(Flit) /\ DOMAIN queue[k] = 1 .. Len(queue[k])
    BY <2>2, LenProperties DEF RInv, Typed
  <2>4. \A k \in Queues : IsInjective(queue[k])
    BY <2>1, <2>3 DEF IsInjective, Placed, Once
  <2>5. ASSUME NEW f \in Flit
        PROVE  Cardinality(Places(f)) =
                 (IF f[2] <= sent[f[1]] /\ \A r \in ran : r[1] # f[1] THEN 1 ELSE 0)
    <3>1. \A k : k \in Places(f) <=> k \in Queues /\ \E i \in 1 .. Len(queue[k]) : queue[k][i] = f
      <4>1. \A k \in Queues : queue[k] = <<>> => Len(queue[k]) = 0
        OBVIOUS
      <4>2. QED
        BY <2>3, <4>1 DEF Places
    <3>2. CASE f[2] <= sent[f[1]] /\ \A r \in ran : r[1] # f[1]
      <4>1. PICK k \in Queues : \E i \in 1 .. Len(queue[k]) : queue[k][i] = f
        BY <2>1, <3>2 DEF Placed, Somewhere, HasRun
      <4>2. \A l : l \in Places(f) <=> l = k
        BY <2>1, <3>1, <4>1 DEF Placed, Once
      <4>3. Places(f) = {k}
        BY <4>2
      <4>4. Cardinality({k}) = 1
        BY FS_Singleton
      <4>5. QED
        BY <3>2, <4>3, <4>4
    <3>3. CASE ~(f[2] <= sent[f[1]] /\ \A r \in ran : r[1] # f[1])
      <4>1. \A k : k \notin Places(f)
        BY <2>1, <3>1, <3>3 DEF Placed, Known, HasRun
      <4>2. Places(f) = {}
        BY <4>1
      <4>3. Cardinality({}) = 0
        BY FS_EmptySet
      <4>4. QED
        BY <3>3, <4>2, <4>3
    <3>4. QED
      BY <3>2, <3>3
  <2>6. QED
    BY <2>4, <2>5 DEF Conserved
<1>4. Spec => []Conserved
  BY <1>1, <1>2, <1>3, PTL DEF Spec
<1>5. QED
  BY <1>4, NoQueueOverflows, PTL DEF FlitsConserved

-----------------------------------------------------------------------------
(* Destinations.                                                           *)
LEMMA DivMod ==
  ASSUME NEW a \in Int, NEW w \in Nat \ {0}
  PROVE  \E p \in Int, r \in Int :
            /\ p = a \div w /\ r = a % w /\ 0 <= r /\ r < w /\ a = w * p + r
<1>1. a \div w \in Int /\ a % w \in Int /\ 0 <= a % w /\ a % w < w
  OBVIOUS
<1>2. a = w * (a \div w) + (a % w)
  BY Z3
<1>3. QED
  BY <1>1, <1>2

(* A multiple of w below w is 0.                                           *)
LEMMA SmallMultiple ==
  ASSUME NEW w \in Nat \ {0}, NEW e \in Int, w * e < w, w * e > -w
  PROVE  e = 0
<1>1. e >= 1 => w * e >= w
  BY Z3
<1>2. e <= -1 => w * e <= -w
  BY Z3
<1>3. w * e \in Int
  BY Z3
<1>4. e < 1 /\ e > -1
  BY <1>1, <1>2, <1>3
<1>5. QED
  BY <1>4

LEMMA Distribute ==
  ASSUME NEW a \in Int, NEW b \in Int, NEW c \in Int, NEW w \in Int, NEW p \in Int, NEW q \in Int,
         NEW y \in Int, NEW v \in Int, a - b = w * c, a = w * p + y, b = w * q + v
  PROVE  y - v = w * (c - p + q)
BY Z3

(* Coordinates that are a multiple of PROXY_W apart are at the same place  *)
(* of their regions.                                                       *)
LEMMA SameRest ==
  ASSUME NEW a \in Int, NEW b \in Int, NEW c \in Int, NEW w \in Nat \ {0}, a - b = w * c
  PROVE  a % w = b % w
<1>1. PICK p \in Int, y \in Int : p = a \div w /\ y = a % w /\ 0 <= y /\ y < w /\ a = w * p + y
  BY DivMod
<1>2. PICK q \in Int, v \in Int : q = b \div w /\ v = b % w /\ 0 <= v /\ v < w /\ b = w * q + v
  BY DivMod
<1>3. PICK e \in Int : e = c - p + q
  OBVIOUS
<1>4. y - v = w * e
  BY <1>1, <1>2, <1>3, Distribute
<1>5. w * e < w /\ w * e > -w
  BY <1>1, <1>2, <1>4
<1>6. e = 0
  BY <1>5, SmallMultiple
<1>7. y - v = 0
  <2>1. w * 0 = 0
    OBVIOUS
  <2>2. QED
    BY <1>4, <1>6, <2>1
<1>8. QED
  BY <1>1, <1>2, <1>7

(* The multiples of the width of a region that Nearest adds.               *)
LEMMA Around2 ==
  ASSUME NEW w \in Int, NEW p \in Int, NEW q \in Int, NEW r \in Int, NEW e \in Int,
         NEW g \in Int, NEW c \in Int
  PROVE  /\ ((p * w + r) + w * e) - (w * q + r) = w * ((p - q) + e)
         /\ (((p * w + r) + w * e) - (w * g) * c) - (w * q + r) = w * (((p - q) + e) - g * c)
BY Z3

(* The nearest proxy is a proxy.                                           *)
LEMMA NearestIsProxy ==
  ASSUME NEW id \in Int, NEW d \in Int
  PROVE  Nearest(id, d) \in Int /\ Nearest(id, d) % PROXY_W = d % PROXY_W
<1>1. /\ PROXY_W \in Nat \ {0} /\ GRID_X \in Nat \ {0} /\ GRID_X % PROXY_W = 0
  BY RoutingAssumption, RouterAssumption
<1>2. PICK w \in Nat \ {0} : w = PROXY_W
  BY <1>1
<1>3. PICK g \in Int : GRID_X = w * g
  <2>1. PICK h \in Int : h = GRID_X
    BY <1>1
  <2>2. PICK a \in Int, x \in Int : x = h % w /\ h = w * a + x
    BY DivMod
  <2>3. x = 0
    BY <1>1, <1>2, <2>1, <2>2
  <2>4. PICK z \in Int : z = w * a
    BY Z3
  <2>5. h = z
    BY <2>2, <2>3, <2>4
  <2>6. QED
    BY <2>1, <2>4, <2>5
<1>4. PICK q \in Int, r \in Int : r = d % w /\ d = w * q + r
  BY DivMod
<1>5. PICK p \in Int : p = id \div w
  OBVIOUS
<1>6. PICK within \in Int : within = p * w + r
  BY Z3
<1>7. PICK closest \in {within, within - w, within + w} :
        Nearest(id, d) = IF TORUS = 1 THEN CMod(closest, GRID_X) ELSE within
  <2>1. within = (id \div PROXY_W) * PROXY_W + (d % PROXY_W)
    BY <1>2, <1>4, <1>5, <1>6
  <2>2. QED
    BY <1>2, <2>1 DEF Nearest
<1>8. PICK e \in {-1, 0, 1} : closest = within + w * e
  <2>1. w * (-1) = -w /\ w * 0 = 0 /\ w * 1 = w
    OBVIOUS
  <2>2. QED
    BY <1>7, <2>1
<1>9. PICK c \in Int : CMod(closest, GRID_X) = closest - GRID_X * c
  <2>1. closest \in Int
    BY <1>7
  <2>2. CDiv(closest, GRID_X) \in Int
    BY <1>1, <2>1 DEF CDiv
  <2>3. QED
    BY <2>2 DEF CMod
<1>10. PICK n : n = Nearest(id, d)
  OBVIOUS
<1>11. \E b \in Int : n \in Int /\ n - d = w * b
  <2>1. CASE TORUS = 1
    <3>1. n = ((p * w + r) + w * e) - (w * g) * c
      BY <1>3, <1>6, <1>7, <1>8, <1>9, <1>10, <2>1
    <3>2. ((p * w + r) + w * e) - (w * g) * c \in Int /\ ((p - q) + e) - g * c \in Int
      BY Z3
    <3>3. e \in Int
      OBVIOUS
    <3>4. (((p * w + r) + w * e) - (w * g) * c) - (w * q + r) = w * (((p - q) + e) - g * c)
      BY <3>3, Around2
    <3>5. n - d = w * (((p - q) + e) - g * c)
      BY <1>4, <3>1, <3>4
    <3>6. QED
      BY <3>1, <3>2, <3>5
  <2>2. CASE TORUS # 1
    <3>1. n = within
      BY <1>7, <1>10, <2>2
    <3>2. n = (p * w + r) + w * 0
      <4>1. w * 0 = 0
        OBVIOUS
      <4>2. QED
        BY <1>6, <3>1, <4>1
    <3>3. n - d = w * ((p - q) + 0)
      BY <1>4, <3>2, Around2
    <3>4. (p - q) + 0 \in Int
      OBVIOUS
    <3>5. QED
      BY <3>1, <3>3, <3>4
  <2>3. QED
    BY <2>1, <2>2
<1>12. PICK b \in Int : n \in Int /\ n - d = w * b
  BY <1>11
<1>13. n % w = d % w
  BY <1>12, SameRest
<1>14. QED
  BY <1>2, <1>10, <1>12, <1>13

(* The owner of a message's data is a place of the grid.                   *)
LEMMA Destinations ==
  ASSUME NEW f \in Flit
  PROVE  dst(f) = get_dst(Traffic[f[1]].data) /\ dst(f).x \in Int /\ dst(f).y \in Int
<1>1. f[1] \in Messages
  BY Flits
<1>2. Traffic[f[1]].data \in 0 .. GRID_X * GRID_X - 1
  <2> DEFINE Sort == [q : Channels, src : Tile, data : 0 .. GRID_X * GRID_X - 1]
  <2>1. Traffic \in Seq(Sort)
    BY RouterAssumption
  <2> HIDE DEF Sort
  <2>2. Traffic[f[1]] \in Sort
    BY <1>1, <2>1, LenProperties, ElementOfSeq DEF Messages
  <2>3. QED
    BY <2>2 DEF Sort
<1>3. GRID_X \in Nat \ {0}
  BY RoutingAssumption
<1>4. PICK n \in Int : n = Traffic[f[1]].data
  BY <1>2, <1>3
<1>5. n \div GRID_X \in Int /\ n % GRID_X \in Int
  BY <1>3
<1>6. get_dst(n).x \in Int /\ get_dst(n).y \in Int
  BY <1>3, <1>5 DEF get_dst
<1>7. QED
  BY <1>4, <1>6 DEF dst

(* A message whose port is that of the core is at its destination, or, if  *)
(* there are proxies and it is for task 3 or 3', at a proxy of it.         *)
LEMMA PortToCore ==
  ASSUME NEW t \in Tile, NEW q \in Channels, NEW f \in Flit, NEW o, PortOf(t, q, f, o) = "C"
  PROVE  /\ IsProxyOf(t, dst(f))
         /\ q = 1 \/ ~(GRID_X \div PROXY_W > 1) => t = dst(f)
<1>1. PICK d : d = dst(f)
  OBVIOUS
<1>2. d.x \in Int /\ d.y \in Int /\ t.x \in Int /\ t.y \in Int
  <2>1. GRID_X \in Nat
    BY RoutingAssumption
  <2>2. QED
    BY <1>1, <2>1, Destinations DEF Tile, Coord
<1>3. CASE Sinks(t, q, f, o)
  <2>1. MayCapture(q, t, d, o)
    BY <1>1, <1>3 DEF Sinks
  <2>2. ~(STEAL_W > 1)
    BY RouterAssumption
  <2>3. QED
    BY <1>1, <2>1, <2>2 DEF MayCapture
<1>4. CASE ~Sinks(t, q, f, o)
  <2>1. Target(q, t, d) = t
    BY <1>1, <1>4 DEF PortOf, Direction
  <2>2. CASE q = 3 /\ GRID_X \div PROXY_W > 1
    <3>1. t.x = Nearest(t.x, d.x) /\ t.y = Nearest(t.y, d.y)
      <4>1. t = [x |-> Nearest(t.x, d.x), y |-> Nearest(t.y, d.y)]
        BY <2>1, <2>2 DEF Target
      <4>2. PICK a, b : a = Nearest(t.x, d.x) /\ b = Nearest(t.y, d.y)
        OBVIOUS
      <4>3. [x |-> a, y |-> b].x = a /\ [x |-> a, y |-> b].y = b
        OBVIOUS
      <4>4. QED
        BY <4>1, <4>2, <4>3
    <3>2. t.x % PROXY_W = d.x % PROXY_W /\ t.y % PROXY_W = d.y % PROXY_W
      BY <1>2, <3>1, NearestIsProxy
    <3>3. QED
      BY <1>1, <2>2, <3>2 DEF IsProxyOf
  <2>3. CASE ~(q = 3 /\ GRID_X \div PROXY_W > 1)
    BY <1>1, <2>1, <2>3 DEF Target, IsProxyOf
  <2>4. QED
    BY <2>2, <2>3
<1>5. QED
  BY <1>3, <1>4

(* What is in the input queues of a core is for tasks that may run there.  *)
RightFor(t, q, m) == LET owner == get_dst(Traffic[m].data)
                     IN IF q = 3 THEN IsProxyOf(t, owner) ELSE t = owner
Delivered == \A t \in Tile, q \in Channels : \A i \in 1 .. Len(queue[<<t, "IQ", q>>]) :
                RightFor(t, q, queue[<<t, "IQ", q>>][i][1])

(* What a core takes from an input belongs in the queue it goes to.        *)
LEMMA CoreFlits ==
  ASSUME NEW gone, RInv(gone), Delivered, NEW t \in Tile, NEW q \in Channels, NEW o,
         May(t, "C", q, o),
         NEW s, s = queue[<<t, o, q>>], NEW T, T = Taken(t, q, "C", o), NEW l, l = Lane(t, q, "C", o)
  PROVE  \A i \in 1 .. Len(T) : RightFor(t, l, T[i][1])
<1>1. "C" \in Outputs /\ o \in Inputs /\ <<t, o, q>> \in Queues
  BY DEF May, Outputs, Queues
<1>2. Continues(gone, t, q, "C", o, s, T, l)
  BY <1>1, TakenFlits
<1>3. s \in Seq(Flit) /\ Len(s) \in Nat /\ s # <<>>
  BY <1>1, LenProperties DEF RInv, Typed, May
<1>4. /\ Len(T) \in 1 .. Len(s) /\ (\A i \in 1 .. Len(T) : T[i] = s[i])
      /\ (Len(T) = 1 \/ (Len(T) = 2 /\ s[1][2] # Params(q)))
      /\ (\A j : Fed(t, "C", j) = <<t, "IQ", j>>)
      /\ InOrder(Newest(gone, <<t, "IQ", l>>), T, Params(q))
      /\ (~t3_to_core(q, "C") => l = q)
  BY <1>2 DEF Continues, Fed
<1>5. Len(s) >= 1 /\ s[1] \in Flit /\ T[1] = s[1] /\ 1 \in 1 .. Len(T)
  BY <1>3, <1>4, ElementOfSeq
<1>6. ASSUME NEW i \in 1 .. Len(T)
      PROVE  T[i][1] = s[1][1]
  <2>1. CASE i = 1
    BY <1>5, <2>1
  <2>2. CASE i # 1
    <3>1. i = 2 /\ s[1][2] # Params(q)
      BY <1>4, <2>2
    <3>2. Follows(T[1], T[2], Params(q))
      BY <1>4, <3>1 DEF InOrder
    <3>3. T[2] = <<T[1][1], T[1][2] + 1>>
      BY <1>5, <3>1, <3>2 DEF Follows
    <3>4. QED
      BY <1>5, <3>1, <3>3
  <2>3. QED
    BY <2>1, <2>2
<1>7. RightFor(t, l, s[1][1])
  <2>1. CASE open[<<t, "C", q>>] = o
    <3>1. ~t3_to_core(q, "C") /\ l = q
      <4>1. o # "none"
        BY <1>1 DEF Inputs
      <4>2. QED
        BY <1>4, <2>1, <4>1 DEF RInv, InOnePiece
    <3>2. PICK k, r : k = <<t, "IQ", q>> /\ r = queue[k]
      OBVIOUS
    <3>3. k \in Queues /\ k[2] = "IQ" /\ k[3] = q /\ r \in Seq(Flit) /\ Len(r) \in Nat
      <4>1. k \in Queues /\ k[2] = "IQ" /\ k[3] = q
        BY <3>2 DEF Queues
      <4>2. QED
        BY <3>2, <4>1, LenProperties DEF RInv, Typed
    <3>4. PICK f : f = Newest(gone, k)
      OBVIOUS
    <3>5. f[2] # Params(q)
      <4>1. OutputHeld(gone, t, "C", q)
        BY <1>1 DEF RInv
      <4>2. o # "none"
        BY <1>1 DEF Inputs
      <4>3. QED
        BY <1>4, <2>1, <3>2, <3>4, <4>1, <4>2 DEF OutputHeld
    <3>6. gone[k][2] = Params(q)
      BY <3>3 DEF RInv, QueueOrdered
    <3>7. r # <<>> /\ f = r[Len(r)]
      BY <3>2, <3>4, <3>5, <3>6 DEF Newest, LastOf
    <3>8. Len(r) \in 1 .. Len(r)
      BY <3>3, <3>7
    <3>9. RightFor(t, q, f[1])
      BY <3>2, <3>7, <3>8 DEF Delivered
    <3>10. Follows(f, T[1], Params(q))
      BY <1>4, <1>5, <3>1, <3>2, <3>4 DEF InOrder
    <3>11. T[1] = <<f[1], f[2] + 1>>
      BY <3>5, <3>10 DEF Follows
    <3>12. s[1][1] = f[1]
      BY <1>5, <3>11
    <3>13. QED
      BY <3>1, <3>9, <3>12
  <2>2. CASE open[<<t, "C", q>>] # o
    <3>1. PortOf(t, q, s[1], o) = "C" /\ Head(s) = s[1]
      BY <1>3, <2>2, HeadTailProperties DEF May
    <3>2. PICK f \in Flit : f = s[1]
      BY <1>5
    <3>3. IsProxyOf(t, dst(f)) /\ (q = 1 \/ ~(GRID_X \div PROXY_W > 1) => t = dst(f))
      BY <3>1, <3>2, PortToCore
    <3>4. dst(f) = get_dst(Traffic[f[1]].data)
      BY DEF dst
    <3>5. CASE t3_to_core(q, "C")
      <4>1. l = IF dst(f) = t /\ ~cannot_fit_two(<<t, "IQ", 2>>) THEN 2 ELSE 3
        BY <3>1, <3>2, <3>5 DEF Lane
      <4>2. QED
        BY <3>2, <3>3, <3>4, <4>1 DEF RightFor
    <3>6. CASE ~t3_to_core(q, "C")
      <4>1. l = q
        BY <1>4, <3>6
      <4>2. q = 1 \/ ~(GRID_X \div PROXY_W > 1)
        BY <3>6 DEF t3_to_core, Channels
      <4>3. QED
        BY <3>2, <3>3, <3>4, <4>1, <4>2 DEF RightFor
    <3>7. QED
      BY <3>5, <3>6
  <2>3. QED
    BY <2>1, <2>2
<1>8. QED
  BY <1>6, <1>7

(* A step of a router puts nothing else in the queue of a core.            *)
LEMMA RouteDelivered ==
  ASSUME NEW gone, RInv(gone), Delivered, NEW t \in Tile, NEW q \in Channels, Route(t, q)
  PROVE  Delivered' /\ ran' = ran
<1>1. PICK from, used, to, tk :
        /\ used = Used(from) /\ (\A d \in used : May(t, d, q, from[d])) /\ Move(t, q, from)
        /\ Shifted(gone, t, q, from, used, to, tk)
  BY RouteShifts
<1>2. ASSUME NEW u \in Tile, NEW r \in Channels, NEW i \in 1 .. Len(queue'[<<u, "IQ", r>>])
      PROVE  RightFor(u, r, queue'[<<u, "IQ", r>>][i][1])
  <2>1. PICK k : k = <<u, "IQ", r>>
    OBVIOUS
  <2>2. k \in Queues /\ queue[k] \in Seq(Flit) /\ Len(queue[k]) \in Nat
    <3>1. k \in Queues
      BY <2>1 DEF Queues
    <3>2. QED
      BY <3>1, LenProperties DEF RInv, Typed
  <2>3. \A j \in 1 .. Len(queue[k]) : RightFor(u, r, queue[k][j][1])
    BY <2>1 DEF Delivered
  <2>4. ASSUME NEW d \in used, k = <<t, from[d], q>>
        PROVE  FALSE
    <3>1. from[d] \in Inputs
      BY <1>1 DEF May
    <3>2. from[d] = "IQ"
      BY <2>1, <2>4
    <3>3. QED
      BY <3>1, <3>2 DEF Inputs
  <2>5. ASSUME NEW d \in used, k = Fed(t, d, to[d]), Len(tk[d]) \in {1, 2}, More(k, tk[d])
        PROVE  RightFor(u, r, queue'[k][i][1])
    <3>1. d \in Outputs /\ May(t, d, q, from[d])
      BY <1>1 DEF Used
    <3>2. d = "C"
      <4>1. CASE d # "C"
        <5>1. Fed(t, d, to[d])[2] = InputAt(d)
          BY <4>1 DEF Fed
        <5>2. InputAt(d) # "IQ"
          BY <3>1, <4>1 DEF Outputs, InputAt
        <5>3. QED
          BY <2>1, <2>5, <5>1, <5>2
      <4>2. QED
        BY <4>1
    <3>3. u = t /\ to[d] = r
      BY <2>1, <2>5, <3>2 DEF Fed
    <3>4. tk[d] = Taken(t, q, "C", from[d]) /\ to[d] = Lane(t, q, "C", from[d])
      BY <1>1, <3>2 DEF Shifted
    <3>5. PICK T, o, l : T = tk[d] /\ o = from[d] /\ l = to[d]
      OBVIOUS
    <3>6. May(t, "C", q, o) /\ T = Taken(t, q, "C", o) /\ l = Lane(t, q, "C", o)
      BY <3>1, <3>2, <3>4, <3>5
    <3>7. \A j \in 1 .. Len(T) : RightFor(t, l, T[j][1])
      BY <3>6, CoreFlits
    <3>8. PICK a \in Nat, b \in Nat : a = Len(queue[k]) /\ b = Len(T)
      BY <2>2, <2>5, <3>5
    <3>9. /\ i \in 1 .. a + b
          /\ (\A j \in 1 .. a : queue'[k][j] = queue[k][j])
          /\ (\A j \in 1 .. b : queue'[k][a + j] = T[j])
      BY <2>1, <2>5, <3>5, <3>8 DEF More
    <3>10. CASE i <= a
      <4>1. i \in 1 .. a
        BY <3>8, <3>9, <3>10
      <4>2. QED
        BY <2>3, <3>8, <3>9, <4>1
    <3>11. CASE i > a
      <4>1. i - a \in 1 .. b /\ a + (i - a) = i
        BY <3>8, <3>9, <3>11
      <4>2. queue'[k][i] = T[i - a]
        BY <3>9, <4>1
      <4>3. QED
        BY <3>3, <3>5, <3>7, <3>8, <4>1, <4>2
    <3>12. QED
      BY <3>8, <3>9, <3>10, <3>11
  <2>6. CASE queue'[k] = queue[k]
    BY <2>1, <2>3, <2>6
  <2>7. QED
    BY <1>1, <2>1, <2>2, <2>4, <2>5, <2>6, QueueShifts
<1>3. Delivered'
  BY <1>2 DEF Delivered, RightFor
<1>4. ran' = ran
  BY <1>1 DEF Move
<1>5. QED
  BY <1>3, <1>4

(* The core runs the task of a message once, where it belongs.             *)
LEMMA RunDelivered ==
  ASSUME NEW gone, RInv(gone), Placed, Delivered, RightTask,
         NEW t \in Tile, NEW q \in Channels, Run(t, q)
  PROVE  Delivered' /\ RightTask'
<1>1. PICK k, n : k = <<t, "IQ", q>> /\ n = Params(q)
  OBVIOUS
<1>2. /\ k \in Queues /\ n \in 1 .. Len(queue[k]) /\ Less(k, n)
      /\ \A j \in Queues : j # k => queue'[j] = queue[j]
  BY <1>1, RunShifts
<1>3. Len(queue[k]) \in Nat
  BY <1>2, LenProperties DEF RInv, Typed
<1>4. ASSUME NEW u \in Tile, NEW r \in Channels, NEW i \in 1 .. Len(queue'[<<u, "IQ", r>>])
      PROVE  RightFor(u, r, queue'[<<u, "IQ", r>>][i][1])
  <2>1. <<u, "IQ", r>> \in Queues
    BY DEF Queues
  <2>2. CASE <<u, "IQ", r>> = k
    <3>1. PICK a \in Nat, b \in Nat : a = Len(queue[k]) /\ b = n /\ Len(queue'[k]) = a - b
      BY <1>2, <1>3 DEF Less
    <3>2. i + n \in 1 .. Len(queue[k]) /\ queue'[k][i] = queue[k][i + n]
      <4>1. i \in 1 .. a - b
        BY <2>2, <3>1
      <4>2. i + b \in 1 .. a
        BY <4>1
      <4>3. QED
        BY <1>2, <2>2, <3>1, <4>2 DEF Less
    <3>3. u = t /\ r = q
      BY <1>1, <2>2
    <3>4. QED
      BY <1>1, <2>2, <3>2, <3>3 DEF Delivered
  <2>3. CASE <<u, "IQ", r>> # k
    <3>1. queue'[<<u, "IQ", r>>] = queue[<<u, "IQ", r>>]
      BY <1>2, <2>1, <2>3
    <3>2. QED
      BY <3>1 DEF Delivered
  <2>4. QED
    BY <2>2, <2>3
<1>5. Delivered'
  BY <1>4 DEF Delivered, RightFor
<1>6. PICK m \in Messages : /\ m = queue[<<t, "IQ", q>>][1][1] /\ ~HasRun(m)
                            /\ ran' = ran \union {<<m, t, q>>}
  BY RunPlaced
<1>7. RightFor(t, q, m)
  <2>1. 1 \in 1 .. Len(queue[k])
    BY <1>2, <1>3
  <2>2. QED
    BY <1>1, <1>6, <2>1 DEF Delivered
<1>8. PICK x : x = <<m, t, q>> /\ x[1] = m /\ x[2] = t /\ x[3] = q
  <2>1. /\ <<m, t, q>>[1] = m /\ <<m, t, q>>[2] = t /\ <<m, t, q>>[3] = q
    OBVIOUS
  <2>2. QED
    BY <2>1
<1>9. \A r : r \in ran' <=> r \in ran \/ r = x
  BY <1>6, <1>8
<1>10. \A r \in ran' : RightFor(r[2], r[3], r[1])
  <2>1. \A r \in ran : RightFor(r[2], r[3], r[1])
    BY DEF RightTask, RightFor
  <2>2. QED
    BY <1>7, <1>8, <1>9, <2>1
<1>11. \A r, s \in ran' : r[1] = s[1] => r = s
  <2>1. \A r, s \in ran : r[1] = s[1] => r = s
    BY DEF RightTask
  <2>2. \A r \in ran : r[1] # m
    BY <1>6 DEF HasRun
  <2>3. QED
    BY <1>8, <1>9, <2>1, <2>2
<1>12. QED
  BY <1>5, <1>10, <1>11 DEF RightTask, RightFor

(* A task runs at most once, on the tile that owns its data or, as task    *)
(* 3', on a proxy of that tile: whatever port a message takes on its way   *)
(* and whichever queue of a core it turns into.                            *)
THEOREM TasksRunRight == Spec => []RightTask
<1>1. Init => RoutesInvariant /\ Placed /\ Delivered /\ RightTask
  <2>1. SUFFICES ASSUME Init PROVE Delivered /\ RightTask
    BY RoutesInit, PlacedInvariant
  <2>2. \A t \in Tile, q \in Channels : <<t, "IQ", q>> \in Queues
    BY DEF Queues
  <2>3. \A k \in Queues : Len(queue[k]) = 0
    BY <2>1 DEF Init
  <2>4. Delivered
    BY <2>2, <2>3 DEF Delivered
  <2>5. QED
    BY <2>1, <2>4 DEF Init, RightTask
<1>2. RoutesInvariant /\ Placed /\ Delivered /\ RightTask /\ [Next]_vars
        => RoutesInvariant' /\ Placed' /\ Delivered' /\ RightTask'
  <2>1. SUFFICES ASSUME RoutesInvariant, Placed, Delivered, RightTask, [Next]_vars
                 PROVE  Delivered' /\ RightTask'
    BY RoutesNext, PlacedInvariant
  <2>2. PICK gone : RInv(gone)
    BY <2>1 DEF RoutesInvariant
  <2>3. CASE UNCHANGED vars
    BY <2>1, <2>3 DEF vars, Delivered, RightTask
  <2>4. ran' = ran => RightTask'
    BY <2>1 DEF RightTask
  <2>5. \A t \in Tile, q \in Channels : Route(t, q) => Delivered' /\ RightTask'
    BY <2>1, <2>2, <2>4, RouteDelivered
  <2>6. ASSUME NEW t \in Tile, Send(t)
        PROVE  Delivered' /\ RightTask'
    <3>1. PICK m \in Messages :
            /\ queue' = [queue EXCEPT ![<<t, "C", Traffic[m].q>>] = Append(@, <<m, sent[m] + 1>>)]
            /\ ran' = ran
      BY <2>6 DEF Send
    <3>2. \A k : k # <<t, "C", Traffic[m].q>> => queue'[k] = queue[k]
      BY <2>2, <3>1 DEF RInv, Typed
    <3>3. \A u \in Tile, r \in Channels : queue'[<<u, "IQ", r>>] = queue[<<u, "IQ", r>>]
      BY <3>2
    <3>4. QED
      BY <2>1, <2>4, <3>1, <3>3 DEF Delivered
  <2>7. \A t \in Tile, q \in Channels : Run(t, q) => Delivered' /\ RightTask'
    BY <2>1, <2>2, RunDelivered
  <2>8. QED
    BY <2>1, <2>3, <2>5, <2>6, <2>7 DEF Next, Tick, Network, Core
<1>3. QED
  BY <1>1, <1>2, PTL DEF Spec
==============================================================================
