--------------------------- MODULE Search_proofs ---------------------------
(***************************************************************************)
(* Proof that the tasks of SSSP and WCC fit their queues, that the list of *)
(* the frontier agrees with its bitmap, that no better value is lost on    *)
(* its way along an edge, and that the values found are the right ones.    *)
(***************************************************************************)
EXTENDS Search, SequenceTheorems, FiniteSetTheorems, WellFoundedInduction, TLAPS

-----------------------------------------------------------------------------
(* Numbers and sets.                                                       *)

LEMMA Least ==
  ASSUME NEW T \in SUBSET Nat, T # {}
  PROVE  Min(T) \in T /\ \A y \in T : Min(T) <= y
<1>1. PICK x \in T : \A y \in T : ~ (<<y, x>> \in OpToRel(<, Nat))
  BY NatLessThanWellFounded, WFMin
<1>2. \A y \in T : ~ (y < x)
  BY <1>1 DEF OpToRel
<1>3. \A y \in T : x <= y
  BY <1>2
<1>4. QED
  BY <1>3 DEF Min

LEMMA LeastOfTwo ==
  ASSUME NEW a \in Nat, NEW b \in Nat
  PROVE  Min({a, b}) = IF a <= b THEN a ELSE b
<1>1. {a, b} \in SUBSET Nat /\ {a, b} # {}
  OBVIOUS
<1>2. Min({a, b}) \in {a, b} /\ \A y \in {a, b} : Min({a, b}) <= y
  BY <1>1, Least
<1>3. QED
  BY <1>2

(* In a strict total order of a finite set the elements are told apart by  *)
(* how many come before, and those numbers are the first ones.             *)
Before(S, R, x) == {y \in S : <<y, x>> \in R}
Orders(S, R) ==
  /\ \A x \in S : <<x, x>> \notin R
  /\ \A x, y \in S : x # y => <<x, y>> \in R \/ <<y, x>> \in R
  /\ \A x, y, z \in S : <<x, y>> \in R /\ <<y, z>> \in R => <<x, z>> \in R

Ranked(S, R) ==
  /\ Cardinality(S) \in Nat
  /\ \A x \in S : Cardinality(Before(S, R, x)) \in 0 .. Cardinality(S) - 1
  /\ \A x, y \in S : <<x, y>> \in R <=> Cardinality(Before(S, R, x)) < Cardinality(Before(S, R, y))
  /\ \A x, y \in S : Cardinality(Before(S, R, x)) = Cardinality(Before(S, R, y)) => x = y
  /\ \A i \in 0 .. Cardinality(S) - 1 : \E x \in S : Cardinality(Before(S, R, x)) = i

LEMMA Ranks ==
  ASSUME NEW S, IsFiniteSet(S), NEW R, Orders(S, R)
  PROVE  Ranked(S, R)
<1> DEFINE rank == [x \in S |-> Cardinality(Before(S, R, x))]
<1>1. Cardinality(S) \in Nat
  BY FS_CardinalityType
<1>2. \A x \in S : /\ Before(S, R, x) \in SUBSET S /\ IsFiniteSet(Before(S, R, x))
                   /\ Cardinality(Before(S, R, x)) \in Nat
  BY FS_Subset, FS_CardinalityType DEF Before
<1>3. ASSUME NEW T \in SUBSET S, NEW x \in S, x \notin T
      PROVE  Cardinality(T) + 1 <= Cardinality(S)
  <2>1. IsFiniteSet(T) /\ Cardinality(T) \in Nat
    BY FS_Subset, FS_CardinalityType
  <2>2. Cardinality(T \cup {x}) = Cardinality(T) + 1
    BY <1>3, <2>1, FS_AddElement
  <2>3. T \cup {x} \in SUBSET S
    OBVIOUS
  <2>4. Cardinality(T \cup {x}) <= Cardinality(S)
    BY <2>3, FS_Subset
  <2>5. QED
    BY <2>2, <2>4
<1>4. ASSUME NEW x \in S PROVE Cardinality(Before(S, R, x)) \in 0 .. Cardinality(S) - 1
  <2>1. x \notin Before(S, R, x)
    BY DEF Before, Orders
  <2>2. Cardinality(Before(S, R, x)) + 1 <= Cardinality(S)
    BY <1>2, <1>3, <2>1
  <2>3. QED
    BY <1>1, <1>2, <2>2
<1>5. ASSUME NEW x \in S, NEW y \in S, <<x, y>> \in R
      PROVE  Cardinality(Before(S, R, x)) < Cardinality(Before(S, R, y))
  <2>1. Before(S, R, x) \cup {x} \in SUBSET Before(S, R, y)
    BY <1>5 DEF Before, Orders
  <2>2. x \notin Before(S, R, x)
    BY DEF Before, Orders
  <2>3. Cardinality(Before(S, R, x) \cup {x}) = Cardinality(Before(S, R, x)) + 1
    BY <1>2, <2>2, FS_AddElement
  <2>4. Cardinality(Before(S, R, x) \cup {x}) <= Cardinality(Before(S, R, y))
    BY <1>2, <2>1, FS_Subset
  <2>5. QED
    BY <1>2, <2>3, <2>4
<1>6. ASSUME NEW x \in S, NEW y \in S, Cardinality(Before(S, R, x)) = Cardinality(Before(S, R, y))
      PROVE  x = y
  <2>1. ~(Cardinality(Before(S, R, x)) < Cardinality(Before(S, R, y)))
    BY <1>2, <1>6
  <2>2. ~(Cardinality(Before(S, R, y)) < Cardinality(Before(S, R, x)))
    BY <1>2, <1>6
  <2>3. <<x, y>> \notin R /\ <<y, x>> \notin R
    BY <1>5, <2>1, <2>2
  <2>4. QED
    BY <2>3 DEF Orders
<1>7. ASSUME NEW x \in S, NEW y \in S, Cardinality(Before(S, R, x)) < Cardinality(Before(S, R, y))
      PROVE  <<x, y>> \in R
  <2>1. ~(Cardinality(Before(S, R, y)) < Cardinality(Before(S, R, x)))
    BY <1>2, <1>7
  <2>2. x # y /\ <<y, x>> \notin R
    BY <1>2, <1>5, <1>7, <2>1
  <2>3. QED
    BY <2>2 DEF Orders
<1>8. ASSUME NEW i \in 0 .. Cardinality(S) - 1 PROVE \E x \in S : Cardinality(Before(S, R, x)) = i
  <2> DEFINE T == 0 .. Cardinality(S) - 1
  <2>1. PICK n \in Int : n = Cardinality(S) - 1 /\ n + 1 = Cardinality(S) /\ ~(0 > n)
    BY <1>1
  <2>2. IsFiniteSet(0 .. n) /\ Cardinality(0 .. n) = IF 0 > n THEN 0 ELSE n - 0 + 1
    BY FS_Interval
  <2>3. IsFiniteSet(T) /\ Cardinality(S) = Cardinality(T)
    BY <2>1, <2>2
  <2>4. rank \in [S -> T]
    BY <1>4
  <2>5. rank \in Injection(S, T)
    BY <1>6, <2>4 DEF Injection, IsInjective
  <2> HIDE DEF rank, T
  <2>6. rank \in Surjection(S, T)
    BY <2>3, <2>5, FS_Injection
  <2>7. \E x \in S : rank[x] = i
    BY <2>6 DEF Surjection, T
  <2>8. QED
    BY <2>7 DEF rank
<1>9. QED
  BY <1>1, <1>4, <1>5, <1>6, <1>7, <1>8 DEF Ranked

(* Ascending() lists a set of numbers, the smaller ones first.             *)
LEMMA AscendingIs ==
  ASSUME NEW S \in SUBSET Int, IsFiniteSet(S), NEW s, s = Ascending(S)
  PROVE  /\ Cardinality(S) \in Nat /\ s \in [1 .. Cardinality(S) -> S] /\ s \in Seq(S)
         /\ Len(s) = Cardinality(S)
         /\ \A i, j \in 1 .. Len(s) : i < j <=> s[i] < s[j]
         /\ \A e \in S : \E i \in 1 .. Len(s) : s[i] = e
<1> DEFINE R == {p \in S \X S : p[1] < p[2]}
           up(e) == Cardinality({c \in S : c <= e})
<1>1. Orders(S, R)
  BY DEF Orders
<1>4. \A x, y \in S : <<x, y>> \in R <=> x < y
  OBVIOUS
<1> HIDE DEF R
<1>2. /\ Cardinality(S) \in Nat
      /\ \A x \in S : Cardinality(Before(S, R, x)) \in 0 .. Cardinality(S) - 1
      /\ \A x, y \in S : <<x, y>> \in R <=> Cardinality(Before(S, R, x)) < Cardinality(Before(S, R, y))
      /\ \A x, y \in S : Cardinality(Before(S, R, x)) = Cardinality(Before(S, R, y)) => x = y
      /\ \A i \in 0 .. Cardinality(S) - 1 : \E x \in S : Cardinality(Before(S, R, x)) = i
  <2>1. IsFiniteSet(S)
    OBVIOUS
  <2>2. Ranked(S, R)
    BY ONLY <1>1, <2>1, Ranks
  <2>3. QED
    BY ONLY <2>2 DEF Ranked
<1>3. ASSUME NEW e \in S PROVE up(e) = Cardinality(Before(S, R, e)) + 1
  <2>1. /\ \A c \in S : c <= e <=> c < e \/ c = e
        /\ \A c \in S : <<c, e>> \in R <=> c < e
        /\ ~(e < e)
    BY <1>4
  <2>5. {c \in S : c <= e} = Before(S, R, e) \cup {e} /\ e \notin Before(S, R, e)
    BY <2>1 DEF Before
  <2>2. Before(S, R, e) \in SUBSET S
    BY DEF Before
  <2>3. IsFiniteSet(Before(S, R, e))
    BY <2>2, FS_Subset
  <2>4. QED
    BY <2>3, <2>5, FS_AddElement
<1>5. \A x \in S : up(x) \in 1 .. Cardinality(S)
  BY <1>2, <1>3
<1>14. ASSUME NEW x \in S, NEW y \in S
       PROVE  (x < y <=> up(x) < up(y)) /\ (up(x) = up(y) => x = y)
  <2>1. up(x) < up(y) <=> Cardinality(Before(S, R, x)) < Cardinality(Before(S, R, y))
    BY <1>2, <1>3
  <2>2. up(x) = up(y) => Cardinality(Before(S, R, x)) = Cardinality(Before(S, R, y))
    BY <1>2, <1>3
  <2>3. QED
    BY <1>2, <1>4, <2>1, <2>2
<1>6. ASSUME NEW i \in 1 .. Cardinality(S) PROVE \E x \in S : up(x) = i
  <2>1. i - 1 \in 0 .. Cardinality(S) - 1
    BY <1>2
  <2>2. PICK x \in S : Cardinality(Before(S, R, x)) = i - 1
    BY <1>2, <2>1
  <2>3. QED
    BY <1>3, <2>2
<1>7. s = [i \in 1 .. Cardinality(S) |-> CHOOSE e \in S : up(e) = i]
  BY DEF Ascending
<1> HIDE DEF up
<1>8. \A i \in 1 .. Cardinality(S) : s[i] \in S /\ up(s[i]) = i
  BY <1>6, <1>7
<1>9. s \in [1 .. Cardinality(S) -> S]
  BY <1>7, <1>8
<1>10. s \in Seq(S) /\ Len(s) = Cardinality(S)
  BY <1>2, <1>9, LenProperties, SeqDef
<1>11. ASSUME NEW i \in 1 .. Cardinality(S), NEW j \in 1 .. Cardinality(S)
       PROVE  i < j <=> s[i] < s[j]
  <2>1. s[i] \in S /\ s[j] \in S /\ up(s[i]) = i /\ up(s[j]) = j
    BY <1>8
  <2>2. s[i] < s[j] <=> up(s[i]) < up(s[j])
    BY <2>1, <1>14
  <2>3. QED
    BY <2>1, <2>2
<1>12. \A e \in S : s[up(e)] = e /\ up(e) \in 1 .. Cardinality(S)
  BY <1>5, <1>8, <1>14
<1>13. QED
  BY <1>2, <1>9, <1>10, <1>11, <1>12

LEMMA Division ==
  ASSUME NEW x \in Int, NEW d \in Int, d > 0
  PROVE  x = d * (x \div d) + (x % d)
BY Z3

LEMMA Divides ==
  ASSUME NEW x \in Int, NEW d \in Nat \ {0}
  PROVE  /\ x \div d \in Int /\ x % d \in 0 .. d - 1 /\ x = d * (x \div d) + (x % d)
         /\ d * (x \div d) <= x /\ x < d * (x \div d) + d
         /\ (x \in Nat => x \div d \in Nat)
<1>5. x = d * (x \div d) + (x % d)
  BY Division
<1>1. x \div d \in Int /\ x % d \in 0 .. d - 1 /\ x = d * (x \div d) + (x % d)
  BY <1>5
<1>2. x \in Nat => x \div d \in Nat
  OBVIOUS
<1>3. d * (x \div d) \in Int
  BY <1>1
<1>4. QED
  BY <1>1, <1>2, <1>3

LEMMA Apart ==
  ASSUME NEW d \in Nat \ {0}, NEW j \in Int, NEW k \in Int, j < k
  PROVE  d * j + d <= d * k /\ d * j \in Int /\ d * k \in Int
<1>1. PICK i \in Nat : k = j + 1 + i
  <2>1. k - j - 1 \in Nat /\ k = j + 1 + (k - j - 1)
    OBVIOUS
  <2>2. QED
    BY <2>1
<1>2. d * k = d * j + d + d * i /\ d * i \in Nat /\ d * j \in Int
  BY <1>1
<1>3. QED
  BY <1>2

LEMMA Quotient ==
  ASSUME NEW x \in Int, NEW d \in Nat \ {0}, NEW k \in Int, d * k <= x, x < d * k + d
  PROVE  x \div d = k /\ x % d = x - d * k
<1> DEFINE j == x \div d
<1>1. j \in Int /\ d * j <= x /\ x < d * j + d /\ x = d * j + (x % d) /\ x % d \in 0 .. d - 1
  BY Divides
<1> HIDE DEF j
<1>2. d * j \in Int /\ d * k \in Int
  BY <1>1
<1>3. ~(j < k)
  <2>1. j < k => d * j + d <= d * k
    BY <1>1, Apart
  <2>2. QED
    BY <1>1, <1>2, <2>1
<1>4. ~(k < j)
  <2>1. k < j => d * k + d <= d * j
    BY <1>1, Apart
  <2>2. QED
    BY <1>1, <1>2, <2>1
<1>5. j = k
  BY <1>1, <1>3, <1>4
<1>6. QED
  BY <1>1, <1>2, <1>5 DEF j

LEMMA DividesInOrder ==
  ASSUME NEW x \in Int, NEW y \in Int, x <= y, NEW d \in Nat \ {0}
  PROVE  x \div d <= y \div d
<1> DEFINE j == x \div d
           k == y \div d
<1>1. /\ j \in Int /\ k \in Int /\ d * j <= x /\ x < d * j + d /\ d * k <= y /\ y < d * k + d
      /\ d * j \in Int /\ d * k \in Int
  BY Divides
<1>2. k < j => d * k + d <= d * j
  BY <1>1, Apart
<1> HIDE DEF j, k
<1>3. j <= k
  BY <1>1, <1>2
<1>4. QED
  BY <1>3 DEF j, k

LEMMA GreatestOfTwo ==
  ASSUME NEW a \in Int, NEW b \in Int
  PROVE  Max({a, b}) = IF a <= b THEN b ELSE a
<1>1. \E x \in {a, b} : \A y \in {a, b} : x >= y
  OBVIOUS
<1>2. Max({a, b}) \in {a, b} /\ \A y \in {a, b} : Max({a, b}) >= y
  BY <1>1 DEF Max
<1>3. QED
  BY <1>2
-----------------------------------------------------------------------------
(* The constants.                                                          *)
EdgeCount == node_array[GRID_SIZE * nodePerTile]

LEMMA Constants ==
  /\ GRID_SIZE \in Nat \ {0} /\ nodePerTile \in Nat \ {0} /\ edgePerTile \in Nat \ {0}
  /\ GRID_SIZE * nodePerTile \in Nat \ {0} /\ EdgeCount \in Nat /\ edges = 0 .. EdgeCount - 1
  /\ INF \in Nat /\ BLOCK \in Nat \ {0} /\ EXPLORE \in Nat \ {0}
  /\ num_task_params[1] = 3 /\ num_task_params[2] = 2 /\ task1_dest = 1
  /\ oq_sizes[1] \in Nat /\ oq_sizes[2] \in Nat /\ iq_sizes[1] \in Nat /\ iq_sizes[2] \in Nat
  /\ iq0_size \in Nat \ {0}
  /\ 0 \in tiles /\ 0 \in nodes
<1>1. APP \in {"SSSP", "WCC"}
  BY SearchAssumption
<1>2. num_task_params[1] = 3 /\ num_task_params[2] = 2 /\ task1_dest = 1
  BY <1>1 DEF num_task_params, task1_dest
<1>3. GRID_SIZE \in Nat \ {0} /\ nodePerTile \in Nat \ {0} /\ edgePerTile \in Nat \ {0}
  BY TilesAssumption
<1>4. GRID_SIZE * nodePerTile \in Nat \ {0}
  BY <1>3
<1>5. EdgeCount \in Nat /\ edges = 0 .. EdgeCount - 1
  BY <1>4, TilesAssumption DEF EdgeCount, edges
<1>6. iq_sizes[0] \in Nat \ {0} /\ oq_sizes[1] \in Nat /\ oq_sizes[2] \in Nat /\ iq_sizes[1] \in Nat /\ iq_sizes[2] \in Nat
  BY TilesAssumption
<1>7. iq0_size \in Nat \ {0}
  BY <1>3, <1>6 DEF iq0_size
<1>8. 0 \in tiles /\ 0 \in nodes
  BY <1>3, <1>4 DEF tiles, nodes
<1>9. QED
  BY <1>2, <1>3, <1>4, <1>5, <1>6, <1>7, <1>8, SearchAssumption

LEMMA Chunk ==
  max_task_chunk \in Nat \ {0}
<1>1. APP # "HISTO" /\ LOOP_CHUNK \in Nat \ {0} /\ num_task_params[2] = 2
  BY Constants, SearchAssumption, TilesAssumption
<1>2. oq_sizes[2] \in Nat /\ oq_sizes[2] >= 4
  BY <1>1, TilesAssumption
<1> DEFINE c == (oq_sizes[2] \div 2) \div 2
<1>3. c \in Nat /\ c >= 1
  BY <1>2
<1> HIDE DEF c
<1>4. max_task_chunk = Min({c, LOOP_CHUNK})
  BY <1>1 DEF max_task_chunk, c
<1>5. QED
  BY <1>1, <1>3, <1>4, LeastOfTwo

(* The edges of a node are edges.                                          *)
LEMMA EdgesOf ==
  ASSUME NEW n \in nodes
  PROVE  /\ node_array[n] \in Nat /\ node_array[n + 1] \in Nat
         /\ node_array[n] <= node_array[n + 1] /\ node_array[n + 1] <= EdgeCount
<1> DEFINE N == GRID_SIZE * nodePerTile
           over == {d \in 0 .. N : node_array[N - d] > EdgeCount}
<1>1. N \in Nat /\ \A i \in 0 .. N : node_array[i] \in Nat
  BY Constants, TilesAssumption
<1>2. \A i \in 0 .. N - 1 : node_array[i] <= node_array[i + 1]
  BY TilesAssumption DEF nodes
<1>3. n \in 0 .. N - 1
  BY DEF nodes
<1>a. node_array[N] = EdgeCount /\ EdgeCount \in Nat
  BY Constants DEF EdgeCount
<1> HIDE DEF N
<1>4. over = {}
  <2>1. SUFFICES ASSUME over # {} PROVE FALSE
    OBVIOUS
  <2>2. PICK d \in over : \A y \in over : d <= y
    <3>1. over \in SUBSET Nat
      BY <1>1
    <3>2. QED
      BY <2>1, <3>1, Least
  <2>3. d \in 0 .. N /\ node_array[N - d] > EdgeCount
    BY <2>2
  <2>4. d # 0
    BY <1>1, <1>a, <2>3
  <2>5. d - 1 \in 0 .. N /\ d - 1 \notin over
    BY <1>1, <2>2, <2>3, <2>4
  <2>6. node_array[N - (d - 1)] <= EdgeCount
    BY <1>1, <1>a, <2>5
  <2>7. N - d \in 0 .. N - 1 /\ N - (d - 1) = N - d + 1 /\ N - d + 1 \in 0 .. N
    BY <1>1, <2>3, <2>4
  <2>8. node_array[N - d] <= node_array[N - d + 1]
    BY <1>2, <2>7
  <2>9. QED
    BY <1>1, <1>a, <2>3, <2>6, <2>7, <2>8
<1>5. N - (n + 1) \in 0 .. N /\ N - (N - (n + 1)) = n + 1 /\ n + 1 \in 0 .. N /\ n \in 0 .. N
  BY <1>1, <1>3
<1>6. ~(node_array[n + 1] > EdgeCount)
  BY <1>4, <1>5
<1>7. QED
  BY <1>1, <1>2, <1>3, <1>5, <1>6, <1>a

LEMMA OwnersAreTiles ==
  /\ \A n \in nodes : OwnerOfNode(n) \in tiles
  /\ \A e \in edges : OwnerOfEdge(e) \in tiles /\ edge_array[e] \in nodes
  /\ \A e \in edges : Weight(e) \in Nat
<1>1. ASSUME NEW n \in nodes PROVE OwnerOfNode(n) \in tiles
  <2> DEFINE k == n \div nodePerTile
  <2>1. n \in Nat /\ n < nodePerTile * GRID_SIZE
    BY Constants DEF nodes
  <2>2. k \in Nat /\ nodePerTile * k <= n /\ nodePerTile * k \in Int
    <3>1. n \in Int /\ nodePerTile \in Nat \ {0}
      BY <2>1, Constants
    <3>2. n \div nodePerTile \in Int /\ nodePerTile * (n \div nodePerTile) <= n
      BY <3>1, Divides
    <3>3. n \div nodePerTile \in Nat
      BY <2>1, <3>1, Divides
    <3>4. QED
      BY <3>1, <3>2, <3>3
  <2> HIDE DEF k
  <2>3. GRID_SIZE \in Nat /\ nodePerTile \in Nat \ {0} /\ nodePerTile * GRID_SIZE \in Nat
    BY Constants
  <2>4. ~(GRID_SIZE < k) /\ k # GRID_SIZE
    <3>1. GRID_SIZE < k => nodePerTile * GRID_SIZE + nodePerTile <= nodePerTile * k
      BY <2>2, <2>3, Apart
    <3>2. QED
      BY <2>1, <2>2, <2>3, <3>1
  <2>5. QED
    BY <2>2, <2>3, <2>4 DEF OwnerOfNode, k, tiles
<1>2. \A e \in edges : OwnerOfEdge(e) \in tiles /\ edge_array[e] \in nodes
  BY TilesAssumption DEF OwnerOfEdge
<1>3. \A e \in edges : Weight(e) \in Nat
  BY TilesAssumption DEF Weight
<1>4. QED
  BY <1>1, <1>2, <1>3
-----------------------------------------------------------------------------
(* Pieces.                                                                 *)
LEMMA Multiples ==
  ASSUME NEW x \in Int, NEW d \in Nat \ {0}
  PROVE  /\ x % d = 0 => (x + d) % d = 0 /\ x = d * (x \div d)
         /\ (d * x) % d = 0 /\ d * x \in Int
<1> DEFINE k == x \div d
<1>1. k \in Int /\ x = d * k + (x % d) /\ d * k \in Int
  BY Divides
<1>2. d * (k + 1) = d * k + d
  BY <1>1
<1>3. x % d = 0 => d * (k + 1) <= x + d /\ x + d < d * (k + 1) + d
  BY <1>1, <1>2
<1>8. k + 1 \in Int /\ x + d \in Int
  BY <1>1
<1>4. ASSUME x % d = 0 PROVE (x + d) % d = x + d - d * (k + 1)
  <2>1. PICK y \in Int, j \in Int : y = x + d /\ j = k + 1
    BY <1>8
  <2>2. d * j <= y /\ y < d * j + d
    BY <1>3, <1>4, <2>1
  <2>3. y % d = y - d * j
    BY <2>2, Quotient
  <2>4. QED
    BY <2>1, <2>3
<1>5. d * x \in Int /\ d * x <= d * x /\ d * x < d * x + d
  OBVIOUS
<1>6. (d * x) % d = d * x - d * x
  BY <1>5, Quotient
<1> HIDE DEF k
<1>7. QED
  BY <1>1, <1>2, <1>4, <1>5, <1>6 DEF k

(* Between two cuts that follow each other lies a piece of one tile, not   *)
(* longer than a chunk.                                                    *)
Neighbours(first, last, a, b) ==
  /\ a = first \/ a \in Cuts(first, last)
  /\ b \in Cuts(first, last) /\ a < b
  /\ \A x \in Cuts(first, last) : ~(a < x /\ x < b)

LEMMA BetweenCuts ==
  ASSUME NEW first \in Nat, NEW last \in Nat, NEW a \in Nat, NEW b \in Nat,
         Neighbours(first, last, a, b)
  PROVE  b - a <= max_task_chunk /\ OwnerOfEdge(a) = OwnerOfEdge(b - 1)
<1>0. /\ a = first \/ a \in Cuts(first, last)
      /\ b \in Cuts(first, last) /\ a < b
      /\ \A x \in Cuts(first, last) : ~(a < x /\ x < b)
  BY DEF Neighbours
<1> DEFINE E == edgePerTile
           C == max_task_chunk
           k == a \div E
<1>1. E \in Nat \ {0} /\ C \in Nat \ {0}
  BY Constants, Chunk
<1>2. b \in first + 1 .. last /\ first <= a /\ a \in Int /\ b \in Int /\ a < b
  BY <1>0 DEF Cuts
<1>3. /\ k \in Int /\ E * k <= a /\ a < E * k + E /\ E * k \in Int
      /\ a % E = a - E * k
  BY <1>1, Divides
<1>4. ASSUME NEW x \in Int, a < x, x < b
      PROVE  /\ x \in first + 1 .. last /\ x \notin Cuts(first, last)
             /\ x % E # 0 /\ (x - Max({first, E * OwnerOfEdge(x - 1)})) % C # 0
  <2>1. x \in first + 1 .. last /\ x # last
    BY <1>2, <1>4
  <2>2. x \notin Cuts(first, last)
    BY <1>0, <1>4
  <2>3. QED
    BY <2>1, <2>2 DEF Cuts
<1> HIDE DEF E, C, k
<1> DEFINE m == E * k
<1>13. m \in Int /\ m = E * k /\ m + E = E * (k + 1) /\ m % E = 0 /\ (m + E) % E = 0
  <2>1. E * k \in Int /\ E * k + E = E * (k + 1) /\ k + 1 \in Int
    BY <1>1, <1>3
  <2>2. (E * k) % E = 0 /\ (E * (k + 1)) % E = 0
    BY <1>1, <1>3, <2>1, Multiples
  <2>3. QED
    BY <2>1, <2>2
<1>14. m <= a /\ a < m + E /\ a % E = a - m
  BY <1>3, <1>13
<1> HIDE DEF m
<1>5. b <= m + E
  <2>1. SUFFICES ASSUME m + E < b PROVE FALSE
    BY <1>1, <1>2, <1>13
  <2>2. a < m + E /\ m + E < b /\ m + E \in Int
    BY <1>1, <1>13, <1>14, <2>1
  <2>3. QED
    BY <1>4, <1>13, <2>2
<1>6. ASSUME NEW x \in Int, a <= x, x < b PROVE x \div E = k
  <2>1. m <= x /\ x < m + E
    BY <1>1, <1>2, <1>14, <1>13, <1>5, <1>6
  <2>2. QED
    BY <1>1, <1>3, <1>13, <2>1, Quotient
<1> DEFINE B == IF first <= m THEN m ELSE first
<1>7. B \in Int /\ B <= a /\ first \in Int
  BY <1>2, <1>13, <1>14
<1>8. Max({first, E * k}) = B
  BY <1>13, <1>7, GreatestOfTwo
<1>9. (a - B) % C = 0
  <2>1. CASE a = B
    <3>1. a - B = 0 /\ C * 0 = 0
      BY <1>1, <1>2, <2>1
    <3>2. (C * 0) % C = 0
      BY <1>1, Multiples
    <3>3. QED
      BY <3>1, <3>2
  <2>2. CASE a # B
    <3>1. a # first /\ a # m
      BY <1>2, <1>13, <1>14, <2>2
    <3>2. a % E # 0
      BY <1>2, <1>13, <1>14, <3>1
    <3>3. a # last
      BY <1>2
    <3>4. (a - Max({first, E * OwnerOfEdge(a - 1)})) % C = 0
      BY <1>0, <3>1, <3>2, <3>3 DEF Cuts, E, C
    <3>5. m <= a - 1 /\ a - 1 < m + E /\ a - 1 \in Int
      BY <1>1, <1>2, <1>13, <1>14, <3>1
    <3>6. (a - 1) \div E = k
      BY <1>1, <1>3, <1>13, <3>5, Quotient
    <3>7. OwnerOfEdge(a - 1) = k
      BY <3>6 DEF OwnerOfEdge, E
    <3>8. QED
      BY <1>8, <3>4, <3>7
  <2>3. QED
    BY <2>1, <2>2
<1> HIDE DEF B
<1>10. b - a <= C
  <2>1. SUFFICES ASSUME a + C < b PROVE FALSE
    BY <1>1, <1>2
  <2>2. PICK x \in Int : x = a + C
    BY <1>1, <1>2
  <2>3. a < x /\ x < b /\ x - 1 \in Int /\ a <= x - 1 /\ x - 1 < b
    BY <1>1, <1>2, <2>1, <2>2
  <2>4. OwnerOfEdge(x - 1) = k
    BY <1>6, <2>3 DEF OwnerOfEdge, E
  <2>5. (x - B) % C # 0
    BY <1>4, <1>8, <2>3, <2>4
  <2>6. PICK y \in Int : y = a - B /\ x - B = y + C
    <3>1. a - B \in Int /\ x - B = (a - B) + C
      BY <1>1, <1>2, <1>7, <2>2
    <3>2. QED
      BY <3>1
  <2>7. y % C = 0 /\ (y + C) % C # 0
    BY <1>9, <2>5, <2>6
  <2>8. QED
    BY <1>1, <2>7, Multiples
<1>11. OwnerOfEdge(a) = k /\ OwnerOfEdge(b - 1) = k
  <2>1. b - 1 \in Int /\ a <= b - 1 /\ b - 1 < b
    BY <1>2
  <2>2. QED
    BY <1>2, <1>6, <2>1 DEF OwnerOfEdge, E
<1>12. QED
  BY <1>10, <1>11 DEF C

Piece == [first : Nat, last : Nat, value : Nat]
CutPieces == {m \in Piece : /\ m.first < m.last /\ m.last <= EdgeCount
                            /\ m.last - m.first <= max_task_chunk
                            /\ OwnerOfEdge(m.first) = OwnerOfEdge(m.last - 1)}
Carries(m, e, v) == m.first <= e /\ e < m.last /\ m.value <= v

Listing(S, s) ==
  /\ Len(s) \in Nat
  /\ \A i \in 1 .. Len(s) : s[i] \in S
  /\ \A i, j \in 1 .. Len(s) : i < j <=> s[i] < s[j]
  /\ \A e \in S : \E i \in 1 .. Len(s) : s[i] = e

LEMMA CutsAre ==
  ASSUME NEW first \in Nat, NEW last \in Nat
  PROVE  Listing(Cuts(first, last), Ascending(Cuts(first, last)))
<1> DEFINE S == Cuts(first, last)
<1>1. S \subseteq first + 1 .. last
  BY DEF Cuts
<1>2. IsFiniteSet(first + 1 .. last)
  <2>1. first + 1 \in Int /\ last \in Int
    OBVIOUS
  <2>2. QED
    BY <2>1, FS_Interval
<1>3. IsFiniteSet(S) /\ S \in SUBSET Int
  BY <1>1, <1>2, FS_Subset
<1> HIDE DEF S
<1>4. PICK s : s = Ascending(S)
  OBVIOUS
<1>5. /\ Cardinality(S) \in Nat /\ s \in [1 .. Cardinality(S) -> S] /\ s \in Seq(S)
      /\ Len(s) = Cardinality(S)
      /\ \A i, j \in 1 .. Len(s) : i < j <=> s[i] < s[j]
      /\ \A e \in S : \E i \in 1 .. Len(s) : s[i] = e
  BY <1>3, <1>4, AscendingIs
<1>6. \A i \in 1 .. Len(s) : s[i] \in S
  BY <1>5
<1>7. QED
  BY <1>4, <1>5, <1>6 DEF S, Listing

(* The pieces that task1_helper() sends are of one tile, and not too many; *)
(* every edge is in one of them or in what is left, and no other is.       *)
Within(first, last, value, m) == m \in Piece /\ first <= m.first /\ m.last <= last /\ m.value = value

PiecesRight(room, first, last, value, h) ==
  /\ h.sent \in Seq(CutPieces) /\ Len(h.sent) \in Nat /\ 3 * Len(h.sent) <= room
  /\ h.left \in Seq(Piece)
  /\ \/ h.left = <<>>
     \/ Len(h.left) = 1 /\ h.left[1].first < h.left[1].last /\ h.left[1].last <= EdgeCount
  /\ \A e \in first .. last - 1 :
        \/ \E i \in 1 .. Len(h.sent) : Carries(h.sent[i], e, value)
        \/ h.left # <<>> /\ Carries(h.left[1], e, value)
  /\ \A i \in 1 .. Len(h.sent) : Within(first, last, value, h.sent[i])
  /\ h.left # <<>> => Within(first, last, value, h.left[1])

LEMMA PiecesAre ==
  ASSUME NEW first \in Nat, NEW last \in Nat, first <= last, last <= EdgeCount,
         NEW value \in Nat, NEW room \in Nat
  PROVE  PiecesRight(room, first, last, value, task1_helper(room, first, last, value))
<1> DEFINE h == task1_helper(room, first, last, value)
<1> DEFINE S == Cuts(first, last)
<1>0. PICK s : s = Ascending(S)
  OBVIOUS
<1> DEFINE cut(i) == IF i = 0 THEN first ELSE s[i]
           count == Min({room \div num_task_params[1], Len(s)})
           piece(i) == [first |-> cut(i - 1), last |-> cut(i), value |-> value]
<1>1. S \subseteq Nat /\ \A x \in S : first < x /\ x <= last
  BY DEF Cuts
<1> HIDE DEF S
<1>18. Listing(S, s)
  BY <1>0, CutsAre DEF S
<1>15. PICK n \in Nat : n = Len(s)
  BY <1>18 DEF Listing
<1>16. /\ S \subseteq Nat /\ \A x \in S : first < x /\ x <= last
       /\ \A i \in 1 .. n : s[i] \in S
       /\ \A i, j \in 1 .. n : i < j <=> s[i] < s[j]
       /\ \A e \in S : \E i \in 1 .. n : s[i] = e
  BY <1>1, <1>15, <1>18 DEF Listing
<1>2. /\ h.sent = [i \in 1 .. count |-> piece(i)]
      /\ h.left = Park(cut(count), last, value)
  BY <1>0 DEF task1_helper, S
<1> HIDE DEF h
<1>3. count \in Nat /\ count <= n /\ 3 * count <= room
  <2>1. num_task_params[1] = 3
    BY Constants
  <2>2. PICK q \in Nat : q = room \div num_task_params[1] /\ 3 * q <= room
    <3>1. room \div 3 \in Nat /\ 3 * (room \div 3) <= room
      OBVIOUS
    <3>2. QED
      BY <2>1, <3>1
  <2>3. count = IF q <= n THEN q ELSE n
    BY <1>15, <2>2, LeastOfTwo
  <2>4. QED
    BY <2>2, <2>3
<1> HIDE DEF count
<1>17. cut(0) = first /\ \A i \in 1 .. n : cut(i) = s[i]
  OBVIOUS
<1> HIDE DEF cut
<1>4. \A i \in 0 .. count : cut(i) \in Nat /\ first <= cut(i) /\ cut(i) <= last
  <2>1. \A i \in 0 .. count : i = 0 \/ i \in 1 .. n
    BY <1>3
  <2>2. ASSUME NEW i \in 0 .. count PROVE cut(i) \in Nat /\ first <= cut(i) /\ cut(i) <= last
    <3>1. CASE i = 0
      <4>1. cut(i) = first
        BY <1>17, <3>1
      <4>2. QED
        BY <4>1
    <3>2. CASE i \in 1 .. n
      <4>1. cut(i) \in S
        BY <1>16, <1>17, <3>2
      <4>2. PICK x \in S : x = cut(i)
        BY <4>1
      <4>3. x \in Nat /\ first < x /\ x <= last
        BY <1>1
      <4>4. QED
        BY <4>2, <4>3
    <3>3. QED
      BY <2>1, <3>1, <3>2
  <2>3. QED
    BY <2>2
<1>5. \A i \in 1 .. count : cut(i) \in S /\ cut(i - 1) \in Nat /\ (cut(i - 1) = first \/ cut(i - 1) \in S)
  <2>1. \A i \in 1 .. count : i \in 1 .. n /\ i - 1 \in 0 .. count
    BY <1>3
  <2>2. \A i \in 0 .. count : i = 0 \/ i \in 1 .. n
    BY <1>3
  <2>3. \A i \in 0 .. count : cut(i) = first \/ cut(i) \in S
    BY <1>16, <1>17, <2>2
  <2>4. QED
    BY <1>4, <1>16, <1>17, <2>1, <2>3
<1>6. ASSUME NEW i \in 1 .. count
      PROVE  /\ cut(i - 1) < cut(i)
             /\ \A x \in S : ~(cut(i - 1) < x /\ x < cut(i))
  <2>1. i \in 1 .. n /\ cut(i) = s[i] /\ s[i] \in S /\ (i = 1 \/ i - 1 \in 1 .. n)
    BY <1>3, <1>16, <1>17
  <2>2. CASE i = 1
    <3>1. cut(i - 1) = first
      BY <1>17, <2>2
    <3>2. ASSUME NEW x \in S, x < cut(i) PROVE FALSE
      <4>1. PICK j \in 1 .. n : s[j] = x
        BY <1>16
      <4>2. j < i
        BY <1>16, <2>1, <3>2, <4>1
      <4>3. QED
        BY <2>2, <4>2
    <3>3. QED
      BY <1>16, <2>1, <3>1, <3>2
  <2>3. CASE i - 1 \in 1 .. n
    <3>1. cut(i - 1) = s[i - 1] /\ i - 1 < i
      BY <1>17, <2>3
    <3>2. ASSUME NEW x \in S, cut(i - 1) < x, x < cut(i) PROVE FALSE
      <4>1. PICK j \in 1 .. n : s[j] = x
        BY <1>16
      <4>2. j < i /\ i - 1 < j
        BY <1>16, <2>1, <2>3, <3>1, <3>2, <4>1
      <4>3. QED
        BY <4>2
    <3>3. s[i - 1] < s[i]
      BY <1>16, <2>1, <2>3, <3>1
    <3>4. QED
      BY <2>1, <3>1, <3>2, <3>3
  <2>4. QED
    BY <2>1, <2>2, <2>3
<1>7. ASSUME NEW i \in 1 .. count PROVE piece(i) \in CutPieces
  <2>1. PICK a \in Nat, b \in Nat : a = cut(i - 1) /\ b = cut(i) /\ b <= last
    <3>1. cut(i) \in Nat /\ cut(i) <= last
      BY <1>3, <1>4
    <3>2. QED
      BY <1>5, <3>1
  <2>2. a < b /\ b \in S /\ (a = first \/ a \in S) /\ \A x \in S : ~(a < x /\ x < b)
    BY <1>5, <1>6, <2>1
  <2>3. b - a <= max_task_chunk /\ OwnerOfEdge(a) = OwnerOfEdge(b - 1)
    <3>1. Neighbours(first, last, a, b)
      BY <2>2 DEF Neighbours, S
    <3>2. QED
      BY <3>1, BetweenCuts
  <2>4. piece(i) = [first |-> a, last |-> b, value |-> value] /\ b <= EdgeCount
    BY <2>1, Constants
  <2>5. QED
    BY <2>2, <2>3, <2>4 DEF CutPieces, Piece
<1>8. h.sent \in [1 .. count -> CutPieces]
  BY <1>2, <1>7
<1>9. h.sent \in Seq(CutPieces) /\ Len(h.sent) = count
  <2>1. PICK c \in Nat : c = count
    BY <1>3
  <2>2. QED
    BY <1>8, <2>1, LenProperties, SeqDef
<1>10. cut(count) \in Nat /\ first <= cut(count) /\ cut(count) <= last
  BY <1>3, <1>4
<1>11. /\ h.left = IF cut(count) < last THEN <<[first |-> cut(count), last |-> last, value |-> value]>> ELSE <<>>
       /\ cut(count) < last => h.left # <<>>
  BY <1>2 DEF Park
<1>12. /\ h.left \in Seq(Piece)
       /\ \/ h.left = <<>>
          \/ Len(h.left) = 1 /\ h.left[1].first < h.left[1].last /\ h.left[1].last <= EdgeCount
  <2>1. PICK c \in Nat : c = cut(count)
    BY <1>10
  <2>2. CASE c < last
    <3>1. h.left = <<[first |-> c, last |-> last, value |-> value]>>
      BY <1>11, <2>1, <2>2
    <3>2. [first |-> c, last |-> last, value |-> value] \in Piece
      BY DEF Piece
    <3>3. QED
      BY <2>2, <3>1, <3>2
  <2>3. CASE ~(c < last)
    <3>1. h.left = <<>>
      BY <1>11, <2>1, <2>3
    <3>2. h.left \in Seq(Piece)
      BY <3>1
    <3>3. QED
      BY <3>1, <3>2
  <2>4. QED
    BY <2>2, <2>3
<1>13. ASSUME NEW e \in first .. last - 1
       PROVE  \/ \E i \in 1 .. Len(h.sent) : Carries(h.sent[i], e, value)
              \/ h.left # <<>> /\ Carries(h.left[1], e, value)
  <2>1. CASE cut(count) <= e
    <3>1. cut(count) < last
      BY <1>10, <2>1
    <3>2. h.left # <<>> /\ h.left[1] = [first |-> cut(count), last |-> last, value |-> value]
      BY <1>11, <3>1
    <3>3. QED
      BY <2>1, <3>2 DEF Carries
  <2>2. CASE e < cut(count)
    <3> DEFINE T == {j \in 0 .. count : e < cut(j)}
    <3>1. T \in SUBSET Nat /\ count \in T
      BY <1>3, <2>2
    <3>2. PICK i \in T : \A y \in T : i <= y
      BY <3>1, Least
    <3>3. i \in 0 .. count /\ e < cut(i)
      BY <3>2
    <3>4. i # 0
      BY <1>17, <3>3
    <3>5. i \in 1 .. count /\ i - 1 \in 0 .. count /\ i - 1 \notin T
      BY <1>3, <3>2, <3>3, <3>4
    <3>6. cut(i - 1) <= e
      BY <1>4, <3>5
    <3>7. h.sent[i] = piece(i)
      BY <1>2, <3>5
    <3>8. Carries(h.sent[i], e, value)
      BY <3>3, <3>6, <3>7 DEF Carries
    <3>9. QED
      BY <1>9, <3>5, <3>8
  <2>3. QED
    BY <1>10, <2>1, <2>2
<1>14. ASSUME NEW i \in 1 .. count PROVE Within(first, last, value, h.sent[i])
  <2>1. h.sent[i] = piece(i)
    BY <1>2
  <2>2. i \in 0 .. count /\ i - 1 \in 0 .. count
    BY <1>3
  <2>3. first <= cut(i - 1) /\ cut(i) <= last
    BY <1>4, <2>2
  <2>4. piece(i) \in Piece
    BY <1>7 DEF CutPieces
  <2>5. QED
    BY <2>1, <2>3, <2>4 DEF Within
<1>19. h.left # <<>> => Within(first, last, value, h.left[1])
  <2>1. h.left # <<>> => h.left[1] = [first |-> cut(count), last |-> last, value |-> value]
    BY <1>11
  <2>2. h.left # <<>> => h.left[1] \in Piece
    BY <1>12, HeadTailProperties
  <2>3. QED
    BY <1>10, <2>1, <2>2 DEF Within
<1>20. QED
  BY <1>3, <1>9, <1>12, <1>13, <1>14, <1>19 DEF PiecesRight, h
-----------------------------------------------------------------------------
(* The circular list of a frontier.                                        *)
Slots == 0 .. fr_head_offset - 1
Blocks == 0 .. bitmap_len - 1
Rings == [list : [Slots -> Blocks], head : Slots, tail : Slots]

Occupied(f) == IF f.head < f.tail THEN fr_head_offset - (f.tail - f.head) ELSE f.head - f.tail
Around(f) == [i \in 1 .. Occupied(f) |-> f.list[(f.tail + i - 1) % fr_head_offset]]

(* The list has more slots than the tile has blocks.                       *)
LEMMA RingSizes ==
  /\ bitmap_len \in Nat \ {0} /\ fr_head_offset \in Nat /\ bitmap_len + 2 <= fr_head_offset
  /\ \A n \in nodes : Block(n) \in Blocks
<1> DEFINE q == (nodePerTile - 1) \div BLOCK
           r == nodePerTile \div BLOCK
<1>1. nodePerTile \in Nat \ {0} /\ BLOCK \in Nat \ {0} /\ nodePerTile - 1 \in Int /\ nodePerTile \in Int
  BY Constants
<1>2. nodePerTile - 1 <= nodePerTile /\ nodePerTile - 1 \in Nat
  BY <1>1
<1>3. q \in Nat /\ r \in Nat
  BY <1>1, <1>2, Divides
<1>4. q <= r
  <2>1. PICK x \in Int, y \in Int : x = nodePerTile - 1 /\ y = nodePerTile /\ x <= y
    BY <1>1, <1>2
  <2>2. x \div BLOCK <= y \div BLOCK
    BY <1>1, <2>1, DividesInOrder
  <2>3. QED
    BY <2>1, <2>2
<1>5. Max({r, BLOCK}) = IF r <= BLOCK THEN BLOCK ELSE r
  BY <1>1, <1>3, GreatestOfTwo
<1>6. ASSUME NEW n \in nodes PROVE Block(n) \in 0 .. q
  <2>1. n \in Int /\ n % nodePerTile \in 0 .. nodePerTile - 1
    <3>1. n \in Int
      BY Constants DEF nodes
    <3>2. QED
      BY <1>1, <3>1, Divides
  <2>2. PICK x \in Int, y \in Int : x = n % nodePerTile /\ y = nodePerTile - 1 /\ x <= y /\ x \in Nat
    BY <1>1, <2>1
  <2>3. x \div BLOCK <= y \div BLOCK /\ x \div BLOCK \in Nat
    BY <1>1, <2>2, Divides, DividesInOrder
  <2>4. x \div BLOCK \in 0 .. y \div BLOCK
    BY <1>3, <2>2, <2>3
  <2>5. QED
    BY <2>2, <2>4 DEF Block
<1>7. bitmap_len = q + 1 /\ fr_head_offset = Max({r, BLOCK}) + 3
  BY DEF bitmap_len, fr_head_offset
<1> HIDE DEF q, r
<1>8. QED
  BY <1>1, <1>3, <1>4, <1>5, <1>6, <1>7 DEF Blocks

LEMMA Wraps ==
  ASSUME NEW H \in Nat \ {0}, NEW x \in Nat, x < H + H
  PROVE  x % H = IF x < H THEN x ELSE x - H
<1>1. CASE x < H
  <2>1. PICK k \in Int, y \in Int : k = 0 /\ y = x /\ H * k <= y /\ y < H * k + H
    BY <1>1
  <2>2. y % H = y - H * k
    BY <2>1, Quotient
  <2>3. QED
    BY <1>1, <2>1, <2>2
<1>2. CASE ~(x < H)
  <2>1. PICK k \in Int, y \in Int : k = 1 /\ y = x /\ H * k <= y /\ y < H * k + H
    BY <1>2
  <2>2. y % H = y - H * k
    BY <2>1, Quotient
  <2>3. QED
    BY <1>2, <2>1, <2>2
<1>3. QED
  BY <1>1, <1>2

LEMMA RingIs ==
  ASSUME NEW f \in Rings
  PROVE  /\ Occupied(f) \in 0 .. fr_head_offset - 1
         /\ Around(f) \in [1 .. Occupied(f) -> Blocks]
         /\ \A i \in 1 .. Occupied(f) :
              Around(f)[i] = f.list[IF f.tail + i - 1 < fr_head_offset THEN f.tail + i - 1
                                    ELSE f.tail + i - 1 - fr_head_offset]
<1>1. PICK H \in Nat \ {0} : H = fr_head_offset
  BY RingSizes
<1>2. PICK head \in 0 .. H - 1, tail \in 0 .. H - 1 : head = f.head /\ tail = f.tail
  BY <1>1 DEF Rings, Slots
<1>3. f.list \in [0 .. H - 1 -> Blocks]
  BY <1>1 DEF Rings, Slots
<1>4. PICK n \in 0 .. H - 1 : n = Occupied(f) /\ n = IF head < tail THEN H - (tail - head) ELSE head - tail
  <2>1. (IF head < tail THEN H - (tail - head) ELSE head - tail) \in 0 .. H - 1
    OBVIOUS
  <2>2. QED
    BY <1>1, <1>2, <2>1 DEF Occupied
<1>5. ASSUME NEW i \in 1 .. n
      PROVE  /\ (tail + i - 1) % H = IF tail + i - 1 < H THEN tail + i - 1 ELSE tail + i - 1 - H
             /\ (tail + i - 1) % H \in 0 .. H - 1
  <2>1. PICK x \in Nat : x = tail + i - 1 /\ x < H + H
    <3>1. tail + i - 1 \in Nat /\ tail + i - 1 < H + H
      OBVIOUS
    <3>2. QED
      BY <3>1
  <2>2. x % H = IF x < H THEN x ELSE x - H
    BY <2>1, Wraps
  <2>3. x % H \in 0 .. H - 1
    BY <2>1, <2>2
  <2>4. QED
    BY <2>1, <2>2, <2>3
<1>6. Around(f) = [i \in 1 .. n |-> f.list[(tail + i - 1) % H]]
  BY <1>1, <1>2, <1>4 DEF Around
<1>7. QED
  BY <1>1, <1>2, <1>3, <1>4, <1>5, <1>6

Added(f, b) == [f EXCEPT !.list[f.head] = b, !.head = (@ + 1) % fr_head_offset]
Extends(f, b, g) == /\ g \in Rings /\ Occupied(g) = Occupied(f) + 1
                    /\ \A i \in 1 .. Occupied(f) : Around(g)[i] = Around(f)[i]
                    /\ Around(g)[Occupied(f) + 1] = b

LEMMA RingGrows ==
  ASSUME NEW f \in Rings, NEW b \in Blocks, Occupied(f) < fr_head_offset - 1
  PROVE  Extends(f, b, Added(f, b))
<1> DEFINE g == Added(f, b)
<1>1. PICK H \in Nat \ {0} : H = fr_head_offset
  BY RingSizes
<1>2. PICK head \in 0 .. H - 1, tail \in 0 .. H - 1 : head = f.head /\ tail = f.tail
  BY <1>1 DEF Rings, Slots
<1>3. f.list \in [0 .. H - 1 -> Blocks]
  BY <1>1 DEF Rings, Slots
<1>4. PICK next \in 0 .. H - 1 : next = (head + 1) % H /\ next = IF head + 1 < H THEN head + 1 ELSE 0
  <2>1. PICK x \in Nat : x = head + 1 /\ x < H + H /\ x <= H
    OBVIOUS
  <2>2. x % H = IF x < H THEN x ELSE x - H
    BY <2>1, Wraps
  <2>3. x % H = IF head + 1 < H THEN head + 1 ELSE 0
    BY <2>1, <2>2
  <2>4. (IF head + 1 < H THEN head + 1 ELSE 0) \in 0 .. H - 1
    OBVIOUS
  <2>5. QED
    BY <2>1, <2>3, <2>4
<1>5. /\ g.list = [f.list EXCEPT ![head] = b] /\ g.tail = tail /\ g.head = next
      /\ g = [list |-> g.list, head |-> g.head, tail |-> g.tail]
  <2>1. f = [list |-> f.list, head |-> f.head, tail |-> f.tail]
    BY DEF Rings
  <2>2. g = [f EXCEPT !.list[f.head] = b, !.head = (@ + 1) % fr_head_offset]
    BY DEF Added
  <2>3. g = [list |-> [f.list EXCEPT ![f.head] = b], head |-> (f.head + 1) % fr_head_offset, tail |-> f.tail]
    BY <2>1, <2>2
  <2>4. QED
    BY <1>1, <1>2, <1>4, <2>3
<1> HIDE DEF g
<1>6. g \in Rings
  BY <1>1, <1>3, <1>5 DEF Rings, Slots
<1>7. PICK n \in Nat : n = Occupied(f) /\ n < H - 1 /\ n = IF head < tail THEN H - (tail - head) ELSE head - tail
  BY <1>1, <1>2, RingIs DEF Occupied
<1>8. Occupied(g) = n + 1
  <2>1. Occupied(g) = IF next < tail THEN H - (tail - next) ELSE next - tail
    BY <1>1, <1>5 DEF Occupied
  <2>2. QED
    BY <1>4, <1>7, <2>1
<1> DEFINE at(i) == IF tail + i - 1 < H THEN tail + i - 1 ELSE tail + i - 1 - H
<1>9. /\ \A i \in 1 .. n : Around(f)[i] = f.list[at(i)]
      /\ \A i \in 1 .. n + 1 : Around(g)[i] = g.list[at(i)]
  <2>1. \A i \in 1 .. Occupied(f) : Around(f)[i] = f.list[IF f.tail + i - 1 < fr_head_offset THEN f.tail + i - 1
                                                             ELSE f.tail + i - 1 - fr_head_offset]
    BY RingIs
  <2>2. \A i \in 1 .. Occupied(g) : Around(g)[i] = g.list[IF g.tail + i - 1 < fr_head_offset THEN g.tail + i - 1
                                                             ELSE g.tail + i - 1 - fr_head_offset]
    BY <1>6, RingIs
  <2>3. \A i \in 1 .. n : Around(f)[i] = f.list[at(i)]
    BY <1>1, <1>2, <1>7, <2>1
  <2>4. \A i \in 1 .. n + 1 : Around(g)[i] = g.list[at(i)]
    BY <1>1, <1>5, <1>8, <2>2
  <2>5. QED
    BY <2>3, <2>4
<1>10. ASSUME NEW i \in 1 .. n PROVE at(i) \in 0 .. H - 1 /\ at(i) # head /\ i \in 1 .. n + 1
  BY <1>7
<1>11. at(n + 1) = head /\ n + 1 \in 1 .. n + 1
  BY <1>7
<1> HIDE DEF at
<1>12. \A i \in 1 .. n : Around(g)[i] = Around(f)[i]
  BY <1>3, <1>5, <1>9, <1>10
<1>13. Around(g)[n + 1] = b
  BY <1>3, <1>5, <1>9, <1>11
<1>14. QED
  BY <1>6, <1>7, <1>8, <1>12, <1>13 DEF Extends, g

Dropped(f, d) == [f EXCEPT !.tail = (@ + d) % fr_head_offset]
Retains(f, d, g) ==
  /\ g \in Rings /\ Occupied(g) = Occupied(f) - d
  /\ \A i \in 1 .. Occupied(g) : i + d \in 1 .. Occupied(f) /\ Around(g)[i] = Around(f)[i + d]

LEMMA RingShrinks ==
  ASSUME NEW f \in Rings, NEW d \in 0 .. Occupied(f)
  PROVE  Retains(f, d, Dropped(f, d))
<1> DEFINE g == Dropped(f, d)
<1>1. PICK H \in Nat \ {0} : H = fr_head_offset
  BY RingSizes
<1>2. PICK head \in 0 .. H - 1, tail \in 0 .. H - 1 : head = f.head /\ tail = f.tail
  BY <1>1 DEF Rings, Slots
<1>3. f.list \in [0 .. H - 1 -> Blocks]
  BY <1>1 DEF Rings, Slots
<1>4. PICK n \in Nat : n = Occupied(f) /\ n <= H - 1 /\ n = IF head < tail THEN H - (tail - head) ELSE head - tail
  BY <1>1, <1>2, RingIs DEF Occupied
<1>5. d \in Nat /\ d <= n
  BY <1>4
<1>6. PICK next \in 0 .. H - 1 : next = (tail + d) % H /\ next = IF tail + d < H THEN tail + d ELSE tail + d - H
  <2>1. PICK x \in Nat : x = tail + d /\ x < H + H
    <3>1. tail + d \in Nat /\ tail + d < H + H
      BY <1>4, <1>5
    <3>2. QED
      BY <3>1
  <2>2. x % H = IF x < H THEN x ELSE x - H
    BY <2>1, Wraps
  <2>3. (IF x < H THEN x ELSE x - H) \in 0 .. H - 1
    BY <2>1
  <2>4. QED
    BY <2>1, <2>2, <2>3
<1>7. /\ g.list = f.list /\ g.tail = next /\ g.head = head
      /\ g = [list |-> g.list, head |-> g.head, tail |-> g.tail]
  BY <1>1, <1>2, <1>6 DEF Rings, Dropped
<1> HIDE DEF g
<1>8. g \in Rings
  BY <1>1, <1>3, <1>7 DEF Rings, Slots
<1>9. Occupied(g) = n - d
  <2>1. Occupied(g) = IF head < next THEN H - (next - head) ELSE head - next
    BY <1>1, <1>7 DEF Occupied
  <2>2. QED
    BY <1>4, <1>5, <1>6, <2>1
<1> DEFINE at(from, i) == IF from + i - 1 < H THEN from + i - 1 ELSE from + i - 1 - H
<1>10. /\ \A i \in 1 .. n : Around(f)[i] = f.list[at(tail, i)]
       /\ \A i \in 1 .. n - d : Around(g)[i] = g.list[at(next, i)]
  BY <1>1, <1>2, <1>4, <1>7, <1>8, <1>9, RingIs
<1>11. ASSUME NEW i \in 1 .. n - d PROVE i + d \in 1 .. n /\ at(next, i) = at(tail, i + d)
  <2>1. i \in Nat /\ i >= 1 /\ i + d <= n /\ d \in Nat
    BY <1>4, <1>5
  <2>2. CASE tail + d < H
    <3>1. next = tail + d
      BY <1>6, <2>2
    <3>2. next + i - 1 = tail + (i + d) - 1
      BY <2>1, <3>1
    <3>3. QED
      BY <1>4, <2>1, <3>2
  <2>3. CASE ~(tail + d < H)
    <3>1. next = tail + d - H
      BY <1>6, <2>3
    <3>2. next + i - 1 = tail + (i + d) - 1 - H /\ tail + (i + d) - 1 >= H /\ tail + (i + d) - 1 - H < H
      BY <1>4, <2>1, <2>3, <3>1
    <3>3. QED
      BY <1>4, <2>1, <3>2
  <2>4. QED
    BY <2>2, <2>3
<1> HIDE DEF at
<1>12. ASSUME NEW i \in 1 .. n - d PROVE i + d \in 1 .. n /\ Around(g)[i] = Around(f)[i + d]
  BY <1>7, <1>10, <1>11
<1>13. QED
  BY <1>4, <1>8, <1>9, <1>12 DEF Retains, g

(* The list holds the blocks of a bitmap that have a node, each once.      *)
Agrees(f, B) == /\ IsInjective(Around(f))
                /\ ToSet(Around(f)) = {b \in Blocks : B[b] # {}}

LEMMA OnceEach ==
  ASSUME NEW n \in Nat, NEW s \in [1 .. n -> Blocks], IsInjective(s)
  PROVE  n <= bitmap_len
<1>1. s \in Injection(1 .. n, Blocks)
  BY DEF Injection, IsInjective
<1>2. PICK m \in Int : m = bitmap_len - 1 /\ m >= 0
  BY RingSizes
<1>3. IsFiniteSet(0 .. m) /\ Cardinality(0 .. m) = m + 1
  BY <1>2, FS_Interval
<1>4. Cardinality(1 .. n) = n
  BY FS_Interval
<1>5. Blocks = 0 .. m
  BY <1>2 DEF Blocks
<1>6. Cardinality(1 .. n) <= Cardinality(Blocks)
  BY <1>1, <1>3, <1>5, FS_Injection
<1>7. QED
  BY <1>2, <1>3, <1>4, <1>5, <1>6, RingSizes

LEMMA AddAgrees ==
  ASSUME NEW f \in Rings, NEW B \in [Blocks -> SUBSET nodes], NEW b \in Blocks, NEW n \in nodes,
         Agrees(f, B),
         NEW g, g = IF B[b] # {} THEN f
                    ELSE Added(f, b)
  PROVE  g \in Rings /\ Agrees(g, [B EXCEPT ![b] = @ \union {n}])
<1> DEFINE C == [B EXCEPT ![b] = @ \union {n}]
<1>1. \A c \in Blocks : C[c] # {} <=> B[c] # {} \/ c = b
  OBVIOUS
<1> HIDE DEF C
<1>2. CASE B[b] # {}
  <2>1. g = f /\ {c \in Blocks : C[c] # {}} = {c \in Blocks : B[c] # {}}
    BY <1>1, <1>2
  <2>2. QED
    BY <2>1 DEF Agrees, C
<1>3. CASE B[b] = {}
  <2>1. PICK l \in Nat : l = Occupied(f)
    BY RingIs, RingSizes
  <2>2. Around(f) \in [1 .. l -> Blocks] /\ IsInjective(Around(f))
    BY <2>1, RingIs DEF Agrees
  <2>3. Occupied(f) < fr_head_offset - 1
    BY <2>1, <2>2, OnceEach, RingSizes
  <2>4. g = Added(f, b)
    BY <1>3
  <2>5. /\ g \in Rings /\ Occupied(g) = l + 1
        /\ \A i \in 1 .. l : Around(g)[i] = Around(f)[i]
        /\ Around(g)[l + 1] = b
    <3>1. Extends(f, b, g)
      BY <2>3, <2>4, RingGrows
    <3>2. QED
      BY <2>1, <3>1 DEF Extends
  <2>6. Around(g) \in [1 .. l + 1 -> Blocks]
    BY <2>5, RingIs
  <2>7. \A x : x \in ToSet(Around(f)) <=> \E i \in 1 .. l : Around(f)[i] = x
    BY <2>2 DEF ToSet
  <2>8. \A x : x \in ToSet(Around(g)) <=> \E i \in 1 .. l + 1 : Around(g)[i] = x
    BY <2>6 DEF ToSet
  <2>9. \A i \in 1 .. l : Around(f)[i] # b
    BY <1>3, <2>7 DEF Agrees
  <2>10. \A i \in 1 .. l + 1 : i = l + 1 \/ i \in 1 .. l
    OBVIOUS
  <2>11. \A i, j \in 1 .. l : Around(f)[i] = Around(f)[j] => i = j
    BY <2>2 DEF IsInjective
  <2>12. \A i, j \in 1 .. l + 1 : Around(g)[i] = Around(g)[j] => i = j
    BY <2>5, <2>9, <2>10, <2>11
  <2>13. IsInjective(Around(g))
    BY <2>6, <2>12 DEF IsInjective
  <2>14. \A x : x \in ToSet(Around(g)) <=> x \in ToSet(Around(f)) \/ x = b
    <3>1. \A i \in 1 .. l : i \in 1 .. l + 1
      OBVIOUS
    <3>2. l + 1 \in 1 .. l + 1
      OBVIOUS
    <3>3. QED
      BY <2>5, <2>7, <2>8, <2>10, <3>1, <3>2
  <2>15. ToSet(Around(g)) = {c \in Blocks : C[c] # {}}
    BY <1>1, <2>14 DEF Agrees
  <2>16. QED
    BY <2>5, <2>13, <2>15 DEF Agrees, C
<1>4. QED
  BY <1>2, <1>3

LEMMA Prefix ==
  ASSUME NEW n \in Nat, NEW P \in SUBSET (1 .. n), \A i \in P : \A j \in 1 .. n : j < i => j \in P
  PROVE  Cardinality(P) \in 0 .. n /\ P = 1 .. Cardinality(P)
<1> DEFINE T == {k \in 1 .. n + 1 : k \notin P}
<1>1. T \in SUBSET Nat /\ n + 1 \in T
  OBVIOUS
<1>2. PICK k \in T : \A y \in T : k <= y
  BY <1>1, Least
<1>3. PICK m \in 0 .. n : k = m + 1
  <2>1. k - 1 \in 0 .. n /\ k = (k - 1) + 1
    BY <1>1
  <2>2. QED
    BY <2>1
<1>4. \A i \in 1 .. m : i \in P
  BY <1>2, <1>3
<1>5. \A i \in P : i \in 1 .. m
  <2>1. SUFFICES ASSUME NEW i \in P, i \notin 1 .. m PROVE FALSE
    OBVIOUS
  <2>2. i > m /\ i # k
    BY <1>3, <2>1
  <2>3. k < i /\ k \in 1 .. n
    BY <1>3, <2>2
  <2>4. QED
    BY <1>2, <2>3
<1>6. P = 1 .. m
  BY <1>4, <1>5
<1>7. Cardinality(1 .. m) = m
  BY FS_Interval
<1>8. QED
  BY <1>6, <1>7
-----------------------------------------------------------------------------
(* What T4 takes from the frontier: the nodes with the first ranks.        *)
InPlace(B) == \A b \in Blocks : \A n \in B[b] : n \in nodes /\ Block(n) = b
Waiting(f, B) == UNION {B[b] : b \in ToSet(Around(f))}
Filled(f, B) == [i \in DOMAIN Around(f) |-> B[Around(f)[i]]]
Rank(f, B, n) == Cardinality(Ahead(Filled(f, B), n))
Moved(f, B, room) == {n \in Waiting(f, B) : Rank(f, B, n) < room}
Remaining(f, B, room) == [b \in DOMAIN B |-> B[b] \ Moved(f, B, room)]
Emptied(f, B, room) == {i \in DOMAIN Around(f) : Remaining(f, B, room)[Around(f)[i]] = {}}

LEMMA FrontierOrder ==
  ASSUME NEW f \in Rings, NEW B \in [Blocks -> SUBSET nodes], Agrees(f, B), InPlace(B)
  PROVE  /\ Ranked(Waiting(f, B), {p \in Waiting(f, B) \X Waiting(f, B) : p[1] \in Ahead(Filled(f, B), p[2])})
         /\ \A n \in Waiting(f, B) :
               Before(Waiting(f, B), {p \in Waiting(f, B) \X Waiting(f, B) : p[1] \in Ahead(Filled(f, B), p[2])}, n)
                 = Ahead(Filled(f, B), n)
         /\ \A m, n \in Waiting(f, B) : \A i, j \in DOMAIN Around(f) :
               m \in B[Around(f)[i]] /\ n \in B[Around(f)[j]] /\ i < j => m \in Ahead(Filled(f, B), n)
         /\ Waiting(f, B) \subseteq nodes /\ IsFiniteSet(Waiting(f, B))
<1> DEFINE W == Waiting(f, B)
           A == Filled(f, B)
           R == {p \in W \X W : p[1] \in Ahead(A, p[2])}
<1>1. PICK l \in Nat : l = Occupied(f) /\ Around(f) \in [1 .. l -> Blocks]
  BY RingIs, RingSizes
<1>2. DOMAIN A = 1 .. l /\ \A i \in 1 .. l : A[i] = B[Around(f)[i]]
  BY <1>1 DEF Filled
<1>3. W \subseteq nodes /\ \A n : n \in W <=> \E i \in 1 .. l : n \in A[i]
  BY <1>1, <1>2 DEF Waiting, ToSet
<1>4. IsFiniteSet(W)
  <2>1. PICK k \in Int : nodes = 0 .. k
    <3>1. GRID_SIZE * nodePerTile - 1 \in Int
      BY Constants
    <3>2. QED
      BY <3>1 DEF nodes
  <2>2. IsFiniteSet(nodes)
    BY <2>1, FS_Interval
  <2>3. QED
    BY <1>3, <2>2, FS_Subset
<1>5. ASSUME NEW n, NEW i \in 1 .. l, NEW j \in 1 .. l, n \in A[i], n \in A[j] PROVE i = j
  <2>1. Around(f)[i] = Block(n) /\ Around(f)[j] = Block(n)
    BY <1>1, <1>2, <1>5 DEF InPlace
  <2>2. QED
    BY <1>1, <2>1 DEF Agrees, IsInjective
<1> HIDE DEF W, A
<1> DEFINE idx == [n \in W |-> CHOOSE i \in 1 .. l : n \in A[i]]
<1>6. \A n \in W : idx[n] \in 1 .. l /\ n \in A[idx[n]]
  BY <1>3
<1> HIDE DEF idx
<1>7. \A n \in W : \A i \in 1 .. l : n \in A[i] <=> i = idx[n]
  BY <1>5, <1>6
<1>8. W \subseteq Int
  BY <1>3, Constants DEF nodes
<1>9. ASSUME NEW n \in W
      PROVE  \A m : m \in Ahead(A, n) <=> m \in W /\ (idx[m] < idx[n] \/ (idx[m] = idx[n] /\ m > n))
  <2>1. ASSUME NEW m, m \in Ahead(A, n) PROVE m \in W /\ (idx[m] < idx[n] \/ (idx[m] = idx[n] /\ m > n))
    <3>1. PICK i \in 1 .. l, j \in 1 .. l : m \in A[i] /\ n \in A[j] /\ (i < j \/ (i = j /\ m > n))
      BY <1>2, <2>1 DEF Ahead
    <3>2. m \in W
      BY <1>3, <3>1
    <3>3. i = idx[m] /\ j = idx[n]
      BY <1>7, <3>1, <3>2
    <3>4. QED
      BY <3>1, <3>2, <3>3
  <2>2. ASSUME NEW m \in W, idx[m] < idx[n] \/ (idx[m] = idx[n] /\ m > n) PROVE m \in Ahead(A, n)
    <3>1. m \in nodes /\ idx[m] \in DOMAIN A /\ idx[n] \in DOMAIN A /\ m \in A[idx[m]] /\ n \in A[idx[n]]
      BY <1>2, <1>3, <1>6
    <3>2. QED
      BY <2>2, <3>1 DEF Ahead
  <2>3. QED
    BY <2>1, <2>2
<1>10. \A m, n \in W : <<m, n>> \in R <=> idx[m] < idx[n] \/ (idx[m] = idx[n] /\ m > n)
  BY <1>9
<1>11. \A n \in W : Before(W, R, n) = Ahead(A, n)
  <2>1. \A n \in W : \A m : m \in Ahead(A, n) => m \in W
    BY <1>9
  <2>2. QED
    BY <2>1 DEF Before
<1> HIDE DEF R
<1>12. Orders(W, R)
  <2>1. ASSUME NEW x \in W, NEW y \in W
        PROVE  <<x, x>> \notin R /\ (x # y => <<x, y>> \in R \/ <<y, x>> \in R)
    <3>1. PICK i \in Int, j \in Int, a \in Int, b \in Int : i = idx[x] /\ j = idx[y] /\ a = x /\ b = y
      BY <1>6, <1>8
    <3>2. /\ <<x, x>> \in R <=> i < i \/ (i = i /\ a > a)
          /\ <<x, y>> \in R <=> i < j \/ (i = j /\ a > b)
          /\ <<y, x>> \in R <=> j < i \/ (j = i /\ b > a)
      BY <1>10, <3>1
    <3>3. QED
      BY <3>1, <3>2
  <2>2. ASSUME NEW x \in W, NEW y \in W, NEW z \in W, <<x, y>> \in R, <<y, z>> \in R PROVE <<x, z>> \in R
    <3>1. PICK i \in Int, j \in Int, k \in Int, a \in Int, b \in Int, c \in Int :
             i = idx[x] /\ j = idx[y] /\ k = idx[z] /\ a = x /\ b = y /\ c = z
      BY <1>6, <1>8
    <3>2. /\ i < j \/ (i = j /\ a > b)
          /\ j < k \/ (j = k /\ b > c)
          /\ <<x, z>> \in R <=> i < k \/ (i = k /\ a > c)
      BY <1>10, <2>2, <3>1
    <3>3. QED
      BY <3>1, <3>2
  <2>3. QED
    BY <2>1, <2>2 DEF Orders
<1>13. Ranked(W, R)
  BY <1>4, <1>12, Ranks
<1>14. \A m, n \in W : \A i, j \in 1 .. l : m \in A[i] /\ n \in A[j] /\ i < j => m \in Ahead(A, n)
  BY <1>7, <1>9
<1>15. \A m, n \in W : \A i, j \in 1 .. l : m \in B[Around(f)[i]] /\ n \in B[Around(f)[j]] /\ i < j => m \in Ahead(A, n)
  BY <1>2, <1>14
<1>16. DOMAIN Around(f) = 1 .. l
  BY <1>1
<1>17. QED
  BY <1>3, <1>4, <1>11, <1>13, <1>15, <1>16 DEF W, A, R

MovesInTurn(f, B, room) ==
  /\ Cardinality(Moved(f, B, room)) \in Nat /\ Cardinality(Moved(f, B, room)) <= room
  /\ \A i \in 1 .. Cardinality(Moved(f, B, room)) : \E n \in Moved(f, B, room) : Rank(f, B, n) = i - 1
  /\ \A n \in Moved(f, B, room) : Rank(f, B, n) \in Nat /\ Rank(f, B, n) + 1 \in 1 .. Cardinality(Moved(f, B, room))
  /\ \A m, n \in Moved(f, B, room) : Rank(f, B, m) = Rank(f, B, n) => m = n

LEMMA MovedAre ==
  ASSUME NEW f \in Rings, NEW B \in [Blocks -> SUBSET nodes], Agrees(f, B), InPlace(B), NEW room \in Nat
  PROVE  MovesInTurn(f, B, room)
<1> DEFINE W == Waiting(f, B)
           R == {p \in W \X W : p[1] \in Ahead(Filled(f, B), p[2])}
           M == Moved(f, B, room)
           rank(n) == Rank(f, B, n)
<1>1. /\ Ranked(W, R) /\ IsFiniteSet(W)
      /\ \A n \in W : Before(W, R, n) = Ahead(Filled(f, B), n)
  BY FrontierOrder
<1>2. \A n \in W : Cardinality(Before(W, R, n)) = rank(n)
  BY <1>1 DEF Rank
<1>3. M = {n \in W : rank(n) < room}
  BY DEF Moved
<1> HIDE DEF W, R, M, rank
<1>4. PICK w \in Nat : w = Cardinality(W)
  BY <1>1 DEF Ranked
<1>5. /\ \A n \in W : rank(n) \in 0 .. w - 1
      /\ \A m, n \in W : rank(m) = rank(n) => m = n
      /\ \A i \in 0 .. w - 1 : \E n \in W : rank(n) = i
  BY <1>1, <1>2, <1>4 DEF Ranked
<1>6. PICK c \in Nat : c = IF room < w THEN room ELSE w
  OBVIOUS
<1>7. \A n \in W : n \in M <=> rank(n) \in 0 .. c - 1
  BY <1>3, <1>5, <1>6
<1>8. M \subseteq W
  BY <1>3
<1> DEFINE r == [n \in M |-> rank(n)]
           C == 0 .. c - 1
<1>9. IsFiniteSet(C) /\ Cardinality(C) = c
  <2>1. PICK k \in Int : k = c - 1
    OBVIOUS
  <2>2. IsFiniteSet(0 .. k) /\ Cardinality(0 .. k) = IF 0 > k THEN 0 ELSE k - 0 + 1
    BY FS_Interval
  <2>3. QED
    BY <2>1, <2>2
<1>10. r \in [M -> C]
  BY <1>7, <1>8
<1>11. \A m, n \in M : r[m] = r[n] => m = n
  BY <1>5, <1>8
<1>12. \A i \in C : \E n \in M : r[n] = i
  <2>1. \A i \in C : i \in 0 .. w - 1
    BY <1>6
  <2>2. QED
    BY <1>5, <1>7, <2>1
<1> HIDE DEF r, C
<1>13. r \in Injection(M, C)
  BY <1>10, <1>11 DEF Injection, IsInjective
<1>14. r \in Surjection(M, C)
  BY <1>10, <1>12 DEF Surjection
<1>15. Cardinality(M) = c
  BY <1>9, <1>13, <1>14, FS_Injection
<1>16. \A i \in 1 .. c : \E n \in M : rank(n) = i - 1
  <2>1. \A i \in 1 .. c : i - 1 \in C
    BY DEF C
  <2>2. QED
    BY <1>12, <2>1 DEF r
<1>17. \A n \in M : rank(n) \in Nat /\ rank(n) + 1 \in 1 .. c
  BY <1>7, <1>8
<1>18. \A m, n \in M : rank(m) = rank(n) => m = n
  BY <1>5, <1>8
<1>19. c <= room
  BY <1>6
<1>20. QED
  BY <1>15, <1>16, <1>17, <1>18, <1>19 DEF MovesInTurn, M, rank

LEMMA DropAgrees ==
  ASSUME NEW f \in Rings, NEW B \in [Blocks -> SUBSET nodes], Agrees(f, B), InPlace(B), NEW room \in Nat,
         NEW d, d = Cardinality(Emptied(f, B, room))
  PROVE  Dropped(f, d) \in Rings /\ Agrees(Dropped(f, d), Remaining(f, B, room))
<1> DEFINE W == Waiting(f, B)
           R == {p \in W \X W : p[1] \in Ahead(Filled(f, B), p[2])}
           M == Moved(f, B, room)
           L == Remaining(f, B, room)
           P == Emptied(f, B, room)
           a == Around(f)
           rank(n) == Rank(f, B, n)
<1>1. PICK l \in Nat : l = Occupied(f) /\ a \in [1 .. l -> Blocks]
  BY RingIs, RingSizes
<1>2. /\ L = [b \in Blocks |-> B[b] \ M]
      /\ M = {n \in W : rank(n) < room}
      /\ P = {i \in 1 .. l : L[a[i]] = {}}
      /\ \A n : n \in W <=> \E i \in 1 .. l : n \in B[a[i]]
      /\ \A b \in Blocks : B[b] # {} <=> \E i \in 1 .. l : a[i] = b
      /\ \A i, j \in 1 .. l : a[i] = a[j] => i = j
  <2>1. DOMAIN a = 1 .. l
    BY <1>1
  <2>2. L = [b \in Blocks |-> B[b] \ M]
    BY DEF Remaining
  <2>3. M = {n \in W : rank(n) < room}
    BY DEF Moved
  <2>4. P = {i \in 1 .. l : L[a[i]] = {}}
    BY <2>1 DEF Emptied
  <2>5. \A n : n \in W <=> \E i \in 1 .. l : n \in B[a[i]]
    BY <2>1 DEF Waiting, ToSet
  <2>6. \A b \in Blocks : B[b] # {} <=> \E i \in 1 .. l : a[i] = b
    BY <2>1 DEF Agrees, ToSet
  <2>7. \A i, j \in 1 .. l : a[i] = a[j] => i = j
    BY <2>1 DEF Agrees, IsInjective
  <2>8. QED
    BY <2>2, <2>3, <2>4, <2>5, <2>6, <2>7
<1>3. /\ Ranked(W, R)
      /\ \A n \in W : Before(W, R, n) = Ahead(Filled(f, B), n)
      /\ \A m, n \in W : \A i, j \in DOMAIN a :
            m \in B[a[i]] /\ n \in B[a[j]] /\ i < j => m \in Ahead(Filled(f, B), n)
  BY FrontierOrder
<1>4. \A n \in W : Cardinality(Before(W, R, n)) = rank(n)
  BY <1>3 DEF Rank
<1>5. ASSUME NEW m \in W, NEW n \in W, NEW i \in 1 .. l, NEW j \in 1 .. l,
             m \in B[a[i]], n \in B[a[j]], i < j
      PROVE  rank(m) < rank(n) /\ rank(m) \in Int /\ rank(n) \in Int
  <2>1. i \in DOMAIN a /\ j \in DOMAIN a
    BY <1>1
  <2>2. m \in Ahead(Filled(f, B), n)
    BY <1>3, <1>5, <2>1
  <2>3. <<m, n>> \in R
    BY <2>2
  <2> HIDE DEF R, W, rank
  <2>4. Cardinality(Before(W, R, m)) < Cardinality(Before(W, R, n))
    BY <1>3, <2>3 DEF Ranked
  <2>5. Cardinality(W) \in Nat /\ Cardinality(Before(W, R, m)) \in 0 .. Cardinality(W) - 1
        /\ Cardinality(Before(W, R, n)) \in 0 .. Cardinality(W) - 1
    BY <1>3 DEF Ranked
  <2>6. QED
    BY <1>4, <2>4, <2>5
<1> HIDE DEF W, R, M, L, P, a, rank
<1>6. ASSUME NEW i \in P, NEW j \in 1 .. l, j < i PROVE j \in P
  <2>1. i \in 1 .. l /\ a[i] \in Blocks /\ a[j] \in Blocks
    BY <1>1, <1>2
  <2>2. \A n \in B[a[i]] : n \in M
    BY <1>2, <2>1
  <2>3. PICK n : n \in B[a[i]]
    BY <1>2, <2>1
  <2>4. n \in W /\ rank(n) < room
    BY <1>2, <2>2, <2>3
  <2>5. ASSUME NEW m \in B[a[j]] PROVE m \in M
    <3>1. m \in W
      BY <1>2
    <3>2. rank(m) < rank(n) /\ rank(m) \in Int /\ rank(n) \in Int
      BY <1>5, <1>6, <2>1, <2>3, <2>4, <3>1
    <3>3. QED
      BY <1>2, <2>4, <3>1, <3>2
  <2>6. L[a[j]] = {}
    BY <1>2, <2>1, <2>5
  <2>7. QED
    BY <1>2, <2>6
<1>7. d \in 0 .. l /\ P = 1 .. d
  <2>1. P \in SUBSET (1 .. l)
    BY <1>2
  <2>2. \A i \in P : \A j \in 1 .. l : j < i => j \in P
    BY <1>6
  <2>3. Cardinality(P) \in 0 .. l /\ P = 1 .. Cardinality(P)
    BY <2>1, <2>2, Prefix
  <2>4. QED
    BY <2>3 DEF P
<1> DEFINE g == Dropped(f, d)
           z == Around(g)
<1>8. Retains(f, d, g)
  BY <1>1, <1>7, RingShrinks
<1> HIDE DEF g
<1>9. PICK k \in Nat : k = l - d
  BY <1>7
<1>10. g \in Rings /\ Occupied(g) = k /\ \A i \in 1 .. k : i + d \in 1 .. l /\ z[i] = a[i + d]
  BY <1>1, <1>8, <1>9 DEF Retains, a
<1>11. z \in [1 .. k -> Blocks]
  BY <1>10, RingIs
<1> HIDE DEF z
<1>12. \A i, j \in 1 .. k : z[i] = z[j] => i = j
  <2>1. ASSUME NEW i \in 1 .. k, NEW j \in 1 .. k, z[i] = z[j] PROVE i = j
    <3>1. i + d = j + d
      BY <1>2, <1>10, <2>1
    <3>2. QED
      BY <1>7, <3>1
  <2>2. QED
    BY <2>1
<1>13. ASSUME NEW b \in Blocks PROVE L[b] # {} <=> \E i \in 1 .. k : z[i] = b
  <2>1. ASSUME L[b] # {} PROVE \E i \in 1 .. k : z[i] = b
    <3>1. B[b] # {}
      BY <1>2, <2>1
    <3>2. PICK j \in 1 .. l : a[j] = b
      BY <1>2, <3>1
    <3>3. j \notin P
      BY <1>2, <2>1, <3>2
    <3>4. j > d /\ j - d \in 1 .. k /\ (j - d) + d = j
      BY <1>7, <1>9, <3>3
    <3>5. z[j - d] = b
      BY <1>10, <3>2, <3>4
    <3>6. QED
      BY <3>4, <3>5
  <2>2. ASSUME NEW i \in 1 .. k, z[i] = b PROVE L[b] # {}
    <3>1. i + d \in 1 .. l /\ a[i + d] = b
      BY <1>10, <2>2
    <3>2. i + d \notin P
      BY <1>7
    <3>3. QED
      BY <1>2, <3>1, <3>2
  <2>3. QED
    BY <2>1, <2>2
<1>14. IsInjective(z) /\ ToSet(z) = {b \in Blocks : L[b] # {}}
  <2>1. DOMAIN z = 1 .. k
    BY <1>11
  <2>2. IsInjective(z)
    BY <1>12, <2>1 DEF IsInjective
  <2>3. \A x : x \in ToSet(z) <=> \E i \in 1 .. k : z[i] = x
    BY <2>1 DEF ToSet
  <2>4. ToSet(z) = {b \in Blocks : L[b] # {}}
    BY <1>11, <1>13, <2>3
  <2>5. QED
    BY <2>2, <2>4
<1>15. QED
  BY <1>10, <1>14 DEF Agrees, z, g, L
-----------------------------------------------------------------------------
(* Sequences.                                                              *)
LEMMA Members ==
  ASSUME NEW S, NEW s \in Seq(S)
  PROVE  /\ Len(s) \in Nat /\ DOMAIN s = 1 .. Len(s) /\ s \in [1 .. Len(s) -> S]
         /\ \A x : x \in ToSet(s) <=> \E i \in 1 .. Len(s) : s[i] = x
         /\ \A x : x \in ToSet(s) => x \in S
         /\ s = <<>> <=> Len(s) = 0
<1>1. Len(s) \in Nat /\ DOMAIN s = 1 .. Len(s) /\ s \in [1 .. Len(s) -> S]
  BY LenProperties
<1>2. s = <<>> <=> Len(s) = 0
  BY EmptySeq
<1>3. QED
  BY <1>1, <1>2 DEF ToSet

LEMMA HeadAndTail ==
  ASSUME NEW S, NEW s \in Seq(S), s # <<>>
  PROVE  /\ Head(s) \in S /\ Head(s) = s[1] /\ Tail(s) \in Seq(S)
         /\ Len(s) \in Nat \ {0} /\ Len(Tail(s)) = Len(s) - 1
         /\ \A i \in 1 .. Len(s) - 1 : Tail(s)[i] = s[i + 1]
         /\ \A x : x \in ToSet(s) <=> x = Head(s) \/ x \in ToSet(Tail(s))
<1>1. /\ Head(s) \in S /\ Head(s) = s[1] /\ Tail(s) \in Seq(S)
      /\ Len(Tail(s)) = Len(s) - 1
      /\ \A i \in 1 .. Len(s) - 1 : Tail(s)[i] = s[i + 1]
  BY HeadTailProperties
<1>2. PICK n \in Nat \ {0} : n = Len(s)
  BY Members
<1>3. \A x : x \in ToSet(s) <=> \E i \in 1 .. n : s[i] = x
  BY <1>2, Members
<1>4. \A x : x \in ToSet(Tail(s)) <=> \E i \in 1 .. n - 1 : Tail(s)[i] = x
  <2>1. PICK r \in Seq(S) : r = Tail(s)
    BY <1>1
  <2>2. \A x : x \in ToSet(r) <=> \E i \in 1 .. Len(r) : r[i] = x
    BY ONLY r \in Seq(S), Members
  <2>3. Len(r) = n - 1
    BY <1>1, <1>2, <2>1
  <2>4. QED
    BY <2>1, <2>2, <2>3
<1>5. /\ \A i \in 1 .. n : i = 1 \/ (i - 1 \in 1 .. n - 1 /\ (i - 1) + 1 = i)
      /\ \A i \in 1 .. n - 1 : i + 1 \in 1 .. n
      /\ 1 \in 1 .. n
  OBVIOUS
<1>6. \A i \in 1 .. n - 1 : Tail(s)[i] = s[i + 1]
  BY <1>1, <1>2
<1>7. ASSUME NEW x PROVE x \in ToSet(s) <=> x = Head(s) \/ x \in ToSet(Tail(s))
  <2>1. ASSUME x \in ToSet(s) PROVE x = Head(s) \/ x \in ToSet(Tail(s))
    <3>1. PICK i \in 1 .. n : s[i] = x
      BY <1>3, <2>1
    <3>2. CASE i = 1
      BY <1>1, <3>1, <3>2
    <3>3. CASE i # 1
      <4>1. PICK j \in 1 .. n - 1 : j + 1 = i
        BY <1>5, <3>3
      <4>2. Tail(s)[j] = x
        BY <1>6, <3>1, <4>1
      <4>3. QED
        BY <1>4, <4>2
    <3>4. QED
      BY <3>2, <3>3
  <2>2. ASSUME x = Head(s) \/ x \in ToSet(Tail(s)) PROVE x \in ToSet(s)
    <3>1. CASE x = Head(s)
      BY <1>1, <1>3, <1>5, <3>1
    <3>2. CASE x \in ToSet(Tail(s))
      BY <1>3, <1>4, <1>5, <1>6, <3>2
    <3>3. QED
      BY <2>2, <3>1, <3>2
  <2>3. QED
    BY <2>1, <2>2
<1>8. QED
  BY <1>1, <1>2, <1>7

LEMMA Joined ==
  ASSUME NEW S, NEW s \in Seq(S), NEW r \in Seq(S)
  PROVE  /\ s \o r \in Seq(S) /\ Len(s \o r) = Len(s) + Len(r)
         /\ \A i \in 1 .. Len(s) : (s \o r)[i] = s[i]
         /\ \A i \in 1 .. Len(r) : (s \o r)[Len(s) + i] = r[i]
         /\ \A x : x \in ToSet(s \o r) <=> x \in ToSet(s) \/ x \in ToSet(r)
<1>1. PICK n \in Nat, k \in Nat : n = Len(s) /\ k = Len(r)
  BY Members
<1>2. s \o r \in Seq(S) /\ Len(s \o r) = n + k
  BY <1>1, ConcatProperties
<1>3. /\ \A i \in 1 .. n : (s \o r)[i] = s[i]
      /\ \A i \in 1 .. n + k : (s \o r)[i] = IF i <= n THEN s[i] ELSE r[i - n]
  BY <1>1, ConcatProperties
<1>4. \A i \in 1 .. k : (s \o r)[n + i] = r[i]
  <2>1. ASSUME NEW i \in 1 .. k PROVE (s \o r)[n + i] = r[i]
    <3>1. PICK j \in 1 .. n + k : j = n + i /\ ~(j <= n) /\ j - n = i
      OBVIOUS
    <3>2. QED
      BY <1>3, <3>1
  <2>2. QED
    BY <2>1
<1>5. /\ \A x : x \in ToSet(s) <=> \E i \in 1 .. n : s[i] = x
      /\ \A x : x \in ToSet(r) <=> \E i \in 1 .. k : r[i] = x
      /\ \A x : x \in ToSet(s \o r) <=> \E i \in 1 .. n + k : (s \o r)[i] = x
  BY <1>1, <1>2, Members
<1>6. ASSUME NEW x PROVE x \in ToSet(s \o r) <=> x \in ToSet(s) \/ x \in ToSet(r)
  <2>1. ASSUME x \in ToSet(s \o r) PROVE x \in ToSet(s) \/ x \in ToSet(r)
    <3>1. PICK i \in 1 .. n + k : (s \o r)[i] = x
      BY <1>5, <2>1
    <3>2. i \in 1 .. n \/ (i - n \in 1 .. k /\ ~(i <= n))
      OBVIOUS
    <3>3. QED
      BY <1>3, <1>5, <3>1, <3>2
  <2>2. ASSUME x \in ToSet(s) \/ x \in ToSet(r) PROVE x \in ToSet(s \o r)
    <3>1. /\ \A i \in 1 .. n : i \in 1 .. n + k
          /\ \A i \in 1 .. k : n + i \in 1 .. n + k
      OBVIOUS
    <3>2. CASE x \in ToSet(s)
      BY <1>3, <1>5, <3>1, <3>2
    <3>3. CASE x \in ToSet(r)
      BY <1>4, <1>5, <3>1, <3>3
    <3>4. QED
      BY <2>2, <3>2, <3>3
  <2>3. QED
    BY <2>1, <2>2
<1>7. QED
  BY <1>1, <1>2, <1>3, <1>4, <1>6

LEMMA Lone ==
  ASSUME NEW S, NEW x \in S
  PROVE  /\ <<x>> \in Seq(S) /\ Len(<<x>>) = 1 /\ <<x>>[1] = x /\ <<x>> # <<>>
         /\ \A y : y \in ToSet(<<x>>) <=> y = x
         /\ <<>> \in Seq(S) /\ Len(<<>>) = 0
         /\ \A y : y \notin ToSet(<<>>)
  BY DEF ToSet

LEMMA Appended ==
  ASSUME NEW S, NEW s \in Seq(S), NEW x \in S
  PROVE  /\ Append(s, x) \in Seq(S) /\ Len(Append(s, x)) = Len(s) + 1
         /\ \A y : y \in ToSet(Append(s, x)) <=> y \in ToSet(s) \/ y = x
<1>1. Append(s, x) = s \o <<x>>
  BY AppendIsConcat
<1>2. <<x>> \in Seq(S) /\ Len(<<x>>) = 1 /\ \A y : y \in ToSet(<<x>>) <=> y = x
  BY Lone
<1>3. /\ s \o <<x>> \in Seq(S) /\ Len(s \o <<x>>) = Len(s) + Len(<<x>>)
      /\ \A y : y \in ToSet(s \o <<x>>) <=> y \in ToSet(s) \/ y \in ToSet(<<x>>)
  <2>1. PICK r \in Seq(S) : r = <<x>>
    BY <1>2
  <2>2. /\ s \o r \in Seq(S) /\ Len(s \o r) = Len(s) + Len(r)
        /\ \A y : y \in ToSet(s \o r) <=> y \in ToSet(s) \/ y \in ToSet(r)
    BY <2>1, Joined
  <2>3. QED
    BY <2>1, <2>2
<1>4. QED
  BY <1>1, <1>2, <1>3
-----------------------------------------------------------------------------
(* The queues.                                                             *)
Update == [node : nodes, value : Nat]
Messages(q) == IF q = 1 THEN CutPieces ELSE Update
Inbox(q, t) == {m \in Messages(q) : Owner(q, m) = t}

OutRight(o) == /\ DOMAIN o = tiles \X (1 .. 2)
               /\ \A t \in tiles, q \in 1 .. 2 : o[<<t, q>>] \in Seq(Messages(q))
InRight(i) == /\ DOMAIN i = tiles \X (1 .. 2)
              /\ \A t \in tiles, q \in 1 .. 2 : i[<<t, q>>] \in Seq(Inbox(q, t))
WireRight(w) == /\ DOMAIN w = tiles \X tiles \X (1 .. 2)
                /\ \A s, t \in tiles, q \in 1 .. 2 :
                      w[<<s, t, q>>] \in Seq(Inbox(q, t)) /\ Len(w[<<s, t, q>>]) <= 1
QueuesRight == OutRight(oq) /\ InRight(iq) /\ WireRight(wire)
RoomsLeft == \A t \in tiles, q \in 1 .. 2 : oq_room(t, q) >= 0 /\ iq_room(t, q) >= 0

(* A message of task q is in a queue or on its way.                        *)
Flies(q, m) == \/ \E t \in tiles : m \in ToSet(oq[<<t, q>>]) \/ m \in ToSet(iq[<<t, q>>])
               \/ \E s, t \in tiles : m \in ToSet(wire[<<s, t, q>>])

OutChanged(o, t, q, v, p) ==
  /\ OutRight(p) /\ p[<<t, q>>] = v
  /\ \A s \in tiles, r \in 1 .. 2 : s # t \/ r # q => p[<<s, r>>] = o[<<s, r>>]

LEMMA OutReplaced ==
  ASSUME NEW o, OutRight(o), NEW t \in tiles, NEW q \in 1 .. 2, NEW v \in Seq(Messages(q))
  PROVE  OutChanged(o, t, q, v, [o EXCEPT ![<<t, q>>] = v])
<1> DEFINE p == [o EXCEPT ![<<t, q>>] = v]
<1>1. DOMAIN p = tiles \X (1 .. 2) /\ p[<<t, q>>] = v
  BY DEF OutRight
<1>2. ASSUME NEW s \in tiles, NEW r \in 1 .. 2, s # t \/ r # q PROVE p[<<s, r>>] = o[<<s, r>>]
  <2>1. <<s, r>> # <<t, q>> /\ <<s, r>> \in DOMAIN o
    BY <1>2 DEF OutRight
  <2>2. QED
    BY <2>1
<1> HIDE DEF p
<1>3. ASSUME NEW s \in tiles, NEW r \in 1 .. 2 PROVE p[<<s, r>>] \in Seq(Messages(r))
  <2>1. CASE s = t /\ r = q
    BY <1>1, <2>1
  <2>2. CASE s # t \/ r # q
    BY <1>2, <2>2 DEF OutRight
  <2>3. QED
    BY <2>1, <2>2
<1>4. QED
  BY <1>1, <1>2, <1>3 DEF OutRight, OutChanged, p

InChanged(o, t, q, v, p) ==
  /\ InRight(p) /\ p[<<t, q>>] = v
  /\ \A s \in tiles, r \in 1 .. 2 : s # t \/ r # q => p[<<s, r>>] = o[<<s, r>>]

LEMMA InReplaced ==
  ASSUME NEW o, InRight(o), NEW t \in tiles, NEW q \in 1 .. 2, NEW v \in Seq(Inbox(q, t))
  PROVE  InChanged(o, t, q, v, [o EXCEPT ![<<t, q>>] = v])
<1> DEFINE p == [o EXCEPT ![<<t, q>>] = v]
<1>1. DOMAIN p = tiles \X (1 .. 2) /\ p[<<t, q>>] = v
  BY DEF InRight
<1>2. ASSUME NEW s \in tiles, NEW r \in 1 .. 2, s # t \/ r # q PROVE p[<<s, r>>] = o[<<s, r>>]
  <2>1. <<s, r>> # <<t, q>> /\ <<s, r>> \in DOMAIN o
    BY <1>2 DEF InRight
  <2>2. QED
    BY <2>1
<1> HIDE DEF p
<1>3. ASSUME NEW s \in tiles, NEW r \in 1 .. 2 PROVE p[<<s, r>>] \in Seq(Inbox(r, s))
  <2>1. CASE s = t /\ r = q
    BY <1>1, <2>1
  <2>2. CASE s # t \/ r # q
    BY <1>2, <2>2 DEF InRight
  <2>3. QED
    BY <2>1, <2>2
<1>4. QED
  BY <1>1, <1>2, <1>3 DEF InRight, InChanged, p

WireChanged(w, s, t, q, v, p) ==
  /\ WireRight(p) /\ p[<<s, t, q>>] = v
  /\ \A a, b \in tiles, r \in 1 .. 2 : a # s \/ b # t \/ r # q => p[<<a, b, r>>] = w[<<a, b, r>>]

LEMMA WireReplaced ==
  ASSUME NEW w, WireRight(w), NEW s \in tiles, NEW t \in tiles, NEW q \in 1 .. 2,
         NEW v \in Seq(Inbox(q, t)), Len(v) <= 1
  PROVE  WireChanged(w, s, t, q, v, [w EXCEPT ![<<s, t, q>>] = v])
<1> DEFINE p == [w EXCEPT ![<<s, t, q>>] = v]
<1>1. DOMAIN p = tiles \X tiles \X (1 .. 2) /\ p[<<s, t, q>>] = v
  BY DEF WireRight
<1>2. ASSUME NEW a \in tiles, NEW b \in tiles, NEW r \in 1 .. 2, a # s \/ b # t \/ r # q
      PROVE  p[<<a, b, r>>] = w[<<a, b, r>>]
  <2>1. <<a, b, r>> # <<s, t, q>> /\ <<a, b, r>> \in DOMAIN w
    BY <1>2 DEF WireRight
  <2>2. QED
    BY <2>1
<1> HIDE DEF p
<1>3. ASSUME NEW a \in tiles, NEW b \in tiles, NEW r \in 1 .. 2
      PROVE  p[<<a, b, r>>] \in Seq(Inbox(r, b)) /\ Len(p[<<a, b, r>>]) <= 1
  <2>1. CASE a = s /\ b = t /\ r = q
    BY <1>1, <2>1
  <2>2. CASE a # s \/ b # t \/ r # q
    BY <1>2, <2>2 DEF WireRight
  <2>3. QED
    BY <2>1, <2>2
<1>4. QED
  BY <1>1, <1>2, <1>3 DEF WireRight, WireChanged, p

LEMMA OwnersOfMessages ==
  ASSUME NEW q \in 1 .. 2, NEW m \in Messages(q)
  PROVE  Owner(q, m) \in tiles /\ m \in Inbox(q, Owner(q, m))
<1>1. CASE q = 1
  <2>1. m.first \in 0 .. EdgeCount - 1
    BY <1>1, Constants DEF Messages, CutPieces, Piece
  <2>2. QED
    BY <1>1, <2>1, Constants, OwnersAreTiles DEF Owner, Inbox
<1>2. CASE q = 2
  <2>1. m.node \in nodes
    BY <1>2 DEF Messages, Update
  <2>2. QED
    BY <1>2, <2>1, OwnersAreTiles DEF Owner, Inbox
<1>3. QED
  BY <1>1, <1>2
-----------------------------------------------------------------------------
(* What the steps do to the queues: no message is lost.                    *)
LEMMA InjectQueues ==
  ASSUME QueuesRight, RoomsLeft, NEW t \in tiles, NEW q \in 1 .. 2, Inject(t, q)
  PROVE  /\ QueuesRight' /\ RoomsLeft'
         /\ \A r \in 1 .. 2 : \A x : Flies(r, x) => Flies(r, x)'
         /\ \A r \in 1 .. 2 : \A x : Flies(r, x)' => Flies(r, x)
<1> DEFINE m == Head(oq[<<t, q>>])
           d == Owner(q, m)
<1>1. oq[<<t, q>>] \in Seq(Messages(q)) /\ oq[<<t, q>>] # <<>>
  BY DEF QueuesRight, OutRight, Inject
<1>2. /\ m \in Messages(q) /\ Tail(oq[<<t, q>>]) \in Seq(Messages(q))
      /\ Len(oq[<<t, q>>]) \in Nat \ {0} /\ Len(Tail(oq[<<t, q>>])) = Len(oq[<<t, q>>]) - 1
      /\ \A x : x \in ToSet(oq[<<t, q>>]) <=> x = m \/ x \in ToSet(Tail(oq[<<t, q>>]))
  BY <1>1, HeadAndTail
<1>3. d \in tiles /\ m \in Inbox(q, d)
  BY <1>2, OwnersOfMessages
<1>4. /\ wire[<<t, d, q>>] = <<>>
      /\ wire' = [wire EXCEPT ![<<t, d, q>>] = <<m>>]
      /\ oq' = [oq EXCEPT ![<<t, q>>] = Tail(oq[<<t, q>>])] /\ iq' = iq
  BY DEF Inject
<1> HIDE DEF m, d
<1>5. /\ <<m>> \in Seq(Inbox(q, d)) /\ Len(<<m>>) <= 1 /\ m \in ToSet(<<m>>)
      /\ \A y : y \notin ToSet(<<>>) /\ (y \in ToSet(<<m>>) => y = m)
  BY <1>3, Lone
<1>6. /\ WireRight(wire') /\ wire'[<<t, d, q>>] = <<m>>
      /\ \A a, b \in tiles, r \in 1 .. 2 : a # t \/ b # d \/ r # q => wire'[<<a, b, r>>] = wire[<<a, b, r>>]
  <2>1. WireChanged(wire, t, d, q, <<m>>, wire')
    BY <1>3, <1>4, <1>5, WireReplaced DEF QueuesRight
  <2>2. QED
    BY <2>1 DEF WireChanged
<1>7. /\ OutRight(oq') /\ oq'[<<t, q>>] = Tail(oq[<<t, q>>])
      /\ \A s \in tiles, r \in 1 .. 2 : s # t \/ r # q => oq'[<<s, r>>] = oq[<<s, r>>]
  <2>1. OutChanged(oq, t, q, Tail(oq[<<t, q>>]), oq')
    BY <1>2, <1>4, OutReplaced DEF QueuesRight
  <2>2. QED
    BY <2>1 DEF OutChanged
<1>8. QueuesRight'
  BY <1>4, <1>6, <1>7 DEF QueuesRight
<1>9. ASSUME NEW s \in tiles, NEW r \in 1 .. 2 PROVE oq_room(s, r)' >= 0 /\ iq_room(s, r)' >= 0
  <2>1. oq_room(s, r) >= 0 /\ iq_room(s, r) >= 0
    BY DEF RoomsLeft
  <2>2. CASE s # t \/ r # q
    BY <1>4, <1>7, <2>1, <2>2 DEF oq_room, iq_room
  <2>3. CASE s = t /\ r = q
    <3>1. PICK n \in Nat : n = Len(oq[<<t, q>>]) /\ Len(oq'[<<t, q>>]) = n - 1
      BY <1>2, <1>7
    <3>2. PICK z \in Nat, p \in Nat : z = oq_sizes[q] /\ p = num_task_params[q] /\ (p = 2 \/ p = 3)
      BY Constants
    <3>3. z - p * n >= 0 => z - p * (n - 1) >= 0
      <4>1. CASE p = 2
        BY <4>1
      <4>2. CASE p = 3
        BY <4>2
      <4>3. QED
        BY <3>2, <4>1, <4>2
    <3>4. QED
      BY <1>4, <2>1, <2>3, <3>1, <3>2, <3>3 DEF oq_room, iq_room
  <2>4. QED
    BY <2>2, <2>3
<1>10. ASSUME NEW r \in 1 .. 2, NEW x, Flies(r, x) PROVE Flies(r, x)'
  <2>1. CASE \E s \in tiles : x \in ToSet(oq[<<s, r>>])
    <3>1. PICK s \in tiles : x \in ToSet(oq[<<s, r>>])
      BY <2>1
    <3>2. CASE s # t \/ r # q
      BY <1>7, <3>1, <3>2 DEF Flies
    <3>3. CASE s = t /\ r = q /\ x # m
      BY <1>2, <1>7, <3>1, <3>3 DEF Flies
    <3>4. CASE s = t /\ r = q /\ x = m
      BY <1>3, <1>5, <1>6, <3>4 DEF Flies
    <3>5. QED
      BY <3>2, <3>3, <3>4
  <2>2. CASE \E s \in tiles : x \in ToSet(iq[<<s, r>>])
    BY <1>4, <2>2 DEF Flies
  <2>3. CASE \E a, b \in tiles : x \in ToSet(wire[<<a, b, r>>])
    <3>1. PICK a \in tiles, b \in tiles : x \in ToSet(wire[<<a, b, r>>])
      BY <2>3
    <3>2. a # t \/ b # d \/ r # q
      BY <1>4, <1>5, <3>1
    <3>3. QED
      BY <1>6, <3>1, <3>2 DEF Flies
  <2>4. QED
    BY <1>10, <2>1, <2>2, <2>3 DEF Flies
<1>11. ASSUME NEW r \in 1 .. 2, NEW x, Flies(r, x)' PROVE Flies(r, x)
  <2>1. CASE \E s \in tiles : x \in ToSet(oq'[<<s, r>>])
    <3>1. PICK s \in tiles : x \in ToSet(oq'[<<s, r>>])
      BY <2>1
    <3>2. CASE s # t \/ r # q
      BY <1>7, <3>1, <3>2 DEF Flies
    <3>3. CASE s = t /\ r = q
      BY <1>2, <1>7, <3>1, <3>3 DEF Flies
    <3>4. QED
      BY <3>2, <3>3
  <2>2. CASE \E s \in tiles : x \in ToSet(iq'[<<s, r>>])
    BY <1>4, <2>2 DEF Flies
  <2>3. CASE \E a, b \in tiles : x \in ToSet(wire'[<<a, b, r>>])
    <3>1. PICK a \in tiles, b \in tiles : x \in ToSet(wire'[<<a, b, r>>])
      BY <2>3
    <3>2. CASE a # t \/ b # d \/ r # q
      BY <1>6, <3>1, <3>2 DEF Flies
    <3>3. CASE a = t /\ b = d /\ r = q
      <4>1. x = m /\ x \in ToSet(oq[<<t, q>>])
        BY <1>2, <1>5, <1>6, <3>1, <3>3
      <4>2. QED
        BY <3>3, <4>1 DEF Flies
    <3>4. QED
      BY <3>2, <3>3
  <2>4. QED
    BY <1>11, <2>1, <2>2, <2>3 DEF Flies
<1>12. QED
  BY <1>8, <1>9, <1>10, <1>11 DEF RoomsLeft

LEMMA DeliverQueues ==
  ASSUME QueuesRight, RoomsLeft, NEW s \in tiles, NEW d \in tiles, NEW q \in 1 .. 2, Deliver(s, d, q)
  PROVE  /\ QueuesRight' /\ RoomsLeft'
         /\ \A r \in 1 .. 2 : \A x : Flies(r, x) => Flies(r, x)'
         /\ \A r \in 1 .. 2 : \A x : Flies(r, x)' => Flies(r, x)
<1> DEFINE m == Head(wire[<<s, d, q>>])
<1>1. wire[<<s, d, q>>] \in Seq(Inbox(q, d)) /\ wire[<<s, d, q>>] # <<>> /\ Len(wire[<<s, d, q>>]) <= 1
  BY DEF QueuesRight, WireRight, Deliver
<1>2. /\ m \in Inbox(q, d) /\ Len(wire[<<s, d, q>>]) \in Nat \ {0}
      /\ Tail(wire[<<s, d, q>>]) \in Seq(Inbox(q, d))
      /\ Len(Tail(wire[<<s, d, q>>])) = Len(wire[<<s, d, q>>]) - 1
      /\ \A x : x \in ToSet(wire[<<s, d, q>>]) <=> x = m \/ x \in ToSet(Tail(wire[<<s, d, q>>]))
  BY <1>1, HeadAndTail
<1>3. \A x \in ToSet(wire[<<s, d, q>>]) : x = m
  <2>1. Len(Tail(wire[<<s, d, q>>])) = 0
    <3>1. PICK n \in Nat \ {0} : n = Len(wire[<<s, d, q>>])
      BY <1>2
    <3>2. n <= 1
      BY <1>1, <3>1
    <3>3. n - 1 = 0
      BY ONLY <3>2, n \in Nat \ {0}
    <3>4. QED
      BY <1>2, <3>1, <3>3
  <2>2. Tail(wire[<<s, d, q>>]) = <<>>
    BY <1>2, <2>1, EmptySeq
  <2>3. \A x : x \notin ToSet(Tail(wire[<<s, d, q>>]))
    BY <2>2 DEF ToSet
  <2>4. QED
    BY <1>2, <2>3
<1>4. /\ iq' = [iq EXCEPT ![<<d, q>>] = Append(iq[<<d, q>>], m)]
      /\ wire' = [wire EXCEPT ![<<s, d, q>>] = <<>>] /\ oq' = oq
      /\ iq_room(d, q) >= num_task_params[q]
  BY DEF Deliver
<1> HIDE DEF m
<1>5. iq[<<d, q>>] \in Seq(Inbox(q, d))
  BY DEF QueuesRight, InRight
<1>6. /\ Append(iq[<<d, q>>], m) \in Seq(Inbox(q, d))
      /\ Len(Append(iq[<<d, q>>], m)) = Len(iq[<<d, q>>]) + 1
      /\ \A y : y \in ToSet(Append(iq[<<d, q>>], m)) <=> y \in ToSet(iq[<<d, q>>]) \/ y = m
  <2>1. m \in Inbox(q, d)
    BY <1>2
  <2>2. QED
    BY ONLY <1>5, <2>1, Appended
<1>7. <<>> \in Seq(Inbox(q, d)) /\ Len(<<>>) <= 1
  OBVIOUS
<1>14. \A y : y \notin ToSet(<<>>)
  BY DEF ToSet
<1>8. /\ WireRight(wire') /\ wire'[<<s, d, q>>] = <<>>
      /\ \A a, b \in tiles, r \in 1 .. 2 : a # s \/ b # d \/ r # q => wire'[<<a, b, r>>] = wire[<<a, b, r>>]
  <2>1. WireChanged(wire, s, d, q, <<>>, wire')
    BY <1>4, <1>7, WireReplaced DEF QueuesRight
  <2>2. QED
    BY <2>1 DEF WireChanged
<1>9. /\ InRight(iq') /\ iq'[<<d, q>>] = Append(iq[<<d, q>>], m)
      /\ \A t \in tiles, r \in 1 .. 2 : t # d \/ r # q => iq'[<<t, r>>] = iq[<<t, r>>]
  <2>1. InChanged(iq, d, q, Append(iq[<<d, q>>], m), iq')
    BY <1>4, <1>6, InReplaced DEF QueuesRight
  <2>2. QED
    BY <2>1 DEF InChanged
<1>10. QueuesRight'
  BY <1>4, <1>8, <1>9 DEF QueuesRight
<1>11. ASSUME NEW t \in tiles, NEW r \in 1 .. 2 PROVE oq_room(t, r)' >= 0 /\ iq_room(t, r)' >= 0
  <2>1. oq_room(t, r) >= 0 /\ iq_room(t, r) >= 0
    BY DEF RoomsLeft
  <2>2. CASE t # d \/ r # q
    BY <1>4, <1>9, <2>1, <2>2 DEF oq_room, iq_room
  <2>3. CASE t = d /\ r = q
    <3>1. PICK n \in Nat : n = Len(iq[<<d, q>>]) /\ Len(iq'[<<d, q>>]) = n + 1
      BY <1>5, <1>6, <1>9, Members
    <3>2. PICK z \in Nat, p \in Nat : z = iq_sizes[q] /\ p = num_task_params[q] /\ (p = 2 \/ p = 3)
      BY Constants
    <3>3. z - p * n >= p
      BY <1>4, <3>1, <3>2 DEF iq_room
    <3>4. z - p * (n + 1) >= 0
      BY <3>2, <3>3
    <3>5. iq_room(t, r)' >= 0
      BY <2>3, <3>1, <3>2, <3>4 DEF iq_room
    <3>6. oq_room(t, r)' >= 0
      BY <1>4, <2>1 DEF oq_room
    <3>7. QED
      BY <3>5, <3>6
  <2>4. QED
    BY <2>2, <2>3
<1>12. ASSUME NEW r \in 1 .. 2, NEW x, Flies(r, x) PROVE Flies(r, x)'
  <2>1. CASE \E t \in tiles : x \in ToSet(iq[<<t, r>>])
    <3>1. PICK t \in tiles : x \in ToSet(iq[<<t, r>>])
      BY <2>1
    <3>2. CASE t # d \/ r # q
      BY <1>9, <3>1, <3>2 DEF Flies
    <3>3. CASE t = d /\ r = q
      BY <1>6, <1>9, <3>1, <3>3 DEF Flies
    <3>4. QED
      BY <3>2, <3>3
  <2>2. CASE \E t \in tiles : x \in ToSet(oq[<<t, r>>])
    BY <1>4, <2>2 DEF Flies
  <2>3. CASE \E a, b \in tiles : x \in ToSet(wire[<<a, b, r>>])
    <3>1. PICK a \in tiles, b \in tiles : x \in ToSet(wire[<<a, b, r>>])
      BY <2>3
    <3>2. CASE a # s \/ b # d \/ r # q
      BY <1>8, <3>1, <3>2 DEF Flies
    <3>3. CASE a = s /\ b = d /\ r = q
      <4>1. x = m
        BY <1>3, <3>1, <3>3
      <4>2. x \in ToSet(iq'[<<d, q>>])
        BY <1>6, <1>9, <4>1
      <4>3. QED
        BY <3>3, <4>2 DEF Flies
    <3>4. QED
      BY <3>2, <3>3
  <2>4. QED
    BY <1>12, <2>1, <2>2, <2>3 DEF Flies
<1>13. ASSUME NEW r \in 1 .. 2, NEW x, Flies(r, x)' PROVE Flies(r, x)
  <2>1. CASE \E t \in tiles : x \in ToSet(iq'[<<t, r>>])
    <3>1. PICK t \in tiles : x \in ToSet(iq'[<<t, r>>])
      BY <2>1
    <3>2. CASE t # d \/ r # q
      BY <1>9, <3>1, <3>2 DEF Flies
    <3>3. CASE t = d /\ r = q /\ x # m
      BY <1>6, <1>9, <3>1, <3>3 DEF Flies
    <3>4. CASE t = d /\ r = q /\ x = m
      BY <1>2, <3>4 DEF Flies
    <3>5. QED
      BY <3>2, <3>3, <3>4
  <2>2. CASE \E t \in tiles : x \in ToSet(oq'[<<t, r>>])
    BY <1>4, <2>2 DEF Flies
  <2>3. CASE \E a, b \in tiles : x \in ToSet(wire'[<<a, b, r>>])
    <3>1. PICK a \in tiles, b \in tiles : x \in ToSet(wire'[<<a, b, r>>])
      BY <2>3
    <3>2. a # s \/ b # d \/ r # q
      BY <1>8, <1>14, <3>1
    <3>3. QED
      BY <1>8, <3>1, <3>2 DEF Flies
  <2>4. QED
    BY <1>13, <2>1, <2>2, <2>3 DEF Flies
<1>15. QED
  BY <1>10, <1>11, <1>12, <1>13 DEF RoomsLeft

(* A task takes the message in front; the others stay.                     *)
IsThat(q, m, r, x) == r = q /\ x = m

LEMMA Taken ==
  ASSUME InRight(iq), NEW t \in tiles, NEW q \in 1 .. 2, iq[<<t, q>>] # <<>>,
         iq' = [iq EXCEPT ![<<t, q>>] = Tail(@)]
  PROVE  /\ Head(iq[<<t, q>>]) \in Inbox(q, t) /\ Flies(q, Head(iq[<<t, q>>]))
         /\ InRight(iq')
         /\ \A s \in tiles, r \in 1 .. 2 : iq_room(s, r) >= 0 => iq_room(s, r)' >= 0
         /\ \A s \in tiles, r \in 1 .. 2 : \A x :
               x \in ToSet(iq[<<s, r>>]) => x \in ToSet(iq'[<<s, r>>]) \/ IsThat(q, Head(iq[<<t, q>>]), r, x)
         /\ \A s \in tiles, r \in 1 .. 2 : \A x : x \in ToSet(iq'[<<s, r>>]) => x \in ToSet(iq[<<s, r>>])
<1> DEFINE m == Head(iq[<<t, q>>])
           rest == Tail(iq[<<t, q>>])
<1>1. iq[<<t, q>>] \in Seq(Inbox(q, t))
  BY DEF InRight
<1>2. /\ m \in Inbox(q, t) /\ rest \in Seq(Inbox(q, t))
      /\ Len(iq[<<t, q>>]) \in Nat \ {0} /\ Len(rest) = Len(iq[<<t, q>>]) - 1
      /\ \A x : x \in ToSet(iq[<<t, q>>]) <=> x = m \/ x \in ToSet(rest)
  BY <1>1, HeadAndTail
<1> HIDE DEF m, rest
<1>3. /\ InRight(iq') /\ iq'[<<t, q>>] = rest
      /\ \A s \in tiles, r \in 1 .. 2 : s # t \/ r # q => iq'[<<s, r>>] = iq[<<s, r>>]
  <2>1. InChanged(iq, t, q, rest, iq')
    BY <1>2, InReplaced DEF rest
  <2>2. QED
    BY <2>1 DEF InChanged
<1>4. ASSUME NEW s \in tiles, NEW r \in 1 .. 2, iq_room(s, r) >= 0 PROVE iq_room(s, r)' >= 0
  <2>2. CASE s # t \/ r # q
    BY <1>3, <1>4, <2>2 DEF iq_room
  <2>3. CASE s = t /\ r = q
    <3>1. PICK n \in Nat : n = Len(iq[<<t, q>>]) /\ Len(iq'[<<t, q>>]) = n - 1
      BY <1>2, <1>3
    <3>2. PICK z \in Nat, p \in Nat : z = iq_sizes[q] /\ p = num_task_params[q] /\ (p = 2 \/ p = 3)
      BY Constants
    <3>3. z - p * n >= 0 => z - p * (n - 1) >= 0
      <4>1. CASE p = 2
        BY <4>1
      <4>2. CASE p = 3
        BY <4>2
      <4>3. QED
        BY <3>2, <4>1, <4>2
    <3>4. QED
      BY <1>4, <2>3, <3>1, <3>2, <3>3 DEF iq_room
  <2>4. QED
    BY <2>2, <2>3
<1>5. ASSUME NEW s \in tiles, NEW r \in 1 .. 2, NEW x, x \in ToSet(iq[<<s, r>>])
      PROVE  x \in ToSet(iq'[<<s, r>>]) \/ IsThat(q, m, r, x)
  <2>1. CASE s # t \/ r # q
    BY <1>3, <1>5, <2>1
  <2>2. CASE s = t /\ r = q
    BY <1>2, <1>3, <1>5, <2>2 DEF IsThat
  <2>3. QED
    BY <2>1, <2>2
<1>6. Flies(q, m)
  BY <1>2 DEF Flies
<1>7. ASSUME NEW s \in tiles, NEW r \in 1 .. 2, NEW x, x \in ToSet(iq'[<<s, r>>]) PROVE x \in ToSet(iq[<<s, r>>])
  <2>1. CASE s # t \/ r # q
    BY <1>3, <1>7, <2>1
  <2>2. CASE s = t /\ r = q
    BY <1>2, <1>3, <1>7, <2>2
  <2>3. QED
    BY <2>1, <2>2
<1>8. QED
  BY <1>2, <1>3, <1>4, <1>5, <1>6, <1>7 DEF m

(* What T2 tells: a message for every edge of its piece that leads to a    *)
(* node with edges.                                                        *)
Told(m) == LET told == Ascending({e \in m.first .. m.last - 1 : HasEdges(edge_array[e])})
           IN [i \in DOMAIN told |-> [node |-> edge_array[told[i]], value |-> m.value + Weight(told[i])]]

LEMMA ToldIs ==
  ASSUME NEW m \in CutPieces
  PROVE  /\ Told(m) \in Seq(Update) /\ Len(Told(m)) \in Nat /\ Len(Told(m)) <= max_task_chunk
         /\ \A e \in m.first .. m.last - 1 : HasEdges(edge_array[e]) =>
               \E x \in ToSet(Told(m)) : x \in Update /\ x.node = edge_array[e] /\ x.value = m.value + Weight(e)
         /\ \A x \in ToSet(Told(m)) : \E e \in m.first .. m.last - 1 :
               HasEdges(edge_array[e]) /\ x.node = edge_array[e] /\ x.value = m.value + Weight(e)
<1>1. PICK a \in Nat, b \in Nat, v \in Nat :
         a = m.first /\ b = m.last /\ v = m.value /\ a < b /\ b <= EdgeCount /\ b - a <= max_task_chunk
  BY DEF CutPieces, Piece
<1> DEFINE S == {e \in a .. b - 1 : HasEdges(edge_array[e])}
<1>2. IsFiniteSet(a .. b - 1) /\ Cardinality(a .. b - 1) = b - a
  <2>1. PICK c \in Int : c = b - 1 /\ ~(a > c)
    BY <1>1
  <2>2. IsFiniteSet(a .. c) /\ Cardinality(a .. c) = c - a + 1
    BY <2>1, FS_Interval
  <2>3. QED
    BY <2>1, <2>2
<1>3. S \in SUBSET Int /\ IsFiniteSet(S) /\ Cardinality(S) <= b - a
  <2>1. S \in SUBSET (a .. b - 1)
    OBVIOUS
  <2>2. IsFiniteSet(S) /\ Cardinality(S) <= Cardinality(a .. b - 1)
    BY <1>2, <2>1, FS_Subset
  <2>3. S \in SUBSET Int
    OBVIOUS
  <2>4. QED
    BY <1>2, <2>2, <2>3
<1>4. \A e \in S : e \in edges
  <2>1. \A e \in a .. b - 1 : e \in 0 .. EdgeCount - 1
    BY <1>1, Constants
  <2>2. QED
    BY <2>1, Constants
<1>5. \A e : e \in S <=> e \in a .. b - 1 /\ HasEdges(edge_array[e])
  OBVIOUS
<1>6. PICK s : s = Ascending(S)
  OBVIOUS
<1>7. Told(m) = [i \in DOMAIN s |-> [node |-> edge_array[s[i]], value |-> v + Weight(s[i])]]
  BY <1>1, <1>6 DEF Told
<1> HIDE DEF S
<1>8. /\ Cardinality(S) \in Nat /\ s \in [1 .. Cardinality(S) -> S]
      /\ Len(s) = Cardinality(S)
      /\ \A e \in S : \E i \in 1 .. Len(s) : s[i] = e
  BY <1>3, <1>6, AscendingIs
<1>9. PICK n \in Nat : n = Cardinality(S) /\ n <= max_task_chunk
  BY <1>1, <1>3, <1>8, Chunk
<1>10. Told(m) = [i \in 1 .. n |-> [node |-> edge_array[s[i]], value |-> v + Weight(s[i])]]
  BY <1>7, <1>8, <1>9
<1>11. ASSUME NEW i \in 1 .. n
       PROVE  [node |-> edge_array[s[i]], value |-> v + Weight(s[i])] \in Update
  <2>1. s[i] \in edges
    BY <1>4, <1>8, <1>9
  <2>2. edge_array[s[i]] \in nodes /\ v + Weight(s[i]) \in Nat
    BY <2>1, OwnersAreTiles
  <2>3. QED
    BY <2>2 DEF Update
<1>12. Told(m) \in [1 .. n -> Update]
  BY <1>10, <1>11
<1>13. Told(m) \in Seq(Update) /\ Len(Told(m)) = n
  BY <1>12, LenProperties, SeqDef
<1>14. ASSUME NEW e \in a .. b - 1, HasEdges(edge_array[e])
       PROVE  \E x \in ToSet(Told(m)) : x \in Update /\ x.node = edge_array[e] /\ x.value = v + Weight(e)
  <2>1. PICK i \in 1 .. n : s[i] = e
    BY <1>5, <1>8, <1>9, <1>14
  <2>2. Told(m)[i] = [node |-> edge_array[e], value |-> v + Weight(e)] /\ Told(m)[i] \in Update
    BY <1>10, <1>12, <2>1
  <2>3. Told(m)[i] \in ToSet(Told(m))
    BY <1>10 DEF ToSet
  <2>4. QED
    BY <2>2, <2>3
<1>15. ASSUME NEW x \in ToSet(Told(m))
       PROVE  \E e \in a .. b - 1 : HasEdges(edge_array[e]) /\ x.node = edge_array[e] /\ x.value = v + Weight(e)
  <2>1. PICK i \in 1 .. n : Told(m)[i] = x
    BY <1>10 DEF ToSet
  <2>2. PICK e \in S : e = s[i]
    BY <1>8, <1>9
  <2>3. x = [node |-> edge_array[e], value |-> v + Weight(e)]
    BY <1>10, <2>1, <2>2
  <2>4. QED
    BY <1>5, <2>2, <2>3
<1>16. QED
  BY <1>1, <1>9, <1>13, <1>14, <1>15

(* A task puts messages behind the others of its output queue.             *)
IsOneOf(q, v, r, x) == r = q /\ x \in ToSet(v)

LEMMA Put ==
  ASSUME OutRight(oq), NEW t \in tiles, NEW q \in 1 .. 2, NEW v \in Seq(Messages(q)),
         num_task_params[q] * Len(v) <= oq_room(t, q),
         oq' = [oq EXCEPT ![<<t, q>>] = @ \o v]
  PROVE  /\ OutRight(oq')
         /\ \A s \in tiles, r \in 1 .. 2 : oq_room(s, r) >= 0 => oq_room(s, r)' >= 0
         /\ \A s \in tiles, r \in 1 .. 2 : \A x : x \in ToSet(oq[<<s, r>>]) => x \in ToSet(oq'[<<s, r>>])
         /\ \A x \in ToSet(v) : x \in ToSet(oq'[<<t, q>>])
         /\ \A s \in tiles, r \in 1 .. 2 : \A x :
               x \in ToSet(oq'[<<s, r>>]) => x \in ToSet(oq[<<s, r>>]) \/ IsOneOf(q, v, r, x)
<1>1. oq[<<t, q>>] \in Seq(Messages(q))
  BY DEF OutRight
<1>2. PICK w \in Seq(Messages(q)) : w = oq[<<t, q>>]
  BY <1>1
<1>3. /\ w \o v \in Seq(Messages(q)) /\ Len(w \o v) = Len(w) + Len(v)
      /\ \A x : x \in ToSet(w \o v) <=> x \in ToSet(w) \/ x \in ToSet(v)
  BY Joined
<1>4. PICK u \in Seq(Messages(q)) : u = w \o v
  BY <1>3
<1>5. oq' = [oq EXCEPT ![<<t, q>>] = u]
  BY <1>2, <1>4
<1>6. /\ OutRight(oq') /\ oq'[<<t, q>>] = u
      /\ \A s \in tiles, r \in 1 .. 2 : s # t \/ r # q => oq'[<<s, r>>] = oq[<<s, r>>]
  <2>1. OutChanged(oq, t, q, u, [oq EXCEPT ![<<t, q>>] = u])
    BY ONLY OutRight(oq), t \in tiles, q \in 1 .. 2, u \in Seq(Messages(q)), OutReplaced
  <2>3. OutChanged(oq, t, q, u, oq')
    BY <1>5, <2>1
  <2>2. QED
    BY <2>3 DEF OutChanged
<1>7. ASSUME NEW s \in tiles, NEW r \in 1 .. 2, oq_room(s, r) >= 0 PROVE oq_room(s, r)' >= 0
  <2>2. CASE s # t \/ r # q
    BY <1>6, <1>7, <2>2 DEF oq_room
  <2>3. CASE s = t /\ r = q
    <3>1. PICK n \in Nat, k \in Nat : n = Len(w) /\ k = Len(v) /\ Len(u) = n + k
      BY <1>3, <1>4, Members
    <3>2. PICK z \in Nat, p \in Nat : z = oq_sizes[q] /\ p = num_task_params[q] /\ (p = 2 \/ p = 3)
      BY Constants
    <3>3. p * k <= z - p * n
      BY <1>2, <3>1, <3>2 DEF oq_room
    <3>4. z - p * (n + k) >= 0
      <4>1. CASE p = 2
        BY <3>3, <4>1
      <4>2. CASE p = 3
        BY <3>3, <4>2
      <4>3. QED
        BY <3>2, <4>1, <4>2
    <3>5. QED
      BY <1>6, <2>3, <3>1, <3>2, <3>4 DEF oq_room
  <2>4. QED
    BY <2>2, <2>3
<1>8. ASSUME NEW s \in tiles, NEW r \in 1 .. 2, NEW x, x \in ToSet(oq[<<s, r>>]) PROVE x \in ToSet(oq'[<<s, r>>])
  <2>1. CASE s # t \/ r # q
    BY <1>6, <1>8, <2>1
  <2>2. CASE s = t /\ r = q
    BY <1>2, <1>3, <1>4, <1>6, <1>8, <2>2
  <2>3. QED
    BY <2>1, <2>2
<1>9. ASSUME NEW x \in ToSet(v) PROVE x \in ToSet(oq'[<<t, q>>])
  BY <1>3, <1>4, <1>6
<1>10. ASSUME NEW s \in tiles, NEW r \in 1 .. 2, NEW x, x \in ToSet(oq'[<<s, r>>])
       PROVE  x \in ToSet(oq[<<s, r>>]) \/ IsOneOf(q, v, r, x)
  <2>1. CASE s # t \/ r # q
    BY <1>6, <1>10, <2>1
  <2>2. CASE s = t /\ r = q
    BY <1>2, <1>3, <1>4, <1>6, <1>10, <2>2 DEF IsOneOf
  <2>3. QED
    BY <2>1, <2>2
<1>11. QED
  BY <1>6, <1>7, <1>8, <1>9, <1>10
-----------------------------------------------------------------------------
(* The invariant.                                                          *)
Entries == [kind : {"node", "seed"}, node : Nat]
NodeEntries == [kind : {"node"}, node : nodes]

Shapes ==
  /\ ret \in [nodes -> Nat]
  /\ bitmap \in [tiles -> [Blocks -> SUBSET nodes]]
  /\ fr \in [tiles -> Rings]
  /\ parked \in [tiles -> Seq(Piece)]
  /\ seeding \in [tiles -> BOOLEAN]
  /\ iq0 \in [tiles -> Seq(Entries)]
  /\ epoch_begin \in [tiles -> 0 .. EXPLORE]

(* What tile t holds of its own nodes.                                     *)
Own(t, B) == \A b \in Blocks : \A n \in B[b] : n \in nodes /\ OwnerOfNode(n) = t /\ Block(n) = b
FrontierRight == \A t \in tiles : Own(t, bitmap[t]) /\ Agrees(fr[t], bitmap[t])

(* The work of T1: its queue q0, what is parked, and whether it seeds.     *)
Work(q0, left, seeds, begin) ==
  /\ Len(q0) <= iq0_size
  /\ \/ left = <<>>
     \/ Len(left) = 1 /\ q0 # <<>> /\ left[1].first < left[1].last /\ left[1].last <= EdgeCount
  /\ IF seeds THEN /\ Len(q0) = 1 /\ q0[1].kind = "seed" /\ APP = "WCC"
                   /\ GLOBAL_BARRIER = 1 => begin = 0
     ELSE q0 \in Seq(NodeEntries)
WorkRight == \A t \in tiles : Work(iq0[t], parked[t], seeding[t], epoch_begin[t])

Safe == Shapes /\ QueuesRight /\ RoomsLeft /\ FrontierRight /\ WorkRight

LEMMA EntriesAre ==
  /\ NodeEntries \subseteq Entries
  /\ \A n \in nodes : Node(n) \in NodeEntries /\ Node(n) \in Entries
  /\ \A n \in Nat : Seed(n) \in Entries /\ Seed(n).kind = "seed" /\ Seed(n).node = n
  /\ nodes \subseteq Nat
<1>1. nodes \subseteq Nat
  BY Constants DEF nodes
<1>2. QED
  BY <1>1 DEF NodeEntries, Entries, Node, Seed

LEMMA WorkPops ==
  ASSUME NEW q0 \in Seq(Entries), q0 # <<>>, NEW left, NEW begin, Work(q0, left, FALSE, begin), NEW after
  PROVE  Tail(q0) \in Seq(Entries) /\ Work(Tail(q0), <<>>, FALSE, after)
<1>1. q0 \in Seq(NodeEntries) /\ Len(q0) <= iq0_size
  BY DEF Work
<1>2. Tail(q0) \in Seq(Entries) /\ Tail(q0) \in Seq(NodeEntries)
  BY <1>1, HeadTailProperties
<1>3. Len(q0) \in Nat /\ Len(Tail(q0)) = Len(q0) - 1
  BY <1>1, HeadTailProperties, LenProperties
<1>4. PICK n \in Nat, z \in Nat : n = Len(q0) /\ z = iq0_size /\ n <= z
  BY <1>1, <1>3, Constants
<1>5. n - 1 <= z
  BY <1>4
<1>6. Len(Tail(q0)) <= iq0_size
  BY <1>3, <1>4, <1>5
<1>7. QED
  BY <1>2, <1>6 DEF Work

LEMMA TurnsAre ==
  ASSUME Safe, NEW t \in tiles
  PROVE  /\ Turns(t) \in 0 .. EXPLORE
         /\ GLOBAL_BARRIER = 1 => Turns(t) = epoch_begin[t]
         /\ GLOBAL_BARRIER # 1 /\ iq0[t] # <<>> => Turns(t) = 0
<1>1. PICK n \in 0 .. EXPLORE : n = epoch_begin[t]
  BY DEF Safe, Shapes
<1>2. PICK k \in Nat, x \in Nat : k = n + 1 /\ x = EXPLORE
  BY Constants
<1>3. Min({k, x}) \in 0 .. EXPLORE
  <2>1. Min({k, x}) = IF k <= x THEN k ELSE x
    BY LeastOfTwo
  <2>2. QED
    BY <1>2, <2>1
<1>4. 0 \in 0 .. EXPLORE
  BY Constants
<1>5. iq0[t] # <<>> => ~pu_idle(t)
  BY DEF pu_idle
<1>6. Turns(t) = IF GLOBAL_BARRIER = 1 THEN n ELSE IF pu_idle(t) THEN Min({k, x}) ELSE 0
  BY <1>1, <1>2 DEF Turns
<1>7. QED
  BY <1>1, <1>3, <1>4, <1>5, <1>6

(* A turn chooses a task that may run.                                     *)
LEMMA RunsOne ==
  ASSUME NEW t \in tiles, Run(t)
  PROVE  \/ runnable(t, 0) /\ T1(t)
         \/ runnable(t, 1) /\ T2(t)
         \/ runnable(t, 2) /\ T3(t)
<1>1. ReadyTasks(t) \in SUBSET Nat /\ ReadyTasks(t) # {}
  BY DEF Run, ReadyTasks
<1>2. Min(ReadyTasks(t)) \in ReadyTasks(t)
  BY <1>1, Least
<1>3. Min(ReadyTasks(t)) \in 0 .. 2 /\ runnable(t, Min(ReadyTasks(t)))
  BY <1>2 DEF ReadyTasks, Ready
<1>4. PICK next : next = Min(ReadyTasks(t))
  OBVIOUS
<1>5. \/ next = 0 /\ T1(t)
      \/ next = 1 /\ T2(t)
      \/ next = 2 /\ T3(t)
  BY <1>4 DEF Run
<1>6. QED
  BY <1>3, <1>4, <1>5

LEMMA MayRun ==
  ASSUME Safe, NEW t \in tiles
  PROVE  /\ runnable(t, 0) => iq0[t] # <<>> /\ oq_room(t, 1) > 8
         /\ runnable(t, 1) => iq[<<t, 1>>] # <<>> /\ oq_room(t, 2) > 2 * max_task_chunk + 2
         /\ runnable(t, 2) => iq[<<t, 2>>] # <<>>
<1>1. task1_dest = 1 /\ num_task_params[2] = 2
  BY Constants
<1>2. max_task_chunk * 2 = 2 * max_task_chunk
  BY Chunk
<1>3. QED
  BY <1>1, <1>2 DEF runnable
-----------------------------------------------------------------------------
(* The value of node u is on its way along its edge e: in the frontier, in *)
(* T1's queue, parked, or in a message of T2 or T3.                        *)
Tells(m, n, v) == m.node = n /\ m.value <= v
InFrontier(u) == u \in bitmap[OwnerOfNode(u)][Block(u)]
InQueue(u) == \E i \in 1 .. Len(iq0[OwnerOfNode(u)]) :
                 /\ iq0[OwnerOfNode(u)][i] = Node(u)
                 /\ i > 1 \/ parked[OwnerOfNode(u)] = <<>>
InParked(u, e) == parked[OwnerOfNode(u)] # <<>> /\ Carries(parked[OwnerOfNode(u)][1], e, ret[u])
InPieces(u, e) == \E m : Flies(1, m) /\ Carries(m, e, ret[u])
InUpdates(u, e) == \E m : Flies(2, m) /\ Tells(m, edge_array[e], ret[u] + Weight(e))
Underway(u, e) == InFrontier(u) \/ InQueue(u) \/ InParked(u, e) \/ InPieces(u, e) \/ InUpdates(u, e)

Followable(u, e) == e \in node_array[u] .. node_array[u + 1] - 1 /\ HasEdges(edge_array[e])

(* What a step must keep for no update to be lost.                         *)
Keeps ==
  /\ \A n \in nodes : ret'[n] <= ret[n]
  /\ \A u \in nodes : \A e : Followable(u, e) /\ ret'[u] < INF =>
        \/ Underway(u, e)'
        \/ /\ ret'[u] = ret[u]
           /\ Underway(u, e) => ret'[edge_array[e]] <= ret'[u] + Weight(e)

LEMMA Sending ==
  ASSUME Safe, NEW t \in tiles, NEW first \in Nat, NEW last \in Nat, first <= last, last <= EdgeCount,
         NEW value \in Nat, Send(t, first, last, value), iq' = iq, wire' = wire
  PROVE  /\ QueuesRight' /\ RoomsLeft'
         /\ \A r \in 1 .. 2 : \A x : Flies(r, x) => Flies(r, x)'
         /\ parked' \in [tiles -> Seq(Piece)]
         /\ \A s \in tiles : s # t => parked'[s] = parked[s]
         /\ \/ parked'[t] = <<>>
            \/ Len(parked'[t]) = 1 /\ parked'[t][1].first < parked'[t][1].last /\ parked'[t][1].last <= EdgeCount
         /\ \A e \in first .. last - 1 :
               \/ \E m \in Piece : Flies(1, m)' /\ Carries(m, e, value)
               \/ /\ parked'[t] # <<>> /\ parked'[t][1] \in Piece
                  /\ Carries(parked'[t][1], e, value)
         /\ \A r \in 1 .. 2 : \A x : Flies(r, x)' => Flies(r, x) \/ (r = 1 /\ Within(first, last, value, x))
         /\ parked'[t] # <<>> => Within(first, last, value, parked'[t][1])
<1>1. PICK room \in Nat : room = oq_room(t, 1)
  <2>0. 1 \in 1 .. 2
    OBVIOUS
  <2>1. oq[<<t, 1>>] \in Seq(Messages(1))
    BY <2>0 DEF Safe, QueuesRight, OutRight
  <2>2. PICK n \in Nat : n = Len(oq[<<t, 1>>])
    BY <2>1, Members
  <2>3. oq_room(t, 1) = oq_sizes[1] - 3 * n /\ oq_room(t, 1) >= 0
    BY <2>0, <2>2, Constants DEF oq_room, Safe, RoomsLeft
  <2>4. oq_sizes[1] \in Nat
    BY Constants
  <2>5. QED
    BY <2>3, <2>4
<1>2. PICK h : h = task1_helper(room, first, last, value)
  OBVIOUS
<1>3. /\ h.sent \in Seq(CutPieces) /\ Len(h.sent) \in Nat /\ 3 * Len(h.sent) <= room
      /\ h.left \in Seq(Piece)
      /\ \/ h.left = <<>>
         \/ Len(h.left) = 1 /\ h.left[1].first < h.left[1].last /\ h.left[1].last <= EdgeCount
      /\ \A e \in first .. last - 1 :
            \/ \E i \in 1 .. Len(h.sent) : Carries(h.sent[i], e, value)
            \/ h.left # <<>> /\ Carries(h.left[1], e, value)
      /\ \A i \in 1 .. Len(h.sent) : Within(first, last, value, h.sent[i])
      /\ h.left # <<>> => Within(first, last, value, h.left[1])
  <2>1. first <= last /\ last <= EdgeCount
    OBVIOUS
  <2>2. PiecesRight(room, first, last, value, h)
    BY ONLY <2>1, <1>2, first \in Nat, last \in Nat, value \in Nat, room \in Nat, PiecesAre
  <2>3. QED
    BY ONLY <2>2 DEF PiecesRight
<1>4. /\ oq' = [oq EXCEPT ![<<t, 1>>] = @ \o h.sent]
      /\ parked' = [parked EXCEPT ![t] = h.left]
  BY <1>1, <1>2 DEF Send
<1>5. PICK v \in Seq(Messages(1)) : v = h.sent
  BY <1>3 DEF Messages
<1>6. num_task_params[1] * Len(v) <= oq_room(t, 1)
  BY <1>1, <1>3, <1>5, Constants
<1>7. /\ OutRight(oq')
      /\ \A s \in tiles, r \in 1 .. 2 : oq_room(s, r) >= 0 => oq_room(s, r)' >= 0
      /\ \A s \in tiles, r \in 1 .. 2 : \A x : x \in ToSet(oq[<<s, r>>]) => x \in ToSet(oq'[<<s, r>>])
      /\ \A x \in ToSet(v) : x \in ToSet(oq'[<<t, 1>>])
      /\ \A s \in tiles, r \in 1 .. 2 : \A x :
            x \in ToSet(oq'[<<s, r>>]) => x \in ToSet(oq[<<s, r>>]) \/ IsOneOf(1, v, r, x)
  <2>1. oq' = [oq EXCEPT ![<<t, 1>>] = @ \o v] /\ OutRight(oq) /\ 1 \in 1 .. 2
    BY <1>4, <1>5 DEF Safe, QueuesRight
  <2>2. QED
    BY <1>6, <2>1, Put
<1>8. QueuesRight'
  BY <1>7 DEF QueuesRight, Safe
<1>9. RoomsLeft'
  BY <1>7 DEF RoomsLeft, Safe, iq_room
<1>10. \A r \in 1 .. 2 : \A x : Flies(r, x) => Flies(r, x)'
  BY <1>7 DEF Flies
<1>11. /\ parked' \in [tiles -> Seq(Piece)] /\ parked'[t] = h.left
       /\ \A s \in tiles : s # t => parked'[s] = parked[s]
  BY <1>3, <1>4 DEF Safe, Shapes
<1>12. ASSUME NEW i \in 1 .. Len(h.sent) PROVE h.sent[i] \in Piece /\ Flies(1, h.sent[i])'
  <2>1. h.sent[i] \in CutPieces
    BY <1>3, ElementOfSeq
  <2>2. h.sent[i] \in ToSet(v)
    BY <1>3, <1>5, Members
  <2>3. h.sent[i] \in ToSet(oq'[<<t, 1>>])
    BY <1>7, <2>2
  <2>4. QED
    BY <2>1, <2>3 DEF Flies, CutPieces
<1>13. h.left # <<>> => h.left[1] \in Piece
  BY <1>3, HeadTailProperties
<1>14. ASSUME NEW e \in first .. last - 1
       PROVE  \/ \E m \in Piece : Flies(1, m)' /\ Carries(m, e, value)
              \/ /\ parked'[t] # <<>> /\ parked'[t][1] \in Piece
                 /\ Carries(parked'[t][1], e, value)
  BY <1>3, <1>11, <1>12, <1>13
<1>15. ASSUME NEW x \in ToSet(v) PROVE Within(first, last, value, x)
  <2>1. PICK i \in 1 .. Len(v) : v[i] = x
    BY <1>15, Members
  <2>2. QED
    BY <1>3, <1>5, <2>1
<1>16. ASSUME NEW r \in 1 .. 2, NEW x, Flies(r, x)' PROVE Flies(r, x) \/ (r = 1 /\ Within(first, last, value, x))
  <2>1. CASE \E s \in tiles : x \in ToSet(oq'[<<s, r>>])
    BY <1>7, <1>15, <2>1 DEF Flies, IsOneOf
  <2>2. CASE \E s \in tiles : x \in ToSet(iq'[<<s, r>>])
    BY <2>2 DEF Flies
  <2>3. CASE \E a, b \in tiles : x \in ToSet(wire'[<<a, b, r>>])
    BY <2>3 DEF Flies
  <2>4. QED
    BY <1>16, <2>1, <2>2, <2>3 DEF Flies
<1>17. parked'[t] # <<>> => Within(first, last, value, parked'[t][1])
  BY <1>3, <1>11
<1>18. QED
  BY <1>3, <1>8, <1>9, <1>10, <1>11, <1>14, <1>16, <1>17

(* A turn changes the work of its own tile only.                           *)
LEMMA AfterRun ==
  ASSUME Safe, NEW t \in tiles, QueuesRight', RoomsLeft', FrontierRight',
         ret' \in [nodes -> Nat], bitmap' \in [tiles -> [Blocks -> SUBSET nodes]], fr' \in [tiles -> Rings],
         parked' \in [tiles -> Seq(Piece)], seeding' \in [tiles -> BOOLEAN], iq0' \in [tiles -> Seq(Entries)],
         NEW begin \in 0 .. EXPLORE, epoch_begin' = [epoch_begin EXCEPT ![t] = begin],
         \A s \in tiles : s # t => parked'[s] = parked[s] /\ iq0'[s] = iq0[s] /\ seeding'[s] = seeding[s],
         Work(iq0'[t], parked'[t], seeding'[t], begin)
  PROVE  Safe'
<1>1. /\ epoch_begin' \in [tiles -> 0 .. EXPLORE] /\ epoch_begin'[t] = begin
      /\ \A s \in tiles : s # t => epoch_begin'[s] = epoch_begin[s]
  BY DEF Safe, Shapes
<1>2. ASSUME NEW s \in tiles PROVE Work(iq0'[s], parked'[s], seeding'[s], epoch_begin'[s])
  <2>1. CASE s = t
    BY <1>1, <2>1
  <2>2. CASE s # t
    BY <1>1, <2>2 DEF Safe, WorkRight
  <2>3. QED
    BY <2>1, <2>2
<1>3. WorkRight'
  BY <1>2 DEF WorkRight
<1>4. Shapes'
  BY <1>1 DEF Shapes
<1>5. QED
  BY <1>3, <1>4 DEF Safe

(* Popping the queue of T1 keeps what is not in front.                     *)
LEMMA PopKeeps ==
  ASSUME NEW q0 \in Seq(Entries), q0 # <<>>, NEW i \in 1 .. Len(q0), i > 1
  PROVE  i - 1 \in 1 .. Len(Tail(q0)) /\ Tail(q0)[i - 1] = q0[i]
<1>1. PICK n \in Nat \ {0} : n = Len(q0) /\ Len(Tail(q0)) = n - 1
  BY HeadAndTail
<1>2. \A j \in 1 .. n - 1 : Tail(q0)[j] = q0[j + 1]
  BY <1>1, HeadAndTail
<1>3. PICK j \in 1 .. n - 1 : j = i - 1 /\ j + 1 = i
  BY <1>1
<1>4. QED
  BY <1>1, <1>2, <1>3

(* What T1 still has to do for a piece is in its messages or parked.       *)
LEMMA Covered ==
  ASSUME NEW t, NEW first, NEW last, NEW value \in Nat, NEW u \in nodes, NEW v \in Nat, value <= v, ret'[u] = v,
         OwnerOfNode(u) = t,
         \A e \in first .. last - 1 :
               \/ \E m \in Piece : Flies(1, m)' /\ Carries(m, e, value)
               \/ /\ parked'[t] # <<>> /\ parked'[t][1] \in Piece
                  /\ Carries(parked'[t][1], e, value)
  PROVE  \A e \in first .. last - 1 : InPieces(u, e)' \/ InParked(u, e)'
<1>1. ASSUME NEW m \in Piece, NEW e, Carries(m, e, value) PROVE Carries(m, e, v)
  <2>1. m.value \in Nat
    BY DEF Piece
  <2>2. QED
    BY <1>1, <2>1 DEF Carries
<1>2. ASSUME NEW e \in first .. last - 1 PROVE InPieces(u, e)' \/ InParked(u, e)'
  <2>1. CASE \E m \in Piece : Flies(1, m)' /\ Carries(m, e, value)
    <3>1. PICK m \in Piece : Flies(1, m)' /\ Carries(m, e, value)
      BY <2>1
    <3>2. Carries(m, e, v)
      BY <1>1, <3>1
    <3>3. QED
      BY <3>1, <3>2 DEF InPieces
  <2>2. CASE parked'[t] # <<>> /\ parked'[t][1] \in Piece /\ Carries(parked'[t][1], e, value)
    <3>1. Carries(parked'[t][1], e, v)
      BY <1>1, <2>2
    <3>2. QED
      BY <2>2, <3>1 DEF InParked
  <2>3. QED
    BY <2>1, <2>2
<1>3. QED
  BY <1>2

LEMMA FlyingKeeps ==
  ASSUME NEW u, NEW e, ret'[u] = ret[u], \A r \in 1 .. 2 : \A x : Flies(r, x) => Flies(r, x)'
  PROVE  /\ InPieces(u, e) => InPieces(u, e)'
         /\ InUpdates(u, e) => InUpdates(u, e)'
<1>1. 1 \in 1 .. 2 /\ 2 \in 1 .. 2
  OBVIOUS
<1>2. \A x : (Flies(1, x) => Flies(1, x)') /\ (Flies(2, x) => Flies(2, x)')
  BY <1>1
<1>3. QED
  BY <1>2 DEF InPieces, InUpdates

LEMMA ResumeStep ==
  ASSUME Safe, NEW t \in tiles, iq0[t] # <<>>, T1Resume(t), UNCHANGED <<bitmap, fr, iq, wire>>,
         epoch_begin' = [epoch_begin EXCEPT ![t] = Turns(t)]
  PROVE  Safe' /\ Keeps
<1>1. /\ parked[t] \in Seq(Piece) /\ parked[t] # <<>> /\ iq0[t] \in Seq(Entries)
      /\ ret \in [nodes -> Nat] /\ seeding[t] \in BOOLEAN
      /\ Work(iq0[t], parked[t], seeding[t], epoch_begin[t])
  BY DEF T1Resume, Safe, Shapes, WorkRight
<1>2. parked[t][1] \in Piece
  BY <1>1, HeadTailProperties
<1>3. PICK first \in Nat, last \in Nat, value \in Nat :
         first = parked[t][1].first /\ last = parked[t][1].last /\ value = parked[t][1].value
  BY <1>2 DEF Piece
<1>4. first <= last /\ last <= EdgeCount
  BY <1>1, <1>3 DEF Work
<1>5. Send(t, first, last, value) /\ iq' = iq /\ wire' = wire
  BY <1>3 DEF T1Resume
<1>6. /\ QueuesRight' /\ RoomsLeft'
      /\ \A r \in 1 .. 2 : \A x : Flies(r, x) => Flies(r, x)'
      /\ parked' \in [tiles -> Seq(Piece)]
      /\ \A s \in tiles : s # t => parked'[s] = parked[s]
      /\ \/ parked'[t] = <<>>
         \/ Len(parked'[t]) = 1 /\ parked'[t][1].first < parked'[t][1].last /\ parked'[t][1].last <= EdgeCount
      /\ \A e \in first .. last - 1 :
            \/ \E m \in Piece : Flies(1, m)' /\ Carries(m, e, value)
            \/ /\ parked'[t] # <<>> /\ parked'[t][1] \in Piece
               /\ Carries(parked'[t][1], e, value)
  BY <1>4, <1>5, Sending
<1>7. /\ iq0' = [iq0 EXCEPT ![t] = Popped(t, parked'[t])]
      /\ ret' = ret /\ seeding' = seeding /\ bitmap' = bitmap /\ fr' = fr
  BY DEF T1Resume
<1>8. Popped(t, parked'[t]) = IF seeding[t] \/ parked'[t] # <<>> THEN iq0[t] ELSE Tail(iq0[t])
  BY DEF Popped
<1>9. Turns(t) \in 0 .. EXPLORE /\ (GLOBAL_BARRIER = 1 => Turns(t) = epoch_begin[t])
  BY TurnsAre
<1>10. Popped(t, parked'[t]) \in Seq(Entries) /\ Work(Popped(t, parked'[t]), parked'[t], seeding[t], Turns(t))
  <2>1. CASE seeding[t] \/ parked'[t] # <<>>
    BY <1>1, <1>6, <1>8, <1>9, <2>1 DEF Work
  <2>2. CASE ~seeding[t] /\ parked'[t] = <<>>
    <3>1. seeding[t] = FALSE
      BY <1>1, <2>2
    <3>2. Tail(iq0[t]) \in Seq(Entries) /\ Work(Tail(iq0[t]), <<>>, FALSE, Turns(t))
      BY <1>1, <3>1, WorkPops
    <3>3. QED
      BY <1>8, <2>2, <3>1, <3>2
  <2>3. QED
    BY <2>1, <2>2
<1>11. /\ iq0' \in [tiles -> Seq(Entries)] /\ iq0'[t] = Popped(t, parked'[t])
       /\ \A s \in tiles : s # t => iq0'[s] = iq0[s]
  BY <1>7, <1>10 DEF Safe, Shapes
<1>12. Safe'
  <2>1. FrontierRight' /\ ret' \in [nodes -> Nat] /\ bitmap' \in [tiles -> [Blocks -> SUBSET nodes]]
        /\ fr' \in [tiles -> Rings] /\ seeding' \in [tiles -> BOOLEAN]
    BY <1>7 DEF Safe, Shapes, FrontierRight
  <2>2. Work(iq0'[t], parked'[t], seeding'[t], Turns(t))
    BY <1>7, <1>10, <1>11
  <2>3. \A s \in tiles : s # t => parked'[s] = parked[s] /\ iq0'[s] = iq0[s] /\ seeding'[s] = seeding[s]
    BY <1>6, <1>7, <1>11
  <2>4. QED
    BY <1>6, <1>9, <1>11, <2>1, <2>2, <2>3, AfterRun
<1>13. ASSUME NEW u \in nodes, NEW e, Followable(u, e), Underway(u, e) PROVE Underway(u, e)'
  <2>1. ret'[u] = ret[u] /\ ret[u] \in Nat /\ OwnerOfNode(u) \in tiles
    BY <1>1, <1>7, OwnersAreTiles
  <2>2. CASE InFrontier(u)
    BY <1>7, <2>2 DEF InFrontier, Underway
  <2>3. CASE InPieces(u, e) \/ InUpdates(u, e)
    BY <1>6, <2>1, <2>3, FlyingKeeps DEF Underway
  <2>4. CASE InQueue(u) /\ OwnerOfNode(u) # t
    BY <1>6, <1>11, <2>1, <2>4 DEF InQueue, Underway
  <2>5. CASE InQueue(u) /\ OwnerOfNode(u) = t
    <3>1. PICK i \in 1 .. Len(iq0[t]) : iq0[t][i] = Node(u) /\ i > 1
      BY <1>1, <2>5 DEF InQueue
    <3>2. CASE seeding[t] \/ parked'[t] # <<>>
      BY <1>8, <1>11, <2>5, <3>1, <3>2 DEF InQueue, Underway
    <3>3. CASE ~seeding[t] /\ parked'[t] = <<>>
      <4>1. iq0'[t] = Tail(iq0[t])
        BY <1>8, <1>11, <3>3
      <4>2. i - 1 \in 1 .. Len(Tail(iq0[t])) /\ Tail(iq0[t])[i - 1] = iq0[t][i]
        BY <1>1, <3>1, PopKeeps
      <4>3. InQueue(u)'
        BY <2>5, <3>1, <3>3, <4>1, <4>2 DEF InQueue, Node
      <4>4. QED
        BY <4>3 DEF Underway
    <3>4. QED
      BY <3>2, <3>3
  <2>6. CASE InParked(u, e) /\ OwnerOfNode(u) # t
    BY <1>6, <2>1, <2>6 DEF InParked, Underway
  <2>7. CASE InParked(u, e) /\ OwnerOfNode(u) = t
    <3>1. first <= e /\ e < last /\ value <= ret[u]
      BY <1>3, <2>7 DEF InParked, Carries
    <3>2. e \in Int
      BY <1>13, EdgesOf DEF Followable
    <3>3. e \in first .. last - 1
      BY <3>1, <3>2
    <3>4. InPieces(u, e)' \/ InParked(u, e)'
      <4>1. PICK v \in Nat : v = ret[u] /\ ret'[u] = v /\ value <= v
        BY <2>1, <3>1
      <4>2. \A d \in first .. last - 1 : InPieces(u, d)' \/ InParked(u, d)'
        BY <1>6, <2>7, <4>1, Covered
      <4>3. QED
        BY <3>3, <4>2
    <3>5. QED
      BY <3>4 DEF Underway
  <2>8. QED
    BY <1>13, <2>2, <2>3, <2>4, <2>5, <2>6, <2>7 DEF Underway
<1>14. Keeps
  <2>1. \A n \in nodes : ret'[n] <= ret[n] /\ ret'[n] = ret[n]
    BY <1>1, <1>7
  <2>2. QED
    BY <1>13, <2>1 DEF Keeps
<1>15. QED
  BY <1>12, <1>14

(* The queue of T1 and what is parked, when tile t did not have it parked. *)
LEMMA OthersKeep ==
  ASSUME Safe, NEW t \in tiles, NEW u \in nodes, NEW e, ret'[u] = ret[u], bitmap' = bitmap,
         \A r \in 1 .. 2 : \A x : Flies(r, x) => Flies(r, x)',
         \A s \in tiles : s # t => parked'[s] = parked[s] /\ iq0'[s] = iq0[s],
         parked[t] = <<>>, Underway(u, e), ~(InQueue(u) /\ OwnerOfNode(u) = t)
  PROVE  Underway(u, e)'
<1>1. OwnerOfNode(u) \in tiles
  BY OwnersAreTiles
<1>2. CASE InFrontier(u)
  BY <1>2 DEF InFrontier, Underway
<1>3. CASE InPieces(u, e) \/ InUpdates(u, e)
  BY <1>3, FlyingKeeps DEF Underway
<1>4. CASE InQueue(u)
  BY <1>1, <1>4 DEF InQueue, Underway
<1>5. CASE InParked(u, e)
  <2>1. OwnerOfNode(u) # t
    BY <1>5 DEF InParked
  <2>2. QED
    BY <1>1, <1>5, <2>1 DEF InParked, Underway
<1>6. QED
  BY <1>2, <1>3, <1>4, <1>5 DEF Underway

LEMMA SeedStep ==
  ASSUME Safe, NEW t \in tiles, iq0[t] # <<>>, T1Seed(t), UNCHANGED <<bitmap, fr, iq, wire>>,
         epoch_begin' = [epoch_begin EXCEPT ![t] = Turns(t)]
  PROVE  Safe' /\ Keeps
<1> DEFINE unseen == {n \in NodesOf(t) : n >= Head(iq0[t]).node /\ ret[n] = INF}
           n == Min(unseen)
<1>1. /\ parked \in [tiles -> Seq(Piece)] /\ parked[t] = <<>> /\ seeding[t] = TRUE /\ iq0[t] \in Seq(Entries)
      /\ ret \in [nodes -> Nat] /\ bitmap' = bitmap /\ fr' = fr
      /\ Work(iq0[t], parked[t], TRUE, epoch_begin[t])
  BY DEF T1Seed, Safe, Shapes, WorkRight
<1>2. Len(iq0[t]) = 1 /\ iq0[t][1].kind = "seed" /\ APP = "WCC" /\ (GLOBAL_BARRIER = 1 => epoch_begin[t] = 0)
      /\ Len(iq0[t]) <= iq0_size
  BY <1>1 DEF Work
<1>3. Tail(iq0[t]) \in Seq(Entries) /\ Len(Tail(iq0[t])) = 0
  <2>1. Tail(iq0[t]) \in Seq(Entries) /\ Len(Tail(iq0[t])) = Len(iq0[t]) - 1
    BY <1>1, HeadAndTail
  <2>2. QED
    BY <1>2, <2>1
<1>4. Turns(t) \in 0 .. EXPLORE /\ (GLOBAL_BARRIER = 1 => Turns(t) = epoch_begin[t])
  BY TurnsAre
<1>5. FrontierRight' /\ bitmap' \in [tiles -> [Blocks -> SUBSET nodes]] /\ fr' \in [tiles -> Rings]
  BY <1>1 DEF Safe, Shapes, FrontierRight
<1>6. ASSUME NEW u \in nodes, OwnerOfNode(u) = t PROVE ~InQueue(u)
  <2>1. \A i \in 1 .. Len(iq0[t]) : iq0[t][i] # Node(u)
    BY <1>2 DEF Node
  <2>2. QED
    BY <1>6, <2>1 DEF InQueue
<1>7. unseen \in SUBSET Nat /\ unseen \subseteq nodes
  BY EntriesAre DEF NodesOf
<1>8. CASE unseen = {}
  <2>1. /\ iq0' = [iq0 EXCEPT ![t] = Tail(@)] /\ seeding' = [seeding EXCEPT ![t] = FALSE]
        /\ ret' = ret /\ oq' = oq /\ parked' = parked /\ iq' = iq /\ wire' = wire
    BY <1>8 DEF T1Seed
  <2>2. QueuesRight' /\ RoomsLeft' /\ \A r \in 1 .. 2 : \A x : Flies(r, x) => Flies(r, x)'
    BY <2>1 DEF Safe, QueuesRight, RoomsLeft, oq_room, iq_room, Flies
  <2>3. /\ iq0' \in [tiles -> Seq(Entries)] /\ iq0'[t] = Tail(iq0[t])
        /\ seeding' \in [tiles -> BOOLEAN] /\ seeding'[t] = FALSE
        /\ \A s \in tiles : s # t => parked'[s] = parked[s] /\ iq0'[s] = iq0[s] /\ seeding'[s] = seeding[s]
    BY <1>3, <2>1 DEF Safe, Shapes
  <2>4. Work(iq0'[t], parked'[t], seeding'[t], Turns(t))
    <3>1. Tail(iq0[t]) = <<>>
      BY <1>3, EmptySeq
    <3>2. <<>> \in Seq(NodeEntries) /\ Len(<<>>) <= iq0_size
      BY Constants
    <3>3. QED
      BY <1>1, <2>1, <2>3, <3>1, <3>2 DEF Work
  <2>5. Safe'
    <3>1. ret' \in [nodes -> Nat] /\ parked' \in [tiles -> Seq(Piece)]
      BY <1>1, <2>1
    <3>2. QED
      BY <1>4, <1>5, <2>2, <2>3, <2>4, <3>1, AfterRun
  <2>6. ASSUME NEW u \in nodes, NEW e, Underway(u, e) PROVE Underway(u, e)'
    <3>1. ret'[u] = ret[u] /\ ~(InQueue(u) /\ OwnerOfNode(u) = t)
      BY <1>6, <2>1
    <3>2. QED
      BY <1>1, <2>2, <2>3, <2>6, <3>1, OthersKeep
  <2>7. \A u \in nodes : ret'[u] <= ret[u] /\ ret'[u] = ret[u]
    BY <1>1, <2>1
  <2>8. Keeps
    BY <2>6, <2>7 DEF Keeps
  <2>9. QED
    BY <2>5, <2>8
<1>9. CASE unseen # {}
  <2>1. n \in nodes /\ OwnerOfNode(n) = t /\ ret[n] = INF /\ n \in Nat /\ n < INF /\ INF \in Nat
    <3>1. n \in unseen
      BY <1>7, <1>9, Least
    <3>2. n \in nodes /\ OwnerOfNode(n) = t /\ ret[n] = INF
      BY <1>7, <3>1 DEF NodesOf
    <3>3. QED
      BY <1>2, <1>7, <3>1, <3>2, SearchAssumption
  <2>2. /\ iq0' = [iq0 EXCEPT ![t] = Append(Tail(@), Seed(n))]
        /\ ret' = [ret EXCEPT ![n] = n] /\ seeding' = seeding
        /\ Send(t, node_array[n], node_array[n + 1], n)
        /\ iq' = iq /\ wire' = wire
    BY <1>9 DEF T1Seed, Explore
  <2> HIDE DEF unseen, n
  <2>3. PICK first \in Nat, last \in Nat :
           first = node_array[n] /\ last = node_array[n + 1] /\ first <= last /\ last <= EdgeCount
    BY <2>1, EdgesOf
  <2>4. /\ QueuesRight' /\ RoomsLeft'
        /\ \A r \in 1 .. 2 : \A x : Flies(r, x) => Flies(r, x)'
        /\ parked' \in [tiles -> Seq(Piece)]
        /\ \A s \in tiles : s # t => parked'[s] = parked[s]
        /\ \/ parked'[t] = <<>>
           \/ Len(parked'[t]) = 1 /\ parked'[t][1].first < parked'[t][1].last /\ parked'[t][1].last <= EdgeCount
        /\ \A e \in first .. last - 1 :
              \/ \E m \in Piece : Flies(1, m)' /\ Carries(m, e, n)
              \/ /\ parked'[t] # <<>> /\ parked'[t][1] \in Piece
                 /\ Carries(parked'[t][1], e, n)
    <3>1. PICK value \in Nat : value = n /\ Send(t, first, last, value)
      BY <2>1, <2>2, <2>3
    <3>2. QED
      BY <2>2, <2>3, <3>1, Sending
  <2>5. PICK q0 : q0 = Append(Tail(iq0[t]), Seed(n))
    OBVIOUS
  <2>6. q0 = <<Seed(n)>> /\ q0 \in Seq(Entries) /\ Len(q0) = 1 /\ q0[1].kind = "seed" /\ q0 # <<>>
    <3>1. Tail(iq0[t]) = <<>>
      BY <1>3, EmptySeq
    <3>2. Append(<<>>, Seed(n)) = <<Seed(n)>>
      OBVIOUS
    <3>3. Seed(n) \in Entries /\ Seed(n).kind = "seed"
      BY <2>1, EntriesAre
    <3>4. <<Seed(n)>> \in Seq(Entries) /\ Len(<<Seed(n)>>) = 1 /\ <<Seed(n)>>[1] = Seed(n) /\ <<Seed(n)>> # <<>>
      BY <3>3, Lone
    <3>5. QED
      BY <2>5, <3>1, <3>2, <3>3, <3>4
  <2>7. /\ iq0' \in [tiles -> Seq(Entries)] /\ iq0'[t] = q0
        /\ seeding' \in [tiles -> BOOLEAN] /\ seeding'[t] = TRUE
        /\ \A s \in tiles : s # t => parked'[s] = parked[s] /\ iq0'[s] = iq0[s] /\ seeding'[s] = seeding[s]
    BY <1>1, <2>2, <2>4, <2>5, <2>6 DEF Safe, Shapes
  <2>8. Work(iq0'[t], parked'[t], seeding'[t], Turns(t))
    BY <1>2, <1>4, <2>4, <2>6, <2>7 DEF Work
  <2>9. ret' \in [nodes -> Nat] /\ ret'[n] = n /\ \A u \in nodes : u # n => ret'[u] = ret[u]
    BY <1>1, <2>1, <2>2
  <2>10. Safe'
    BY <1>4, <1>5, <2>4, <2>7, <2>8, <2>9, AfterRun
  <2>11. ASSUME NEW u \in nodes, NEW e, u # n, Underway(u, e) PROVE Underway(u, e)'
    <3>1. ret'[u] = ret[u] /\ ~(InQueue(u) /\ OwnerOfNode(u) = t)
      BY <1>6, <2>9, <2>11
    <3>2. QED
      BY <1>1, <2>4, <2>7, <2>11, <3>1, OthersKeep
  <2>12. ASSUME NEW u \in nodes, u = n, NEW e, Followable(u, e) PROVE Underway(u, e)'
    <3>1. e \in first .. last - 1
      BY <2>3, <2>12 DEF Followable
    <3>2. PICK v \in Nat : v = n /\ ret'[n] = v /\ v <= v
      BY <2>1, <2>9
    <3>3. \A d \in first .. last - 1 :
             \/ \E m \in Piece : Flies(1, m)' /\ Carries(m, d, v)
             \/ /\ parked'[t] # <<>> /\ parked'[t][1] \in Piece
                /\ Carries(parked'[t][1], d, v)
      BY <2>4, <3>2
    <3>4. OwnerOfNode(u) = t /\ ret'[u] = v
      BY <2>1, <2>12, <3>2
    <3>5. \A d \in first .. last - 1 : InPieces(u, d)' \/ InParked(u, d)'
      BY ONLY v \in Nat, u \in nodes, <3>2, <3>3, <3>4, Covered
    <3>6. QED
      BY <3>1, <3>5 DEF Underway
  <2>13. \A u \in nodes : ret'[u] <= ret[u]
    <3>1. ret'[n] <= ret[n]
      BY <2>1, <2>9
    <3>2. \A u \in nodes : u # n => ret'[u] <= ret[u]
      BY <1>1, <2>9
    <3>3. QED
      BY <3>1, <3>2
  <2>14. Keeps
    <3>1. ASSUME NEW u \in nodes, NEW e, Followable(u, e)
          PROVE  Underway(u, e)' \/ (ret'[u] = ret[u] /\ ~Underway(u, e))
      <4>1. CASE u = n
        BY <2>12, <3>1, <4>1
      <4>2. CASE u # n
        BY <2>9, <2>11, <4>2
      <4>3. QED
        BY <4>1, <4>2
    <3>2. QED
      BY <2>13, <3>1 DEF Keeps
  <2>15. QED
    BY <2>10, <2>14
<1>10. QED
  BY <1>8, <1>9

LEMMA NodeStep ==
  ASSUME Safe, NEW t \in tiles, iq0[t] # <<>>, T1Node(t), UNCHANGED <<bitmap, fr, iq, wire>>,
         epoch_begin' = [epoch_begin EXCEPT ![t] = Turns(t)]
  PROVE  Safe' /\ Keeps
<1> DEFINE n == Head(iq0[t]).node
<1>1. /\ parked \in [tiles -> Seq(Piece)] /\ parked[t] = <<>> /\ seeding[t] = FALSE /\ iq0[t] \in Seq(Entries)
      /\ ret \in [nodes -> Nat] /\ bitmap' = bitmap /\ fr' = fr /\ ret' = ret /\ seeding' = seeding
      /\ iq' = iq /\ wire' = wire
      /\ Work(iq0[t], <<>>, FALSE, epoch_begin[t])
  BY DEF T1Node, Safe, Shapes, WorkRight
<1>2. iq0[t] \in Seq(NodeEntries)
  BY <1>1 DEF Work
<1>3. Turns(t) \in 0 .. EXPLORE
  BY TurnsAre
<1>4. /\ FrontierRight' /\ bitmap' \in [tiles -> [Blocks -> SUBSET nodes]] /\ fr' \in [tiles -> Rings]
      /\ ret' \in [nodes -> Nat] /\ seeding' \in [tiles -> BOOLEAN]
  BY <1>1 DEF Safe, Shapes, FrontierRight
<1>5. n \in nodes /\ iq0[t][1] = Head(iq0[t])
  <2>1. Head(iq0[t]) \in NodeEntries /\ iq0[t][1] = Head(iq0[t])
    BY <1>2, HeadAndTail
  <2>2. PICK x \in NodeEntries : x = Head(iq0[t])
    BY <2>1
  <2>3. x.node \in nodes
    BY DEF NodeEntries
  <2>4. QED
    BY <2>1, <2>2, <2>3
<1>6. \A u \in nodes : ret'[u] = ret[u] /\ ret'[u] <= ret[u]
  BY <1>1
<1>7. CASE APP = "SSSP" /\ ~HasEdges(n) /\ UNCHANGED <<oq, parked, iq0>>
  <2>1. QueuesRight' /\ RoomsLeft' /\ \A r \in 1 .. 2 : \A x : Flies(r, x) => Flies(r, x)'
    BY <1>1, <1>7 DEF Safe, QueuesRight, RoomsLeft, oq_room, iq_room, Flies
  <2>2. /\ iq0' = iq0 /\ parked' = parked /\ iq0' \in [tiles -> Seq(Entries)] /\ parked' \in [tiles -> Seq(Piece)]
        /\ \A s \in tiles : s # t => parked'[s] = parked[s] /\ iq0'[s] = iq0[s] /\ seeding'[s] = seeding[s]
    BY <1>1, <1>7 DEF Safe, Shapes
  <2>3. Work(iq0'[t], parked'[t], seeding'[t], Turns(t))
    BY <1>1, <2>2 DEF Work
  <2>4. Safe'
    BY <1>3, <1>4, <2>1, <2>2, <2>3, AfterRun
  <2>5. ASSUME NEW u \in nodes, NEW e, Underway(u, e) PROVE Underway(u, e)'
    <3>1. CASE InQueue(u)
      BY <2>2, <3>1 DEF InQueue, Underway
    <3>2. CASE ~InQueue(u)
      BY <1>1, <1>6, <2>1, <2>2, <2>5, <3>2, OthersKeep
    <3>3. QED
      BY <3>1, <3>2
  <2>6. Keeps
    BY <1>6, <2>5 DEF Keeps
  <2>7. QED
    BY <2>4, <2>6
<1>8. CASE Explore(t, n, ret[n]) /\ iq0' = [iq0 EXCEPT ![t] = Popped(t, parked'[t])]
  <2>1. PICK first \in Nat, last \in Nat :
           first = node_array[n] /\ last = node_array[n + 1] /\ first <= last /\ last <= EdgeCount
    BY <1>5, EdgesOf
  <2>2. PICK value \in Nat : value = ret[n]
    BY <1>1, <1>5
  <2>3. Send(t, first, last, value)
    BY <1>8, <2>1, <2>2 DEF Explore
  <2> HIDE DEF n
  <2>4. /\ QueuesRight' /\ RoomsLeft'
        /\ \A r \in 1 .. 2 : \A x : Flies(r, x) => Flies(r, x)'
        /\ parked' \in [tiles -> Seq(Piece)]
        /\ \A s \in tiles : s # t => parked'[s] = parked[s]
        /\ \/ parked'[t] = <<>>
           \/ Len(parked'[t]) = 1 /\ parked'[t][1].first < parked'[t][1].last /\ parked'[t][1].last <= EdgeCount
        /\ \A e \in first .. last - 1 :
              \/ \E m \in Piece : Flies(1, m)' /\ Carries(m, e, value)
              \/ /\ parked'[t] # <<>> /\ parked'[t][1] \in Piece
                 /\ Carries(parked'[t][1], e, value)
    <3>1. iq' = iq /\ wire' = wire
      BY <1>1
    <3>2. QED
      BY <2>1, <2>3, <3>1, Sending
  <2>5. Popped(t, parked'[t]) = IF parked'[t] # <<>> THEN iq0[t] ELSE Tail(iq0[t])
    BY <1>1 DEF Popped
  <2>6. Tail(iq0[t]) \in Seq(Entries) /\ Work(Tail(iq0[t]), <<>>, FALSE, Turns(t))
    BY <1>1, WorkPops
  <2>7. /\ iq0' \in [tiles -> Seq(Entries)] /\ iq0'[t] = Popped(t, parked'[t])
        /\ \A s \in tiles : s # t => iq0'[s] = iq0[s]
    BY <1>1, <1>8, <2>5, <2>6 DEF Safe, Shapes
  <2>8. Work(iq0'[t], parked'[t], seeding'[t], Turns(t))
    <3>1. CASE parked'[t] # <<>>
      BY <1>1, <2>4, <2>5, <2>7, <3>1 DEF Work
    <3>2. CASE parked'[t] = <<>>
      BY <1>1, <2>5, <2>6, <2>7, <3>2
    <3>3. QED
      BY <3>1, <3>2
  <2>9. Safe'
    <3>1. \A s \in tiles : s # t => parked'[s] = parked[s] /\ iq0'[s] = iq0[s] /\ seeding'[s] = seeding[s]
      BY <1>1, <2>4, <2>7
    <3>2. QED
      BY <1>3, <1>4, <2>4, <2>7, <2>8, <3>1, AfterRun
  <2>10. ASSUME NEW u \in nodes, NEW e, Followable(u, e), Underway(u, e) PROVE Underway(u, e)'
    <3>1. CASE ~(InQueue(u) /\ OwnerOfNode(u) = t)
      BY <1>1, <1>6, <2>4, <2>7, <2>10, <3>1, OthersKeep
    <3>2. CASE InQueue(u) /\ OwnerOfNode(u) = t
      <4>1. PICK i \in 1 .. Len(iq0[t]) : iq0[t][i] = Node(u)
        BY <3>2 DEF InQueue
      <4>2. CASE i = 1
        <5>1. u = n
          BY <1>5, <4>1, <4>2 DEF Node, n
        <5>2. e \in first .. last - 1
          BY <2>1, <2>10, <5>1 DEF Followable
        <5>3. ret'[u] = value /\ value <= value
          BY <1>6, <2>2, <5>1
        <5>4. \A d \in first .. last - 1 :
                 \/ \E m \in Piece : Flies(1, m)' /\ Carries(m, d, value)
                 \/ /\ parked'[t] # <<>> /\ parked'[t][1] \in Piece
                    /\ Carries(parked'[t][1], d, value)
          BY <2>4
        <5>5. \A d \in first .. last - 1 : InPieces(u, d)' \/ InParked(u, d)'
          BY ONLY value \in Nat, u \in nodes, <3>2, <5>3, <5>4, Covered
        <5>6. QED
          BY <5>2, <5>5 DEF Underway
      <4>3. CASE i # 1 /\ parked'[t] # <<>>
        <5>1. i > 1
          BY <4>3
        <5>2. iq0'[t] = iq0[t]
          BY <2>5, <2>7, <4>3
        <5>3. InQueue(u)'
          BY <3>2, <4>1, <5>1, <5>2 DEF InQueue, Node
        <5>4. QED
          BY <5>3 DEF Underway
      <4>4. CASE i # 1 /\ parked'[t] = <<>>
        <5>1. i > 1
          BY <4>4
        <5>2. iq0'[t] = Tail(iq0[t])
          BY <2>5, <2>7, <4>4
        <5>3. i - 1 \in 1 .. Len(Tail(iq0[t])) /\ Tail(iq0[t])[i - 1] = iq0[t][i]
          BY <1>1, <5>1, PopKeeps
        <5>4. InQueue(u)'
          BY <3>2, <4>1, <4>4, <5>2, <5>3 DEF InQueue, Node
        <5>5. QED
          BY <5>4 DEF Underway
      <4>5. QED
        BY <4>2, <4>3, <4>4
    <3>3. QED
      BY <3>1, <3>2
  <2>11. Keeps
    BY <1>6, <2>10 DEF Keeps
  <2>12. QED
    BY <2>9, <2>11
<1>9. QED
  BY <1>7, <1>8 DEF T1Node

(* T1 has as much to do after a turn of another task.                      *)
LEMMA WorkStays ==
  ASSUME Safe, NEW t \in tiles
  PROVE  Work(iq0[t], parked[t], seeding[t], Turns(t))
<1>1. seeding[t] \in BOOLEAN /\ Work(iq0[t], parked[t], seeding[t], epoch_begin[t])
  BY DEF Safe, Shapes, WorkRight
<1>2. GLOBAL_BARRIER = 1 => Turns(t) = epoch_begin[t]
  BY TurnsAre
<1>3. QED
  BY <1>1, <1>2 DEF Work

(* The unit runs T2 only with room for all that a piece can make it send.  *)
LEMMA T2Fits ==
  ASSUME Safe, NEW t \in tiles, runnable(t, 1), NEW m \in CutPieces
  PROVE  num_task_params[2] * Len(Told(m)) <= oq_room(t, 2)
<1>0. 1 \in 1 .. 2 /\ 2 \in 1 .. 2 /\ OutRight(oq) /\ oq_room(t, 2) > 2 * max_task_chunk + 2
  <2>1. oq_room(t, 2) > 2 * max_task_chunk + 2
    BY MayRun
  <2>2. OutRight(oq)
    BY DEF Safe, QueuesRight
  <2>3. QED
    BY <2>1, <2>2
<1>1. PICK k \in Nat, c \in Nat : k = Len(Told(m)) /\ c = max_task_chunk /\ k <= c
  BY ToldIs, Chunk
<1>2. PICK o \in Nat : o = Len(oq[<<t, 2>>])
  <2>1. oq[<<t, 2>>] \in Seq(Messages(2))
    BY <1>0 DEF OutRight
  <2>2. QED
    BY <2>1, Members
<1>3. num_task_params[2] = 2 /\ oq_sizes[2] \in Nat /\ oq_room(t, 2) = oq_sizes[2] - 2 * o
  BY <1>0, <1>2, Constants DEF oq_room
<1>4. PICK r \in Int : r = oq_room(t, 2)
  BY <1>3
<1>5. QED
  BY <1>0, <1>1, <1>3, <1>4

LEMMA T2Step ==
  ASSUME Safe, NEW t \in tiles, runnable(t, 1), T2(t), UNCHANGED wire,
         epoch_begin' = [epoch_begin EXCEPT ![t] = Turns(t)]
  PROVE  Safe' /\ Keeps
<1> DEFINE m == Head(iq[<<t, 1>>])
<1>0. PICK q \in 1 .. 2 : q = 1
  OBVIOUS
<1>1. /\ iq[<<t, 1>>] # <<>> /\ oq_room(t, 2) > 2 * max_task_chunk + 2
      /\ 1 \in 1 .. 2 /\ 2 \in 1 .. 2 /\ InRight(iq) /\ OutRight(oq) /\ ret \in [nodes -> Nat]
  <2>1. iq[<<t, 1>>] # <<>> /\ oq_room(t, 2) > 2 * max_task_chunk + 2
    BY MayRun
  <2>2. InRight(iq) /\ OutRight(oq) /\ ret \in [nodes -> Nat]
    BY DEF Safe, QueuesRight, Shapes
  <2>3. QED
    BY <2>1, <2>2
<1>2. /\ iq' = [iq EXCEPT ![<<t, 1>>] = Tail(@)]
      /\ oq' = [oq EXCEPT ![<<t, 2>>] = @ \o Told(m)]
      /\ ret' = ret /\ bitmap' = bitmap /\ fr' = fr /\ parked' = parked /\ seeding' = seeding
      /\ iq0' = iq0 /\ wire' = wire
  BY DEF T2, Told
<1> HIDE DEF m
<1>3. /\ m \in Inbox(1, t) /\ Flies(1, m) /\ InRight(iq')
      /\ \A s \in tiles, r \in 1 .. 2 : iq_room(s, r) >= 0 => iq_room(s, r)' >= 0
      /\ \A s \in tiles, r \in 1 .. 2 : \A x :
            x \in ToSet(iq[<<s, r>>]) => x \in ToSet(iq'[<<s, r>>]) \/ IsThat(q, m, r, x)
  BY <1>0, <1>1, <1>2, Taken DEF m
<1>4. m \in CutPieces
  BY <1>3 DEF Inbox, Messages
<1>5. /\ Told(m) \in Seq(Update) /\ Len(Told(m)) \in Nat /\ Len(Told(m)) <= max_task_chunk
      /\ \A e \in m.first .. m.last - 1 : HasEdges(edge_array[e]) =>
            \E x \in ToSet(Told(m)) : x \in Update /\ x.node = edge_array[e] /\ x.value = m.value + Weight(e)
  BY <1>4, ToldIs
<1>6. PICK v \in Seq(Messages(2)) : v = Told(m)
  BY <1>5 DEF Messages
<1>7. num_task_params[2] * Len(v) <= oq_room(t, 2)
  BY <1>4, <1>6, T2Fits
<1>8. /\ OutRight(oq')
      /\ \A s \in tiles, r \in 1 .. 2 : oq_room(s, r) >= 0 => oq_room(s, r)' >= 0
      /\ \A s \in tiles, r \in 1 .. 2 : \A x : x \in ToSet(oq[<<s, r>>]) => x \in ToSet(oq'[<<s, r>>])
      /\ \A x \in ToSet(v) : x \in ToSet(oq'[<<t, 2>>])
  <2>1. oq' = [oq EXCEPT ![<<t, 2>>] = @ \o v]
    BY <1>2, <1>6
  <2>2. QED
    BY <1>1, <1>7, <2>1, Put
<1>9. QueuesRight' /\ RoomsLeft'
  BY <1>2, <1>3, <1>8 DEF Safe, QueuesRight, RoomsLeft
<1>10. Safe'
  <2>1. /\ FrontierRight' /\ bitmap' \in [tiles -> [Blocks -> SUBSET nodes]] /\ fr' \in [tiles -> Rings]
        /\ ret' \in [nodes -> Nat] /\ seeding' \in [tiles -> BOOLEAN] /\ parked' \in [tiles -> Seq(Piece)]
        /\ iq0' \in [tiles -> Seq(Entries)]
    BY <1>2 DEF Safe, Shapes, FrontierRight
  <2>2. Work(iq0'[t], parked'[t], seeding'[t], Turns(t))
    BY <1>2, WorkStays
  <2>3. \A s \in tiles : s # t => parked'[s] = parked[s] /\ iq0'[s] = iq0[s] /\ seeding'[s] = seeding[s]
    BY <1>2
  <2>4. Turns(t) \in 0 .. EXPLORE
    BY TurnsAre
  <2>5. QED
    BY <1>9, <2>1, <2>2, <2>3, <2>4, AfterRun
<1>11. ASSUME NEW r \in 1 .. 2, NEW x, Flies(r, x) PROVE Flies(r, x)' \/ IsThat(q, m, r, x)
  <2>1. CASE \E s \in tiles : x \in ToSet(oq[<<s, r>>])
    BY <1>8, <2>1 DEF Flies
  <2>2. CASE \E s \in tiles : x \in ToSet(iq[<<s, r>>])
    <3>1. PICK s \in tiles : x \in ToSet(iq[<<s, r>>])
      BY <2>2
    <3>2. x \in ToSet(iq'[<<s, r>>]) \/ IsThat(q, m, r, x)
      BY <1>3, <3>1
    <3>3. QED
      BY <3>2 DEF Flies
  <2>3. CASE \E s, d \in tiles : x \in ToSet(wire[<<s, d, r>>])
    BY <1>2, <2>3 DEF Flies
  <2>4. QED
    BY <1>11, <2>1, <2>2, <2>3 DEF Flies
<1>12. ASSUME NEW u \in nodes, NEW e, Followable(u, e), Underway(u, e) PROVE Underway(u, e)'
  <2>1. CASE InFrontier(u) \/ InQueue(u) \/ InParked(u, e)
    BY <1>2, <2>1 DEF InFrontier, InQueue, InParked, Underway
  <2>2. CASE InUpdates(u, e)
    <3>1. PICK x : Flies(2, x) /\ Tells(x, edge_array[e], ret[u] + Weight(e))
      BY <2>2 DEF InUpdates
    <3>2. Flies(2, x)'
      BY <1>0, <1>1, <1>11, <3>1 DEF IsThat
    <3>3. InUpdates(u, e)'
      BY <1>2, <3>1, <3>2 DEF InUpdates
    <3>4. QED
      BY <3>3 DEF Underway
  <2>3. CASE InPieces(u, e)
    <3>1. PICK x : Flies(1, x) /\ Carries(x, e, ret[u])
      BY <2>3 DEF InPieces
    <3>2. CASE Flies(1, x)'
      BY <1>2, <3>1, <3>2 DEF InPieces, Underway
    <3>3. CASE x = m
      <4>1. PICK a \in Nat, b \in Nat, w \in Nat, y \in Nat :
               a = m.first /\ b = m.last /\ w = m.value /\ y = ret[u]
        BY <1>1, <1>4 DEF CutPieces, Piece
      <4>2. a <= e /\ e < b /\ w <= y /\ e \in Int /\ Weight(e) \in Nat
        <5>1. a <= e /\ e < b /\ w <= y
          BY <3>1, <3>3, <4>1 DEF Carries
        <5>2. e \in Int
          BY <1>12, EdgesOf DEF Followable
        <5>3. PICK c \in Nat : c = EdgeCount /\ b <= c /\ edges = 0 .. c - 1
          BY <1>4, <4>1, Constants DEF CutPieces
        <5>4. e \in edges
          BY <5>1, <5>2, <5>3
        <5>5. QED
          BY <5>1, <5>2, <5>4, OwnersAreTiles
      <4>3. e \in a .. b - 1 /\ HasEdges(edge_array[e])
        BY <1>12, <4>2 DEF Followable
      <4>4. PICK z \in ToSet(Told(m)) : z.node = edge_array[e] /\ z.value = w + Weight(e)
        BY <1>5, <4>1, <4>3
      <4>5. Tells(z, edge_array[e], y + Weight(e))
        BY <4>2, <4>4 DEF Tells
      <4>6. Flies(2, z)'
        BY <1>6, <1>8, <4>4 DEF Flies
      <4>7. InUpdates(u, e)'
        BY <1>2, <4>1, <4>5, <4>6 DEF InUpdates
      <4>8. QED
        BY <4>7 DEF Underway
    <3>4. QED
      BY <1>1, <1>11, <3>1, <3>2, <3>3 DEF IsThat
  <2>4. QED
    BY <1>12, <2>1, <2>2, <2>3 DEF Underway
<1>13. Keeps
  <2>1. \A u \in nodes : ret'[u] = ret[u] /\ ret'[u] <= ret[u]
    BY <1>1, <1>2
  <2>2. QED
    BY <1>12, <2>1 DEF Keeps
<1>14. QED
  BY <1>10, <1>13

LEMMA Exchanged ==
  ASSUME NEW S, NEW K, NEW f \in [S -> K], NEW t \in S, NEW x \in K
  PROVE  /\ [f EXCEPT ![t] = x] \in [S -> K] /\ [f EXCEPT ![t] = x][t] = x
         /\ \A s \in S : s # t => [f EXCEPT ![t] = x][s] = f[s]
  OBVIOUS

(* A node taken into the frontier of its tile.                             *)
LEMMA FrontierGrows ==
  ASSUME Safe, NEW t \in tiles, NEW n \in nodes, OwnerOfNode(n) = t,
         fr' = [fr EXCEPT ![t] = add_to_frontier_list(t, Block(n))],
         bitmap' = [bitmap EXCEPT ![t][Block(n)] = @ \union {n}]
  PROVE  /\ FrontierRight' /\ bitmap' \in [tiles -> [Blocks -> SUBSET nodes]] /\ fr' \in [tiles -> Rings]
         /\ n \in bitmap'[t][Block(n)]
         /\ \A s \in tiles : \A b \in Blocks : bitmap[s][b] \subseteq bitmap'[s][b]
<1>1. /\ fr \in [tiles -> Rings] /\ bitmap \in [tiles -> [Blocks -> SUBSET nodes]]
      /\ \A s \in tiles : Own(s, bitmap[s]) /\ Agrees(fr[s], bitmap[s])
  BY DEF Safe, Shapes, FrontierRight
<1>2. PICK c \in Blocks : c = Block(n)
  BY RingSizes
<1>3. PICK B \in [Blocks -> SUBSET nodes] : B = bitmap[t]
  BY <1>1
<1>4. PICK f \in Rings : f = fr[t]
  BY <1>1
<1>5. PICK g : g = IF B[c] # {} THEN f ELSE Added(f, c)
  OBVIOUS
<1>6. g = add_to_frontier_list(t, Block(n))
  BY <1>2, <1>3, <1>4, <1>5 DEF add_to_frontier_list, Added
<1>7. PICK C : C = [B EXCEPT ![c] = @ \union {n}]
  OBVIOUS
<1>8. g \in Rings /\ Agrees(g, C)
  <2>1. Agrees(f, B)
    BY <1>1, <1>3, <1>4
  <2>2. g \in Rings /\ Agrees(g, [B EXCEPT ![c] = @ \union {n}])
    BY ONLY f \in Rings, B \in [Blocks -> SUBSET nodes], c \in Blocks, n \in nodes, <1>5, <2>1, AddAgrees
  <2>3. QED
    BY <1>7, <2>2
<1>9. /\ C \in [Blocks -> SUBSET nodes] /\ C[c] = B[c] \union {n}
      /\ \A b \in Blocks : b # c => C[b] = B[b]
  BY <1>7
<1>10. Own(t, C)
  <2>1. Own(t, B)
    BY <1>1, <1>3
  <2>2. QED
    BY <1>2, <1>9, <2>1 DEF Own
<1>11. bitmap' = [bitmap EXCEPT ![t] = C] /\ fr' = [fr EXCEPT ![t] = g]
  BY <1>2, <1>3, <1>6, <1>7
<1>12. /\ bitmap' \in [tiles -> [Blocks -> SUBSET nodes]] /\ fr' \in [tiles -> Rings]
       /\ bitmap'[t] = C /\ fr'[t] = g
       /\ \A s \in tiles : s # t => bitmap'[s] = bitmap[s] /\ fr'[s] = fr[s]
  <2>1. C \in [Blocks -> SUBSET nodes] /\ bitmap \in [tiles -> [Blocks -> SUBSET nodes]]
    BY <1>1, <1>9
  <2>2. /\ bitmap' \in [tiles -> [Blocks -> SUBSET nodes]] /\ bitmap'[t] = C
        /\ \A s \in tiles : s # t => bitmap'[s] = bitmap[s]
    BY ONLY <1>11, <2>1, t \in tiles, Exchanged
  <2>3. fr' \in [tiles -> Rings] /\ fr'[t] = g /\ \A s \in tiles : s # t => fr'[s] = fr[s]
    BY <1>1, <1>8, <1>11
  <2>4. QED
    BY <2>2, <2>3
<1>13. ASSUME NEW s \in tiles PROVE Own(s, bitmap'[s]) /\ Agrees(fr'[s], bitmap'[s])
  <2>1. CASE s = t
    BY <1>8, <1>10, <1>12, <2>1
  <2>2. CASE s # t
    BY <1>1, <1>12, <2>2
  <2>3. QED
    BY <2>1, <2>2
<1>14. FrontierRight'
  BY <1>13 DEF FrontierRight
<1>15. n \in bitmap'[t][Block(n)]
  BY <1>2, <1>9, <1>12
<1>16. ASSUME NEW s \in tiles, NEW b \in Blocks PROVE bitmap[s][b] \subseteq bitmap'[s][b]
  BY <1>3, <1>9, <1>12
<1>17. QED
  BY <1>12, <1>14, <1>15, <1>16

LEMMA T3Step ==
  ASSUME Safe, NEW t \in tiles, runnable(t, 2), T3(t), UNCHANGED wire,
         epoch_begin' = [epoch_begin EXCEPT ![t] = Turns(t)]
  PROVE  Safe' /\ Keeps
<1> DEFINE m == Head(iq[<<t, 2>>])
<1>0. PICK q \in 1 .. 2 : q = 2
  OBVIOUS
<1>1. /\ iq[<<t, 2>>] # <<>> /\ 1 \in 1 .. 2 /\ 2 \in 1 .. 2
      /\ InRight(iq) /\ OutRight(oq) /\ ret \in [nodes -> Nat]
  <2>1. iq[<<t, 2>>] # <<>>
    BY MayRun
  <2>2. InRight(iq) /\ OutRight(oq) /\ ret \in [nodes -> Nat]
    BY DEF Safe, QueuesRight, Shapes
  <2>3. QED
    BY <2>1, <2>2
<1>2. /\ iq' = [iq EXCEPT ![<<t, 2>>] = Tail(@)]
      /\ parked' = parked /\ seeding' = seeding /\ iq0' = iq0 /\ oq' = oq /\ wire' = wire
  BY DEF T3
<1>3. \/ /\ m.value < ret[m.node]
         /\ ret' = [ret EXCEPT ![m.node] = m.value]
         /\ fr' = [fr EXCEPT ![t] = add_to_frontier_list(t, Block(m.node))]
         /\ bitmap' = [bitmap EXCEPT ![t][Block(m.node)] = @ \union {m.node}]
      \/ ~(m.value < ret[m.node]) /\ UNCHANGED <<ret, fr, bitmap>>
  BY DEF T3
<1>4. /\ m \in Inbox(2, t) /\ InRight(iq')
      /\ \A s \in tiles, r \in 1 .. 2 : iq_room(s, r) >= 0 => iq_room(s, r)' >= 0
      /\ \A s \in tiles, r \in 1 .. 2 : \A x :
            x \in ToSet(iq[<<s, r>>]) => x \in ToSet(iq'[<<s, r>>]) \/ IsThat(q, m, r, x)
  BY <1>0, <1>1, <1>2, Taken
<1> HIDE DEF m
<1>5. PICK n \in nodes, v \in Nat : n = m.node /\ v = m.value /\ OwnerOfNode(n) = t
  BY <1>4 DEF Inbox, Messages, Update, Owner
<1>6. QueuesRight' /\ RoomsLeft'
  BY <1>2, <1>4 DEF Safe, QueuesRight, RoomsLeft, oq_room
<1>7. /\ ret' \in [nodes -> Nat] /\ ret'[n] <= v /\ ret'[n] <= ret[n]
      /\ \A u \in nodes : u # n => ret'[u] = ret[u]
  <2>1. CASE v < ret[n] /\ ret' = [ret EXCEPT ![n] = v]
    BY <1>1, <2>1
  <2>2. CASE ~(v < ret[n]) /\ ret' = ret
    BY <1>1, <2>2
  <2>3. QED
    BY <1>3, <1>5, <2>1, <2>2
<1>8. /\ FrontierRight' /\ bitmap' \in [tiles -> [Blocks -> SUBSET nodes]] /\ fr' \in [tiles -> Rings]
      /\ ret'[n] = ret[n] \/ n \in bitmap'[t][Block(n)]
      /\ \A s \in tiles : \A b \in Blocks : bitmap[s][b] \subseteq bitmap'[s][b]
  <2>1. CASE /\ fr' = [fr EXCEPT ![t] = add_to_frontier_list(t, Block(m.node))]
             /\ bitmap' = [bitmap EXCEPT ![t][Block(m.node)] = @ \union {m.node}]
    <3>1. /\ fr' = [fr EXCEPT ![t] = add_to_frontier_list(t, Block(n))]
          /\ bitmap' = [bitmap EXCEPT ![t][Block(n)] = @ \union {n}]
      BY <1>5, <2>1
    <3>2. QED
      BY <1>5, <3>1, FrontierGrows
  <2>2. CASE UNCHANGED <<ret, fr, bitmap>>
    BY <2>2 DEF Safe, Shapes, FrontierRight
  <2>3. QED
    BY <1>3, <2>1, <2>2
<1>9. Safe'
  <2>1. seeding' \in [tiles -> BOOLEAN] /\ parked' \in [tiles -> Seq(Piece)] /\ iq0' \in [tiles -> Seq(Entries)]
    BY <1>2 DEF Safe, Shapes
  <2>2. Work(iq0'[t], parked'[t], seeding'[t], Turns(t))
    BY <1>2, WorkStays
  <2>3. \A s \in tiles : s # t => parked'[s] = parked[s] /\ iq0'[s] = iq0[s] /\ seeding'[s] = seeding[s]
    BY <1>2
  <2>4. Turns(t) \in 0 .. EXPLORE
    BY TurnsAre
  <2>5. QED
    BY <1>6, <1>7, <1>8, <2>1, <2>2, <2>3, <2>4, AfterRun
<1>10. ASSUME NEW r \in 1 .. 2, NEW x, Flies(r, x) PROVE Flies(r, x)' \/ IsThat(q, m, r, x)
  <2>1. CASE \E s \in tiles : x \in ToSet(oq[<<s, r>>])
    BY <1>2, <2>1 DEF Flies
  <2>2. CASE \E s \in tiles : x \in ToSet(iq[<<s, r>>])
    <3>1. PICK s \in tiles : x \in ToSet(iq[<<s, r>>])
      BY <2>2
    <3>2. x \in ToSet(iq'[<<s, r>>]) \/ IsThat(q, m, r, x)
      BY <1>4, <3>1
    <3>3. QED
      BY <3>2 DEF Flies
  <2>3. CASE \E s, d \in tiles : x \in ToSet(wire[<<s, d, r>>])
    BY <1>2, <2>3 DEF Flies
  <2>4. QED
    BY <1>10, <2>1, <2>2, <2>3 DEF Flies
<1>11. ASSUME NEW u \in nodes, NEW e, Followable(u, e), ret'[u] = ret[u], Underway(u, e)
       PROVE  Underway(u, e)' \/ ret'[edge_array[e]] <= ret'[u] + Weight(e)
  <2>1. CASE InFrontier(u)
    <3>1. OwnerOfNode(u) \in tiles /\ Block(u) \in Blocks
      BY OwnersAreTiles, RingSizes
    <3>2. u \in bitmap'[OwnerOfNode(u)][Block(u)]
      BY <1>8, <2>1, <3>1 DEF InFrontier
    <3>3. QED
      BY <3>2 DEF InFrontier, Underway
  <2>2. CASE InQueue(u) \/ InParked(u, e)
    BY <1>2, <1>11, <2>2 DEF InQueue, InParked, Underway
  <2>3. CASE InPieces(u, e)
    <3>1. PICK x : Flies(1, x) /\ Carries(x, e, ret[u])
      BY <2>3 DEF InPieces
    <3>2. Flies(1, x)'
      BY <1>0, <1>1, <1>10, <3>1 DEF IsThat
    <3>3. InPieces(u, e)'
      BY <1>11, <3>1, <3>2 DEF InPieces
    <3>4. QED
      BY <3>3 DEF Underway
  <2>4. CASE InUpdates(u, e)
    <3>1. PICK x : Flies(2, x) /\ Tells(x, edge_array[e], ret[u] + Weight(e))
      BY <2>4 DEF InUpdates
    <3>2. CASE Flies(2, x)'
      BY <1>11, <3>1, <3>2 DEF InUpdates, Underway
    <3>3. CASE x = m
      <4>1. e \in edges
        <5>1. e \in Int /\ node_array[u] <= e /\ e < node_array[u + 1]
          BY <1>11, EdgesOf DEF Followable
        <5>2. PICK a \in Nat, b \in Nat, c \in Nat :
                 a = node_array[u] /\ b = node_array[u + 1] /\ c = EdgeCount /\ b <= c /\ edges = 0 .. c - 1
          BY Constants, EdgesOf
        <5>3. QED
          BY <5>1, <5>2
      <4>2. PICK k \in Nat : k = ret[u] + Weight(e)
        BY <1>1, <4>1, OwnersAreTiles
      <4>3. n = edge_array[e] /\ v <= k
        BY <1>5, <3>1, <3>3, <4>2 DEF Tells
      <4>4. PICK y \in Nat : y = ret'[n] /\ y <= v
        BY <1>7
      <4>5. y <= k
        BY <4>3, <4>4
      <4>6. QED
        BY <1>11, <4>2, <4>3, <4>4, <4>5
    <3>4. QED
      BY <1>1, <1>10, <3>1, <3>2, <3>3 DEF IsThat
  <2>5. QED
    BY <1>11, <2>1, <2>2, <2>3, <2>4 DEF Underway
<1>12. ASSUME NEW u \in nodes, NEW e, ret'[u] # ret[u] PROVE Underway(u, e)'
  <2>1. u = n
    BY <1>7, <1>12
  <2>2. u \in bitmap'[t][Block(u)] /\ OwnerOfNode(u) = t
    BY <1>5, <1>8, <1>12, <2>1
  <2>3. QED
    BY <2>2 DEF InFrontier, Underway
<1>13. \A u \in nodes : ret'[u] <= ret[u]
  BY <1>1, <1>7
<1>14. Keeps
  BY <1>11, <1>12, <1>13 DEF Keeps
<1>15. QED
  BY <1>9, <1>14

(* The entries that T4 puts in the queue of T1.                            *)
Turn(t, n) == Cardinality(Ahead([i \in DOMAIN Listed(t) |-> bitmap[t][Listed(t)[i]]], n))
Going(t) == {n \in UNION {bitmap[t][b] : b \in ToSet(Listed(t))} : Turn(t, n) < iq0_size - Len(iq0[t])}
Arriving(t) == [i \in 1 .. Cardinality(Going(t)) |-> Node(CHOOSE n \in Going(t) : Turn(t, n) = i - 1)]

LEMMA GoingAre ==
  ASSUME NEW t, NEW room, room = iq0_size - Len(iq0[t])
  PROVE  /\ Listed(t) = Around(fr[t])
         /\ \A n : Turn(t, n) = Rank(fr[t], bitmap[t], n)
         /\ Going(t) = Moved(fr[t], bitmap[t], room)
<1>1. Listed(t) = Around(fr[t])
  BY DEF Listed, frontier_occ, Around, Occupied
<1>2. \A n : Turn(t, n) = Rank(fr[t], bitmap[t], n)
  BY <1>1 DEF Turn, Rank, Filled
<1>3. Going(t) = Moved(fr[t], bitmap[t], room)
  BY <1>1, <1>2 DEF Going, Moved, Waiting
<1>4. QED
  BY <1>1, <1>2, <1>3

LEMMA ArrivingAre ==
  ASSUME NEW t, fr[t] \in Rings, bitmap[t] \in [Blocks -> SUBSET nodes],
         Agrees(fr[t], bitmap[t]), InPlace(bitmap[t]), NEW room \in Nat, room = iq0_size - Len(iq0[t])
  PROVE  /\ Arriving(t) \in Seq(NodeEntries)
         /\ Len(Arriving(t)) \in Nat /\ Len(Arriving(t)) <= room
         /\ \A u \in Moved(fr[t], bitmap[t], room) : \E i \in 1 .. Len(Arriving(t)) : Arriving(t)[i] = Node(u)
<1> DEFINE M == Going(t)
           s == Arriving(t)
           rank(n) == Turn(t, n)
<1>0. PICK f \in Rings, B \in [Blocks -> SUBSET nodes] : f = fr[t] /\ B = bitmap[t] /\ Agrees(f, B) /\ InPlace(B)
  OBVIOUS
<1>1. MovesInTurn(f, B, room) /\ M = Moved(f, B, room) /\ \A n : rank(n) = Rank(f, B, n)
  <2>1. MovesInTurn(f, B, room)
    BY <1>0, MovedAre
  <2>2. QED
    BY <1>0, <2>1, GoingAre
<1>2. PICK c \in Nat : c = Cardinality(M) /\ c <= room
  BY <1>1 DEF MovesInTurn
<1>3. /\ \A i \in 1 .. c : \E n \in M : rank(n) = i - 1
      /\ \A n \in M : rank(n) \in Nat /\ rank(n) + 1 \in 1 .. c
      /\ \A m, n \in M : rank(m) = rank(n) => m = n
  BY <1>1, <1>2 DEF MovesInTurn
<1>4. M \subseteq nodes
  <2>1. \A n \in M : \E b \in ToSet(Around(f)) : n \in B[b]
    BY <1>1 DEF Moved, Waiting
  <2>2. ToSet(Around(f)) \subseteq Blocks
    BY <1>0 DEF Agrees
  <2>3. QED
    BY <2>1, <2>2
<1>5. s = [i \in 1 .. c |-> Node(CHOOSE n \in M : rank(n) = i - 1)]
  BY <1>2 DEF Arriving
<1> HIDE DEF M, s, rank
<1>6. ASSUME NEW i \in 1 .. c
      PROVE  (CHOOSE n \in M : rank(n) = i - 1) \in M /\ rank(CHOOSE n \in M : rank(n) = i - 1) = i - 1
  BY <1>3
<1>7. s \in [1 .. c -> NodeEntries]
  <2>1. ASSUME NEW i \in 1 .. c PROVE Node(CHOOSE n \in M : rank(n) = i - 1) \in NodeEntries
    BY <1>4, <1>6, EntriesAre
  <2>2. QED
    BY <1>5, <2>1
<1>8. s \in Seq(NodeEntries) /\ Len(s) = c
  BY <1>7, LenProperties, SeqDef
<1>9. ASSUME NEW u \in M PROVE \E i \in 1 .. c : s[i] = Node(u)
  <2>1. PICK i \in 1 .. c : i = rank(u) + 1
    BY <1>3
  <2>2. rank(CHOOSE n \in M : rank(n) = i - 1) = i - 1 /\ (CHOOSE n \in M : rank(n) = i - 1) \in M
    BY <1>6
  <2>3. rank(u) = i - 1
    <3>1. PICK k \in Nat : k = rank(u)
      BY <1>3
    <3>2. QED
      BY <2>1, <3>1
  <2>4. u = (CHOOSE n \in M : rank(n) = i - 1)
    BY <1>3, <2>2, <2>3
  <2>5. s[i] = Node(u)
    BY <1>5, <2>4
  <2>6. QED
    BY <2>5
<1>10. QED
  BY <1>0, <1>1, <1>2, <1>8, <1>9 DEF s, M

(* T4 in the terms of the lemmas about the circular list.                  *)
LEMMA T4Is ==
  ASSUME NEW t \in tiles, T4(t), DOMAIN bitmap[t] = Blocks, NEW room, room = iq0_size - Len(iq0[t])
  PROVE  /\ iq0' = [iq0 EXCEPT ![t] = @ \o Arriving(t)]
         /\ bitmap' = [bitmap EXCEPT ![t] = Remaining(fr[t], bitmap[t], room)]
         /\ fr' = [fr EXCEPT ![t] = Dropped(fr[t], Cardinality(Emptied(fr[t], bitmap[t], room)))]
         /\ UNCHANGED <<ret, parked, seeding, iq, oq>>
<1>1. Listed(t) = Around(fr[t]) /\ Going(t) = Moved(fr[t], bitmap[t], room)
  BY GoingAre
<1>2. /\ iq0' = [iq0 EXCEPT ![t] = @ \o Arriving(t)]
      /\ bitmap' = [bitmap EXCEPT ![t] = Left(t, Going(t))]
      /\ fr' = [fr EXCEPT ![t].tail = (@ + Done(t, Listed(t), Left(t, Going(t)))) % fr_head_offset]
      /\ UNCHANGED <<ret, parked, seeding, iq, oq>>
  BY DEF T4, Arriving, Going, Turn
<1>3. Left(t, Going(t)) = Remaining(fr[t], bitmap[t], room)
  BY <1>1 DEF Left, Remaining
<1>4. Done(t, Listed(t), Left(t, Going(t))) = Cardinality(Emptied(fr[t], bitmap[t], room))
  BY <1>1, <1>3 DEF Done, Emptied
<1>5. QED
  BY <1>2, <1>3, <1>4 DEF Dropped

LEMMA FrontierShrinks ==
  ASSUME Safe, NEW t \in tiles, NEW room \in Nat,
         bitmap' = [bitmap EXCEPT ![t] = Remaining(fr[t], bitmap[t], room)],
         fr' = [fr EXCEPT ![t] = Dropped(fr[t], Cardinality(Emptied(fr[t], bitmap[t], room)))]
  PROVE  /\ FrontierRight' /\ bitmap' \in [tiles -> [Blocks -> SUBSET nodes]] /\ fr' \in [tiles -> Rings]
         /\ \A s \in tiles : s # t => bitmap'[s] = bitmap[s]
         /\ Agrees(fr[t], bitmap[t]) /\ InPlace(bitmap[t])
         /\ \A b \in Blocks : \A u \in bitmap[t][b] : u \in bitmap'[t][b] \/ u \in Moved(fr[t], bitmap[t], room)
<1>1. /\ fr \in [tiles -> Rings] /\ bitmap \in [tiles -> [Blocks -> SUBSET nodes]]
      /\ \A s \in tiles : Own(s, bitmap[s]) /\ Agrees(fr[s], bitmap[s])
  BY DEF Safe, Shapes, FrontierRight
<1>2. PICK B \in [Blocks -> SUBSET nodes], f \in Rings : B = bitmap[t] /\ f = fr[t]
  BY <1>1
<1>3. Agrees(f, B) /\ InPlace(B) /\ Own(t, B)
  BY <1>1, <1>2 DEF Own, InPlace
<1>4. PICK C : C = Remaining(f, B, room)
  OBVIOUS
<1>5. PICK d : d = Cardinality(Emptied(f, B, room))
  OBVIOUS
<1>6. Dropped(f, d) \in Rings /\ Agrees(Dropped(f, d), C)
  BY <1>3, <1>4, <1>5, DropAgrees
<1>7. /\ C \in [Blocks -> SUBSET nodes]
      /\ \A b \in Blocks : C[b] = B[b] \ Moved(f, B, room)
  BY <1>4 DEF Remaining
<1>8. Own(t, C)
  BY <1>3, <1>7 DEF Own
<1>9. bitmap' = [bitmap EXCEPT ![t] = C] /\ fr' = [fr EXCEPT ![t] = Dropped(f, d)]
  BY <1>2, <1>4, <1>5
<1>10. /\ bitmap' \in [tiles -> [Blocks -> SUBSET nodes]] /\ bitmap'[t] = C
       /\ \A s \in tiles : s # t => bitmap'[s] = bitmap[s]
  BY ONLY <1>1, <1>7, <1>9, t \in tiles, Exchanged
<1>11. fr' \in [tiles -> Rings] /\ fr'[t] = Dropped(f, d) /\ \A s \in tiles : s # t => fr'[s] = fr[s]
  BY ONLY <1>1, <1>6, <1>9, t \in tiles, Exchanged
<1>12. ASSUME NEW s \in tiles PROVE Own(s, bitmap'[s]) /\ Agrees(fr'[s], bitmap'[s])
  <2>1. CASE s = t
    BY <1>6, <1>8, <1>10, <1>11, <2>1
  <2>2. CASE s # t
    BY <1>1, <1>10, <1>11, <2>2
  <2>3. QED
    BY <2>1, <2>2
<1>13. FrontierRight'
  BY <1>12 DEF FrontierRight
<1>14. \A b \in Blocks : \A u \in bitmap[t][b] : u \in bitmap'[t][b] \/ u \in Moved(fr[t], bitmap[t], room)
  BY <1>2, <1>7, <1>10
<1>15. QED
  BY <1>2, <1>3, <1>10, <1>11, <1>13, <1>14

(* A tile that still goes through its nodes does not explore its frontier. *)
LEMMA SeedsFirst ==
  ASSUME Safe, NEW t \in tiles, ExploreFrontier(t)
  PROVE  seeding[t] = FALSE
<1>1. seeding[t] \in BOOLEAN /\ Work(iq0[t], parked[t], seeding[t], epoch_begin[t])
  BY DEF Safe, Shapes, WorkRight
<1>2. Turns(t) # 0
  <2>1. Turns(t) >= EXPLORE /\ EXPLORE \in Nat \ {0} /\ Turns(t) \in 0 .. EXPLORE
    BY Constants, TurnsAre DEF ExploreFrontier, frontier_active
  <2>2. QED
    BY <2>1
<1>3. ASSUME seeding[t] PROVE FALSE
  <2>1. iq0[t] # <<>> /\ (GLOBAL_BARRIER = 1 => epoch_begin[t] = 0)
    <3>1. Len(iq0[t]) = 1 /\ (GLOBAL_BARRIER = 1 => epoch_begin[t] = 0)
      BY <1>1, <1>3 DEF Work
    <3>2. Len(<<>>) = 0
      OBVIOUS
    <3>3. iq0[t] # <<>>
      BY ONLY <3>1, <3>2
    <3>4. QED
      BY <3>1, <3>3
  <2>2. QED
    BY <1>2, <2>1, TurnsAre
<1>4. QED
  BY <1>1, <1>3

LEMMA ExploreStep ==
  ASSUME Safe, NEW t \in tiles, ExploreFrontier(t), UNCHANGED wire
  PROVE  Safe' /\ Keeps
<1>1. /\ fr[t] \in Rings /\ bitmap[t] \in [Blocks -> SUBSET nodes] /\ parked[t] \in Seq(Piece)
      /\ iq0 \in [tiles -> Seq(Entries)] /\ seeding[t] \in BOOLEAN /\ ret \in [nodes -> Nat]
      /\ Work(iq0[t], parked[t], seeding[t], epoch_begin[t])
  BY DEF Safe, Shapes, WorkRight
<1>2. seeding[t] = FALSE
  BY SeedsFirst
<1>3. iq0[t] \in Seq(NodeEntries) /\ Len(iq0[t]) <= iq0_size
  BY <1>1, <1>2 DEF Work
<1>4. PICK k \in Nat, z \in Nat, room \in Nat : k = Len(iq0[t]) /\ z = iq0_size /\ room = z - k
  BY <1>3, Constants, Members
<1>5. /\ iq0' = [iq0 EXCEPT ![t] = @ \o Arriving(t)]
      /\ bitmap' = [bitmap EXCEPT ![t] = Remaining(fr[t], bitmap[t], room)]
      /\ fr' = [fr EXCEPT ![t] = Dropped(fr[t], Cardinality(Emptied(fr[t], bitmap[t], room)))]
      /\ ret' = ret /\ parked' = parked /\ seeding' = seeding /\ iq' = iq /\ oq' = oq
  <2>1. T4(t) /\ DOMAIN bitmap[t] = Blocks
    BY <1>1 DEF ExploreFrontier
  <2>2. QED
    BY <1>4, <2>1, T4Is
<1>6. /\ FrontierRight' /\ bitmap' \in [tiles -> [Blocks -> SUBSET nodes]] /\ fr' \in [tiles -> Rings]
      /\ \A s \in tiles : s # t => bitmap'[s] = bitmap[s]
      /\ Agrees(fr[t], bitmap[t]) /\ InPlace(bitmap[t])
      /\ \A b \in Blocks : \A u \in bitmap[t][b] : u \in bitmap'[t][b] \/ u \in Moved(fr[t], bitmap[t], room)
  BY <1>5, FrontierShrinks
<1>7. PICK v : v = Arriving(t)
  OBVIOUS
<1>8. /\ v \in Seq(NodeEntries) /\ Len(v) \in Nat /\ Len(v) <= room
      /\ \A u \in Moved(fr[t], bitmap[t], room) : \E i \in 1 .. Len(v) : v[i] = Node(u)
  BY <1>1, <1>4, <1>6, <1>7, ArrivingAre
<1>9. PICK w \in Seq(NodeEntries) : w = iq0[t]
  BY <1>3
<1>10. /\ w \o v \in Seq(NodeEntries) /\ Len(w \o v) = Len(w) + Len(v)
       /\ \A i \in 1 .. Len(w) : (w \o v)[i] = w[i]
       /\ \A i \in 1 .. Len(v) : (w \o v)[Len(w) + i] = v[i]
  BY ONLY w \in Seq(NodeEntries), <1>8, Joined
<1>11. PICK p \in Seq(NodeEntries) : p = w \o v
  BY <1>10
<1>12. PICK l \in Nat : l = Len(v) /\ Len(p) = k + l /\ k + l <= z /\ k = Len(w)
  BY <1>4, <1>8, <1>9, <1>10, <1>11
<1>13. p \in Seq(Entries)
  BY EntriesAre, SeqMonotonic
<1>14. /\ iq0' \in [tiles -> Seq(Entries)] /\ iq0'[t] = p
       /\ \A s \in tiles : s # t => iq0'[s] = iq0[s]
  <2>1. iq0' = [iq0 EXCEPT ![t] = p]
    BY <1>5, <1>7, <1>9, <1>11
  <2>2. QED
    BY ONLY <1>1, <1>13, <2>1, t \in tiles, Exchanged
<1>15. Work(p, parked[t], FALSE, 0)
  <2>1. Len(p) <= iq0_size
    BY <1>4, <1>12
  <2>2. ASSUME w # <<>> PROVE p # <<>>
    <3>1. k # 0
      BY <1>12, <2>2, EmptySeq
    <3>2. Len(p) # 0
      BY <1>12, <3>1
    <3>3. QED
      BY <3>2
  <2>3. QED
    BY <1>1, <1>9, <2>1, <2>2 DEF Work
<1>16. QueuesRight' /\ RoomsLeft' /\ \A r \in 1 .. 2 : \A x : Flies(r, x) => Flies(r, x)'
  BY <1>5 DEF Safe, QueuesRight, RoomsLeft, oq_room, iq_room, Flies
<1>17. Safe'
  <2>1. /\ ret' \in [nodes -> Nat] /\ parked' \in [tiles -> Seq(Piece)] /\ seeding' \in [tiles -> BOOLEAN]
        /\ \A s \in tiles : s # t => parked'[s] = parked[s] /\ iq0'[s] = iq0[s] /\ seeding'[s] = seeding[s]
    BY <1>5, <1>14 DEF Safe, Shapes
  <2>2. 0 \in 0 .. EXPLORE /\ epoch_begin' = [epoch_begin EXCEPT ![t] = 0]
    BY Constants DEF ExploreFrontier
  <2>3. Work(iq0'[t], parked'[t], seeding'[t], 0)
    BY <1>2, <1>5, <1>14, <1>15
  <2>4. QED
    BY <1>6, <1>14, <1>16, <2>1, <2>2, <2>3, AfterRun
<1>18. ASSUME NEW u \in nodes, NEW e, Underway(u, e) PROVE Underway(u, e)'
  <2>1. ret'[u] = ret[u] /\ OwnerOfNode(u) \in tiles /\ Block(u) \in Blocks
    BY <1>5, OwnersAreTiles, RingSizes
  <2>2. CASE InParked(u, e)
    BY <1>5, <2>2 DEF InParked, Underway
  <2>3. CASE InPieces(u, e) \/ InUpdates(u, e)
    BY <1>16, <2>1, <2>3, FlyingKeeps DEF Underway
  <2>4. CASE InQueue(u)
    <3>1. CASE OwnerOfNode(u) # t
      BY <1>5, <1>14, <2>1, <2>4, <3>1 DEF InQueue, Underway
    <3>2. CASE OwnerOfNode(u) = t
      <4>1. PICK i \in 1 .. k : w[i] = Node(u) /\ (i > 1 \/ parked[t] = <<>>)
        BY <1>4, <1>9, <2>4, <3>2 DEF InQueue
      <4>2. p[i] = Node(u) /\ i \in 1 .. k + l
        BY <1>10, <1>11, <1>12, <4>1
      <4>3. \E j \in 1 .. Len(iq0'[t]) : iq0'[t][j] = Node(u) /\ (j > 1 \/ parked'[t] = <<>>)
        BY <1>5, <1>12, <1>14, <4>1, <4>2
      <4>4. InQueue(u)'
        BY <3>2, <4>3 DEF InQueue, Node
      <4>5. QED
        BY <4>4 DEF Underway
    <3>3. QED
      BY <3>1, <3>2
  <2>5. CASE InFrontier(u)
    <3>1. CASE OwnerOfNode(u) # t
      BY <1>6, <2>1, <2>5, <3>1 DEF InFrontier, Underway
    <3>2. CASE OwnerOfNode(u) = t /\ u \in bitmap'[t][Block(u)]
      BY <3>2 DEF InFrontier, Underway
    <3>3. CASE OwnerOfNode(u) = t /\ u \in Moved(fr[t], bitmap[t], room)
      <4>1. PICK i \in 1 .. l : v[i] = Node(u)
        BY <1>8, <1>12, <3>3
      <4>2. p[k + i] = Node(u)
        BY <1>10, <1>11, <1>12, <4>1
      <4>3. k + i \in 1 .. k + l /\ (k = 0 \/ k + i > 1)
        OBVIOUS
      <4>4. k = 0 => parked[t] = <<>>
        <5>1. k = 0 => iq0[t] = <<>>
          BY <1>9, <1>12, EmptySeq
        <5>2. QED
          BY <1>1, <5>1 DEF Work
      <4>5. \E j \in 1 .. Len(iq0'[t]) : iq0'[t][j] = Node(u) /\ (j > 1 \/ parked'[t] = <<>>)
        BY <1>5, <1>12, <1>14, <4>2, <4>3, <4>4
      <4>6. InQueue(u)'
        BY <3>3, <4>5 DEF InQueue, Node
      <4>7. QED
        BY <4>6 DEF Underway
    <3>4. QED
      BY <1>6, <2>1, <2>5, <3>1, <3>2, <3>3 DEF InFrontier
  <2>6. QED
    BY <1>18, <2>2, <2>3, <2>4, <2>5 DEF Underway
<1>19. Keeps
  <2>1. \A u \in nodes : ret'[u] = ret[u] /\ ret'[u] <= ret[u]
    BY <1>1, <1>5
  <2>2. QED
    BY <1>18, <2>1 DEF Keeps
<1>20. QED
  BY <1>17, <1>19
-----------------------------------------------------------------------------
(* Steps that leave the nodes, the frontier and the queue of T1 alone.     *)
LEMMA QuietKeeps ==
  ASSUME Safe, ret' = ret, bitmap' = bitmap, parked' = parked, iq0' = iq0,
         \A r \in 1 .. 2 : \A x : Flies(r, x) => Flies(r, x)'
  PROVE  Keeps
<1>1. \A u \in nodes : ret'[u] = ret[u] /\ ret'[u] <= ret[u]
  BY DEF Safe, Shapes
<1>2. ASSUME NEW u \in nodes, NEW e, Underway(u, e) PROVE Underway(u, e)'
  <2>1. CASE InFrontier(u)
    BY <2>1 DEF InFrontier, Underway
  <2>2. CASE InQueue(u)
    BY <2>2 DEF InQueue, Underway
  <2>3. CASE InParked(u, e)
    BY <2>3 DEF InParked, Underway
  <2>4. CASE InPieces(u, e) \/ InUpdates(u, e)
    BY <1>1, <2>4, FlyingKeeps DEF Underway
  <2>5. QED
    BY <1>2, <2>1, <2>2, <2>3, <2>4 DEF Underway
<1>3. QED
  BY <1>1, <1>2 DEF Keeps

LEMMA IdleStep ==
  ASSUME Safe, NEW t \in tiles, Idle(t), UNCHANGED wire
  PROVE  Safe' /\ Keeps
<1>1. /\ ret' = ret /\ bitmap' = bitmap /\ fr' = fr /\ parked' = parked /\ seeding' = seeding
      /\ iq0' = iq0 /\ iq' = iq /\ oq' = oq /\ wire' = wire
      /\ epoch_begin' = [epoch_begin EXCEPT ![t] = Turns(t)]
  BY DEF Idle
<1>2. QueuesRight' /\ RoomsLeft' /\ \A r \in 1 .. 2 : \A x : Flies(r, x) => Flies(r, x)'
  BY <1>1 DEF Safe, QueuesRight, RoomsLeft, oq_room, iq_room, Flies
<1>3. Keeps
  BY <1>1, <1>2, QuietKeeps
<1>4. /\ FrontierRight' /\ bitmap' \in [tiles -> [Blocks -> SUBSET nodes]] /\ fr' \in [tiles -> Rings]
      /\ ret' \in [nodes -> Nat] /\ seeding' \in [tiles -> BOOLEAN] /\ parked' \in [tiles -> Seq(Piece)]
      /\ iq0' \in [tiles -> Seq(Entries)]
  BY <1>1 DEF Safe, Shapes, FrontierRight
<1>5. Work(iq0'[t], parked'[t], seeding'[t], Turns(t))
  BY <1>1, WorkStays
<1>6. \A s \in tiles : s # t => parked'[s] = parked[s] /\ iq0'[s] = iq0[s] /\ seeding'[s] = seeding[s]
  BY <1>1
<1>7. Turns(t) \in 0 .. EXPLORE
  BY TurnsAre
<1>8. Safe'
  BY <1>1, <1>2, <1>4, <1>5, <1>6, <1>7, AfterRun
<1>9. QED
  BY <1>3, <1>8

LEMMA NetworkStep ==
  ASSUME Safe, UNCHANGED <<ret, bitmap, fr, parked, seeding, iq0, epoch_begin>>,
         QueuesRight', RoomsLeft', \A r \in 1 .. 2 : \A x : Flies(r, x) => Flies(r, x)'
  PROVE  Safe' /\ Keeps
<1>1. Keeps
  BY QuietKeeps
<1>2. Shapes' /\ FrontierRight' /\ WorkRight'
  BY DEF Safe, Shapes, FrontierRight, WorkRight
<1>3. QED
  BY <1>1, <1>2 DEF Safe

LEMMA EpochStep ==
  ASSUME Safe, EndEpoch
  PROVE  Safe' /\ Keeps
<1>1. /\ ret' = ret /\ bitmap' = bitmap /\ fr' = fr /\ parked' = parked /\ seeding' = seeding
      /\ iq0' = iq0 /\ iq' = iq /\ oq' = oq /\ wire' = wire
      /\ epoch_begin' = [t \in tiles |-> EXPLORE]
  BY DEF EndEpoch
<1>2. QueuesRight' /\ RoomsLeft' /\ FrontierRight' /\ \A r \in 1 .. 2 : \A x : Flies(r, x) => Flies(r, x)'
  BY <1>1 DEF Safe, QueuesRight, RoomsLeft, FrontierRight, oq_room, iq_room, Flies
<1>3. Keeps
  BY <1>1, <1>2, QuietKeeps
<1>4. EXPLORE \in 0 .. EXPLORE
  BY Constants
<1>5. Shapes'
  BY <1>1, <1>4 DEF Safe, Shapes
<1>6. ASSUME NEW t \in tiles PROVE Work(iq0[t], parked[t], seeding[t], EXPLORE)
  <2>1. seeding[t] \in BOOLEAN /\ Work(iq0[t], parked[t], seeding[t], epoch_begin[t])
    BY DEF Safe, Shapes, WorkRight
  <2>2. iq0[t] = <<>>
    BY DEF EndEpoch, QueuesEmpty, pu_idle
  <2>3. Len(iq0[t]) = 0
    BY <2>2
  <2>4. QED
    BY <2>1, <2>3 DEF Work
<1>7. WorkRight'
  BY <1>1, <1>6 DEF WorkRight
<1>8. QED
  BY <1>2, <1>3, <1>5, <1>7 DEF Safe

LEMMA NextStep ==
  ASSUME Safe, [Next]_vars
  PROVE  Safe' /\ Keeps
<1>1. CASE UNCHANGED vars
  <2>1. QueuesRight' /\ RoomsLeft' /\ \A r \in 1 .. 2 : \A x : Flies(r, x) => Flies(r, x)'
    BY <1>1 DEF vars, Safe, QueuesRight, RoomsLeft, oq_room, iq_room, Flies
  <2>2. QED
    BY <1>1, <2>1, NetworkStep DEF vars
<1>2. ASSUME NEW t \in tiles, Visit(t) PROVE Safe' /\ Keeps
  <2>1. CASE Run(t)
    <3>1. epoch_begin' = [epoch_begin EXCEPT ![t] = Turns(t)] /\ wire' = wire
      BY <1>2, <2>1 DEF Run, Visit
    <3>2. CASE runnable(t, 0) /\ T1(t)
      <4>1. iq0[t] # <<>>
        BY <3>2, MayRun
      <4>2. UNCHANGED <<bitmap, fr, iq, wire>>
        BY <3>1, <3>2 DEF T1
      <4>3. QED
        BY <3>1, <3>2, <4>1, <4>2, ResumeStep, SeedStep, NodeStep DEF T1
    <3>3. CASE runnable(t, 1) /\ T2(t)
      BY <3>1, <3>3, T2Step
    <3>4. CASE runnable(t, 2) /\ T3(t)
      BY <3>1, <3>4, T3Step
    <3>5. QED
      BY <2>1, <3>2, <3>3, <3>4, RunsOne
  <2>2. CASE ExploreFrontier(t)
    BY <1>2, <2>2, ExploreStep DEF Visit
  <2>3. CASE Idle(t)
    BY <1>2, <2>3, IdleStep DEF Visit
  <2>4. QED
    BY <1>2, <2>1, <2>2, <2>3 DEF Visit
<1>3. ASSUME NEW t \in tiles, NEW q \in 1 .. 2, InjectAny(t, q) PROVE Safe' /\ Keeps
  <2>1. Inject(t, q) /\ UNCHANGED <<ret, bitmap, fr, parked, seeding, iq0, epoch_begin>>
    BY <1>3 DEF InjectAny, Inject
  <2>2. QueuesRight /\ RoomsLeft
    BY DEF Safe
  <2>3. QueuesRight' /\ RoomsLeft' /\ \A r \in 1 .. 2 : \A x : Flies(r, x) => Flies(r, x)'
    BY <2>1, <2>2, InjectQueues
  <2>4. QED
    BY <2>1, <2>3, NetworkStep
<1>4. ASSUME NEW s \in tiles, NEW d \in tiles, NEW q \in 1 .. 2, DeliverAny(s, d, q) PROVE Safe' /\ Keeps
  <2>1. Deliver(s, d, q) /\ UNCHANGED <<ret, bitmap, fr, parked, seeding, iq0, epoch_begin>>
    BY <1>4 DEF DeliverAny, Deliver
  <2>2. QueuesRight /\ RoomsLeft
    BY DEF Safe
  <2>3. QueuesRight' /\ RoomsLeft' /\ \A r \in 1 .. 2 : \A x : Flies(r, x) => Flies(r, x)'
    BY <2>1, <2>2, DeliverQueues
  <2>4. QED
    BY <2>1, <2>3, NetworkStep
<1>5. CASE EndEpoch
  BY <1>5, EpochStep
<1>6. QED
  BY <1>1, <1>2, <1>3, <1>4, <1>5 DEF Next
-----------------------------------------------------------------------------
(* The invariant holds at first, and every step keeps it.                  *)
NoneLost == \A u \in nodes : \A e :
               Followable(u, e) /\ ret[u] < INF => ret[edge_array[e]] <= ret[u] + Weight(e) \/ Underway(u, e)

LEMMA EdgesLead ==
  ASSUME NEW u \in nodes, NEW e, Followable(u, e)
  PROVE  e \in edges /\ edge_array[e] \in nodes /\ Weight(e) \in Nat
<1>1. e \in Int /\ node_array[u] <= e /\ e < node_array[u + 1]
  BY EdgesOf DEF Followable
<1>2. PICK a \in Nat, b \in Nat, c \in Nat :
         a = node_array[u] /\ b = node_array[u + 1] /\ c = EdgeCount /\ b <= c /\ edges = 0 .. c - 1
  BY Constants, EdgesOf
<1>3. e \in edges
  BY <1>1, <1>2
<1>4. QED
  BY <1>3, OwnersAreTiles

LEMMA NoneLostStays ==
  ASSUME Safe, Safe', NoneLost, Keeps
  PROVE  NoneLost'
<1>1. ASSUME NEW u \in nodes, NEW e, Followable(u, e), ret'[u] < INF
      PROVE  ret'[edge_array[e]] <= ret'[u] + Weight(e) \/ Underway(u, e)'
  <2>1. CASE Underway(u, e)'
    BY <2>1
  <2>2. CASE ret'[u] = ret[u] /\ (Underway(u, e) => ret'[edge_array[e]] <= ret'[u] + Weight(e))
    <3>1. ret[edge_array[e]] <= ret[u] + Weight(e) \/ Underway(u, e)
      BY <1>1, <2>2 DEF NoneLost
    <3>2. ret'[edge_array[e]] <= ret[edge_array[e]] /\ edge_array[e] \in nodes /\ Weight(e) \in Nat
      BY <1>1, EdgesLead DEF Keeps
    <3>3. PICK a \in Nat, b \in Nat, c \in Nat, w \in Nat :
             a = ret[edge_array[e]] /\ b = ret'[edge_array[e]] /\ c = ret[u] /\ w = Weight(e)
      BY <3>2 DEF Safe, Shapes
    <3>4. QED
      BY <2>2, <3>1, <3>2, <3>3
  <2>3. QED
    BY <1>1, <2>1, <2>2 DEF Keeps
<1>2. \A u \in nodes : \A e : Followable(u, e)' <=> Followable(u, e)
  BY DEF Followable, HasEdges
<1>3. QED
  BY <1>1, <1>2 DEF NoneLost, Weight

LEMMA InitSafe ==
  ASSUME Init
  PROVE  Safe /\ NoneLost
<1>1. /\ ret = [n \in nodes |-> IF APP = "SSSP" /\ n = 0 THEN 0 ELSE INF]
      /\ bitmap = [t \in tiles |-> [b \in Blocks |-> {}]]
      /\ fr = [t \in tiles |-> [list |-> [i \in Slots |-> 0], head |-> 0, tail |-> 0]]
      /\ seeding = [t \in tiles |-> APP = "WCC"]
      /\ iq0 = [t \in tiles |-> IF APP = "WCC" THEN <<Seed(nodePerTile * t)>>
                                 ELSE IF t = 0 THEN <<Node(0)>> ELSE <<>>]
      /\ parked = [t \in tiles |-> <<>>]
      /\ iq = [k \in tiles \X (1 .. 2) |-> <<>>]
      /\ oq = [k \in tiles \X (1 .. 2) |-> <<>>]
      /\ wire = [k \in tiles \X tiles \X (1 .. 2) |-> <<>>]
      /\ epoch_begin = [t \in tiles |-> 0]
  BY DEF Init, InitQueues, Blocks, Slots
<1>2. QueuesRight
  <2>1. \A S : <<>> \in Seq(S) /\ Len(<<>>) <= 1
    OBVIOUS
  <2>2. QED
    BY <1>1, <2>1 DEF QueuesRight, OutRight, InRight, WireRight
<1>3. RoomsLeft
  <2>1. ASSUME NEW t \in tiles, NEW q \in 1 .. 2 PROVE oq_room(t, q) >= 0 /\ iq_room(t, q) >= 0
    <3>1. oq[<<t, q>>] = <<>> /\ iq[<<t, q>>] = <<>> /\ Len(<<>>) = 0
      BY <1>1
    <3>2. PICK a \in Nat, b \in Nat, p \in Nat : a = oq_sizes[q] /\ b = iq_sizes[q] /\ p = num_task_params[q]
      BY Constants
    <3>3. p * 0 = 0
      OBVIOUS
    <3>4. QED
      BY <3>1, <3>2, <3>3 DEF oq_room, iq_room
  <2>2. QED
    BY <2>1 DEF RoomsLeft
<1>4. 0 \in Slots /\ 0 \in Blocks
  BY RingSizes DEF Slots, Blocks
<1>5. ASSUME NEW t \in tiles
      PROVE  fr[t] \in Rings /\ bitmap[t] \in [Blocks -> SUBSET nodes] /\ Own(t, bitmap[t]) /\ Agrees(fr[t], bitmap[t])
  <2>1. fr[t] = [list |-> [i \in Slots |-> 0], head |-> 0, tail |-> 0] /\ fr[t] \in Rings
    BY <1>1, <1>4 DEF Rings
  <2>2. bitmap[t] = [b \in Blocks |-> {}]
    BY <1>1
  <2>3. Occupied(fr[t]) = 0
    BY <2>1 DEF Occupied
  <2>4. DOMAIN Around(fr[t]) = {}
    BY <2>3 DEF Around
  <2>5. IsInjective(Around(fr[t])) /\ ToSet(Around(fr[t])) = {}
    BY <2>4 DEF IsInjective, ToSet
  <2>6. QED
    BY <2>1, <2>2, <2>5 DEF Own, Agrees
<1>6. FrontierRight
  BY <1>5 DEF FrontierRight
<1>7. APP = "SSSP" \/ APP = "WCC"
  BY SearchAssumption
<1>8. ASSUME NEW t \in tiles
      PROVE  iq0[t] \in Seq(Entries) /\ Work(iq0[t], parked[t], seeding[t], epoch_begin[t])
  <2>1. parked[t] = <<>> /\ epoch_begin[t] = 0
    BY <1>1
  <2>2. CASE APP = "WCC"
    <3>1. seeding[t] = TRUE /\ iq0[t] = <<Seed(nodePerTile * t)>>
      BY <1>1, <2>2
    <3>2. nodePerTile * t \in Nat
      BY Constants DEF tiles
    <3>3. Seed(nodePerTile * t) \in Entries /\ Seed(nodePerTile * t).kind = "seed"
      BY <3>2, EntriesAre
    <3>4. PICK x \in Entries : x = Seed(nodePerTile * t) /\ x.kind = "seed"
      BY <3>3
    <3>5. <<x>> \in Seq(Entries) /\ Len(<<x>>) = 1 /\ <<x>>[1] = x
      BY Lone
    <3>6. QED
      BY <2>1, <2>2, <3>1, <3>4, <3>5, Constants DEF Work
  <2>3. CASE APP = "SSSP"
    <3>1. seeding[t] = FALSE
      BY <1>1, <2>3
    <3>2. PICK x \in NodeEntries : x = Node(0)
      BY Constants, EntriesAre
    <3>3. <<x>> \in Seq(NodeEntries) /\ Len(<<x>>) = 1 /\ <<>> \in Seq(NodeEntries) /\ Len(<<>>) = 0
      BY Lone
    <3>4. iq0[t] = <<x>> \/ iq0[t] = <<>>
      BY <1>1, <2>3, <3>2
    <3>5. iq0[t] \in Seq(NodeEntries) /\ Len(iq0[t]) <= iq0_size
      <4>1. PICK z \in Nat : z = iq0_size /\ 1 <= z
        BY Constants
      <4>2. CASE iq0[t] = <<x>>
        BY <3>3, <4>1, <4>2
      <4>3. CASE iq0[t] = <<>>
        BY <3>3, <4>1, <4>3
      <4>4. QED
        BY <3>4, <4>2, <4>3
    <3>6. iq0[t] \in Seq(Entries)
      BY <3>5, EntriesAre, SeqMonotonic
    <3>7. QED
      BY <2>1, <3>1, <3>5, <3>6 DEF Work
  <2>4. QED
    BY <1>7, <2>2, <2>3
<1>9. WorkRight
  BY <1>8 DEF WorkRight
<1>10. Shapes
  <2>1. ret \in [nodes -> Nat]
    BY <1>1, Constants
  <2>2. bitmap \in [tiles -> [Blocks -> SUBSET nodes]] /\ fr \in [tiles -> Rings]
    <3>1. DOMAIN bitmap = tiles /\ DOMAIN fr = tiles
          /\ bitmap = [t \in tiles |-> bitmap[t]] /\ fr = [t \in tiles |-> fr[t]]
      BY <1>1
    <3>2. QED
      BY <1>5, <3>1
  <2>3. parked \in [tiles -> Seq(Piece)] /\ seeding \in [tiles -> BOOLEAN]
    BY <1>1
  <2>4. iq0 \in [tiles -> Seq(Entries)]
    <3>1. DOMAIN iq0 = tiles /\ iq0 = [t \in tiles |-> iq0[t]]
      BY <1>1
    <3>2. QED
      BY <1>8, <3>1
  <2>5. epoch_begin \in [tiles -> 0 .. EXPLORE]
    <3>1. 0 \in 0 .. EXPLORE
      BY Constants
    <3>2. QED
      BY <1>1, <3>1
  <2>6. QED
    BY <2>1, <2>2, <2>3, <2>4, <2>5 DEF Shapes
<1>11. ASSUME NEW u \in nodes, NEW e, ret[u] < INF PROVE Underway(u, e)
  <2>1. u = 0 /\ APP = "SSSP"
    BY <1>1, <1>11, Constants
  <2>2. OwnerOfNode(0) = 0 /\ 0 \in tiles
    <3>1. 0 \div nodePerTile = 0
      BY Constants, Quotient
    <3>2. QED
      BY <3>1, Constants DEF OwnerOfNode
  <2>3. iq0[0] = <<Node(0)>> /\ parked[0] = <<>>
    BY <1>1, <2>1, <2>2
  <2>4. 1 \in 1 .. Len(iq0[0]) /\ iq0[0][1] = Node(0)
    BY <2>3
  <2>5. InQueue(u)
    BY <2>1, <2>2, <2>3, <2>4 DEF InQueue
  <2>6. QED
    BY <2>5 DEF Underway
<1>12. NoneLost
  BY <1>11 DEF NoneLost
<1>13. QED
  BY <1>2, <1>3, <1>6, <1>9, <1>10, <1>12 DEF Safe

LEMMA Invariance == Spec => [](Safe /\ NoneLost)
<1>1. Init => Safe /\ NoneLost
  BY InitSafe
<1>2. Safe /\ NoneLost /\ [Next]_vars => (Safe /\ NoneLost)'
  <2>1. SUFFICES ASSUME Safe, NoneLost, [Next]_vars PROVE Safe' /\ NoneLost'
    OBVIOUS
  <2>2. Safe' /\ Keeps
    BY <2>1, NextStep
  <2>3. QED
    BY <2>1, <2>2, NoneLostStays
<1>3. QED
  BY <1>1, <1>2, PTL DEF Spec
-----------------------------------------------------------------------------
(* What the invariant says in the words of Search.                         *)
LEMMA SafeTypes ==
  ASSUME Safe PROVE TypeOK
<1>1. ret \in [nodes -> Nat] /\ seeding \in [tiles -> BOOLEAN] /\ epoch_begin \in [tiles -> 0 .. EXPLORE]
  BY DEF Safe, Shapes
<1>2. ASSUME NEW t \in tiles
      PROVE  /\ \A b \in 0 .. bitmap_len - 1 : bitmap[t][b] \subseteq {n \in NodesOf(t) : Block(n) = b}
             /\ {fr[t].head, fr[t].tail} \subseteq 0 .. fr_head_offset - 1
             /\ Len(iq0[t]) <= iq0_size /\ Len(parked[t]) <= 1
             /\ \A q \in 1 .. 2 : oq_room(t, q) >= 0 /\ iq_room(t, q) >= 0
  <2>1. \A b \in 0 .. bitmap_len - 1 : bitmap[t][b] \subseteq {n \in NodesOf(t) : Block(n) = b}
    <3>1. Own(t, bitmap[t])
      BY DEF Safe, FrontierRight
    <3>2. QED
      BY <3>1 DEF Own, Blocks, NodesOf
  <2>2. {fr[t].head, fr[t].tail} \subseteq 0 .. fr_head_offset - 1
    <3>1. fr[t] \in Rings
      BY DEF Safe, Shapes
    <3>2. QED
      BY <3>1 DEF Rings, Slots
  <2>3. Len(iq0[t]) <= iq0_size /\ (parked[t] = <<>> \/ Len(parked[t]) = 1)
    BY DEF Safe, WorkRight, Work
  <2>4. Len(parked[t]) <= 1
    <3>1. CASE parked[t] = <<>>
      BY <3>1
    <3>2. CASE Len(parked[t]) = 1
      BY <3>2
    <3>3. QED
      BY <2>3, <3>1, <3>2
  <2>5. \A q \in 1 .. 2 : oq_room(t, q) >= 0 /\ iq_room(t, q) >= 0
    BY DEF Safe, RoomsLeft
  <2>6. QED
    BY <2>1, <2>2, <2>3, <2>4, <2>5
<1>3. QED
  BY <1>1, <1>2 DEF TypeOK

LEMMA SafeRanges ==
  ASSUME Safe PROVE RangesLocal
<1>1. ASSUME NEW t \in tiles, NEW i \in DOMAIN iq[<<t, 1>>], NEW m, m = iq[<<t, 1>>][i]
      PROVE  /\ m.first < m.last /\ m.last - m.first <= max_task_chunk
             /\ OwnerOfEdge(m.first) = t /\ OwnerOfEdge(m.last - 1) = t
  <2>1. 1 \in 1 .. 2
    OBVIOUS
  <2>2. iq[<<t, 1>>] \in Seq(Inbox(1, t))
    BY <2>1 DEF Safe, QueuesRight, InRight
  <2>3. i \in 1 .. Len(iq[<<t, 1>>])
    BY <2>2, Members
  <2>4. m \in Inbox(1, t)
    BY <1>1, <2>2, <2>3, ElementOfSeq
  <2>5. m \in CutPieces /\ OwnerOfEdge(m.first) = t
    BY <2>4 DEF Inbox, Messages, Owner
  <2>6. QED
    BY <2>5 DEF CutPieces
<1>2. QED
  BY <1>1 DEF RangesLocal

LEMMA SafeFrontier ==
  ASSUME Safe PROVE FrontierListed
<1>1. ASSUME NEW t \in tiles
      PROVE  IsInjective(Listed(t)) /\ ToSet(Listed(t)) = {b \in DOMAIN bitmap[t] : bitmap[t][b] # {}}
  <2>1. Listed(t) = Around(fr[t])
    BY DEF Listed, frontier_occ, Around, Occupied
  <2>2. Agrees(fr[t], bitmap[t]) /\ DOMAIN bitmap[t] = Blocks
    BY DEF Safe, Shapes, FrontierRight
  <2>3. QED
    BY <2>1, <2>2 DEF Agrees
<1>2. QED
  BY <1>1 DEF FrontierListed

LEMMA SafeSeeds ==
  ASSUME Safe PROVE SeedsApart
<1>1. ASSUME NEW t \in tiles, NEW i \in DOMAIN iq0[t]
      PROVE  (iq0[t][i].kind = "seed") = seeding[t] /\ (seeding[t] => i = 1)
  <2>1. /\ seeding[t] \in BOOLEAN /\ iq0[t] \in Seq(Entries)
        /\ Work(iq0[t], parked[t], seeding[t], epoch_begin[t])
    BY DEF Safe, Shapes, WorkRight
  <2>2. i \in 1 .. Len(iq0[t])
    BY <2>1, Members
  <2>3. CASE seeding[t] = TRUE
    <3>1. Len(iq0[t]) = 1 /\ iq0[t][1].kind = "seed"
      BY <2>1, <2>3 DEF Work
    <3>2. i = 1
      BY <2>2, <3>1
    <3>3. QED
      BY <2>3, <3>1, <3>2
  <2>4. CASE seeding[t] = FALSE
    <3>1. iq0[t] \in Seq(NodeEntries)
      BY <2>1, <2>4 DEF Work
    <3>2. iq0[t][i] \in NodeEntries
      BY <2>2, <3>1, ElementOfSeq
    <3>3. iq0[t][i].kind = "node"
      BY <3>2 DEF NodeEntries
    <3>4. QED
      BY <2>4, <3>3
  <2>5. QED
    BY <2>1, <2>3, <2>4
<1>2. QED
  BY <1>1 DEF SeedsApart

LEMMA UnderwayIsPending ==
  ASSUME Safe, NEW u \in nodes, NEW e, Underway(u, e)
  PROVE  Pending(u, e)
<1> DEFINE t == OwnerOfNode(u)
           covers(m) == m.first <= e /\ e < m.last /\ m.value <= ret[u]
           told(m) == m.node = edge_array[e] /\ m.value <= ret[u] + Weight(e)
<1>1. t \in tiles
  BY OwnersAreTiles
<1>2. /\ iq0[t] \in Seq(Entries) /\ parked[t] \in Seq(Piece)
      /\ DOMAIN wire = tiles \X tiles \X (1 .. 2)
      /\ 1 \in 1 .. 2 /\ 2 \in 1 .. 2
  BY <1>1 DEF Safe, Shapes, QueuesRight, WireRight
<1>3. CASE InFrontier(u)
  BY <1>3 DEF InFrontier, Pending
<1>4. CASE InQueue(u)
  <2>1. PICK i \in 1 .. Len(iq0[t]) : iq0[t][i] = Node(u) /\ (i > 1 \/ parked[t] = <<>>)
    BY <1>4 DEF InQueue
  <2>2. i \in DOMAIN iq0[t]
    BY <1>2, Members
  <2>3. QED
    BY <2>1, <2>2 DEF Pending
<1>5. CASE InParked(u, e)
  <2>1. parked[t] # <<>> /\ covers(parked[t][1])
    BY <1>5 DEF InParked, Carries
  <2>2. 1 \in DOMAIN parked[t]
    <3>1. PICK n \in Nat : n = Len(parked[t]) /\ DOMAIN parked[t] = 1 .. n /\ n # 0
      BY <1>2, <2>1, Members
    <3>2. QED
      BY <3>1
  <2>3. QED
    BY <2>1, <2>2 DEF Pending
<1>6. CASE InPieces(u, e)
  <2>1. PICK m : Flies(1, m) /\ covers(m)
    BY <1>6 DEF InPieces, Carries
  <2>2. CASE \E s \in tiles : m \in ToSet(oq[<<s, 1>>]) \/ m \in ToSet(iq[<<s, 1>>])
    <3>1. PICK s \in tiles : m \in ToSet(oq[<<s, 1>>]) \/ m \in ToSet(iq[<<s, 1>>])
      BY <2>2
    <3>2. PICK k \in tiles \X (1 .. 2) : k = <<s, 1>> /\ k[2] = 1
      <4>1. <<s, 1>> \in tiles \X (1 .. 2) /\ <<s, 1>>[2] = 1
        BY <1>2
      <4>2. QED
        BY <4>1
    <3>3. m \in ToSet(oq[k]) \union ToSet(iq[k])
      BY <3>1, <3>2
    <3>4. QED
      BY <2>1, <3>2, <3>3 DEF Pending
  <2>3. CASE \E s, d \in tiles : m \in ToSet(wire[<<s, d, 1>>])
    <3>1. PICK s \in tiles, d \in tiles : m \in ToSet(wire[<<s, d, 1>>])
      BY <2>3
    <3>2. PICK k \in DOMAIN wire : k = <<s, d, 1>> /\ k[3] = 1
      <4>1. <<s, d, 1>> \in DOMAIN wire /\ <<s, d, 1>>[3] = 1
        BY <1>2
      <4>2. QED
        BY <4>1
    <3>3. m \in ToSet(wire[k])
      BY <3>1, <3>2
    <3>4. QED
      BY <2>1, <3>2, <3>3 DEF Pending
  <2>4. QED
    BY <2>1, <2>2, <2>3 DEF Flies
<1>7. CASE InUpdates(u, e)
  <2>1. PICK m : Flies(2, m) /\ told(m)
    BY <1>7 DEF InUpdates, Tells
  <2>2. CASE \E s \in tiles : m \in ToSet(oq[<<s, 2>>]) \/ m \in ToSet(iq[<<s, 2>>])
    <3>1. PICK s \in tiles : m \in ToSet(oq[<<s, 2>>]) \/ m \in ToSet(iq[<<s, 2>>])
      BY <2>2
    <3>2. PICK k \in tiles \X (1 .. 2) : k = <<s, 2>> /\ k[2] # 1
      <4>1. <<s, 2>> \in tiles \X (1 .. 2) /\ <<s, 2>>[2] # 1
        BY <1>2
      <4>2. QED
        BY <4>1
    <3>3. m \in ToSet(oq[k]) \union ToSet(iq[k])
      BY <3>1, <3>2
    <3>4. QED
      BY <2>1, <3>2, <3>3 DEF Pending
  <2>3. CASE \E s, d \in tiles : m \in ToSet(wire[<<s, d, 2>>])
    <3>1. PICK s \in tiles, d \in tiles : m \in ToSet(wire[<<s, d, 2>>])
      BY <2>3
    <3>2. PICK k \in DOMAIN wire : k = <<s, d, 2>> /\ k[3] # 1
      <4>1. <<s, d, 2>> \in DOMAIN wire /\ <<s, d, 2>>[3] # 1
        BY <1>2
      <4>2. QED
        BY <4>1
    <3>3. m \in ToSet(wire[k])
      BY <3>1, <3>2
    <3>4. QED
      BY <2>1, <3>2, <3>3 DEF Pending
  <2>4. QED
    BY <2>1, <2>2, <2>3 DEF Flies
<1>8. QED
  BY <1>3, <1>4, <1>5, <1>6, <1>7 DEF Underway

LEMMA LostNothing ==
  ASSUME Safe, NoneLost PROVE NoUpdateLost
<1>1. ASSUME NEW u \in nodes, ret[u] < INF, NEW e \in node_array[u] .. node_array[u + 1] - 1, HasEdges(edge_array[e])
      PROVE  ret[edge_array[e]] <= ret[u] + Weight(e) \/ Pending(u, e)
  <2>1. Followable(u, e)
    BY <1>1 DEF Followable
  <2>2. ret[edge_array[e]] <= ret[u] + Weight(e) \/ Underway(u, e)
    BY <1>1, <2>1 DEF NoneLost
  <2>3. QED
    BY <2>2, UnderwayIsPending
<1>2. QED
  BY <1>1 DEF NoUpdateLost

(* Nothing is under way when the application has ended.                    *)
LEMMA AtRest ==
  ASSUME Safe, Finished, NEW u \in nodes, NEW e
  PROVE  ~Underway(u, e)
<1>1. PICK t \in tiles : t = OwnerOfNode(u)
  BY OwnersAreTiles
<1>2. /\ \A s \in tiles : iq0[s] = <<>> /\ \A q \in 1 .. 2 : iq[<<s, q>>] = <<>> /\ oq[<<s, q>>] = <<>>
      /\ \A k \in DOMAIN wire : wire[k] = <<>>
  BY DEF Finished, QueuesEmpty, pu_idle
<1>3. ~InFrontier(u)
  <2>1. Occupied(fr[t]) = 0
    BY DEF Finished, frontier_occ, Occupied
  <2>2. DOMAIN Around(fr[t]) = {}
    BY <2>1 DEF Around
  <2>3. ToSet(Around(fr[t])) = {}
    BY <2>2 DEF ToSet
  <2>4. Block(u) \in Blocks /\ Agrees(fr[t], bitmap[t])
    BY RingSizes DEF Safe, FrontierRight
  <2>5. bitmap[t][Block(u)] = {}
    BY <2>3, <2>4 DEF Agrees
  <2>6. QED
    BY <1>1, <2>5 DEF InFrontier
<1>4. ~InQueue(u)
  <2>0. iq0[t] = <<>>
    BY <1>2
  <2>1. Len(iq0[t]) = 0
    BY <2>0
  <2>2. QED
    BY <1>1, <2>1 DEF InQueue
<1>5. ~InParked(u, e)
  <2>1. parked[t] = <<>>
    BY <1>2 DEF Safe, WorkRight, Work
  <2>2. QED
    BY <1>1, <2>1 DEF InParked
<1>6. ASSUME NEW q \in 1 .. 2, NEW m PROVE ~Flies(q, m)
  <2>1. m \notin ToSet(<<>>)
    BY DEF ToSet
  <2>2. \A s, d \in tiles : wire[<<s, d, q>>] = <<>>
    <3>1. DOMAIN wire = tiles \X tiles \X (1 .. 2)
      BY DEF Safe, QueuesRight, WireRight
    <3>2. QED
      BY <1>2, <3>1
  <2>3. QED
    BY <1>2, <2>1, <2>2 DEF Flies
<1>7. ~InPieces(u, e) /\ ~InUpdates(u, e)
  <2>1. 1 \in 1 .. 2 /\ 2 \in 1 .. 2
    OBVIOUS
  <2>2. QED
    BY <1>6, <2>1 DEF InPieces, InUpdates
<1>8. QED
  BY <1>3, <1>4, <1>5, <1>7 DEF Underway
-----------------------------------------------------------------------------
(* The values nodes take, for any sets A[n] of values which hold those the *)
(* nodes begin with and which the edges lead from one to another.          *)
Possible(A) ==
  /\ A \in [nodes -> SUBSET Nat] /\ \A n \in nodes : INF \in A[n]
  /\ APP = "SSSP" => 0 \in A[0]
  /\ APP = "WCC" => \A n \in nodes : n \in A[n]
  /\ \A u \in nodes : \A e \in Followed(u) : \A v \in A[u] : v + Weight(e) \in A[edge_array[e]]

Offers(A, first, last, v) ==
  \A e \in first .. last - 1 : HasEdges(edge_array[e]) => v + Weight(e) \in A[edge_array[e]]
OffersRight(A, m) == Offers(A, m.first, m.last, m.value)

Sound(A) ==
  /\ \A n \in nodes : ret[n] \in A[n]
  /\ \A t \in tiles : parked[t] # <<>> => OffersRight(A, parked[t][1])
  /\ \A m : Flies(1, m) => OffersRight(A, m)
  /\ \A m : Flies(2, m) => m.value \in A[m.node]

LEMMA PartOffers ==
  ASSUME NEW A, NEW first \in Nat, NEW last \in Nat, NEW v, Offers(A, first, last, v),
         NEW m, Within(first, last, v, m)
  PROVE  OffersRight(A, m)
<1>1. PICK a \in Nat, b \in Nat : a = m.first /\ b = m.last /\ first <= a /\ b <= last /\ v = m.value
  BY DEF Within, Piece
<1>2. \A e \in a .. b - 1 : e \in first .. last - 1
  BY <1>1
<1>3. QED
  BY <1>1, <1>2 DEF Offers, OffersRight

LEMMA EdgesOffer ==
  ASSUME NEW A, Possible(A), NEW u \in nodes, NEW v \in A[u]
  PROVE  Offers(A, node_array[u], node_array[u + 1], v)
BY DEF Offers, Possible, Followed

LEMMA SendingSound ==
  ASSUME Safe, NEW A, Sound(A), NEW t \in tiles,
         NEW first \in Nat, NEW last \in Nat, first <= last, last <= EdgeCount, NEW value \in Nat,
         Offers(A, first, last, value), Send(t, first, last, value), iq' = iq, wire' = wire
  PROVE  /\ \A s \in tiles : parked'[s] # <<>> => OffersRight(A, parked'[s][1])
         /\ \A m : Flies(1, m)' => OffersRight(A, m)
         /\ \A m : Flies(2, m)' => m.value \in A[m.node]
<1>1. /\ \A s \in tiles : s # t => parked'[s] = parked[s]
      /\ \A r \in 1 .. 2 : \A x : Flies(r, x)' => Flies(r, x) \/ (r = 1 /\ Within(first, last, value, x))
      /\ parked'[t] # <<>> => Within(first, last, value, parked'[t][1])
  BY Sending
<1>2. \A m : Within(first, last, value, m) => OffersRight(A, m)
  BY PartOffers
<1>3. ASSUME NEW s \in tiles, parked'[s] # <<>> PROVE OffersRight(A, parked'[s][1])
  <2>1. CASE s = t
    BY <1>1, <1>2, <1>3, <2>1
  <2>2. CASE s # t
    BY <1>1, <1>3, <2>2 DEF Sound
  <2>3. QED
    BY <2>1, <2>2
<1>4. 1 \in 1 .. 2 /\ 2 \in 1 .. 2 /\ 2 # 1
  OBVIOUS
<1>5. ASSUME NEW m, Flies(1, m)' PROVE OffersRight(A, m)
  BY <1>1, <1>2, <1>4, <1>5 DEF Sound
<1>6. ASSUME NEW m, Flies(2, m)' PROVE m.value \in A[m.node]
  BY <1>1, <1>4, <1>6 DEF Sound
<1>7. QED
  BY <1>3, <1>5, <1>6

LEMMA QuietSound ==
  ASSUME NEW A, Sound(A), ret' = ret, parked' = parked, \A r \in 1 .. 2 : \A x : Flies(r, x)' => Flies(r, x)
  PROVE  Sound(A)'
<1>1. 1 \in 1 .. 2 /\ 2 \in 1 .. 2
  OBVIOUS
<1>2. \A x : (Flies(1, x)' => Flies(1, x)) /\ (Flies(2, x)' => Flies(2, x))
  BY <1>1
<1>3. QED
  BY <1>2 DEF Sound

LEMMA T1Sound ==
  ASSUME Safe, NEW A, Possible(A), Sound(A), NEW t \in tiles, T1(t), iq0[t] # <<>>, wire' = wire
  PROVE  Sound(A)'
<1>1. /\ parked[t] \in Seq(Piece) /\ iq0[t] \in Seq(Entries) /\ ret \in [nodes -> Nat] /\ seeding[t] \in BOOLEAN
      /\ Work(iq0[t], parked[t], seeding[t], epoch_begin[t])
      /\ \A n \in nodes : ret[n] \in A[n]
  BY DEF Safe, Shapes, WorkRight, Sound
<1>2. iq' = iq
  BY DEF T1
<1>3. ASSUME NEW n \in nodes, NEW v \in A[n], NEW r, r = [ret EXCEPT ![n] = v], ret' = r, Explore(t, n, v)
      PROVE  Sound(A)'
  <2>1. PICK first \in Nat, last \in Nat :
           first = node_array[n] /\ last = node_array[n + 1] /\ first <= last /\ last <= EdgeCount
    BY EdgesOf
  <2>2. v \in Nat
    BY DEF Possible
  <2>3. Offers(A, first, last, v) /\ Send(t, first, last, v)
    BY <1>3, <2>1, EdgesOffer DEF Explore
  <2>4. /\ \A s \in tiles : parked'[s] # <<>> => OffersRight(A, parked'[s][1])
        /\ \A m : Flies(1, m)' => OffersRight(A, m)
        /\ \A m : Flies(2, m)' => m.value \in A[m.node]
    BY <1>2, <2>1, <2>2, <2>3, SendingSound
  <2>5. \A k \in nodes : ret'[k] \in A[k]
    BY <1>1, <1>3
  <2>6. QED
    BY <2>4, <2>5 DEF Sound
<1>4. CASE T1Resume(t)
  <2>1. parked[t] # <<>> /\ ret' = ret
        /\ Send(t, parked[t][1].first, parked[t][1].last, parked[t][1].value)
    BY <1>4 DEF T1Resume
  <2>2. parked[t][1] \in Piece
    BY <1>1, <2>1, HeadTailProperties
  <2>3. PICK first \in Nat, last \in Nat, value \in Nat :
           first = parked[t][1].first /\ last = parked[t][1].last /\ value = parked[t][1].value
    BY <2>2 DEF Piece
  <2>4. first <= last /\ last <= EdgeCount
    BY <1>1, <2>1, <2>3 DEF Work
  <2>5. Offers(A, first, last, value)
    BY <2>1, <2>3 DEF Sound, OffersRight
  <2>6. Send(t, first, last, value)
    BY <2>1, <2>3
  <2>7. /\ \A s \in tiles : parked'[s] # <<>> => OffersRight(A, parked'[s][1])
        /\ \A m : Flies(1, m)' => OffersRight(A, m)
        /\ \A m : Flies(2, m)' => m.value \in A[m.node]
    BY <1>2, <2>4, <2>5, <2>6, SendingSound
  <2>8. QED
    BY <1>1, <2>1, <2>7 DEF Sound
<1>5. CASE T1Seed(t)
  <2> DEFINE unseen == {n \in NodesOf(t) : n >= Head(iq0[t]).node /\ ret[n] = INF}
  <2>1. APP = "WCC"
    BY <1>1, <1>5 DEF Work, T1Seed
  <2>2. CASE unseen = {}
    <3>1. ret' = ret /\ oq' = oq /\ parked' = parked
      BY <1>5, <2>2 DEF T1Seed
    <3>2. \A r \in 1 .. 2 : \A x : Flies(r, x)' => Flies(r, x)
      BY <1>2, <3>1 DEF Flies
    <3>3. QED
      BY <3>1, <3>2, QuietSound
  <2>3. CASE unseen # {}
    <3>1. unseen \in SUBSET Nat /\ unseen \subseteq nodes
      BY EntriesAre DEF NodesOf
    <3>2. PICK n \in nodes : n = Min(unseen)
      BY <2>3, <3>1, Least
    <3>3. ret' = [ret EXCEPT ![n] = n] /\ Explore(t, n, n)
      BY <1>5, <2>3, <3>2 DEF T1Seed
    <3>4. n \in A[n]
      BY <2>1 DEF Possible
    <3>5. QED
      BY <1>3, <3>3, <3>4
  <2>4. QED
    BY <2>2, <2>3
<1>6. CASE T1Node(t)
  <2> DEFINE n == Head(iq0[t]).node
  <2>1. n \in nodes /\ ret' = ret
    <3>1. iq0[t] \in Seq(NodeEntries)
      BY <1>1, <1>6 DEF T1Node, Work
    <3>2. Head(iq0[t]) \in NodeEntries
      BY <3>1, HeadTailProperties
    <3>3. QED
      BY <1>6, <3>2 DEF NodeEntries, T1Node
  <2>2. CASE UNCHANGED <<oq, parked, iq0>>
    <3>1. \A r \in 1 .. 2 : \A x : Flies(r, x)' => Flies(r, x)
      BY <1>2, <2>2 DEF Flies
    <3>2. QED
      BY <2>1, <2>2, <3>1, QuietSound
  <2>3. CASE Explore(t, n, ret[n])
    <3> HIDE DEF n
    <3>1. PICK v \in A[n] : v = ret[n]
      BY <1>1, <2>1
    <3>2. ret' = [ret EXCEPT ![n] = v]
      BY <1>1, <2>1, <3>1
    <3>3. QED
      BY <1>3, <2>1, <2>3, <3>1, <3>2
  <2>4. QED
    BY <1>6, <2>2, <2>3 DEF T1Node
<1>7. QED
  BY <1>4, <1>5, <1>6 DEF T1

LEMMA T2Sound ==
  ASSUME Safe, NEW A, Sound(A), NEW t \in tiles, T2(t), runnable(t, 1), wire' = wire
  PROVE  Sound(A)'
<1> DEFINE m == Head(iq[<<t, 1>>])
<1>0. PICK q \in 1 .. 2, p \in 1 .. 2 : q = 1 /\ p = 2
  OBVIOUS
<1>1. iq[<<t, 1>>] # <<>> /\ InRight(iq) /\ OutRight(oq)
  BY MayRun DEF Safe, QueuesRight
<1>2. /\ iq' = [iq EXCEPT ![<<t, 1>>] = Tail(@)]
      /\ oq' = [oq EXCEPT ![<<t, 2>>] = @ \o Told(m)]
      /\ ret' = ret /\ parked' = parked
  BY DEF T2, Told
<1> HIDE DEF m
<1>3. /\ m \in Inbox(1, t) /\ Flies(1, m)
      /\ \A s \in tiles, r \in 1 .. 2 : \A x : x \in ToSet(iq'[<<s, r>>]) => x \in ToSet(iq[<<s, r>>])
  BY <1>0, <1>1, <1>2, Taken DEF m
<1>4. m \in CutPieces
  BY <1>3 DEF Inbox, Messages
<1>5. /\ Told(m) \in Seq(Update)
      /\ \A x \in ToSet(Told(m)) : \E e \in m.first .. m.last - 1 :
            HasEdges(edge_array[e]) /\ x.node = edge_array[e] /\ x.value = m.value + Weight(e)
  BY <1>4, ToldIs
<1>6. PICK v \in Seq(Messages(2)) : v = Told(m)
  BY <1>5 DEF Messages
<1>7. num_task_params[2] * Len(v) <= oq_room(t, 2)
  BY <1>4, <1>6, T2Fits
<1>8. \A s \in tiles, r \in 1 .. 2 : \A x :
         x \in ToSet(oq'[<<s, r>>]) => x \in ToSet(oq[<<s, r>>]) \/ IsOneOf(p, v, r, x)
  <2>1. oq' = [oq EXCEPT ![<<t, 2>>] = @ \o v]
    BY <1>2, <1>6
  <2>2. QED
    BY <1>0, <1>1, <1>7, <2>1, Put
<1>9. ASSUME NEW x \in ToSet(v) PROVE x.value \in A[x.node]
  <2>1. OffersRight(A, m)
    BY <1>3 DEF Sound
  <2>2. PICK e \in m.first .. m.last - 1 :
           HasEdges(edge_array[e]) /\ x.node = edge_array[e] /\ x.value = m.value + Weight(e)
    BY <1>5, <1>6, <1>9
  <2>3. QED
    BY <2>1, <2>2 DEF OffersRight, Offers
<1>10. ASSUME NEW r \in 1 .. 2, NEW x, Flies(r, x)' PROVE Flies(r, x) \/ IsOneOf(p, v, r, x)
  <2>1. CASE \E s \in tiles : x \in ToSet(oq'[<<s, r>>])
    BY <1>8, <2>1 DEF Flies
  <2>2. CASE \E s \in tiles : x \in ToSet(iq'[<<s, r>>])
    BY <1>3, <2>2 DEF Flies
  <2>3. CASE \E a, b \in tiles : x \in ToSet(wire'[<<a, b, r>>])
    BY <2>3 DEF Flies
  <2>4. QED
    BY <1>10, <2>1, <2>2, <2>3 DEF Flies
<1>11. \A x : Flies(1, x)' => Flies(1, x)
  BY <1>0, <1>10 DEF IsOneOf
<1>12. \A x : Flies(2, x)' => Flies(2, x) \/ x \in ToSet(v)
  BY <1>0, <1>10 DEF IsOneOf
<1>13. QED
  BY <1>2, <1>9, <1>11, <1>12 DEF Sound

LEMMA T3Sound ==
  ASSUME Safe, NEW A, Sound(A), NEW t \in tiles, T3(t), runnable(t, 2), wire' = wire
  PROVE  Sound(A)'
<1> DEFINE m == Head(iq[<<t, 2>>])
<1>0. PICK q \in 1 .. 2 : q = 2
  OBVIOUS
<1>1. iq[<<t, 2>>] # <<>> /\ InRight(iq) /\ ret \in [nodes -> Nat]
  BY MayRun DEF Safe, QueuesRight, Shapes
<1>2. /\ iq' = [iq EXCEPT ![<<t, 2>>] = Tail(@)] /\ parked' = parked /\ oq' = oq
      /\ ret' = [ret EXCEPT ![m.node] = m.value] \/ ret' = ret
  BY DEF T3
<1>3. /\ m \in Inbox(2, t) /\ Flies(2, m)
      /\ \A s \in tiles, r \in 1 .. 2 : \A x : x \in ToSet(iq'[<<s, r>>]) => x \in ToSet(iq[<<s, r>>])
  BY <1>0, <1>1, <1>2, Taken
<1> HIDE DEF m
<1>4. m.node \in nodes /\ m.value \in A[m.node]
  BY <1>3 DEF Inbox, Messages, Update, Sound
<1>5. \A n \in nodes : ret'[n] \in A[n]
  BY <1>1, <1>2, <1>4 DEF Sound
<1>6. ASSUME NEW r \in 1 .. 2, NEW x, Flies(r, x)' PROVE Flies(r, x)
  <2>1. CASE \E s \in tiles : x \in ToSet(oq'[<<s, r>>])
    BY <1>2, <2>1 DEF Flies
  <2>2. CASE \E s \in tiles : x \in ToSet(iq'[<<s, r>>])
    BY <1>3, <2>2 DEF Flies
  <2>3. CASE \E a, b \in tiles : x \in ToSet(wire'[<<a, b, r>>])
    BY <2>3 DEF Flies
  <2>4. QED
    BY <1>6, <2>1, <2>2, <2>3 DEF Flies
<1>7. 1 \in 1 .. 2 /\ 2 \in 1 .. 2
  OBVIOUS
<1>8. \A x : (Flies(1, x)' => Flies(1, x)) /\ (Flies(2, x)' => Flies(2, x))
  BY <1>6, <1>7
<1>9. QED
  BY <1>2, <1>5, <1>8 DEF Sound

LEMMA SoundStays ==
  ASSUME Safe, NEW A, Possible(A), Sound(A), [Next]_vars
  PROVE  Sound(A)'
<1>1. CASE UNCHANGED <<ret, parked, iq, oq, wire>>
  <2>1. \A r \in 1 .. 2 : \A x : Flies(r, x)' => Flies(r, x)
    BY <1>1 DEF Flies
  <2>2. QED
    BY <1>1, <2>1, QuietSound
<1>2. ASSUME NEW t \in tiles, Visit(t) PROVE Sound(A)'
  <2>1. wire' = wire
    BY <1>2 DEF Visit
  <2>2. CASE Run(t)
    <3>1. runnable(t, 0) => iq0[t] # <<>>
      BY MayRun
    <3>2. QED
      BY <2>1, <2>2, <3>1, RunsOne, T1Sound, T2Sound, T3Sound
  <2>3. CASE ExploreFrontier(t)
    BY <1>1, <2>1, <2>3 DEF ExploreFrontier, T4
  <2>4. CASE Idle(t)
    BY <1>1, <2>1, <2>4 DEF Idle
  <2>5. QED
    BY <1>2, <2>2, <2>3, <2>4 DEF Visit
<1>3. ASSUME NEW t \in tiles, NEW q \in 1 .. 2, InjectAny(t, q) PROVE Sound(A)'
  <2>1. Inject(t, q) /\ ret' = ret /\ parked' = parked
    BY <1>3 DEF InjectAny, Inject
  <2>2. \A r \in 1 .. 2 : \A x : Flies(r, x)' => Flies(r, x)
    BY <2>1, InjectQueues DEF Safe
  <2>3. QED
    BY <2>1, <2>2, QuietSound
<1>4. ASSUME NEW s \in tiles, NEW d \in tiles, NEW q \in 1 .. 2, DeliverAny(s, d, q) PROVE Sound(A)'
  <2>1. Deliver(s, d, q) /\ ret' = ret /\ parked' = parked
    BY <1>4 DEF DeliverAny, Deliver
  <2>2. \A r \in 1 .. 2 : \A x : Flies(r, x)' => Flies(r, x)
    BY <2>1, DeliverQueues DEF Safe
  <2>3. QED
    BY <2>1, <2>2, QuietSound
<1>5. CASE EndEpoch
  BY <1>1, <1>5 DEF EndEpoch
<1>6. CASE UNCHANGED vars
  BY <1>1, <1>6 DEF vars
<1>7. QED
  BY <1>2, <1>3, <1>4, <1>5, <1>6 DEF Next

LEMMA InitSound ==
  ASSUME Init, NEW A, Possible(A)
  PROVE  Sound(A)
<1>1. /\ ret = [n \in nodes |-> IF APP = "SSSP" /\ n = 0 THEN 0 ELSE INF]
      /\ parked = [t \in tiles |-> <<>>]
      /\ iq = [k \in tiles \X (1 .. 2) |-> <<>>]
      /\ oq = [k \in tiles \X (1 .. 2) |-> <<>>]
      /\ wire = [k \in tiles \X tiles \X (1 .. 2) |-> <<>>]
  BY DEF Init, InitQueues
<1>2. \A n \in nodes : ret[n] \in A[n]
  BY <1>1 DEF Possible
<1>3. ASSUME NEW q \in 1 .. 2, NEW m PROVE ~Flies(q, m)
  <2>1. m \notin ToSet(<<>>)
    BY DEF ToSet
  <2>2. QED
    BY <1>1, <2>1 DEF Flies
<1>4. 1 \in 1 .. 2 /\ 2 \in 1 .. 2
  OBVIOUS
<1>5. QED
  BY <1>1, <1>2, <1>3, <1>4 DEF Sound
-----------------------------------------------------------------------------
(* The values nodes begin with: none is above INF, that of SSSP's node 0   *)
(* stays 0, and T1 of WCC still has to come by the nodes that have none.   *)
ToSeed(n) == seeding[OwnerOfNode(n)] /\ Head(iq0[OwnerOfNode(n)]).node <= n

Begun == /\ \A n \in nodes : ret[n] <= INF
         /\ APP = "SSSP" => ret[0] = 0
         /\ APP = "WCC" => \A n \in nodes : ret[n] < INF \/ ToSeed(n)

LEMMA SeedsGoOn ==
  ASSUME Safe, Begun, Keeps, NEW t \in tiles, T1Seed(t), iq0[t] # <<>>,
         NEW n \in nodes, OwnerOfNode(n) = t, ret'[n] \in Nat, ToSeed(n)
  PROVE  ret'[n] < INF \/ ToSeed(n)'
<1> DEFINE unseen == {k \in NodesOf(t) : k >= Head(iq0[t]).node /\ ret[k] = INF}
<1>1. /\ ret[n] \in Nat /\ INF \in Nat /\ ret[n] <= INF /\ ret'[n] <= ret[n]
      /\ iq0 \in [tiles -> Seq(Entries)] /\ Head(iq0[t]).node <= n /\ n \in Nat
  BY Constants, EntriesAre DEF Safe, Shapes, Begun, Keeps, ToSeed
<1>2. Head(iq0[t]).node \in Nat
  <2>1. iq0[t] \in Seq(Entries) /\ iq0[t] # <<>>
    BY <1>1
  <2>2. Head(iq0[t]) \in Entries
    BY <2>1, HeadTailProperties
  <2>3. QED
    BY <2>2 DEF Entries
<1>3. CASE ret[n] # INF
  BY <1>1, <1>3
<1>4. CASE ret[n] = INF
  <2>1. n \in unseen
    BY <1>1, <1>2, <1>4 DEF NodesOf
  <2>2. unseen \in SUBSET Nat
    BY EntriesAre DEF NodesOf
  <2>3. PICK k \in Nat : k = Min(unseen) /\ k <= n
    BY <2>1, <2>2, Least
  <2>4. iq0' = [iq0 EXCEPT ![t] = Append(Tail(@), Seed(k))] /\ seeding' = seeding
    BY <2>1, <2>3 DEF T1Seed
  <2>5. Tail(iq0[t]) = <<>>
    <3>1. Work(iq0[t], parked[t], seeding[t], epoch_begin[t]) /\ seeding[t]
      BY DEF Safe, WorkRight, T1Seed
    <3>2. Len(iq0[t]) = 1
      BY <3>1 DEF Work
    <3>3. Tail(iq0[t]) \in Seq(Entries) /\ Len(Tail(iq0[t])) = 0
      BY <1>1, <3>2, HeadTailProperties
    <3>4. QED
      BY <3>3, EmptySeq
  <2>6. iq0'[t] = Append(<<>>, Seed(k))
    BY <1>1, <2>4, <2>5
  <2>7. Head(Append(<<>>, Seed(k))) = Seed(k)
    OBVIOUS
  <2>8. Head(iq0'[t]).node = k
    BY <2>6, <2>7 DEF Seed
  <2>9. seeding'[t]
    BY <2>4 DEF T1Seed
  <2>10. QED
    BY <2>3, <2>8, <2>9 DEF ToSeed
<1>5. QED
  BY <1>3, <1>4

LEMMA BegunStays ==
  ASSUME Safe, Begun, [Next]_vars, Safe', Keeps
  PROVE  Begun'
<1>1. ASSUME NEW n \in nodes PROVE ret'[n] \in Nat /\ ret[n] \in Nat /\ ret'[n] <= ret[n] /\ ret[n] <= INF /\ INF \in Nat
  BY Constants DEF Safe, Shapes, Keeps, Begun
<1>2. \A n \in nodes : ret'[n] <= INF /\ (ret[n] < INF => ret'[n] < INF)
  BY <1>1
<1>3. APP = "SSSP" => ret'[0] = 0
  <2>1. 0 \in nodes
    BY Constants
  <2>2. APP = "SSSP" => ret[0] = 0
    BY DEF Begun
  <2>3. QED
    BY <1>1, <2>1, <2>2
<1>4. ASSUME NEW n \in nodes, ToSeed(n) PROVE ret'[n] < INF \/ ToSeed(n)'
  <2>1. PICK t \in tiles : t = OwnerOfNode(n) /\ seeding[t] /\ Head(iq0[t]).node <= n
    BY <1>4, OwnersAreTiles DEF ToSeed
  <2>2. CASE iq0'[t] = iq0[t] /\ seeding'[t] = seeding[t]
    BY <1>4, <2>1, <2>2 DEF ToSeed
  <2>3. /\ iq0 \in [tiles -> Seq(Entries)] /\ seeding \in [tiles -> BOOLEAN]
    BY DEF Safe, Shapes
  <2>4. ASSUME NEW s \in tiles, Visit(s) PROVE ret'[n] < INF \/ ToSeed(n)'
    <3>1. CASE Idle(s)
      BY <2>2, <3>1 DEF Idle
    <3>2. CASE ExploreFrontier(s)
      <4>1. s # t
        BY <2>1, <3>2, SeedsFirst
      <4>2. seeding' = seeding /\ DOMAIN iq0 = tiles
        BY <2>3, <3>2 DEF ExploreFrontier, T4
      <4>3. iq0'[t] = iq0[t]
        BY <3>2, <4>1, <4>2 DEF ExploreFrontier, T4
      <4>4. QED
        BY <2>2, <4>2, <4>3
    <3>3. CASE T2(s) \/ T3(s)
      BY <2>2, <3>3 DEF T2, T3
    <3>4. CASE T1(s) /\ s # t
      <4>1. iq0'[t] = iq0[t] /\ seeding'[t] = seeding[t]
        BY <2>3, <3>4 DEF T1, T1Resume, T1Seed, T1Node
      <4>2. QED
        BY <2>2, <4>1
    <3>5. CASE T1(s) /\ s = t /\ iq0[s] # <<>>
      <4>1. CASE T1Resume(t)
        BY <2>1, <2>2, <2>3, <4>1 DEF T1Resume, Popped
      <4>2. CASE T1Node(t)
        BY <2>1, <4>2 DEF T1Node
      <4>3. CASE T1Seed(t)
        BY <1>1, <1>4, <2>1, <3>5, <4>3, SeedsGoOn
      <4>4. QED
        BY <3>5, <4>1, <4>2, <4>3 DEF T1
    <3>6. CASE Run(s)
      <4>1. runnable(s, 0) => iq0[s] # <<>>
        BY MayRun
      <4>2. QED
        BY <3>3, <3>4, <3>5, <3>6, <4>1, RunsOne
    <3>7. QED
      BY <2>4, <3>1, <3>2, <3>6 DEF Visit
  <2>5. CASE UNCHANGED <<iq0, seeding>>
    BY <2>2, <2>5
  <2>6. ASSUME NEW s \in tiles, NEW q \in 1 .. 2, InjectAny(s, q) PROVE UNCHANGED <<iq0, seeding>>
    BY <2>6 DEF InjectAny, Inject
  <2>7. ASSUME NEW s \in tiles, NEW d \in tiles, NEW q \in 1 .. 2, DeliverAny(s, d, q) PROVE UNCHANGED <<iq0, seeding>>
    BY <2>7 DEF DeliverAny, Deliver
  <2>8. CASE EndEpoch \/ UNCHANGED vars
    BY <2>5, <2>8 DEF EndEpoch, vars
  <2>9. QED
    BY <2>4, <2>5, <2>6, <2>7, <2>8 DEF Next
<1>5. APP = "WCC" => \A n \in nodes : ret'[n] < INF \/ ToSeed(n)'
  BY <1>2, <1>4 DEF Begun
<1>6. QED
  BY <1>2, <1>3, <1>5 DEF Begun

LEMMA InitBegun ==
  ASSUME Init
  PROVE  Begun
<1>1. /\ ret = [n \in nodes |-> IF APP = "SSSP" /\ n = 0 THEN 0 ELSE INF]
      /\ seeding = [t \in tiles |-> APP = "WCC"]
      /\ iq0 = [t \in tiles |-> IF APP = "WCC" THEN <<Seed(nodePerTile * t)>>
                                 ELSE IF t = 0 THEN <<Node(0)>> ELSE <<>>]
  BY DEF Init
<1>2. INF \in Nat /\ 0 \in nodes
  BY Constants
<1>3. ASSUME APP = "WCC", NEW n \in nodes PROVE ToSeed(n)
  <2>1. PICK t \in tiles : t = OwnerOfNode(n)
    BY OwnersAreTiles
  <2>2. Head(iq0[t]) = Seed(nodePerTile * t) /\ seeding[t]
    <3>1. iq0[t] = <<Seed(nodePerTile * t)>> /\ seeding[t]
      BY <1>1, <1>3
    <3>2. QED
      BY <3>1
  <2>3. nodePerTile * t <= n
    <3>1. n \in Nat /\ nodePerTile \in Nat \ {0}
      BY Constants, EntriesAre
    <3>2. QED
      BY <2>1, <3>1, Division DEF OwnerOfNode
  <2>4. QED
    BY <2>1, <2>2, <2>3 DEF ToSeed, Seed
<1>4. QED
  BY <1>1, <1>2, <1>3 DEF Begun

AllSound == \A A : Possible(A) => Sound(A)

LEMMA Soundness == Spec => [](Begun /\ AllSound)
<1>1. Init => Begun /\ AllSound
  BY InitBegun, InitSound DEF AllSound
<1>2. Safe /\ Begun /\ AllSound /\ [Next]_vars => (Begun /\ AllSound)'
  <2>1. SUFFICES ASSUME Safe, Begun, AllSound, [Next]_vars PROVE Begun' /\ AllSound'
    OBVIOUS
  <2>2. Begun'
    BY <2>1, NextStep, BegunStays
  <2>3. ASSUME NEW A, Possible(A) PROVE Sound(A)'
    BY <2>1, <2>3, SoundStays DEF AllSound
  <2>4. QED
    BY <2>2, <2>3 DEF AllSound
<1>3. QED
  BY <1>1, <1>2, Invariance, PTL DEF Spec
-----------------------------------------------------------------------------
(* What the values are in the end.                                         *)
Relaxed == \A u \in nodes : ret[u] < INF => \A e \in Followed(u) : ret[edge_array[e]] <= ret[u] + Weight(e)

LEMMA EndsRelaxed ==
  ASSUME Safe, NoneLost, Finished
  PROVE  Relaxed
<1>1. ASSUME NEW u \in nodes, ret[u] < INF, NEW e \in Followed(u)
      PROVE  ret[edge_array[e]] <= ret[u] + Weight(e)
  <2>1. Followable(u, e)
    BY DEF Followed, Followable
  <2>2. ~Underway(u, e)
    BY AtRest
  <2>3. QED
    BY <1>1, <2>1, <2>2 DEF NoneLost
<1>2. QED
  BY <1>1 DEF Relaxed

(* A potential allows a node the values that are not below it.             *)
Potentials == {d \in [nodes -> 0 .. INF] :
                 /\ d[0] = 0
                 /\ \A u \in nodes : \A e \in Followed(u) : d[edge_array[e]] <= d[u] + edge_values[e]}

PathsRight == APP = "SSSP" => /\ \A d \in Potentials : \A n \in nodes : d[n] <= ret[n]
                              /\ Finished => ret \in Potentials

LEMMA FollowedLead ==
  ASSUME NEW u \in nodes, NEW e \in Followed(u)
  PROVE  edge_array[e] \in nodes /\ Weight(e) \in Nat
BY EdgesLead DEF Followed, Followable

LEMMA PotentialsAllow ==
  ASSUME APP = "SSSP", NEW d \in Potentials
  PROVE  Possible([n \in nodes |-> {v \in Nat : d[n] <= v}])
<1> DEFINE A == [n \in nodes |-> {v \in Nat : d[n] <= v}]
<1>1. d \in [nodes -> 0 .. INF] /\ d[0] = 0 /\ INF \in Nat /\ 0 \in nodes
  BY Constants DEF Potentials
<1>2. A \in [nodes -> SUBSET Nat] /\ (\A n \in nodes : INF \in A[n]) /\ 0 \in A[0]
  BY <1>1
<1>3. ASSUME NEW u \in nodes, NEW e \in Followed(u), NEW v \in A[u] PROVE v + Weight(e) \in A[edge_array[e]]
  <2>1. edge_array[e] \in nodes /\ Weight(e) \in Nat /\ Weight(e) = edge_values[e]
    BY FollowedLead DEF Weight
  <2>2. PICK a \in Nat, b \in Nat, w \in Nat : a = d[u] /\ b = d[edge_array[e]] /\ w = Weight(e)
    BY <1>1, <2>1
  <2>3. b <= a + w
    BY <2>1, <2>2 DEF Potentials
  <2>4. v \in Nat /\ a <= v
    BY <2>2
  <2>5. v + w \in Nat /\ b <= v + w
    BY <2>3, <2>4
  <2>6. QED
    BY <2>1, <2>2, <2>5
<1>4. QED
  BY <1>2, <1>3 DEF Possible

LEMMA PathsAreRight ==
  ASSUME Safe, NoneLost, Begun, AllSound
  PROVE  PathsRight
<1>1. SUFFICES ASSUME APP = "SSSP"
               PROVE  /\ \A d \in Potentials : \A n \in nodes : d[n] <= ret[n]
                      /\ Finished => ret \in Potentials
  BY DEF PathsRight
<1>2. ASSUME NEW d \in Potentials, NEW n \in nodes PROVE d[n] <= ret[n]
  <2>1. Sound([k \in nodes |-> {v \in Nat : d[k] <= v}])
    BY <1>1, PotentialsAllow DEF AllSound
  <2>2. QED
    BY <2>1 DEF Sound
<1>3. ASSUME Finished PROVE ret \in Potentials
  <2>1. /\ ret \in [nodes -> Nat] /\ (\A n \in nodes : ret[n] <= INF) /\ ret[0] = 0 /\ INF \in Nat
    BY <1>1, Constants DEF Safe, Shapes, Begun
  <2>2. ret \in [nodes -> 0 .. INF]
    BY <2>1
  <2>3. ASSUME NEW u \in nodes, NEW e \in Followed(u) PROVE ret[edge_array[e]] <= ret[u] + edge_values[e]
    <3>1. edge_array[e] \in nodes /\ Weight(e) \in Nat /\ Weight(e) = edge_values[e]
      BY <1>1, FollowedLead DEF Weight
    <3>2. ret[u] < INF => ret[edge_array[e]] <= ret[u] + Weight(e)
      BY <1>3, EndsRelaxed DEF Relaxed
    <3>3. ret[edge_array[e]] \in Nat /\ ret[edge_array[e]] <= INF /\ ret[u] \in Nat /\ ret[u] <= INF
      BY <2>1, <3>1
    <3>4. QED
      BY <2>1, <3>1, <3>2, <3>3
  <2>4. QED
    BY <2>1, <2>2, <2>3 DEF Potentials
<1>4. QED
  BY <1>2, <1>3

(* A colouring gives both ends of every edge the same colour.              *)
Colourings == {c \in [nodes -> nodes] : \A u \in nodes : \A e \in Followed(u) : c[edge_array[e]] = c[u]}
Alike(m, n) == \A c \in Colourings : c[m] = c[n]
Undirected == \A u \in nodes : \A e \in Followed(u) : \E f \in Followed(edge_array[e]) : edge_array[f] = u

LabelsRight == APP = "WCC" =>
  /\ \A n \in nodes : ret[n] = INF \/ (ret[n] \in nodes /\ Alike(ret[n], n))
  /\ Finished /\ Undirected => \A m, n \in nodes : ret[m] = ret[n] <=> Alike(m, n)

LEMMA ColouringsAllow ==
  ASSUME APP = "WCC"
  PROVE  Possible([n \in nodes |-> {v \in Nat : v = INF \/ (v \in nodes /\ Alike(v, n))}])
<1> DEFINE A == [n \in nodes |-> {v \in Nat : v = INF \/ (v \in nodes /\ Alike(v, n))}]
<1>1. INF \in Nat /\ nodes \subseteq Nat
  BY Constants, EntriesAre
<1>2. A \in [nodes -> SUBSET Nat] /\ \A n \in nodes : INF \in A[n]
  BY <1>1
<1>3. \A n \in nodes : n \in A[n]
  BY <1>1 DEF Alike
<1>4. ASSUME NEW u \in nodes, NEW e \in Followed(u), NEW v \in A[u] PROVE v + Weight(e) \in A[edge_array[e]]
  <2>1. edge_array[e] \in nodes /\ Weight(e) = 0
    BY FollowedLead DEF Weight
  <2>2. v \in Nat /\ v + Weight(e) = v /\ (v = INF \/ (v \in nodes /\ Alike(v, u)))
    BY <2>1
  <2>3. Alike(v, u) => Alike(v, edge_array[e])
    BY DEF Alike, Colourings
  <2>4. v \in A[edge_array[e]]
    BY <2>1, <2>2, <2>3
  <2>5. QED
    BY <2>2, <2>4
<1>5. QED
  BY <1>2, <1>3, <1>4 DEF Possible

LEMMA LabelledAtRest ==
  ASSUME Safe, Begun, Finished, APP = "WCC", NEW n \in nodes
  PROVE  ret[n] < INF
<1>1. PICK t \in tiles : t = OwnerOfNode(n)
  BY OwnersAreTiles
<1>2. iq0[t] = <<>> /\ Work(iq0[t], parked[t], seeding[t], epoch_begin[t])
  BY DEF Finished, QueuesEmpty, pu_idle, Safe, WorkRight
<1>3. Len(iq0[t]) = 0
  BY <1>2
<1>4. ~seeding[t]
  BY <1>2, <1>3 DEF Work
<1>5. QED
  BY <1>1, <1>4 DEF Begun, ToSeed

LEMMA LabelsAreRight ==
  ASSUME Safe, NoneLost, Begun, AllSound
  PROVE  LabelsRight
<1>1. SUFFICES ASSUME APP = "WCC"
               PROVE  /\ \A n \in nodes : ret[n] = INF \/ (ret[n] \in nodes /\ Alike(ret[n], n))
                      /\ Finished /\ Undirected => \A m, n \in nodes : ret[m] = ret[n] <=> Alike(m, n)
  BY DEF LabelsRight
<1>2. ASSUME NEW n \in nodes PROVE ret[n] = INF \/ (ret[n] \in nodes /\ Alike(ret[n], n))
  <2>1. Sound([k \in nodes |-> {v \in Nat : v = INF \/ (v \in nodes /\ Alike(v, k))}])
    BY <1>1, ColouringsAllow DEF AllSound
  <2>2. QED
    BY <2>1 DEF Sound
<1>3. ASSUME Finished, Undirected, NEW m \in nodes, NEW n \in nodes PROVE ret[m] = ret[n] <=> Alike(m, n)
  <2>1. ASSUME NEW k \in nodes PROVE ret[k] \in nodes /\ Alike(ret[k], k) /\ ret[k] < INF
    <3>1. ret[k] < INF
      BY <1>1, <1>3, LabelledAtRest
    <3>2. ret[k] \in Nat /\ INF \in Nat
      BY Constants DEF Safe, Shapes
    <3>3. QED
      BY <1>2, <3>1, <3>2
  <2>2. ASSUME NEW u \in nodes, NEW e \in Followed(u) PROVE ret[edge_array[e]] <= ret[u]
    <3>1. edge_array[e] \in nodes /\ Weight(e) = 0
      BY <1>1, FollowedLead DEF Weight
    <3>2. ret[edge_array[e]] <= ret[u] + Weight(e)
      BY <1>3, <2>1, EndsRelaxed DEF Relaxed
    <3>3. ret[u] \in Nat
      BY DEF Safe, Shapes
    <3>4. QED
      BY <3>1, <3>2, <3>3
  <2>3. ASSUME NEW u \in nodes, NEW e \in Followed(u) PROVE ret[edge_array[e]] = ret[u]
    <3>1. edge_array[e] \in nodes
      BY FollowedLead
    <3>2. PICK f \in Followed(edge_array[e]) : edge_array[f] = u
      BY <1>3 DEF Undirected
    <3>3. ret[edge_array[e]] <= ret[u] /\ ret[u] <= ret[edge_array[e]]
      BY <2>2, <3>1, <3>2
    <3>4. ret[u] \in Nat /\ ret[edge_array[e]] \in Nat
      BY <3>1 DEF Safe, Shapes
    <3>5. QED
      BY <3>3, <3>4
  <2>4. ret \in Colourings
    <3>1. ret \in [nodes -> nodes]
      BY <2>1 DEF Safe, Shapes
    <3>2. QED
      BY <2>3, <3>1 DEF Colourings
  <2>5. Alike(m, n) => ret[m] = ret[n]
    BY <2>4 DEF Alike
  <2>6. ASSUME ret[m] = ret[n], NEW c \in Colourings PROVE c[m] = c[n]
    <3>1. c[ret[m]] = c[m] /\ c[ret[n]] = c[n]
      BY <2>1 DEF Alike
    <3>2. QED
      BY <2>6, <3>1
  <2>7. QED
    BY <2>5, <2>6 DEF Alike
<1>4. QED
  BY <1>2, <1>3
-----------------------------------------------------------------------------
(* Rounds: what starts in a set and steps within it does so for any number *)
(* of rounds.                                                              *)

LEMMA Rises ==
  ASSUME NEW K \in Nat, NEW P, 0 \in P, \A k \in 0 .. K - 1 : k \in P => k + 1 \in P
  PROVE  \A k \in 0 .. K : k \in P
<1> DEFINE Missed == {k \in 0 .. K : k \notin P}
<1>1. SUFFICES ASSUME Missed # {} PROVE FALSE
  OBVIOUS
<1>2. Missed \in SUBSET Nat
  OBVIOUS
<1>3. PICK m \in Nat : m \in Missed /\ \A y \in Missed : m <= y
  <2> HIDE DEF Missed
  <2>1. QED
    BY <1>1, <1>2, Least
<1>4. m - 1 \in 0 .. K - 1 /\ m - 1 + 1 = m
  BY <1>3
<1>5. m - 1 \notin Missed
  <2>1. ~ (m <= m - 1)
    BY <1>3
  <2>2. QED
    BY <1>3, <2>1
<1>6. QED
  BY <1>3, <1>4, <1>5

LEMMA RoundsExist ==
  ASSUME NEW K \in Nat, NEW V, NEW v \in V, NEW F \in [V -> V]
  PROVE  \E g \in [0 .. K -> V] : g = [k \in 0 .. K |-> IF k = 0 THEN v ELSE F[g[k - 1]]]
<1> DEFINE Runs(g, k) == g[0] = v /\ \A i \in 1 .. k : g[i] = F[g[i - 1]]
           P == {k \in 0 .. K : \E g \in [0 .. k -> V] : Runs(g, k)}
<1>1. 0 \in P
  <2> DEFINE g == [i \in 0 .. 0 |-> v]
  <2>1. g \in [0 .. 0 -> V] /\ Runs(g, 0)
    OBVIOUS
  <2> HIDE DEF g, Runs
  <2>2. 0 \in 0 .. K
    OBVIOUS
  <2>3. QED
    BY <2>1, <2>2
<1>2. ASSUME NEW k \in 0 .. K - 1, k \in P PROVE k + 1 \in P
  <2>1. PICK g \in [0 .. k -> V] : Runs(g, k)
    BY <1>2
  <2> DEFINE h == [i \in 0 .. k + 1 |-> IF i = k + 1 THEN F[g[k]] ELSE g[i]]
  <2>2. h \in [0 .. k + 1 -> V]
    OBVIOUS
  <2>3. h[0] = v
    BY <2>1
  <2>4. ASSUME NEW i \in 1 .. k + 1 PROVE h[i] = F[h[i - 1]]
    <3>1. CASE i = k + 1
      BY <3>1
    <3>2. CASE i \in 1 .. k
      <4>1. h[i] = g[i] /\ h[i - 1] = g[i - 1]
        BY <3>2
      <4>2. QED
        BY <2>1, <3>2, <4>1
    <3>3. QED
      BY <3>1, <3>2
  <2>5. Runs(h, k + 1)
    BY <2>3, <2>4
  <2>6. k + 1 \in 0 .. K
    OBVIOUS
  <2> HIDE DEF h, Runs
  <2>7. QED
    BY <2>2, <2>5, <2>6
<1>3. K \in P
  <2> HIDE DEF P
  <2>1. QED
    BY <1>1, <1>2, Rises
<1>4. PICK g \in [0 .. K -> V] : Runs(g, K)
  BY <1>3
<1>5. \A k \in 0 .. K : g[k] = IF k = 0 THEN v ELSE F[g[k - 1]]
  BY <1>4
<1>6. g = [k \in 0 .. K |-> IF k = 0 THEN v ELSE F[g[k - 1]]]
  BY <1>5
<1>7. QED
  BY <1>6

-----------------------------------------------------------------------------
(* The rounds of relaxation that define Distances.                         *)
Outset == [n \in nodes |-> IF n = 0 THEN 0 ELSE INF]
Offered(d, n) == {d[n]} \union
                 UNION {{d[u] + edge_values[e] : e \in {f \in Followed(u) : edge_array[f] = n}} :
                          u \in {v \in nodes : d[v] < INF}}
Relaxing(d) == [n \in nodes |-> Min(Offered(d, n))]
IsRelaxation(g) == g = [k \in 0 .. Cardinality(nodes) |->
                          IF k = 0 THEN Outset ELSE Relaxing(g[k - 1])]

LEMMA CountNodes == IsFiniteSet(nodes) /\ Cardinality(nodes) \in Nat
<1>1. GRID_SIZE * nodePerTile \in Nat
  BY Constants
<1>2. IsFiniteSet(nodes)
  BY <1>1, FS_Interval DEF nodes
<1>3. QED
  BY <1>2, FS_CardinalityType

LEMMA DistancesAre == Distances = (CHOOSE g : IsRelaxation(g))[Cardinality(nodes)]
BY DEF Distances, IsRelaxation, Relaxing, Offered, Outset

LEMMA Relaxes ==
  ASSUME NEW d \in [nodes -> Nat]
  PROVE  /\ Relaxing(d) \in [nodes -> Nat]
         /\ \A n \in nodes : Relaxing(d)[n] <= d[n]
         /\ \A u \in nodes : \A e \in Followed(u) :
              d[u] < INF => Relaxing(d)[edge_array[e]] <= d[u] + edge_values[e]
         /\ \A n \in nodes : \/ Relaxing(d)[n] = d[n]
                             \/ \E u \in nodes : \E e \in Followed(u) :
                                  edge_array[e] = n /\ Relaxing(d)[n] = d[u] + edge_values[e]
<1>1. ASSUME NEW u \in nodes, NEW e \in Followed(u)
      PROVE  edge_array[e] \in nodes /\ edge_values[e] \in Nat
  <2>1. Followable(u, e)
    BY DEF Followed, Followable
  <2>2. QED
    BY <2>1, EdgesLead, TilesAssumption
<1>2. ASSUME NEW n \in nodes
      PROVE  /\ Min(Offered(d, n)) \in Nat /\ Min(Offered(d, n)) \in Offered(d, n)
             /\ \A y \in Offered(d, n) : Min(Offered(d, n)) <= y
  <2>1. Offered(d, n) \in SUBSET Nat
    BY <1>1 DEF Offered
  <2>2. Offered(d, n) # {}
    BY DEF Offered
  <2>3. QED
    BY <2>1, <2>2, Least
<1>3. \A n \in nodes : Relaxing(d)[n] = Min(Offered(d, n))
  BY DEF Relaxing
<1>4. Relaxing(d) \in [nodes -> Nat]
  BY <1>2 DEF Relaxing
<1>5. \A n \in nodes : Relaxing(d)[n] <= d[n]
  <2>1. \A n \in nodes : d[n] \in Offered(d, n)
    BY DEF Offered
  <2>2. QED
    BY <1>2, <1>3, <2>1
<1>6. ASSUME NEW u \in nodes, NEW e \in Followed(u), d[u] < INF
      PROVE  Relaxing(d)[edge_array[e]] <= d[u] + edge_values[e]
  <2>1. d[u] + edge_values[e] \in Offered(d, edge_array[e])
    BY <1>6 DEF Offered
  <2>2. QED
    BY <1>1, <1>2, <1>3, <2>1
<1>7. ASSUME NEW n \in nodes
      PROVE  \/ Relaxing(d)[n] = d[n]
             \/ \E u \in nodes : \E e \in Followed(u) :
                  edge_array[e] = n /\ Relaxing(d)[n] = d[u] + edge_values[e]
  <2>1. Relaxing(d)[n] \in Offered(d, n)
    BY <1>2, <1>3
  <2>2. QED
    BY <2>1 DEF Offered
<1>8. QED
  BY <1>4, <1>5, <1>6, <1>7

LEMMA RelaxationExists == IsRelaxation(CHOOSE g : IsRelaxation(g))
<1> DEFINE V == [nodes -> Nat]
           F == [d \in V |-> Relaxing(d)]
           N == Cardinality(nodes)
<1>1. N \in Nat /\ F \in [V -> V]
  BY CountNodes, Relaxes
<1>2. Outset \in V
  BY Constants DEF Outset
<1>3. PICK g \in [0 .. N -> V] : g = [k \in 0 .. N |-> IF k = 0 THEN Outset ELSE F[g[k - 1]]]
  <2> HIDE DEF V, F, N
  <2>1. QED
    BY <1>1, <1>2, RoundsExist
<1>4. ASSUME NEW k \in 0 .. N PROVE g[k] = IF k = 0 THEN Outset ELSE Relaxing(g[k - 1])
  <2>1. k # 0 => k - 1 \in 0 .. N
    BY <1>1
  <2>2. k # 0 => F[g[k - 1]] = Relaxing(g[k - 1])
    BY <1>3, <2>1
  <2> HIDE DEF V, F, N
  <2>3. g[k] = IF k = 0 THEN Outset ELSE F[g[k - 1]]
    BY <1>3
  <2>4. QED
    BY <2>2, <2>3
<1>5. IsRelaxation(g)
  BY <1>3, <1>4 DEF IsRelaxation
<1>6. QED
  BY <1>5

LEMMA Rounds ==
  ASSUME NEW g, IsRelaxation(g), NEW N, N = Cardinality(nodes)
  PROVE  /\ g[0] = Outset
         /\ \A k \in 0 .. N - 1 : g[k + 1] = Relaxing(g[k])
<1>1. N \in Nat
  BY CountNodes
<1>2. g[0] = Outset
  BY <1>1 DEF IsRelaxation
<1>3. ASSUME NEW k \in 0 .. N - 1 PROVE g[k + 1] = Relaxing(g[k])
  <2>1. k + 1 \in 0 .. N /\ k + 1 # 0 /\ k + 1 - 1 = k
    BY <1>1
  <2>2. \A i \in 0 .. N : g[i] = IF i = 0 THEN Outset ELSE Relaxing(g[i - 1])
    BY DEF IsRelaxation
  <2>3. g[k + 1] = Relaxing(g[k + 1 - 1])
    BY <2>1, <2>2
  <2>4. QED
    BY <2>1, <2>3
<1>4. QED
  BY <1>2, <1>3

(* The greatest potential, pointwise.                                      *)
Greatest(d) == d \in Potentials /\ \A c \in Potentials : \A n \in nodes : c[n] <= d[n]

LEMMA GreatestExists ==
  ASSUME APP = "SSSP"
  PROVE  \E d : Greatest(d)
<1> DEFINE Gaps(n) == {INF - d[n] : d \in Potentials}
           Top == [n \in nodes |-> INF - Min(Gaps(n))]
<1>1. ASSUME NEW u \in nodes, NEW e \in Followed(u)
      PROVE  edge_array[e] \in nodes /\ edge_values[e] \in Nat
  BY FollowedLead, SearchAssumption DEF Weight
<1>2. [n \in nodes |-> 0] \in Potentials
  BY <1>1, Constants DEF Potentials
<1>3. ASSUME NEW n \in nodes
      PROVE  \E d \in Potentials : Top[n] = d[n] /\ \A c \in Potentials : c[n] <= d[n]
  <2>1. Gaps(n) \in SUBSET Nat
    BY Constants DEF Potentials
  <2>2. Gaps(n) # {}
    BY <1>2
  <2>3. Min(Gaps(n)) \in Gaps(n) /\ \A y \in Gaps(n) : Min(Gaps(n)) <= y
    <3> HIDE DEF Gaps
    <3>1. QED
      BY <2>1, <2>2, Least
  <2>4. PICK d \in Potentials : Min(Gaps(n)) = INF - d[n]
    BY <2>3
  <2>5. \A c \in Potentials : c[n] \in 0 .. INF /\ INF \in Nat
    BY Constants DEF Potentials
  <2>6. Top[n] = d[n]
    <3>1. Top[n] = INF - (INF - d[n])
      BY <2>4
    <3>2. QED
      BY <2>5, <3>1
  <2>7. ASSUME NEW c \in Potentials PROVE c[n] <= d[n]
    <3>1. INF - d[n] <= INF - c[n]
      BY <2>3, <2>4
    <3>2. QED
      BY <2>5, <3>1
  <2>8. QED
    BY <2>6, <2>7
<1> HIDE DEF Gaps
<1>4. Top \in [nodes -> 0 .. INF]
  <2>1. ASSUME NEW n \in nodes PROVE Top[n] \in 0 .. INF
    BY <1>3 DEF Potentials
  <2>2. QED
    BY <2>1
<1>5. DOMAIN Top = nodes
  OBVIOUS
<1> HIDE DEF Top
<1>6. Top[0] = 0
  BY <1>3, Constants DEF Potentials
<1>7. ASSUME NEW u \in nodes, NEW e \in Followed(u) PROVE Top[edge_array[e]] <= Top[u] + edge_values[e]
  <2>1. PICK d \in Potentials : Top[edge_array[e]] = d[edge_array[e]]
    BY <1>1, <1>3
  <2>2. d[edge_array[e]] <= d[u] + edge_values[e] /\ d[u] \in Nat
    BY Constants DEF Potentials
  <2>3. d[u] <= Top[u]
    BY <1>3
  <2>4. Top[u] \in Nat /\ Top[edge_array[e]] \in Nat /\ edge_values[e] \in Nat
    BY <1>1, <1>4
  <2>5. QED
    BY <2>1, <2>2, <2>3, <2>4
<1>8. Top \in Potentials
  BY <1>4, <1>6, <1>7 DEF Potentials
<1>9. QED
  BY <1>3, <1>8 DEF Greatest

(* Among nodes that a set without node 0 leaves out, some edge from the    *)
(* others is tight: else all of the set could have greater values.         *)
LEMMA TightEdge ==
  ASSUME APP = "SSSP", NEW D, Greatest(D), NEW S \in SUBSET nodes, 0 \in S,
         NEW x \in nodes, x \notin S, \A n \in nodes : n \notin S => D[n] < INF
  PROVE  \E u \in S : \E e \in Followed(u) :
           edge_array[e] \notin S /\ D[edge_array[e]] = D[u] + edge_values[e]
<1>1. ASSUME NEW u \in nodes, NEW e \in Followed(u)
      PROVE  edge_array[e] \in nodes /\ edge_values[e] \in Nat
  BY FollowedLead, SearchAssumption DEF Weight
<1>2. D \in [nodes -> 0 .. INF] /\ D[0] = 0 /\ INF \in Nat /\ 0 \in nodes
  BY Constants DEF Greatest, Potentials
<1> DEFINE Up == [n \in nodes |-> IF n \in S THEN D[n] ELSE D[n] + 1]
<1>3. SUFFICES ASSUME \A u \in S : \A e \in Followed(u) :
                        edge_array[e] \in S \/ D[edge_array[e]] # D[u] + edge_values[e]
               PROVE  FALSE
  OBVIOUS
<1>4. Up \in [nodes -> 0 .. INF]
  BY <1>2
<1>5. Up[0] = 0
  BY <1>2
<1>6. ASSUME NEW u \in nodes, NEW e \in Followed(u) PROVE Up[edge_array[e]] <= Up[u] + edge_values[e]
  <2>1. D[edge_array[e]] <= D[u] + edge_values[e]
    BY DEF Greatest, Potentials
  <2>2. D[u] \in Nat /\ D[edge_array[e]] \in Nat /\ edge_values[e] \in Nat /\ edge_array[e] \in nodes
    BY <1>1, <1>2
  <2>3. PICK a \in Nat, b \in Nat, w \in Nat : a = D[u] /\ b = D[edge_array[e]] /\ w = edge_values[e]
    BY <2>2
  <2>4. b <= a + w
    BY <2>1, <2>3
  <2>5. CASE u \in S /\ edge_array[e] \notin S
    <3>1. b # a + w
      BY <1>3, <2>3, <2>5
    <3>2. Up[u] = a /\ Up[edge_array[e]] = b + 1
      BY <2>2, <2>3, <2>5
    <3>3. b + 1 <= a + w
      BY <2>4, <3>1
    <3>4. QED
      BY <2>3, <3>2, <3>3
  <2>6. CASE u \notin S \/ edge_array[e] \in S
    <3>1. Up[edge_array[e]] \in {b, b + 1} /\ Up[u] \in {a, a + 1}
      BY <2>2, <2>3
    <3>2. Up[edge_array[e]] = b + 1 => Up[u] = a + 1
      BY <2>2, <2>3, <2>6
    <3>3. QED
      BY <2>3, <2>4, <3>1, <3>2
  <2>7. QED
    BY <2>5, <2>6
<1>7. Up \in Potentials
  BY <1>4, <1>5, <1>6 DEF Potentials
<1>8. Up[x] <= D[x]
  BY <1>7 DEF Greatest
<1>9. QED
  BY <1>2, <1>8

(* After k rounds the values of more than k nodes are those of the         *)
(* greatest potential, or of all nodes.                                    *)
Settled(D, d) == {n \in nodes : d[n] = D[n]}
Nearing(D, d, k) == /\ d \in [nodes -> Nat]
                    /\ \A n \in nodes : D[n] <= d[n] /\ d[n] <= INF
                    /\ 0 \in Settled(D, d)
                    /\ Settled(D, d) = nodes \/ Cardinality(Settled(D, d)) > k

LEMMA RoundNears ==
  ASSUME APP = "SSSP", NEW D, Greatest(D), NEW k \in Nat, NEW d, Nearing(D, d, k)
  PROVE  Nearing(D, Relaxing(d), k + 1)
<1> DEFINE r == Relaxing(d)
           S == Settled(D, d)
<1>1. d \in [nodes -> Nat] /\ \A n \in nodes : D[n] <= d[n] /\ d[n] <= INF
  BY DEF Nearing
<1>2. D \in [nodes -> 0 .. INF] /\ D[0] = 0 /\ INF \in Nat /\ 0 \in nodes
  BY Constants DEF Greatest, Potentials
<1>3. ASSUME NEW u \in nodes, NEW e \in Followed(u)
      PROVE  /\ edge_array[e] \in nodes /\ edge_values[e] \in Nat
             /\ D[edge_array[e]] <= D[u] + edge_values[e]
  BY FollowedLead, SearchAssumption DEF Weight, Greatest, Potentials
<1>4. /\ r \in [nodes -> Nat]
      /\ \A n \in nodes : r[n] <= d[n]
      /\ \A u \in nodes : \A e \in Followed(u) : d[u] < INF => r[edge_array[e]] <= d[u] + edge_values[e]
      /\ \A n \in nodes : \/ r[n] = d[n]
                          \/ \E u \in nodes : \E e \in Followed(u) :
                               edge_array[e] = n /\ r[n] = d[u] + edge_values[e]
  BY <1>1, Relaxes
<1> HIDE DEF r
<1>5. ASSUME NEW n \in nodes PROVE D[n] <= r[n] /\ r[n] <= INF
  <2>1. CASE r[n] = d[n]
    BY <1>1, <2>1
  <2>2. ASSUME NEW u \in nodes, NEW e \in Followed(u), edge_array[e] = n, r[n] = d[u] + edge_values[e]
        PROVE  D[n] <= r[n]
    <3>1. D[n] <= D[u] + edge_values[e] /\ D[u] <= d[u]
      BY <1>1, <1>3, <2>2
    <3>2. D[n] \in Nat /\ D[u] \in Nat /\ d[u] \in Nat /\ edge_values[e] \in Nat
      BY <1>1, <1>2, <1>3
    <3>3. QED
      BY <2>2, <3>1, <3>2
  <2>3. D[n] <= r[n]
    BY <1>4, <2>1, <2>2
  <2>4. r[n] <= d[n] /\ d[n] <= INF
    BY <1>1, <1>4
  <2>5. QED
    BY <1>1, <1>2, <1>4, <2>3, <2>4
<1>6. S \subseteq Settled(D, r)
  <2>1. ASSUME NEW n \in S PROVE n \in nodes /\ r[n] = D[n]
    <3>1. n \in nodes /\ d[n] = D[n] /\ D[n] <= r[n] /\ r[n] <= d[n]
      BY <1>4, <1>5 DEF Settled
    <3>2. QED
      BY <1>2, <1>4, <3>1
  <2>2. QED
    BY <2>1 DEF Settled
<1>7. 0 \in S /\ S \in SUBSET nodes
  BY DEF Nearing, Settled
<1>8. S = nodes \/ Cardinality(S) > k
  BY DEF Nearing
<1>9. Settled(D, r) = nodes \/ Cardinality(Settled(D, r)) > k + 1
  <2>1. CASE S = nodes
    BY <1>6, <2>1 DEF Settled
  <2>2. CASE S # nodes
    <3>1. PICK x \in nodes : x \notin S
      BY <1>7, <2>2
    <3>2. ASSUME NEW n \in nodes, n \notin S PROVE D[n] < INF
      <4>1. d[n] # D[n] /\ D[n] <= d[n] /\ d[n] <= INF /\ d[n] \in Nat /\ D[n] \in Nat
        BY <1>1, <1>2, <3>2 DEF Settled
      <4>2. QED
        BY <1>2, <4>1
    <3>3. PICK u \in S : \E e \in Followed(u) :
             edge_array[e] \notin S /\ D[edge_array[e]] = D[u] + edge_values[e]
      <4> HIDE DEF S
      <4>1. QED
        BY <1>7, <3>1, <3>2, TightEdge
    <3>4. PICK e \in Followed(u) : edge_array[e] \notin S /\ D[edge_array[e]] = D[u] + edge_values[e]
      BY <3>3
    <3>5. PICK n \in nodes : n = edge_array[e] /\ n \notin S /\ u \in nodes /\ edge_values[e] \in Nat
      BY <1>3, <1>7, <3>4
    <3>6. d[u] = D[u] /\ D[u] \in Nat /\ D[n] = D[u] + edge_values[e] /\ D[n] < INF
      BY <1>2, <3>2, <3>4, <3>5 DEF Settled
    <3>7. r[n] <= D[n]
      <4>1. d[u] < INF
        BY <1>2, <3>5, <3>6
      <4>2. QED
        BY <1>4, <3>5, <3>6, <4>1
    <3>8. n \in Settled(D, r)
      <4>1. r[n] = D[n]
        BY <1>2, <1>4, <1>5, <3>7
      <4>2. QED
        BY <4>1 DEF Settled
    <3>9. IsFiniteSet(S) /\ IsFiniteSet(Settled(D, r))
      BY CountNodes, FS_Subset, <1>7 DEF Settled
    <3>10. Cardinality(S \union {n}) = Cardinality(S) + 1 /\ Cardinality(S) \in Nat
      BY <3>5, <3>9, FS_AddElement, FS_CardinalityType
    <3>11. S \union {n} \in SUBSET Settled(D, r)
      BY <1>6, <3>8
    <3>12. Cardinality(S \union {n}) <= Cardinality(Settled(D, r)) /\ Cardinality(Settled(D, r)) \in Nat
      BY <3>9, <3>11, FS_Subset, FS_CardinalityType
    <3>13. QED
      BY <1>8, <2>2, <3>10, <3>12
  <2>3. QED
    BY <2>1, <2>2
<1>10. QED
  BY <1>4, <1>5, <1>6, <1>7, <1>9 DEF Nearing, r

LEMMA DistancesGreatest ==
  ASSUME APP = "SSSP"
  PROVE  Greatest(Distances)
<1> DEFINE N == Cardinality(nodes)
           g == CHOOSE h : IsRelaxation(h)
<1>1. PICK D : Greatest(D)
  BY GreatestExists
<1>2. /\ D \in [nodes -> 0 .. INF] /\ D[0] = 0 /\ INF \in Nat /\ 0 \in nodes
      /\ N \in Nat
  <2>1. D \in Potentials
    BY <1>1 DEF Greatest
  <2>2. QED
    BY <2>1, CountNodes, Constants DEF Potentials
<1>3. g[0] = Outset /\ \A k \in 0 .. N - 1 : g[k + 1] = Relaxing(g[k])
  <2>1. IsRelaxation(g)
    BY RelaxationExists
  <2> HIDE DEF g
  <2>2. QED
    BY <2>1, Rounds
<1>4. Distances = g[N]
  BY DistancesAre
<1> HIDE DEF g
<1>5. Nearing(D, g[0], 0)
  <2>1. Outset \in [nodes -> Nat] /\ \A n \in nodes : D[n] <= Outset[n] /\ Outset[n] <= INF
    BY <1>2 DEF Outset
  <2>2. 0 \in Settled(D, Outset)
    BY <1>2 DEF Outset, Settled
  <2>3. Settled(D, Outset) \in SUBSET nodes
    BY DEF Settled
  <2>4. IsFiniteSet(Settled(D, Outset))
    BY <2>3, CountNodes, FS_Subset
  <2>5. Cardinality(Settled(D, Outset)) > 0
    BY <2>2, <2>4, FS_EmptySet, FS_CardinalityType
  <2>6. QED
    BY <1>3, <2>1, <2>2, <2>5 DEF Nearing
<1>6. Nearing(D, g[N], N)
  <2> DEFINE P == {k \in Nat : Nearing(D, g[k], k)}
  <2> HIDE DEF N
  <2>1. 0 \in P
    BY <1>5
  <2>2. ASSUME NEW k \in 0 .. N - 1, k \in P PROVE k + 1 \in P
    <3>1. Nearing(D, Relaxing(g[k]), k + 1)
      BY <1>1, <2>2, RoundNears
    <3>2. QED
      BY <1>3, <3>1
  <2>3. \A k \in 0 .. N : k \in P
    <3> HIDE DEF P
    <3>1. QED
      BY <1>2, <2>1, <2>2, Rises
  <2>4. QED
    BY <1>2, <2>3
<1>7. Settled(D, g[N]) = nodes
  <2>1. Settled(D, g[N]) \in SUBSET nodes
    BY DEF Settled
  <2>2. IsFiniteSet(Settled(D, g[N])) /\ Cardinality(Settled(D, g[N])) <= N
    BY <2>1, CountNodes, FS_Subset
  <2>3. Cardinality(Settled(D, g[N])) \in Nat
    BY <2>2, FS_CardinalityType
  <2>4. ~ (Cardinality(Settled(D, g[N])) > N)
    BY <1>2, <2>2, <2>3
  <2>5. QED
    BY <1>6, <2>4 DEF Nearing
<1>8. g[N] = D
  <2>1. g[N] \in [nodes -> Nat] /\ \A n \in nodes : g[N][n] = D[n]
    BY <1>6, <1>7 DEF Nearing, Settled
  <2>2. QED
    BY <1>2, <2>1
<1>9. QED
  BY <1>1, <1>4, <1>8

LEMMA PathsAreShortest ==
  ASSUME APP = "SSSP", ret \in [nodes -> Nat], PathsRight
  PROVE  ShortestPaths
<1>1. Greatest(Distances)
  BY DistancesGreatest
<1>2. Distances \in [nodes -> Nat]
  BY <1>1, Constants DEF Greatest, Potentials
<1>3. ASSUME NEW n \in nodes PROVE Distances[n] <= ret[n]
  BY <1>1 DEF Greatest, PathsRight
<1>4. ASSUME Finished PROVE ret = Distances
  <2>1. ret \in Potentials
    BY <1>4 DEF PathsRight
  <2>2. \A n \in nodes : ret[n] <= Distances[n]
    BY <1>1, <2>1 DEF Greatest
  <2>3. \A n \in nodes : ret[n] = Distances[n]
    BY <1>2, <1>3, <2>2
  <2>4. QED
    BY <1>2, <2>3
<1>5. \A n \in nodes : ret[n] >= Distances[n]
  BY <1>2, <1>3
<1>6. QED
  BY <1>4, <1>5 DEF ShortestPaths

-----------------------------------------------------------------------------
(* The rounds that define Reaching.                                        *)
Alone == [n \in nodes |-> {n}]
Spreading(h) == [n \in nodes |-> h[n] \union
                   UNION {h[u] : u \in {v \in nodes : \E f \in Followed(v) : edge_array[f] = n}}]
IsSpread(g) == g = [k \in 0 .. Cardinality(nodes) |-> IF k = 0 THEN Alone ELSE Spreading(g[k - 1])]

LEMMA ReachingIs == Reaching = (CHOOSE g : IsSpread(g))[Cardinality(nodes)]
BY DEF Reaching, IsSpread, Spreading, Alone

LEMMA SpreadExists == IsSpread(CHOOSE g : IsSpread(g))
<1> DEFINE V == [nodes -> SUBSET nodes]
           F == [h \in V |-> Spreading(h)]
           N == Cardinality(nodes)
<1>1. N \in Nat /\ F \in [V -> V]
  BY CountNodes DEF Spreading
<1>2. Alone \in V
  BY DEF Alone
<1>3. PICK g \in [0 .. N -> V] : g = [k \in 0 .. N |-> IF k = 0 THEN Alone ELSE F[g[k - 1]]]
  <2> HIDE DEF V, F, N
  <2>1. QED
    BY <1>1, <1>2, RoundsExist
<1>4. ASSUME NEW k \in 0 .. N PROVE g[k] = IF k = 0 THEN Alone ELSE Spreading(g[k - 1])
  <2>1. k # 0 => k - 1 \in 0 .. N
    BY <1>1
  <2>2. k # 0 => F[g[k - 1]] = Spreading(g[k - 1])
    BY <1>3, <2>1
  <2> HIDE DEF V, F, N
  <2>3. g[k] = IF k = 0 THEN Alone ELSE F[g[k - 1]]
    BY <1>3
  <2>4. QED
    BY <2>2, <2>3
<1>5. IsSpread(g)
  BY <1>3, <1>4 DEF IsSpread
<1>6. QED
  BY <1>5

LEMMA SpreadRounds ==
  ASSUME NEW g, IsSpread(g), NEW N, N = Cardinality(nodes)
  PROVE  /\ g[0] = Alone
         /\ \A k \in 0 .. N - 1 : g[k + 1] = Spreading(g[k])
<1>1. N \in Nat
  BY CountNodes
<1>2. g[0] = Alone
  BY <1>1 DEF IsSpread
<1>3. ASSUME NEW k \in 0 .. N - 1 PROVE g[k + 1] = Spreading(g[k])
  <2>1. k + 1 \in 0 .. N /\ k + 1 # 0 /\ k + 1 - 1 = k
    BY <1>1
  <2>2. \A i \in 0 .. N : g[i] = IF i = 0 THEN Alone ELSE Spreading(g[i - 1])
    BY DEF IsSpread
  <2>3. g[k + 1] = Spreading(g[k + 1 - 1])
    BY <2>1, <2>2
  <2>4. QED
    BY <2>1, <2>3
<1>4. QED
  BY <1>2, <1>3

(* The nodes that node s reaches, and sets that no edge leaves.            *)
Reached(h, s) == {n \in nodes : s \in h[n]}
Closed(T) == \A u \in T : \A e \in Followed(u) : edge_array[e] \in T

(* After k rounds node s reaches more than k nodes, or all it ever does,   *)
(* and no node outside a closed set that it is in.                         *)
Reaches(h, s, k) == /\ h \in [nodes -> SUBSET nodes]
                    /\ s \in Reached(h, s)
                    /\ Closed(Reached(h, s)) \/ Cardinality(Reached(h, s)) > k
                    /\ \A T \in SUBSET nodes : s \in T /\ Closed(T) => Reached(h, s) \subseteq T

LEMMA SpreadGains ==
  ASSUME NEW s \in nodes, NEW k \in Nat, NEW h, Reaches(h, s, k)
  PROVE  Reaches(Spreading(h), s, k + 1)
<1> DEFINE r == Spreading(h)
           R == Reached(h, s)
           Q == Reached(r, s)
<1>1. h \in [nodes -> SUBSET nodes]
  BY DEF Reaches
<1>2. r \in [nodes -> SUBSET nodes]
  BY <1>1 DEF Spreading
<1>3. ASSUME NEW n \in nodes
      PROVE  n \in Q <=> n \in R \/ \E u \in R : \E e \in Followed(u) : edge_array[e] = n
  <2>1. r[n] = h[n] \union UNION {h[u] : u \in {v \in nodes : \E f \in Followed(v) : edge_array[f] = n}}
    BY DEF Spreading
  <2>2. n \in Q <=> s \in r[n]
    BY DEF Reached
  <2>3. n \in R <=> s \in h[n]
    BY DEF Reached
  <2> HIDE DEF r, Q
  <2>4. QED
    BY <2>1, <2>2, <2>3 DEF Reached
<1>4. R \in SUBSET nodes /\ Q \in SUBSET nodes /\ s \in R
  BY DEF Reached, Reaches
<1>5. \A u \in nodes : \A e \in Followed(u) : edge_array[e] \in nodes
  BY FollowedLead
<1>6. Closed(R) \/ Cardinality(R) > k
  BY DEF Reaches
<1>7. \A T \in SUBSET nodes : s \in T /\ Closed(T) => R \subseteq T
  BY DEF Reaches
<1> HIDE DEF r, R, Q
<1>8. R \subseteq Q
  BY <1>3, <1>4
<1>9. Closed(Q) \/ Cardinality(Q) > k + 1
  <2>1. CASE Closed(R)
    <3>1. Q = R
      BY <1>3, <1>4, <2>1 DEF Closed
    <3>2. QED
      BY <2>1, <3>1
  <2>2. CASE ~Closed(R)
    <3>1. PICK u \in R : \E e \in Followed(u) : edge_array[e] \notin R
      BY <2>2 DEF Closed
    <3>2. PICK n \in nodes : n \in Q /\ n \notin R
      BY <1>3, <1>4, <1>5, <3>1
    <3>3. IsFiniteSet(R) /\ IsFiniteSet(Q)
      BY <1>4, CountNodes, FS_Subset
    <3>4. Cardinality(R \union {n}) = Cardinality(R) + 1 /\ Cardinality(R) \in Nat
      BY <3>2, <3>3, FS_AddElement, FS_CardinalityType
    <3>5. R \union {n} \in SUBSET Q
      BY <1>8, <3>2
    <3>6. Cardinality(R \union {n}) <= Cardinality(Q) /\ Cardinality(Q) \in Nat
      BY <3>3, <3>5, FS_Subset, FS_CardinalityType
    <3>7. QED
      BY <1>6, <2>2, <3>4, <3>6
  <2>3. QED
    BY <2>1, <2>2
<1>10. ASSUME NEW T \in SUBSET nodes, s \in T, Closed(T) PROVE Q \subseteq T
  <2>1. R \subseteq T
    BY <1>7, <1>10
  <2>2. QED
    BY <1>3, <1>4, <1>10, <2>1 DEF Closed
<1>11. QED
  BY <1>2, <1>4, <1>8, <1>9, <1>10 DEF Reaches, r, Q

LEMMA ReachingClosed ==
  ASSUME NEW s \in nodes
  PROVE  /\ Reaching \in [nodes -> SUBSET nodes]
         /\ s \in Reached(Reaching, s) /\ Closed(Reached(Reaching, s))
         /\ \A T \in SUBSET nodes : s \in T /\ Closed(T) => Reached(Reaching, s) \subseteq T
<1> DEFINE N == Cardinality(nodes)
           g == CHOOSE h : IsSpread(h)
<1>1. N \in Nat
  BY CountNodes
<1>2. g[0] = Alone /\ \A k \in 0 .. N - 1 : g[k + 1] = Spreading(g[k])
  <2>1. IsSpread(g)
    BY SpreadExists
  <2> HIDE DEF g
  <2>2. QED
    BY <2>1, SpreadRounds
<1>3. Reaching = g[N]
  BY ReachingIs
<1> HIDE DEF g
<1>4. Reaches(g[0], s, 0)
  <2>1. Alone \in [nodes -> SUBSET nodes]
    BY DEF Alone
  <2>2. Reached(Alone, s) = {s}
    BY DEF Reached, Alone
  <2>3. Cardinality({s}) > 0
    BY FS_Singleton
  <2>4. QED
    BY <1>2, <2>1, <2>2, <2>3 DEF Reaches
<1>5. Reaches(g[N], s, N)
  <2> DEFINE P == {k \in Nat : Reaches(g[k], s, k)}
  <2> HIDE DEF N
  <2>1. 0 \in P
    BY <1>4
  <2>2. ASSUME NEW k \in 0 .. N - 1, k \in P PROVE k + 1 \in P
    <3>1. Reaches(Spreading(g[k]), s, k + 1)
      BY <2>2, SpreadGains
    <3>2. QED
      BY <1>2, <3>1
  <2>3. \A k \in 0 .. N : k \in P
    <3> HIDE DEF P
    <3>1. QED
      BY <1>1, <2>1, <2>2, Rises
  <2>4. QED
    BY <1>1, <2>3
<1>6. Closed(Reached(g[N], s))
  <2>1. Reached(g[N], s) \in SUBSET nodes
    BY DEF Reached
  <2>2. IsFiniteSet(Reached(g[N], s)) /\ Cardinality(Reached(g[N], s)) <= N
    BY <2>1, CountNodes, FS_Subset
  <2>3. Cardinality(Reached(g[N], s)) \in Nat
    BY <2>2, FS_CardinalityType
  <2>4. ~ (Cardinality(Reached(g[N], s)) > N)
    BY <1>1, <2>2, <2>3
  <2>5. QED
    BY <1>5, <2>4 DEF Reaches
<1>7. QED
  BY <1>3, <1>5, <1>6 DEF Reaches

LEMMA ReachingAllows ==
  ASSUME APP = "WCC"
  PROVE  Possible([n \in nodes |-> {v \in Nat : v = INF \/ v \in Reaching[n]}])
<1> DEFINE A == [n \in nodes |-> {v \in Nat : v = INF \/ v \in Reaching[n]}]
<1>1. INF \in Nat /\ nodes \subseteq Nat /\ 0 \in nodes
  BY Constants, EntriesAre
<1>2. A \in [nodes -> SUBSET Nat] /\ \A n \in nodes : INF \in A[n]
  BY <1>1
<1>3. ASSUME NEW n \in nodes PROVE n \in A[n]
  <2>1. n \in Reaching[n]
    BY ReachingClosed DEF Reached
  <2>2. QED
    BY <1>1, <2>1
<1>4. ASSUME NEW u \in nodes, NEW e \in Followed(u), NEW v \in A[u] PROVE v + Weight(e) \in A[edge_array[e]]
  <2>1. edge_array[e] \in nodes /\ Weight(e) = 0
    BY FollowedLead DEF Weight
  <2>2. v \in Nat /\ v + Weight(e) = v /\ (v = INF \/ v \in Reaching[u])
    BY <2>1
  <2>3. v \in Reaching[u] => v \in Reaching[edge_array[e]]
    <3>1. SUFFICES ASSUME v \in Reaching[u] PROVE v \in Reaching[edge_array[e]]
      OBVIOUS
    <3>2. v \in nodes
      <4>1. Reaching \in [nodes -> SUBSET nodes]
        BY ReachingClosed
      <4>2. QED
        BY <3>1, <4>1
    <3>3. u \in Reached(Reaching, v)
      BY <3>1 DEF Reached
    <3>4. edge_array[e] \in Reached(Reaching, v)
      BY <3>2, <3>3, ReachingClosed DEF Closed
    <3>5. QED
      BY <3>4 DEF Reached
  <2>4. v \in A[edge_array[e]]
    BY <2>1, <2>2, <2>3
  <2>5. QED
    BY <2>2, <2>4
<1>5. QED
  BY <1>2, <1>3, <1>4 DEF Possible

LEMMA ReachingAlike ==
  ASSUME Undirected, NEW m \in nodes, NEW n \in nodes
  PROVE  m \in Reaching[n] <=> Alike(m, n)
<1> DEFINE T == Reached(Reaching, m)
<1>1. m \in T /\ Closed(T) /\ \A S \in SUBSET nodes : m \in S /\ Closed(S) => T \subseteq S
  BY ReachingClosed
<1>2. n \in T <=> m \in Reaching[n]
  BY DEF Reached
<1>3. \A u \in nodes : \A e \in Followed(u) : edge_array[e] \in nodes
  BY FollowedLead
<1> HIDE DEF T
<1>4. ASSUME n \in T, NEW c \in Colourings PROVE c[m] = c[n]
  <2> DEFINE S == {x \in nodes : c[x] = c[m]}
  <2>1. Closed(S)
    BY <1>3 DEF Closed, Colourings
  <2>2. T \subseteq S
    BY <1>1, <2>1
  <2>3. QED
    BY <1>4, <2>2
<1>5. ASSUME Alike(m, n), m # n PROVE n \in T
  <2> DEFINE c == [x \in nodes |-> IF x \in T THEN m ELSE n]
  <2>1. ASSUME NEW u \in nodes, NEW e \in Followed(u) PROVE c[edge_array[e]] = c[u]
    <3>1. u \in T => edge_array[e] \in T
      BY <1>1 DEF Closed
    <3>2. PICK f \in Followed(edge_array[e]) : edge_array[f] = u
      BY DEF Undirected
    <3>3. edge_array[e] \in T => u \in T
      BY <1>1, <3>2 DEF Closed
    <3>4. QED
      BY <1>3, <3>1, <3>3
  <2>2. c \in [nodes -> nodes]
    OBVIOUS
  <2>3. c \in Colourings
    BY <2>1, <2>2 DEF Colourings
  <2>4. c[m] = c[n]
    BY <1>5, <2>3 DEF Alike
  <2>5. QED
    BY <1>1, <1>5, <2>4
<1>6. QED
  BY <1>1, <1>2, <1>4, <1>5 DEF Alike

ReachingLabels == APP = "WCC" => /\ \A n \in nodes : ret[n] = INF \/ ret[n] \in Reaching[n]
                                 /\ Undirected => Components

LEMMA LabelsReach ==
  ASSUME Safe, AllSound, LabelsRight
  PROVE  ReachingLabels
<1>1. SUFFICES ASSUME APP = "WCC"
               PROVE  /\ \A n \in nodes : ret[n] = INF \/ ret[n] \in Reaching[n]
                      /\ Undirected => Components
  BY DEF ReachingLabels
<1>2. ASSUME NEW n \in nodes PROVE ret[n] = INF \/ ret[n] \in Reaching[n]
  <2>1. Sound([k \in nodes |-> {v \in Nat : v = INF \/ v \in Reaching[k]}])
    BY <1>1, ReachingAllows DEF AllSound
  <2>2. QED
    BY <2>1 DEF Sound
<1>3. ASSUME Undirected, Finished, NEW m \in nodes, NEW n \in nodes
      PROVE  (ret[m] = ret[n]) <=> (m \in Reaching[n])
  <2>1. ret[m] = ret[n] <=> Alike(m, n)
    BY <1>1, <1>3 DEF LabelsRight
  <2>2. QED
    BY <1>3, <2>1, ReachingAlike
<1>4. QED
  BY <1>2, <1>3 DEF Components
-----------------------------------------------------------------------------
(* Every variable keeps its type, every index of the circular list stays   *)
(* inside it, and no queue holds more than its size, for any graph, number *)
(* of tiles and sizes of the queues: what a task enqueues without a test   *)
(* always fits, because the unit only let it run with room for its worst   *)
(* case (runnable() in tsu_core_thread.h, task1_helper(), config_queue()). *)
THEOREM SearchTypeOK == Spec => []TypeOK
<1>1. Safe /\ NoneLost => TypeOK
  BY SafeTypes
<1>2. QED
  BY <1>1, Invariance, PTL

(* check_range(): T2 only gets pieces of the edges of its own tile, not    *)
(* empty and no longer than a chunk, wherever the edges of a node lie and  *)
(* however often T1 had to park what did not fit.                          *)
THEOREM SearchRangesLocal == Spec => []RangesLocal
<1>1. Safe /\ NoneLost => RangesLocal
  BY SafeRanges
<1>2. QED
  BY <1>1, Invariance, PTL

(* The circular list of add_to_frontier() and of T4 holds every block with *)
(* a bit set once and no other, however often it wraps; and while T1 of    *)
(* WCC goes through the nodes of its tile, no node of the frontier is in   *)
(* its queue to be taken for the next of them.                             *)
THEOREM SearchListAgrees == Spec => [](FrontierListed /\ SeedsApart)
<1>1. Safe /\ NoneLost => FrontierListed /\ SeedsApart
  BY SafeFrontier, SafeSeeds
<1>2. QED
  BY <1>1, Invariance, PTL

(* No improvement is lost: a better value that an edge offers is taken or  *)
(* on its way, in the frontier, in T1's queue, parked, or in a message.    *)
THEOREM SearchNoUpdateLost == Spec => []NoUpdateLost
<1>1. Safe /\ NoneLost => NoUpdateLost
  BY LostNothing
<1>2. QED
  BY <1>1, Invariance, PTL

(* When the queues, the network and the frontiers are empty, no edge of a  *)
(* node with a value offers its end a better one: the values are a fixed   *)
(* point of the relaxation.                                                *)
THEOREM SearchEndsRelaxed == Spec => [](Finished => Relaxed)
<1>1. Safe /\ NoneLost => (Finished => Relaxed)
  BY EndsRelaxed
<1>2. QED
  BY <1>1, Invariance, PTL

(* SSSP: a value is never below the length of the shortest path from node  *)
(* 0, and when the queues, the network and the frontiers are empty it is   *)
(* that length, in whatever order tiles, tasks and messages took turns.    *)
(* Distances are the lengths after as many rounds of relaxation as there   *)
(* are nodes, which DistancesGreatest shows to be enough.                  *)
THEOREM SearchFindsPaths == Spec => [](APP = "SSSP" => ShortestPaths)
<1>1. Safe /\ NoneLost /\ Begun /\ AllSound => (APP = "SSSP" => ShortestPaths)
  <2>1. ASSUME Safe, NoneLost, Begun, AllSound, APP = "SSSP" PROVE ShortestPaths
    <3>1. PathsRight
      BY <2>1, PathsAreRight
    <3>2. ret \in [nodes -> Nat]
      BY <2>1 DEF Safe, Shapes
    <3>3. QED
      BY <2>1, <3>1, <3>2, PathsAreShortest
  <2>2. QED
    BY <2>1
<1>2. QED
  BY <1>1, Invariance, Soundness, PTL

(* WCC: a label is that of a node from which the node is reached; and when *)
(* each edge leads back, and the queues, the network and the frontiers are *)
(* empty, two nodes have the same label exactly when one reaches the       *)
(* other.                                                                  *)
THEOREM SearchFindsComponents ==
  Spec => [](APP = "WCC" => /\ \A n \in nodes : ret[n] = INF \/ ret[n] \in Reaching[n]
                            /\ Undirected => Components)
<1>1. Safe /\ NoneLost /\ Begun /\ AllSound => ReachingLabels
  BY LabelsAreRight, LabelsReach
<1>2. QED
  BY <1>1, Invariance, Soundness, PTL DEF ReachingLabels
=============================================================================
