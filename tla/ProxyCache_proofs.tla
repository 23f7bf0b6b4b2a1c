-------------------------- MODULE ProxyCache_proofs --------------------------
(***************************************************************************)
(* Proofs about the proxy caches, for any number of regions, elements,     *)
(* lines and queue sizes, with and without a cache, with any barriers and  *)
(* captures: tags, frequencies and occupancy agree, no queue overflows,    *)
(* and no update is lost or counts twice, whether minima or sums.          *)
(***************************************************************************)
EXTENDS ProxyCache, SequenceTheorems, FiniteSetTheorems, WellFoundedInduction, TLAPS

Lines   == 0 .. pcache_size - 1
Message == [elem : Elements, value : Nat]

Typed ==
  /\ ret \in [Elements -> Nat] /\ sent \in [Elements -> Nat]
  /\ proxy \in [tiles -> [Elements -> Nat]]
  /\ freq \in [tiles -> [Elements -> {0, 1}]]
  /\ tags \in [tiles -> [Lines -> Elements \union {None}]]
  /\ pcache_occupancy \in [tiles -> Int]
  /\ pcache_last_evicted \in [tiles -> Lines]
  /\ epoch_begin \in [tiles -> {0, DRAIN_PCACHE_ID, EXPLORE_FRONTIER_ID}]
  /\ iq2 \in Seq(Message)
  /\ iq3 \in [tiles -> Seq(Message)] /\ oq2 \in [tiles -> Seq(Message)]

(* The tags g are those of what the frequencies f say is cached, each in   *)
(* one line, and n lines are taken.                                        *)
Taken(g) == {i \in Lines : g[i] # None}
Tagged(f, g, n) ==
  /\ \A e \in Elements : f[e] = 1 <=> \E i \in Lines : g[i] = e
  /\ \A i, j \in Lines : g[i] = g[j] /\ g[i] # None => i = j
  /\ n = Cardinality(Taken(g))
  /\ proxys_cached => \A i \in Lines : g[i] # None => g[i] % pcache_size = i
AllTagged == \A t \in tiles : Tagged(freq[t], tags[t], pcache_occupancy[t])

Roomy ==
  /\ room(iq_size, iq2) >= 0
  /\ \A t \in tiles : room(iq_size, iq3[t]) >= 0 /\ room(oq_size, oq2[t]) >= 0

CacheInv == Typed /\ AllTagged /\ Roomy
-----------------------------------------------------------------------------
(* The constants.                                                          *)
LEMMA Constants ==
  /\ Elements \subseteq Nat /\ IsFiniteSet(Elements) /\ None \notin Elements
  /\ pcache_size \in Nat /\ pcache_size > 0 /\ Lines \subseteq Nat
  /\ \A e \in Elements : e % pcache_size \in Lines
  /\ IsFiniteSet(Lines) /\ Cardinality(Lines) = pcache_size
  /\ proxy_default \in Nat /\ iq_size \in Nat /\ oq_size \in Nat /\ oq_size > 2
  /\ Values \subseteq Nat
<1>1. /\ Elements \subseteq Nat /\ IsFiniteSet(Elements) /\ pcache_size \in Nat /\ pcache_size > 0
      /\ proxy_default \in Nat /\ iq_size \in Nat /\ oq_size \in Nat /\ oq_size > 2
      /\ Values \subseteq Nat
  BY ProxyAssumption
<1>2. None \notin Elements
  BY <1>1 DEF None
<1>3. Lines \subseteq Nat /\ \A e \in Elements : e % pcache_size \in Lines
  BY <1>1 DEF Lines
<1>4. IsFiniteSet(Lines) /\ Cardinality(Lines) = pcache_size
  <2>1. PICK n \in Int : n = pcache_size - 1 /\ n + 1 = pcache_size /\ ~(0 > n)
    BY <1>1
  <2>2. IsFiniteSet(0 .. n) /\ Cardinality(0 .. n) = IF 0 > n THEN 0 ELSE n - 0 + 1
    BY FS_Interval
  <2>3. QED
    BY <2>1, <2>2 DEF Lines
<1>5. QED
  BY <1>1, <1>2, <1>3, <1>4

LEMMA Least ==
  ASSUME NEW T \in SUBSET Nat, T # {}
  PROVE  Min(T) \in T /\ \A y \in T : Min(T) <= y
<1>1. PICK x \in T : \A y \in T : ~ (<<y, x>> \in OpToRel(<, Nat))
  BY NatLessThanWellFounded, WFMin
<1>2. \A y \in T : ~ (y < x)
  BY <1>1 DEF OpToRel
<1>3. \A y \in T : x <= y
  BY <1>2
<1>4. QED
  BY <1>3 DEF Min

LEMMA LeastOfTwo ==
  ASSUME NEW a \in Nat, NEW b \in Nat
  PROVE  Min({a, b}) = IF a <= b THEN a ELSE b
<1>1. {a, b} \in SUBSET Nat /\ {a, b} # {}
  OBVIOUS
<1>2. Min({a, b}) \in {a, b} /\ \A y \in {a, b} : Min({a, b}) <= y
  BY <1>1, Least
<1>3. QED
  BY <1>2

LEMMA Combined ==
  ASSUME NEW a \in Nat, NEW b \in Nat
  PROVE  Combine(a, b) \in Nat /\ (APP = "SSSP" => Combine(a, b) = IF a <= b THEN a ELSE b)
<1>1. APP = "HISTO" \/ APP = "SSSP"
  BY ProxyAssumption
<1>2. CASE APP = "HISTO"
  BY <1>2 DEF Combine
<1>3. CASE APP = "SSSP"
  BY <1>3, LeastOfTwo DEF Combine
<1>4. QED
  BY <1>1, <1>2, <1>3

LEMMA UpdateType ==
  ASSUME NEW e \in Elements, NEW v \in Nat
  PROVE  Update(e, v) \in Message /\ Update(e, v).elem = e /\ Update(e, v).value = v
BY DEF Update, Message
LEMMA Regrouped ==
  ASSUME NEW a \in Seq(Message), NEW b \in Seq(Message), NEW c \in Seq(Message)
  PROVE  (a \o b) \o c = a \o (b \o c)
BY ConcatAssociative
-----------------------------------------------------------------------------
(* The lines of a tile.                                                    *)
LEMMA ValidLines ==
  ASSUME Typed, NEW t \in tiles
  PROVE  /\ Valid(t) = Taken(tags[t]) /\ DOMAIN tags[t] = Lines /\ Valid(t) \in SUBSET Lines
         /\ IsFiniteSet(Valid(t)) /\ Cardinality(Valid(t)) \in 0 .. pcache_size
<1>1. DOMAIN tags[t] = Lines
  BY DEF Typed
<1>2. Valid(t) = Taken(tags[t])
  BY <1>1 DEF Valid, Taken
<1>3. Valid(t) \in SUBSET Lines
  BY <1>2 DEF Taken
<1>4. IsFiniteSet(Valid(t)) /\ Cardinality(Valid(t)) <= Cardinality(Lines)
  BY <1>3, Constants, FS_Subset
<1>5. Cardinality(Valid(t)) \in Nat
  BY <1>4, FS_CardinalityType
<1>6. QED
  BY <1>1, <1>2, <1>3, <1>4, <1>5, Constants

(* Without a cache there is a free line for an element that has none.      *)
LEMMA FreeLine ==
  ASSUME Typed, NEW t \in tiles, AllTagged, ~proxys_cached, NEW e \in Elements, freq[t][e] # 1
  PROVE  \E i \in Lines : i \notin Valid(t)
<1>1. SUFFICES ASSUME \A i \in Lines : i \in Valid(t) PROVE FALSE
  OBVIOUS
<1>2. \A i \in Lines : tags[t][i] \in Elements \ {e}
  <2>1. \A i \in Lines : tags[t][i] \in Elements
    BY <1>1, ValidLines DEF Typed, Taken
  <2>2. \A i \in Lines : tags[t][i] # e
    BY DEF AllTagged, Tagged
  <2>3. QED
    BY <2>1, <2>2
<1>3. tags[t] \in [Lines -> Elements \ {e}]
  BY <1>2 DEF Typed
<1>4. Cardinality(Elements) <= pcache_size
  BY ProxyAssumption
<1>5. /\ IsFiniteSet(Elements \ {e}) /\ Cardinality(Elements \ {e}) = Cardinality(Elements) - 1
      /\ Cardinality(Elements) \in Nat
  BY Constants, FS_RemoveElement, FS_CardinalityType
<1>6. Cardinality(Elements \ {e}) < Cardinality(Lines)
  BY <1>4, <1>5, Constants
<1>7. \E x, y \in Lines : x # y /\ tags[t][x] = tags[t][y]
  BY <1>3, <1>5, <1>6, Constants, FS_PigeonHole
<1>8. QED
  BY <1>2, <1>7, Constants DEF AllTagged, Tagged

(* Where a miss puts the element.                                          *)
LEMMA LineForElement ==
  ASSUME Typed, NEW t \in tiles, AllTagged, NEW e \in Elements, freq[t][e] # 1
  PROVE  /\ LineFor(t, e) \in Lines
         /\ proxys_cached => LineFor(t, e) = e % pcache_size
         /\ ~proxys_cached => tags[t][LineFor(t, e)] = None
<1>1. CASE proxys_cached
  BY <1>1, Constants DEF LineFor
<1>2. CASE ~proxys_cached
  <2>1. PICK F : F = Lines \ Valid(t)
    OBVIOUS
  <2>2. F # {} /\ F \in SUBSET Nat
    BY <1>2, <2>1, FreeLine, Constants
  <2>3. Min(F) \in F
    BY <2>2, Least
  <2>4. LineFor(t, e) = Min(F)
    BY <1>2, <2>1, ValidLines DEF LineFor
  <2>5. QED
    BY <1>2, <2>1, <2>3, <2>4, ValidLines DEF Taken
<1>3. QED
  BY <1>1, <1>2

(* The line that is drained next is a valid one.                           *)
LEMMA NextValid ==
  ASSUME Typed, NEW t \in tiles, Valid(t) # {}
  PROVE  next_valid_line(t) \in Valid(t)
<1> DEFINE After(i) == (i - pcache_last_evicted[t] - 1) % pcache_size
<1>1. \A i \in Valid(t) : After(i) \in Nat
  <2>1. /\ pcache_last_evicted \in [tiles -> Lines] /\ Lines \subseteq Nat
        /\ Valid(t) \in SUBSET Lines
    BY ValidLines, Constants DEF Typed
  <2>2. PICK l \in Nat : l = pcache_last_evicted[t]
    BY <2>1
  <2>3. PICK n \in Nat : n = pcache_size /\ n > 0
    BY Constants
  <2>4. \A x \in Int : x % n \in Nat
    BY <2>3
  <2>5. \A i \in Nat : i - l - 1 \in Int
    OBVIOUS
  <2>6. \A i \in Nat : (i - l - 1) % n \in Nat
    BY <2>4, <2>5
  <2>7. QED
    BY <2>1, <2>2, <2>3, <2>6
<1> HIDE DEF After
<1>2. PICK T \in SUBSET Nat : T = {After(i) : i \in Valid(t)}
  BY <1>1
<1>3. T # {}
  BY <1>2
<1>4. Min(T) \in T /\ \A y \in T : Min(T) <= y
  BY <1>3, Least
<1>5. \E i \in Valid(t) : \A j \in Valid(t) : After(i) <= After(j)
  BY <1>2, <1>4
<1>6. QED
  BY <1>5 DEF next_valid_line, After
-----------------------------------------------------------------------------
(* One line is changed.                                                    *)

LEMMA LineTaken ==
  ASSUME NEW f \in [Elements -> {0, 1}], NEW g \in [Lines -> Elements \union {None}],
         NEW n \in Int, Tagged(f, g, n),
         NEW e \in Elements, NEW l \in Lines, f[e] = 0, g[l] = None,
         proxys_cached => l = e % pcache_size
  PROVE  Tagged([f EXCEPT ![e] = 1], [g EXCEPT ![l] = e], n + 1)
<1> DEFINE G == [g EXCEPT ![l] = e]
           F == [f EXCEPT ![e] = 1]
<1>1. /\ G[l] = e /\ \A i \in Lines : i # l => G[i] = g[i]
      /\ F[e] = 1 /\ \A d \in Elements : d # e => F[d] = f[d]
  OBVIOUS
<1>2. e # None /\ \A i \in Lines : g[i] # e
  BY Constants DEF Tagged
<1>3. Taken(G) = Taken(g) \union {l} /\ l \notin Taken(g)
  BY <1>1, <1>2 DEF Taken
<1> HIDE DEF F, G
<1>4. IsFiniteSet(Taken(g))
  BY Constants, FS_Subset DEF Taken
<1>5. Cardinality(Taken(G)) = n + 1
  <2>1. PICK T : T = Taken(g)
    OBVIOUS
  <2>2. n = Cardinality(T) /\ IsFiniteSet(T)
    BY <1>4, <2>1 DEF Tagged
  <2>3. Cardinality(T \union {l}) = Cardinality(T) + 1
    BY <1>3, <2>1, <2>2, FS_AddElement
  <2>4. QED
    BY <1>3, <2>1, <2>2, <2>3
<1>6. \A d \in Elements : F[d] = 1 <=> \E i \in Lines : G[i] = d
  <2>1. TAKE d \in Elements
  <2>2. CASE d = e
    BY <1>1, <2>2
  <2>3. CASE d # e
    <3>1. f[d] = 1 <=> \E i \in Lines : g[i] = d
      BY DEF Tagged
    <3>2. (\E i \in Lines : G[i] = d) <=> \E i \in Lines : g[i] = d
      BY <1>1, <2>3, Constants
    <3>3. QED
      BY <1>1, <2>3, <3>1, <3>2
  <2>4. QED
    BY <2>2, <2>3
<1>7. \A i, j \in Lines : G[i] = G[j] /\ G[i] # None => i = j
  BY <1>1, <1>2 DEF Tagged
<1>8. proxys_cached => \A i \in Lines : G[i] # None => G[i] % pcache_size = i
  BY <1>1 DEF Tagged
<1>9. Tagged(F, G, n + 1)
  BY <1>5, <1>6, <1>7, <1>8 DEF Tagged
<1>10. QED
  BY <1>9 DEF F, G

LEMMA LineFreed ==
  ASSUME NEW f \in [Elements -> {0, 1}], NEW g \in [Lines -> Elements \union {None}],
         NEW n \in Int, Tagged(f, g, n), NEW l \in Lines, g[l] # None
  PROVE  Tagged([f EXCEPT ![g[l]] = 0], [g EXCEPT ![l] = None], n - 1)
<1> DEFINE G == [g EXCEPT ![l] = None]
           F == [f EXCEPT ![g[l]] = 0]
<1>1. /\ g[l] \in Elements
      /\ G[l] = None /\ \A i \in Lines : i # l => G[i] = g[i]
      /\ F[g[l]] = 0 /\ \A d \in Elements : d # g[l] => F[d] = f[d]
  OBVIOUS
<1>2. \A i \in Lines : i # l => g[i] # g[l]
  BY DEF Tagged
<1>3. Taken(G) = Taken(g) \ {l} /\ l \in Taken(g)
  BY <1>1 DEF Taken
<1> HIDE DEF F, G
<1>4. IsFiniteSet(Taken(g))
  BY Constants, FS_Subset DEF Taken
<1>5. Cardinality(Taken(G)) = n - 1
  <2>1. PICK T : T = Taken(g)
    OBVIOUS
  <2>2. n = Cardinality(T) /\ IsFiniteSet(T)
    BY <1>4, <2>1 DEF Tagged
  <2>3. Cardinality(T \ {l}) = Cardinality(T) - 1
    BY <1>3, <2>1, <2>2, FS_RemoveElement
  <2>4. QED
    BY <1>3, <2>1, <2>2, <2>3
<1>6. \A d \in Elements : F[d] = 1 <=> \E i \in Lines : G[i] = d
  <2>1. TAKE d \in Elements
  <2>2. d # None
    BY Constants
  <2>3. CASE d = g[l]
    BY <1>1, <1>2, <2>2, <2>3
  <2>4. CASE d # g[l]
    <3>1. f[d] = 1 <=> \E i \in Lines : g[i] = d
      BY DEF Tagged
    <3>2. (\E i \in Lines : G[i] = d) <=> \E i \in Lines : g[i] = d
      BY <1>1, <2>2, <2>4
    <3>3. QED
      BY <1>1, <2>4, <3>1, <3>2
  <2>5. QED
    BY <2>3, <2>4
<1>7. \A i, j \in Lines : G[i] = G[j] /\ G[i] # None => i = j
  BY <1>1 DEF Tagged
<1>8. proxys_cached => \A i \in Lines : G[i] # None => G[i] % pcache_size = i
  BY <1>1 DEF Tagged
<1>9. Tagged(F, G, n - 1)
  BY <1>5, <1>6, <1>7, <1>8 DEF Tagged
<1>10. QED
  BY <1>9 DEF F, G

(* A line is taken from another element: it is freed and taken.            *)
LEMMA LineReused ==
  ASSUME NEW f \in [Elements -> {0, 1}], NEW g \in [Lines -> Elements \union {None}],
         NEW n \in Int, Tagged(f, g, n),
         NEW e \in Elements, NEW l \in Lines, f[e] = 0, g[l] # None,
         proxys_cached => l = e % pcache_size
  PROVE  Tagged([[f EXCEPT ![g[l]] = 0] EXCEPT ![e] = 1], [g EXCEPT ![l] = e], n)
<1>1. PICK F, G, N : F = [f EXCEPT ![g[l]] = 0] /\ G = [g EXCEPT ![l] = None] /\ N = n - 1
  OBVIOUS
<1>2. F \in [Elements -> {0, 1}] /\ G \in [Lines -> Elements \union {None}] /\ N \in Int
  BY <1>1
<1>3. Tagged(F, G, N)
  BY <1>1, LineFreed
<1>4. F[e] = 0 /\ G[l] = None
  BY <1>1
<1>5. Tagged([F EXCEPT ![e] = 1], [G EXCEPT ![l] = e], N + 1)
  BY <1>2, <1>3, <1>4, LineTaken
<1>6. N + 1 = n
  BY <1>1
<1>7. [G EXCEPT ![l] = e] = [g EXCEPT ![l] = e]
  BY <1>1
<1>8. QED
  BY <1>1, <1>5, <1>6, <1>7
-----------------------------------------------------------------------------
(* An access to element e of tile t sends on (the updates thr, written     *)
(* through) and finds e, takes a free line, or takes the line of another   *)
(* element, which is written back.                                         *)
Sends(t, msgs) == oq2' = [oq2 EXCEPT ![t] = @ \o msgs]

Finds(t, e, thr) ==
  /\ freq[t][e] = 1 /\ Sends(t, thr)
  /\ freq' = freq /\ tags' = tags /\ pcache_occupancy' = pcache_occupancy

Takes(t, e, l, thr) ==
  /\ freq[t][e] = 0 /\ tags[t][l] = None /\ Sends(t, thr)
  /\ tags' = [tags EXCEPT ![t][l] = e]
  /\ freq' = [freq EXCEPT ![t][e] = 1]
  /\ pcache_occupancy' = [pcache_occupancy EXCEPT ![t] = @ + 1]

Evicts(t, e, l, thr) ==
  /\ freq[t][e] = 0 /\ tags[t][l] # None /\ proxys_cached
  /\ Sends(t, Writeback(t, tags[t][l]) \o thr)
  /\ tags' = [tags EXCEPT ![t][l] = e]
  /\ freq' = [[freq EXCEPT ![t][tags[t][l]] = 0] EXCEPT ![t][e] = 1]
  /\ pcache_occupancy' = pcache_occupancy

LEMMA Frequency ==
  ASSUME Typed, NEW t \in tiles, NEW e \in Elements
  PROVE  freq[t][e] \in {0, 1} /\ (freq[t][e] > 0 <=> freq[t][e] = 1)
<1>1. freq[t][e] \in {0, 1}
  BY DEF Typed
<1>2. QED
  BY <1>1

LEMMA WritebackType ==
  ASSUME Typed, NEW t \in tiles, NEW d \in Elements
  PROVE  /\ Writeback(t, d) = <<>> \/ Writeback(t, d) = <<Update(d, proxy[t][d])>>
         /\ WRITE_THROUGH = 1 <=> Writeback(t, d) = <<>>
         /\ Writeback(t, d) \in Seq(Message) /\ Update(d, proxy[t][d]) \in Message
<1>1. proxy[t][d] \in Nat
  BY DEF Typed
<1>2. Update(d, proxy[t][d]) \in Message
  BY <1>1, UpdateType
<1>3. QED
  BY <1>2 DEF Writeback

LEMMA AccessCases ==
  ASSUME Typed, AllTagged, NEW t \in tiles, NEW e \in Elements, NEW write \in BOOLEAN,
         NEW v \in Nat, Access(t, e, write, v)
  PROVE  \E thr \in Seq(Message) :
           /\ thr = IF write /\ WRITE_THROUGH = 1 THEN <<Update(e, v)>> ELSE <<>>
           /\ \/ Finds(t, e, thr)
              \/ \E l \in Lines : /\ proxys_cached => l = e % pcache_size
                                  /\ Takes(t, e, l, thr) \/ Evicts(t, e, l, thr)
<1>1. PICK thr : thr = IF write /\ WRITE_THROUGH = 1 THEN <<Update(e, v)>> ELSE <<>>
  OBVIOUS
<1>2. thr \in Seq(Message) /\ thr = IF write THEN Through(e, v) ELSE <<>>
  BY <1>1, UpdateType DEF Through
<1>3. CASE freq[t][e] > 0
  <2>1. Finds(t, e, thr)
    BY <1>2, <1>3, Frequency DEF Access, Finds, Sends
  <2>2. QED
    BY <1>1, <1>2, <2>1
<1>4. CASE ~ (freq[t][e] > 0)
  <2>1. freq[t][e] = 0 /\ freq[t][e] # 1
    BY <1>4, Frequency
  <2>2. PICK l : l = LineFor(t, e)
    OBVIOUS
  <2>3. /\ l \in Lines /\ (proxys_cached => l = e % pcache_size)
        /\ ~proxys_cached => tags[t][l] = None
    BY <2>1, <2>2, LineForElement
  <2>4. CASE tags[t][l] = None
    <3>1. Takes(t, e, l, thr)
      BY <1>2, <1>4, <2>1, <2>2, <2>4 DEF Access, Takes, Sends
    <3>2. QED
      BY <1>1, <1>2, <2>3, <3>1
  <2>5. CASE tags[t][l] # None
    <3>1. tags[t][l] \in Elements
      BY <2>3, <2>5 DEF Typed
    <3>2. /\ freq' = [Freed(t, tags[t][l]) EXCEPT ![t][e] = 1]
          /\ oq2' = [oq2 EXCEPT ![t] = @ \o Writeback(t, tags[t][l]) \o thr]
          /\ tags' = [tags EXCEPT ![t][l] = e]
          /\ pcache_occupancy' = pcache_occupancy
      BY <1>2, <1>4, <2>2, <2>5 DEF Access
    <3>3. (oq2[t] \o Writeback(t, tags[t][l])) \o thr = oq2[t] \o (Writeback(t, tags[t][l]) \o thr)
      <4>1. oq2[t] \in Seq(Message) /\ Writeback(t, tags[t][l]) \in Seq(Message)
        BY <3>1, WritebackType DEF Typed
      <4>2. QED
        BY <1>2, <4>1, Regrouped
    <3>4. Sends(t, Writeback(t, tags[t][l]) \o thr)
      BY <3>2, <3>3 DEF Sends
    <3>5. Evicts(t, e, l, thr)
      BY <2>1, <2>3, <2>5, <3>2, <3>4 DEF Evicts, Freed
    <3>6. QED
      BY <1>1, <1>2, <2>3, <3>5
  <2>6. QED
    BY <2>4, <2>5
<1>5. QED
  BY <1>3, <1>4
-----------------------------------------------------------------------------
(* The queues.                                                             *)

LEMMA Grown ==
  ASSUME NEW q \in Seq(Message), NEW msgs \in Seq(Message), NEW size \in Nat,
         room(size, q) >= 0, Len(msgs) = 0 \/ (Len(msgs) = 1 /\ room(size, q) >= 2)
  PROVE  q \o msgs \in Seq(Message) /\ room(size, q \o msgs) >= 0
<1>1. q \o msgs \in Seq(Message) /\ Len(q \o msgs) = Len(q) + Len(msgs) /\ Len(q) \in Nat
  BY ConcatProperties, LenProperties
<1>2. PICK a \in Nat, n \in Nat : a = Len(q) /\ n = Len(msgs)
  BY <1>1, LenProperties
<1>3. size - 2 * a >= 0 /\ (n = 0 \/ (n = 1 /\ size - 2 * a >= 2))
  BY <1>2 DEF room
<1>4. size - 2 * (a + n) >= 0
  BY <1>3
<1>5. QED
  BY <1>1, <1>2, <1>4 DEF room

LEMMA Appended ==
  ASSUME NEW q \in Seq(Message), NEW m \in Message, NEW size \in Nat, room(size, q) >= 2
  PROVE  Append(q, m) \in Seq(Message) /\ room(size, Append(q, m)) >= 0
<1>1. Append(q, m) \in Seq(Message) /\ Len(Append(q, m)) = Len(q) + 1 /\ Len(q) \in Nat
  BY AppendProperties, LenProperties
<1>2. PICK a \in Nat : a = Len(q)
  BY <1>1
<1>3. QED
  BY <1>1, <1>2 DEF room

LEMMA FirstTaken ==
  ASSUME NEW q \in Seq(Message), q # <<>>, NEW size \in Nat, room(size, q) >= 0
  PROVE  Head(q) \in Message /\ Tail(q) \in Seq(Message) /\ room(size, Tail(q)) >= 0
<1>1. Head(q) \in Message /\ Tail(q) \in Seq(Message) /\ Len(Tail(q)) = Len(q) - 1 /\ Len(q) \in Nat
  BY HeadTailProperties, LenProperties
<1>2. PICK a \in Nat : a = Len(q)
  BY <1>1
<1>3. QED
  BY <1>1, <1>2 DEF room
-----------------------------------------------------------------------------
(* The actions keep CacheInv.                                              *)

LEMMA InitInv == Init => CacheInv
<1> SUFFICES ASSUME Init PROVE CacheInv
  OBVIOUS
<1>1. Typed
  <2>1. /\ <<>> \in Seq(Message) /\ proxy_default \in Nat /\ 0 \in Lines
    BY Constants, EmptySeq DEF Lines
  <2>2. QED
    BY <2>1 DEF Init, Typed, Lines
<1>2. AllTagged
  <2>1. SUFFICES ASSUME NEW t \in tiles PROVE Tagged(freq[t], tags[t], pcache_occupancy[t])
    BY DEF AllTagged
  <2>2. \A i \in Lines : tags[t][i] = None
    BY DEF Init, Lines
  <2>3. Taken(tags[t]) = {}
    BY <2>2 DEF Taken
  <2>4. /\ \A e \in Elements : freq[t][e] = 0
        /\ pcache_occupancy[t] = 0
    BY DEF Init
  <2>5. Cardinality({}) = 0
    BY FS_EmptySet
  <2>6. QED
    BY <2>2, <2>3, <2>4, <2>5, Constants DEF Tagged
<1>3. Roomy
  <2>1. Len(<<>>) = 0
    BY EmptySeq
  <2>2. iq2 = <<>> /\ \A t \in tiles : iq3[t] = <<>> /\ oq2[t] = <<>>
    BY DEF Init
  <2>3. QED
    BY <2>1, <2>2, Constants DEF Roomy, room
<1>4. QED
  BY <1>1, <1>2, <1>3 DEF CacheInv

LEMMA AccessKeeps ==
  ASSUME CacheInv, NEW t \in tiles, NEW e \in Elements, NEW write \in BOOLEAN, NEW v \in Nat,
         Access(t, e, write, v),
         (WRITE_THROUGH = 1 \/ proxys_cached) => room(oq_size, oq2[t]) > 2
  PROVE  /\ proxy' \in [tiles -> [Elements -> Nat]]
         /\ freq' \in [tiles -> [Elements -> {0, 1}]]
         /\ tags' \in [tiles -> [Lines -> Elements \union {None}]]
         /\ pcache_occupancy' \in [tiles -> Int]
         /\ pcache_last_evicted' = pcache_last_evicted
         /\ oq2' \in [tiles -> Seq(Message)]
         /\ \A u \in tiles : room(oq_size, oq2'[u]) >= 0
         /\ AllTagged'
<1>1. Typed /\ AllTagged /\ Roomy
  BY DEF CacheInv
<1>2. proxy' \in [tiles -> [Elements -> Nat]] /\ pcache_last_evicted' = pcache_last_evicted
  BY <1>1 DEF Typed, Access
<1>3. PICK thr \in Seq(Message) :
           /\ thr = IF write /\ WRITE_THROUGH = 1 THEN <<Update(e, v)>> ELSE <<>>
           /\ \/ Finds(t, e, thr)
              \/ \E l \in Lines : /\ proxys_cached => l = e % pcache_size
                                  /\ Takes(t, e, l, thr) \/ Evicts(t, e, l, thr)
  BY <1>1, AccessCases
<1>4. Len(thr) = 0 \/ (Len(thr) = 1 /\ WRITE_THROUGH = 1)
  BY <1>3
<1>5. PICK q, f, g, n :
        /\ q \in Seq(Message) /\ q = oq2[t] /\ f = freq[t] /\ g = tags[t] /\ n = pcache_occupancy[t]
  BY <1>1 DEF Typed
<1>6. /\ f \in [Elements -> {0, 1}] /\ g \in [Lines -> Elements \union {None}] /\ n \in Int
      /\ Tagged(f, g, n) /\ room(oq_size, q) >= 0
  BY <1>1, <1>5 DEF Typed, AllTagged, Roomy
<1>7. ASSUME NEW msgs \in Seq(Message), Sends(t, msgs),
             Len(msgs) = 0 \/ (Len(msgs) = 1 /\ (WRITE_THROUGH = 1 \/ proxys_cached))
      PROVE  /\ oq2' \in [tiles -> Seq(Message)]
             /\ \A u \in tiles : room(oq_size, oq2'[u]) >= 0
  <2>1. q \o msgs \in Seq(Message) /\ room(oq_size, q \o msgs) >= 0
    <3>1. room(oq_size, q) \in Int
      <4>1. Len(q) \in Nat
        BY <1>5, LenProperties
      <4>2. QED
        BY <4>1, Constants DEF room
    <3>2. Len(msgs) = 0 \/ (Len(msgs) = 1 /\ room(oq_size, q) >= 2)
      BY <1>5, <1>7, <3>1
    <3>3. QED
      BY <1>5, <1>6, <3>2, Constants, Grown
  <2>2. oq2' = [oq2 EXCEPT ![t] = q \o msgs]
    BY <1>5, <1>7 DEF Sends
  <2>3. QED
    BY <1>1, <2>1, <2>2 DEF Typed, Roomy
<1>8. CASE Finds(t, e, thr)
  <2>1. /\ oq2' \in [tiles -> Seq(Message)]
        /\ \A u \in tiles : room(oq_size, oq2'[u]) >= 0
    BY <1>4, <1>7, <1>8 DEF Finds
  <2>2. freq' = freq /\ tags' = tags /\ pcache_occupancy' = pcache_occupancy
    BY <1>8 DEF Finds
  <2>3. AllTagged'
    BY <1>1, <2>2 DEF AllTagged
  <2>4. QED
    BY <1>1, <1>2, <2>1, <2>2, <2>3 DEF Typed
<1>9. ASSUME NEW l \in Lines, proxys_cached => l = e % pcache_size, Takes(t, e, l, thr)
      PROVE  /\ freq' \in [tiles -> [Elements -> {0, 1}]]
             /\ tags' \in [tiles -> [Lines -> Elements \union {None}]]
             /\ pcache_occupancy' \in [tiles -> Int]
             /\ oq2' \in [tiles -> Seq(Message)]
             /\ \A u \in tiles : room(oq_size, oq2'[u]) >= 0
             /\ AllTagged'
  <2>1. PICK F, G, N : F = [f EXCEPT ![e] = 1] /\ G = [g EXCEPT ![l] = e] /\ N = n + 1
    OBVIOUS
  <2>2. Tagged(F, G, N)
    <3>1. f[e] = 0 /\ g[l] = None
      BY <1>5, <1>9 DEF Takes
    <3>2. QED
      BY <1>6, <1>9, <2>1, <3>1, LineTaken
  <2>3. F \in [Elements -> {0, 1}] /\ G \in [Lines -> Elements \union {None}] /\ N \in Int
    BY <1>6, <2>1
  <2>4. /\ freq' = [freq EXCEPT ![t] = F] /\ tags' = [tags EXCEPT ![t] = G]
        /\ pcache_occupancy' = [pcache_occupancy EXCEPT ![t] = N]
    BY <1>1, <1>5, <1>9, <2>1 DEF Takes, Typed
  <2>5. /\ oq2' \in [tiles -> Seq(Message)]
        /\ \A u \in tiles : room(oq_size, oq2'[u]) >= 0
    BY <1>4, <1>7, <1>9 DEF Takes
  <2>6. AllTagged'
    BY <1>1, <2>2, <2>4 DEF AllTagged, Typed
  <2>7. QED
    BY <1>1, <2>3, <2>4, <2>5, <2>6 DEF Typed
<1>10. ASSUME NEW l \in Lines, proxys_cached => l = e % pcache_size, Evicts(t, e, l, thr)
       PROVE  /\ freq' \in [tiles -> [Elements -> {0, 1}]]
              /\ tags' \in [tiles -> [Lines -> Elements \union {None}]]
              /\ pcache_occupancy' \in [tiles -> Int]
              /\ oq2' \in [tiles -> Seq(Message)]
              /\ \A u \in tiles : room(oq_size, oq2'[u]) >= 0
              /\ AllTagged'
  <2>1. PICK F, G : F = [[f EXCEPT ![g[l]] = 0] EXCEPT ![e] = 1] /\ G = [g EXCEPT ![l] = e]
    OBVIOUS
  <2>2. f[e] = 0 /\ g[l] # None
    BY <1>5, <1>10 DEF Evicts
  <2>3. Tagged(F, G, n)
    BY <1>6, <1>10, <2>1, <2>2, LineReused
  <2>4. g[l] \in Elements /\ F \in [Elements -> {0, 1}] /\ G \in [Lines -> Elements \union {None}]
    BY <1>6, <2>1, <2>2
  <2>5. /\ freq' = [freq EXCEPT ![t] = F] /\ tags' = [tags EXCEPT ![t] = G]
        /\ pcache_occupancy' = pcache_occupancy
    BY <1>1, <1>5, <1>10, <2>1 DEF Evicts, Typed
  <2>6. /\ oq2' \in [tiles -> Seq(Message)]
        /\ \A u \in tiles : room(oq_size, oq2'[u]) >= 0
    <3>1. PICK wb : wb = Writeback(t, g[l])
      OBVIOUS
    <3>2. /\ wb \in Seq(Message) /\ (Len(wb) = 0 \/ Len(wb) = 1)
          /\ WRITE_THROUGH = 1 => wb = <<>>
      BY <1>1, <2>4, <3>1, WritebackType
    <3>3. wb \o thr \in Seq(Message) /\ Len(wb \o thr) = Len(wb) + Len(thr)
      BY <3>2, ConcatProperties
    <3>4. Len(wb \o thr) = 0 \/ (Len(wb \o thr) = 1 /\ (WRITE_THROUGH = 1 \/ proxys_cached))
      <4>1. proxys_cached /\ WRITE_THROUGH \in {0, 1}
        BY <1>10, ProxyAssumption DEF Evicts
      <4>2. CASE WRITE_THROUGH = 1
        <5>1. Len(wb) = 0
          BY <3>2, <4>2, EmptySeq
        <5>2. QED
          BY <1>4, <3>3, <4>1, <5>1
      <4>3. CASE WRITE_THROUGH = 0
        <5>1. Len(thr) = 0
          BY <1>4, <4>3
        <5>2. QED
          BY <3>2, <3>3, <4>1, <5>1
      <4>4. QED
        BY <4>1, <4>2, <4>3
    <3>5. Sends(t, wb \o thr)
      BY <1>5, <1>10, <3>1 DEF Evicts
    <3>6. QED
      BY <1>7, <3>3, <3>4, <3>5
  <2>7. AllTagged'
    BY <1>1, <1>5, <2>3, <2>5 DEF AllTagged, Typed
  <2>8. QED
    BY <1>1, <2>4, <2>5, <2>6, <2>7 DEF Typed
<1>11. QED
  BY <1>2, <1>3, <1>8, <1>9, <1>10

LEMMA CopyType ==
  ASSUME Typed, NEW t \in tiles, NEW e \in Elements
  PROVE  Copy(t, e) \in Nat
BY Constants DEF Typed, Copy

LEMMA MessageType ==
  ASSUME NEW m \in Message
  PROVE  m.elem \in Elements /\ m.value \in Nat /\ m = Update(m.elem, m.value)
BY DEF Message, Update

LEMMA T3Keeps ==
  ASSUME CacheInv, iq2 # <<>>, T3, UNCHANGED <<epoch_begin, app>>
  PROVE  CacheInv'
<1>1. Typed /\ AllTagged /\ Roomy
  BY DEF CacheInv
<1>2. /\ Head(iq2) \in Message /\ iq2' \in Seq(Message) /\ room(iq_size, iq2') >= 0
      /\ UNCHANGED <<cache, iq3, oq2>>
  BY <1>1, FirstTaken, Constants DEF T3, Typed, Roomy
<1>3. ret' \in [Elements -> Nat]
  <2>1. PICK m : m = Head(iq2)
    OBVIOUS
  <2>2. m.elem \in Elements /\ m.value \in Nat
    BY <1>2, <2>1, MessageType
  <2>3. ret[m.elem] \in Nat /\ ret' = [ret EXCEPT ![m.elem] = Combine(ret[m.elem], m.value)]
    BY <1>1, <2>1, <2>2 DEF T3, Typed
  <2>4. PICK r \in Nat : r = ret[m.elem]
    BY <2>3
  <2>5. Combine(r, m.value) \in Nat
    BY <2>2, Combined
  <2>6. QED
    BY <1>1, <2>2, <2>3, <2>4, <2>5 DEF Typed
<1>4. Typed'
  BY <1>1, <1>2, <1>3 DEF Typed, cache, app
<1>5. AllTagged'
  BY <1>1, <1>2 DEF AllTagged, cache
<1>6. Roomy'
  BY <1>1, <1>2 DEF Roomy
<1>7. QED
  BY <1>4, <1>5, <1>6 DEF CacheInv

LEMMA T3bisKeeps ==
  ASSUME CacheInv, NEW t \in tiles, Runnable(t), T3bis(t), UNCHANGED <<epoch_begin, app>>
  PROVE  CacheInv'
<1>1. Typed /\ AllTagged /\ Roomy
  BY DEF CacheInv
<1>2. PICK q \in Seq(Message) : q = iq3[t] /\ q # <<>> /\ room(iq_size, q) >= 0
  BY <1>1 DEF Typed, Roomy, Runnable
<1>3. /\ Head(q) \in Message /\ Tail(q) \in Seq(Message) /\ room(iq_size, Tail(q)) >= 0
  BY <1>2, Constants, FirstTaken
<1>4. PICK e \in Elements, x \in Nat : e = Head(q).elem /\ x = Head(q).value
  BY <1>3, MessageType
<1>5. PICK old \in Nat : old = Copy(t, e)
  BY <1>1, CopyType
<1>6. PICK v \in Nat : v = Combine(old, x)
  BY Combined
<1>7. PICK write \in BOOLEAN : write = (APP = "HISTO" \/ x < old)
  OBVIOUS
<1>8. /\ Access(t, e, write, v) /\ iq3' = [iq3 EXCEPT ![t] = Tail(q)]
      /\ UNCHANGED <<ret, iq2, epoch_begin, app>>
  BY <1>2, <1>4, <1>5, <1>6, <1>7 DEF T3bis
<1>9. (WRITE_THROUGH = 1 \/ proxys_cached) => room(oq_size, oq2[t]) > 2
  BY DEF Runnable
<1>10. /\ proxy' \in [tiles -> [Elements -> Nat]]
       /\ freq' \in [tiles -> [Elements -> {0, 1}]]
       /\ tags' \in [tiles -> [Lines -> Elements \union {None}]]
       /\ pcache_occupancy' \in [tiles -> Int]
       /\ pcache_last_evicted' = pcache_last_evicted
       /\ oq2' \in [tiles -> Seq(Message)]
       /\ \A u \in tiles : room(oq_size, oq2'[u]) >= 0
       /\ AllTagged'
  BY <1>8, <1>9, AccessKeeps
<1>11. Typed'
  BY <1>1, <1>3, <1>8, <1>10 DEF Typed, app
<1>12. Roomy'
  BY <1>1, <1>3, <1>8, <1>10 DEF Roomy, Typed
<1>13. QED
  BY <1>10, <1>11, <1>12 DEF CacheInv

(* drain_pcache() frees a line that is taken and sends its copy on.        *)
LEMMA DrainFacts ==
  ASSUME CacheInv, NEW t \in tiles, Drain(t)
  PROVE  \E l \in Lines : \E d \in Elements :
           /\ d = tags[t][l] /\ tags[t][l] # None /\ freq[t][d] = 1 /\ WRITE_THROUGH = 0
           /\ tags' = [tags EXCEPT ![t][l] = None] /\ freq' = [freq EXCEPT ![t][d] = 0]
           /\ pcache_last_evicted' = [pcache_last_evicted EXCEPT ![t] = l]
           /\ pcache_occupancy' = [pcache_occupancy EXCEPT ![t] = @ - 1]
           /\ oq2' = [oq2 EXCEPT ![t] = Append(@, Update(d, proxy[t][d]))]
           /\ UNCHANGED <<proxy, ret, iq2, iq3>>
<1>1. Typed /\ AllTagged
  BY DEF CacheInv
<1>2. Valid(t) # {}
  <2>1. pcache_occupancy[t] > 0
    BY DEF Drain, pcache_active
  <2>2. pcache_occupancy[t] = Cardinality(Taken(tags[t]))
    BY <1>1 DEF AllTagged, Tagged
  <2>3. Cardinality({}) = 0
    BY FS_EmptySet
  <2>4. QED
    BY <1>1, <2>1, <2>2, <2>3, ValidLines
<1>3. PICK l : l = next_valid_line(t)
  OBVIOUS
<1>4. l \in Lines /\ tags[t][l] # None
  BY <1>1, <1>2, <1>3, NextValid, ValidLines DEF Taken
<1>5. PICK d \in Elements : d = tags[t][l]
  BY <1>1, <1>4 DEF Typed
<1>6. freq[t][d] = 1
  BY <1>1, <1>4, <1>5 DEF AllTagged, Tagged
<1>7. QED
  BY <1>3, <1>4, <1>5, <1>6 DEF Drain, drain_pcache, Freed, pcache_active

LEMMA DrainKeeps ==
  ASSUME CacheInv, NEW t \in tiles, Drain(t), UNCHANGED <<epoch_begin, app>>
  PROVE  CacheInv'
<1>1. Typed /\ AllTagged /\ Roomy
  BY DEF CacheInv
<1>2. PICK l \in Lines : \E d \in Elements :
           /\ d = tags[t][l] /\ tags[t][l] # None /\ freq[t][d] = 1 /\ WRITE_THROUGH = 0
           /\ tags' = [tags EXCEPT ![t][l] = None] /\ freq' = [freq EXCEPT ![t][d] = 0]
           /\ pcache_last_evicted' = [pcache_last_evicted EXCEPT ![t] = l]
           /\ pcache_occupancy' = [pcache_occupancy EXCEPT ![t] = @ - 1]
           /\ oq2' = [oq2 EXCEPT ![t] = Append(@, Update(d, proxy[t][d]))]
           /\ UNCHANGED <<proxy, ret, iq2, iq3>>
  BY DrainFacts
<1>3. PICK d \in Elements :
           /\ d = tags[t][l] /\ tags[t][l] # None
           /\ tags' = [tags EXCEPT ![t][l] = None] /\ freq' = [freq EXCEPT ![t][d] = 0]
           /\ pcache_last_evicted' = [pcache_last_evicted EXCEPT ![t] = l]
           /\ pcache_occupancy' = [pcache_occupancy EXCEPT ![t] = @ - 1]
           /\ oq2' = [oq2 EXCEPT ![t] = Append(@, Update(d, proxy[t][d]))]
           /\ UNCHANGED <<proxy, ret, iq2, iq3>>
  BY <1>2
<1>4. PICK q, f, g, n :
        /\ q \in Seq(Message) /\ q = oq2[t] /\ f = freq[t] /\ g = tags[t] /\ n = pcache_occupancy[t]
  BY <1>1 DEF Typed
<1>5. /\ f \in [Elements -> {0, 1}] /\ g \in [Lines -> Elements \union {None}] /\ n \in Int
      /\ Tagged(f, g, n) /\ g[l] # None
  BY <1>1, <1>3, <1>4 DEF Typed, AllTagged
<1>6. PICK F, G, N : F = [f EXCEPT ![g[l]] = 0] /\ G = [g EXCEPT ![l] = None] /\ N = n - 1
  OBVIOUS
<1>7. Tagged(F, G, N) /\ g[l] \in Elements
  BY <1>5, <1>6, LineFreed
<1>8. F \in [Elements -> {0, 1}] /\ G \in [Lines -> Elements \union {None}] /\ N \in Int
  BY <1>5, <1>6, <1>7
<1>9. /\ freq' = [freq EXCEPT ![t] = F] /\ tags' = [tags EXCEPT ![t] = G]
      /\ pcache_occupancy' = [pcache_occupancy EXCEPT ![t] = N]
  BY <1>1, <1>3, <1>4, <1>6 DEF Typed
<1>10. AllTagged'
  BY <1>1, <1>7, <1>9 DEF AllTagged, Typed
<1>11. room(oq_size, q) >= 2
  <2>1. PICK a \in Nat : a = Len(q)
    BY <1>4, LenProperties
  <2>2. CASE GLOBAL_BARRIER = 2
    <3>1. room(oq_size, q) > 2
      BY <1>4, <2>2 DEF Drain, drain_pcache_now
    <3>2. oq_size - 2 * a > 2
      BY <2>1, <3>1 DEF room
    <3>3. oq_size - 2 * a >= 2
      BY <3>2, <2>1, Constants
    <3>4. QED
      BY <2>1, <3>3 DEF room
  <2>3. CASE GLOBAL_BARRIER # 2
    <3>1. q = <<>>
      BY <1>4, <2>3 DEF Drain, drain_pcache_now, Quiet
    <3>2. Len(q) = 0
      BY <3>1, EmptySeq
    <3>3. QED
      BY <3>2, Constants DEF room
  <2>4. QED
    BY <2>2, <2>3
<1>12. PICK m \in Message : m = Update(d, proxy[t][d])
  BY <1>1, <1>3, UpdateType DEF Typed
<1>13. Append(q, m) \in Seq(Message) /\ room(oq_size, Append(q, m)) >= 0
  BY <1>4, <1>11, Constants, Appended
<1>14. oq2' = [oq2 EXCEPT ![t] = Append(q, m)]
  BY <1>3, <1>4, <1>12
<1>15. Typed'
  BY <1>1, <1>3, <1>8, <1>9, <1>13, <1>14 DEF Typed, app
<1>16. Roomy'
  BY <1>1, <1>3, <1>13, <1>14 DEF Roomy, Typed
<1>17. QED
  BY <1>10, <1>15, <1>16 DEF CacheInv

LEMMA NetworkKeeps ==
  ASSUME CacheInv, NEW t \in tiles, Arrive(t) \/ \E p \in tiles : Capture(t, p)
  PROVE  CacheInv'
<1>1. Typed /\ AllTagged /\ Roomy
  BY DEF CacheInv
<1>2. oq2[t] # <<>> /\ oq2' = [oq2 EXCEPT ![t] = Tail(oq2[t])] /\ UNCHANGED <<ret, cache, epoch_begin, app>>
  BY DEF Arrive, Capture
<1>3. PICK q \in Seq(Message) : q = oq2[t] /\ q # <<>> /\ room(oq_size, q) >= 0
  BY <1>1, <1>2 DEF Typed, Roomy
<1>4. Head(q) \in Message /\ Tail(q) \in Seq(Message) /\ room(oq_size, Tail(q)) >= 0
  BY <1>3, Constants, FirstTaken
<1>5. /\ oq2' \in [tiles -> Seq(Message)]
      /\ \A u \in tiles : room(oq_size, oq2'[u]) >= 0
  BY <1>1, <1>2, <1>3, <1>4 DEF Typed, Roomy
<1>6. /\ iq2' \in Seq(Message) /\ room(iq_size, iq2') >= 0
      /\ iq3' \in [tiles -> Seq(Message)]
      /\ \A u \in tiles : room(iq_size, iq3'[u]) >= 0
  <2>1. CASE Arrive(t)
    <3>1. /\ iq2 \in Seq(Message) /\ room(iq_size, iq2) >= 2 /\ iq2' = Append(iq2, Head(q))
          /\ iq3' = iq3
      BY <1>1, <1>3, <2>1 DEF Arrive, Typed
    <3>2. iq2' \in Seq(Message) /\ room(iq_size, iq2') >= 0
      BY <1>4, <3>1, Constants, Appended
    <3>3. QED
      BY <1>1, <3>1, <3>2 DEF Typed, Roomy
  <2>2. CASE \E p \in tiles : Capture(t, p)
    <3>1. PICK p \in tiles : Capture(t, p)
      BY <2>2
    <3>2. PICK r \in Seq(Message) : r = iq3[p]
      BY <1>1 DEF Typed
    <3>3. /\ room(iq_size, r) >= 2 /\ iq3' = [iq3 EXCEPT ![p] = Append(r, Head(q))] /\ iq2' = iq2
      BY <1>3, <3>1, <3>2 DEF Capture
    <3>4. Append(r, Head(q)) \in Seq(Message) /\ room(iq_size, Append(r, Head(q))) >= 0
      BY <1>4, <3>3, Constants, Appended
    <3>5. QED
      BY <1>1, <3>3, <3>4 DEF Typed, Roomy
  <2>3. QED
    BY <2>1, <2>2
<1>7. Typed' /\ Roomy'
  BY <1>1, <1>2, <1>5, <1>6 DEF Typed, Roomy, cache, app
<1>8. AllTagged'
  BY <1>1, <1>2 DEF AllTagged, cache
<1>9. QED
  BY <1>7, <1>8 DEF CacheInv

LEMMA SendKeeps ==
  ASSUME CacheInv, NEW t \in tiles, NEW e \in Elements, NEW v \in Values, Send(t, e, v)
  PROVE  CacheInv'
<1>1. Typed /\ AllTagged /\ Roomy
  BY DEF CacheInv
<1>2. PICK m \in Message : m = Update(e, v)
  BY Constants, UpdateType
<1>3. UNCHANGED <<ret, cache, iq2, epoch_begin>>
  BY DEF Send
<1>4. sent' \in [Elements -> Nat]
  <2>1. PICK a \in Nat, b \in Nat : a = sent[e] /\ b = v
    BY <1>1, Constants DEF Typed
  <2>2. Combine(a, b) \in Nat /\ sent' = [sent EXCEPT ![e] = Combine(a, b)]
    BY <2>1, Combined DEF Send
  <2>3. QED
    BY <1>1, <2>2 DEF Typed
<1>5. /\ oq2' \in [tiles -> Seq(Message)]
      /\ \A u \in tiles : room(oq_size, oq2'[u]) >= 0
      /\ iq3' \in [tiles -> Seq(Message)]
      /\ \A u \in tiles : room(iq_size, iq3'[u]) >= 0
  <2>1. CASE /\ room(iq_size, iq3[t]) >= 2
             /\ iq3' = [iq3 EXCEPT ![t] = Append(@, Update(e, v))]
             /\ UNCHANGED oq2
    <3>1. PICK r \in Seq(Message) : r = iq3[t] /\ room(iq_size, r) >= 2
      BY <1>1, <2>1 DEF Typed
    <3>2. Append(r, m) \in Seq(Message) /\ room(iq_size, Append(r, m)) >= 0
      BY <3>1, Constants, Appended
    <3>3. iq3' = [iq3 EXCEPT ![t] = Append(r, m)] /\ oq2' = oq2
      BY <1>2, <2>1, <3>1
    <3>4. QED
      BY <1>1, <3>2, <3>3 DEF Typed, Roomy
  <2>2. CASE /\ oq2[t] = <<>> /\ oq_size >= 2
             /\ oq2' = [oq2 EXCEPT ![t] = <<Update(e, v)>>]
             /\ UNCHANGED iq3
    <3>1. <<m>> \in Seq(Message) /\ room(oq_size, <<m>>) >= 0
      BY Constants DEF room
    <3>2. oq2' = [oq2 EXCEPT ![t] = <<m>>] /\ iq3' = iq3
      BY <1>2, <2>2
    <3>3. QED
      BY <1>1, <3>1, <3>2 DEF Typed, Roomy
  <2>3. QED
    BY <2>1, <2>2 DEF Send
<1>6. Typed' /\ Roomy'
  BY <1>1, <1>3, <1>4, <1>5 DEF Typed, Roomy, cache
<1>7. AllTagged'
  BY <1>1, <1>3 DEF AllTagged, cache
<1>8. QED
  BY <1>6, <1>7 DEF CacheInv

LEMMA EpochKeeps ==
  ASSUME CacheInv, EndEpoch \/ (\E t \in tiles : T4(t)) \/ UNCHANGED vars
  PROVE  CacheInv'
<1>1. Typed /\ AllTagged /\ Roomy
  BY DEF CacheInv
<1>2. UNCHANGED <<ret, cache, iq2, iq3, oq2, app>>
  BY DEF EndEpoch, T4, vars
<1>3. epoch_begin' \in [tiles -> {0, DRAIN_PCACHE_ID, EXPLORE_FRONTIER_ID}]
  BY <1>1 DEF EndEpoch, T4, vars, Typed
<1>4. Typed' /\ AllTagged' /\ Roomy'
  BY <1>1, <1>2, <1>3 DEF Typed, AllTagged, Roomy, cache, app
<1>5. QED
  BY <1>4 DEF CacheInv

LEMMA NextCases ==
  ASSUME [Next]_vars
  PROVE  \/ \E t \in tiles : T3Next(t) /\ T3 /\ UNCHANGED <<epoch_begin, app>>
         \/ \E t \in tiles : Runnable(t) /\ T3bis(t) /\ UNCHANGED <<epoch_begin, app>>
         \/ \E t \in tiles : Drain(t) /\ UNCHANGED <<epoch_begin, app>>
         \/ \E t \in tiles : Arrive(t) \/ \E p \in tiles : Capture(t, p)
         \/ \E t \in tiles, e \in Elements, v \in Values : Send(t, e, v)
         \/ EndEpoch \/ (\E t \in tiles : T4(t)) \/ UNCHANGED vars
BY DEF Next, Visit, Run

LEMMA CacheInvAlways == Spec => []CacheInv
<1>1. CacheInv /\ [Next]_vars => CacheInv'
  <2>1. SUFFICES ASSUME CacheInv, [Next]_vars PROVE CacheInv'
    OBVIOUS
  <2>2. ASSUME NEW t \in tiles, T3Next(t), T3, UNCHANGED <<epoch_begin, app>> PROVE CacheInv'
    <3>1. iq2 # <<>>
      BY <2>2 DEF T3Next
    <3>2. QED
      BY <2>1, <2>2, <3>1, T3Keeps
  <2>3. ASSUME NEW t \in tiles, Runnable(t), T3bis(t), UNCHANGED <<epoch_begin, app>> PROVE CacheInv'
    BY <2>1, <2>3, T3bisKeeps
  <2>4. ASSUME NEW t \in tiles, Drain(t), UNCHANGED <<epoch_begin, app>> PROVE CacheInv'
    BY <2>1, <2>4, DrainKeeps
  <2>5. ASSUME NEW t \in tiles, Arrive(t) \/ \E p \in tiles : Capture(t, p) PROVE CacheInv'
    BY <2>1, <2>5, NetworkKeeps
  <2>6. ASSUME NEW t \in tiles, NEW e \in Elements, NEW v \in Values, Send(t, e, v) PROVE CacheInv'
    BY <2>1, <2>6, SendKeeps
  <2>7. CASE EndEpoch \/ (\E t \in tiles : T4(t)) \/ UNCHANGED vars
    BY <2>1, <2>7, EpochKeeps
  <2>8. QED
    BY <2>1, <2>2, <2>3, <2>4, <2>5, <2>6, <2>7, NextCases
<1>2. QED
  BY InitInv, <1>1, PTL DEF Spec

(* Whatever is cached, evicted, captured and drained, in whatever order:   *)
(* no queue of task 3 or 3' overflows, an element is cached exactly when   *)
(* one line has its tag, the right one, and the occupancy counts the lines *)
(* that are taken (the assertions of check_pcache and drain_pcache).       *)
THEOREM LinesStayRight == Spec => [](TypeOK /\ CacheAgrees)
<1>1. CacheInv => TypeOK /\ CacheAgrees
  <2>1. SUFFICES ASSUME CacheInv PROVE TypeOK /\ CacheAgrees
    OBVIOUS
  <2>2. Typed /\ AllTagged /\ Roomy
    BY <2>1 DEF CacheInv
  <2>3. ASSUME NEW t \in tiles
        PROVE  /\ pcache_occupancy[t] = Cardinality(Valid(t))
               /\ pcache_occupancy[t] \in 0 .. pcache_size
               /\ proxys_cached => \A i \in Valid(t) : tags[t][i] % pcache_size = i
               /\ \A e \in Elements : freq[t][e] = Cardinality({i \in Valid(t) : tags[t][i] = e})
    <3>1. Tagged(freq[t], tags[t], pcache_occupancy[t])
      BY <2>2 DEF AllTagged
    <3>2. /\ pcache_occupancy[t] = Cardinality(Valid(t))
          /\ pcache_occupancy[t] \in 0 .. pcache_size
      BY <2>2, <3>1, ValidLines DEF Tagged
    <3>3. proxys_cached => \A i \in Valid(t) : tags[t][i] % pcache_size = i
      BY <2>2, <3>1, ValidLines DEF Tagged, Taken
    <3>4. ASSUME NEW e \in Elements
          PROVE  freq[t][e] = Cardinality({i \in Valid(t) : tags[t][i] = e})
      <4>1. PICK I : I = {i \in Valid(t) : tags[t][i] = e}
        OBVIOUS
      <4>2. e # None /\ freq[t][e] \in {0, 1}
        BY <2>2, Constants, Frequency
      <4>3. \A i : i \in I <=> i \in Lines /\ tags[t][i] = e
        BY <2>2, <4>1, <4>2, ValidLines DEF Taken
      <4>4. CASE freq[t][e] = 1
        <5>1. PICK i \in Lines : tags[t][i] = e
          BY <3>1, <4>4 DEF Tagged
        <5>2. \A j \in Lines : tags[t][j] = e => j = i
          BY <3>1, <4>2, <5>1 DEF Tagged
        <5>3. I = {i}
          BY <4>3, <5>1, <5>2
        <5>4. Cardinality({i}) = 1
          BY FS_Singleton
        <5>5. QED
          BY <4>1, <4>4, <5>3, <5>4
      <4>5. CASE freq[t][e] = 0
        <5>1. \A i \in Lines : tags[t][i] # e
          BY <3>1, <4>5 DEF Tagged
        <5>2. I = {}
          BY <4>3, <5>1
        <5>3. QED
          BY <4>1, <4>5, <5>2, FS_EmptySet
      <4>6. QED
        BY <4>2, <4>4, <4>5
    <3>5. QED
      BY <3>2, <3>3, <3>4
  <2>4. CacheAgrees
    BY <2>3 DEF CacheAgrees
  <2>5. pcache_occupancy \in [tiles -> 0 .. pcache_size]
    BY <2>2, <2>3 DEF Typed
  <2>6. TypeOK
    BY <2>2, <2>5 DEF TypeOK, Typed, Roomy, Lines
  <2>7. QED
    BY <2>4, <2>6
<1>2. QED
  BY CacheInvAlways, <1>1, PTL
-----------------------------------------------------------------------------
(* Minima.  Every value that is on its way or in a valid copy was sent or  *)
(* is above one that was, and below the default; the least value sent is   *)
(* always somewhere, and a value that was written through is ahead of the  *)
(* copy it was written to: between the copy and the owner.                 *)
Has(q, m) == \E i \in 1 .. Len(q) : q[i] = m

OnItsWay(m) == Has(iq2, m) \/ \E u \in tiles : Has(iq3[u], m) \/ Has(oq2[u], m)

Ahead(h, e, v) ==
  \/ ret[e] = v
  \/ Has(iq2, Update(e, v))
  \/ \E u \in tiles : u < h /\ Has(iq3[u], Update(e, v))
  \/ \E u \in tiles : u <= h /\ Has(oq2[u], Update(e, v))

Copied(e, v) == \E u \in tiles : freq[u][e] = 1 /\ proxy[u][e] = v

(* With WRITE_THROUGH a copy may be dropped and does not count.            *)
Somewhere(h, e, v) == Ahead(h, e, v) \/ (WRITE_THROUGH = 0 /\ Copied(e, v))

Sound ==
  /\ \A m \in Message : OnItsWay(m) => sent[m.elem] <= m.value /\ m.value < proxy_default
  /\ \A t \in tiles : \A e \in Elements :
       freq[t][e] = 1 => sent[e] <= proxy[t][e] /\ proxy[t][e] < proxy_default
  /\ \A e \in Elements : sent[e] <= ret[e]

LeastKept == \A e \in Elements : Somewhere(PROXYS, e, sent[e])

SentAhead ==
  WRITE_THROUGH = 1 => \A t \in tiles : \A e \in Elements :
    freq[t][e] = 1 => \E w \in Nat : w <= proxy[t][e] /\ Ahead(t, e, w)

MinInv == Sound /\ LeastKept /\ SentAhead

LEMMA HasBoth ==
  ASSUME NEW q \in Seq(Message), NEW r \in Seq(Message), NEW m
  PROVE  Has(q \o r, m) <=> Has(q, m) \/ Has(r, m)
<1>1. PICK a \in Nat, b \in Nat : a = Len(q) /\ b = Len(r)
  BY LenProperties
<1>2. /\ Len(q \o r) = a + b
      /\ \A i \in 1 .. a + b : (q \o r)[i] = IF i <= a THEN q[i] ELSE r[i - a]
  BY <1>1, ConcatProperties
<1>3. ASSUME NEW i \in 1 .. a, q[i] = m PROVE Has(q \o r, m)
  <2>1. i \in 1 .. a + b /\ i <= a
    BY <1>3
  <2>2. QED
    BY <1>2, <1>3, <2>1 DEF Has
<1>4. ASSUME NEW i \in 1 .. b, r[i] = m PROVE Has(q \o r, m)
  <2>1. i + a \in 1 .. a + b /\ ~ (i + a <= a) /\ (i + a) - a = i
    BY <1>4
  <2>2. QED
    BY <1>2, <1>4, <2>1 DEF Has
<1>5. ASSUME NEW i \in 1 .. a + b, (q \o r)[i] = m PROVE Has(q, m) \/ Has(r, m)
  <2>1. CASE i <= a
    <3>1. i \in 1 .. a
      BY <2>1
    <3>2. QED
      BY <1>1, <1>2, <1>5, <2>1, <3>1 DEF Has
  <2>2. CASE ~ (i <= a)
    <3>1. i - a \in 1 .. b
      BY <2>2
    <3>2. QED
      BY <1>1, <1>2, <1>5, <2>2, <3>1 DEF Has
  <2>3. QED
    BY <2>1, <2>2
<1>6. QED
  BY <1>1, <1>2, <1>3, <1>4, <1>5 DEF Has

LEMMA HasOne ==
  ASSUME NEW x \in Message, NEW m
  PROVE  <<x>> \in Seq(Message) /\ (Has(<<x>>, m) <=> m = x) /\ ~Has(<<>>, m)
<1>1. <<x>> \in Seq(Message) /\ Len(<<x>>) = 1 /\ <<x>>[1] = x /\ Len(<<>>) = 0
  OBVIOUS
<1>2. QED
  BY <1>1 DEF Has

LEMMA HasLast ==
  ASSUME NEW q \in Seq(Message), NEW x \in Message, NEW m
  PROVE  Has(Append(q, x), m) <=> Has(q, m) \/ m = x
<1>1. Append(q, x) = q \o <<x>>
  BY AppendIsConcat
<1>2. PICK r \in Seq(Message) : r = <<x>>
  BY HasOne
<1>3. Has(q \o r, m) <=> Has(q, m) \/ Has(r, m)
  BY HasBoth
<1>4. QED
  BY <1>1, <1>2, <1>3, HasOne

LEMMA HasFirst ==
  ASSUME NEW q \in Seq(Message), q # <<>>, NEW m
  PROVE  /\ Head(q) \in Message /\ Tail(q) \in Seq(Message)
         /\ Has(q, m) <=> m = Head(q) \/ Has(Tail(q), m)
<1>1. PICK x \in Message, r \in Seq(Message) : x = Head(q) /\ r = Tail(q)
  BY HeadTailProperties
<1>2. q = <<x>> \o r
  BY <1>1, HeadTailProperties
<1>3. PICK y \in Seq(Message) : y = <<x>>
  BY HasOne
<1>4. Has(y \o r, m) <=> Has(y, m) \/ Has(r, m)
  BY HasBoth
<1>5. QED
  BY <1>1, <1>2, <1>3, <1>4, HasOne

LEMMA SameUpdate ==
  ASSUME NEW d, NEW e, NEW v, NEW w, Update(d, v) = Update(e, w)
  PROVE  d = e /\ v = w
BY DEF Update

(* What task 3' of tile t does with an update of e to x.                   *)
Better(t, e, x) == x < Copy(t, e)

Task3bis(t, e, x) ==
  /\ Has(iq3[t], Update(e, x))
  /\ \A u \in tiles : \A m \in Message :
       /\ Has(iq3[u], m) => Has(iq3'[u], m) \/ (u = t /\ m = Update(e, x))
       /\ Has(iq3'[u], m) => Has(iq3[u], m)
       /\ Has(oq2[u], m) => Has(oq2'[u], m)
       /\ Has(oq2'[u], m) =>
            \/ Has(oq2[u], m)
            \/ Better(t, e, x) /\ m = Update(e, x)
            \/ \E d \in Elements : freq[t][d] = 1 /\ m = Update(d, proxy[t][d])
  /\ Better(t, e, x) /\ WRITE_THROUGH = 1 => Has(oq2'[t], Update(e, x))
  /\ UNCHANGED <<ret, iq2, sent>>
  /\ proxy' = IF Better(t, e, x) THEN [proxy EXCEPT ![t][e] = x] ELSE proxy
  /\ freq'[t][e] = 1
  /\ \A u \in tiles : \A d \in Elements :
       /\ freq'[u][d] = 1 => freq[u][d] = 1 \/ (u = t /\ d = e)
       /\ freq[u][d] = 1 => \/ freq'[u][d] = 1
                            \/ /\ u = t /\ d # e
                               /\ WRITE_THROUGH = 0 => Has(oq2'[t], Update(d, proxy[t][d]))

LEMMA Task3bisIs ==
  ASSUME CacheInv, APP = "SSSP", NEW t \in tiles, Runnable(t), T3bis(t), UNCHANGED <<epoch_begin, app>>
  PROVE  \E e \in Elements : \E x \in Nat : Task3bis(t, e, x)
<1>1. Typed /\ AllTagged
  BY DEF CacheInv
<1>2. PICK q \in Seq(Message) : q = iq3[t] /\ q # <<>>
  BY <1>1 DEF Typed, Runnable
<1>3. Head(q) \in Message /\ Tail(q) \in Seq(Message) /\ \A m : Has(q, m) <=> m = Head(q) \/ Has(Tail(q), m)
  BY <1>2, HasFirst
<1>4. PICK e \in Elements, x \in Nat : e = Head(q).elem /\ x = Head(q).value /\ Head(q) = Update(e, x)
  BY <1>3, MessageType
<1>5. PICK old \in Nat : old = Copy(t, e)
  BY <1>1, CopyType
<1>6. PICK v \in Nat : v = Combine(old, x)
  BY Combined
<1>7. PICK write \in BOOLEAN : write = (APP = "HISTO" \/ x < old)
  OBVIOUS
<1>8. /\ Access(t, e, write, v) /\ iq3' = [iq3 EXCEPT ![t] = Tail(q)]
      /\ UNCHANGED <<ret, iq2, sent>>
  BY <1>2, <1>4, <1>5, <1>6, <1>7 DEF T3bis, app
<1>9. write => v = x
  <2>1. v = IF old <= x THEN old ELSE x
    BY <1>6, Combined
  <2>2. write => x < old
    BY <1>7
  <2>3. QED
    BY <2>1, <2>2
<1>10. write <=> Better(t, e, x)
  BY <1>5, <1>7 DEF Better
<1>11. PICK thr \in Seq(Message) :
           /\ thr = IF write /\ WRITE_THROUGH = 1 THEN <<Update(e, v)>> ELSE <<>>
           /\ \/ Finds(t, e, thr)
              \/ \E l \in Lines : /\ proxys_cached => l = e % pcache_size
                                  /\ Takes(t, e, l, thr) \/ Evicts(t, e, l, thr)
  BY <1>1, <1>8, AccessCases
<1>12. PICK m0 \in Message : m0 = Update(e, x)
  BY UpdateType
<1>13. \A m : Has(thr, m) <=> write /\ WRITE_THROUGH = 1 /\ m = m0
  BY <1>9, <1>11, <1>12, HasOne
<1>14. PICK o \in Seq(Message) : o = oq2[t]
  BY <1>1 DEF Typed
(* The input queue.                                                        *)
<1>15. Has(iq3[t], Update(e, x))
  BY <1>2, <1>3, <1>4
<1>16. \A u \in tiles : \A m \in Message :
         /\ Has(iq3[u], m) => Has(iq3'[u], m) \/ (u = t /\ m = Update(e, x))
         /\ Has(iq3'[u], m) => Has(iq3[u], m)
  BY <1>1, <1>2, <1>3, <1>4, <1>8 DEF Typed
<1>17. proxy' = IF Better(t, e, x) THEN [proxy EXCEPT ![t][e] = x] ELSE proxy
  BY <1>8, <1>9, <1>10 DEF Access
(* The output queue, after the updates that are sent.                      *)
<1>18. ASSUME NEW msgs \in Seq(Message), Sends(t, msgs)
       PROVE  /\ \A u \in tiles : u # t => oq2'[u] = oq2[u]
              /\ \A m : Has(oq2'[t], m) <=> Has(oq2[t], m) \/ Has(msgs, m)
  <2>1. oq2' = [oq2 EXCEPT ![t] = o \o msgs]
    BY <1>14, <1>18 DEF Sends
  <2>2. \A m : Has(o \o msgs, m) <=> Has(o, m) \/ Has(msgs, m)
    BY HasBoth
  <2>3. QED
    BY <1>1, <1>14, <2>1, <2>2 DEF Typed
<1>19. ASSUME Sends(t, thr)
       PROVE  /\ \A u \in tiles : \A m \in Message :
                   /\ Has(oq2[u], m) => Has(oq2'[u], m)
                   /\ Has(oq2'[u], m) => Has(oq2[u], m) \/ (Better(t, e, x) /\ m = Update(e, x))
              /\ Better(t, e, x) /\ WRITE_THROUGH = 1 => Has(oq2'[t], Update(e, x))
  BY <1>10, <1>12, <1>13, <1>18, <1>19
<1>20. CASE Finds(t, e, thr)
  <2>1. freq' = freq /\ freq[t][e] = 1 /\ Sends(t, thr)
    BY <1>20 DEF Finds
  <2>2. Task3bis(t, e, x)
    BY <1>8, <1>15, <1>16, <1>17, <1>19, <2>1 DEF Task3bis
  <2>3. QED
    BY <2>2
<1>21. ASSUME NEW l \in Lines, Takes(t, e, l, thr)
       PROVE  Task3bis(t, e, x)
  <2>1. freq' = [freq EXCEPT ![t][e] = 1] /\ Sends(t, thr)
    BY <1>21 DEF Takes
  <2>2. /\ freq'[t][e] = 1
        /\ \A u \in tiles : \A d \in Elements : u # t \/ d # e => freq'[u][d] = freq[u][d]
    BY <1>1, <2>1 DEF Typed
  <2>3. QED
    BY <1>8, <1>15, <1>16, <1>17, <1>19, <2>1, <2>2 DEF Task3bis
<1>22. ASSUME NEW l \in Lines, Evicts(t, e, l, thr)
       PROVE  Task3bis(t, e, x)
  <2>1. PICK c \in Elements : c = tags[t][l]
    BY <1>1, <1>22 DEF Typed, Evicts
  <2>2. freq[t][c] = 1 /\ c # e
    BY <1>1, <1>22, <2>1 DEF AllTagged, Tagged, Evicts
  <2>3. freq' = [[freq EXCEPT ![t][c] = 0] EXCEPT ![t][e] = 1]
    BY <1>22, <2>1 DEF Evicts
  <2>4. /\ freq'[t][e] = 1 /\ freq'[t][c] = 0
        /\ \A u \in tiles : \A d \in Elements : u # t \/ (d # e /\ d # c) => freq'[u][d] = freq[u][d]
    BY <1>1, <2>2, <2>3 DEF Typed
  <2>5. PICK wb \in Seq(Message) : wb = Writeback(t, c)
    BY <1>1, WritebackType
  <2>6. PICK mc \in Message : mc = Update(c, proxy[t][c])
    BY <1>1, WritebackType
  <2>7. \A m : Has(wb, m) <=> WRITE_THROUGH # 1 /\ m = mc
    BY <2>5, <2>6, HasOne DEF Writeback
  <2>8. wb \o thr \in Seq(Message) /\ \A m : Has(wb \o thr, m) <=> Has(wb, m) \/ Has(thr, m)
    BY HasBoth, ConcatProperties
  <2>9. Sends(t, wb \o thr)
    BY <1>22, <2>1, <2>5 DEF Evicts
  <2>10. /\ \A u \in tiles : u # t => oq2'[u] = oq2[u]
         /\ \A m : Has(oq2'[t], m) <=> \/ Has(oq2[t], m) \/ (WRITE_THROUGH # 1 /\ m = mc)
                                       \/ (write /\ WRITE_THROUGH = 1 /\ m = m0)
    BY <1>13, <1>18, <2>7, <2>8, <2>9
  <2>11. \A u \in tiles : \A m \in Message :
           /\ Has(oq2[u], m) => Has(oq2'[u], m)
           /\ Has(oq2'[u], m) =>
                \/ Has(oq2[u], m)
                \/ Better(t, e, x) /\ m = Update(e, x)
                \/ \E d \in Elements : freq[t][d] = 1 /\ m = Update(d, proxy[t][d])
    <3>1. SUFFICES ASSUME NEW u \in tiles, NEW m \in Message
                   PROVE  /\ Has(oq2[u], m) => Has(oq2'[u], m)
                          /\ Has(oq2'[u], m) =>
                               \/ Has(oq2[u], m)
                               \/ Better(t, e, x) /\ m = Update(e, x)
                               \/ freq[t][c] = 1 /\ m = Update(c, proxy[t][c])
      OBVIOUS
    <3>2. CASE u = t
      BY <1>10, <1>12, <2>2, <2>6, <2>10, <3>2
    <3>3. CASE u # t
      BY <2>10, <3>3
    <3>4. QED
      BY <3>2, <3>3
  <2>12. /\ Better(t, e, x) /\ WRITE_THROUGH = 1 => Has(oq2'[t], Update(e, x))
         /\ WRITE_THROUGH = 0 => Has(oq2'[t], Update(c, proxy[t][c]))
    BY <1>10, <1>12, <2>6, <2>10
  <2>13. \A u \in tiles : \A d \in Elements :
           /\ freq'[u][d] = 1 => freq[u][d] = 1 \/ (u = t /\ d = e)
           /\ freq[u][d] = 1 => \/ freq'[u][d] = 1
                                \/ /\ u = t /\ d # e
                                   /\ WRITE_THROUGH = 0 => Has(oq2'[t], Update(d, proxy[t][d]))
    BY <2>2, <2>4, <2>12
  <2>14. QED
    BY <1>8, <1>15, <1>16, <1>17, <2>4, <2>11, <2>12, <2>13 DEF Task3bis
<1>23. QED
  BY <1>11, <1>20, <1>21, <1>22
-----------------------------------------------------------------------------
(* A value that is somewhere (ahead of tile h) stays there, or a better    *)
(* one takes its place.                                                    *)
Point(h) == h = PROXYS \/ (WRITE_THROUGH = 1 /\ h \in tiles)
StillThere(h, e, v) == \E w \in Nat : w <= v /\ Somewhere(h, e, w)'

LEMMA Points ==
  ASSUME NEW h, Point(h)
  PROVE  h \in Nat /\ tiles \subseteq Nat /\ PROXYS \in Nat /\ \A u \in tiles : u < PROXYS
<1>1. PROXYS \in Nat /\ tiles \subseteq Nat /\ \A u \in tiles : u < PROXYS
  BY ProxyAssumption DEF tiles
<1>2. QED
  BY <1>1 DEF Point

LEMMA StayingThere ==
  ASSUME NEW h, NEW e, NEW v \in Nat, Somewhere(h, e, v)'
  PROVE  StillThere(h, e, v)
BY DEF StillThere

LEMMA T3Still ==
  ASSUME CacheInv, APP = "SSSP", NEW h, NEW e \in Elements, NEW v \in Nat, Somewhere(h, e, v),
         iq2 # <<>>, T3
  PROVE  StillThere(h, e, v)
<1>1. Typed
  BY DEF CacheInv
<1>2. PICK q \in Seq(Message) : q = iq2 /\ q # <<>>
  BY <1>1 DEF Typed
<1>3. Head(q) \in Message /\ Tail(q) \in Seq(Message) /\ \A m : Has(q, m) <=> m = Head(q) \/ Has(Tail(q), m)
  BY <1>2, HasFirst
<1>4. PICK d \in Elements, x \in Nat : d = Head(q).elem /\ x = Head(q).value /\ Head(q) = Update(d, x)
  BY <1>3, MessageType
<1>5. PICK r \in Nat : r = ret[d]
  BY <1>1 DEF Typed
<1>6. PICK c \in Nat : c = Combine(r, x) /\ c <= r /\ c <= x
  <2>1. Combine(r, x) \in Nat /\ Combine(r, x) = IF r <= x THEN r ELSE x
    BY Combined
  <2>2. Combine(r, x) <= r /\ Combine(r, x) <= x
    BY <2>1
  <2>3. QED
    BY <2>1, <2>2
<1>7. /\ ret' = [ret EXCEPT ![d] = c] /\ iq2' = Tail(q)
      /\ proxy' = proxy /\ freq' = freq /\ iq3' = iq3 /\ oq2' = oq2
  BY <1>2, <1>4, <1>5, <1>6 DEF T3, cache
<1>8. ret'[d] = c /\ \A u \in Elements : u # d => ret'[u] = ret[u]
  BY <1>1, <1>7 DEF Typed
<1>9. CASE e = d /\ (ret[e] = v \/ v = x)
  <2>1. c <= v /\ ret'[e] = c
    BY <1>5, <1>6, <1>8, <1>9
  <2>2. Somewhere(h, e, c)'
    BY <2>1 DEF Somewhere, Ahead
  <2>3. QED
    BY <2>1, <2>2 DEF StillThere
<1>10. CASE ~(e = d /\ (ret[e] = v \/ v = x))
  <2>1. ret[e] = v => ret'[e] = v
    BY <1>8, <1>10
  <2>2. Has(iq2, Update(e, v)) => Has(iq2', Update(e, v))
    BY <1>2, <1>3, <1>4, <1>7, <1>10, SameUpdate
  <2>3. Somewhere(h, e, v)'
    BY <1>7, <2>1, <2>2 DEF Somewhere, Ahead, Copied
  <2>4. QED
    BY <2>3, StayingThere
<1>11. QED
  BY <1>9, <1>10

LEMMA T3bisStill ==
  ASSUME CacheInv, MinInv, NEW h, Point(h), NEW e \in Elements, NEW v \in Nat, Somewhere(h, e, v),
         NEW t \in tiles, NEW d \in Elements, NEW x \in Nat, Task3bis(t, d, x)
  PROVE  StillThere(h, e, v)
<1>1. Typed
  BY DEF CacheInv
<1>2. h \in Nat /\ tiles \subseteq Nat /\ \A u \in tiles : u < PROXYS
  BY Points
<1>3. WRITE_THROUGH \in {0, 1} /\ (WRITE_THROUGH = 0 => h = PROXYS)
  BY ProxyAssumption DEF Point
<1>4. UNCHANGED <<ret, iq2>> /\ \A u \in tiles : \A m \in Message : Has(oq2[u], m) => Has(oq2'[u], m)
  BY DEF Task3bis
<1>5. Update(e, v) \in Message /\ Update(d, x) \in Message
  BY UpdateType
<1>6. CASE Ahead(h, e, v) /\ ~ (\E u \in tiles : u < h /\ Has(iq3[u], Update(e, v)) /\ ~Has(iq3'[u], Update(e, v)))
  <2>1. Ahead(h, e, v)'
    BY <1>4, <1>5, <1>6 DEF Ahead
  <2>2. QED
    BY <2>1, StayingThere DEF Somewhere
<1>7. ASSUME NEW u \in tiles, u < h, Has(iq3[u], Update(e, v)), ~Has(iq3'[u], Update(e, v))
      PROVE  StillThere(h, e, v)
  <2>1. u = t /\ Update(e, v) = Update(d, x)
    BY <1>5, <1>7 DEF Task3bis
  <2>2. u = t /\ e = d /\ v = x
    BY <2>1, SameUpdate
  <2>3. freq'[t][e] = 1
    BY <2>2 DEF Task3bis
  <2>4. CASE Better(t, e, v)
    <3>1. proxy'[t][e] = v
      BY <1>1, <2>2, <2>4 DEF Task3bis, Typed
    <3>2. WRITE_THROUGH = 1 => Has(oq2'[t], Update(e, v))
      BY <2>2, <2>4 DEF Task3bis
    <3>3. t <= h
      BY <1>2, <1>7, <2>2
    <3>4. Somewhere(h, e, v)'
      BY <1>3, <2>3, <3>1, <3>2, <3>3 DEF Somewhere, Ahead, Copied
    <3>5. QED
      BY <3>4, StayingThere
  <2>5. CASE ~Better(t, e, v)
    <3>1. PICK c \in Nat : c = proxy[t][e]
      BY <1>1 DEF Typed
    <3>2. freq[t][e] = 1 /\ c <= v
      <4>1. v < proxy_default
        BY <1>5, <1>7, MessageType, UpdateType DEF MinInv, Sound, OnItsWay
      <4>2. CASE ~(freq[t][e] > 0)
        BY <2>5, <4>1, <4>2 DEF Better, Copy
      <4>3. CASE freq[t][e] > 0
        <5>1. Copy(t, e) = c
          BY <3>1, <4>3 DEF Copy
        <5>2. ~(v < c)
          BY <2>5, <5>1 DEF Better
        <5>3. QED
          BY <1>1, <4>3, <5>2, Frequency
      <4>4. QED
        BY <4>2, <4>3
    <3>3. proxy' = proxy
      BY <2>2, <2>5 DEF Task3bis
    <3>4. CASE WRITE_THROUGH = 0
      <4>1. Somewhere(h, e, c)'
        BY <2>3, <3>1, <3>3, <3>4 DEF Somewhere, Copied
      <4>2. QED
        BY <3>2, <4>1 DEF StillThere
    <3>5. CASE WRITE_THROUGH = 1
      <4>1. PICK w \in Nat : w <= c /\ Ahead(t, e, w)
        BY <3>1, <3>2, <3>5 DEF MinInv, SentAhead
      <4>2. Update(e, w) \in Message
        BY UpdateType
      <4>3. \A y \in tiles : y < t /\ Has(iq3[y], Update(e, w)) => Has(iq3'[y], Update(e, w))
        <5>1. \A y \in tiles : y < t => y # t
          BY <1>2
        <5>2. QED
          BY <4>2, <5>1 DEF Task3bis
      <4>4. \A y \in tiles : (y < t => y < h) /\ (y <= t => y <= h)
        <5>1. t \in Nat /\ h \in Nat /\ t < h
          BY <1>2, <1>7, <2>2
        <5>2. \A y \in Nat : (y < t => y < h) /\ (y <= t => y <= h)
          BY <5>1
        <5>3. QED
          BY <1>2, <5>2
      <4>5. Ahead(h, e, w)'
        BY <1>4, <4>1, <4>2, <4>3, <4>4 DEF Ahead
      <4>6. w <= v
        BY <3>2, <4>1
      <4>7. QED
        BY <4>5, <4>6 DEF StillThere, Somewhere
    <3>6. QED
      BY <1>3, <3>4, <3>5
  <2>6. QED
    BY <2>4, <2>5
<1>8. CASE WRITE_THROUGH = 0 /\ Copied(e, v)
  <2>1. PICK u \in tiles : freq[u][e] = 1 /\ proxy[u][e] = v
    BY <1>8 DEF Copied
  <2>2. CASE freq'[u][e] = 1
    <3>1. CASE Better(t, d, x) /\ u = t /\ e = d
      <4>1. proxy'[u][e] = x
        BY <1>1, <3>1 DEF Task3bis, Typed
      <4>2. Copy(t, e) = v
        BY <2>1, <3>1 DEF Copy
      <4>3. x < v
        BY <3>1, <4>2 DEF Better
      <4>4. x <= v
        BY <4>3
      <4>5. Somewhere(h, e, x)'
        BY <1>8, <2>2, <4>1 DEF Somewhere, Copied
      <4>6. QED
        BY <4>4, <4>5 DEF StillThere
    <3>2. CASE ~(Better(t, d, x) /\ u = t /\ e = d)
      <4>1. proxy'[u][e] = v
        BY <1>1, <2>1, <3>2 DEF Task3bis, Typed
      <4>2. Somewhere(h, e, v)'
        BY <1>8, <2>2, <4>1 DEF Somewhere, Copied
      <4>3. QED
        BY <4>2, StayingThere
    <3>3. QED
      BY <3>1, <3>2
  <2>3. CASE freq'[u][e] # 1
    <3>1. u = t /\ Has(oq2'[t], Update(e, v))
      BY <1>8, <2>1, <2>3 DEF Task3bis
    <3>2. t <= h
      BY <1>2, <1>3, <1>8
    <3>3. Somewhere(h, e, v)'
      BY <3>1, <3>2 DEF Somewhere, Ahead
    <3>4. QED
      BY <3>3, StayingThere
  <2>4. QED
    BY <2>2, <2>3
<1>9. QED
  BY <1>6, <1>7, <1>8 DEF Somewhere

LEMMA DrainStill ==
  ASSUME CacheInv, NEW h, Point(h), NEW e \in Elements, NEW v \in Nat, Somewhere(h, e, v),
         NEW t \in tiles, Drain(t)
  PROVE  StillThere(h, e, v)
<1>1. Typed
  BY DEF CacheInv
<1>2. PICK l \in Lines : \E d \in Elements :
           /\ d = tags[t][l] /\ tags[t][l] # None /\ freq[t][d] = 1 /\ WRITE_THROUGH = 0
           /\ tags' = [tags EXCEPT ![t][l] = None] /\ freq' = [freq EXCEPT ![t][d] = 0]
           /\ pcache_last_evicted' = [pcache_last_evicted EXCEPT ![t] = l]
           /\ pcache_occupancy' = [pcache_occupancy EXCEPT ![t] = @ - 1]
           /\ oq2' = [oq2 EXCEPT ![t] = Append(@, Update(d, proxy[t][d]))]
           /\ UNCHANGED <<proxy, ret, iq2, iq3>>
  BY DrainFacts
<1>3. PICK d \in Elements :
           /\ WRITE_THROUGH = 0 /\ freq' = [freq EXCEPT ![t][d] = 0]
           /\ oq2' = [oq2 EXCEPT ![t] = Append(@, Update(d, proxy[t][d]))]
           /\ UNCHANGED <<proxy, ret, iq2, iq3>>
  BY <1>2
<1>4. PICK q \in Seq(Message), md \in Message : q = oq2[t] /\ md = Update(d, proxy[t][d])
  BY <1>1, WritebackType DEF Typed
<1>5. \A m : Has(Append(q, md), m) <=> Has(q, m) \/ m = md
  BY HasLast
<1>6. /\ \A u \in tiles : \A m : Has(oq2[u], m) => Has(oq2'[u], m)
      /\ Has(oq2'[t], md)
  BY <1>1, <1>3, <1>4, <1>5 DEF Typed
<1>7. CASE Ahead(h, e, v)
  <2>1. Ahead(h, e, v)'
    BY <1>3, <1>6, <1>7 DEF Ahead
  <2>2. QED
    BY <2>1, StayingThere DEF Somewhere
<1>8. CASE Copied(e, v)
  <2>1. PICK u \in tiles : freq[u][e] = 1 /\ proxy[u][e] = v
    BY <1>8 DEF Copied
  <2>2. CASE u = t /\ e = d
    <3>1. Has(oq2'[t], Update(e, v))
      BY <1>4, <1>6, <2>1, <2>2
    <3>2. t <= h
      <4>1. h = PROXYS
        BY <1>3 DEF Point
      <4>2. t \in Nat /\ h \in Nat /\ t < h
        BY <4>1, Points
      <4>3. QED
        BY <4>2
    <3>3. Somewhere(h, e, v)'
      BY <3>1, <3>2 DEF Somewhere, Ahead
    <3>4. QED
      BY <3>3, StayingThere
  <2>3. CASE ~(u = t /\ e = d)
    <3>1. freq'[u][e] = 1 /\ proxy'[u][e] = v
      BY <1>1, <1>3, <2>1, <2>3 DEF Typed
    <3>2. Somewhere(h, e, v)'
      BY <1>3, <3>1 DEF Somewhere, Copied
    <3>3. QED
      BY <3>2, StayingThere
  <2>4. QED
    BY <2>2, <2>3
<1>9. QED
  BY <1>7, <1>8 DEF Somewhere

LEMMA NetworkStill ==
  ASSUME CacheInv, NEW h, Point(h), NEW e \in Elements, NEW v \in Nat, Somewhere(h, e, v),
         NEW t \in tiles, Arrive(t) \/ \E p \in tiles : Capture(t, p)
  PROVE  StillThere(h, e, v)
<1>1. Typed
  BY DEF CacheInv
<1>2. h \in Nat /\ tiles \subseteq Nat
  BY Points
<1>3. PICK q \in Seq(Message) : q = oq2[t] /\ q # <<>>
  BY <1>1 DEF Typed, Arrive, Capture
<1>4. Head(q) \in Message /\ Tail(q) \in Seq(Message) /\ \A m : Has(q, m) <=> m = Head(q) \/ Has(Tail(q), m)
  BY <1>3, HasFirst
<1>5. oq2' = [oq2 EXCEPT ![t] = Tail(q)] /\ UNCHANGED <<ret, proxy, freq>>
  BY <1>3 DEF Arrive, Capture, cache
<1>6. \A u \in tiles : \A m : Has(oq2[u], m) => Has(oq2'[u], m) \/ (u = t /\ m = Head(q))
  BY <1>1, <1>3, <1>4, <1>5 DEF Typed
<1>7. CASE Arrive(t)
  <2>1. iq2 \in Seq(Message) /\ iq2' = Append(iq2, Head(q)) /\ iq3' = iq3
    BY <1>1, <1>3, <1>7 DEF Arrive, Typed
  <2>2. \A m : Has(iq2', m) <=> Has(iq2, m) \/ m = Head(q)
    BY <1>4, <2>1, HasLast
  <2>3. Somewhere(h, e, v)'
    BY <1>5, <1>6, <2>1, <2>2 DEF Somewhere, Ahead, Copied
  <2>4. QED
    BY <2>3, StayingThere
<1>8. ASSUME NEW p \in tiles, Capture(t, p) PROVE StillThere(h, e, v)
  <2>1. PICK r \in Seq(Message) : r = iq3[p]
    BY <1>1 DEF Typed
  <2>2. iq3' = [iq3 EXCEPT ![p] = Append(r, Head(q))] /\ iq2' = iq2
    BY <1>3, <1>8, <2>1 DEF Capture
  <2>3. \A m : Has(Append(r, Head(q)), m) <=> Has(r, m) \/ m = Head(q)
    BY <1>4, HasLast
  <2>4. /\ \A u \in tiles : \A m : Has(iq3[u], m) => Has(iq3'[u], m)
        /\ Has(iq3'[p], Head(q))
    BY <1>1, <2>1, <2>2, <2>3 DEF Typed
  <2>5. p < t
    <3>1. p \in Onward(t) /\ t \in Nat /\ p \in Nat
      BY <1>2, <1>8 DEF Capture
    <3>2. QED
      BY <3>1 DEF Onward
  <2>6. t <= h => p < h
    <3>1. t \in Nat /\ p \in Nat
      BY <1>2
    <3>2. QED
      BY <1>2, <2>5, <3>1
  <2>7. Somewhere(h, e, v)'
    <3>1. CASE \E u \in tiles : u <= h /\ Has(oq2[u], Update(e, v)) /\ ~Has(oq2'[u], Update(e, v))
      <4>1. t <= h /\ Update(e, v) = Head(q)
        BY <1>6, <3>1
      <4>2. QED
        BY <2>4, <2>6, <4>1 DEF Somewhere, Ahead
    <3>2. CASE ~ \E u \in tiles : u <= h /\ Has(oq2[u], Update(e, v)) /\ ~Has(oq2'[u], Update(e, v))
      BY <1>5, <2>2, <2>4, <3>2 DEF Somewhere, Ahead, Copied
    <3>3. QED
      BY <3>1, <3>2
  <2>8. QED
    BY <2>7, StayingThere
<1>9. QED
  BY <1>7, <1>8

(* Send() adds an update and takes none.                                   *)
LEMMA SendAdds ==
  ASSUME CacheInv, NEW t \in tiles, NEW d \in Elements, NEW x \in Values, Send(t, d, x)
  PROVE  /\ UNCHANGED <<ret, proxy, freq, iq2>>
         /\ \A u \in tiles : \A m :
              /\ Has(iq3[u], m) => Has(iq3'[u], m)
              /\ Has(oq2[u], m) => Has(oq2'[u], m)
              /\ Has(iq3'[u], m) => Has(iq3[u], m) \/ m = Update(d, x)
              /\ Has(oq2'[u], m) => Has(oq2[u], m) \/ m = Update(d, x)
         /\ Has(iq3'[t], Update(d, x)) \/ Has(oq2'[t], Update(d, x))
<1>1. Typed
  BY DEF CacheInv
<1>2. PICK m0 \in Message : m0 = Update(d, x)
  BY Constants, UpdateType
<1>3. UNCHANGED <<ret, proxy, freq, iq2>>
  BY DEF Send, cache
<1>4. CASE /\ room(iq_size, iq3[t]) >= 2
           /\ iq3' = [iq3 EXCEPT ![t] = Append(@, Update(d, x))]
           /\ UNCHANGED oq2
  <2>1. PICK r \in Seq(Message) : r = iq3[t]
    BY <1>1 DEF Typed
  <2>2. \A m : Has(Append(r, m0), m) <=> Has(r, m) \/ m = m0
    BY HasLast
  <2>3. /\ \A m : Has(iq3'[t], m) <=> Has(iq3[t], m) \/ m = m0
        /\ \A u \in tiles : u # t => iq3'[u] = iq3[u]
    BY <1>1, <1>2, <1>4, <2>1, <2>2 DEF Typed
  <2>4. QED
    BY <1>2, <1>3, <1>4, <2>3
<1>5. CASE /\ oq2[t] = <<>> /\ oq_size >= 2
           /\ oq2' = [oq2 EXCEPT ![t] = <<Update(d, x)>>]
           /\ UNCHANGED iq3
  <2>1. \A m : (Has(<<m0>>, m) <=> m = m0) /\ ~Has(<<>>, m)
    BY HasOne
  <2>2. /\ \A m : Has(oq2'[t], m) <=> Has(oq2[t], m) \/ m = m0
        /\ \A u \in tiles : u # t => oq2'[u] = oq2[u]
    BY <1>1, <1>2, <1>5, <2>1 DEF Typed
  <2>3. QED
    BY <1>2, <1>3, <1>5, <2>2
<1>6. QED
  BY <1>4, <1>5 DEF Send

LEMMA SendStill ==
  ASSUME CacheInv, NEW h, NEW e \in Elements, NEW v \in Nat, Somewhere(h, e, v),
         NEW t \in tiles, NEW d \in Elements, NEW x \in Values, Send(t, d, x)
  PROVE  StillThere(h, e, v)
<1>1. /\ UNCHANGED <<ret, proxy, freq, iq2>>
      /\ \A u \in tiles : \A m :
           /\ Has(iq3[u], m) => Has(iq3'[u], m)
           /\ Has(oq2[u], m) => Has(oq2'[u], m)
  BY SendAdds
<1>2. Somewhere(h, e, v)'
  BY <1>1 DEF Somewhere, Ahead, Copied
<1>3. QED
  BY <1>2, StayingThere

LEMMA NeverLost ==
  ASSUME CacheInv, MinInv, APP = "SSSP", [Next]_vars,
         NEW h, Point(h), NEW e \in Elements, NEW v \in Nat, Somewhere(h, e, v)
  PROVE  StillThere(h, e, v)
<1>1. ASSUME NEW t \in tiles, T3Next(t), T3, UNCHANGED <<epoch_begin, app>>
      PROVE  StillThere(h, e, v)
  <2>1. iq2 # <<>>
    BY <1>1 DEF T3Next
  <2>2. QED
    BY <1>1, <2>1, T3Still
<1>2. ASSUME NEW t \in tiles, Runnable(t), T3bis(t), UNCHANGED <<epoch_begin, app>>
      PROVE  StillThere(h, e, v)
  <2>1. PICK d \in Elements : \E x \in Nat : Task3bis(t, d, x)
    BY <1>2, Task3bisIs
  <2>2. PICK x \in Nat : Task3bis(t, d, x)
    BY <2>1
  <2>3. QED
    BY <2>2, T3bisStill
<1>3. ASSUME NEW t \in tiles, Drain(t) PROVE StillThere(h, e, v)
  BY <1>3, DrainStill
<1>4. ASSUME NEW t \in tiles, Arrive(t) \/ \E p \in tiles : Capture(t, p) PROVE StillThere(h, e, v)
  BY <1>4, NetworkStill
<1>5. ASSUME NEW t \in tiles, NEW d \in Elements, NEW x \in Values, Send(t, d, x)
      PROVE  StillThere(h, e, v)
  BY <1>5, SendStill
<1>6. CASE EndEpoch \/ (\E t \in tiles : T4(t)) \/ UNCHANGED vars
  <2>1. UNCHANGED <<ret, proxy, freq, iq2, iq3, oq2>>
    BY <1>6 DEF EndEpoch, T4, vars, cache
  <2>2. Somewhere(h, e, v)'
    BY <2>1 DEF Somewhere, Ahead, Copied
  <2>3. QED
    BY <2>2, StayingThere
<1>7. QED
  BY <1>1, <1>2, <1>3, <1>4, <1>5, <1>6, NextCases
-----------------------------------------------------------------------------
(* No value is better than what was sent.                                  *)

LEMMA T3Sound ==
  ASSUME CacheInv, APP = "SSSP", Sound, iq2 # <<>>, T3, UNCHANGED app
  PROVE  Sound'
<1>1. Typed
  BY DEF CacheInv
<1>2. PICK q \in Seq(Message) : q = iq2 /\ q # <<>>
  BY <1>1 DEF Typed
<1>3. Head(q) \in Message /\ Tail(q) \in Seq(Message) /\ \A m : Has(q, m) <=> m = Head(q) \/ Has(Tail(q), m)
  BY <1>2, HasFirst
<1>4. PICK d \in Elements, x \in Nat : d = Head(q).elem /\ x = Head(q).value
  BY <1>3, MessageType
<1>5. PICK r \in Nat, s \in Nat : r = ret[d] /\ s = sent[d]
  BY <1>1 DEF Typed
<1>6. s <= r /\ s <= x
  BY <1>2, <1>3, <1>4, <1>5 DEF Sound, OnItsWay
<1>7. PICK c \in Nat : c = Combine(r, x) /\ s <= c
  <2>1. Combine(r, x) \in Nat /\ Combine(r, x) = IF r <= x THEN r ELSE x
    BY Combined
  <2>2. QED
    BY <1>6, <2>1
<1>8. /\ ret' = [ret EXCEPT ![d] = c] /\ iq2' = Tail(q)
      /\ proxy' = proxy /\ freq' = freq /\ iq3' = iq3 /\ oq2' = oq2 /\ sent' = sent
  BY <1>2, <1>4, <1>5, <1>7 DEF T3, cache, app
<1>9. \A e \in Elements : sent[e] <= ret'[e]
  BY <1>1, <1>5, <1>7, <1>8 DEF Typed, Sound
<1>10. \A m : OnItsWay(m)' => OnItsWay(m)
  BY <1>2, <1>3, <1>8 DEF OnItsWay
<1>11. QED
  BY <1>8, <1>9, <1>10 DEF Sound

LEMMA T3bisSound ==
  ASSUME CacheInv, Sound, NEW t \in tiles, NEW e \in Elements, NEW x \in Nat, Task3bis(t, e, x)
  PROVE  Sound'
<1>1. Typed
  BY DEF CacheInv
<1>2. UNCHANGED <<ret, iq2, sent>>
  BY DEF Task3bis
<1>3. PICK m0 \in Message : m0 = Update(e, x) /\ m0.elem = e /\ m0.value = x
  BY UpdateType
<1>4. OnItsWay(m0) /\ sent[e] <= x /\ x < proxy_default
  BY <1>3 DEF Sound, OnItsWay, Task3bis
<1>5. ASSUME NEW m \in Message, OnItsWay(m)'
      PROVE  sent[m.elem] <= m.value /\ m.value < proxy_default
  <2>1. CASE OnItsWay(m)
    BY <2>1 DEF Sound
  <2>2. CASE m = m0
    BY <1>3, <1>4, <2>2
  <2>3. ASSUME NEW d \in Elements, freq[t][d] = 1, m = Update(d, proxy[t][d])
        PROVE  sent[m.elem] <= m.value /\ m.value < proxy_default
    <3>1. m.elem = d /\ m.value = proxy[t][d]
      BY <2>3 DEF Update
    <3>2. QED
      BY <2>3, <3>1 DEF Sound
  <2>4. \/ OnItsWay(m) \/ m = m0
        \/ \E d \in Elements : freq[t][d] = 1 /\ m = Update(d, proxy[t][d])
    BY <1>2, <1>3, <1>5 DEF OnItsWay, Task3bis
  <2>5. QED
    BY <2>1, <2>2, <2>3, <2>4
<1>6. ASSUME NEW u \in tiles, NEW d \in Elements, freq'[u][d] = 1
      PROVE  sent[d] <= proxy'[u][d] /\ proxy'[u][d] < proxy_default
  <2>1. CASE u = t /\ d = e /\ Better(t, e, x)
    <3>1. proxy'[u][d] = x
      BY <1>1, <2>1 DEF Task3bis, Typed
    <3>2. QED
      BY <1>4, <2>1, <3>1
  <2>2. CASE ~(u = t /\ d = e /\ Better(t, e, x))
    <3>1. proxy'[u][d] = proxy[u][d]
      BY <1>1, <2>2 DEF Task3bis, Typed
    <3>2. freq[u][d] = 1
      <4>1. CASE u = t /\ d = e
        <5>1. ~(x < Copy(t, e))
          BY <2>2, <4>1 DEF Better
        <5>2. freq[t][e] > 0
          BY <1>4, <5>1 DEF Copy
        <5>3. QED
          BY <1>1, <4>1, <5>2, Frequency
      <4>2. CASE ~(u = t /\ d = e)
        BY <1>6, <4>2 DEF Task3bis
      <4>3. QED
        BY <4>1, <4>2
    <3>3. QED
      BY <3>1, <3>2 DEF Sound
  <2>3. QED
    BY <2>1, <2>2
<1>7. QED
  BY <1>2, <1>5, <1>6 DEF Sound

LEMMA DrainSound ==
  ASSUME CacheInv, Sound, NEW t \in tiles, Drain(t), UNCHANGED app
  PROVE  Sound'
<1>1. Typed
  BY DEF CacheInv
<1>2. PICK l \in Lines : \E d \in Elements :
           /\ d = tags[t][l] /\ tags[t][l] # None /\ freq[t][d] = 1 /\ WRITE_THROUGH = 0
           /\ tags' = [tags EXCEPT ![t][l] = None] /\ freq' = [freq EXCEPT ![t][d] = 0]
           /\ pcache_last_evicted' = [pcache_last_evicted EXCEPT ![t] = l]
           /\ pcache_occupancy' = [pcache_occupancy EXCEPT ![t] = @ - 1]
           /\ oq2' = [oq2 EXCEPT ![t] = Append(@, Update(d, proxy[t][d]))]
           /\ UNCHANGED <<proxy, ret, iq2, iq3>>
  BY DrainFacts
<1>3. PICK d \in Elements :
           /\ freq[t][d] = 1 /\ freq' = [freq EXCEPT ![t][d] = 0]
           /\ oq2' = [oq2 EXCEPT ![t] = Append(@, Update(d, proxy[t][d]))]
           /\ UNCHANGED <<proxy, ret, iq2, iq3>>
  BY <1>2
<1>4. PICK q \in Seq(Message), md \in Message : q = oq2[t] /\ md = Update(d, proxy[t][d])
  BY <1>1, WritebackType DEF Typed
<1>5. \A m : Has(Append(q, md), m) <=> Has(q, m) \/ m = md
  BY HasLast
<1>6. \A m : OnItsWay(m)' => OnItsWay(m) \/ m = md
  BY <1>1, <1>3, <1>4, <1>5 DEF Typed, OnItsWay
<1>7. sent' = sent
  BY DEF app
<1>8. sent[md.elem] <= md.value /\ md.value < proxy_default
  <2>1. md.elem = d /\ md.value = proxy[t][d]
    BY <1>4 DEF Update
  <2>2. QED
    BY <1>3, <2>1 DEF Sound
<1>9. \A u \in tiles : \A e \in Elements : freq'[u][e] = 1 => freq[u][e] = 1
  BY <1>1, <1>3 DEF Typed
<1>10. QED
  BY <1>3, <1>6, <1>7, <1>8, <1>9 DEF Sound

LEMMA NetworkSound ==
  ASSUME CacheInv, Sound, NEW t \in tiles, Arrive(t) \/ \E p \in tiles : Capture(t, p)
  PROVE  Sound'
<1>1. Typed
  BY DEF CacheInv
<1>2. PICK q \in Seq(Message) : q = oq2[t] /\ q # <<>>
  BY <1>1 DEF Typed, Arrive, Capture
<1>3. Head(q) \in Message /\ Tail(q) \in Seq(Message) /\ \A m : Has(q, m) <=> m = Head(q) \/ Has(Tail(q), m)
  BY <1>2, HasFirst
<1>4. oq2' = [oq2 EXCEPT ![t] = Tail(q)] /\ UNCHANGED <<ret, proxy, freq, sent>>
  BY <1>2 DEF Arrive, Capture, cache, app
<1>5. /\ \A u \in tiles : \A m : Has(oq2'[u], m) => Has(oq2[u], m)
      /\ Has(oq2[t], Head(q))
  BY <1>1, <1>2, <1>3, <1>4 DEF Typed
<1>6. CASE Arrive(t)
  <2>1. iq2 \in Seq(Message) /\ iq2' = Append(iq2, Head(q)) /\ iq3' = iq3
    BY <1>1, <1>2, <1>6 DEF Arrive, Typed
  <2>2. \A m : Has(iq2', m) <=> Has(iq2, m) \/ m = Head(q)
    BY <1>3, <2>1, HasLast
  <2>3. \A m : OnItsWay(m)' => OnItsWay(m)
    BY <1>5, <2>1, <2>2 DEF OnItsWay
  <2>4. QED
    BY <1>4, <2>3 DEF Sound
<1>7. ASSUME NEW p \in tiles, Capture(t, p) PROVE Sound'
  <2>1. PICK r \in Seq(Message) : r = iq3[p]
    BY <1>1 DEF Typed
  <2>2. iq3' = [iq3 EXCEPT ![p] = Append(r, Head(q))] /\ iq2' = iq2
    BY <1>2, <1>7, <2>1 DEF Capture
  <2>3. \A m : Has(Append(r, Head(q)), m) <=> Has(r, m) \/ m = Head(q)
    BY <1>3, HasLast
  <2>4. \A u \in tiles : \A m : Has(iq3'[u], m) => Has(iq3[u], m) \/ m = Head(q)
    BY <1>1, <2>1, <2>2, <2>3 DEF Typed
  <2>5. \A m : OnItsWay(m)' => OnItsWay(m)
    BY <1>5, <2>2, <2>4 DEF OnItsWay
  <2>6. QED
    BY <1>4, <2>5 DEF Sound
<1>8. QED
  BY <1>6, <1>7

LEMMA SendSound ==
  ASSUME CacheInv, APP = "SSSP", Sound, NEW t \in tiles, NEW d \in Elements, NEW x \in Values, Send(t, d, x)
  PROVE  Sound' /\ \A e \in Elements : sent'[e] = sent[e] \/ (e = d /\ sent'[e] = x)
<1>1. Typed
  BY DEF CacheInv
<1>2. x \in Nat /\ x < proxy_default
  BY ProxyAssumption
<1>3. PICK s \in Nat : s = sent[d]
  BY <1>1 DEF Typed
<1>4. PICK c \in Nat : c = Combine(s, x) /\ c <= s /\ c <= x /\ (c = s \/ c = x)
  <2>1. Combine(s, x) \in Nat /\ Combine(s, x) = IF s <= x THEN s ELSE x
    BY <1>2, Combined
  <2>2. Combine(s, x) <= s /\ Combine(s, x) <= x /\ (Combine(s, x) = s \/ Combine(s, x) = x)
    BY <1>2, <2>1
  <2>3. QED
    BY <2>1, <2>2
<1>5. sent' = [sent EXCEPT ![d] = c]
  BY <1>3, <1>4 DEF Send
<1>6. \A e \in Elements : sent'[e] \in Nat /\ sent'[e] <= sent[e] /\ sent[e] \in Nat
  <2>1. SUFFICES ASSUME NEW e \in Elements PROVE sent'[e] \in Nat /\ sent'[e] <= sent[e] /\ sent[e] \in Nat
    OBVIOUS
  <2>2. CASE e = d
    BY <1>1, <1>3, <1>4, <1>5, <2>2 DEF Typed
  <2>3. CASE e # d
    <3>1. sent'[e] = sent[e] /\ sent[e] \in Nat
      BY <1>1, <1>5, <2>3 DEF Typed
    <3>2. QED
      BY <3>1
  <2>4. QED
    BY <2>2, <2>3
<1>7. /\ UNCHANGED <<ret, proxy, freq, iq2>>
      /\ \A u \in tiles : \A m :
           /\ Has(iq3'[u], m) => Has(iq3[u], m) \/ m = Update(d, x)
           /\ Has(oq2'[u], m) => Has(oq2[u], m) \/ m = Update(d, x)
  BY SendAdds
<1>8. \A a, b, n \in Nat : a <= b /\ b <= n => a <= n
  OBVIOUS
<1>9. ASSUME NEW m \in Message, OnItsWay(m)'
      PROVE  sent'[m.elem] <= m.value /\ m.value < proxy_default
  <2>1. m.elem \in Elements /\ m.value \in Nat
    BY MessageType
  <2>2. CASE m = Update(d, x)
    <3>1. m.elem = d /\ m.value = x
      BY <2>2 DEF Update
    <3>2. sent'[d] = c
      BY <1>1, <1>5 DEF Typed
    <3>3. QED
      BY <1>2, <1>4, <3>1, <3>2
  <2>3. CASE m # Update(d, x)
    <3>1. OnItsWay(m)
      BY <1>7, <1>9, <2>3 DEF OnItsWay
    <3>2. sent[m.elem] <= m.value /\ m.value < proxy_default
      BY <3>1 DEF Sound
    <3>3. QED
      BY <1>6, <1>8, <2>1, <3>2
  <2>4. QED
    BY <2>2, <2>3
<1>10. ASSUME NEW u \in tiles, NEW e \in Elements, freq'[u][e] = 1
       PROVE  sent'[e] <= proxy'[u][e] /\ proxy'[u][e] < proxy_default
  <2>1. freq[u][e] = 1 /\ proxy'[u][e] = proxy[u][e] /\ proxy[u][e] \in Nat
    BY <1>1, <1>7, <1>10 DEF Typed
  <2>2. sent[e] <= proxy[u][e] /\ proxy[u][e] < proxy_default
    BY <2>1 DEF Sound
  <2>3. QED
    BY <1>6, <1>8, <2>1, <2>2
<1>11. ASSUME NEW e \in Elements PROVE sent'[e] <= ret'[e]
  <2>1. ret[e] \in Nat /\ ret'[e] = ret[e] /\ sent[e] <= ret[e]
    BY <1>1, <1>7 DEF Typed, Sound
  <2>2. QED
    BY <1>6, <1>8, <2>1
<1>12. Sound'
  BY <1>9, <1>10, <1>11 DEF Sound
<1>13. \A e \in Elements : sent'[e] = sent[e] \/ (e = d /\ sent'[e] = x)
  BY <1>1, <1>3, <1>4, <1>5 DEF Typed
<1>14. QED
  BY <1>12, <1>13
-----------------------------------------------------------------------------
LEMMA SoundKept ==
  ASSUME CacheInv, MinInv, APP = "SSSP", [Next]_vars
  PROVE  /\ Sound'
         /\ \A e \in Elements : \/ sent'[e] = sent[e]
                                \/ \E t \in tiles : Has(iq3'[t], Update(e, sent'[e])) \/ Has(oq2'[t], Update(e, sent'[e]))
<1>1. Sound
  BY DEF MinInv
<1>2. ASSUME NEW t \in tiles, T3Next(t), T3, UNCHANGED <<epoch_begin, app>>
      PROVE  Sound' /\ sent' = sent
  <2>1. iq2 # <<>>
    BY <1>2 DEF T3Next
  <2>2. QED
    BY <1>1, <1>2, <2>1, T3Sound DEF app
<1>3. ASSUME NEW t \in tiles, Runnable(t), T3bis(t), UNCHANGED <<epoch_begin, app>>
      PROVE  Sound' /\ sent' = sent
  <2>1. PICK d \in Elements : \E x \in Nat : Task3bis(t, d, x)
    BY <1>3, Task3bisIs
  <2>2. PICK x \in Nat : Task3bis(t, d, x)
    BY <2>1
  <2>3. QED
    BY <1>1, <1>3, <2>2, T3bisSound DEF app
<1>4. ASSUME NEW t \in tiles, Drain(t), UNCHANGED <<epoch_begin, app>> PROVE Sound' /\ sent' = sent
  BY <1>1, <1>4, DrainSound DEF app
<1>5. ASSUME NEW t \in tiles, Arrive(t) \/ \E p \in tiles : Capture(t, p) PROVE Sound' /\ sent' = sent
  <2>1. Sound'
    BY <1>1, <1>5, NetworkSound
  <2>2. QED
    BY <1>5, <2>1 DEF Arrive, Capture, app
<1>6. ASSUME NEW t \in tiles, NEW d \in Elements, NEW x \in Values, Send(t, d, x)
      PROVE  /\ Sound'
             /\ \A e \in Elements :
                  \/ sent'[e] = sent[e]
                  \/ \E u \in tiles : Has(iq3'[u], Update(e, sent'[e])) \/ Has(oq2'[u], Update(e, sent'[e]))
  <2>1. Sound' /\ \A e \in Elements : sent'[e] = sent[e] \/ (e = d /\ sent'[e] = x)
    BY <1>1, <1>6, SendSound
  <2>2. Has(iq3'[t], Update(d, x)) \/ Has(oq2'[t], Update(d, x))
    BY <1>6, SendAdds
  <2>3. QED
    BY <2>1, <2>2
<1>7. CASE EndEpoch \/ (\E t \in tiles : T4(t)) \/ UNCHANGED vars
  <2>1. UNCHANGED <<ret, proxy, freq, iq2, iq3, oq2, sent>>
    BY <1>7 DEF EndEpoch, T4, vars, cache, app
  <2>2. \A m : OnItsWay(m)' <=> OnItsWay(m)
    BY <2>1 DEF OnItsWay
  <2>3. Sound'
    BY <1>1, <2>1, <2>2 DEF Sound
  <2>4. QED
    BY <2>1, <2>3
<1>8. QED
  BY <1>2, <1>3, <1>4, <1>5, <1>6, <1>7, NextCases

(* The least value that was sent is somewhere.                             *)
LEMMA LeastStaysKept ==
  ASSUME CacheInv, MinInv, APP = "SSSP", [Next]_vars, Typed', Sound'
  PROVE  LeastKept'
<1>1. SUFFICES ASSUME NEW e \in Elements PROVE Somewhere(PROXYS, e, sent[e])'
  BY DEF LeastKept
<1>2. CASE \E t \in tiles : Has(iq3'[t], Update(e, sent'[e])) \/ Has(oq2'[t], Update(e, sent'[e]))
  <2>1. \A u \in tiles : u < PROXYS /\ u <= PROXYS
    BY ProxyAssumption DEF tiles
  <2>2. QED
    BY <1>2, <2>1 DEF Somewhere, Ahead
<1>3. CASE sent'[e] = sent[e]
  <2>1. PICK v \in Nat : v = sent[e]
    BY DEF CacheInv, Typed
  <2>2. Somewhere(PROXYS, e, v) /\ Point(PROXYS)
    BY <2>1 DEF MinInv, LeastKept, Point
  <2>3. PICK h : h = PROXYS
    OBVIOUS
  <2>4. StillThere(h, e, v)
    BY <2>2, <2>3, NeverLost
  <2>5. PICK w \in Nat : w <= v /\ Somewhere(h, e, w)'
    BY <2>4 DEF StillThere
  <2>6. v <= w
    <3>1. sent'[e] = v
      BY <1>3, <2>1
    <3>2. PICK m \in Message : m = Update(e, w) /\ m.elem = e /\ m.value = w
      BY UpdateType
    <3>3. ret'[e] = w \/ OnItsWay(m)' \/ \E u \in tiles : freq'[u][e] = 1 /\ proxy'[u][e] = w
      BY <2>5, <3>2 DEF Somewhere, Ahead, Copied, OnItsWay
    <3>4. QED
      BY <3>1, <3>2, <3>3 DEF Sound
  <2>7. w = v
    BY <2>5, <2>6
  <2>8. sent[e]' = w
    BY <1>3, <2>1, <2>7
  <2>9. QED
    BY <2>3, <2>5, <2>8
<1>4. QED
  BY <1>2, <1>3, SoundKept

(* What is written through is ahead of its copy.                           *)
LEMMA SentStaysAhead ==
  ASSUME CacheInv, MinInv, APP = "SSSP", [Next]_vars
  PROVE  SentAhead'
<1>1. SUFFICES ASSUME WRITE_THROUGH = 1, NEW t \in tiles, NEW e \in Elements, freq'[t][e] = 1
               PROVE  \E w \in Nat : w <= proxy'[t][e] /\ Ahead(t, e, w)'
  BY DEF SentAhead
<1>2. Typed
  BY DEF CacheInv
<1>3. ASSUME freq[t][e] = 1, proxy'[t][e] = proxy[t][e]
      PROVE  \E w \in Nat : w <= proxy'[t][e] /\ Ahead(t, e, w)'
  <2>1. PICK c \in Nat : c = proxy[t][e]
    BY <1>2 DEF Typed
  <2>2. PICK v \in Nat : v <= c /\ Ahead(t, e, v)
    BY <1>1, <1>3, <2>1 DEF MinInv, SentAhead
  <2>3. Point(t) /\ Somewhere(t, e, v)
    BY <1>1, <2>2 DEF Point, Somewhere
  <2>4. StillThere(t, e, v)
    BY <2>3, NeverLost
  <2>5. PICK w \in Nat : w <= v /\ Somewhere(t, e, w)'
    BY <2>4 DEF StillThere
  <2>6. w <= c /\ Ahead(t, e, w)'
    <3>1. w <= c
      BY <2>2, <2>5
    <3>2. Ahead(t, e, w)'
      BY <1>1, <2>5 DEF Somewhere
    <3>3. QED
      BY <3>1, <3>2
  <2>7. QED
    BY <1>3, <2>1, <2>6
<1>4. ASSUME NEW u \in tiles, Runnable(u), T3bis(u), UNCHANGED <<epoch_begin, app>>
      PROVE  \E w \in Nat : w <= proxy'[t][e] /\ Ahead(t, e, w)'
  <2>1. PICK d \in Elements : \E x \in Nat : Task3bis(u, d, x)
    BY <1>4, Task3bisIs
  <2>2. PICK x \in Nat : Task3bis(u, d, x)
    BY <2>1
  <2>3. CASE u = t /\ d = e /\ Better(t, e, x)
    <3>1. proxy'[t][e] = x /\ Has(oq2'[t], Update(e, x))
      BY <1>1, <1>2, <2>2, <2>3 DEF Task3bis, Typed
    <3>2. t <= t /\ x <= x
      BY ProxyAssumption DEF tiles
    <3>3. QED
      BY <3>1, <3>2 DEF Ahead
  <2>4. CASE ~(u = t /\ d = e /\ Better(t, e, x))
    <3>1. proxy'[t][e] = proxy[t][e]
      BY <1>2, <2>2, <2>4 DEF Task3bis, Typed
    <3>2. freq[t][e] = 1
      <4>1. CASE u = t /\ d = e
        <5>1. ~(x < Copy(t, e))
          BY <2>4, <4>1 DEF Better
        <5>2. PICK m \in Message : m = Update(e, x) /\ m.value = x
          BY UpdateType
        <5>3. x < proxy_default
          BY <2>2, <4>1, <5>2 DEF Task3bis, MinInv, Sound, OnItsWay
        <5>4. freq[t][e] > 0
          BY <5>1, <5>3 DEF Copy
        <5>5. QED
          BY <1>2, <5>4, Frequency
      <4>2. CASE ~(u = t /\ d = e)
        BY <1>1, <2>2, <4>2 DEF Task3bis
      <4>3. QED
        BY <4>1, <4>2
    <3>3. QED
      BY <1>3, <3>1, <3>2
  <2>5. QED
    BY <2>3, <2>4
<1>5. ASSUME NEW u \in tiles, Drain(u) PROVE FALSE
  BY <1>1, <1>5 DEF Drain, pcache_active
<1>6. CASE freq' = freq /\ proxy' = proxy
  BY <1>1, <1>3, <1>6
<1>7. QED
  BY <1>4, <1>5, <1>6, NextCases DEF T3, Arrive, Capture, Send, EndEpoch, T4, cache, vars

(* Parts(e) and the places of a value are the same.                        *)
PartsOf(e, name, t, queue) ==
  {<<name, t, i, queue[i].value>> : i \in {j \in DOMAIN queue : queue[j].elem = e}}

LEMMA PartIsHeld ==
  ASSUME NEW e \in Elements, NEW name, NEW t, NEW q \in Seq(Message), NEW p \in PartsOf(e, name, t, q)
  PROVE  p[4] \in Nat /\ Has(q, Update(e, p[4]))
<1>1. PICK i \in DOMAIN q : q[i].elem = e /\ p = <<name, t, i, q[i].value>>
  BY DEF PartsOf
<1>2. p[4] = q[i].value /\ i \in 1 .. Len(q) /\ q[i] \in Message
  BY <1>1, LenProperties, ElementOfSeq
<1>3. q[i].value \in Nat /\ q[i] = Update(q[i].elem, q[i].value)
  BY <1>2, MessageType
<1>4. QED
  BY <1>1, <1>2, <1>3 DEF Has

LEMMA HeldIsPart ==
  ASSUME NEW e \in Elements, NEW name, NEW t, NEW q \in Seq(Message), NEW v \in Nat, Has(q, Update(e, v))
  PROVE  \E p \in PartsOf(e, name, t, q) : p[4] = v
<1>1. PICK i \in 1 .. Len(q) : q[i] = Update(e, v)
  BY DEF Has
<1>2. i \in DOMAIN q /\ q[i].elem = e /\ q[i].value = v
  BY <1>1, LenProperties, UpdateType
<1>3. <<name, t, i, v>> \in PartsOf(e, name, t, q)
  BY <1>2 DEF PartsOf
<1>4. <<name, t, i, v>>[4] = v
  OBVIOUS
<1>5. QED
  BY <1>3, <1>4

Owned(e)  == {<<"owner", 0, 0, ret[e]>>}
Queued(e) == UNION {PartsOf(e, "iq3", t, iq3[t]) \union PartsOf(e, "oq2", t, oq2[t]) : t \in tiles}
Copies(e) == {<<"copy", t, 0, proxy[t][e]>> : t \in {u \in tiles : freq[u][e] > 0}}

LEMMA PartsAre ==
  ASSUME NEW e \in Elements, NEW p
  PROVE  p \in Parts(e) <=>
           \/ p = <<"owner", 0, 0, ret[e]>>
           \/ p \in PartsOf(e, "iq2", 0, iq2)
           \/ \E t \in tiles : p \in PartsOf(e, "iq3", t, iq3[t])
           \/ \E t \in tiles : p \in PartsOf(e, "oq2", t, oq2[t])
           \/ \E t \in tiles : freq[t][e] > 0 /\ p = <<"copy", t, 0, proxy[t][e]>>
<1>1. p \in Owned(e) <=> p = <<"owner", 0, 0, ret[e]>>
  BY DEF Owned
<1>2. p \in Queued(e) <=> \E t \in tiles : p \in PartsOf(e, "iq3", t, iq3[t]) \/ p \in PartsOf(e, "oq2", t, oq2[t])
  BY DEF Queued
<1>3. p \in Copies(e) <=> \E t \in tiles : freq[t][e] > 0 /\ p = <<"copy", t, 0, proxy[t][e]>>
  BY DEF Copies
<1>4. Parts(e) = Owned(e) \union PartsOf(e, "iq2", 0, iq2) \union Queued(e) \union Copies(e)
  BY DEF Parts, PartsOf, Owned, Queued, Copies
<1>5. p \in Parts(e) <=> p \in Owned(e) \/ p \in PartsOf(e, "iq2", 0, iq2) \/ p \in Queued(e) \/ p \in Copies(e)
  BY <1>4
<1>6. QED
  BY <1>1, <1>2, <1>3, <1>5

LEMMA LeastIsSent ==
  ASSUME CacheInv, MinInv, APP = "SSSP"
  PROVE  UpdatesConserved
<1>1. Typed
  BY DEF CacheInv
<1>2. SUFFICES ASSUME NEW e \in Elements PROVE sent[e] = Min({p[4] : p \in Parts(e)})
  BY DEF UpdatesConserved
<1>3. PICK s \in Nat : s = sent[e]
  BY <1>1 DEF Typed
<1>4. PICK S : S = {p[4] : p \in Parts(e)}
  OBVIOUS
<1>5. ASSUME NEW p \in Parts(e) PROVE p[4] \in Nat /\ s <= p[4]
  <2>1. CASE p = <<"owner", 0, 0, ret[e]>>
    <3>1. p[4] = ret[e]
      BY <2>1
    <3>2. QED
      BY <1>1, <1>3, <3>1 DEF Typed, MinInv, Sound
  <2>2. ASSUME NEW q \in Seq(Message), NEW name, NEW t, p \in PartsOf(e, name, t, q),
               \A m : Has(q, m) => OnItsWay(m)
        PROVE  p[4] \in Nat /\ s <= p[4]
    <3>1. p[4] \in Nat /\ Has(q, Update(e, p[4]))
      BY <2>2, PartIsHeld
    <3>2. PICK m \in Message : m = Update(e, p[4]) /\ m.elem = e /\ m.value = p[4]
      BY <3>1, UpdateType
    <3>3. QED
      BY <1>3, <2>2, <3>1, <3>2 DEF MinInv, Sound
  <2>3. CASE p \in PartsOf(e, "iq2", 0, iq2)
    BY <1>1, <2>2, <2>3 DEF OnItsWay, Typed
  <2>4. ASSUME NEW t \in tiles, p \in PartsOf(e, "iq3", t, iq3[t]) PROVE p[4] \in Nat /\ s <= p[4]
    BY <1>1, <2>2, <2>4 DEF OnItsWay, Typed
  <2>5. ASSUME NEW t \in tiles, p \in PartsOf(e, "oq2", t, oq2[t]) PROVE p[4] \in Nat /\ s <= p[4]
    BY <1>1, <2>2, <2>5 DEF OnItsWay, Typed
  <2>6. ASSUME NEW t \in tiles, freq[t][e] > 0, p = <<"copy", t, 0, proxy[t][e]>>
        PROVE  p[4] \in Nat /\ s <= p[4]
    <3>1. p[4] = proxy[t][e] /\ freq[t][e] = 1
      BY <1>1, <2>6, Frequency
    <3>2. QED
      BY <1>1, <1>3, <3>1 DEF Typed, MinInv, Sound
  <2>7. QED
    BY <2>1, <2>3, <2>4, <2>5, <2>6, PartsAre
<1>6. \E p \in Parts(e) : p[4] = s
  <2>1. Somewhere(PROXYS, e, s)
    BY <1>3 DEF MinInv, LeastKept
  <2>2. CASE ret[e] = s
    <3>1. PICK p : p = <<"owner", 0, 0, ret[e]>>
      OBVIOUS
    <3>2. p \in Parts(e) /\ p[4] = s
      BY <2>2, <3>1, PartsAre
    <3>3. QED
      BY <3>2
  <2>3. CASE Has(iq2, Update(e, s))
    <3>1. PICK q, z : q \in Seq(Message) /\ q = iq2 /\ z = 0 /\ Has(q, Update(e, s))
      BY <1>1, <2>3 DEF Typed
    <3>2. PICK p \in PartsOf(e, "iq2", z, q) : p[4] = s
      BY <3>1, HeldIsPart
    <3>3. p \in Parts(e)
      BY <3>1, <3>2, PartsAre
    <3>4. QED
      BY <3>2, <3>3
  <2>4. ASSUME NEW t \in tiles, Has(iq3[t], Update(e, s)) PROVE \E p \in Parts(e) : p[4] = s
    <3>1. iq3[t] \in Seq(Message)
      BY <1>1 DEF Typed
    <3>2. PICK p \in PartsOf(e, "iq3", t, iq3[t]) : p[4] = s
      BY <2>4, <3>1, HeldIsPart
    <3>3. p \in Parts(e)
      BY PartsAre
    <3>4. QED
      BY <3>2, <3>3
  <2>5. ASSUME NEW t \in tiles, Has(oq2[t], Update(e, s)) PROVE \E p \in Parts(e) : p[4] = s
    <3>1. oq2[t] \in Seq(Message)
      BY <1>1 DEF Typed
    <3>2. PICK p \in PartsOf(e, "oq2", t, oq2[t]) : p[4] = s
      BY <2>5, <3>1, HeldIsPart
    <3>3. p \in Parts(e)
      BY PartsAre
    <3>4. QED
      BY <3>2, <3>3
  <2>6. ASSUME NEW t \in tiles, freq[t][e] = 1, proxy[t][e] = s PROVE \E p \in Parts(e) : p[4] = s
    <3>1. PICK p : p = <<"copy", t, 0, proxy[t][e]>>
      OBVIOUS
    <3>2. p[4] = s /\ freq[t][e] > 0
      BY <2>6, <3>1
    <3>3. p \in Parts(e)
      BY <3>1, <3>2, PartsAre
    <3>4. QED
      BY <3>2, <3>3
  <2>7. QED
    BY <2>1, <2>2, <2>3, <2>4, <2>5, <2>6 DEF Somewhere, Ahead, Copied
<1>7. S \in SUBSET Nat /\ s \in S /\ \A y \in S : s <= y
  BY <1>4, <1>5, <1>6
<1>8. Min(S) \in S /\ Min(S) <= s
  BY <1>7, Least
<1>9. Min(S) = s
  <2>1. Min(S) \in Nat /\ s <= Min(S)
    BY <1>7, <1>8
  <2>2. QED
    BY <1>8, <2>1
<1>10. QED
  BY <1>3, <1>4, <1>9

(* Task 3' keeps the least value in a copy, evictions and drains send it   *)
(* to the owner or drop a copy whose value went ahead, and proxies on the  *)
(* way take it again: the least value sent for an element is always among  *)
(* what the owner, the queues and the valid copies hold, and none of these *)
(* holds a lower one (task 3 and task 3' of sssp.h).                       *)
THEOREM MinimaKept == APP = "SSSP" => (Spec => []UpdatesConserved)
<1> SUFFICES ASSUME APP = "SSSP" PROVE Spec => []UpdatesConserved
  OBVIOUS
<1>1. Init => MinInv
  <2>1. SUFFICES ASSUME Init PROVE MinInv
    OBVIOUS
  <2>2. /\ iq2 = <<>> /\ \A t \in tiles : iq3[t] = <<>> /\ oq2[t] = <<>>
        /\ \A t \in tiles : \A e \in Elements : freq[t][e] = 0
    BY <2>1 DEF Init
  <2>3. ret = [e \in Elements |-> proxy_default] /\ sent = ret
    BY <2>1 DEF Init
  <2>4. \A m : ~OnItsWay(m)
    <3>1. \A m : ~Has(<<>>, m)
      BY EmptySeq DEF Has
    <3>2. QED
      BY <2>2, <3>1 DEF OnItsWay
  <2>5. proxy_default <= proxy_default
    BY Constants
  <2>6. Sound
    BY <2>2, <2>4, <2>5, <2>3 DEF Sound
  <2>7. LeastKept
    BY <2>3 DEF LeastKept, Somewhere, Ahead
  <2>8. SentAhead
    BY <2>2 DEF SentAhead
  <2>9. QED
    BY <2>6, <2>7, <2>8 DEF MinInv
<1>2. CacheInv /\ CacheInv' /\ MinInv /\ [Next]_vars => MinInv'
  <2>1. SUFFICES ASSUME CacheInv, CacheInv', MinInv, [Next]_vars PROVE MinInv'
    OBVIOUS
  <2>2. Sound'
    BY <2>1, SoundKept
  <2>3. Typed'
    BY <2>1 DEF CacheInv
  <2>4. LeastKept'
    BY <2>1, <2>2, <2>3, LeastStaysKept
  <2>5. SentAhead'
    BY <2>1, SentStaysAhead
  <2>6. QED
    BY <2>2, <2>4, <2>5 DEF MinInv
<1>3. CacheInv /\ MinInv => UpdatesConserved
  BY LeastIsSent
<1>4. QED
  BY CacheInvAlways, <1>1, <1>2, <1>3, PTL DEF Spec
-----------------------------------------------------------------------------
(***************************************************************************)
(* Proof that no update of a sum is lost and none counts twice.  First,    *)
(* sums of parts: what MapThenSumSet says of a finite set of them.         *)
(***************************************************************************)
SumParts(A) == MapThenSumSet(LAMBDA p : p[4], A)
Weighed(A)  == IsFiniteSet(A) /\ \A p \in A : p[4] \in Int

Pick(s) == CHOOSE x \in s : TRUE
Adding(g, s) == IF s = {} THEN 0 ELSE Pick(s)[4] + g[s \ {Pick(s)}]

(* g maps each subset of A to its sum.                                     *)
Tally(g, A) == \A s \in SUBSET A : g[s] = Adding(g, s)

LEMMA Picked ==
  ASSUME NEW s, s # {}
  PROVE  Pick(s) \in s
BY DEF Pick

(* What goes up by one from 0 on reaches every number up to K.             *)
LEMMA Rises ==
  ASSUME NEW K \in Nat, NEW P, 0 \in P, \A k \in 0 .. K - 1 : k \in P => k + 1 \in P
  PROVE  \A k \in 0 .. K : k \in P
<1> DEFINE Missed == {k \in 0 .. K : k \notin P}
<1>1. SUFFICES ASSUME Missed # {} PROVE FALSE
  OBVIOUS
<1>2. Missed \in SUBSET Nat
  OBVIOUS
<1>3. PICK m \in Nat : m \in Missed /\ \A y \in Missed : m <= y
  <2> HIDE DEF Missed
  <2>1. QED
    BY <1>1, <1>2, Least
<1>4. m - 1 \in 0 .. K - 1 /\ m - 1 + 1 = m
  BY <1>3
<1>5. m - 1 \notin Missed
  <2>1. ~ (m <= m - 1)
    BY <1>3
  <2>2. QED
    BY <1>3, <2>1
<1>6. QED
  BY <1>3, <1>4, <1>5

LEMMA Sizes ==
  ASSUME NEW A, IsFiniteSet(A), NEW s \in SUBSET A
  PROVE  /\ IsFiniteSet(s) /\ Cardinality(s) \in 0 .. Cardinality(A) /\ Cardinality(A) \in Nat
         /\ Cardinality(s) = 0 <=> s = {}
         /\ \A x \in s : /\ s \ {x} \in SUBSET A
                         /\ Cardinality(s \ {x}) = Cardinality(s) - 1
<1>1. IsFiniteSet(s) /\ Cardinality(s) <= Cardinality(A)
  BY FS_Subset
<1>2. Cardinality(s) \in Nat /\ Cardinality(A) \in Nat
  BY <1>1, FS_CardinalityType
<1>3. Cardinality(s) \in 0 .. Cardinality(A)
  BY <1>1, <1>2
<1>4. Cardinality(s) = 0 <=> s = {}
  BY <1>1, FS_EmptySet
<1>5. \A x \in s : Cardinality(s \ {x}) = Cardinality(s) - 1
  BY <1>1, FS_RemoveElement
<1>6. QED
  BY <1>1, <1>2, <1>3, <1>4, <1>5

(* What holds of the empty set, and of a set if it does without one of its *)
(* elements, holds of all subsets of a finite set.                         *)
LEMMA AllSubsets ==
  ASSUME NEW A, IsFiniteSet(A), NEW P, {} \in P,
         \A s \in SUBSET A : s # {} /\ s \ {Pick(s)} \in P => s \in P
  PROVE  \A s \in SUBSET A : s \in P
<1> DEFINE Q == {k \in 0 .. Cardinality(A) : \A s \in SUBSET A : Cardinality(s) = k => s \in P}
<1>1. Cardinality(A) \in Nat
  BY FS_CardinalityType
<1>2. 0 \in Q
  <2>1. ASSUME NEW s \in SUBSET A, Cardinality(s) = 0 PROVE s \in P
    <3>1. s = {}
      BY <2>1, Sizes
    <3>2. QED
      BY <3>1
  <2>2. QED
    BY <1>1, <2>1
<1>3. ASSUME NEW k \in 0 .. Cardinality(A) - 1, k \in Q PROVE k + 1 \in Q
  <2>1. ASSUME NEW s \in SUBSET A, Cardinality(s) = k + 1 PROVE s \in P
    <3>1. s # {}
      BY <2>1, FS_EmptySet, k + 1 # 0
    <3>2. s \ {Pick(s)} \in SUBSET A /\ Cardinality(s \ {Pick(s)}) = k
      BY <2>1, <3>1, Sizes, Picked
    <3>3. QED
      BY <1>3, <3>1, <3>2
  <2>2. QED
    BY <1>1, <2>1
<1>4. \A k \in 0 .. Cardinality(A) : k \in Q
  <2> HIDE DEF Q
  <2>1. QED
    BY <1>1, <1>2, <1>3, Rises
<1>5. ASSUME NEW s \in SUBSET A PROVE Cardinality(s) \in 0 .. Cardinality(A)
  BY Sizes
<1>6. QED
  BY <1>4, <1>5

LEMMA TallyExists ==
  ASSUME NEW A, Weighed(A)
  PROVE  \E g : g = [s \in SUBSET A |-> Adding(g, s)]
<1> DEFINE Small(k) == {s \in SUBSET A : Cardinality(s) <= k}
           Adds(g, k) == \A s \in Small(k) : g[s] = Adding(g, s)
           P == {k \in 0 .. Cardinality(A) : \E g \in [Small(k) -> Int] : Adds(g, k)}
<1>1. IsFiniteSet(A) /\ Cardinality(A) \in Nat
  BY FS_CardinalityType DEF Weighed
<1>2. \A s \in SUBSET A : Cardinality(s) \in 0 .. Cardinality(A)
  BY <1>1, Sizes
<1>3. 0 \in P
  <2> DEFINE g == [s \in Small(0) |-> 0]
  <2>1. \A s \in Small(0) : s = {}
    BY <1>1, Sizes
  <2>2. g \in [Small(0) -> Int] /\ Adds(g, 0)
    BY <2>1 DEF Adding
  <2> HIDE DEF g, Adds, Small
  <2>3. QED
    BY <1>1, <2>2
<1>4. ASSUME NEW k \in 0 .. Cardinality(A) - 1, k \in P PROVE k + 1 \in P
  <2>1. PICK g \in [Small(k) -> Int] : Adds(g, k)
    BY <1>4
  <2> DEFINE h == [s \in Small(k + 1) |-> IF s \in Small(k) THEN g[s] ELSE Adding(g, s)]
  <2>2. ASSUME NEW s \in Small(k + 1), s # {}
        PROVE  /\ Pick(s)[4] \in Int /\ s \ {Pick(s)} \in Small(k)
               /\ s \ {Pick(s)} \in Small(k + 1)
    <3>1. Pick(s) \in s /\ s \in SUBSET A /\ Cardinality(s) <= k + 1
      BY <2>2, Picked
    <3>2. /\ Cardinality(s) \in Nat /\ s \ {Pick(s)} \in SUBSET A
          /\ Cardinality(s \ {Pick(s)}) = Cardinality(s) - 1
      BY <1>1, <3>1, Sizes
    <3>3. Cardinality(s) - 1 <= k /\ Cardinality(s) - 1 <= k + 1
      BY <1>1, <3>1, <3>2
    <3>4. Pick(s)[4] \in Int
      BY <3>1 DEF Weighed
    <3>5. QED
      BY <3>2, <3>3, <3>4
  <2>3. {} \in Small(k)
    BY FS_EmptySet
  <2>4. h \in [Small(k + 1) -> Int]
    <3>1. ASSUME NEW s \in Small(k + 1), s \notin Small(k) PROVE Adding(g, s) \in Int
      <4>1. s # {}
        BY <2>3, <3>1
      <4>2. Pick(s)[4] \in Int /\ s \ {Pick(s)} \in Small(k)
        BY <2>2, <4>1
      <4> HIDE DEF Small
      <4>3. Pick(s)[4] \in Int /\ g[s \ {Pick(s)}] \in Int
        BY <4>2
      <4>4. QED
        BY <4>1, <4>3 DEF Adding
    <3> HIDE DEF Small
    <3>2. QED
      BY <3>1
  <2>5. ASSUME NEW s \in Small(k + 1) PROVE h[s] = Adding(h, s)
    <3>1. CASE s = {}
      <4> HIDE DEF Small
      <4>1. h[s] = g[s] /\ g[s] = 0
        BY <2>1, <2>3, <3>1 DEF Adding
      <4>2. QED
        BY <3>1, <4>1 DEF Adding
    <3>2. CASE s # {}
      <4>1. s \ {Pick(s)} \in Small(k) /\ s \ {Pick(s)} \in Small(k + 1)
        BY <2>2, <3>2
      <4> HIDE DEF Small
      <4>2. h[s \ {Pick(s)}] = g[s \ {Pick(s)}]
        BY <4>1
      <4>3. h[s] = Adding(g, s)
        BY <2>1
      <4>4. QED
        BY <3>2, <4>2, <4>3 DEF Adding
    <3>3. QED
      BY <3>1, <3>2
  <2>6. k + 1 \in 0 .. Cardinality(A)
    BY <1>1
  <2>7. Adds(h, k + 1)
    BY <2>5
  <2> HIDE DEF h, Adds, Small
  <2>8. QED
    BY <2>4, <2>6, <2>7
<1>5. Cardinality(A) \in P
  <2> HIDE DEF P
  <2>1. QED
    BY <1>1, <1>3, <1>4, Rises
<1>6. PICK g \in [Small(Cardinality(A)) -> Int] : Adds(g, Cardinality(A))
  BY <1>5
<1>7. Small(Cardinality(A)) = SUBSET A
  BY <1>1, <1>2
<1>8. g \in [SUBSET A -> Int] /\ \A s \in SUBSET A : g[s] = Adding(g, s)
  BY <1>6, <1>7
<1>9. g = [s \in SUBSET A |-> Adding(g, s)]
  <2> HIDE DEF Small, Adds, P
  <2>1. QED
    BY <1>8
<1>10. QED
  BY <1>9

LEMMA SumIsTallied ==
  ASSUME NEW A, Weighed(A)
  PROVE  \E g : Tally(g, A) /\ SumParts(A) = g[A]
<1> DEFINE g == CHOOSE h : h = [s \in SUBSET A |-> Adding(h, s)]
<1>1. g = [s \in SUBSET A |-> Adding(g, s)]
  BY TallyExists
<1>2. SumParts(A) = g[A]
  BY DEF SumParts, MapThenSumSet, MapThenFoldSet, Adding, Pick
<1> HIDE DEF g
<1>3. Tally(g, A)
  BY <1>1 DEF Tally
<1>4. QED
  BY <1>2, <1>3

(* The sum of a subset is what the tally of the set says.                  *)
LEMMA SumOfSubset ==
  ASSUME NEW A, Weighed(A), NEW g, Tally(g, A), NEW B \in SUBSET A
  PROVE  Weighed(B) /\ SumParts(B) = g[B] /\ g[B] \in Int
<1>1. Weighed(B)
  BY FS_Subset DEF Weighed
<1>2. PICK h : Tally(h, B) /\ SumParts(B) = h[B]
  BY <1>1, SumIsTallied
<1> DEFINE P == {s \in SUBSET B : h[s] = g[s] /\ g[s] \in Int}
<1>3. {} \in P
  <2>1. {} \in SUBSET B /\ {} \in SUBSET A
    OBVIOUS
  <2>2. h[{}] = 0 /\ g[{}] = 0
    BY <1>2, <2>1 DEF Tally, Adding
  <2>3. QED
    BY <2>2
<1>4. ASSUME NEW s \in SUBSET B, s # {}, s \ {Pick(s)} \in P PROVE s \in P
  <2>1. /\ h[s] = Pick(s)[4] + h[s \ {Pick(s)}]
        /\ g[s] = Pick(s)[4] + g[s \ {Pick(s)}]
    BY <1>2, <1>4 DEF Tally, Adding
  <2>2. Pick(s)[4] \in Int
    BY <1>1, <1>4, Picked DEF Weighed
  <2>3. h[s \ {Pick(s)}] = g[s \ {Pick(s)}] /\ g[s \ {Pick(s)}] \in Int
    BY <1>4
  <2>4. h[s] = g[s] /\ g[s] \in Int
    BY <2>1, <2>2, <2>3
  <2>5. QED
    BY <2>4
<1>5. B \in P
  <2> HIDE DEF P
  <2>1. IsFiniteSet(B) /\ B \in SUBSET B
    BY <1>1 DEF Weighed
  <2>2. QED
    BY <1>3, <1>4, <2>1, AllSubsets
<1>6. QED
  BY <1>1, <1>2, <1>5

(* It does not matter which element is added last.                         *)
LEMMA AnyLast ==
  ASSUME NEW A, Weighed(A), NEW g, Tally(g, A)
  PROVE  \A s \in SUBSET A : \A x \in s : g[s] = x[4] + g[s \ {x}]
<1> DEFINE Q == {k \in 0 .. Cardinality(A) : \A s \in SUBSET A :
                   Cardinality(s) <= k => \A x \in s : g[s] = x[4] + g[s \ {x}]}
<1>1. IsFiniteSet(A) /\ Cardinality(A) \in Nat
  BY FS_CardinalityType DEF Weighed
<1>2. 0 \in Q
  <2>1. ASSUME NEW s \in SUBSET A, Cardinality(s) <= 0 PROVE s = {}
    BY <1>1, <2>1, Sizes
  <2>2. QED
    BY <1>1, <2>1
<1>3. ASSUME NEW k \in 0 .. Cardinality(A) - 1, k \in Q PROVE k + 1 \in Q
  <2>1. ASSUME NEW s \in SUBSET A, Cardinality(s) <= k + 1, NEW x \in s
        PROVE  g[s] = x[4] + g[s \ {x}]
    <3> DEFINE y == Pick(s)
    <3>1. y \in s /\ g[s] = y[4] + g[s \ {y}]
      BY Picked DEF Tally, Adding
    <3> HIDE DEF y
    <3>2. CASE x = y
      BY <3>1, <3>2
    <3>3. CASE x # y
      <4>1. /\ s \ {x} \in SUBSET A /\ Cardinality(s \ {x}) = Cardinality(s) - 1
            /\ s \ {y} \in SUBSET A /\ Cardinality(s \ {y}) = Cardinality(s) - 1
            /\ Cardinality(s) \in Nat
        BY <1>1, <3>1, Sizes
      <4>2. Cardinality(s \ {x}) <= k /\ Cardinality(s \ {y}) <= k
        BY <1>1, <2>1, <4>1
      <4>3. g[s \ {y}] = x[4] + g[(s \ {y}) \ {x}] /\ g[s \ {x}] = y[4] + g[(s \ {x}) \ {y}]
        BY <1>3, <3>1, <3>3, <4>1, <4>2
      <4>4. (s \ {y}) \ {x} = (s \ {x}) \ {y} /\ (s \ {x}) \ {y} \in SUBSET A
        OBVIOUS
      <4>5. x[4] \in Int /\ y[4] \in Int /\ g[(s \ {x}) \ {y}] \in Int
        <5>1. x \in A /\ y \in A
          BY <3>1
        <5>2. QED
          BY <4>4, <5>1, SumOfSubset DEF Weighed
      <4>6. PICK a \in Int, b \in Int, i \in Int :
              a = x[4] /\ b = y[4] /\ i = g[(s \ {x}) \ {y}]
        BY <4>5
      <4>7. g[s \ {y}] = a + i /\ g[s \ {x}] = b + i /\ g[s] = b + g[s \ {y}]
        BY <3>1, <4>3, <4>4, <4>6
      <4>8. QED
        BY <4>6, <4>7
    <3>4. QED
      BY <3>2, <3>3
  <2>2. k + 1 \in 0 .. Cardinality(A)
    BY <1>1
  <2>3. QED
    BY <2>1, <2>2
<1>4. Cardinality(A) \in Q
  <2> HIDE DEF Q
  <2>1. QED
    BY <1>1, <1>2, <1>3, Rises
<1>5. ASSUME NEW s \in SUBSET A PROVE Cardinality(s) <= Cardinality(A)
  BY <1>1, FS_Subset
<1>6. QED
  BY <1>4, <1>5

LEMMA SumOfNone == SumParts({}) = 0 /\ Weighed({})
<1>1. Weighed({})
  BY FS_EmptySet DEF Weighed
<1>2. PICK g : Tally(g, {}) /\ SumParts({}) = g[{}]
  BY <1>1, SumIsTallied
<1>3. QED
  BY <1>1, <1>2 DEF Tally, Adding

LEMMA OneMore ==
  ASSUME NEW A, Weighed(A), NEW x, x \notin A, x[4] \in Int
  PROVE  /\ Weighed(A \union {x}) /\ SumParts(A \union {x}) = SumParts(A) + x[4]
         /\ SumParts(A) \in Int
<1> DEFINE B == A \union {x}
<1>1. Weighed(B)
  BY FS_AddElement DEF Weighed
<1>2. PICK g : Tally(g, B) /\ SumParts(B) = g[B]
  BY <1>1, SumIsTallied
<1>3. SumParts(A) = g[A] /\ g[A] \in Int
  BY <1>1, <1>2, SumOfSubset
<1>4. g[B] = x[4] + g[B \ {x}]
  BY <1>1, <1>2, AnyLast
<1>5. B \ {x} = A
  OBVIOUS
<1>6. SumParts(B) = SumParts(A) + x[4]
  <2>1. PICK a \in Int, b \in Int : a = x[4] /\ b = g[A]
    BY <1>3
  <2> HIDE DEF B
  <2>2. SumParts(B) = a + b
    BY <1>2, <1>4, <1>5, <2>1
  <2>3. QED
    BY <1>3, <2>1, <2>2
<1>7. QED
  BY <1>1, <1>3, <1>6

LEMMA SumType ==
  ASSUME NEW A, Weighed(A)
  PROVE  SumParts(A) \in Int
<1>1. PICK g : Tally(g, A) /\ SumParts(A) = g[A]
  BY SumIsTallied
<1>2. QED
  BY <1>1, SumOfSubset

LEMMA SumOfOne ==
  ASSUME NEW x, x[4] \in Int
  PROVE  Weighed({x}) /\ SumParts({x}) = x[4]
<1>1. {} \union {x} = {x} /\ x \notin {}
  OBVIOUS
<1>2. Weighed({} \union {x}) /\ SumParts({} \union {x}) = SumParts({}) + x[4]
  BY <1>1, SumOfNone, OneMore
<1>3. 0 + x[4] = x[4]
  OBVIOUS
<1>4. QED
  BY <1>1, <1>2, <1>3, SumOfNone

(* Sets without a common element.                                          *)
LEMMA SumOfBoth ==
  ASSUME NEW A, Weighed(A), NEW B, Weighed(B), \A x \in A : x \notin B
  PROVE  Weighed(A \union B) /\ SumParts(A \union B) = SumParts(A) + SumParts(B)
<1> DEFINE P == {s \in SUBSET B : SumParts(A \union s) = SumParts(A) + SumParts(s)}
<1>1. {} \in P
  <2>1. A \union {} = A
    OBVIOUS
  <2>2. SumParts(A \union {}) = SumParts(A) + SumParts({})
    BY <2>1, SumOfNone, SumType
  <2>3. QED
    BY <2>2
<1>2. Weighed(A \union B)
  BY FS_Union DEF Weighed
<1>3. ASSUME NEW s \in SUBSET B PROVE Weighed(s) /\ Weighed(A \union s)
  BY <1>2, FS_Subset DEF Weighed
<1>4. ASSUME NEW s \in SUBSET B, s # {}, s \ {Pick(s)} \in P PROVE s \in P
  <2> DEFINE x == Pick(s)
             r == s \ {x}
  <2>1. x \in s /\ x \notin r /\ x \notin A \union r /\ x[4] \in Int /\ r \in SUBSET B
    BY <1>4, Picked DEF Weighed
  <2>2. r \union {x} = s /\ (A \union r) \union {x} = A \union s
    BY <2>1
  <2>3. SumParts(A \union r) = SumParts(A) + SumParts(r)
    BY <1>4
  <2> HIDE DEF x, r
  <2>4. /\ SumParts(r \union {x}) = SumParts(r) + x[4] /\ SumParts(r) \in Int
        /\ SumParts((A \union r) \union {x}) = SumParts(A \union r) + x[4]
    BY <1>3, <2>1, OneMore
  <2>5. PICK a \in Int, b \in Int, i \in Int : a = SumParts(A) /\ b = SumParts(r) /\ i = x[4]
    BY <2>1, <2>4, SumType
  <2>6. SumParts(s) = b + i /\ SumParts(A \union s) = (a + b) + i
    BY <2>2, <2>3, <2>4, <2>5
  <2>7. SumParts(A \union s) = SumParts(A) + SumParts(s)
    BY <2>5, <2>6
  <2>8. QED
    BY <2>7
<1>5. B \in P
  <2> HIDE DEF P
  <2>1. IsFiniteSet(B) /\ B \in SUBSET B
    BY DEF Weighed
  <2>2. QED
    BY <1>1, <1>4, <2>1, AllSubsets
<1>6. QED
  BY <1>2, <1>5

(* Parts that are moved, one to one, keep their sum.                       *)
LEMMA SumOfMoved ==
  ASSUME NEW A, Weighed(A), NEW B, NEW f \in [A -> B],
         \A x, y \in A : f[x] = f[y] => x = y, \A y \in B : \E x \in A : f[x] = y,
         \A x \in A : f[x][4] = x[4]
  PROVE  Weighed(B) /\ SumParts(B) = SumParts(A)
<1> DEFINE Image(s) == {f[x] : x \in s}
           P == {s \in SUBSET A : Weighed(Image(s)) /\ SumParts(Image(s)) = SumParts(s)}
<1>1. {} \in P
  <2>1. Image({}) = {}
    OBVIOUS
  <2> HIDE DEF Image
  <2>2. QED
    BY <2>1, SumOfNone
<1>2. ASSUME NEW s \in SUBSET A, s # {}, s \ {Pick(s)} \in P PROVE s \in P
  <2> DEFINE x == Pick(s)
             r == s \ {x}
  <2>1. x \in s /\ x \in A /\ x \notin r /\ x[4] \in Int /\ r \in SUBSET A
    BY <1>2, Picked DEF Weighed
  <2>2. r \union {x} = s
    BY <2>1
  <2>3. Weighed(Image(r)) /\ SumParts(Image(r)) = SumParts(r)
    BY <1>2
  <2> HIDE DEF x, r
  <2>4. f[x] \notin Image(r) /\ f[x][4] = x[4]
    BY <2>1
  <2>5. Image(s) = Image(r) \union {f[x]}
    BY <2>2
  <2>6. Weighed(r)
    BY <2>1, FS_Subset DEF Weighed
  <2> HIDE DEF Image
  <2>7. SumParts(r \union {x}) = SumParts(r) + x[4]
    BY <2>1, <2>6, OneMore
  <2>8. Weighed(Image(r) \union {f[x]}) /\ SumParts(Image(r) \union {f[x]}) = SumParts(Image(r)) + x[4]
    BY <2>1, <2>3, <2>4, OneMore
  <2>9. QED
    BY <2>2, <2>3, <2>5, <2>7, <2>8
<1>3. A \in P
  <2> HIDE DEF P
  <2>1. IsFiniteSet(A) /\ A \in SUBSET A
    BY DEF Weighed
  <2>2. QED
    BY <1>1, <1>2, <2>1, AllSubsets
<1>4. Image(A) = B
  OBVIOUS
<1>5. QED
  BY <1>3, <1>4
-----------------------------------------------------------------------------
(* What a queue holds of element e.                                        *)
Amount(m, e) == IF m.elem = e THEN m.value ELSE 0
Held(e, name, t, q) == SumParts(PartsOf(e, name, t, q))

LEMMA PartsWeighed ==
  ASSUME NEW e, NEW name, NEW t, NEW q \in Seq(Message)
  PROVE  Weighed(PartsOf(e, name, t, q)) /\ Held(e, name, t, q) \in Int
<1> DEFINE I == {i \in 1 .. Len(q) : q[i].elem = e}
           f == [i \in I |-> <<name, t, i, q[i].value>>]
<1>1. Len(q) \in Nat /\ DOMAIN q = 1 .. Len(q)
  BY LenProperties
<1>2. IsFiniteSet(1 .. Len(q))
  BY <1>1, FS_Interval
<1>3. IsFiniteSet(I)
  BY <1>2, FS_Subset
<1>4. PartsOf(e, name, t, q) = {<<name, t, i, q[i].value>> : i \in I}
  BY <1>1 DEF PartsOf
<1>5. f \in Surjection(I, PartsOf(e, name, t, q))
  BY <1>4 DEF Surjection
<1>6. IsFiniteSet(PartsOf(e, name, t, q))
  BY <1>3, <1>5, FS_Surjection
<1>7. ASSUME NEW p \in PartsOf(e, name, t, q) PROVE p[4] \in Int
  <2>1. PICK i \in I : p = <<name, t, i, q[i].value>>
    BY <1>4
  <2>2. q[i] \in Message
    BY <2>1, ElementOfSeq
  <2>3. QED
    BY <2>1, <2>2, MessageType
<1>8. QED
  BY <1>6, <1>7, SumType DEF Weighed, Held

LEMMA HeldNone ==
  ASSUME NEW e, NEW name, NEW t
  PROVE  Held(e, name, t, <<>>) = 0
<1>1. PartsOf(e, name, t, <<>>) = {}
  BY DEF PartsOf
<1>2. QED
  BY <1>1, SumOfNone DEF Held

LEMMA HeldLast ==
  ASSUME NEW e, NEW name, NEW t, NEW q \in Seq(Message), NEW m \in Message
  PROVE  Held(e, name, t, Append(q, m)) = Held(e, name, t, q) + Amount(m, e)
<1>1. PICK n \in Nat : n = Len(q)
  BY LenProperties
<1>2. PICK r \in Seq(Message) : r = Append(q, m)
  BY AppendProperties
<1>3. /\ DOMAIN q = 1 .. n /\ DOMAIN r = 1 .. n + 1 /\ r[n + 1] = m
      /\ \A i \in 1 .. n : r[i] = q[i]
  BY <1>1, <1>2, AppendProperties, LenProperties
<1>4. PICK x : x = <<name, t, n + 1, m.value>>
  OBVIOUS
<1>5. PartsOf(e, name, t, r) = PartsOf(e, name, t, q) \union (IF m.elem = e THEN {x} ELSE {})
  <2>1. ASSUME NEW p PROVE p \in PartsOf(e, name, t, r) <=> p \in PartsOf(e, name, t, q) \/ (m.elem = e /\ p = x)
    <3>1. p \in PartsOf(e, name, t, r) <=> \E i \in 1 .. n + 1 : r[i].elem = e /\ p = <<name, t, i, r[i].value>>
      BY <1>3 DEF PartsOf
    <3>2. p \in PartsOf(e, name, t, q) <=> \E i \in 1 .. n : q[i].elem = e /\ p = <<name, t, i, q[i].value>>
      BY <1>3 DEF PartsOf
    <3>3. \A i : i \in 1 .. n + 1 <=> i \in 1 .. n \/ i = n + 1
      BY <1>1
    <3>4. QED
      BY <1>3, <1>4, <3>1, <3>2, <3>3
  <2>2. QED
    BY <2>1
<1>6. CASE m.elem = e
  <2>1. x \notin PartsOf(e, name, t, q)
    <3>1. \A i \in 1 .. n : i # n + 1
      BY <1>1
    <3>2. \A i \in 1 .. n : <<name, t, i, q[i].value>>[3] = i
      OBVIOUS
    <3>3. x[3] = n + 1
      BY <1>4
    <3>4. QED
      BY <1>3, <3>1, <3>2, <3>3 DEF PartsOf
  <2>2. x[4] = m.value /\ m.value \in Int
    BY <1>4, MessageType
  <2>3. SumParts(PartsOf(e, name, t, q) \union {x}) = SumParts(PartsOf(e, name, t, q)) + x[4]
    BY <2>1, <2>2, PartsWeighed, OneMore
  <2>4. QED
    BY <1>2, <1>5, <1>6, <2>2, <2>3 DEF Held, Amount
<1>7. CASE m.elem # e
  <2>1. PartsOf(e, name, t, r) = PartsOf(e, name, t, q)
    BY <1>5, <1>7
  <2>2. Held(e, name, t, q) + 0 = Held(e, name, t, q)
    BY PartsWeighed
  <2>3. QED
    BY <1>2, <1>7, <2>1, <2>2 DEF Held, Amount
<1>8. QED
  BY <1>6, <1>7

(* When the first message is taken the others move up by one.              *)
LEMMA HeldFirst ==
  ASSUME NEW e, NEW name, NEW t, NEW q \in Seq(Message), q # <<>>
  PROVE  Held(e, name, t, q) = Held(e, name, t, Tail(q)) + Amount(Head(q), e)
<1>1. PICK m \in Message, r \in Seq(Message) : m = Head(q) /\ r = Tail(q)
  BY HeadTailProperties
<1>2. PICK n \in Nat : n = Len(r)
  BY LenProperties
<1>3. /\ DOMAIN r = 1 .. n /\ DOMAIN q = 1 .. n + 1 /\ q[1] = m
      /\ \A i \in 1 .. n : r[i] = q[i + 1]
  <2>1. Len(q) = n + 1 /\ \A i \in 1 .. n : r[i] = q[i + 1]
    BY <1>1, <1>2, HeadTailProperties, LenProperties
  <2>2. QED
    BY <1>1, <1>2, <2>1, LenProperties
<1> DEFINE A == PartsOf(e, name, t, r)
           B == {<<name, t, i + 1, r[i].value>> : i \in {j \in 1 .. n : r[j].elem = e}}
           x == <<name, t, 1, m.value>>
           f == [p \in A |-> <<name, t, p[3] + 1, p[4]>>]
<1>4. \A p : p \in A <=> \E i \in 1 .. n : r[i].elem = e /\ p = <<name, t, i, r[i].value>>
  BY <1>3 DEF PartsOf
<1>5. Weighed(A) /\ SumParts(A) = Held(e, name, t, r)
  BY PartsWeighed DEF Held
<1>6. Weighed(B) /\ SumParts(B) = SumParts(A)
  <2>1. f \in [A -> B]
    BY <1>4
  <2>2. \A p, s \in A : f[p] = f[s] => p = s
    <3>1. SUFFICES ASSUME NEW p \in A, NEW s \in A, f[p] = f[s] PROVE p = s
      OBVIOUS
    <3>2. PICK i \in 1 .. n : p = <<name, t, i, r[i].value>>
      BY <1>4
    <3>3. PICK j \in 1 .. n : s = <<name, t, j, r[j].value>>
      BY <1>4
    <3>4. f[p][3] = i + 1 /\ f[s][3] = j + 1
      BY <3>2, <3>3
    <3>5. i = j
      <4>1. i + 1 = j + 1
        BY <3>1, <3>4
      <4>2. QED
        BY <4>1
    <3>6. QED
      BY <3>2, <3>3, <3>5
  <2>3. \A y \in B : \E p \in A : f[p] = y
    <3>1. SUFFICES ASSUME NEW i \in 1 .. n, r[i].elem = e
                   PROVE  \E p \in A : f[p] = <<name, t, i + 1, r[i].value>>
      OBVIOUS
    <3>2. PICK p : p = <<name, t, i, r[i].value>>
      OBVIOUS
    <3>3. p \in A
      BY <1>4, <3>1, <3>2
    <3>4. f[p] = <<name, t, i + 1, r[i].value>>
      BY <3>2, <3>3
    <3>5. QED
      BY <3>3, <3>4
  <2>4. \A p \in A : f[p][4] = p[4]
    OBVIOUS
  <2> HIDE DEF f, A, B
  <2>5. QED
    BY <1>5, <2>1, <2>2, <2>3, <2>4, SumOfMoved
<1>7. PartsOf(e, name, t, q) = B \union (IF m.elem = e THEN {x} ELSE {})
  <2>1. ASSUME NEW p PROVE p \in PartsOf(e, name, t, q) <=> p \in B \/ (m.elem = e /\ p = x)
    <3>1. p \in PartsOf(e, name, t, q) <=> \E i \in 1 .. n + 1 : q[i].elem = e /\ p = <<name, t, i, q[i].value>>
      BY <1>3 DEF PartsOf
    <3>2. p \in B <=> \E i \in 1 .. n : q[i + 1].elem = e /\ p = <<name, t, i + 1, q[i + 1].value>>
      BY <1>3
    <3>3. ASSUME NEW i \in 1 .. n + 1, i # 1 PROVE i - 1 \in 1 .. n /\ (i - 1) + 1 = i
      BY <3>3
    <3>4. ASSUME NEW i \in 1 .. n PROVE i + 1 \in 1 .. n + 1
      OBVIOUS
    <3>5. 1 \in 1 .. n + 1
      OBVIOUS
    <3> HIDE DEF B
    <3>6. QED
      BY <1>3, <3>1, <3>2, <3>3, <3>4, <3>5
  <2>2. QED
    BY <2>1
<1>8. CASE m.elem = e
  <2>1. x \notin B
    <3>1. \A i \in 1 .. n : <<name, t, i + 1, r[i].value>>[3] = i + 1 /\ i + 1 # 1
      OBVIOUS
    <3>2. x[3] = 1
      OBVIOUS
    <3> HIDE DEF x
    <3>3. QED
      BY <3>1, <3>2
  <2>2. x[4] = m.value /\ m.value \in Int
    BY MessageType
  <2> HIDE DEF x, A, B
  <2>3. SumParts(B \union {x}) = SumParts(B) + x[4]
    BY <1>6, <2>1, <2>2, OneMore
  <2>4. PartsOf(e, name, t, q) = B \union {x}
    BY <1>7, <1>8
  <2>5. QED
    BY <1>1, <1>5, <1>6, <1>8, <2>2, <2>3, <2>4 DEF Held, Amount
<1>9. CASE m.elem # e
  <2>1. PartsOf(e, name, t, q) = B
    BY <1>7, <1>9
  <2> HIDE DEF x, A, B
  <2>2. SumParts(A) + 0 = SumParts(A)
    BY <1>5, SumType
  <2>3. QED
    BY <1>1, <1>5, <1>6, <1>9, <2>1, <2>2 DEF Held, Amount
<1>10. QED
  BY <1>8, <1>9
-----------------------------------------------------------------------------
(* The places that hold parts, in a state s: the owner, the queues and the *)
(* copies, each named by what a part of it begins with.                    *)
State == [ret : [Elements -> Nat], proxy : [tiles -> [Elements -> Nat]],
          freq : [tiles -> [Elements -> {0, 1}]], iq2 : Seq(Message),
          iq3 : [tiles -> Seq(Message)], oq2 : [tiles -> Seq(Message)]]
Slots == {<<"owner", 0>>, <<"iq2", 0>>} \union ({"iq3", "oq2", "copy"} \X tiles)

CopyPart(e, t, s) == IF s.freq[t][e] > 0 THEN {<<"copy", t, 0, s.proxy[t][e]>>} ELSE {}
CopyWorth(e, t, s) == IF s.freq[t][e] > 0 THEN s.proxy[t][e] ELSE 0

Slot(e, k, s) ==
  IF k[1] = "owner" THEN {<<"owner", 0, 0, s.ret[e]>>}
  ELSE IF k[1] = "iq2" THEN PartsOf(e, "iq2", 0, s.iq2)
  ELSE IF k[1] = "iq3" THEN PartsOf(e, "iq3", k[2], s.iq3[k[2]])
  ELSE IF k[1] = "oq2" THEN PartsOf(e, "oq2", k[2], s.oq2[k[2]])
  ELSE CopyPart(e, k[2], s)

Worth(e, k, s) == SumParts(Slot(e, k, s))
Content(e, K, s) == UNION {Slot(e, k, s) : k \in K}
Total(e, s) == SumParts(Content(e, Slots, s))

LEMMA StateTypes ==
  ASSUME NEW s \in State
  PROVE  /\ s.ret \in [Elements -> Nat] /\ s.proxy \in [tiles -> [Elements -> Nat]]
         /\ s.freq \in [tiles -> [Elements -> {0, 1}]] /\ s.iq2 \in Seq(Message)
         /\ s.iq3 \in [tiles -> Seq(Message)] /\ s.oq2 \in [tiles -> Seq(Message)]
         /\ \A t \in tiles : s.iq3[t] \in Seq(Message) /\ s.oq2[t] \in Seq(Message)
BY DEF State

LEMMA SlotCases ==
  ASSUME NEW k \in Slots
  PROVE  \/ k = <<"owner", 0>> \/ k = <<"iq2", 0>>
         \/ \E t \in tiles : k = <<"iq3", t>> \/ k = <<"oq2", t>> \/ k = <<"copy", t>>
BY DEF Slots

LEMMA SlotNames ==
  /\ <<"owner", 0>> \in Slots /\ <<"iq2", 0>> \in Slots
  /\ \A t \in tiles : <<"iq3", t>> \in Slots /\ <<"oq2", t>> \in Slots /\ <<"copy", t>> \in Slots
BY DEF Slots

LEMMA SlotsAre ==
  ASSUME NEW e, NEW s
  PROVE  /\ Slot(e, <<"owner", 0>>, s) = {<<"owner", 0, 0, s.ret[e]>>}
         /\ Slot(e, <<"iq2", 0>>, s) = PartsOf(e, "iq2", 0, s.iq2)
         /\ \A t \in tiles : /\ Slot(e, <<"iq3", t>>, s) = PartsOf(e, "iq3", t, s.iq3[t])
                             /\ Slot(e, <<"oq2", t>>, s) = PartsOf(e, "oq2", t, s.oq2[t])
                             /\ Slot(e, <<"copy", t>>, s) = CopyPart(e, t, s)
BY DEF Slot

LEMMA CopyWorths ==
  ASSUME NEW e \in Elements, NEW s \in State, NEW t \in tiles
  PROVE  /\ Weighed(CopyPart(e, t, s)) /\ CopyWorth(e, t, s) \in Nat
         /\ SumParts(CopyPart(e, t, s)) = CopyWorth(e, t, s)
<1>1. s.proxy[t][e] \in Nat
  BY StateTypes
<1>2. PICK x : x = <<"copy", t, 0, s.proxy[t][e]>>
  OBVIOUS
<1>3. x[4] = s.proxy[t][e] /\ x[4] \in Int
  BY <1>1, <1>2
<1>4. Weighed({x}) /\ SumParts({x}) = x[4]
  BY <1>3, SumOfOne
<1>5. QED
  BY <1>1, <1>2, <1>3, <1>4, SumOfNone DEF CopyPart, CopyWorth

LEMMA Worths ==
  ASSUME NEW e \in Elements, NEW s \in State
  PROVE  /\ Worth(e, <<"owner", 0>>, s) = s.ret[e]
         /\ Worth(e, <<"iq2", 0>>, s) = Held(e, "iq2", 0, s.iq2)
         /\ \A t \in tiles : /\ Worth(e, <<"iq3", t>>, s) = Held(e, "iq3", t, s.iq3[t])
                             /\ Worth(e, <<"oq2", t>>, s) = Held(e, "oq2", t, s.oq2[t])
                             /\ Worth(e, <<"copy", t>>, s) = CopyWorth(e, t, s)
<1>1. PICK x : x = <<"owner", 0, 0, s.ret[e]>>
  OBVIOUS
<1>2. x[4] = s.ret[e] /\ x[4] \in Int
  BY <1>1, StateTypes
<1>3. SumParts({x}) = s.ret[e]
  BY <1>2, SumOfOne
<1>4. Worth(e, <<"owner", 0>>, s) = s.ret[e]
  BY <1>1, <1>3, SlotsAre DEF Worth
<1>5. QED
  BY <1>4, SlotsAre, CopyWorths DEF Worth, Held

LEMMA SlotsWeighed ==
  ASSUME NEW e \in Elements, NEW s \in State, NEW k \in Slots
  PROVE  Weighed(Slot(e, k, s)) /\ Worth(e, k, s) \in Int
<1>1. PICK x : x = <<"owner", 0, 0, s.ret[e]>>
  OBVIOUS
<1>2. x[4] \in Int
  BY <1>1, StateTypes
<1>3. Weighed(Slot(e, <<"owner", 0>>, s))
  BY <1>1, <1>2, SumOfOne, SlotsAre
<1>4. Weighed(Slot(e, <<"iq2", 0>>, s))
  BY StateTypes, PartsWeighed, SlotsAre
<1>5. ASSUME NEW t \in tiles
      PROVE  /\ Weighed(Slot(e, <<"iq3", t>>, s)) /\ Weighed(Slot(e, <<"oq2", t>>, s))
             /\ Weighed(Slot(e, <<"copy", t>>, s))
  BY StateTypes, PartsWeighed, SlotsAre, CopyWorths
<1>6. Weighed(Slot(e, k, s))
  BY <1>3, <1>4, <1>5, SlotCases
<1>7. QED
  BY <1>6, SumType DEF Worth

(* A part says which place it is in.                                       *)
LEMMA PartNamesSlot ==
  ASSUME NEW e \in Elements, NEW s \in State, NEW k \in Slots, NEW p \in Slot(e, k, s)
  PROVE  <<p[1], p[2]>> = k
<1>1. ASSUME NEW name, NEW t, NEW q, p \in PartsOf(e, name, t, q) PROVE <<p[1], p[2]>> = <<name, t>>
  <2>1. PICK i, v : p = <<name, t, i, v>>
    BY <1>1 DEF PartsOf
  <2>2. p[1] = name /\ p[2] = t
    BY <2>1
  <2>3. QED
    BY <2>2
<1>2. CASE k = <<"owner", 0>>
  <2>1. p = <<"owner", 0, 0, s.ret[e]>>
    BY <1>2, SlotsAre
  <2>2. p[1] = "owner" /\ p[2] = 0
    BY <2>1
  <2>3. QED
    BY <1>2, <2>2
<1>3. CASE k = <<"iq2", 0>>
  BY <1>1, <1>3, SlotsAre
<1>4. ASSUME NEW t \in tiles, k = <<"copy", t>> PROVE <<p[1], p[2]>> = k
  <2>1. p = <<"copy", t, 0, s.proxy[t][e]>>
    BY <1>4, SlotsAre DEF CopyPart
  <2>2. p[1] = "copy" /\ p[2] = t
    BY <2>1
  <2>3. QED
    BY <1>4, <2>2
<1>5. ASSUME NEW t \in tiles, k = <<"iq3", t>> PROVE <<p[1], p[2]>> = k
  <2>1. Slot(e, <<"iq3", t>>, s) = PartsOf(e, "iq3", t, s.iq3[t])
    BY DEF Slot
  <2>2. p \in Slot(e, <<"iq3", t>>, s)
    BY <1>5
  <2>3. QED
    BY <1>1, <1>5, <2>1, <2>2
<1>6. ASSUME NEW t \in tiles, k = <<"oq2", t>> PROVE <<p[1], p[2]>> = k
  <2>1. Slot(e, <<"oq2", t>>, s) = PartsOf(e, "oq2", t, s.oq2[t])
    BY DEF Slot
  <2>2. p \in Slot(e, <<"oq2", t>>, s)
    BY <1>6
  <2>3. QED
    BY <1>1, <1>6, <2>1, <2>2
<1>7. QED
  BY <1>2, <1>3, <1>4, <1>5, <1>6, SlotCases

LEMMA SlotsFinite == IsFiniteSet(Slots)
<1>1. IsFiniteSet(tiles)
  <2>1. PICK n \in Int : n = PROXYS - 1
    BY ProxyAssumption
  <2>2. QED
    BY <2>1, FS_Interval DEF tiles
<1>2. IsFiniteSet({}) /\ IsFiniteSet({"iq3"}) /\ IsFiniteSet({"iq3", "oq2"}) /\ IsFiniteSet({"iq3", "oq2", "copy"})
  <2>1. IsFiniteSet({})
    BY FS_EmptySet
  <2>2. IsFiniteSet({} \union {"iq3"}) /\ {} \union {"iq3"} = {"iq3"}
    BY <2>1, FS_AddElement
  <2>3. IsFiniteSet({"iq3"} \union {"oq2"}) /\ {"iq3"} \union {"oq2"} = {"iq3", "oq2"}
    BY <2>2, FS_AddElement
  <2>4. IsFiniteSet({"iq3", "oq2"} \union {"copy"}) /\ {"iq3", "oq2"} \union {"copy"} = {"iq3", "oq2", "copy"}
    BY <2>3, FS_AddElement
  <2>5. QED
    BY <2>1, <2>2, <2>3, <2>4
<1>3. IsFiniteSet({"iq3", "oq2", "copy"} \X tiles)
  BY <1>1, <1>2, FS_Product
<1>4. IsFiniteSet(({"iq3", "oq2", "copy"} \X tiles) \union {<<"iq2", 0>>})
  BY <1>3, FS_AddElement
<1>5. IsFiniteSet((({"iq3", "oq2", "copy"} \X tiles) \union {<<"iq2", 0>>}) \union {<<"owner", 0>>})
  BY <1>4, FS_AddElement
<1>6. Slots = (({"iq3", "oq2", "copy"} \X tiles) \union {<<"iq2", 0>>}) \union {<<"owner", 0>>}
  BY DEF Slots
<1>7. QED
  BY <1>5, <1>6

(* One place can be counted apart from the others.                         *)
LEMMA CountedApart ==
  ASSUME NEW e \in Elements, NEW s \in State, NEW K \in SUBSET Slots, NEW k \in K
  PROVE  /\ SumParts(Content(e, K, s)) = Worth(e, k, s) + SumParts(Content(e, K \ {k}, s))
         /\ SumParts(Content(e, K \ {k}, s)) \in Int /\ Worth(e, k, s) \in Int
<1>1. ASSUME NEW L \in SUBSET Slots PROVE Weighed(Content(e, L, s))
  <2>1. IsFiniteSet(L)
    BY SlotsFinite, FS_Subset
  <2>2. PICK S : S = {Slot(e, j, s) : j \in L}
    OBVIOUS
  <2>3. IsFiniteSet(S)
    <3> DEFINE f == [j \in L |-> Slot(e, j, s)]
    <3>1. f \in Surjection(L, S)
      BY <2>2 DEF Surjection
    <3> HIDE DEF f
    <3>2. QED
      BY <2>1, <3>1, FS_Surjection
  <2>4. \A T \in S : IsFiniteSet(T)
    BY <2>2, SlotsWeighed DEF Weighed
  <2>5. IsFiniteSet(UNION S)
    BY <2>3, <2>4, FS_UNION
  <2>6. \A p \in UNION S : p[4] \in Int
    BY <2>2, SlotsWeighed DEF Weighed
  <2>7. QED
    BY <2>2, <2>5, <2>6 DEF Weighed, Content
<1>2. PICK A, B : A = Slot(e, k, s) /\ B = Content(e, K \ {k}, s)
  OBVIOUS
<1>3. Weighed(A) /\ Weighed(B) /\ SumParts(A) \in Int /\ SumParts(B) \in Int
  BY <1>1, <1>2, SlotsWeighed, SumType
<1>4. \A x \in A : x \notin B
  <2>1. ASSUME NEW x \in A, x \in B PROVE FALSE
    <3>1. PICK j \in K \ {k} : x \in Slot(e, j, s)
      BY <1>2, <2>1 DEF Content
    <3>2. <<x[1], x[2]>> = k /\ <<x[1], x[2]>> = j
      BY <1>2, <3>1, PartNamesSlot
    <3>3. QED
      BY <3>1, <3>2
  <2>2. QED
    BY <2>1
<1>5. SumParts(A \union B) = SumParts(A) + SumParts(B)
  BY <1>3, <1>4, SumOfBoth
<1>6. Content(e, K, s) = A \union B
  BY <1>2 DEF Content
<1>7. QED
  BY <1>2, <1>3, <1>5, <1>6 DEF Worth

(* What of s and z differs is in the places J.                             *)
Alike(e, s, z, J) ==
  /\ <<"owner", 0>> \notin J => z.ret[e] = s.ret[e]
  /\ <<"iq2", 0>> \notin J => z.iq2 = s.iq2
  /\ \A u \in tiles :
       /\ <<"iq3", u>> \notin J => z.iq3[u] = s.iq3[u]
       /\ <<"oq2", u>> \notin J => z.oq2[u] = s.oq2[u]
       /\ <<"copy", u>> \notin J => z.freq[u][e] = s.freq[u][e] /\ z.proxy[u][e] = s.proxy[u][e]

(* What is kept in three places together is kept.                          *)
LEMMA Balance ==
  ASSUME NEW e \in Elements, NEW s \in State, NEW z \in State,
         NEW i \in Slots, NEW j \in Slots, NEW k \in Slots, i # j, i # k, j # k,
         Alike(e, s, z, {i, j, k}), NEW d \in Int,
         Worth(e, i, z) + Worth(e, j, z) + Worth(e, k, z)
           = Worth(e, i, s) + Worth(e, j, s) + Worth(e, k, s) + d
  PROVE  Total(e, z) = Total(e, s) + d
<1>1. PICK R \in SUBSET Slots : R = ((Slots \ {i}) \ {j}) \ {k}
  OBVIOUS
<1>2. ASSUME NEW x \in State
      PROVE  /\ Total(e, x) = Worth(e, i, x) + (Worth(e, j, x) + (Worth(e, k, x) + SumParts(Content(e, R, x))))
             /\ Worth(e, i, x) \in Int /\ Worth(e, j, x) \in Int /\ Worth(e, k, x) \in Int
             /\ SumParts(Content(e, R, x)) \in Int
  <2>1. PICK K \in SUBSET Slots, L \in SUBSET Slots : K = Slots \ {i} /\ L = K \ {j}
    OBVIOUS
  <2>2. i \in Slots /\ j \in K /\ k \in L /\ R = L \ {k} /\ Slots \in SUBSET Slots
    BY <1>1, <2>1
  <2>3. SumParts(Content(e, Slots, x)) = Worth(e, i, x) + SumParts(Content(e, K, x)) /\ Worth(e, i, x) \in Int
    BY <2>1, <2>2, CountedApart
  <2>4. SumParts(Content(e, K, x)) = Worth(e, j, x) + SumParts(Content(e, L, x)) /\ Worth(e, j, x) \in Int
    <3>1. /\ SumParts(Content(e, K, x)) = Worth(e, j, x) + SumParts(Content(e, K \ {j}, x))
          /\ Worth(e, j, x) \in Int
      BY <2>2, CountedApart
    <3>2. QED
      BY <2>1, <3>1
  <2>5. /\ SumParts(Content(e, L, x)) = Worth(e, k, x) + SumParts(Content(e, R, x))
        /\ Worth(e, k, x) \in Int /\ SumParts(Content(e, R, x)) \in Int
    BY <2>1, <2>2, CountedApart
  <2>6. QED
    BY <2>3, <2>4, <2>5 DEF Total
<1>3. Content(e, R, z) = Content(e, R, s)
  <2>1. ASSUME NEW o \in R PROVE Slot(e, o, z) = Slot(e, o, s)
    <3>1. o \in Slots /\ o \notin {i, j, k}
      BY <1>1
    <3>2. CASE o = <<"owner", 0>>
      <4>1. z.ret[e] = s.ret[e]
        BY <3>1, <3>2 DEF Alike
      <4>2. Slot(e, <<"owner", 0>>, z) = Slot(e, <<"owner", 0>>, s)
        BY <4>1 DEF Slot
      <4>3. QED
        BY <3>2, <4>2
    <3>3. CASE o = <<"iq2", 0>>
      <4>1. z.iq2 = s.iq2
        BY <3>1, <3>3 DEF Alike
      <4>2. Slot(e, <<"iq2", 0>>, z) = Slot(e, <<"iq2", 0>>, s)
        BY <4>1 DEF Slot
      <4>3. QED
        BY <3>3, <4>2
    <3>4. ASSUME NEW t \in tiles, o = <<"iq3", t>> \/ o = <<"oq2", t>> \/ o = <<"copy", t>>
          PROVE  Slot(e, o, z) = Slot(e, o, s)
      <4>1. CASE o = <<"iq3", t>>
        <5>1. z.iq3[t] = s.iq3[t]
          BY <3>1, <4>1 DEF Alike
        <5>2. Slot(e, <<"iq3", t>>, z) = Slot(e, <<"iq3", t>>, s)
          BY <5>1 DEF Slot
        <5>3. QED
          BY <4>1, <5>2
      <4>2. CASE o = <<"oq2", t>>
        <5>1. z.oq2[t] = s.oq2[t]
          BY <3>1, <4>2 DEF Alike
        <5>2. Slot(e, <<"oq2", t>>, z) = Slot(e, <<"oq2", t>>, s)
          BY <5>1 DEF Slot
        <5>3. QED
          BY <4>2, <5>2
      <4>3. CASE o = <<"copy", t>>
        <5>1. z.freq[t][e] = s.freq[t][e] /\ z.proxy[t][e] = s.proxy[t][e]
          BY <3>1, <4>3 DEF Alike
        <5>2. CopyPart(e, t, z) = CopyPart(e, t, s)
          BY <5>1 DEF CopyPart
        <5>3. Slot(e, <<"copy", t>>, z) = Slot(e, <<"copy", t>>, s)
          BY <5>2 DEF Slot
        <5>4. QED
          BY <4>3, <5>3
      <4>4. QED
        BY <3>4, <4>1, <4>2, <4>3
    <3>5. QED
      BY <3>1, <3>2, <3>3, <3>4, SlotCases
  <2>2. QED
    BY <2>1 DEF Content
<1>4. PICK a \in Int, b \in Int, c \in Int, r \in Int :
        a = Worth(e, i, s) /\ b = Worth(e, j, s) /\ c = Worth(e, k, s) /\ r = SumParts(Content(e, R, s))
  BY <1>2
<1>5. PICK f \in Int, g \in Int, h \in Int :
        f = Worth(e, i, z) /\ g = Worth(e, j, z) /\ h = Worth(e, k, z)
  BY <1>2
<1>6. Total(e, s) = a + (b + (c + r)) /\ Total(e, z) = f + (g + (h + r)) /\ f + g + h = a + b + c + d
  BY <1>2, <1>3, <1>4, <1>5
<1>7. QED
  BY <1>6
-----------------------------------------------------------------------------
(* Each step keeps the sum, or adds what is sent.                          *)
Now(s) ==
  /\ s.ret = ret /\ s.proxy = proxy /\ s.freq = freq
  /\ s.iq2 = iq2 /\ s.iq3 = iq3 /\ s.oq2 = oq2
Then(z) ==
  /\ z.ret = ret' /\ z.proxy = proxy' /\ z.freq = freq'
  /\ z.iq2 = iq2' /\ z.iq3 = iq3' /\ z.oq2 = oq2'

LEMMA NowIs ==
  ASSUME Typed
  PROVE  \E s \in State : Now(s)
<1>1. PICK s : s = [ret |-> ret, proxy |-> proxy, freq |-> freq, iq2 |-> iq2, iq3 |-> iq3, oq2 |-> oq2]
  OBVIOUS
<1>2. s \in State
  BY <1>1 DEF State, Typed
<1>3. Now(s)
  BY <1>1 DEF Now
<1>4. QED
  BY <1>2, <1>3

LEMMA ThenIs ==
  ASSUME Typed'
  PROVE  \E z \in State : Then(z)
<1>1. PICK z : z = [ret |-> ret', proxy |-> proxy', freq |-> freq', iq2 |-> iq2', iq3 |-> iq3', oq2 |-> oq2']
  OBVIOUS
<1>2. z \in State
  BY <1>1 DEF State, Typed
<1>3. Then(z)
  BY <1>1 DEF Then
<1>4. QED
  BY <1>2, <1>3

LEMMA Sums ==
  ASSUME APP = "HISTO"
  PROVE  proxy_default = 0 /\ WRITE_THROUGH = 0
BY ProxyAssumption

LEMMA Added ==
  ASSUME APP = "HISTO", NEW a, NEW b
  PROVE  Combine(a, b) = a + b
BY DEF Combine

LEMMA AmountType ==
  ASSUME NEW m \in Message, NEW e \in Elements
  PROVE  Amount(m, e) \in Nat /\ (m.elem = e => Amount(m, e) = m.value) /\ (m.elem # e => Amount(m, e) = 0)
BY MessageType DEF Amount

LEMMA HeldType ==
  ASSUME NEW e, NEW name, NEW t, NEW q \in Seq(Message)
  PROVE  Held(e, name, t, q) \in Int
BY PartsWeighed

LEMMA FirstTile == 0 \in tiles
<1>1. PROXYS \in Nat /\ PROXYS # 0
  BY ProxyAssumption
<1>2. QED
  BY <1>1 DEF tiles

LEMMA Distinct ==
  ASSUME NEW t, NEW u
  PROVE  /\ <<"owner", 0>> # <<"iq2", 0>> /\ <<"owner", 0>> # <<"iq3", t>>
         /\ <<"owner", 0>> # <<"oq2", t>> /\ <<"owner", 0>> # <<"copy", t>>
         /\ <<"iq2", 0>> # <<"iq3", t>> /\ <<"iq2", 0>> # <<"oq2", t>> /\ <<"iq2", 0>> # <<"copy", t>>
         /\ <<"iq3", t>> # <<"oq2", u>> /\ <<"iq3", t>> # <<"copy", u>> /\ <<"oq2", t>> # <<"copy", u>>
OBVIOUS

(* Task 3 adds the update to the owner's value.                            *)
LEMMA T3Sums ==
  ASSUME Typed, APP = "HISTO", iq2 # <<>>, T3, NEW s \in State, Now(s), NEW z \in State, Then(z),
         NEW e \in Elements
  PROVE  Total(e, z) = Total(e, s) + 0
<1>1. PICK q \in Seq(Message) : q = iq2 /\ q # <<>>
  BY DEF Typed
<1>2. PICK m \in Message : m = Head(q)
  BY <1>1, HeadTailProperties
<1>3. m.elem \in Elements /\ m.value \in Nat
  BY <1>2, MessageType
<1>4. /\ iq2' = Tail(q) /\ ret' = [ret EXCEPT ![m.elem] = Combine(ret[m.elem], m.value)]
      /\ UNCHANGED <<cache, iq3, oq2>>
  BY <1>1, <1>2 DEF T3
<1>5. PICK a \in Int, b \in Int : a = s.ret[e] /\ b = Amount(m, e)
  BY <1>2, StateTypes, AmountType
<1>6. z.ret[e] = a + b
  <2>1. z.ret = [s.ret EXCEPT ![m.elem] = s.ret[m.elem] + m.value]
    <3>1. Combine(ret[m.elem], m.value) = ret[m.elem] + m.value
      BY Added
    <3>2. QED
      BY <1>4, <3>1 DEF Now, Then
  <2>2. s.ret \in [Elements -> Nat]
    BY StateTypes
  <2>3. CASE m.elem = e
    BY <1>2, <1>3, <1>5, <2>1, <2>2, <2>3, AmountType
  <2>4. CASE m.elem # e
    BY <1>2, <1>3, <1>5, <2>1, <2>2, <2>4, AmountType
  <2>5. QED
    BY <2>3, <2>4
<1>7. PICK h \in Int : h = Held(e, "iq2", 0, z.iq2)
  BY StateTypes, HeldType
<1>8. Held(e, "iq2", 0, s.iq2) = h + b
  <2>1. s.iq2 = q /\ z.iq2 = Tail(q)
    BY <1>1, <1>4 DEF Now, Then
  <2>2. QED
    BY <1>1, <1>2, <1>5, <1>7, <2>1, HeldFirst
<1>9. Alike(e, s, z, {<<"owner", 0>>, <<"iq2", 0>>, <<"copy", 0>>})
  BY <1>4 DEF Now, Then, Alike, cache
<1>10. PICK c \in Int : c = CopyWorth(e, 0, s) /\ c = CopyWorth(e, 0, z)
  <2>1. z.freq = s.freq /\ z.proxy = s.proxy
    BY <1>4 DEF Now, Then, cache
  <2>2. QED
    BY <2>1, CopyWorths, FirstTile DEF CopyWorth
<1>11. PICK i, j, k : i = <<"owner", 0>> /\ j = <<"iq2", 0>> /\ k = <<"copy", 0>>
  OBVIOUS
<1>12. /\ Worth(e, i, s) = a /\ Worth(e, j, s) = h + b /\ Worth(e, k, s) = c
       /\ Worth(e, i, z) = a + b /\ Worth(e, j, z) = h /\ Worth(e, k, z) = c
  BY <1>5, <1>6, <1>7, <1>8, <1>10, <1>11, Worths, FirstTile
<1>13. i \in Slots /\ j \in Slots /\ k \in Slots /\ i # j /\ i # k /\ j # k
  BY <1>11, SlotNames, FirstTile
<1>14. Alike(e, s, z, {i, j, k})
  BY <1>9, <1>11
<1>15. Worth(e, i, z) + Worth(e, j, z) + Worth(e, k, z) = Worth(e, i, s) + Worth(e, j, s) + Worth(e, k, s) + 0
  BY <1>12
<1>16. QED
  BY <1>13, <1>14, <1>15, Balance

(* A message that tile t takes from a queue, sends on or keeps a copy of.  *)
LEMMA CopyNow ==
  ASSUME Typed, APP = "HISTO", NEW s \in State, Now(s), NEW t \in tiles, NEW e \in Elements
  PROVE  CopyWorth(e, t, s) = Copy(t, e) /\ Copy(t, e) \in Nat
BY Sums, CopyType DEF Now, CopyWorth, Copy

LEMMA DrainSums ==
  ASSUME CacheInv, APP = "HISTO", NEW t \in tiles, Drain(t), NEW s \in State, Now(s),
         NEW z \in State, Then(z), NEW e \in Elements
  PROVE  Total(e, z) = Total(e, s) + 0
<1>1. Typed
  BY DEF CacheInv
<1>2. PICK d \in Elements :
           /\ freq[t][d] = 1 /\ freq' = [freq EXCEPT ![t][d] = 0]
           /\ oq2' = [oq2 EXCEPT ![t] = Append(@, Update(d, proxy[t][d]))]
           /\ UNCHANGED <<proxy, ret, iq2, iq3>>
  BY DrainFacts
<1>3. PICK m \in Message : m = Update(d, proxy[t][d]) /\ m.elem = d /\ m.value = proxy[t][d]
  <2>1. proxy[t][d] \in Nat
    BY <1>1 DEF Typed
  <2>2. QED
    BY <2>1, UpdateType
<1>4. PICK h \in Int, b \in Int : h = Held(e, "oq2", t, s.oq2[t]) /\ b = Amount(m, e)
  BY <1>3, StateTypes, HeldType, AmountType
<1>5. Held(e, "oq2", t, z.oq2[t]) = h + b
  <2>1. PICK q \in Seq(Message) : q = s.oq2[t]
    BY StateTypes
  <2>2. z.oq2[t] = Append(q, m)
    BY <1>1, <1>2, <1>3, <2>1 DEF Now, Then, Typed
  <2>3. QED
    BY <1>4, <2>1, <2>2, HeldLast
<1>6. PICK c \in Int : c = CopyWorth(e, t, z)
  BY CopyWorths
<1>7. CopyWorth(e, t, s) = c + b
  <2>1. /\ z.freq[t] = [s.freq[t] EXCEPT ![d] = 0] /\ z.proxy = s.proxy /\ s.freq[t][d] = 1
        /\ m.value = s.proxy[t][d] /\ s.freq[t] \in [Elements -> {0, 1}]
    BY <1>1, <1>2, <1>3, StateTypes DEF Now, Then, Typed
  <2>2. CASE e = d
    <3>1. c = 0
      BY <1>6, <2>1, <2>2 DEF CopyWorth
    <3>2. b = m.value
      BY <1>3, <1>4, <2>2, AmountType
    <3>3. CopyWorth(e, t, s) = m.value
      BY <2>1, <2>2 DEF CopyWorth
    <3>4. QED
      BY <3>1, <3>2, <3>3
  <2>3. CASE e # d
    <3>1. b = 0
      BY <1>3, <1>4, <2>3, AmountType
    <3>2. CopyWorth(e, t, s) = c
      BY <1>6, <2>1, <2>3 DEF CopyWorth
    <3>3. QED
      BY <3>1, <3>2
  <2>4. QED
    BY <2>2, <2>3
<1>8. Alike(e, s, z, {<<"oq2", t>>, <<"copy", t>>, <<"iq2", 0>>})
  <2>1. \A u \in tiles : u # t => z.oq2[u] = s.oq2[u] /\ z.freq[u] = s.freq[u]
    BY <1>1, <1>2 DEF Now, Then, Typed
  <2>2. z.ret = s.ret /\ z.iq3 = s.iq3 /\ z.proxy = s.proxy
    BY <1>2 DEF Now, Then
  <2>3. QED
    BY <2>1, <2>2 DEF Alike
<1>9. PICK i, j, k : i = <<"oq2", t>> /\ j = <<"copy", t>> /\ k = <<"iq2", 0>>
  OBVIOUS
<1>10. PICK g \in Int : g = Worth(e, k, s) /\ g = Worth(e, k, z)
  <2>1. z.iq2 = s.iq2 /\ s.iq2 \in Seq(Message)
    BY <1>2, StateTypes DEF Now, Then
  <2>2. QED
    BY <1>9, <2>1, Worths, HeldType
<1>11. /\ Worth(e, i, s) = h /\ Worth(e, j, s) = c + b
       /\ Worth(e, i, z) = h + b /\ Worth(e, j, z) = c
  BY <1>4, <1>5, <1>6, <1>7, <1>9, Worths
<1>12. i \in Slots /\ j \in Slots /\ k \in Slots /\ i # j /\ i # k /\ j # k
  BY <1>9, SlotNames
<1>13. Alike(e, s, z, {i, j, k})
  BY <1>8, <1>9
<1>14. Worth(e, i, z) + Worth(e, j, z) + Worth(e, k, z) = Worth(e, i, s) + Worth(e, j, s) + Worth(e, k, s) + 0
  BY <1>10, <1>11
<1>15. QED
  BY <1>12, <1>13, <1>14, Balance

(* What task 3' takes from its queue is in its copy then, and an element   *)
(* whose line it takes is on its way to the owner.                         *)
LEMMA T3bisSums ==
  ASSUME CacheInv, APP = "HISTO", NEW t \in tiles, Runnable(t), T3bis(t), NEW s \in State, Now(s),
         NEW z \in State, Then(z), NEW e \in Elements
  PROVE  Total(e, z) = Total(e, s) + 0
<1>1. Typed /\ AllTagged
  BY DEF CacheInv
<1>2. PICK q \in Seq(Message) : q = iq3[t] /\ q # <<>>
  BY <1>1 DEF Typed, Runnable
<1>3. PICK m \in Message : m = Head(q)
  BY <1>2, HeadTailProperties
<1>4. PICK n \in Elements, x \in Nat : n = m.elem /\ x = m.value
  BY <1>3, MessageType
<1>5. PICK old \in Nat : old = Copy(t, n)
  BY <1>1, CopyType
<1>6. PICK v \in Nat : v = old + x
  OBVIOUS
<1>7. /\ Access(t, n, TRUE, v) /\ iq3' = [iq3 EXCEPT ![t] = Tail(q)] /\ UNCHANGED <<ret, iq2>>
      /\ proxy' = [proxy EXCEPT ![t][n] = v]
  <2>1. Combine(old, x) = v
    BY <1>6, Added
  <2>2. Access(t, n, TRUE, v) /\ iq3' = [iq3 EXCEPT ![t] = Tail(q)] /\ UNCHANGED <<ret, iq2>>
    BY <1>2, <1>3, <1>4, <1>5, <2>1 DEF T3bis
  <2>3. QED
    BY <2>2 DEF Access
<1>8. \/ Finds(t, n, <<>>)
      \/ \E l \in Lines : Takes(t, n, l, <<>>) \/ Evicts(t, n, l, <<>>)
  <2>1. WRITE_THROUGH # 1
    BY Sums
  <2>2. QED
    BY <1>1, <1>7, <2>1, AccessCases
<1>9. PICK a \in Int, b \in Int : a = Held(e, "iq3", t, z.iq3[t]) /\ b = Amount(m, e)
  BY <1>3, StateTypes, HeldType, AmountType
<1>10. Held(e, "iq3", t, s.iq3[t]) = a + b
  <2>1. s.iq3[t] = q /\ z.iq3[t] = Tail(q)
    BY <1>1, <1>2, <1>7 DEF Now, Then, Typed
  <2>2. QED
    BY <1>2, <1>3, <1>9, <2>1, HeldFirst
<1>11. PICK h \in Int, c \in Int, f \in Int :
         h = Held(e, "oq2", t, s.oq2[t]) /\ c = CopyWorth(e, t, s) /\ f = CopyWorth(e, t, z)
  BY StateTypes, HeldType, CopyWorths
<1>12. /\ z.proxy[t] = [s.proxy[t] EXCEPT ![n] = v] /\ \A u \in tiles : u # t => z.proxy[u] = s.proxy[u]
       /\ s.freq[t] \in [Elements -> {0, 1}] /\ s.proxy[t] \in [Elements -> Nat]
       /\ CopyWorth(n, t, s) = old
  BY <1>1, <1>5, <1>7, StateTypes, CopyNow DEF Now, Then, Typed
(* Element n: the update is added to the copy.                             *)
<1>13. ASSUME z.freq[t][n] = 1, e = n PROVE f = c + b
  <2>1. f = v
    BY <1>11, <1>12, <1>13 DEF CopyWorth
  <2>2. b = x /\ c = old
    BY <1>3, <1>4, <1>9, <1>11, <1>12, <1>13, AmountType
  <2>3. QED
    BY <1>6, <2>1, <2>2
<1>14. ASSUME z.freq[t][e] = s.freq[t][e], e # n PROVE f = c + b
  <2>1. f = c
    BY <1>11, <1>12, <1>14 DEF CopyWorth
  <2>2. b = 0
    BY <1>3, <1>4, <1>9, <1>14, AmountType
  <2>3. QED
    BY <2>1, <2>2
<1>15. PICK k \in Int : /\ Held(e, "oq2", t, z.oq2[t]) = h + k /\ c + b = f + k
                       /\ \A u \in tiles : u # t => z.oq2[u] = s.oq2[u] /\ z.freq[u] = s.freq[u]
  <2>1. PICK r \in Seq(Message) : r = oq2[t]
    BY <1>1 DEF Typed
  <2>2. r \o <<>> = r
    BY <2>1, ConcatProperties
  <2>3. CASE Finds(t, n, <<>>)
    <3>1. z.freq = s.freq /\ s.freq[t][n] = 1 /\ z.oq2 = s.oq2
      BY <1>1, <2>1, <2>2, <2>3 DEF Finds, Sends, Now, Then, Typed
    <3>2. f = c + b
      BY <1>13, <1>14, <3>1
    <3>3. Held(e, "oq2", t, z.oq2[t]) = h + 0 /\ c + b = f + 0
      BY <1>11, <3>1, <3>2
    <3>4. QED
      BY <3>1, <3>3
  <2>4. ASSUME NEW l \in Lines, Takes(t, n, l, <<>>)
        PROVE  \E k \in Int : /\ Held(e, "oq2", t, z.oq2[t]) = h + k /\ c + b = f + k
                              /\ \A u \in tiles : u # t => z.oq2[u] = s.oq2[u] /\ z.freq[u] = s.freq[u]
    <3>1. z.freq[t] = [s.freq[t] EXCEPT ![n] = 1] /\ z.oq2 = s.oq2
      BY <1>1, <2>1, <2>2, <2>4 DEF Takes, Sends, Now, Then, Typed
    <3>2. \A u \in tiles : u # t => z.freq[u] = s.freq[u]
      BY <1>1, <2>4 DEF Takes, Now, Then, Typed
    <3>3. f = c + b
      BY <1>12, <1>13, <1>14, <3>1
    <3>4. Held(e, "oq2", t, z.oq2[t]) = h + 0 /\ c + b = f + 0
      BY <1>11, <3>1, <3>3
    <3>5. QED
      BY <3>1, <3>2, <3>4
  <2>5. ASSUME NEW l \in Lines, Evicts(t, n, l, <<>>)
        PROVE  \E k \in Int : /\ Held(e, "oq2", t, z.oq2[t]) = h + k /\ c + b = f + k
                              /\ \A u \in tiles : u # t => z.oq2[u] = s.oq2[u] /\ z.freq[u] = s.freq[u]
    <3>1. PICK d \in Elements : d = tags[t][l]
      BY <1>1, <2>5 DEF Evicts, Typed
    <3>2. freq[t][d] = 1 /\ freq[t][n] = 0 /\ d # n
      BY <1>1, <2>5, <3>1 DEF Evicts, AllTagged, Tagged
    <3>3. PICK w \in Message : w = Update(d, proxy[t][d]) /\ w.elem = d /\ w.value = proxy[t][d]
      <4>1. proxy[t][d] \in Nat
        BY <1>1 DEF Typed
      <4>2. QED
        BY <4>1, UpdateType
    <3>4. PICK y \in Int : y = Amount(w, e)
      BY AmountType
    <3>5. /\ z.freq[t] = [[s.freq[t] EXCEPT ![d] = 0] EXCEPT ![n] = 1]
          /\ \A u \in tiles : u # t => z.freq[u] = s.freq[u]
      BY <1>1, <2>5, <3>1 DEF Evicts, Now, Then, Typed
    <3>6. z.oq2[t] = Append(r, w) /\ s.oq2[t] = r /\ \A u \in tiles : u # t => z.oq2[u] = s.oq2[u]
      <4>1. Writeback(t, d) = <<w>> /\ <<w>> \in Seq(Message)
        BY <3>3, Sums DEF Writeback
      <4>2. <<w>> \o <<>> = <<w>>
        BY <4>1, ConcatProperties
      <4>3. r \o <<w>> = Append(r, w)
        BY <2>1, <3>3, AppendIsConcat
      <4>4. oq2' = [oq2 EXCEPT ![t] = oq2[t] \o (Writeback(t, tags[t][l]) \o <<>>)]
        BY <2>5 DEF Evicts, Sends
      <4>5. oq2' = [oq2 EXCEPT ![t] = Append(r, w)]
        BY <2>1, <3>1, <4>1, <4>2, <4>3, <4>4
      <4>6. QED
        BY <1>1, <2>1, <4>5 DEF Now, Then, Typed
    <3>7. Held(e, "oq2", t, z.oq2[t]) = h + y
      BY <1>11, <2>1, <3>4, <3>6, HeldLast
    <3>8. c + b = f + y
      <4>1. CASE e = n
        <5>1. z.freq[t][n] = 1
          BY <1>12, <3>5
        <5>2. y = 0
          BY <3>2, <3>3, <3>4, <4>1, AmountType
        <5>3. QED
          BY <1>13, <4>1, <5>1, <5>2
      <4>2. CASE e = d
        <5>1. z.freq[t][e] = 0 /\ s.freq[t][e] = 1
          BY <1>12, <3>2, <3>5, <4>2 DEF Now
        <5>2. f = 0 /\ c = s.proxy[t][e]
          BY <1>11, <5>1 DEF CopyWorth
        <5>3. y = proxy[t][d]
          BY <3>3, <3>4, <4>2, AmountType
        <5>4. c = y
          BY <4>2, <5>2, <5>3 DEF Now
        <5>5. b = 0
          BY <1>3, <1>4, <1>9, <3>2, <4>2, AmountType
        <5>6. QED
          BY <5>2, <5>4, <5>5
      <4>3. CASE e # n /\ e # d
        <5>1. z.freq[t][e] = s.freq[t][e]
          BY <1>12, <3>5, <4>3
        <5>2. y = 0
          BY <3>3, <3>4, <4>3, AmountType
        <5>3. QED
          BY <1>14, <4>3, <5>1, <5>2
      <4>4. QED
        BY <4>1, <4>2, <4>3
    <3>9. QED
      BY <3>5, <3>6, <3>7, <3>8
  <2>6. QED
    BY <1>8, <2>3, <2>4, <2>5
<1>16. Alike(e, s, z, {<<"iq3", t>>, <<"oq2", t>>, <<"copy", t>>})
  <2>1. z.ret = s.ret /\ z.iq2 = s.iq2 /\ \A u \in tiles : u # t => z.iq3[u] = s.iq3[u]
    BY <1>1, <1>7 DEF Now, Then, Typed
  <2>2. QED
    BY <1>12, <1>15, <2>1 DEF Alike
<1>17. PICK i, j, o : i = <<"iq3", t>> /\ j = <<"oq2", t>> /\ o = <<"copy", t>>
  OBVIOUS
<1>18. /\ Worth(e, i, s) = a + b /\ Worth(e, j, s) = h /\ Worth(e, o, s) = c
       /\ Worth(e, i, z) = a /\ Worth(e, j, z) = h + k /\ Worth(e, o, z) = f
  BY <1>9, <1>10, <1>11, <1>15, <1>17, Worths
<1>19. i \in Slots /\ j \in Slots /\ o \in Slots /\ i # j /\ i # o /\ j # o
  BY <1>17, SlotNames
<1>20. Alike(e, s, z, {i, j, o})
  BY <1>16, <1>17
<1>21. Worth(e, i, z) + Worth(e, j, z) + Worth(e, o, z) = Worth(e, i, s) + Worth(e, j, s) + Worth(e, o, s) + 0
  <2>1. c + b = f + k
    BY <1>15
  <2>2. a + (h + k) + f = (a + b) + h + c + 0
    BY <2>1
  <2>3. QED
    BY <1>18, <2>2
<1>22. QED
  BY <1>19, <1>20, <1>21, Balance

(* The network moves the first update of tile t to another queue.          *)
LEMMA NetworkSums ==
  ASSUME Typed, APP = "HISTO", NEW t \in tiles, Arrive(t) \/ \E p \in tiles : Capture(t, p),
         NEW s \in State, Now(s), NEW z \in State, Then(z), NEW e \in Elements
  PROVE  Total(e, z) = Total(e, s) + 0
<1>1. /\ oq2[t] # <<>> /\ oq2' = [oq2 EXCEPT ![t] = Tail(oq2[t])]
      /\ UNCHANGED <<ret, cache>>
  BY DEF Arrive, Capture
<1>2. PICK q \in Seq(Message) : q = oq2[t] /\ q # <<>>
  BY <1>1 DEF Typed
<1>3. PICK m \in Message : m = Head(q)
  BY <1>2, HeadTailProperties
<1>4. PICK a \in Int, b \in Int : a = Held(e, "oq2", t, z.oq2[t]) /\ b = Amount(m, e)
  BY <1>3, StateTypes, HeldType, AmountType
<1>5. /\ Held(e, "oq2", t, s.oq2[t]) = a + b
      /\ \A u \in tiles : u # t => z.oq2[u] = s.oq2[u]
  <2>1. s.oq2[t] = q /\ z.oq2[t] = Tail(q) /\ \A u \in tiles : u # t => z.oq2[u] = s.oq2[u]
    BY <1>1, <1>2 DEF Now, Then, Typed
  <2>2. QED
    BY <1>2, <1>3, <1>4, <2>1, HeldFirst
<1>6. z.ret = s.ret /\ z.freq = s.freq /\ z.proxy = s.proxy
  BY <1>1 DEF Now, Then, cache
<1>7. PICK c \in Int : c = CopyWorth(e, t, s) /\ c = CopyWorth(e, t, z)
  BY <1>6, CopyWorths DEF CopyWorth
<1>8. PICK i, o : i = <<"oq2", t>> /\ o = <<"copy", t>>
  OBVIOUS
<1>9. /\ Worth(e, i, s) = a + b /\ Worth(e, i, z) = a
      /\ Worth(e, o, s) = c /\ Worth(e, o, z) = c
  BY <1>4, <1>5, <1>7, <1>8, Worths
<1>10. CASE Arrive(t)
  <2>1. PICK r \in Seq(Message) : r = s.iq2
    BY StateTypes
  <2>2. z.iq2 = Append(r, m) /\ z.iq3 = s.iq3
    BY <1>2, <1>3, <1>10, <2>1 DEF Arrive, Now, Then
  <2>3. PICK h \in Int : h = Held(e, "iq2", 0, r)
    BY HeldType
  <2>4. Held(e, "iq2", 0, z.iq2) = h + b
    BY <1>4, <2>2, <2>3, HeldLast
  <2>5. PICK j : j = <<"iq2", 0>>
    OBVIOUS
  <2>6. Worth(e, j, s) = h /\ Worth(e, j, z) = h + b
    BY <2>1, <2>3, <2>4, <2>5, Worths
  <2>7. Alike(e, s, z, {<<"oq2", t>>, <<"iq2", 0>>, <<"copy", t>>})
    BY <1>5, <1>6, <2>2 DEF Alike
  <2>8. i \in Slots /\ j \in Slots /\ o \in Slots /\ i # j /\ i # o /\ j # o
    BY <1>8, <2>5, SlotNames
  <2>9. Alike(e, s, z, {i, j, o})
    BY <1>8, <2>5, <2>7
  <2>10. Worth(e, i, z) + Worth(e, j, z) + Worth(e, o, z) = Worth(e, i, s) + Worth(e, j, s) + Worth(e, o, s) + 0
    BY <1>9, <2>6
  <2>11. QED
    BY <2>8, <2>9, <2>10, Balance
<1>11. CASE \E p \in tiles : Capture(t, p)
  <2>1. PICK p \in tiles : Capture(t, p)
    BY <1>11
  <2>2. PICK r \in Seq(Message) : r = s.iq3[p]
    BY StateTypes
  <2>3. z.iq3[p] = Append(r, m) /\ z.iq2 = s.iq2 /\ \A u \in tiles : u # p => z.iq3[u] = s.iq3[u]
    BY <1>2, <1>3, <2>1, <2>2 DEF Capture, Now, Then, Typed
  <2>4. PICK h \in Int : h = Held(e, "iq3", p, r)
    BY HeldType
  <2>5. Held(e, "iq3", p, z.iq3[p]) = h + b
    BY <1>4, <2>3, <2>4, HeldLast
  <2>6. PICK j : j = <<"iq3", p>>
    OBVIOUS
  <2>7. Worth(e, j, s) = h /\ Worth(e, j, z) = h + b
    BY <2>2, <2>4, <2>5, <2>6, Worths
  <2>8. Alike(e, s, z, {<<"oq2", t>>, <<"iq3", p>>, <<"copy", t>>})
    BY <1>5, <1>6, <2>3 DEF Alike
  <2>9. i \in Slots /\ j \in Slots /\ o \in Slots /\ i # j /\ i # o /\ j # o
    BY <1>8, <2>6, SlotNames
  <2>10. Alike(e, s, z, {i, j, o})
    BY <1>8, <2>6, <2>8
  <2>11. Worth(e, i, z) + Worth(e, j, z) + Worth(e, o, z) = Worth(e, i, s) + Worth(e, j, s) + Worth(e, o, s) + 0
    BY <1>9, <2>7
  <2>12. QED
    BY <2>9, <2>10, <2>11, Balance
<1>12. QED
  BY <1>10, <1>11

(* What the application sends is added.                                    *)
LEMMA SendSums ==
  ASSUME Typed, APP = "HISTO", NEW t \in tiles, NEW n \in Elements, NEW v \in Values, Send(t, n, v),
         NEW s \in State, Now(s), NEW z \in State, Then(z), NEW e \in Elements
  PROVE  /\ Total(e, z) = Total(e, s) + Amount(Update(n, v), e)
         /\ sent'[e] = sent[e] + Amount(Update(n, v), e)
<1>1. PICK m \in Message : m = Update(n, v) /\ m.elem = n /\ m.value = v
  BY Constants, UpdateType
<1>2. PICK b \in Int : b = Amount(m, e)
  BY AmountType
<1>3. sent'[e] = sent[e] + b
  <2>1. PICK y \in Int : y = sent[e]
    BY DEF Typed
  <2>2. sent' = [sent EXCEPT ![n] = sent[n] + v]
    <3>1. Combine(sent[n], v) = sent[n] + v
      BY Added
    <3>2. QED
      BY <3>1 DEF Send
  <2>3. CASE e = n
    BY <1>1, <1>2, <2>2, <2>3, AmountType DEF Typed
  <2>4. CASE e # n
    <3>1. b = 0 /\ sent'[e] = y
      BY <1>1, <1>2, <2>1, <2>2, <2>4, AmountType DEF Typed
    <3>2. QED
      BY <2>1, <3>1
  <2>5. QED
    BY <2>3, <2>4
<1>4. z.ret = s.ret /\ z.freq = s.freq /\ z.proxy = s.proxy /\ z.iq2 = s.iq2
  BY DEF Send, Now, Then, cache
<1>5. PICK c \in Int : c = CopyWorth(e, t, s) /\ c = CopyWorth(e, t, z)
  BY <1>4, CopyWorths DEF CopyWorth
<1>6. PICK a \in Int, h \in Int : a = Held(e, "iq3", t, s.iq3[t]) /\ h = Held(e, "oq2", t, s.oq2[t])
  BY StateTypes, HeldType
<1>7. PICK x \in Int, y \in Int : /\ Held(e, "iq3", t, z.iq3[t]) = x /\ Held(e, "oq2", t, z.oq2[t]) = y
                                /\ x + y = a + h + b
                                /\ \A u \in tiles : u # t => z.oq2[u] = s.oq2[u] /\ z.iq3[u] = s.iq3[u]
  <2>1. CASE iq3' = [iq3 EXCEPT ![t] = Append(@, Update(n, v))] /\ UNCHANGED oq2
    <3>1. PICK r \in Seq(Message) : r = s.iq3[t]
      BY StateTypes
    <3>2. /\ z.iq3[t] = Append(r, m) /\ z.oq2 = s.oq2 /\ \A u \in tiles : u # t => z.iq3[u] = s.iq3[u]
      BY <1>1, <2>1, <3>1 DEF Now, Then, Typed
    <3>3. Held(e, "iq3", t, z.iq3[t]) = a + b
      BY <1>2, <1>6, <3>1, <3>2, HeldLast
    <3>4. Held(e, "oq2", t, z.oq2[t]) = h /\ (a + b) + h = a + h + b /\ a + b \in Int
      BY <1>6, <3>2
    <3>5. QED
      BY <3>2, <3>3, <3>4
  <2>2. CASE oq2[t] = <<>> /\ oq2' = [oq2 EXCEPT ![t] = <<Update(n, v)>>] /\ UNCHANGED iq3
    <3>1. s.oq2[t] = <<>> /\ z.oq2[t] = <<m>> /\ z.iq3 = s.iq3 /\ \A u \in tiles : u # t => z.oq2[u] = s.oq2[u]
      BY <1>1, <2>2 DEF Now, Then, Typed
    <3>2. h = 0
      BY <1>6, <3>1, HeldNone
    <3>3. <<>> \in Seq(Message) /\ Append(<<>>, m) = <<m>>
      OBVIOUS
    <3>4. Held(e, "oq2", t, Append(<<>>, m)) = Held(e, "oq2", t, <<>>) + b
      BY <1>2, <3>3, HeldLast
    <3>5. Held(e, "oq2", t, z.oq2[t]) = h + b
      BY <1>6, <3>1, <3>3, <3>4
    <3>6. Held(e, "iq3", t, z.iq3[t]) = a /\ a + (h + b) = a + h + b /\ h + b \in Int
      BY <1>6, <3>1
    <3>7. QED
      BY <3>1, <3>5, <3>6
  <2>3. QED
    BY <2>1, <2>2 DEF Send
<1>8. Alike(e, s, z, {<<"iq3", t>>, <<"oq2", t>>, <<"copy", t>>})
  BY <1>4, <1>7 DEF Alike
<1>9. PICK i, j, o : i = <<"iq3", t>> /\ j = <<"oq2", t>> /\ o = <<"copy", t>>
  OBVIOUS
<1>10. /\ Worth(e, i, s) = a /\ Worth(e, j, s) = h /\ Worth(e, o, s) = c
       /\ Worth(e, i, z) = x /\ Worth(e, j, z) = y /\ Worth(e, o, z) = c
  BY <1>5, <1>6, <1>7, <1>9, Worths
<1>11. i \in Slots /\ j \in Slots /\ o \in Slots /\ i # j /\ i # o /\ j # o
  BY <1>9, SlotNames
<1>12. Alike(e, s, z, {i, j, o})
  BY <1>8, <1>9
<1>13. Worth(e, i, z) + Worth(e, j, z) + Worth(e, o, z) = Worth(e, i, s) + Worth(e, j, s) + Worth(e, o, s) + b
  <2>1. x + y = a + h + b
    BY <1>7
  <2>2. x + y + c = a + h + c + b
    BY <2>1
  <2>3. QED
    BY <1>10, <2>2
<1>14. Total(e, z) = Total(e, s) + b
  BY <1>11, <1>12, <1>13, Balance
<1>15. QED
  BY <1>1, <1>2, <1>3, <1>14
-----------------------------------------------------------------------------
(* Parts(e), in a state s.                                                 *)
PartsIn(e, s) ==
  {<<"owner", 0, 0, s.ret[e]>>} \union PartsOf(e, "iq2", 0, s.iq2)
  \union (UNION {PartsOf(e, "iq3", t, s.iq3[t]) \union PartsOf(e, "oq2", t, s.oq2[t]) : t \in tiles})
  \union {<<"copy", t, 0, s.proxy[t][e]>> : t \in {u \in tiles : s.freq[u][e] > 0}}

LEMMA PartsNow ==
  ASSUME NEW e, NEW s, Now(s)
  PROVE  Parts(e) = PartsIn(e, s)
BY DEF Now, Parts, PartsIn, PartsOf

LEMMA PartsThen ==
  ASSUME NEW e, NEW z, Then(z)
  PROVE  Parts(e)' = PartsIn(e, z)
BY DEF Then, Parts, PartsIn, PartsOf

LEMMA PartsAreContent ==
  ASSUME NEW e \in Elements, NEW s \in State
  PROVE  PartsIn(e, s) = Content(e, Slots, s)
<1>1. ASSUME NEW p
      PROVE  p \in PartsIn(e, s) <=>
               \/ p = <<"owner", 0, 0, s.ret[e]>> \/ p \in PartsOf(e, "iq2", 0, s.iq2)
               \/ \E t \in tiles : \/ p \in PartsOf(e, "iq3", t, s.iq3[t])
                                   \/ p \in PartsOf(e, "oq2", t, s.oq2[t])
                                   \/ p \in CopyPart(e, t, s)
  <2> DEFINE Q == UNION {PartsOf(e, "iq3", t, s.iq3[t]) \union PartsOf(e, "oq2", t, s.oq2[t]) : t \in tiles}
             C == {<<"copy", t, 0, s.proxy[t][e]>> : t \in {u \in tiles : s.freq[u][e] > 0}}
  <2>1. p \in Q <=> \E t \in tiles : p \in PartsOf(e, "iq3", t, s.iq3[t]) \/ p \in PartsOf(e, "oq2", t, s.oq2[t])
    OBVIOUS
  <2>2. p \in C <=> \E t \in tiles : p \in CopyPart(e, t, s)
    BY DEF CopyPart
  <2>3. PartsIn(e, s) = {<<"owner", 0, 0, s.ret[e]>>} \union PartsOf(e, "iq2", 0, s.iq2) \union Q \union C
    BY DEF PartsIn
  <2> HIDE DEF Q, C
  <2>4. QED
    BY <2>1, <2>2, <2>3
<1>2. ASSUME NEW p \in PartsIn(e, s) PROVE p \in Content(e, Slots, s)
  <2>1. ASSUME NEW k \in Slots, p \in Slot(e, k, s) PROVE p \in Content(e, Slots, s)
    BY <2>1 DEF Content
  <2>2. CASE p = <<"owner", 0, 0, s.ret[e]>>
    <3>1. p \in Slot(e, <<"owner", 0>>, s)
      BY <2>2 DEF Slot
    <3>2. QED
      BY <2>1, <3>1, SlotNames
  <2>3. CASE p \in PartsOf(e, "iq2", 0, s.iq2)
    <3>1. p \in Slot(e, <<"iq2", 0>>, s)
      BY <2>3 DEF Slot
    <3>2. QED
      BY <2>1, <3>1, SlotNames
  <2>4. ASSUME NEW t \in tiles,
               \/ p \in PartsOf(e, "iq3", t, s.iq3[t]) \/ p \in PartsOf(e, "oq2", t, s.oq2[t])
               \/ p \in CopyPart(e, t, s)
        PROVE  p \in Content(e, Slots, s)
    <3>1. \/ p \in Slot(e, <<"iq3", t>>, s) \/ p \in Slot(e, <<"oq2", t>>, s)
          \/ p \in Slot(e, <<"copy", t>>, s)
      BY <2>4 DEF Slot
    <3>2. QED
      BY <2>1, <3>1, SlotNames
  <2>5. QED
    BY <1>1, <2>2, <2>3, <2>4
<1>3. ASSUME NEW p \in Content(e, Slots, s) PROVE p \in PartsIn(e, s)
  <2>1. PICK k \in Slots : p \in Slot(e, k, s)
    BY DEF Content
  <2>2. CASE k = <<"owner", 0>>
    <3>1. p = <<"owner", 0, 0, s.ret[e]>>
      BY <2>1, <2>2 DEF Slot
    <3>2. QED
      BY <1>1, <3>1
  <2>3. CASE k = <<"iq2", 0>>
    <3>1. p \in PartsOf(e, "iq2", 0, s.iq2)
      BY <2>1, <2>3 DEF Slot
    <3>2. QED
      BY <1>1, <3>1
  <2>4. ASSUME NEW t \in tiles, k = <<"iq3", t>> \/ k = <<"oq2", t>> \/ k = <<"copy", t>>
        PROVE  p \in PartsIn(e, s)
    <3>1. \/ p \in PartsOf(e, "iq3", t, s.iq3[t]) \/ p \in PartsOf(e, "oq2", t, s.oq2[t])
          \/ p \in CopyPart(e, t, s)
      BY <2>1, <2>4 DEF Slot
    <3>2. QED
      BY <1>1, <3>1
  <2>5. QED
    BY <2>2, <2>3, <2>4, SlotCases
<1>4. QED
  BY <1>2, <1>3

LEMMA ConservedNow ==
  ASSUME APP = "HISTO", NEW s \in State, Now(s)
  PROVE  UpdatesConserved <=> \A e \in Elements : sent[e] = Total(e, s)
<1>1. UpdatesConserved <=> \A e \in Elements : sent[e] = SumParts(Parts(e))
  BY DEF UpdatesConserved, SumParts
<1>2. \A e \in Elements : SumParts(Parts(e)) = Total(e, s)
  BY PartsNow, PartsAreContent DEF Total
<1>3. QED
  BY <1>1, <1>2

LEMMA ConservedThen ==
  ASSUME APP = "HISTO", NEW z \in State, Then(z)
  PROVE  (UpdatesConserved') <=> \A e \in Elements : sent'[e] = Total(e, z)
<1>1. (UpdatesConserved') <=> \A e \in Elements : sent'[e] = SumParts(Parts(e)')
  BY DEF UpdatesConserved, SumParts, MapThenSumSet, MapThenFoldSet
<1>2. \A e \in Elements : SumParts(Parts(e)') = Total(e, z)
  BY PartsThen, PartsAreContent DEF Total
<1>3. QED
  BY <1>1, <1>2

LEMMA TotalType ==
  ASSUME NEW e \in Elements, NEW s \in State
  PROVE  Total(e, s) \in Int
<1>1. PICK k \in Slots : k = <<"owner", 0>>
  BY SlotNames
<1>2. /\ Total(e, s) = Worth(e, k, s) + SumParts(Content(e, Slots \ {k}, s))
      /\ Worth(e, k, s) \in Int /\ SumParts(Content(e, Slots \ {k}, s)) \in Int
  BY CountedApart DEF Total
<1>3. QED
  BY <1>2

(* At first nothing is sent and no part is anything but the owner's 0.     *)
LEMMA NoSums ==
  ASSUME APP = "HISTO", Init
  PROVE  UpdatesConserved
<1>1. SUFFICES ASSUME NEW e \in Elements PROVE sent[e] = SumParts(Parts(e))
  BY DEF UpdatesConserved, SumParts
<1>2. /\ ret[e] = 0 /\ sent[e] = 0 /\ iq2 = <<>>
      /\ \A t \in tiles : iq3[t] = <<>> /\ oq2[t] = <<>> /\ freq[t][e] = 0
  BY Sums DEF Init
<1>3. \A name, t : PartsOf(e, name, t, <<>>) = {}
  BY DEF PartsOf
<1>4. PICK x : x = <<"owner", 0, 0, ret[e]>>
  OBVIOUS
<1>5. \A p : p \in Parts(e) <=> p = x
  BY <1>2, <1>3, <1>4, PartsAre
<1>6. Parts(e) = {x} /\ x[4] = 0
  BY <1>2, <1>4, <1>5
<1>7. SumParts({x}) = x[4]
  BY <1>6, SumOfOne
<1>8. QED
  BY <1>2, <1>6, <1>7

LEMMA SumsStayKept ==
  ASSUME APP = "HISTO", CacheInv, CacheInv', UpdatesConserved, [Next]_vars
  PROVE  UpdatesConserved'
<1>1. Typed /\ Typed'
  BY DEF CacheInv
<1>2. PICK s \in State : Now(s)
  BY <1>1, NowIs
<1>3. PICK z \in State : Then(z)
  BY <1>1, ThenIs
<1>4. SUFFICES ASSUME NEW e \in Elements PROVE sent'[e] = Total(e, z)
  BY <1>3, ConservedThen
<1>5. PICK n \in Int : n = Total(e, s) /\ n = sent[e]
  BY <1>2, TotalType, ConservedNow
<1>6. ASSUME Total(e, z) = Total(e, s) + 0, sent' = sent PROVE sent'[e] = Total(e, z)
  <2>1. n + 0 = n
    OBVIOUS
  <2>2. QED
    BY <1>5, <1>6, <2>1
<1>7. ASSUME NEW t \in tiles, T3Next(t), T3, UNCHANGED app PROVE sent'[e] = Total(e, z)
  <2>1. iq2 # <<>>
    BY <1>7 DEF T3Next
  <2>2. QED
    BY <1>1, <1>2, <1>3, <1>6, <1>7, <2>1, T3Sums DEF app
<1>8. ASSUME NEW t \in tiles, Runnable(t), T3bis(t), UNCHANGED app PROVE sent'[e] = Total(e, z)
  BY <1>2, <1>3, <1>6, <1>8, T3bisSums DEF app
<1>9. ASSUME NEW t \in tiles, Drain(t), UNCHANGED app PROVE sent'[e] = Total(e, z)
  BY <1>2, <1>3, <1>6, <1>9, DrainSums DEF app
<1>10. ASSUME NEW t \in tiles, Arrive(t) \/ \E p \in tiles : Capture(t, p) PROVE sent'[e] = Total(e, z)
  <2>1. sent' = sent
    BY <1>10 DEF Arrive, Capture, app
  <2>2. QED
    BY <1>1, <1>2, <1>3, <1>6, <1>10, <2>1, NetworkSums
<1>11. ASSUME NEW t \in tiles, NEW d \in Elements, NEW v \in Values, Send(t, d, v) PROVE sent'[e] = Total(e, z)
  <2>1. /\ Total(e, z) = Total(e, s) + Amount(Update(d, v), e)
        /\ sent'[e] = sent[e] + Amount(Update(d, v), e)
    BY <1>1, <1>2, <1>3, <1>11, SendSums
  <2>2. QED
    BY <1>5, <2>1
<1>12. CASE EndEpoch \/ (\E t \in tiles : T4(t)) \/ UNCHANGED vars
  <2>1. UNCHANGED <<ret, cache, iq2, iq3, oq2, app>>
    BY <1>12 DEF EndEpoch, T4, vars
  <2>2. Parts(e)' = Parts(e) /\ sent' = sent
    <3>1. Now(s) /\ Then(z) /\ Now(z)
      BY <1>2, <1>3, <2>1 DEF Now, Then, cache
    <3>2. QED
      BY <2>1, <3>1, PartsNow, PartsThen DEF app
  <2>3. Total(e, z) = Total(e, s)
    BY <1>2, <1>3, <2>2, PartsNow, PartsThen, PartsAreContent DEF Total
  <2>4. QED
    BY <1>5, <2>2, <2>3
<1>13. QED
  BY <1>7, <1>8, <1>9, <1>10, <1>11, <1>12, NextCases

(* Every update that is sent is added into a copy, carried off with it by  *)
(* an eviction or a drain, taken into the copy of a proxy on the way, and  *)
(* added at the owner, once: at any time the parts in queues, valid copies *)
(* and the owner's value add up to what was sent (task 3 and task 3' of    *)
(* histo.h, check_pcache and drain_pcache).                                *)
THEOREM SumsKept == APP = "HISTO" => (Spec => []UpdatesConserved)
<1> SUFFICES ASSUME APP = "HISTO" PROVE Spec => []UpdatesConserved
  OBVIOUS
<1>1. Init => UpdatesConserved
  BY NoSums
<1>2. CacheInv /\ CacheInv' /\ UpdatesConserved /\ [Next]_vars => UpdatesConserved'
  BY SumsStayKept
<1>3. QED
  BY CacheInvAlways, <1>1, <1>2, PTL DEF Spec

(* For sums and for minima, so for every application the caches serve.     *)
THEOREM UpdatesAreKept == Spec => []UpdatesConserved
<1>1. APP = "HISTO" \/ APP = "SSSP"
  BY ProxyAssumption
<1>2. QED
  BY <1>1, SumsKept, MinimaKept
==============================================================================
