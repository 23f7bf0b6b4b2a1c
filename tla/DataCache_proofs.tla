-------------------------- MODULE DataCache_proofs --------------------------
(***************************************************************************)
(* Proofs about the data cache for any number of tiles, lines and sets and *)
(* any layout of the arrays, when one thread runs the tasks.               *)
(***************************************************************************)
EXTENDS DataCache, FiniteSetTheorems, NaturalsInduction, TLAPS

(* A simulation that runs with one worker thread.                          *)
OneThread == \A t, u \in Threads : t = u

(* What keeps OneHolder true with one thread, in named parts.              *)
Holds(c, l) == dcache_tags[c][set_id_dcache(l)] = l
Busy == {"count", "store", "check", "evict", "insert"}

Work ==
  {Idle}
  \union [pc : {"count", "check", "evict", "aborted"}, tile : Tiles, line : Lines]
  \union [pc : {"store"}, tile : Tiles, line : Lines, trans : Nat]
  \union [pc : {"insert"}, tile : Tiles, line : Lines, back : BOOLEAN,
          trans : Nat, wbs : Nat, freq : 0 .. 2]

Types ==
  /\ dcache_freq \in [Lines -> 0 .. 2]
  /\ dcache_tags \in [Tiles -> [0 .. SETS - 1 -> Lines \union {EMPTY}]]
  /\ mc_transactions \in [Channels -> Nat]
  /\ mc_writebacks \in [Channels -> Nat]
  /\ worker \in [Threads -> Work]

(* A line is kept in its own set, and by one tile.                         *)
InPlace == \A c \in Tiles, s \in 0 .. SETS - 1 :
             dcache_tags[c][s] /= EMPTY => set_id_dcache(dcache_tags[c][s]) = s
Unique == \A l \in Lines, c, d \in Tiles : Holds(c, l) /\ Holds(d, l) => c = d

(* A line that is held is valid, unless it is the victim of an access that *)
(* has not yet put its own line in the place; a valid line is held.        *)
Leaving(c, l) == \E t \in Threads : /\ worker[t].pc = "insert" /\ worker[t].tile = c
                                   /\ set_id_dcache(worker[t].line) = set_id_dcache(l)
HeldValid == \A l \in Lines, c \in Tiles : Holds(c, l) => (dcache_freq[l] > 0 <=> ~Leaving(c, l))
ValidHeld == \A l \in Lines : dcache_freq[l] > 0 => \E c \in Tiles : Holds(c, l)

(* A line is absent as long as it is being fetched.                        *)
Missing == \A t \in Threads :
  /\ worker[t].pc /= "aborted"
  /\ worker[t].pc \in Busy => dcache_freq[worker[t].line] = 0
  /\ worker[t].pc = "insert" => worker[t].freq = 0

CacheInv == Types /\ InPlace /\ Unique /\ HeldValid /\ ValidHeld /\ Missing

(* What tasks have yet to do.  A result is stored right after its access,  *)
(* also when a part of the task is done.                                   *)
Kinds == IF BY_ADDRESS THEN {"look", "put"} ELSE {"look", "write"}
Ops == [op : Kinds, tile : Tiles, word : 0 .. FOOTPRINT - 1]
Result(o) == o.op = "put" /\ o.word < NODES
Follows(s) == \A k \in DOMAIN s : Result(s[k]) => k > 1 /\ s[k - 1] = Look(s[k].tile, s[k].word)
Paired(s) == \A k \in DOMAIN s : k > 1 /\ Result(s[k]) => s[k - 1] = Look(s[k].tile, s[k].word)
Frontier == [tail : Nat, blocks : Seq(0 .. bitmap_len - 1)]

TaskInv ==
  /\ todo \in [Threads -> Seq(Ops)]
  /\ frontier_list \in [Tiles -> Frontier]
  /\ \A t \in Threads : Paired(todo[t])

-----------------------------------------------------------------------------
(* A word of the data set is on a line.                                    *)
LEMMA LineOfWord ==
  ASSUME NEW word \in 0 .. FOOTPRINT - 1
  PROVE  cache_tag(word) \in Lines
<1>1. LINE_WORDS \in Nat /\ LINE_WORDS > 0 /\ FOOTPRINT \in Nat
  BY DataCacheAssumption
<1>2. \A m, n \in Nat : m <= n => m \div LINE_WORDS \in Nat /\ m \div LINE_WORDS <= n \div LINE_WORDS
  BY <1>1
<1>3. word \in Nat /\ FOOTPRINT - 1 \in Nat /\ word <= FOOTPRINT - 1
  BY <1>1
<1>4. QED
  BY <1>2, <1>3 DEF cache_tag, Lines

(* An element, and the rest, of a sequence.                                *)
LEMMA InSequence ==
  ASSUME NEW S, NEW s \in Seq(S), NEW k \in 1 .. Len(s)
  PROVE  s[k] \in S
OBVIOUS

LEMMA RestOfSequence ==
  ASSUME NEW S, NEW s \in Seq(S), NEW m \in Nat
  PROVE  SubSeq(s, m + 1, Len(s)) \in Seq(S)
<1>1. Len(s) \in Nat /\ \A k \in m + 1 .. Len(s) : k \in 1 .. Len(s)
  OBVIOUS
<1>2. QED
  BY <1>1

(* Words of an array, of the bitmap and of the list are in the data set,   *)
(* and the frontier is behind the results.                                 *)
LEMMA WordOfArray ==
  ASSUME NEW c \in Tiles, NEW a \in ARRAYS \union {ret}, NEW i \in Own(a, c)
  PROVE  a.base + i \in 0 .. FOOTPRINT - 1
<1>1. /\ a.base \in Nat /\ a.len \in Nat /\ a.per_tile \in Nat /\ c \in Nat
      /\ a.base + a.len <= FOOTPRINT /\ FOOTPRINT \in Nat
  BY DataCacheAssumption DEF ret
<1>2. i \in Int /\ c * a.per_tile <= i /\ i < a.len
  BY <1>1 DEF Own
<1>3. c * a.per_tile \in Nat
  BY <1>1
<1>4. QED
  BY <1>1, <1>2, <1>3

LEMMA WordOfResult ==
  ASSUME NEW c \in Tiles, NEW n \in Own(ret, c)
  PROVE  n \in 0 .. FOOTPRINT - 1
<1>1. ret.base + n \in 0 .. FOOTPRINT - 1
  BY WordOfArray
<1>2. ret.base = 0
  BY DEF ret
<1>3. n \in Int
  BY DEF Own
<1>4. QED
  BY <1>1, <1>2, <1>3

LEMMA WordOfBitmap ==
  ASSUME NEW c \in Tiles, NEW b \in 0 .. bitmap_len - 1
  PROVE  bitmap(c, b) \in 0 .. FOOTPRINT - 1 /\ bitmap(c, b) >= NODES
<1>1. c \in Nat /\ bitmap_len \in Nat /\ FRONTIER_BASE \in Nat /\ NODES \in Nat /\ FOOTPRINT \in Nat
      /\ NODES <= FRONTIER_BASE /\ bitmap_len > 0
  BY DataCacheAssumption
<1>2. PICK m \in Nat : m = c * bitmap_len
  BY <1>1
<1>3. FRONTIER_BASE + m + bitmap_len <= FOOTPRINT
  BY <1>1, <1>2, DataCacheAssumption DEF bitmap
<1>4. bitmap(c, b) = FRONTIER_BASE + m + b
  BY <1>2 DEF bitmap
<1>5. QED
  BY <1>1, <1>3, <1>4

LEMMA WordOfList ==
  ASSUME bitmap_len > 0, NEW c \in Tiles, NEW place \in 0 .. tail
  PROVE  list(c, place) \in 0 .. FOOTPRINT - 1 /\ list(c, place) >= NODES
<1>1. c \in Nat /\ bitmap_len \in Nat /\ FRONTIER_BASE \in Nat /\ NODES \in Nat /\ FOOTPRINT \in Nat
      /\ NODES <= FRONTIER_BASE /\ fr_head_offset \in Nat /\ Cardinality(Tiles) \in Nat
  BY DataCacheAssumption, FS_CardinalityType
<1>2. PICK m \in Nat : m = Cardinality(Tiles) * bitmap_len
  BY <1>1
<1>3. PICK n \in Nat : n = c * (fr_head_offset + 3)
  BY <1>1
<1>4. list(c, tail) < FOOTPRINT
  BY DataCacheAssumption
<1>5. list(c, tail) = FRONTIER_BASE + m + n + tail /\ list(c, place) = FRONTIER_BASE + m + n + place
  BY <1>2, <1>3 DEF list
<1>6. tail \in Nat
  BY <1>1 DEF tail
<1>7. QED
  BY <1>1, <1>4, <1>5, <1>6

LEMMA PlaceInList ==
  ASSUME TaskInv, bitmap_len > 0, NEW c \in Tiles, NEW k \in Nat
  PROVE  Place(c, k) \in 0 .. tail /\ Place(c, k) \in Nat /\ head \in 0 .. tail
<1>1. fr_head_offset \in Nat /\ fr_head_offset > 0 /\ frontier_list[c].tail \in Nat
  BY DataCacheAssumption DEF TaskInv, Frontier
<1>2. \A m \in Nat : (m % fr_head_offset) \in 0 .. fr_head_offset - 1
  BY <1>1
<1>3. QED
  BY <1>1, <1>2 DEF Place, head, tail

-----------------------------------------------------------------------------
(* Single accesses and stores, and the tasks put together from them: what  *)
(* they are about is in the data set, and a result is stored right after   *)
(* its access.                                                             *)
LEMMA Single ==
  ASSUME NEW o \in Ops, ~Result(o)
  PROVE  <<o>> \in Seq(Ops) /\ Follows(<<o>>)
BY DEF Follows

LEMMA Joined ==
  ASSUME NEW s \in Seq(Ops), NEW u \in Seq(Ops), Follows(s), Follows(u)
  PROVE  s \o u \in Seq(Ops) /\ Follows(s \o u)
<1>1. s \o u \in Seq(Ops) /\ Len(s \o u) = Len(s) + Len(u) /\ Len(s) \in Nat /\ Len(u) \in Nat
  OBVIOUS
<1>2. \A k \in 1 .. Len(s) + Len(u) : (s \o u)[k] = IF k <= Len(s) THEN s[k] ELSE u[k - Len(s)]
  OBVIOUS
<1>3. ASSUME NEW k \in 1 .. Len(s) + Len(u), Result((s \o u)[k])
      PROVE  k > 1 /\ (s \o u)[k - 1] = Look((s \o u)[k].tile, (s \o u)[k].word)
  <2>1. CASE k <= Len(s)
    <3>1. (s \o u)[k] = s[k] /\ k \in DOMAIN s
      BY <1>1, <1>2, <2>1
    <3>2. k > 1 /\ s[k - 1] = Look(s[k].tile, s[k].word)
      BY <1>3, <3>1 DEF Follows
    <3>3. (s \o u)[k - 1] = s[k - 1]
      BY <1>1, <1>2, <2>1, <3>2
    <3>4. QED
      BY <3>1, <3>2, <3>3
  <2>2. CASE k > Len(s)
    <3> DEFINE j == k - Len(s)
    <3>1. (s \o u)[k] = u[j] /\ j \in DOMAIN u
      BY <1>1, <1>2, <2>2
    <3>2. j > 1 /\ u[j - 1] = Look(u[j].tile, u[j].word)
      BY <1>3, <3>1 DEF Follows
    <3>3. (s \o u)[k - 1] = u[j - 1]
      <4>1. k - 1 \in 1 .. Len(s) + Len(u) /\ k - 1 > Len(s) /\ k - 1 - Len(s) = j - 1
        BY <1>1, <2>2, <3>2
      <4>2. QED
        BY <1>2, <4>1
    <3>4. k > 1
      BY <1>1, <3>2
    <3>5. QED
      BY <3>1, <3>2, <3>3, <3>4
  <2>3. QED
    BY <1>1, <2>1, <2>2
<1>4. DOMAIN (s \o u) = 1 .. Len(s) + Len(u)
  BY <1>1
<1>5. QED
  BY <1>1, <1>3, <1>4 DEF Follows

LEMMA LookPut ==
  ASSUME BY_ADDRESS, NEW c \in Tiles, NEW n \in 0 .. FOOTPRINT - 1
  PROVE  <<Look(c, n), Put(c, n)>> \in Seq(Ops) /\ Follows(<<Look(c, n), Put(c, n)>>)
<1>1. Look(c, n) \in Ops /\ Put(c, n) \in Ops
  BY DEF Look, Put, Op, Ops, Kinds
<1>2. ~Result(Look(c, n)) /\ Put(c, n).tile = c /\ Put(c, n).word = n
  BY DEF Look, Put, Op, Result
<1>3. QED
  BY <1>1, <1>2 DEF Follows

(* A word of the frontier is no result.                                    *)
LEMMA FrontierOps ==
  ASSUME BY_ADDRESS, NEW c \in Tiles, NEW word \in 0 .. FOOTPRINT - 1, word >= NODES
  PROVE  /\ Look(c, word) \in Ops /\ Put(c, word) \in Ops
         /\ ~Result(Look(c, word)) /\ ~Result(Put(c, word))
BY DataCacheAssumption DEF Look, Put, Op, Ops, Kinds, Result

LEMMA BlockOfNode ==
  ASSUME bitmap_len > 0, NEW n \in Nat
  PROVE  block(n) \in 0 .. bitmap_len - 1
<1>1. bitmap_len \in Nat /\ RET_PER_TILE \in Nat /\ RET_PER_TILE > 0 /\ RET_PER_TILE <= 32 * bitmap_len
  BY DataCacheAssumption
<1>2. PICK m \in Nat : m = n % RET_PER_TILE /\ m < RET_PER_TILE
  BY <1>1
<1>3. m \div 32 \in 0 .. bitmap_len - 1
  BY <1>1, <1>2
<1>4. QED
  BY <1>2, <1>3 DEF block

LEMMA Adding ==
  ASSUME TaskInv, BY_ADDRESS, bitmap_len > 0, NEW c \in Tiles, NEW n \in Nat
  PROVE  add_to_frontier(c, n) \in Seq(Ops) /\ Follows(add_to_frontier(c, n))
<1> DEFINE word == bitmap(c, block(n))
           place == Place(c, Len(frontier_list[c].blocks))
<1>1. word \in 0 .. FOOTPRINT - 1 /\ word >= NODES
  BY BlockOfNode, WordOfBitmap
<1>2. Len(frontier_list[c].blocks) \in Nat
  BY DEF TaskInv, Frontier
<1>3. place \in 0 .. tail /\ head \in 0 .. tail
  BY <1>2, PlaceInList
<1>4. /\ list(c, place) \in 0 .. FOOTPRINT - 1 /\ list(c, place) >= NODES
      /\ list(c, head) \in 0 .. FOOTPRINT - 1 /\ list(c, head) >= NODES
  <2> HIDE DEF place
  <2>1. QED
    BY <1>3, WordOfList
<1>5. <<Look(c, word)>> \in Seq(Ops) /\ Follows(<<Look(c, word)>>)
      /\ <<Put(c, word)>> \in Seq(Ops) /\ Follows(<<Put(c, word)>>)
  <2> HIDE DEF word
  <2>1. QED
    BY <1>1, FrontierOps, Single
<1>6. <<Look(c, word), Put(c, word)>> \in Seq(Ops) /\ Follows(<<Look(c, word), Put(c, word)>>)
  <2> HIDE DEF word
  <2>1. QED
    BY <1>1, LookPut
<1>7. add_to_frontier_list(c, place) \in Seq(Ops) /\ Follows(add_to_frontier_list(c, place))
  <2> HIDE DEF place
  <2>1. /\ Put(c, list(c, place)) \in Ops /\ Look(c, list(c, place)) \in Ops /\ Put(c, list(c, head)) \in Ops
        /\ ~Result(Put(c, list(c, place))) /\ ~Result(Look(c, list(c, place))) /\ ~Result(Put(c, list(c, head)))
    BY <1>4, FrontierOps
  <2>2. QED
    BY <2>1 DEF add_to_frontier_list, Follows
<1>8. add_to_frontier(c, n) = IF Listed(c, block(n)) THEN <<Look(c, word), Put(c, word)>>
        ELSE <<Look(c, word)>> \o add_to_frontier_list(c, place) \o <<Put(c, word)>>
  BY DEF add_to_frontier
<1> HIDE DEF word, place
<1>9. /\ <<Look(c, word)>> \o add_to_frontier_list(c, place) \in Seq(Ops)
      /\ Follows(<<Look(c, word)>> \o add_to_frontier_list(c, place))
  BY <1>5, <1>7, Joined
<1>10. /\ <<Look(c, word)>> \o add_to_frontier_list(c, place) \o <<Put(c, word)>> \in Seq(Ops)
       /\ Follows(<<Look(c, word)>> \o add_to_frontier_list(c, place) \o <<Put(c, word)>>)
  BY <1>5, <1>9, Joined
<1>11. QED
  BY <1>6, <1>8, <1>10

LEMMA Improving ==
  ASSUME TaskInv, BY_ADDRESS, NEW c \in Tiles, NEW n \in Own(ret, c)
  PROVE  Improve(c, n) \in Seq(Ops) /\ Follows(Improve(c, n)) /\ n \in Nat
<1>1. n \in 0 .. FOOTPRINT - 1
  BY WordOfResult
<1>2. <<Look(c, n), Put(c, n)>> \in Seq(Ops) /\ Follows(<<Look(c, n), Put(c, n)>>)
  BY <1>1, LookPut
<1>3. CASE bitmap_len = 0
  BY <1>1, <1>2, <1>3 DEF Improve
<1>4. CASE bitmap_len /= 0
  <2>1. bitmap_len > 0 /\ n \in Nat
    BY <1>1, <1>4, DataCacheAssumption
  <2>2. add_to_frontier(c, n) \in Seq(Ops) /\ Follows(add_to_frontier(c, n))
    BY <2>1, Adding
  <2>3. QED
    BY <1>2, <1>4, <2>1, <2>2, Joined DEF Improve
<1>5. QED
  BY <1>3, <1>4

LEMMA Exploring ==
  ASSUME TaskInv, BY_ADDRESS, bitmap_len > 0, NEW c \in Tiles,
         NEW n \in 0 .. Len(frontier_list[c].blocks)
  PROVE  Explore(c, n) \in Seq(Ops) /\ Follows(Explore(c, n))
<1> DEFINE s == Explore(c, n)
           blocks == frontier_list[c].blocks
<1>1. blocks \in Seq(0 .. bitmap_len - 1) /\ Len(blocks) \in Nat /\ n \in Nat
  BY DEF TaskInv, Frontier
<1>2. Put(c, list(c, tail)) \in Ops /\ ~Result(Put(c, list(c, tail)))
  <2>1. tail \in 0 .. tail
    BY DataCacheAssumption DEF tail
  <2>2. QED
    BY <2>1, WordOfList, FrontierOps
<1>3. ASSUME NEW k \in 1 .. 3 * n
      PROVE  Look(c, list(c, Place(c, k \div 3))) \in Ops /\ ~Result(Look(c, list(c, Place(c, k \div 3))))
  <2>1. k \div 3 \in Nat
    BY <1>1
  <2>2. Place(c, k \div 3) \in 0 .. tail
    BY <2>1, PlaceInList
  <2>3. QED
    BY <2>2, WordOfList, FrontierOps
<1>4. ASSUME NEW k \in 0 .. 3 * n - 1
      PROVE  LET word == bitmap(c, blocks[k \div 3 + 1])
             IN /\ Look(c, word) \in Ops /\ ~Result(Look(c, word))
                /\ Put(c, word) \in Ops /\ ~Result(Put(c, word))
  <2>1. k \div 3 + 1 \in 1 .. Len(blocks)
    <3>1. k \div 3 \in 0 .. n - 1
      BY <1>1
    <3>2. n <= Len(blocks)
      BY <1>1
    <3>3. QED
      BY <1>1, <3>1, <3>2
  <2>2. blocks[k \div 3 + 1] \in 0 .. bitmap_len - 1
    <3>1. PICK b \in Seq(0 .. bitmap_len - 1) : b = blocks
      BY <1>1
    <3>2. PICK j \in 1 .. Len(b) : j = k \div 3 + 1
      BY <2>1, <3>1
    <3>3. b[j] \in 0 .. bitmap_len - 1
      BY InSequence
    <3>4. QED
      BY <3>1, <3>2, <3>3
  <2>3. QED
    BY <2>2, WordOfBitmap, FrontierOps
<1>5. ASSUME NEW k \in 1 .. 3 * n + 1
      PROVE  s[k] \in Ops /\ ~Result(s[k])
  <2>1. s[k] = IF k = 3 * n + 1 THEN Put(c, list(c, tail))
               ELSE IF k % 3 = 1 THEN Look(c, list(c, Place(c, k \div 3)))
               ELSE IF k % 3 = 2 THEN Look(c, bitmap(c, blocks[(k - 1) \div 3 + 1]))
               ELSE Put(c, bitmap(c, blocks[(k - 1) \div 3 + 1]))
    BY DEF Explore
  <2>2. CASE k = 3 * n + 1
    BY <1>2, <2>1, <2>2
  <2>3. CASE k /= 3 * n + 1
    <3>1. k \in 1 .. 3 * n /\ k - 1 \in 0 .. 3 * n - 1
      BY <1>1, <2>3
    <3> HIDE DEF s, blocks
    <3>2. QED
      BY <1>3, <1>4, <2>1, <2>3, <3>1
  <2>4. QED
    BY <2>2, <2>3
<1>6. s = [k \in 1 .. 3 * n + 1 |-> s[k]] /\ 3 * n + 1 \in Nat
  BY <1>1 DEF Explore
<1> HIDE DEF s
<1>7. s \in Seq(Ops) /\ DOMAIN s = 1 .. 3 * n + 1
  BY <1>5, <1>6
<1>8. QED
  BY <1>5, <1>7 DEF Follows, s

-----------------------------------------------------------------------------
LEMMA InitTaskInv == Init => TaskInv
<1> SUFFICES ASSUME Init PROVE TaskInv
  OBVIOUS
<1>1. todo = [t \in Threads |-> <<>>] /\ <<>> \in Seq(Ops)
  BY DEF Init
<1>2. frontier_list = [c \in Tiles |-> [tail |-> 0, blocks |-> <<>>]] /\ <<>> \in Seq(0 .. bitmap_len - 1)
  BY DEF Init
<1>3. todo \in [Threads -> Seq(Ops)]
  BY <1>1
<1>4. [tail |-> 0, blocks |-> <<>>] \in Frontier
  BY <1>2, 0 \in Nat DEF Frontier
<1>5. frontier_list \in [Tiles -> Frontier]
  BY <1>2, <1>4
<1>6. \A t \in Threads : Paired(todo[t])
  BY <1>1 DEF Paired
<1>7. QED
  BY <1>3, <1>5, <1>6 DEF TaskInv, Frontier

(* A task that begins is one of these; the blocks listed are of its tile.  *)
LEMMA TaskBegins ==
  ASSUME TaskInv, NEW t \in Threads,
         ReadTask(t) \/ task3_kernel(t) \/ task4_kernel(t) \/ WriteTask(t)
  PROVE  /\ \E s \in Seq(Ops) : Begin(t, s) /\ Follows(s)
         /\ frontier_list' \in [Tiles -> Frontier]
<1> USE DEF Mine
<1>1. frontier_list \in [Tiles -> Frontier]
  BY DEF TaskInv, Frontier
<1>2. CASE ReadTask(t)
  <2>1. PICK c \in Tiles, a \in ARRAYS \union {ret} : \E j \in Own(a, c) :
          Begin(t, <<Look(c, a.base + j)>>) /\ UNCHANGED frontier_list
    BY <1>2 DEF ReadTask
  <2>2. PICK i \in Own(a, c) : Begin(t, <<Look(c, a.base + i)>>)
    BY <2>1
  <2>3. Look(c, a.base + i) \in Ops /\ ~Result(Look(c, a.base + i))
    BY WordOfArray DEF Look, Op, Ops, Kinds, Result
  <2>4. QED
    BY <1>1, <2>1, <2>2, <2>3, Single
<1>3. CASE task3_kernel(t)
  <2>1. PICK c \in Tiles : \E m \in Own(ret, c) :
          /\ BY_ADDRESS /\ Begin(t, Improve(c, m))
          /\ frontier_list' =
               IF bitmap_len = 0 \/ Listed(c, block(m)) THEN frontier_list
               ELSE [frontier_list EXCEPT ![c].blocks = Append(@, block(m))]
    BY <1>3 DEF task3_kernel
  <2>2. PICK n \in Own(ret, c) :
          /\ BY_ADDRESS /\ Begin(t, Improve(c, n))
          /\ frontier_list' =
               IF bitmap_len = 0 \/ Listed(c, block(n)) THEN frontier_list
               ELSE [frontier_list EXCEPT ![c].blocks = Append(@, block(n))]
    BY <2>1
  <2>3. Improve(c, n) \in Seq(Ops) /\ Follows(Improve(c, n)) /\ n \in Nat
    BY <2>2, Improving
  <2>4. frontier_list' \in [Tiles -> Frontier]
    <3>1. CASE bitmap_len = 0 \/ Listed(c, block(n))
      BY <1>1, <2>2, <3>1
    <3>2. CASE ~(bitmap_len = 0 \/ Listed(c, block(n)))
      <4>1. block(n) \in 0 .. bitmap_len - 1
        BY <2>3, <3>2, BlockOfNode, DataCacheAssumption
      <4>2. [frontier_list[c] EXCEPT !.blocks = Append(@, block(n))] \in Frontier
        <5>1. PICK f \in Frontier : f = frontier_list[c]
          BY <1>1
        <5>2. Append(f.blocks, block(n)) \in Seq(0 .. bitmap_len - 1)
          BY <4>1 DEF Frontier
        <5>3. [f EXCEPT !.blocks = Append(@, block(n))] \in Frontier
          BY <5>2 DEF Frontier
        <5>4. QED
          BY <5>1, <5>3
      <4>3. frontier_list' = [frontier_list EXCEPT ![c] = [frontier_list[c] EXCEPT !.blocks = Append(@, block(n))]]
        BY <2>2, <3>2
      <4>4. QED
        BY <1>1, <4>2, <4>3
    <3>3. QED
      BY <3>1, <3>2
  <2>5. QED
    BY <2>2, <2>3, <2>4
<1>4. CASE task4_kernel(t)
  <2>1. PICK c \in Tiles : \E k \in 0 .. Len(frontier_list[c].blocks), j \in 0 .. 1 :
          /\ BY_ADDRESS /\ bitmap_len > 0 /\ j <= k
          /\ Begin(t, Explore(c, k))
          /\ frontier_list' = [frontier_list EXCEPT ![c] =
               [tail |-> Place(c, k - j), blocks |-> SubSeq(@.blocks, k - j + 1, Len(@.blocks))]]
    BY <1>4 DEF task4_kernel
  <2>2. PICK n \in 0 .. Len(frontier_list[c].blocks), left \in 0 .. 1 :
          /\ BY_ADDRESS /\ bitmap_len > 0 /\ left <= n
          /\ Begin(t, Explore(c, n))
          /\ frontier_list' = [frontier_list EXCEPT ![c] =
               [tail |-> Place(c, n - left), blocks |-> SubSeq(@.blocks, n - left + 1, Len(@.blocks))]]
    BY <2>1
  <2>3. Explore(c, n) \in Seq(Ops) /\ Follows(Explore(c, n))
    BY <2>2, Exploring
  <2>4. n - left \in Nat
    BY <2>2
  <2>5. Place(c, n - left) \in Nat
    BY <2>2, <2>4, PlaceInList
  <2> DEFINE rest == SubSeq(frontier_list[c].blocks, n - left + 1, Len(frontier_list[c].blocks))
  <2>6. rest \in Seq(0 .. bitmap_len - 1)
    <3>1. frontier_list[c].blocks \in Seq(0 .. bitmap_len - 1)
      BY <1>1 DEF Frontier
    <3>2. PICK b \in Seq(0 .. bitmap_len - 1) : b = frontier_list[c].blocks
      BY <3>1
    <3>3. PICK m \in Nat : m = n - left
      BY <2>4
    <3>4. SubSeq(b, m + 1, Len(b)) \in Seq(0 .. bitmap_len - 1)
      BY RestOfSequence
    <3>5. rest = SubSeq(b, m + 1, Len(b))
      BY <3>2, <3>3
    <3> HIDE DEF rest
    <3>6. QED
      BY <3>4, <3>5
  <2>7. [tail |-> Place(c, n - left), blocks |-> rest] \in Frontier
    <3> HIDE DEF rest
    <3>1. QED
      BY <2>5, <2>6 DEF Frontier
  <2>8. frontier_list' \in [Tiles -> Frontier]
    BY <1>1, <2>2, <2>7
  <2>9. QED
    BY <2>2, <2>3, <2>8
<1>5. CASE WriteTask(t)
  <2>1. PICK c \in Tiles : \E m \in Own(ret, c) :
          ~BY_ADDRESS /\ Begin(t, <<Write(c, m)>>) /\ UNCHANGED frontier_list
    BY <1>5 DEF WriteTask
  <2>2. PICK n \in Own(ret, c) : ~BY_ADDRESS /\ Begin(t, <<Write(c, n)>>)
    BY <2>1
  <2>3. n \in 0 .. FOOTPRINT - 1
    BY WordOfResult
  <2>4. Write(c, n) \in Ops /\ ~Result(Write(c, n))
    BY <2>2, <2>3 DEF Write, Op, Ops, Kinds, Result
  <2>5. QED
    BY <1>1, <2>1, <2>2, <2>4, Single
<1>6. QED
  BY <1>2, <1>3, <1>4, <1>5

(* What is left of a task keeps a result behind its access.                *)
LEMMA DoesTaskInv ==
  ASSUME TaskInv, NEW t \in Threads, NEW o, Does(t, o)
  PROVE  TaskInv'
<1>1. todo[t] \in Seq(Ops) /\ todo[t] /= <<>> /\ Paired(todo[t])
      /\ todo' = [todo EXCEPT ![t] = Tail(todo[t])] /\ frontier_list' = frontier_list
  BY DEF Does, TaskInv
<1>2. PICK s \in Seq(Ops) : s = todo[t]
  BY <1>1
<1>3. Tail(s) \in Seq(Ops) /\ DOMAIN Tail(s) = 1 .. Len(s) - 1 /\ Len(s) \in Nat
      /\ \A k \in 1 .. Len(s) - 1 : Tail(s)[k] = s[k + 1]
  BY <1>1, <1>2
<1>4. Paired(Tail(s))
  <2>1. ASSUME NEW k \in 1 .. Len(s) - 1, k > 1, Result(Tail(s)[k])
        PROVE  Tail(s)[k - 1] = Look(Tail(s)[k].tile, Tail(s)[k].word)
    <3>1. k + 1 \in DOMAIN s /\ k + 1 > 1 /\ k + 1 - 1 = k /\ k - 1 \in 1 .. Len(s) - 1 /\ k - 1 + 1 = k
      BY <1>3, <2>1
    <3>2. Tail(s)[k] = s[k + 1] /\ Tail(s)[k - 1] = s[k]
      BY <1>3, <3>1
    <3>3. QED
      BY <1>1, <1>2, <2>1, <3>1, <3>2 DEF Paired
  <2>2. QED
    BY <1>3, <2>1 DEF Paired
<1>5. QED
  BY <1>1, <1>2, <1>3, <1>4 DEF TaskInv, Frontier

(* No step spoils the tasks, however many threads there are.               *)
LEMMA NextTaskInv == TaskInv /\ [Next]_vars => TaskInv'
<1> SUFFICES ASSUME TaskInv, [Next]_vars PROVE TaskInv'
  OBVIOUS
<1>1. CASE UNCHANGED <<todo, frontier_list>>
  BY <1>1 DEF TaskInv, Frontier
<1>2. CASE UNCHANGED vars
  BY <1>1, <1>2 DEF vars
<1>3. ASSUME NEW t \in Threads, ReadTask(t) \/ task3_kernel(t) \/ task4_kernel(t) \/ WriteTask(t)
      PROVE  TaskInv'
  <2>1. PICK s \in Seq(Ops) : Begin(t, s) /\ Follows(s)
    BY <1>3, TaskBegins
  <2>2. frontier_list' \in [Tiles -> Frontier]
    BY <1>3, TaskBegins
  <2>3. todo' = [todo EXCEPT ![t] = s]
    BY <2>1 DEF Begin
  <2>4. Paired(s)
    BY <2>1 DEF Follows, Paired
  <2>5. QED
    BY <2>2, <2>3, <2>4 DEF TaskInv, Frontier
<1>4. ASSUME NEW t \in Threads, Lookup(t) \/ Store(t) \/ WriteWord(t)
      PROVE  TaskInv'
  BY <1>4, DoesTaskInv DEF Lookup, Store, WriteWord
<1>5. ASSUME NEW t \in Threads, CountLoad(t) \/ CountStore(t) \/ Check(t) \/ Evict(t) \/ Insert(t)
      PROVE  TaskInv'
  BY <1>1, <1>5 DEF CountLoad, CountStore, Check, Evict, Insert
<1>6. QED
  BY <1>2, <1>3, <1>4, <1>5 DEF Next

-----------------------------------------------------------------------------
(* A line has a set, and no line is the mark of an empty place.            *)
LEMMA SetOfLine ==
  ASSUME NEW l \in Lines
  PROVE  set_id_dcache(l) \in 0 .. SETS - 1 /\ l /= EMPTY
BY DataCacheAssumption DEF set_id_dcache, Lines, EMPTY
-----------------------------------------------------------------------------
(* Initially the caches are empty and no access is in progress.            *)
LEMMA InitCacheInv == Init => CacheInv
<1> SUFFICES ASSUME Init PROVE CacheInv
  OBVIOUS
<1> USE DEF Init, Idle
<1>1. Types
  BY DEF Types, Work
<1>2. \A c \in Tiles, l \in Lines : ~Holds(c, l)
  BY SetOfLine DEF Holds
<1>3. InPlace /\ Unique /\ HeldValid /\ ValidHeld /\ Missing
  BY <1>2, SetOfLine DEF InPlace, Unique, HeldValid, ValidHeld, Missing, Busy
<1>4. QED
  BY <1>1, <1>3 DEF CacheInv

(* Nothing but the access in progress, and no place or validity, changes:  *)
(* the parts of the invariant on the caches carry over.                    *)
LEMMA SameCaches ==
  ASSUME CacheInv, UNCHANGED <<dcache_freq, dcache_tags>>,
         \A t \in Threads : worker[t].pc /= "insert" /\ worker'[t].pc /= "insert"
  PROVE  InPlace' /\ Unique' /\ HeldValid' /\ ValidHeld'
<1>1. \A c, l : ~Leaving(c, l) /\ ~Leaving(c, l)'
  BY DEF Leaving
<1>2. \A c, l : Holds(c, l)' <=> Holds(c, l)
  BY DEF Holds
<1>3. QED
  BY <1>1, <1>2 DEF CacheInv, InPlace, Unique, HeldValid, ValidHeld

(* A step that touches neither the caches nor the miss in progress.        *)
LEMMA UntouchedInv ==
  ASSUME CacheInv, UNCHANGED <<caches, counters, worker>>
  PROVE  CacheInv'
BY DEF caches, counters, CacheInv, Types, InPlace, Unique, HeldValid, ValidHeld, Missing, Holds, Leaving

(* What a task does next is about a word of the data set.                  *)
LEMMA NextOp ==
  ASSUME TaskInv, NEW t \in Threads, NEW o, Does(t, o)
  PROVE  /\ Head(todo[t]) \in Ops /\ Head(todo[t]).op = o
         /\ Head(todo[t]).tile \in Tiles /\ cache_tag(Head(todo[t]).word) \in Lines
         /\ worker[t].pc = "idle"
<1>1. todo[t] \in Seq(Ops) /\ todo[t] /= <<>> /\ Head(todo[t]).op = o /\ worker[t].pc = "idle"
  BY DEF Does, TaskInv
<1>2. Head(todo[t]) \in Ops
  BY <1>1
<1>3. Head(todo[t]).tile \in Tiles /\ Head(todo[t]).word \in 0 .. FOOTPRINT - 1
  BY <1>2 DEF Ops
<1>4. QED
  BY <1>1, <1>2, <1>3, LineOfWord

(* A hit changes nothing; a miss begins to fetch a line that is absent.    *)
LEMMA LookupInv ==
  ASSUME OneThread, TaskInv, CacheInv, NEW t \in Threads, Lookup(t)
  PROVE  CacheInv'
<1> DEFINE w == Head(todo[t])
           l == cache_tag(w.word)
           next == [pc |-> "count", tile |-> w.tile, line |-> l]
<1>1. \A u \in Threads : u = t
  BY DEF OneThread
<1>2. w.tile \in Tiles /\ l \in Lines /\ worker[t].pc = "idle"
  BY NextOp DEF Lookup
<1>3. UNCHANGED <<dcache_freq, dcache_tags, mc_transactions, mc_writebacks>>
  BY DEF Lookup, caches
<1>4. \/ dcache_freq[l] > 0 /\ worker' = worker
      \/ ~(dcache_freq[l] > 0) /\ worker' = [worker EXCEPT ![t] = next]
  BY DEF Lookup
<1>5. next \in Work
  BY <1>2 DEF Work
<1>6. ~(dcache_freq[l] > 0) => dcache_freq[l] = 0
  BY <1>2 DEF CacheInv, Types
<1>7. next.pc = "count" /\ next.line = l
  OBVIOUS
<1> HIDE DEF w, l, next
<1>8. worker' \in [Threads -> Work] /\ worker'[t].pc \in {"idle", "count"}
      /\ (worker'[t].pc = "count" => worker'[t].line = l /\ dcache_freq[l] = 0)
  BY <1>2, <1>4, <1>5, <1>6, <1>7 DEF CacheInv, Types
<1>9. Types'
  BY <1>3, <1>8 DEF CacheInv, Types
<1>10. InPlace' /\ Unique' /\ HeldValid' /\ ValidHeld'
  BY <1>1, <1>2, <1>3, <1>8, SameCaches
<1>11. Missing'
  BY <1>1, <1>3, <1>8 DEF Missing, Busy
<1>12. QED
  BY <1>9, <1>10, <1>11 DEF CacheInv

(* write_dcache() marks a line that is there, and only such a line.        *)
LEMMA WriteInv ==
  ASSUME OneThread, TaskInv, CacheInv, NEW t \in Threads, WriteWord(t)
  PROVE  CacheInv'
<1> DEFINE w == Head(todo[t])
           l == cache_tag(w.word)
           q == ChannelOf[w.tile]
<1>1. \A u \in Threads : u = t
  BY DEF OneThread
<1>2. w.tile \in Tiles /\ l \in Lines /\ worker[t].pc = "idle"
  BY NextOp DEF WriteWord
<1>3. q \in Channels
  BY <1>2, DataCacheAssumption DEF Channels, Range
<1>4. UNCHANGED <<dcache_tags, worker>>
  BY DEF WriteWord
<1>5. \/ /\ dcache_freq[l] > 0 /\ dcache_freq' = [dcache_freq EXCEPT ![l] = 2]
         /\ UNCHANGED <<mc_transactions, mc_writebacks>>
      \/ /\ mc_writebacks' = [mc_writebacks EXCEPT ![q] = @ + 1]
         /\ mc_transactions' = [mc_transactions EXCEPT ![q] = @ + 1]
         /\ UNCHANGED dcache_freq
  BY DEF WriteWord
<1>6. /\ dcache_freq \in [Lines -> 0 .. 2]
      /\ mc_transactions \in [Channels -> Nat] /\ mc_writebacks \in [Channels -> Nat]
  BY DEF CacheInv, Types
<1> HIDE DEF w, l, q
<1>7. /\ dcache_freq' \in [Lines -> 0 .. 2]
      /\ \A m \in Lines : dcache_freq'[m] > 0 <=> dcache_freq[m] > 0
      /\ mc_transactions' \in [Channels -> Nat] /\ mc_writebacks' \in [Channels -> Nat]
  BY <1>2, <1>3, <1>5, <1>6
<1>8. Types'
  BY <1>4, <1>7 DEF CacheInv, Types
<1>9. \A d, m : (Holds(d, m)' <=> Holds(d, m)) /\ ~Leaving(d, m) /\ ~Leaving(d, m)'
  BY <1>1, <1>2, <1>4 DEF Holds, Leaving
<1>10. InPlace' /\ Unique' /\ HeldValid' /\ ValidHeld'
  BY <1>4, <1>7, <1>9 DEF CacheInv, InPlace, Unique, HeldValid, ValidHeld
<1>11. Missing'
  BY <1>1, <1>2, <1>4 DEF CacheInv, Missing, Busy
<1>12. QED
  BY <1>8, <1>10, <1>11 DEF CacheInv

-----------------------------------------------------------------------------
(* What the record of an access in progress holds at each of its steps.    *)
LEMMA WorkFields ==
  ASSUME NEW w \in Work
  PROVE  /\ w.pc \in Busy => w.tile \in Tiles /\ w.line \in Lines
         /\ w.pc = "store" => w.trans \in Nat
         /\ w.pc = "insert" => w.back \in BOOLEAN /\ w.trans \in Nat /\ w.wbs \in Nat
BY DEF Work, Busy, Idle

(* Counting the request of a miss leaves the caches alone.                 *)
LEMMA CountLoadInv ==
  ASSUME OneThread, CacheInv, NEW t \in Threads, CountLoad(t)
  PROVE  CacheInv'
<1> DEFINE w == worker[t]
<1> USE DEF CountLoad, caches, counters
<1>1. \A u \in Threads : u = t
  BY DEF OneThread
<1>2. w.tile \in Tiles /\ w.line \in Lines
  BY WorkFields DEF CacheInv, Types, Busy
<1>3. mc_transactions[ChannelOf[w.tile]] \in Nat
  BY <1>2, DataCacheAssumption DEF CacheInv, Types, Channels, Range
<1>4. [pc |-> "store", tile |-> w.tile, line |-> w.line,
       trans |-> mc_transactions[ChannelOf[w.tile]]] \in Work
  BY <1>2, <1>3 DEF Work
<1>5. Types'
  BY <1>4 DEF CacheInv, Types
<1>6. worker'[t].pc = "store" /\ worker'[t].line = w.line
  BY DEF CacheInv, Types
<1>7. InPlace' /\ Unique' /\ HeldValid' /\ ValidHeld'
  BY <1>1, <1>6, SameCaches
<1>8. Missing'
  BY <1>1, <1>6 DEF CacheInv, Missing, Busy
<1>9. QED
  BY <1>5, <1>7, <1>8 DEF CacheInv

(* Nor does storing the counter.                                           *)
LEMMA CountStoreInv ==
  ASSUME OneThread, CacheInv, NEW t \in Threads, CountStore(t)
  PROVE  CacheInv'
<1> DEFINE w == worker[t]
<1> USE DEF CountStore, caches, counters
<1>1. \A u \in Threads : u = t
  BY DEF OneThread
<1>2. w.tile \in Tiles /\ w.line \in Lines /\ w.trans \in Nat
  BY WorkFields DEF CacheInv, Types, Busy
<1>3. [pc |-> "check", tile |-> w.tile, line |-> w.line] \in Work
  BY <1>2 DEF Work
<1>4. Types'
  <2>1. mc_transactions' \in [Channels -> Nat]
    <3>1. mc_transactions' = [mc_transactions EXCEPT ![ChannelOf[w.tile]] = w.trans + 1]
      OBVIOUS
    <3>2. mc_transactions \in [Channels -> Nat] /\ w.trans + 1 \in Nat
      BY <1>2 DEF CacheInv, Types
    <3> HIDE DEF w
    <3>3. QED
      BY <3>1, <3>2
  <2>2. worker' \in [Threads -> Work]
    BY <1>3 DEF CacheInv, Types
  <2>3. QED
    BY <2>1, <2>2 DEF CacheInv, Types
<1>5. worker'[t].pc = "check" /\ worker'[t].line = w.line
  BY DEF CacheInv, Types
<1>6. InPlace' /\ Unique' /\ HeldValid' /\ ValidHeld'
  BY <1>1, <1>5, SameCaches
<1>7. Missing'
  BY <1>1, <1>5 DEF CacheInv, Missing, Busy
<1>8. QED
  BY <1>4, <1>6, <1>7 DEF CacheInv

(* The assertion on a miss does not fail: the line is absent.              *)
LEMMA CheckInv ==
  ASSUME OneThread, CacheInv, NEW t \in Threads, Check(t)
  PROVE  CacheInv'
<1> DEFINE w == worker[t]
<1> USE DEF Check, caches, counters
<1>1. \A u \in Threads : u = t
  BY DEF OneThread
<1>2. w.tile \in Tiles /\ w.line \in Lines /\ dcache_freq[w.line] = 0
  BY WorkFields DEF CacheInv, Types, Missing, Busy
<1>3. worker' = [worker EXCEPT ![t].pc = "evict"]
  <2>1. \E seen \in {0, dcache_freq[w.line]} :
          worker' = [worker EXCEPT ![t].pc = IF seen = 0 THEN "evict" ELSE "aborted"]
    OBVIOUS
  <2>2. QED
    BY <1>2, <2>1
<1>4. [w EXCEPT !.pc = "evict"] \in Work
  <2>1. w \in Work /\ w.pc = "check"
    BY DEF CacheInv, Types
  <2>2. w \in [pc : {"count", "check", "evict", "aborted"}, tile : Tiles, line : Lines]
    BY <2>1 DEF Work, Idle
  <2> HIDE DEF w
  <2>3. QED
    BY <2>2 DEF Work
<1>5. Types'
  BY <1>3, <1>4 DEF CacheInv, Types
<1>6. worker'[t].pc = "evict" /\ worker'[t].line = w.line
  BY <1>3, <1>4 DEF CacheInv, Types, Work, Idle
<1>7. InPlace' /\ Unique' /\ HeldValid' /\ ValidHeld'
  BY <1>1, <1>6, SameCaches
<1>8. Missing'
  BY <1>1, <1>2, <1>6 DEF CacheInv, Missing, Busy
<1>9. QED
  BY <1>5, <1>7, <1>8 DEF CacheInv

-----------------------------------------------------------------------------
(* The victim, which no other tile holds, is not valid any more.           *)
LEMMA EvictInv ==
  ASSUME OneThread, CacheInv, NEW t \in Threads, Evict(t)
  PROVE  CacheInv'
<1> DEFINE w == worker[t]
           q == ChannelOf[w.tile]
           tag == dcache_replacement_policy(w.tile, w.line)
           back == tag /= EMPTY /\ MustWriteBack(tag)
           next == [pc |-> "insert", tile |-> w.tile, line |-> w.line, back |-> back,
                    trans |-> mc_transactions[q], wbs |-> mc_writebacks[q],
                    freq |-> Cleared(tag)[w.line]]
<1>1. \A u \in Threads : u = t
  BY DEF OneThread
<1>2. /\ w.pc = "evict"
      /\ dcache_freq' = Cleared(tag)
      /\ worker' = [worker EXCEPT ![t] = next]
      /\ UNCHANGED <<dcache_tags, mc_transactions, mc_writebacks>>
  BY DEF Evict
<1>3. w.tile \in Tiles /\ w.line \in Lines /\ dcache_freq[w.line] = 0
  BY <1>2, WorkFields DEF CacheInv, Types, Missing, Busy
<1>4. set_id_dcache(w.line) \in 0 .. SETS - 1 /\ tag = dcache_tags[w.tile][set_id_dcache(w.line)]
      /\ tag \in Lines \union {EMPTY}
  <2>1. set_id_dcache(w.line) \in 0 .. SETS - 1
    BY <1>3, SetOfLine
  <2>2. tag = dcache_tags[w.tile][set_id_dcache(w.line)]
    BY DEF dcache_replacement_policy
  <2>3. dcache_tags \in [Tiles -> [0 .. SETS - 1 -> Lines \union {EMPTY}]]
    BY DEF CacheInv, Types
  <2> HIDE DEF tag
  <2>4. QED
    BY <1>3, <2>1, <2>2, <2>3
<1>5. /\ Cleared(tag) \in [Lines -> 0 .. 2] /\ Cleared(tag)[w.line] = 0
      /\ \A l \in Lines : Cleared(tag)[l] = IF l = tag THEN 0 ELSE dcache_freq[l]
  <2>1. \A l \in Lines : l /= EMPTY
    BY SetOfLine
  <2>2. QED
    BY <1>3, <1>4, <2>1 DEF Cleared, CacheInv, Types
<1>6. mc_transactions[q] \in Nat /\ mc_writebacks[q] \in Nat
  BY <1>3, DataCacheAssumption DEF CacheInv, Types, Channels, Range
<1>7. worker' \in [Threads -> Work] /\ worker'[t] = next
  <2>1. back \in BOOLEAN
    OBVIOUS
  <2>2. next \in Work
    <3> HIDE DEF back
    <3>1. QED
      BY <1>3, <1>5, <1>6, <2>1 DEF Work
  <2> HIDE DEF next
  <2>3. QED
    BY <1>2, <2>2 DEF CacheInv, Types
<1>8. Types'
  BY <1>2, <1>5, <1>7 DEF CacheInv, Types
<1>9. worker'[t].pc = "insert" /\ worker'[t].tile = w.tile /\ worker'[t].line = w.line
      /\ worker'[t].freq = 0
  BY <1>5, <1>7
<1>10. Missing'
  BY <1>1, <1>2, <1>3, <1>5, <1>9 DEF Missing, Busy
<1> HIDE DEF w, next, tag, back, q
<1>11. \A d, l : /\ Holds(d, l)' <=> Holds(d, l)
                 /\ ~Leaving(d, l)
                 /\ Leaving(d, l)' <=> d = w.tile /\ set_id_dcache(w.line) = set_id_dcache(l)
  BY <1>1, <1>2, <1>9 DEF Holds, Leaving, w
<1>12. InPlace' /\ Unique'
  BY <1>2, <1>11 DEF CacheInv, InPlace, Unique
<1>13. ASSUME NEW l \in Lines, NEW d \in Tiles, Holds(d, l)
       PROVE  dcache_freq'[l] > 0 <=> ~Leaving(d, l)'
  <2>1. dcache_freq[l] > 0
    BY <1>11, <1>13 DEF CacheInv, HeldValid
  <2>2. CASE d = w.tile /\ set_id_dcache(w.line) = set_id_dcache(l)
    <3>1. tag = l
      BY <1>4, <1>13, <2>2 DEF Holds
    <3>2. QED
      BY <1>2, <1>5, <1>11, <2>2, <3>1
  <2>3. CASE ~(d = w.tile /\ set_id_dcache(w.line) = set_id_dcache(l))
    <3>1. l /= tag
      <4>1. SUFFICES ASSUME l = tag PROVE FALSE
        OBVIOUS
      <4>2. set_id_dcache(l) = set_id_dcache(w.line)
        BY <1>3, <1>4, <4>1, SetOfLine DEF CacheInv, InPlace
      <4>3. Holds(w.tile, l)
        BY <1>4, <4>1, <4>2 DEF Holds
      <4>4. d = w.tile
        BY <1>3, <1>13, <4>3 DEF CacheInv, Unique
      <4>5. QED
        BY <2>3, <4>2, <4>4
    <3>2. QED
      BY <1>2, <1>5, <1>11, <2>1, <2>3, <3>1
  <2>4. QED
    BY <2>2, <2>3
<1>14. HeldValid'
  BY <1>11, <1>13 DEF HeldValid
<1>15. ValidHeld'
  <2>1. \A l \in Lines : dcache_freq'[l] > 0 => dcache_freq[l] > 0
    BY <1>2, <1>5
  <2>2. QED
    BY <1>11, <2>1 DEF CacheInv, ValidHeld
<1>16. QED
  BY <1>8, <1>10, <1>12, <1>14, <1>15 DEF CacheInv

(* The line takes its place.  No tile held it, as it was not valid, and    *)
(* the line that left the place was not valid either.                      *)
LEMMA InsertInv ==
  ASSUME OneThread, CacheInv, NEW t \in Threads, Insert(t)
  PROVE  CacheInv'
<1> DEFINE w == worker[t]
           s == set_id_dcache(w.line)
<1>1. \A u \in Threads : u = t
  BY DEF OneThread
<1>2. /\ w.pc = "insert"
      /\ dcache_tags' = [dcache_tags EXCEPT ![w.tile][s] = w.line]
      /\ dcache_freq' = [dcache_freq EXCEPT ![w.line] = w.freq + 1]
      /\ worker' = [worker EXCEPT ![t] = Idle]
  BY DEF Insert
<1>3. w.tile \in Tiles /\ w.line \in Lines /\ w.back \in BOOLEAN /\ w.trans \in Nat /\ w.wbs \in Nat
  BY <1>2, WorkFields DEF CacheInv, Types, Busy
<1>4. w.freq = 0 /\ dcache_freq[w.line] = 0
  BY <1>2 DEF CacheInv, Missing, Busy
<1>5. s \in 0 .. SETS - 1 /\ \A l \in Lines : set_id_dcache(l) \in 0 .. SETS - 1 /\ l /= EMPTY
  BY <1>3, SetOfLine
<1>6. mc_transactions' \in [Channels -> Nat] /\ mc_writebacks' \in [Channels -> Nat]
  <2>1. mc_transactions[ChannelOf[w.tile]] \in Nat
    BY <1>3, DataCacheAssumption DEF CacheInv, Types, Channels, Range
  <2>2. Requests(ChannelOf[w.tile], w) \in Nat
    BY <1>3, <2>1 DEF Requests
  <2>3. mc_transactions \in [Channels -> Nat] /\ mc_writebacks \in [Channels -> Nat]
    BY DEF CacheInv, Types
  <2>4. /\ mc_transactions' = [mc_transactions EXCEPT ![ChannelOf[w.tile]] = Requests(ChannelOf[w.tile], w)]
        /\ mc_writebacks' = IF w.back THEN [mc_writebacks EXCEPT ![ChannelOf[w.tile]] = w.wbs + 1]
                                      ELSE mc_writebacks
    BY DEF Insert
  <2>5. w.wbs + 1 \in Nat
    BY <1>3
  <2>6. mc_transactions' \in [Channels -> Nat]
    <3> HIDE DEF w
    <3>1. QED
      BY <2>2, <2>3, <2>4
  <2>7. mc_writebacks' \in [Channels -> Nat]
    <3>1. CASE w.back
      <4>1. mc_writebacks' = [mc_writebacks EXCEPT ![ChannelOf[w.tile]] = w.wbs + 1]
        BY <2>4, <3>1
      <4> HIDE DEF w
      <4>2. QED
        BY <2>3, <2>5, <4>1
    <3>2. CASE ~w.back
      BY <2>3, <2>4, <3>2
    <3>3. QED
      BY <3>1, <3>2
  <2>8. QED
    BY <2>6, <2>7
<1>7. /\ dcache_freq' \in [Lines -> 0 .. 2]
      /\ \A l \in Lines : dcache_freq'[l] = IF l = w.line THEN 1 ELSE dcache_freq[l]
  BY <1>2, <1>3, <1>4 DEF CacheInv, Types
<1>8. /\ dcache_tags' \in [Tiles -> [0 .. SETS - 1 -> Lines \union {EMPTY}]]
      /\ \A c \in Tiles, r \in 0 .. SETS - 1 :
           dcache_tags'[c][r] = IF c = w.tile /\ r = s THEN w.line ELSE dcache_tags[c][r]
  BY <1>2, <1>3, <1>5 DEF CacheInv, Types
<1>9. worker' \in [Threads -> Work] /\ worker'[t].pc = "idle"
  BY <1>2 DEF CacheInv, Types, Work, Idle
<1>10. Types'
  BY <1>6, <1>7, <1>8, <1>9 DEF Types
<1>11. Missing'
  BY <1>1, <1>9 DEF Missing, Busy
<1>12. \A d, l : /\ ~Leaving(d, l)'
                 /\ Leaving(d, l) <=> w.tile = d /\ s = set_id_dcache(l)
  BY <1>1, <1>2, <1>9 DEF Leaving
<1> HIDE DEF w, s
<1>13. InPlace'
  BY <1>5, <1>8 DEF CacheInv, InPlace, s
<1>14. ~(\E d \in Tiles : d /= w.tile /\ Holds(d, w.line))
  BY <1>3, <1>4, <1>12 DEF CacheInv, HeldValid
<1>15. \A d \in Tiles, l \in Lines :
         Holds(d, l)' <=> IF l = w.line THEN d = w.tile ELSE Holds(d, l) /\ ~Leaving(d, l)
  <2>1. TAKE d \in Tiles, l \in Lines
  <2>2. dcache_tags'[d][set_id_dcache(l)] =
          IF d = w.tile /\ set_id_dcache(l) = s THEN w.line ELSE dcache_tags[d][set_id_dcache(l)]
    BY <1>5, <1>8
  <2>3. l = w.line => set_id_dcache(l) = s
    BY DEF s
  <2>4. QED
    BY <1>12, <1>14, <2>2, <2>3 DEF Holds
<1>16. Unique'
  BY <1>15 DEF CacheInv, Unique
<1>17. HeldValid'
  BY <1>7, <1>12, <1>15 DEF CacheInv, HeldValid
<1>18. ValidHeld'
  <2>1. ASSUME NEW l \in Lines, dcache_freq'[l] > 0
        PROVE  \E d \in Tiles : Holds(d, l)'
    <3>1. CASE l = w.line
      BY <1>3, <1>15, <3>1
    <3>2. CASE l /= w.line
      <4>1. dcache_freq[l] > 0
        BY <1>7, <2>1, <3>2
      <4>2. PICK d \in Tiles : Holds(d, l)
        BY <4>1 DEF CacheInv, ValidHeld
      <4>3. ~Leaving(d, l)
        BY <4>1, <4>2 DEF CacheInv, HeldValid
      <4>4. QED
        BY <1>15, <3>2, <4>2, <4>3
    <3>3. QED
      BY <3>1, <3>2
  <2>2. QED
    BY <2>1 DEF ValidHeld
<1>19. QED
  BY <1>10, <1>11, <1>13, <1>16, <1>17, <1>18 DEF CacheInv

-----------------------------------------------------------------------------
(* Every step of the single thread keeps the invariant.                    *)
LEMMA NextCacheInv == OneThread /\ TaskInv /\ CacheInv /\ [Next]_vars => CacheInv'
<1> SUFFICES ASSUME OneThread, TaskInv, CacheInv, [Next]_vars PROVE CacheInv'
  OBVIOUS
<1>1. CASE UNCHANGED vars
  BY <1>1, UntouchedInv DEF vars, caches, counters
<1>2. ASSUME NEW t \in Threads, ReadTask(t) \/ task3_kernel(t) \/ task4_kernel(t) \/ WriteTask(t)
      PROVE  CacheInv'
  BY <1>2, TaskBegins, UntouchedInv DEF Begin
<1>3. ASSUME NEW t \in Threads, Store(t) PROVE CacheInv'
  BY <1>3, UntouchedInv DEF Store
<1>4. QED
  BY <1>1, <1>2, <1>3, LookupInv, WriteInv, CountLoadInv, CountStoreInv, CheckInv, EvictInv, InsertInv DEF Next

(* The invariant says what OneHolder says when no access is in progress.   *)
LEMMA CacheInvOneHolder == CacheInv => OneHolder
<1> SUFFICES ASSUME CacheInv PROVE OneHolder
  OBVIOUS
<1>1. /\ DOMAIN worker = Threads /\ DOMAIN dcache_freq = Lines /\ DOMAIN dcache_tags = Tiles
      /\ \A c \in Tiles : DOMAIN dcache_tags[c] = 0 .. SETS - 1
  BY DEF CacheInv, Types
<1>2. MissIsAbsent
  BY <1>1 DEF CacheInv, Missing, MissIsAbsent, Busy
<1>3. ASSUME Quiet, NEW l \in Lines
      PROVE  Cardinality(Holders(l)) = IF dcache_freq[l] > 0 THEN 1 ELSE 0
  <2>1. Holders(l) = {c \in Tiles : Holds(c, l)}
    <3>1. \A c \in Tiles : (\E r \in 0 .. SETS - 1 : dcache_tags[c][r] = l) <=> Holds(c, l)
      BY SetOfLine DEF CacheInv, InPlace, Holds
    <3>2. Holders(l) = {c \in Tiles : \E r \in 0 .. SETS - 1 : dcache_tags[c][r] = l}
      BY <1>1 DEF Holders
    <3>3. QED
      BY <3>1, <3>2
  <2>2. CASE dcache_freq[l] > 0
    <3>1. PICK c \in Tiles : Holds(c, l)
      BY <2>2 DEF CacheInv, ValidHeld
    <3>2. Holders(l) = {c}
      BY <2>1, <3>1 DEF CacheInv, Unique
    <3>3. QED
      BY <2>2, <3>2, FS_Singleton
  <2>3. CASE ~(dcache_freq[l] > 0)
    <3>1. \A c \in Tiles : ~Leaving(c, l)
      BY <1>1, <1>3 DEF Quiet, Leaving
    <3>2. Holders(l) = {}
      BY <2>1, <2>3, <3>1 DEF CacheInv, HeldValid
    <3>3. QED
      BY <2>3, <3>2, FS_EmptySet
  <2>4. QED
    BY <2>2, <2>3
<1>4. QED
  BY <1>1, <1>2, <1>3 DEF OneHolder

(* With one thread, however the arrays are cut among tiles that share      *)
(* lines, the validity of a line and the tags of the tiles never disagree: *)
(* check_dcache() and get_dcache() never fail their assertion, and a valid *)
(* line is in the cache of exactly one tile.                               *)
THEOREM OneHolderAlways == OneThread => (Spec => []OneHolder)
<1>1. SUFFICES ASSUME OneThread PROVE Spec => []OneHolder
  OBVIOUS
<1>2. Init => TaskInv /\ CacheInv
  BY InitTaskInv, InitCacheInv
<1>3. TaskInv /\ CacheInv /\ [Next]_vars => TaskInv' /\ CacheInv'
  BY <1>1, NextTaskInv, NextCacheInv
<1>4. CacheInv => OneHolder
  BY CacheInvOneHolder
<1>5. QED
  BY <1>2, <1>3, <1>4, PTL DEF Spec

-----------------------------------------------------------------------------
(* A result that memory does not have yet is on a valid line that will be  *)
(* written back when it leaves: a line with one of the first NODES words   *)
(* begins before NODES.  A result about to be stored has its line in the   *)
(* cache, or the miss in progress fetches that line.                       *)
UnsavedKept == \A n \in unsaved : n < NODES => dcache_freq[cache_tag(n)] > 0 /\ MustWriteBack(cache_tag(n))
StoresHit == \A t \in Threads : todo[t] /= <<>> /\ Result(Head(todo[t])) =>
  IF worker[t].pc = "idle" THEN dcache_freq[cache_tag(Head(todo[t]).word)] > 0
  ELSE worker[t].line = cache_tag(Head(todo[t]).word)
ResultsInv == unsaved \subseteq 0 .. FOOTPRINT - 1 /\ UnsavedKept /\ StoresHit

(* The first word of a line tells for a result anywhere on it.             *)
LEMMA ResultDirty ==
  ASSUME NEW n \in 0 .. FOOTPRINT - 1, n < NODES
  PROVE  is_dirty(cache_tag(n))
<1>1. LINE_WORDS \in Nat /\ LINE_WORDS > 0 /\ NODES \in Nat /\ n \in Nat
  BY DataCacheAssumption
<1>2. PICK tag \in Nat : tag = n \div LINE_WORDS
  BY <1>1
<1>3. tag * LINE_WORDS \in Nat /\ tag * LINE_WORDS <= n
  BY <1>1, <1>2
<1>4. QED
  BY <1>1, <1>2, <1>3 DEF is_dirty, cache_tag

(* Steps that change neither the validity of lines nor what was stored,    *)
(* nor which line a miss in progress is about.                             *)
LEMMA SameResults ==
  ASSUME ResultsInv, UNCHANGED <<dcache_freq, unsaved, todo>>,
         \A t \in Threads : /\ worker'[t].pc = "idle" <=> worker[t].pc = "idle"
                            /\ worker[t].pc /= "idle" => worker'[t].line = worker[t].line
  PROVE  ResultsInv'
<1>1. UnsavedKept'
  BY DEF ResultsInv, UnsavedKept, MustWriteBack
<1>2. StoresHit'
  BY DEF ResultsInv, StoresHit
<1>3. QED
  BY <1>1, <1>2 DEF ResultsInv

(* The first thing a task does is not to store a result.                   *)
LEMMA BeginResults ==
  ASSUME ResultsInv, TaskInv, NEW t \in Threads, NEW s \in Seq(Ops), Begin(t, s), Follows(s)
  PROVE  ResultsInv'
<1>1. UNCHANGED <<dcache_freq, unsaved, worker>> /\ todo' = [todo EXCEPT ![t] = s]
  BY DEF Begin, caches
<1>2. s /= <<>> => ~Result(Head(s))
  <2>1. ASSUME s /= <<>> PROVE 1 \in DOMAIN s /\ Head(s) = s[1] /\ ~(1 > 1)
    BY <2>1
  <2>2. QED
    BY <2>1 DEF Follows
<1>3. todo'[t] = s /\ \A u \in Threads : u /= t => todo'[u] = todo[u]
  BY <1>1 DEF TaskInv
<1>4. UnsavedKept'
  BY <1>1 DEF ResultsInv, UnsavedKept, MustWriteBack
<1>5. StoresHit'
  BY <1>1, <1>2, <1>3 DEF ResultsInv, StoresHit
<1>6. QED
  BY <1>1, <1>4, <1>5 DEF ResultsInv

(* If a result is to be stored next, then its word has just been accessed. *)
LEMMA NextIsHead ==
  ASSUME TaskInv, NEW t \in Threads, NEW o, Does(t, o), todo'[t] /= <<>>, Result(Head(todo'[t]))
  PROVE  o = "look" /\ Head(todo'[t]).word = Head(todo[t]).word
<1>1. PICK s \in Seq(Ops) : s = todo[t] /\ s /= <<>> /\ Paired(s) /\ Head(s).op = o /\ todo'[t] = Tail(s)
  BY DEF Does, TaskInv
<1>2. Tail(s) /= <<>> /\ Len(s) \in Nat
  BY <1>1
<1>3. Len(s) > 1 /\ Head(Tail(s)) = s[2] /\ Head(s) = s[1]
  BY <1>1, <1>2
<1>4. 2 \in DOMAIN s /\ 2 > 1 /\ 2 - 1 = 1
  BY <1>2, <1>3
<1>5. s[1] = Look(s[2].tile, s[2].word)
  BY <1>1, <1>3, <1>4 DEF Paired
<1>6. s[1].op = "look" /\ s[1].word = s[2].word
  BY <1>5 DEF Look, Op
<1>7. QED
  BY <1>1, <1>3, <1>6

LEMMA LookupResults ==
  ASSUME OneThread, TaskInv, CacheInv, ResultsInv, NEW t \in Threads, Lookup(t)
  PROVE  ResultsInv'
<1> DEFINE w == Head(todo[t])
           l == cache_tag(w.word)
<1>1. \A u \in Threads : u = t
  BY DEF OneThread
<1>2. UNCHANGED <<dcache_freq, unsaved>> /\ Does(t, "look") /\ worker[t].pc = "idle"
  BY NextOp DEF Lookup, caches
<1>3. \/ dcache_freq[l] > 0 /\ worker' = worker
      \/ worker' = [worker EXCEPT ![t] = [pc |-> "count", tile |-> w.tile, line |-> l]]
  BY DEF Lookup
<1>4. \/ dcache_freq[l] > 0 /\ worker'[t].pc = "idle"
      \/ worker'[t].pc = "count" /\ worker'[t].line = l
  BY <1>2, <1>3 DEF CacheInv, Types
<1>5. ASSUME todo'[t] /= <<>>, Result(Head(todo'[t]))
      PROVE  cache_tag(Head(todo'[t]).word) = l
  BY <1>2, <1>5, NextIsHead
<1> HIDE DEF l
<1>6. StoresHit'
  BY <1>1, <1>2, <1>4, <1>5 DEF StoresHit, cache_tag
<1>7. UnsavedKept'
  BY <1>2 DEF ResultsInv, UnsavedKept, MustWriteBack
<1>8. QED
  BY <1>2, <1>6, <1>7 DEF ResultsInv

(* A result is stored on a line that is there.                             *)
LEMMA StoreResults ==
  ASSUME OneThread, TaskInv, CacheInv, ResultsInv, NEW t \in Threads, Store(t)
  PROVE  ResultsInv'
<1> DEFINE w == Head(todo[t])
<1>1. \A u \in Threads : u = t
  BY DEF OneThread
<1>2. /\ UNCHANGED <<dcache_freq, worker>> /\ Does(t, "put") /\ unsaved' = unsaved \union {w.word}
      /\ worker[t].pc = "idle" /\ todo[t] /= <<>>
  BY DEF Store, caches, Does
<1>3. w \in Ops /\ w.op = "put"
  BY <1>2, NextOp
<1>4. w.word \in 0 .. FOOTPRINT - 1 /\ BY_ADDRESS
  BY <1>3 DEF Ops, Kinds
<1>5. w.word < NODES => dcache_freq[cache_tag(w.word)] > 0 /\ MustWriteBack(cache_tag(w.word))
  BY <1>2, <1>3, <1>4, ResultDirty DEF ResultsInv, StoresHit, Result, MustWriteBack
<1>6. StoresHit'
  <2>1. ASSUME todo'[t] /= <<>>, Result(Head(todo'[t])) PROVE FALSE
    BY <1>2, <2>1, NextIsHead
  <2>2. QED
    BY <1>1, <2>1 DEF StoresHit, Result
<1> HIDE DEF w
<1>7. UnsavedKept'
  BY <1>2, <1>4, <1>5 DEF ResultsInv, UnsavedKept, MustWriteBack
<1>8. QED
  BY <1>2, <1>4, <1>6, <1>7 DEF ResultsInv

(* write_dcache() marks the line it writes, or writes to memory.           *)
LEMMA WriteResults ==
  ASSUME OneThread, TaskInv, CacheInv, ResultsInv, NEW t \in Threads, WriteWord(t)
  PROVE  ResultsInv'
<1> DEFINE w == Head(todo[t])
           l == cache_tag(w.word)
<1>1. \A u \in Threads : u = t
  BY DEF OneThread
<1>2. Does(t, "write")
  BY DEF WriteWord
<1>3. w \in Ops /\ w.op = "write" /\ l \in Lines
  BY <1>2, NextOp
<1>4. w.word \in 0 .. FOOTPRINT - 1 /\ ~BY_ADDRESS
  BY <1>3 DEF Ops, Kinds
<1>5. StoresHit'
  <2>1. ASSUME todo'[t] /= <<>>, Result(Head(todo'[t])) PROVE FALSE
    BY <1>2, <2>1, NextIsHead
  <2>2. QED
    BY <1>1, <2>1 DEF StoresHit, Result
<1>6. \/ /\ unsaved' = unsaved \union {w.word}
         /\ dcache_freq' = [dcache_freq EXCEPT ![l] = 2]
      \/ unsaved' = unsaved \ {w.word} /\ UNCHANGED dcache_freq
  BY DEF WriteWord
<1>7. UnsavedKept'
  <2>1. CASE unsaved' = unsaved \union {w.word} /\ dcache_freq' = [dcache_freq EXCEPT ![l] = 2]
    <3>1. \A m \in Lines : dcache_freq'[m] = IF m = l THEN 2 ELSE dcache_freq[m]
      BY <1>3, <2>1 DEF CacheInv, Types
    <3>2. \A n \in unsaved : cache_tag(n) \in Lines
      BY LineOfWord DEF ResultsInv
    <3>3. l = cache_tag(w.word)
      OBVIOUS
    <3> HIDE DEF l, w
    <3>4. \A n \in unsaved' : n < NODES => dcache_freq'[cache_tag(n)] > 1
      BY <1>3, <1>4, <2>1, <3>1, <3>2, <3>3 DEF ResultsInv, UnsavedKept, MustWriteBack
    <3>5. \A n \in unsaved' : n < NODES => dcache_freq'[cache_tag(n)] > 0
      BY <1>3, <1>4, <2>1, <3>1, <3>2, <3>3 DEF ResultsInv, UnsavedKept
    <3>6. QED
      BY <1>4, <3>4, <3>5 DEF UnsavedKept, MustWriteBack, cache_tag
  <2>2. CASE unsaved' = unsaved \ {w.word} /\ UNCHANGED dcache_freq
    BY <2>2 DEF ResultsInv, UnsavedKept, MustWriteBack
  <2>3. QED
    BY <1>6, <2>1, <2>2
<1>8. unsaved' \subseteq 0 .. FOOTPRINT - 1
  BY <1>4, <1>6 DEF ResultsInv
<1>9. QED
  BY <1>5, <1>7, <1>8 DEF ResultsInv

(* While a miss is counted and checked its line stays.                     *)
LEMMA CountResults ==
  ASSUME CacheInv, ResultsInv, NEW t \in Threads, CountLoad(t) \/ CountStore(t) \/ Check(t)
  PROVE  ResultsInv'
<1>1. worker[t].pc \in {"count", "store", "check"} /\ UNCHANGED <<unsaved, dcache_freq, todo>>
  BY DEF CountLoad, CountStore, Check, caches
<1>2. worker \in [Threads -> Work] /\ worker[t] \in Work
  BY DEF CacheInv, Types
<1>3. /\ worker'[t].pc /= "idle" /\ worker'[t].line = worker[t].line
      /\ \A u \in Threads : u /= t => worker'[u] = worker[u]
  <2>1. CASE CountLoad(t)
    BY <1>2, <2>1 DEF CountLoad
  <2>2. CASE CountStore(t)
    BY <1>2, <2>2 DEF CountStore
  <2>3. CASE Check(t)
    <3>1. PICK p \in {"evict", "aborted"} : worker' = [worker EXCEPT ![t].pc = p]
      BY <2>3 DEF Check
    <3>2. worker[t].pc = "check"
      BY <2>3 DEF Check
    <3>3. worker[t] \in [pc : {"count", "check", "evict", "aborted"}, tile : Tiles, line : Lines]
      BY <1>2, <3>2 DEF Work, Idle
    <3>4. QED
      BY <1>2, <3>1, <3>3
  <2>4. QED
    BY <2>1, <2>2, <2>3
<1>4. QED
  BY <1>1, <1>3, SameResults

(* A victim with a result that memory does not have is written back.       *)
LEMMA EvictResults ==
  ASSUME OneThread, CacheInv, ResultsInv, NEW t \in Threads, Evict(t)
  PROVE  ResultsInv'
<1> DEFINE w == worker[t]
           victim == dcache_replacement_policy(w.tile, w.line)
           back == victim /= EMPTY /\ MustWriteBack(victim)
<1>1. /\ w.pc = "evict" /\ dcache_freq' = Cleared(victim) /\ UNCHANGED todo
      /\ unsaved' = IF back THEN {n \in unsaved : cache_tag(n) /= victim} ELSE unsaved
  BY DEF Evict
<1>2. /\ worker'[t].pc = "insert" /\ worker'[t].line = w.line
      /\ \A u \in Threads : u /= t => worker'[u] = worker[u]
  BY DEF Evict, CacheInv, Types
<1>3. unsaved' \subseteq unsaved /\ \A l \in Lines : l /= victim => dcache_freq'[l] = dcache_freq[l]
  BY <1>1 DEF Cleared, CacheInv, Types
<1>4. \A n \in unsaved : cache_tag(n) \in Lines /\ cache_tag(n) /= EMPTY
  BY LineOfWord, SetOfLine DEF ResultsInv
<1>5. \A n \in unsaved' : n < NODES => cache_tag(n) /= victim
  BY <1>1, <1>4 DEF ResultsInv, UnsavedKept
<1> HIDE DEF victim, back
<1>6. UnsavedKept'
  BY <1>3, <1>4, <1>5 DEF ResultsInv, UnsavedKept, MustWriteBack, cache_tag
<1>7. StoresHit'
  BY <1>1, <1>2 DEF ResultsInv, StoresHit, OneThread
<1>8. QED
  BY <1>3, <1>6, <1>7 DEF ResultsInv

(* A line that takes its place is valid, and had no unsaved result.        *)
LEMMA InsertResults ==
  ASSUME OneThread, CacheInv, ResultsInv, NEW t \in Threads, Insert(t)
  PROVE  ResultsInv'
<1> DEFINE w == worker[t]
<1>1. \A u \in Threads : u = t
  BY DEF OneThread
<1>2. /\ w.pc = "insert" /\ UNCHANGED <<unsaved, todo>>
      /\ dcache_freq' = [dcache_freq EXCEPT ![w.line] = w.freq + 1]
      /\ worker' = [worker EXCEPT ![t] = Idle]
  BY DEF Insert
<1>3. w.line \in Lines /\ w.freq = 0 /\ dcache_freq[w.line] = 0
  BY <1>2, WorkFields DEF CacheInv, Missing, Types, Busy
<1>4. \A l \in Lines : dcache_freq'[l] = IF l = w.line THEN 1 ELSE dcache_freq[l]
  BY <1>2, <1>3 DEF CacheInv, Types
<1>5. \A n \in unsaved : cache_tag(n) \in Lines
  BY LineOfWord DEF ResultsInv
<1>6. \A n \in unsaved : n < NODES => cache_tag(n) /= w.line
  BY <1>3 DEF ResultsInv, UnsavedKept
<1>7. todo[t] /= <<>> /\ Result(Head(todo[t])) => w.line = cache_tag(Head(todo[t]).word)
  BY <1>2 DEF ResultsInv, StoresHit
<1>8. worker'[t].pc = "idle"
  BY <1>2 DEF CacheInv, Types, Idle
<1> HIDE DEF w
<1>9. UnsavedKept'
  BY <1>2, <1>4, <1>5, <1>6 DEF ResultsInv, UnsavedKept, MustWriteBack, cache_tag
<1>10. StoresHit'
  BY <1>1, <1>2, <1>3, <1>4, <1>7, <1>8 DEF StoresHit, cache_tag
<1>11. QED
  BY <1>2, <1>9, <1>10 DEF ResultsInv

(* With one thread, a result that was stored is never forgotten by the     *)
(* caches, on whatever layout: its line is there when it is stored, as no  *)
(* access lies between, and is_dirty() or the mark of write_dcache() makes *)
(* it be written back when it leaves.                                      *)
THEOREM ResultsAreKept == OneThread => (Spec => []ResultsKept)
<1>1. SUFFICES ASSUME OneThread PROVE Spec => []ResultsKept
  OBVIOUS
<1>2. Init => TaskInv /\ CacheInv /\ ResultsInv
  <2>1. Init => ResultsInv
    BY DEF Init, ResultsInv, UnsavedKept, StoresHit
  <2>2. QED
    BY <2>1, InitTaskInv, InitCacheInv
<1>3. TaskInv /\ CacheInv /\ ResultsInv /\ [Next]_vars => TaskInv' /\ CacheInv' /\ ResultsInv'
  <2> SUFFICES ASSUME TaskInv, CacheInv, ResultsInv, [Next]_vars PROVE ResultsInv'
    BY <1>1, NextTaskInv, NextCacheInv
  <2>1. CASE UNCHANGED vars
    BY <2>1, SameResults DEF vars
  <2>2. ASSUME NEW t \in Threads, ReadTask(t) \/ task3_kernel(t) \/ task4_kernel(t) \/ WriteTask(t)
        PROVE  ResultsInv'
    <3>1. PICK s \in Seq(Ops) : Begin(t, s) /\ Follows(s)
      BY <2>2, TaskBegins
    <3>2. QED
      BY <3>1, BeginResults
  <2>3. QED
    BY <1>1, <2>1, <2>2, LookupResults, StoreResults, WriteResults, CountResults, EvictResults, InsertResults
       DEF Next
<1>4. ResultsInv => ResultsKept
  BY DEF ResultsInv, UnsavedKept, ResultsKept
<1>5. QED
  BY <1>2, <1>3, <1>4, PTL DEF Spec

-----------------------------------------------------------------------------
(***************************************************************************)
(* Proof that with one thread the counters add up.  First, what SumOf says *)
(* of a function on a finite set: it adds the values one by one, in the    *)
(* order in which CHOOSE takes the elements.                               *)
(***************************************************************************)
Pick(s) == CHOOSE x \in s : TRUE

(* g maps every set of arguments of f to the sum of the values there.      *)
IsSum(g, f) ==
  g = [s \in SUBSET DOMAIN f |-> IF s = {} THEN 0 ELSE f[Pick(s)] + g[s \ {Pick(s)}]]

Tally(g, f, S) ==
  g[{}] = 0 /\ \A s \in SUBSET S : s # {} => g[s] = f[Pick(s)] + g[s \ {Pick(s)}]

LEMMA Picked ==
  ASSUME NEW s, s # {}
  PROVE  Pick(s) \in s
BY DEF Pick

LEMMA Least ==
  ASSUME NEW T \in SUBSET Nat, T # {}
  PROVE  \E x \in T : \A y \in T : x <= y
<1>1. PICK x \in T : \A y \in T : ~ (<<y, x>> \in OpToRel(<, Nat))
  BY NatLessThanWellFounded, WFMin
<1>2. \A y \in T : ~ (y < x)
  BY <1>1 DEF OpToRel
<1>3. QED
  BY <1>2

(* What goes up by one from 0 on reaches every number up to K.             *)
LEMMA Rises ==
  ASSUME NEW K \in Nat, NEW P, 0 \in P, \A k \in 0 .. K - 1 : k \in P => k + 1 \in P
  PROVE  \A k \in 0 .. K : k \in P
<1> DEFINE Missed == {k \in 0 .. K : k \notin P}
<1>1. SUFFICES ASSUME Missed # {} PROVE FALSE
  OBVIOUS
<1>2. Missed \in SUBSET Nat
  OBVIOUS
<1>3. PICK m \in Nat : m \in Missed /\ \A y \in Missed : m <= y
  <2> HIDE DEF Missed
  <2>1. QED
    BY <1>1, <1>2, Least
<1>4. m - 1 \in 0 .. K - 1 /\ m - 1 + 1 = m
  BY <1>3
<1>5. m - 1 \notin Missed
  <2>1. ~ (m <= m - 1)
    BY <1>3
  <2>2. QED
    BY <1>3, <2>1
<1>6. QED
  BY <1>3, <1>4, <1>5

(* Taking one element out leaves a smaller set.                            *)
LEMMA OneLess ==
  ASSUME NEW S, IsFiniteSet(S), NEW s \in SUBSET S, s # {}
  PROVE  /\ Cardinality(s) \in Nat \ {0}
         /\ s \ {Pick(s)} \in SUBSET S
         /\ Cardinality(s \ {Pick(s)}) = Cardinality(s) - 1
<1>1. IsFiniteSet(s) /\ Pick(s) \in s
  BY FS_Subset, Picked
<1>2. Cardinality(s) \in Nat /\ Cardinality(s) # 0
  BY <1>1, FS_CardinalityType, FS_EmptySet
<1>3. Cardinality(s \ {Pick(s)}) = Cardinality(s) - 1
  BY <1>1, FS_RemoveElement
<1>4. QED
  BY <1>2, <1>3

(* What holds of the empty set, and of a set if it does without one of its *)
(* elements, holds of all subsets of a finite set.                         *)
LEMMA AllSubsets ==
  ASSUME NEW S, IsFiniteSet(S), NEW P, {} \in P,
         \A s \in SUBSET S : s # {} /\ s \ {Pick(s)} \in P => s \in P
  PROVE  \A s \in SUBSET S : s \in P
<1> DEFINE Q == {k \in 0 .. Cardinality(S) : \A s \in SUBSET S : Cardinality(s) = k => s \in P}
<1>1. Cardinality(S) \in Nat
  BY FS_CardinalityType
<1>2. 0 \in Q
  <2>1. ASSUME NEW s \in SUBSET S, Cardinality(s) = 0 PROVE s \in P
    <3>1. s = {}
      BY <2>1, FS_Subset, FS_EmptySet
    <3>2. QED
      BY <3>1
  <2>2. QED
    BY <1>1, <2>1
<1>3. ASSUME NEW k \in 0 .. Cardinality(S) - 1, k \in Q PROVE k + 1 \in Q
  <2>1. ASSUME NEW s \in SUBSET S, Cardinality(s) = k + 1 PROVE s \in P
    <3>1. s # {}
      BY <2>1, FS_EmptySet, k + 1 # 0
    <3>2. s \ {Pick(s)} \in SUBSET S /\ Cardinality(s \ {Pick(s)}) = k
      BY <2>1, <3>1, OneLess
    <3>3. QED
      BY <1>3, <3>1, <3>2
  <2>2. QED
    BY <1>1, <2>1
<1>4. \A k \in 0 .. Cardinality(S) : k \in Q
  <2> HIDE DEF Q
  <2>1. QED
    BY <1>1, <1>2, <1>3, Rises
<1>5. ASSUME NEW s \in SUBSET S PROVE Cardinality(s) \in 0 .. Cardinality(S)
  BY <1>1, FS_Subset, FS_CardinalityType
<1>6. QED
  BY <1>4, <1>5

LEMMA SumExists ==
  ASSUME NEW S, IsFiniteSet(S), NEW f \in [S -> Int]
  PROVE  \E g : IsSum(g, f)
<1> DEFINE Small(k) == {s \in SUBSET S : Cardinality(s) <= k}
           Adds(g, k) == \A s \in Small(k) : g[s] = IF s = {} THEN 0 ELSE f[Pick(s)] + g[s \ {Pick(s)}]
           P == {k \in 0 .. Cardinality(S) : \E g \in [Small(k) -> Int] : Adds(g, k)}
<1>1. Cardinality(S) \in Nat
  BY FS_CardinalityType
<1>2. \A s \in SUBSET S : Cardinality(s) \in 0 .. Cardinality(S)
  BY <1>1, FS_Subset, FS_CardinalityType
<1>3. 0 \in P
  <2> DEFINE g == [s \in Small(0) |-> 0]
  <2>1. \A s \in Small(0) : s = {}
    BY FS_Subset, FS_EmptySet, FS_CardinalityType
  <2>2. g \in [Small(0) -> Int] /\ Adds(g, 0)
    BY <2>1
  <2> HIDE DEF g, Adds, Small
  <2>3. QED
    BY <1>1, <2>2
<1>4. ASSUME NEW k \in 0 .. Cardinality(S) - 1, k \in P PROVE k + 1 \in P
  <2>1. PICK g \in [Small(k) -> Int] : Adds(g, k)
    BY <1>4
  <2> DEFINE h == [s \in Small(k + 1) |-> IF s \in Small(k) THEN g[s] ELSE f[Pick(s)] + g[s \ {Pick(s)}]]
  <2>2. ASSUME NEW s \in Small(k + 1), s # {}
        PROVE  Pick(s) \in S /\ s \ {Pick(s)} \in Small(k) /\ s \ {Pick(s)} \in Small(k + 1)
    <3>1. Cardinality(s) \in Nat \ {0} /\ s \ {Pick(s)} \in SUBSET S
          /\ Cardinality(s \ {Pick(s)}) = Cardinality(s) - 1
      BY <2>2, OneLess
    <3>2. Pick(s) \in s
      BY <2>2, Picked
    <3>3. Cardinality(s) - 1 <= k /\ Cardinality(s) - 1 <= k + 1
      BY <1>1, <3>1
    <3>4. QED
      BY <3>1, <3>2, <3>3
  <2>3. {} \in Small(k)
    BY FS_EmptySet
  <2>4. h \in [Small(k + 1) -> Int]
    <3>1. ASSUME NEW s \in Small(k + 1), s \notin Small(k) PROVE f[Pick(s)] + g[s \ {Pick(s)}] \in Int
      <4>1. s # {}
        BY <2>3, <3>1
      <4>2. Pick(s) \in S /\ s \ {Pick(s)} \in Small(k)
        BY <2>2, <4>1
      <4> HIDE DEF Small
      <4>3. f[Pick(s)] \in Int /\ g[s \ {Pick(s)}] \in Int
        BY <4>2
      <4>4. QED
        BY <4>3
    <3> HIDE DEF Small
    <3>2. QED
      BY <3>1
  <2>5. ASSUME NEW s \in Small(k + 1) PROVE h[s] = IF s = {} THEN 0 ELSE f[Pick(s)] + h[s \ {Pick(s)}]
    <3>1. CASE s = {}
      <4> HIDE DEF Small
      <4>1. h[s] = g[s] /\ g[s] = 0
        BY <2>1, <2>3, <3>1
      <4>2. QED
        BY <3>1, <4>1
    <3>2. CASE s # {}
      <4>1. s \ {Pick(s)} \in Small(k) /\ s \ {Pick(s)} \in Small(k + 1)
        BY <2>2, <3>2
      <4> HIDE DEF Small
      <4>2. h[s \ {Pick(s)}] = g[s \ {Pick(s)}]
        BY <4>1
      <4>3. h[s] = f[Pick(s)] + g[s \ {Pick(s)}]
        BY <2>1, <3>2
      <4>4. QED
        BY <3>2, <4>2, <4>3
    <3>3. QED
      BY <3>1, <3>2
  <2>6. k + 1 \in 0 .. Cardinality(S)
    BY <1>1
  <2>7. Adds(h, k + 1)
    BY <2>5
  <2> HIDE DEF h, Adds, Small
  <2>8. QED
    BY <2>4, <2>6, <2>7
<1>5. Cardinality(S) \in P
  <2> HIDE DEF P
  <2>1. QED
    BY <1>1, <1>3, <1>4, Rises
<1>6. PICK g \in [Small(Cardinality(S)) -> Int] : Adds(g, Cardinality(S))
  BY <1>5
<1>7. Small(Cardinality(S)) = SUBSET S
  BY <1>1, <1>2
<1>8. \A s \in SUBSET S : g[s] = IF s = {} THEN 0 ELSE f[Pick(s)] + g[s \ {Pick(s)}]
  <2> HIDE DEF Small
  <2>1. QED
    BY <1>6, <1>7
<1>9. DOMAIN f = S /\ g \in [SUBSET S -> Int]
  BY <1>6, <1>7
<1>10. IsSum(g, f)
  <2> HIDE DEF Small, Adds, P
  <2>1. QED
    BY <1>8, <1>9 DEF IsSum
<1>11. QED
  BY <1>10

(* SumOf is the sum of all values.                                         *)
LEMMA SumOfIs ==
  ASSUME NEW S, IsFiniteSet(S), NEW f \in [S -> Int]
  PROVE  \E g : SumOf(f) = g[S] /\ Tally(g, f, S)
<1> DEFINE g == CHOOSE h : IsSum(h, f)
<1>1. IsSum(g, f)
  BY SumExists
<1>2. DOMAIN f = S
  OBVIOUS
<1>3. SumOf(f) = g[DOMAIN f]
  BY DEF SumOf, FoldFunction, FoldFunctionOnSet, MapThenFoldSet, IsSum, Pick
<1> HIDE DEF g
<1>4. g = [s \in SUBSET S |-> IF s = {} THEN 0 ELSE f[Pick(s)] + g[s \ {Pick(s)}]]
  BY <1>1, <1>2 DEF IsSum
<1>5. \A s \in SUBSET S : g[s] = IF s = {} THEN 0 ELSE f[Pick(s)] + g[s \ {Pick(s)}]
  BY <1>4
<1>6. Tally(g, f, S)
  BY <1>5 DEF Tally
<1>7. QED
  BY <1>2, <1>3, <1>6

LEMMA SumIsInt ==
  ASSUME NEW S, IsFiniteSet(S), NEW f \in [S -> Int]
  PROVE  SumOf(f) \in Int
<1>1. PICK g : SumOf(f) = g[S] /\ Tally(g, f, S)
  BY SumOfIs
<1> DEFINE P == {s \in SUBSET S : g[s] \in Int}
<1>2. {} \in P
  BY <1>1 DEF Tally
<1>3. ASSUME NEW s \in SUBSET S, s # {}, s \ {Pick(s)} \in P PROVE s \in P
  <2>1. Pick(s) \in S
    BY <1>3, Picked
  <2>2. f[Pick(s)] \in Int /\ g[s \ {Pick(s)}] \in Int
    BY <1>3, <2>1
  <2>3. g[s] = f[Pick(s)] + g[s \ {Pick(s)}]
    BY <1>1, <1>3 DEF Tally
  <2>4. g[s] \in Int
    BY <2>2, <2>3
  <2>5. QED
    BY <2>4
<1>4. S \in P
  <2> HIDE DEF P
  <2>1. S \in SUBSET S
    OBVIOUS
  <2>2. QED
    BY <1>2, <1>3, <2>1, AllSubsets
<1>5. QED
  BY <1>1, <1>4

LEMMA SumOfZeros ==
  ASSUME NEW S, IsFiniteSet(S)
  PROVE  SumOf([x \in S |-> 0]) = 0
<1> DEFINE f == [x \in S |-> 0]
<1>1. f \in [S -> Int]
  OBVIOUS
<1>2. PICK g : SumOf(f) = g[S] /\ Tally(g, f, S)
  <2> HIDE DEF f
  <2>1. QED
    BY <1>1, SumOfIs
<1> DEFINE P == {s \in SUBSET S : g[s] = 0}
<1>3. {} \in P
  BY <1>2 DEF Tally
<1>4. ASSUME NEW s \in SUBSET S, s # {}, s \ {Pick(s)} \in P PROVE s \in P
  <2>1. Pick(s) \in S
    BY <1>4, Picked
  <2>2. f[Pick(s)] = 0 /\ g[s \ {Pick(s)}] = 0
    BY <1>4, <2>1
  <2>3. g[s] = f[Pick(s)] + g[s \ {Pick(s)}]
    BY <1>2, <1>4 DEF Tally
  <2>4. QED
    BY <2>2, <2>3
<1>5. S \in P
  <2> HIDE DEF P
  <2>1. S \in SUBSET S
    OBVIOUS
  <2>2. QED
    BY <1>3, <1>4, <2>1, AllSubsets
<1>6. QED
  BY <1>2, <1>5

(* One value that grows makes the sum grow by as much.                     *)
Grows(f, e, S, d, v) ==
  /\ f \in [S -> Nat] /\ e \in [S -> Nat] /\ d \in S /\ v \in Nat
  /\ e[d] = f[d] + v /\ \A x \in S \ {d} : e[x] = f[x]

LEMMA SumGrows ==
  ASSUME NEW S, IsFiniteSet(S), NEW f, NEW e, NEW d, NEW v, Grows(f, e, S, d, v)
  PROVE  SumOf(f) \in Int /\ SumOf(e) = SumOf(f) + v
<1>1. /\ f \in [S -> Int] /\ e \in [S -> Int] /\ d \in S /\ v \in Int
      /\ e[d] = f[d] + v /\ \A x \in S : x # d => e[x] = f[x]
  BY DEF Grows
<1>2. PICK g : SumOf(f) = g[S] /\ Tally(g, f, S)
  BY <1>1, SumOfIs
<1>3. PICK h : SumOf(e) = h[S] /\ Tally(h, e, S)
  BY <1>1, SumOfIs
<1> DEFINE P == {s \in SUBSET S : g[s] \in Int /\ h[s] = g[s] + (IF d \in s THEN v ELSE 0)}
<1>4. {} \in P
  BY <1>2, <1>3 DEF Tally
<1>5. ASSUME NEW s \in SUBSET S, s # {}, s \ {Pick(s)} \in P PROVE s \in P
  <2> DEFINE x == Pick(s)
             r == s \ {x}
  <2>1. x \in s /\ x \in S
    BY <1>5, Picked
  <2>2. g[s] = f[x] + g[r] /\ h[s] = e[x] + h[r]
    BY <1>2, <1>3, <1>5 DEF Tally
  <2>3. g[r] \in Int /\ h[r] = g[r] + (IF d \in r THEN v ELSE 0)
    BY <1>5
  <2>4. f[x] \in Int /\ f[d] \in Int
    BY <1>1, <2>1
  <2>5. CASE x = d
    <3>1. d \in s /\ d \notin r /\ e[x] = f[x] + v
      BY <1>1, <2>1, <2>5
    <3> HIDE DEF x, r
    <3>2. h[s] = g[s] + v /\ g[s] \in Int
      BY <1>1, <2>2, <2>3, <2>4, <2>5, <3>1
    <3>3. QED
      BY <3>1, <3>2
  <2>6. CASE x # d
    <3>1. (d \in s <=> d \in r) /\ e[x] = f[x]
      BY <1>1, <2>1, <2>6
    <3> HIDE DEF x, r
    <3>2. h[s] = g[s] + (IF d \in s THEN v ELSE 0) /\ g[s] \in Int
      BY <1>1, <2>2, <2>3, <2>4, <3>1
    <3>3. QED
      BY <3>2
  <2>7. QED
    BY <2>5, <2>6
<1>6. S \in P
  <2> HIDE DEF P
  <2>1. S \in SUBSET S
    OBVIOUS
  <2>2. QED
    BY <1>4, <1>5, <2>1, AllSubsets
<1>7. SumOf(e) = SumOf(f) + v
  BY <1>1, <1>2, <1>3, <1>6
<1>8. QED
  BY <1>1, <1>7, SumIsInt
-----------------------------------------------------------------------------
(* What is counted while an access is in progress: a miss before its       *)
(* request is, and a line that has no place yet.  From the eviction on the *)
(* place it will have is occupied, and what will be stored was loaded.     *)
Filled(c) == {s \in 0 .. SETS - 1 : dcache_tags[c][s] /= EMPTY}
Reserved(c) == {set_id_dcache(worker[t].line) :
                  t \in {u \in Threads : worker[u].pc = "insert" /\ worker[u].tile = c}}
Uncounted(t) == IF worker[t].pc \in {"count", "store"} THEN 1 ELSE 0
Unplaced(t) == IF worker[t].pc \in {"count", "store", "check", "evict"} THEN 1 ELSE 0

CountTypes == /\ dcache_occupancy \in [Tiles -> Nat]
              /\ dcache_misses \in Nat /\ dcache_evictions \in Nat
Occupies == \A c \in Tiles : dcache_occupancy[c] = Cardinality(Filled(c) \union Reserved(c))
Balanced == \A t \in Threads :
  /\ SumOf(mc_transactions) + Uncounted(t) = dcache_misses + SumOf(mc_writebacks)
  /\ dcache_misses = dcache_evictions + SumOf(dcache_occupancy) + Unplaced(t)
Loaded == \A t \in Threads :
  /\ worker[t].pc \in {"store", "insert"} => worker[t].trans = mc_transactions[ChannelOf[worker[t].tile]]
  /\ worker[t].pc = "insert" => worker[t].wbs = mc_writebacks[ChannelOf[worker[t].tile]]

CountInv == CountTypes /\ Occupies /\ Balanced /\ Loaded

LEMMA Channel ==
  ASSUME NEW c \in Tiles
  PROVE  ChannelOf[c] \in Channels
BY DataCacheAssumption DEF Channels, Range

LEMMA FiniteChannels == IsFiniteSet(Channels)
<1> DEFINE f == [c \in Tiles |-> ChannelOf[c]]
<1>1. Channels = {ChannelOf[c] : c \in Tiles}
  BY DataCacheAssumption DEF Channels, Range
<1>2. f \in Surjection(Tiles, Channels)
  BY <1>1 DEF Surjection
<1>3. QED
  BY <1>2, DataCacheAssumption, FS_Surjection

(* A counter of one channel that goes up by one, or not.                   *)
LEMMA CounterGrows ==
  ASSUME NEW f \in [Channels -> Nat], NEW q \in Channels, NEW v \in Nat,
         NEW e, e = [f EXCEPT ![q] = f[q] + v]
  PROVE  SumOf(e) = SumOf(f) + v /\ SumOf(f) \in Int
<1>1. f[q] + v \in Nat
  OBVIOUS
<1>2. Grows(f, e, Channels, q, v)
  BY <1>1 DEF Grows
<1>3. QED
  BY <1>2, FiniteChannels, SumGrows

(* The sums after a step are those of the counters after it.               *)
LEMMA SumsPrimed ==
  /\ SumOf(mc_transactions)' = SumOf(mc_transactions')
  /\ SumOf(mc_writebacks)' = SumOf(mc_writebacks')
  /\ SumOf(dcache_occupancy)' = SumOf(dcache_occupancy')
BY DEF SumOf, FoldFunction, FoldFunctionOnSet, MapThenFoldSet

(* The three sums are numbers.                                             *)
LEMMA SumsAreInt ==
  ASSUME CacheInv, CountInv
  PROVE  SumOf(mc_transactions) \in Int /\ SumOf(mc_writebacks) \in Int /\ SumOf(dcache_occupancy) \in Int
<1>1. mc_transactions \in [Channels -> Int] /\ mc_writebacks \in [Channels -> Int]
      /\ dcache_occupancy \in [Tiles -> Int]
  BY DEF CacheInv, Types, CountInv, CountTypes
<1>2. QED
  BY <1>1, SumIsInt, FiniteChannels, DataCacheAssumption

LEMMA FilledFinite ==
  ASSUME NEW c \in Tiles
  PROVE  IsFiniteSet(Filled(c)) /\ Cardinality(Filled(c)) \in Nat
<1>1. IsFiniteSet(0 .. SETS - 1)
  BY DataCacheAssumption, FS_Interval
<1>2. Filled(c) \in SUBSET (0 .. SETS - 1)
  BY DEF Filled
<1>3. QED
  BY <1>1, <1>2, FS_Subset, FS_CardinalityType

LEMMA InitCountInv == OneThread /\ Init => CountInv
<1> SUFFICES ASSUME OneThread, Init PROVE CountInv
  OBVIOUS
<1>1. CountTypes
  BY DEF Init, CountTypes
<1>2. ASSUME NEW c \in Tiles PROVE Filled(c) \union Reserved(c) = {}
  BY DEF Init, Idle, Filled, Reserved
<1>3. Occupies
  BY <1>2, FS_EmptySet DEF Occupies, Init
<1>4. /\ SumOf(mc_transactions) = 0 /\ SumOf(mc_writebacks) = 0 /\ SumOf(dcache_occupancy) = 0
  BY SumOfZeros, FiniteChannels, DataCacheAssumption DEF Init
<1>5. Balanced
  BY <1>4 DEF Balanced, Init, Idle, Uncounted, Unplaced
<1>6. Loaded
  BY DEF Loaded, Init, Idle
<1>7. QED
  BY <1>1, <1>3, <1>5, <1>6 DEF CountInv

(* Steps that neither evict nor insert leave the occupancy as it was.      *)
LEMMA SameOccupied ==
  ASSUME CountInv, UNCHANGED <<dcache_tags, dcache_occupancy>>,
         \A t \in Threads : worker[t].pc /= "insert" /\ worker'[t].pc /= "insert"
  PROVE  Occupies'
<1>1. ASSUME NEW c \in Tiles PROVE Filled(c)' = Filled(c) /\ Reserved(c)' = {} /\ Reserved(c) = {}
  BY DEF Filled, Reserved
<1>2. QED
  BY <1>1 DEF CountInv, Occupies

(* A step that touches neither the caches nor the miss in progress.        *)
LEMMA UntouchedCounts ==
  ASSUME CountInv, UNCHANGED <<caches, counters, worker>>
  PROVE  CountInv'
BY DEF caches, counters, CountInv, CountTypes, Occupies, Balanced, Loaded, Filled, Reserved, Uncounted, Unplaced

(* A lookup that misses is a miss whose request is not counted yet.        *)
LEMMA LookupCounts ==
  ASSUME OneThread, CacheInv, CountInv, NEW t \in Threads, Lookup(t)
  PROVE  CountInv'
<1> DEFINE w == Head(todo[t])
           next == [pc |-> "count", tile |-> w.tile, line |-> cache_tag(w.word)]
<1>1. \A u \in Threads : u = t
  BY DEF OneThread
<1>2. /\ worker[t].pc = "idle"
      /\ UNCHANGED <<dcache_tags, dcache_occupancy, mc_transactions, mc_writebacks, dcache_evictions>>
  BY DEF Lookup, Does, caches
<1>3. \/ worker' = worker /\ dcache_misses' = dcache_misses
      \/ /\ worker' = [worker EXCEPT ![t] = next]
         /\ dcache_misses' = dcache_misses + 1
  BY DEF Lookup
<1>4. worker \in [Threads -> Work]
  BY DEF CacheInv, Types
<1>5. \/ worker'[t].pc = "idle" /\ dcache_misses' = dcache_misses
      \/ worker'[t].pc = "count" /\ dcache_misses' = dcache_misses + 1
  BY <1>2, <1>3, <1>4
<1>6. CountTypes'
  BY <1>2, <1>5 DEF CountInv, CountTypes
<1>7. Occupies'
  BY <1>1, <1>2, <1>5, SameOccupied
<1>8. Balanced'
  BY <1>1, <1>2, <1>5, SumsAreInt DEF CountInv, CountTypes, Balanced, Uncounted, Unplaced
<1>9. Loaded'
  BY <1>1, <1>5 DEF Loaded
<1>10. QED
  BY <1>6, <1>7, <1>8, <1>9 DEF CountInv

(* A value that is written through is one request and one write-back.      *)
LEMMA WriteCounts ==
  ASSUME OneThread, TaskInv, CacheInv, CountInv, NEW t \in Threads, WriteWord(t)
  PROVE  CountInv'
<1> DEFINE q == ChannelOf[Head(todo[t]).tile]
<1>1. \A u \in Threads : u = t
  BY DEF OneThread
<1>2. worker[t].pc = "idle" /\ UNCHANGED <<dcache_tags, dcache_occupancy, dcache_misses, dcache_evictions, worker>>
  BY DEF WriteWord, Does
<1>3. q \in Channels
  <2>1. Head(todo[t]).tile \in Tiles
    BY NextOp DEF WriteWord
  <2>2. QED
    BY <2>1, Channel
<1>4. mc_transactions \in [Channels -> Nat] /\ mc_writebacks \in [Channels -> Nat]
  BY DEF CacheInv, Types
<1>5. \/ UNCHANGED <<mc_transactions, mc_writebacks>>
      \/ /\ mc_writebacks' = [mc_writebacks EXCEPT ![q] = mc_writebacks[q] + 1]
         /\ mc_transactions' = [mc_transactions EXCEPT ![q] = mc_transactions[q] + 1]
  BY DEF WriteWord
<1> HIDE DEF q
<1>6. \/ UNCHANGED <<mc_transactions, mc_writebacks>>
      \/ /\ SumOf(mc_writebacks)' = SumOf(mc_writebacks) + 1
         /\ SumOf(mc_transactions)' = SumOf(mc_transactions) + 1
  <2>1. CASE mc_writebacks' = [mc_writebacks EXCEPT ![q] = mc_writebacks[q] + 1]
             /\ mc_transactions' = [mc_transactions EXCEPT ![q] = mc_transactions[q] + 1]
    <3>1. SumOf(mc_writebacks') = SumOf(mc_writebacks) + 1
      <4>1. mc_writebacks' = [mc_writebacks EXCEPT ![q] = mc_writebacks[q] + 1]
        BY <2>1
      <4>2. mc_writebacks \in [Channels -> Nat]
        BY <1>4
      <4>3. QED
        BY <1>3, <4>1, <4>2, CounterGrows, 1 \in Nat
    <3>2. SumOf(mc_transactions') = SumOf(mc_transactions) + 1
      <4>1. mc_transactions' = [mc_transactions EXCEPT ![q] = mc_transactions[q] + 1]
        BY <2>1
      <4>2. mc_transactions \in [Channels -> Nat]
        BY <1>4
      <4>3. QED
        BY <1>3, <4>1, <4>2, CounterGrows, 1 \in Nat
    <3>3. QED
      BY <3>1, <3>2, SumsPrimed
  <2>2. QED
    BY <1>5, <2>1
<1>7. CountTypes'
  BY <1>2 DEF CountInv, CountTypes
<1>8. Occupies'
  BY <1>1, <1>2, SameOccupied
<1>9. Balanced'
  BY <1>1, <1>2, <1>6, SumsAreInt DEF CountInv, CountTypes, Balanced, Uncounted, Unplaced
<1>10. Loaded'
  BY <1>1, <1>2 DEF Loaded
<1>11. QED
  BY <1>7, <1>8, <1>9, <1>10 DEF CountInv

(* The counter is loaded, and stored increased: no other thread changed it *)
(* in between.                                                             *)
LEMMA LoadCounts ==
  ASSUME OneThread, CacheInv, CountInv, NEW t \in Threads, CountLoad(t)
  PROVE  CountInv'
<1> DEFINE w == worker[t]
           next == [pc |-> "store", tile |-> w.tile, line |-> w.line,
                    trans |-> mc_transactions[ChannelOf[w.tile]]]
<1>1. \A u \in Threads : u = t
  BY DEF OneThread
<1>2. w.pc = "count" /\ worker' = [worker EXCEPT ![t] = next]
      /\ UNCHANGED <<dcache_tags, dcache_occupancy, mc_transactions, mc_writebacks, dcache_misses, dcache_evictions>>
  BY DEF CountLoad, counters, caches
<1>3. worker'[t] = next
  BY <1>2 DEF CacheInv, Types
<1>4. worker'[t].pc = "store" /\ worker'[t].trans = mc_transactions[ChannelOf[worker'[t].tile]]
  BY <1>3
<1> HIDE DEF next
<1>5. CountTypes'
  BY <1>2 DEF CountInv, CountTypes
<1>6. Occupies'
  BY <1>1, <1>2, <1>4, SameOccupied
<1>7. Balanced'
  BY <1>1, <1>2, <1>4, SumsAreInt DEF CountInv, CountTypes, Balanced, Uncounted, Unplaced
<1>8. Loaded'
  BY <1>1, <1>2, <1>4 DEF Loaded
<1>9. QED
  BY <1>5, <1>6, <1>7, <1>8 DEF CountInv

LEMMA StoreCounts ==
  ASSUME OneThread, CacheInv, CountInv, NEW t \in Threads, CountStore(t)
  PROVE  CountInv'
<1> DEFINE w == worker[t]
           q == ChannelOf[w.tile]
<1>1. \A u \in Threads : u = t
  BY DEF OneThread
<1>2. w.pc = "store" /\ mc_transactions' = [mc_transactions EXCEPT ![q] = w.trans + 1]
      /\ worker' = [worker EXCEPT ![t] = [pc |-> "check", tile |-> w.tile, line |-> w.line]]
      /\ UNCHANGED <<dcache_tags, dcache_occupancy, mc_writebacks, dcache_misses, dcache_evictions>>
  BY DEF CountStore, caches
<1>3. worker'[t].pc = "check"
  BY <1>2 DEF CacheInv, Types
<1>4. q \in Channels
  BY <1>2, WorkFields, Channel DEF CacheInv, Types, Busy
<1>5. w.trans = mc_transactions[q]
  BY <1>2 DEF CountInv, Loaded
<1>6. mc_transactions \in [Channels -> Nat]
  BY DEF CacheInv, Types
<1>7. SumOf(mc_transactions)' = SumOf(mc_transactions) + 1
  <2> HIDE DEF q, w
  <2>1. SumOf(mc_transactions') = SumOf(mc_transactions) + 1
    BY <1>2, <1>4, <1>5, <1>6, CounterGrows, 1 \in Nat
  <2>2. QED
    BY <2>1, SumsPrimed
<1>8. CountTypes'
  BY <1>2 DEF CountInv, CountTypes
<1>9. Occupies'
  BY <1>1, <1>2, <1>3, SameOccupied
<1>10. Balanced'
  BY <1>1, <1>2, <1>3, <1>7, SumsAreInt DEF CountInv, CountTypes, Balanced, Uncounted, Unplaced
<1>11. Loaded'
  BY <1>1, <1>3 DEF Loaded
<1>12. QED
  BY <1>8, <1>9, <1>10, <1>11 DEF CountInv

LEMMA CheckCounts ==
  ASSUME OneThread, CacheInv, CountInv, NEW t \in Threads, Check(t)
  PROVE  CountInv'
<1>1. \A u \in Threads : u = t
  BY DEF OneThread
<1>2. worker[t].pc = "check" /\ dcache_freq[worker[t].line] = 0
      /\ UNCHANGED <<dcache_tags, dcache_occupancy, mc_transactions, mc_writebacks, dcache_misses, dcache_evictions>>
  BY DEF Check, CacheInv, Missing, Busy, counters, caches
<1>3. worker' = [worker EXCEPT ![t].pc = "evict"]
  <2>1. \E seen \in {0, dcache_freq[worker[t].line]} :
          worker' = [worker EXCEPT ![t].pc = IF seen = 0 THEN "evict" ELSE "aborted"]
    BY DEF Check
  <2>2. QED
    BY <1>2, <2>1
<1>4. worker'[t].pc = "evict"
  <2>1. worker[t] \in Work /\ DOMAIN worker = Threads
    BY DEF CacheInv, Types
  <2>2. "pc" \in DOMAIN worker[t]
    BY <1>2, <2>1 DEF Work, Idle
  <2>3. QED
    BY <1>3, <2>1, <2>2
<1>5. CountTypes'
  BY <1>2 DEF CountInv, CountTypes
<1>6. Occupies'
  BY <1>1, <1>2, <1>4, SameOccupied
<1>7. Balanced'
  BY <1>1, <1>2, <1>4, SumsAreInt DEF CountInv, CountTypes, Balanced, Uncounted, Unplaced
<1>8. Loaded'
  BY <1>1, <1>4 DEF Loaded
<1>9. QED
  BY <1>5, <1>6, <1>7, <1>8 DEF CountInv

(* The line gets a place: that of its victim, which is counted, or one     *)
(* that was free.                                                          *)
LEMMA EvictCounts ==
  ASSUME OneThread, CacheInv, CountInv, NEW t \in Threads, Evict(t)
  PROVE  CountInv'
<1> DEFINE w == worker[t]
           q == ChannelOf[w.tile]
           s == set_id_dcache(w.line)
           tag == dcache_tags[w.tile][s]
           gain == IF tag = EMPTY THEN 1 ELSE 0
<1>1. \A u \in Threads : u = t
  BY DEF OneThread
<1>2. /\ w.pc = "evict"
      /\ worker'[t].pc = "insert" /\ worker'[t].tile = w.tile /\ worker'[t].line = w.line
      /\ worker'[t].trans = mc_transactions[q] /\ worker'[t].wbs = mc_writebacks[q]
  BY DEF Evict, CacheInv, Types
<1>3. /\ dcache_occupancy' = [dcache_occupancy EXCEPT ![w.tile] = dcache_occupancy[w.tile] + gain]
      /\ dcache_evictions' = IF tag = EMPTY THEN dcache_evictions ELSE dcache_evictions + 1
      /\ UNCHANGED <<dcache_tags, mc_transactions, mc_writebacks, dcache_misses>>
  BY DEF Evict, Occupied, dcache_replacement_policy
<1>4. w.tile \in Tiles /\ s \in 0 .. SETS - 1
  BY <1>2, WorkFields, SetOfLine DEF CacheInv, Types, Busy
<1>5. dcache_occupancy \in [Tiles -> Nat] /\ gain \in Nat
  BY DEF CountInv, CountTypes
<1>6. SumOf(dcache_occupancy)' = SumOf(dcache_occupancy) + gain
  <2>1. dcache_occupancy[w.tile] + gain \in Nat
    BY <1>4, <1>5
  <2> HIDE DEF w, gain
  <2>2. Grows(dcache_occupancy, dcache_occupancy', Tiles, w.tile, gain)
    BY <1>3, <1>4, <1>5, <2>1 DEF Grows
  <2>3. SumOf(dcache_occupancy') = SumOf(dcache_occupancy) + gain
    BY <2>2, DataCacheAssumption, SumGrows
  <2>4. QED
    BY <2>3, SumsPrimed
<1>7. CountTypes'
  <2>1. dcache_occupancy' \in [Tiles -> Nat]
    <3>1. dcache_occupancy[w.tile] + gain \in Nat
      BY <1>4, <1>5
    <3> HIDE DEF w, gain
    <3>2. QED
      BY <1>3, <1>5, <3>1
  <2>2. QED
    BY <1>3, <2>1 DEF CountInv, CountTypes
<1>8. PICK p \in Tiles, r \in 0 .. SETS - 1 : p = w.tile /\ r = s
  BY <1>4
<1>9. Occupies'
  <2>1. \A c \in Tiles : Filled(c)' = Filled(c) /\ Reserved(c) = {}
    BY <1>1, <1>2, <1>3 DEF Filled, Reserved
  <2>2. ASSUME NEW c \in Tiles, c # p PROVE Reserved(c)' = {}
    BY <1>1, <1>2, <1>8, <2>2 DEF Reserved
  <2>3. Reserved(p)' = {r}
    <3>1. {u \in Threads : worker'[u].pc = "insert" /\ worker'[u].tile = p} = {t}
      BY <1>1, <1>2, <1>8
    <3>2. Reserved(p)' = {set_id_dcache(worker'[u].line) : u \in {t}}
      BY <3>1 DEF Reserved, set_id_dcache
    <3>3. QED
      BY <1>2, <1>8, <3>2
  <2>4. ASSUME NEW c \in Tiles, c # p
        PROVE  dcache_occupancy'[c] = Cardinality(Filled(c) \union Reserved(c))'
    <3>1. dcache_occupancy'[c] = dcache_occupancy[c]
      BY <1>3, <1>5, <1>8, <2>4
    <3>2. QED
      BY <2>1, <2>2, <2>4, <3>1 DEF CountInv, Occupies
  <2>5. dcache_occupancy'[p] = Cardinality(Filled(p) \union Reserved(p))'
    <3>1. dcache_occupancy'[p] = dcache_occupancy[p] + gain
      BY <1>3, <1>5, <1>8
    <3>2. dcache_occupancy[p] = Cardinality(Filled(p))
      BY <2>1 DEF CountInv, Occupies
    <3>3. tag = EMPTY <=> r \notin Filled(p)
      BY <1>8 DEF Filled
    <3>4. Cardinality(Filled(p) \union {r}) = Cardinality(Filled(p)) + gain
      <4>1. IsFiniteSet(Filled(p)) /\ Cardinality(Filled(p)) \in Nat
        BY FilledFinite
      <4>2. Cardinality(Filled(p) \union {r})
              = IF r \in Filled(p) THEN Cardinality(Filled(p)) ELSE Cardinality(Filled(p)) + 1
        BY <4>1, FS_AddElement
      <4>3. QED
        BY <3>3, <4>1, <4>2
    <3>5. Cardinality(Filled(p) \union Reserved(p))' = Cardinality(Filled(p) \union {r})
      <4>1. Filled(p)' = Filled(p)
        BY <1>3 DEF Filled
      <4>2. QED
        BY <2>3, <4>1
    <3>6. QED
      BY <3>1, <3>2, <3>4, <3>5
  <2>6. \A c \in Tiles : dcache_occupancy'[c] = Cardinality(Filled(c) \union Reserved(c))'
    BY <2>4, <2>5
  <2>7. QED
    BY <2>6 DEF Occupies
<1>10. Balanced'
  <2>1. dcache_evictions' + gain = dcache_evictions + 1
    BY <1>3 DEF CountInv, CountTypes
  <2>2. Uncounted(t) = 0 /\ Unplaced(t) = 1 /\ Uncounted(t)' = 0 /\ Unplaced(t)' = 0
    BY <1>2 DEF Uncounted, Unplaced
  <2>3. dcache_evictions \in Nat /\ dcache_evictions' \in Nat /\ dcache_misses \in Nat
    BY <1>7 DEF CountInv, CountTypes
  <2> HIDE DEF w, gain
  <2>4. /\ SumOf(mc_transactions)' + Uncounted(t)' = dcache_misses' + SumOf(mc_writebacks)'
        /\ dcache_misses' = dcache_evictions' + SumOf(dcache_occupancy)' + Unplaced(t)'
    BY <1>3, <1>5, <1>6, <2>1, <2>2, <2>3, SumsAreInt DEF CountInv, Balanced
  <2>5. QED
    BY <1>1, <2>4 DEF Balanced
<1>11. Loaded'
  BY <1>1, <1>2, <1>3 DEF Loaded
<1>12. QED
  BY <1>7, <1>9, <1>10, <1>11 DEF CountInv

(* The write-back is a request as well, and the place is taken.            *)
LEMMA InsertCounts ==
  ASSUME OneThread, CacheInv, CountInv, NEW t \in Threads, Insert(t)
  PROVE  CountInv'
<1> DEFINE w == worker[t]
           q == ChannelOf[w.tile]
           s == set_id_dcache(w.line)
           gain == IF w.back THEN 1 ELSE 0
<1>1. \A u \in Threads : u = t
  BY DEF OneThread
<1>2. w.pc = "insert" /\ worker'[t].pc = "idle"
  BY DEF Insert, Idle, CacheInv, Types
<1>3. w.tile \in Tiles /\ s \in 0 .. SETS - 1 /\ w.line \in Lines
  BY <1>2, WorkFields, SetOfLine DEF CacheInv, Types, Busy
<1>4. q \in Channels
  BY <1>3, Channel
<1>5. mc_transactions \in [Channels -> Nat] /\ mc_writebacks \in [Channels -> Nat]
      /\ dcache_tags \in [Tiles -> [0 .. SETS - 1 -> Lines \union {EMPTY}]]
  BY DEF CacheInv, Types
<1>6. w.trans = mc_transactions[q] /\ w.wbs = mc_writebacks[q]
  BY <1>2 DEF CountInv, Loaded
<1>7. mc_transactions[q] + 0 = mc_transactions[q] /\ mc_writebacks[q] + 0 = mc_writebacks[q]
  BY <1>4, <1>5
<1>8. /\ mc_writebacks' = [mc_writebacks EXCEPT ![q] = mc_writebacks[q] + gain]
      /\ mc_transactions' = [mc_transactions EXCEPT ![q] = mc_transactions[q] + gain]
  <2>1. CASE w.back
    BY <1>6, <2>1 DEF Insert, Requests
  <2>2. CASE ~w.back
    <3>1. mc_writebacks' = mc_writebacks /\ mc_transactions' = [mc_transactions EXCEPT ![q] = mc_transactions[q]]
      BY <2>2 DEF Insert, Requests
    <3>2. mc_writebacks = [mc_writebacks EXCEPT ![q] = mc_writebacks[q]]
      BY <1>4, <1>5
    <3>3. QED
      BY <1>7, <2>2, <3>1, <3>2
  <2>3. QED
    BY <2>1, <2>2
<1>9. /\ dcache_tags' = [dcache_tags EXCEPT ![w.tile][s] = w.line]
      /\ UNCHANGED <<dcache_occupancy, dcache_misses, dcache_evictions>>
  BY DEF Insert
<1>10. /\ SumOf(mc_writebacks)' = SumOf(mc_writebacks) + gain
       /\ SumOf(mc_transactions)' = SumOf(mc_transactions) + gain
       /\ gain \in Nat
  <2>1. gain \in Nat
    OBVIOUS
  <2> HIDE DEF q, w, gain
  <2>2. SumOf(mc_writebacks') = SumOf(mc_writebacks) + gain
    BY <1>4, <1>5, <1>8, <2>1, CounterGrows
  <2>3. SumOf(mc_transactions') = SumOf(mc_transactions) + gain
    BY <1>4, <1>5, <1>8, <2>1, CounterGrows
  <2>4. QED
    BY <2>1, <2>2, <2>3, SumsPrimed
<1>11. CountTypes'
  BY <1>9 DEF CountInv, CountTypes
<1>12. PICK p \in Tiles, r \in 0 .. SETS - 1 : p = w.tile /\ r = s
  BY <1>3
<1>13. Occupies'
  <2>1. ASSUME NEW c \in Tiles PROVE Reserved(c)' = {}
    BY <1>1, <1>2 DEF Reserved
  <2>2. ASSUME NEW c \in Tiles, c # p PROVE Filled(c)' = Filled(c) /\ Reserved(c) = {}
    <3>1. dcache_tags'[c] = dcache_tags[c]
      BY <1>5, <1>9, <1>12, <2>2
    <3>2. QED
      BY <1>1, <1>12, <2>2, <3>1 DEF Filled, Reserved
  <2>3. Filled(p)' = Filled(p) \union {r}
    <3>1. \A k \in 0 .. SETS - 1 : dcache_tags'[p][k] = IF k = r THEN w.line ELSE dcache_tags[p][k]
      BY <1>5, <1>9, <1>12
    <3>2. w.line # EMPTY
      BY <1>3, SetOfLine
    <3> HIDE DEF w, s
    <3>3. ASSUME NEW k \in 0 .. SETS - 1
          PROVE  dcache_tags'[p][k] # EMPTY <=> (dcache_tags[p][k] # EMPTY \/ k = r)
      BY <3>1, <3>2
    <3>4. Filled(p)' = {k \in 0 .. SETS - 1 : dcache_tags'[p][k] # EMPTY}
      BY DEF Filled, EMPTY
    <3>5. QED
      BY <3>3, <3>4 DEF Filled
  <2>4. Reserved(p) = {r}
    <3>1. {u \in Threads : worker[u].pc = "insert" /\ worker[u].tile = p} = {t}
      BY <1>1, <1>2, <1>12
    <3>2. Reserved(p) = {set_id_dcache(worker[u].line) : u \in {t}}
      BY <3>1 DEF Reserved
    <3>3. QED
      BY <1>12, <3>2
  <2>5. ASSUME NEW c \in Tiles PROVE Filled(c)' \union Reserved(c)' = Filled(c) \union Reserved(c)
    <3>1. CASE c = p
      BY <2>1, <2>3, <2>4, <3>1
    <3>2. CASE c # p
      BY <2>1, <2>2, <3>2
    <3>3. QED
      BY <3>1, <3>2
  <2>6. QED
    BY <1>9, <2>5 DEF CountInv, Occupies
<1>14. Balanced'
  <2>1. Uncounted(t) = 0 /\ Unplaced(t) = 0 /\ Uncounted(t)' = 0 /\ Unplaced(t)' = 0
    BY <1>2 DEF Uncounted, Unplaced
  <2>2. dcache_evictions \in Nat /\ dcache_misses \in Nat
    BY DEF CountInv, CountTypes
  <2> HIDE DEF w, gain
  <2>3. /\ SumOf(mc_transactions)' + Uncounted(t)' = dcache_misses' + SumOf(mc_writebacks)'
        /\ dcache_misses' = dcache_evictions' + SumOf(dcache_occupancy)' + Unplaced(t)'
    BY <1>9, <1>10, <2>1, <2>2, SumsAreInt DEF CountInv, Balanced
  <2>4. QED
    BY <1>1, <2>3 DEF Balanced
<1>15. Loaded'
  BY <1>1, <1>2 DEF Loaded
<1>16. QED
  BY <1>11, <1>13, <1>14, <1>15 DEF CountInv

LEMMA NextCountInv == OneThread /\ TaskInv /\ CacheInv /\ CountInv /\ [Next]_vars => CountInv'
<1> SUFFICES ASSUME OneThread, TaskInv, CacheInv, CountInv, [Next]_vars PROVE CountInv'
  OBVIOUS
<1>1. CASE UNCHANGED vars
  BY <1>1, UntouchedCounts DEF vars, caches, counters
<1>2. ASSUME NEW t \in Threads, ReadTask(t) \/ task3_kernel(t) \/ task4_kernel(t) \/ WriteTask(t)
      PROVE  CountInv'
  BY <1>2, TaskBegins, UntouchedCounts DEF Begin
<1>3. ASSUME NEW t \in Threads, Store(t) PROVE CountInv'
  BY <1>3, UntouchedCounts DEF Store
<1>4. QED
  BY <1>1, <1>2, <1>3, LookupCounts, WriteCounts, LoadCounts, StoreCounts, CheckCounts, EvictCounts, InsertCounts
     DEF Next

LEMMA CountInvAccounted == CacheInv /\ CountInv => Accounted
<1> SUFFICES ASSUME CacheInv, CountInv, Quiet, Cardinality(DOMAIN worker) = 1
             PROVE  /\ SumOf(mc_transactions) = dcache_misses + SumOf(mc_writebacks)
                    /\ dcache_misses = dcache_evictions + SumOf(dcache_occupancy)
                    /\ \A c \in DOMAIN dcache_tags :
                         dcache_occupancy[c] = Cardinality({s \in DOMAIN dcache_tags[c] : dcache_tags[c][s] /= EMPTY})
  BY DEF Accounted
<1>1. /\ DOMAIN worker = Threads /\ DOMAIN dcache_tags = Tiles
      /\ \A c \in Tiles : DOMAIN dcache_tags[c] = 0 .. SETS - 1
  BY DEF CacheInv, Types
<1>2. Threads # {}
  BY <1>1, FS_EmptySet
<1>3. PICK t \in Threads : worker[t].pc = "idle"
  BY <1>1, <1>2 DEF Quiet
<1>4. /\ SumOf(mc_transactions) = dcache_misses + SumOf(mc_writebacks)
      /\ dcache_misses = dcache_evictions + SumOf(dcache_occupancy)
  BY <1>3, SumsAreInt DEF CountInv, CountTypes, Balanced, Uncounted, Unplaced
<1>5. ASSUME NEW c \in Tiles
      PROVE  dcache_occupancy[c] = Cardinality({s \in DOMAIN dcache_tags[c] : dcache_tags[c][s] /= EMPTY})
  <2>1. Reserved(c) = {}
    BY <1>1 DEF Quiet, Reserved
  <2>2. {s \in DOMAIN dcache_tags[c] : dcache_tags[c][s] /= EMPTY} = Filled(c)
    BY <1>1 DEF Filled
  <2>3. QED
    BY <2>1, <2>2 DEF CountInv, Occupies
<1>6. QED
  BY <1>1, <1>4, <1>5

(* With one thread the statistics of the memory add up, whatever is        *)
(* accessed: each request of a channel is a miss or a write-back, each     *)
(* line that was fetched is in a cache or was evicted, and the occupancy   *)
(* of a tile is the number of its lines.                                   *)
THEOREM CountersAddUp == OneThread => (Spec => []Accounted)
<1>1. SUFFICES ASSUME OneThread PROVE Spec => []Accounted
  OBVIOUS
<1>2. Init => TaskInv /\ CacheInv /\ CountInv
  BY <1>1, InitTaskInv, InitCacheInv, InitCountInv
<1>3. TaskInv /\ CacheInv /\ CountInv /\ [Next]_vars => TaskInv' /\ CacheInv' /\ CountInv'
  BY <1>1, NextTaskInv, NextCacheInv, NextCountInv
<1>4. CacheInv /\ CountInv => Accounted
  BY CountInvAccounted
<1>5. QED
  BY <1>2, <1>3, <1>4, PTL DEF Spec
=============================================================================
