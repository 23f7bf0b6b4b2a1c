------------------------------ MODULE DataCache ------------------------------
(***************************************************************************)
(* The data cache of the tiles (src/src/mem/data_cache.h): which line of   *)
(* the data set each tile keeps, the global validity of the lines, and     *)
(* the transactions counted on the memory channels.                        *)
(*                                                                         *)
(* A line number is a global tag, and dcache_freq is one array for all     *)
(* tiles: a line one tile has fetched is a hit for every tile.  Arrays are *)
(* laid out one after the other and cut among the tiles without regard to  *)
(* lines, so neighbouring tiles share lines.  The sets are direct mapped,  *)
(* as DIRECT_MAPPED is fixed at 1.                                         *)
(*                                                                         *)
(* Two families of functions use the cache.  check_dcache() decides by the *)
(* address whether a line must be written back (BY_ADDRESS); get_dcache()  *)
(* and write_dcache() mark the lines that are written.  Latencies and the  *)
(* prefetch tag change cycles only and are left out.                       *)
(*                                                                         *)
(* check_dcache() only tells the cache that a word is used: the tasks load *)
(* and store the word itself before or after the call, or without one.     *)
(* A task is here the sequence of its accesses and stores.                 *)
(***************************************************************************)
EXTENDS Integers, Sequences, FiniteSets, FiniteSetsExt, Functions

CONSTANTS
  Threads,        \* worker threads
  Tiles,          \* tile numbers 0..n-1
  ThreadOf,       \* the thread that runs the tasks of a tile
  ChannelOf,      \* the memory channel of a tile (mc_queue_id)
  BY_ADDRESS,     \* check_dcache() rather than get_dcache(), write_dcache()
  LINE_WORDS,     \* dcache_words_in_line
  SETS,           \* dcache_sets
  NODES,          \* graph->nodes
  RET_LEN,        \* words of ret, the first array: NODES, in SPMM NODES * B_numcols
  RET_PER_TILE,   \* and those of a tile
  ARRAYS,         \* the arrays that tasks only read: first word, length, words per tile
  FRONTIER_BASE,  \* frontier_array_base(): behind the arrays
  bitmap_len,     \* words of a tile's part of the bitmap; 0: no frontier
  fr_head_offset, \* places in the list of a tile's blocks
  FOOTPRINT,      \* data_footprint_in_words
  MAX_TASKS       \* bound: tasks of a behaviour

VARIABLES
  dcache_freq,      \* of a line: 0 nowhere, 1 cached, 2 cached and written
  dcache_tags,      \* the line in each set of each tile
  dcache_occupancy, \* lines in the cache of a tile
  mc_transactions,  \* requests of a memory channel
  mc_writebacks,    \* and those that write
  dcache_misses,    \* statistics; no step reads them, so they are kept exact
  dcache_evictions,
  worker,           \* the miss in progress in each thread
  todo,             \* what the task of each thread has yet to access and store
  frontier_list,    \* of a tile: where the tail of its list is, and the blocks listed
  unsaved,          \* words stored since their line was last written to memory
  begun             \* number of tasks begun

vars == <<dcache_freq, dcache_tags, dcache_occupancy, mc_transactions, mc_writebacks,
          dcache_misses, dcache_evictions, worker, todo, frontier_list, unsaved, begun>>

counters == <<mc_transactions, mc_writebacks, dcache_misses, dcache_evictions>>
caches == <<dcache_freq, dcache_tags, dcache_occupancy>>

EMPTY == -1                                     \* UINT64_MAX as a tag
Lines == 0 .. (FOOTPRINT - 1) \div LINE_WORDS
Channels == Range(ChannelOf)

cache_tag(word) == word \div LINE_WORDS
set_id_dcache(tag) == tag % SETS

-----------------------------------------------------------------------------
(* What tasks do, one word after the other.                                *)
Op(o, c, word) == [op |-> o, tile |-> c, word |-> word]
Look(c, word) == Op("look", c, word)    \* check_dcache() or get_dcache()
Put(c, word) == Op("put", c, word)      \* the store itself
Write(c, word) == Op("write", c, word)  \* write_dcache(), which does both

(* The elements of an array that are on tile c.                            *)
Own(a, c) == {i \in c * a.per_tile .. (c + 1) * a.per_tile - 1 : i < a.len}
ret == [base |-> 0, len |-> RET_LEN, per_tile |-> RET_PER_TILE]

(* A tile's part of the bitmap; and of the list, which ends with its head  *)
(* and tail.                                                               *)
bitmap(c, block) == FRONTIER_BASE + c * bitmap_len + block
list(c, place) == FRONTIER_BASE + Cardinality(Tiles) * bitmap_len + c * (fr_head_offset + 3) + place
head == fr_head_offset
tail == fr_head_offset + 1

(* The block is stored in the list before that word is accessed; the head  *)
(* is stored without an access.                                            *)
add_to_frontier_list(c, place) ==
  <<Put(c, list(c, place)), Look(c, list(c, place)), Put(c, list(c, head))>>

block(node) == (node % RET_PER_TILE) \div 32
Listed(c, b) == \E k \in DOMAIN frontier_list[c].blocks : frontier_list[c].blocks[k] = b
Place(c, k) == (frontier_list[c].tail + k) % fr_head_offset

(* A node joins the others of its block, or its block is listed.  The      *)
(* bitmap is accessed before the list and stored after it.                 *)
add_to_frontier(c, node) ==
  LET word == bitmap(c, block(node))
  IN IF Listed(c, block(node)) THEN <<Look(c, word), Put(c, word)>>
     ELSE <<Look(c, word)>> \o add_to_frontier_list(c, Place(c, Len(frontier_list[c].blocks))) \o <<Put(c, word)>>

(* Fault: the node is added before its result is stored.                   *)
Improve_late(c, n) ==
  IF bitmap_len = 0 THEN <<Look(c, n), Put(c, n)>> ELSE <<Look(c, n)>> \o add_to_frontier(c, n) \o <<Put(c, n)>>

(* Task 3 has a better result.                                             *)
Improve(c, n) ==
  IF bitmap_len = 0 THEN <<Look(c, n), Put(c, n)>> ELSE <<Look(c, n), Put(c, n)>> \o add_to_frontier(c, n)

(* Task 4 goes through the first n blocks of the list and stores what is   *)
(* left of each; the tail is stored at the end without an access.          *)
Explore(c, n) ==
  LET word(k) == bitmap(c, frontier_list[c].blocks[k \div 3 + 1])
  IN [k \in 1 .. 3 * n + 1 |->
        IF k = 3 * n + 1 THEN Put(c, list(c, tail))
        ELSE IF k % 3 = 1 THEN Look(c, list(c, Place(c, k \div 3)))
        ELSE IF k % 3 = 2 THEN Look(c, word(k - 1))
        ELSE Put(c, word(k - 1))]

(* The last parts say what an assertion of cache_tag() does.               *)
ASSUME DataCacheAssumption ==
  /\ LINE_WORDS \in Nat \ {0} /\ SETS \in Nat \ {0} /\ FOOTPRINT \in Nat
  /\ Tiles \subseteq Nat /\ IsFiniteSet(Tiles)
  /\ DOMAIN ThreadOf = Tiles /\ DOMAIN ChannelOf = Tiles
  /\ {NODES, RET_LEN, RET_PER_TILE, FRONTIER_BASE, bitmap_len, fr_head_offset} \subseteq Nat
  /\ ARRAYS \subseteq [base : Nat, len : Nat, per_tile : Nat]
  /\ BY_ADDRESS \/ Cardinality(Threads) = 1
  /\ NODES <= FRONTIER_BASE
  /\ \A a \in ARRAYS \union {ret} : a.base + a.len <= FOOTPRINT
  /\ bitmap_len > 0 => /\ fr_head_offset > 0 /\ RET_PER_TILE \in 1 .. 32 * bitmap_len
                       /\ \A c \in Tiles : bitmap(c, bitmap_len) <= FOOTPRINT /\ list(c, tail) < FOOTPRINT

-----------------------------------------------------------------------------
(* With one way per set, the line to evict is the one in the set (or none).*)
dcache_replacement_policy(c, tag) == dcache_tags[c][set_id_dcache(tag)]

(* Whether the application writes a line is told from where the line       *)
(* begins: in ret, or in the frontier at the end of the data set.          *)
is_dirty(tag) == LET tag_base == tag * LINE_WORDS
                 IN tag_base < NODES \/ tag_base >= FRONTIER_BASE

MustWriteBack(tag) == IF BY_ADDRESS THEN is_dirty(tag) ELSE dcache_freq[tag] > 1

Idle == [pc |-> "idle"]

Init ==
  /\ dcache_freq = [l \in Lines |-> 0]
  /\ dcache_tags = [c \in Tiles |-> [s \in 0 .. SETS - 1 |-> EMPTY]]
  /\ dcache_occupancy = [c \in Tiles |-> 0]
  /\ mc_transactions = [q \in Channels |-> 0]
  /\ mc_writebacks = [q \in Channels |-> 0]
  /\ dcache_misses = 0 /\ dcache_evictions = 0
  /\ worker = [t \in Threads |-> Idle]
  /\ todo = [t \in Threads |-> <<>>]
  /\ frontier_list = [c \in Tiles |-> [tail |-> 0, blocks |-> <<>>]]
  /\ unsaved = {}
  /\ begun = 0

-----------------------------------------------------------------------------
(* The worker of a tile runs a task, which does what is in s.              *)
Begin(t, s) ==
  /\ worker[t].pc = "idle" /\ todo[t] = <<>>
  /\ begun < MAX_TASKS
  /\ begun' = begun + 1
  /\ todo' = [todo EXCEPT ![t] = s]
  /\ UNCHANGED <<caches, counters, worker, unsaved>>

Mine(t) == {c \in Tiles : ThreadOf[c] = t}

(* The accesses of tasks that store nothing come one by one.               *)
ReadTask(t) == \E c \in Mine(t), a \in ARRAYS \union {ret} : \E i \in Own(a, c) :
  Begin(t, <<Look(c, a.base + i)>>) /\ UNCHANGED frontier_list

task3_kernel(t) == \E c \in Mine(t) : \E n \in Own(ret, c) :
  /\ BY_ADDRESS
  /\ Begin(t, Improve(c, n))
  /\ frontier_list' =
       IF bitmap_len = 0 \/ Listed(c, block(n)) THEN frontier_list
       ELSE [frontier_list EXCEPT ![c].blocks = Append(@, block(n))]

(* The queue of task 1 may be full before the last block is empty.         *)
task4_kernel(t) == \E c \in Mine(t) : \E n \in 0 .. Len(frontier_list[c].blocks), left \in 0 .. 1 :
  /\ BY_ADDRESS /\ bitmap_len > 0 /\ left <= n
  /\ Begin(t, Explore(c, n))
  /\ frontier_list' = [frontier_list EXCEPT ![c] =
       [tail |-> Place(c, n - left), blocks |-> SubSeq(@.blocks, n - left + 1, Len(@.blocks))]]

(* A task that writes with write_dcache().                                 *)
WriteTask(t) == \E c \in Mine(t) : \E n \in Own(ret, c) :
  ~BY_ADDRESS /\ Begin(t, <<Write(c, n)>>) /\ UNCHANGED frontier_list

(* The next thing the task of thread t does.                               *)
Does(t, o) ==
  /\ worker[t].pc = "idle" /\ todo[t] /= <<>>
  /\ Head(todo[t]).op = o
  /\ todo' = [todo EXCEPT ![t] = Tail(@)]
  /\ UNCHANGED <<frontier_list, begun>>

(* A word is looked up.                                                    *)
Lookup(t) ==
  LET w == Head(todo[t])
      l == cache_tag(w.word)
  IN
  /\ Does(t, "look")
  /\ IF dcache_freq[l] > 0
       THEN UNCHANGED <<worker, dcache_misses>>
       ELSE /\ worker' = [worker EXCEPT ![t] = [pc |-> "count", tile |-> w.tile, line |-> l]]
            /\ dcache_misses' = dcache_misses + 1
  /\ UNCHANGED <<caches, mc_transactions, mc_writebacks, dcache_evictions, unsaved>>

(* A word is stored, which the cache is not told.                          *)
Store(t) ==
  /\ Does(t, "put")
  /\ unsaved' = unsaved \union {Head(todo[t]).word}
  /\ UNCHANGED <<caches, counters, worker>>

(* write_dcache(): a line that is not cached is written through.           *)
WriteWord(t) ==
  LET w == Head(todo[t])
      l == cache_tag(w.word)
      q == ChannelOf[w.tile]
  IN
  /\ Does(t, "write")
  /\ IF dcache_freq[l] > 0
       THEN /\ dcache_freq' = [dcache_freq EXCEPT ![l] = 2]
            /\ unsaved' = unsaved \union {w.word}
            /\ UNCHANGED <<mc_transactions, mc_writebacks>>
       ELSE /\ mc_writebacks' = [mc_writebacks EXCEPT ![q] = @ + 1]
            /\ mc_transactions' = [mc_transactions EXCEPT ![q] = @ + 1]
            /\ unsaved' = unsaved \ {w.word}
            /\ UNCHANGED dcache_freq
  /\ UNCHANGED <<dcache_tags, dcache_occupancy, dcache_misses, dcache_evictions, worker>>

(* A miss reads the counter of the channel and stores it increased; the    *)
(* threads take no lock.                                                   *)
CountLoad(t) ==
  LET w == worker[t] IN
  /\ w.pc = "count"
  /\ worker' = [worker EXCEPT ![t] = [pc |-> "store", tile |-> w.tile, line |-> w.line,
                                      trans |-> mc_transactions[ChannelOf[w.tile]]]]
  /\ UNCHANGED <<caches, counters, todo, frontier_list, unsaved, begun>>

CountStore(t) ==
  LET w == worker[t] IN
  /\ w.pc = "store"
  /\ mc_transactions' = [mc_transactions EXCEPT ![ChannelOf[w.tile]] = w.trans + 1]
  /\ worker' = [worker EXCEPT ![t] = [pc |-> "check", tile |-> w.tile, line |-> w.line]]
  /\ UNCHANGED <<caches, mc_writebacks, dcache_misses, dcache_evictions, todo, frontier_list, unsaved, begun>>

(* assert(dcache_freq[elem_tag]==0).  A compiler may test the value read   *)
(* at the lookup instead, as no lock is taken in between, and find 0.      *)
Check(t) ==
  LET w == worker[t] IN
  /\ w.pc = "check"
  /\ \E seen \in {0, dcache_freq[w.line]} :
       worker' = [worker EXCEPT ![t].pc = IF seen = 0 THEN "evict" ELSE "aborted"]
  /\ UNCHANGED <<caches, counters, todo, frontier_list, unsaved, begun>>

-----------------------------------------------------------------------------
(* Fault: the line stays valid when it loses its place.                    *)
ClearedNot(tag) == dcache_freq

(* The validity of all lines when the tag that was in the set is gone.     *)
Cleared(tag) == IF tag = EMPTY THEN dcache_freq ELSE [dcache_freq EXCEPT ![tag] = 0]

(* Lines in the cache once a line took the place of tag.                   *)
Occupied(c, tag) == dcache_occupancy[c] + (IF tag = EMPTY THEN 1 ELSE 0)

(* Fault: a request for every victim, dirty or not.                        *)
RequestsAll(q, w) == w.trans + 1

(* Requests of channel q once w has written its victim back, if it had to. *)
Requests(q, w) == IF w.back THEN w.trans + 1 ELSE mc_transactions[q]

(* The line that is in the set leaves.  The values the next step stores    *)
(* are loaded here.                                                        *)
Evict(t) ==
  LET w == worker[t]
      q == ChannelOf[w.tile]
      evict_tag == dcache_replacement_policy(w.tile, w.line)
      back == evict_tag /= EMPTY /\ MustWriteBack(evict_tag)
  IN
  /\ w.pc = "evict"
  /\ dcache_freq' = Cleared(evict_tag)
  /\ dcache_occupancy' = [dcache_occupancy EXCEPT ![w.tile] = Occupied(w.tile, evict_tag)]
  /\ dcache_evictions' = IF evict_tag = EMPTY THEN dcache_evictions ELSE dcache_evictions + 1
  /\ unsaved' = IF back THEN {n \in unsaved : cache_tag(n) /= evict_tag} ELSE unsaved
  /\ worker' = [worker EXCEPT ![t] =
       [pc |-> "insert", tile |-> w.tile, line |-> w.line, back |-> back,
        trans |-> mc_transactions[q], wbs |-> mc_writebacks[q], freq |-> Cleared(evict_tag)[w.line]]]
  /\ UNCHANGED <<dcache_tags, mc_transactions, mc_writebacks, dcache_misses, todo, frontier_list, begun>>

Insert(t) ==
  LET w == worker[t]
      q == ChannelOf[w.tile]
  IN
  /\ w.pc = "insert"
  /\ mc_writebacks' = IF w.back THEN [mc_writebacks EXCEPT ![q] = w.wbs + 1] ELSE mc_writebacks
  /\ mc_transactions' = [mc_transactions EXCEPT ![q] = Requests(q, w)]
  /\ dcache_tags' = [dcache_tags EXCEPT ![w.tile][set_id_dcache(w.line)] = w.line]
  /\ dcache_freq' = [dcache_freq EXCEPT ![w.line] = w.freq + 1]
  /\ worker' = [worker EXCEPT ![t] = Idle]
  /\ UNCHANGED <<dcache_occupancy, dcache_misses, dcache_evictions, todo, frontier_list, unsaved, begun>>

Next == \E t \in Threads :
  ReadTask(t) \/ task3_kernel(t) \/ task4_kernel(t) \/ WriteTask(t)
  \/ Lookup(t) \/ Store(t) \/ WriteWord(t)
  \/ CountLoad(t) \/ CountStore(t) \/ Check(t) \/ Evict(t) \/ Insert(t)

Spec == Init /\ [][Next]_vars

-----------------------------------------------------------------------------
(* Types: the occupancy of a tile never exceeds its sets, and a line is    *)
(* counted once (DIRECT_MAPPED: no hits are counted in dcache_freq).       *)
TypeOK ==
  /\ dcache_freq \in [Lines -> 0 .. 2]
  /\ dcache_tags \in [Tiles -> [0 .. SETS - 1 -> Lines \union {EMPTY}]]
  /\ dcache_occupancy \in [Tiles -> 0 .. SETS]
  /\ mc_transactions \in [Channels -> Nat]
  /\ mc_writebacks \in [Channels -> Nat]
  /\ dcache_misses \in Nat /\ dcache_evictions \in Nat
  /\ \A t \in Threads : worker[t].pc \in {"idle", "count", "store", "check", "evict", "insert", "aborted"}
  /\ unsaved \subseteq 0 .. FOOTPRINT - 1
  /\ begun \in 0 .. MAX_TASKS

Quiet == \A t \in DOMAIN worker : worker[t].pc = "idle"
Holders(l) == {c \in DOMAIN dcache_tags : \E s \in DOMAIN dcache_tags[c] : dcache_tags[c][s] = l}

(* What the assertion on a miss says (data_cache.h:178, :295): the line    *)
(* that was found absent at the lookup is absent when it is made room for. *)
MissIsAbsent == \A t \in DOMAIN worker : worker[t].pc = "check" => dcache_freq[worker[t].line] = 0

(* The global validity of a line and the tags of all tiles tell the same   *)
(* story although tiles share lines and evict only their own: a line that  *)
(* is valid is in the cache of exactly one tile, and a line that is not is *)
(* in none, so the assertion on a miss holds and no space is wasted.       *)
OneHolder ==
  /\ MissIsAbsent
  /\ Quiet => \A l \in DOMAIN dcache_freq :
                Cardinality(Holders(l)) = (IF dcache_freq[l] > 0 THEN 1 ELSE 0)

(* Results are never forgotten by the cost model: a word of ret that was   *)
(* stored since its line was last written to memory is in a cache, so the  *)
(* store found the line there ("Surely it's a hit in the cache",           *)
(* sssp.h:150) and no other access, of its own task or of another tile's,  *)
(* has let the line go without a write-back.  Of SPMM's ret these are the  *)
(* first NODES words.                                                      *)
ResultsKept == \A n \in unsaved : n < NODES => dcache_freq[cache_tag(n)] > 0

(* "dirty bit is not needed as we write-back based on address range"       *)
(* (memory_util.h:42): a line with a word that memory does not have is     *)
(* written back when it leaves the caches.                                 *)
WrittenBack ==
  [][\A n \in unsaved : dcache_freq[cache_tag(n)] > 0 /\ dcache_freq'[cache_tag(n)] = 0
                           => n \notin unsaved']_vars

SumOf(f) == FoldFunction(LAMBDA x, y : x + y, 0, f)

(* With one thread the counters add up: each miss is one request and each  *)
(* write-back another, and each line fetched is still cached or evicted.   *)
Accounted ==
  Quiet /\ Cardinality(DOMAIN worker) = 1 =>
    /\ SumOf(mc_transactions) = dcache_misses + SumOf(mc_writebacks)
    /\ dcache_misses = dcache_evictions + SumOf(dcache_occupancy)
    /\ \A c \in DOMAIN dcache_tags :
         dcache_occupancy[c] = Cardinality({s \in DOMAIN dcache_tags[c] : dcache_tags[c][s] /= EMPTY})
=============================================================================
