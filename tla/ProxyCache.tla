----------------------------- MODULE ProxyCache -----------------------------
(***************************************************************************)
(* The proxy caches.  A tile of each proxy region keeps a copy of a datum  *)
(* that another tile owns; task 3' combines updates in the copy, and what  *)
(* was combined is written back to the owner when the line is evicted or   *)
(* drained.  A written-back update may be taken by a proxy on its way.     *)
(* Sources: mem/proxy_cache.h, task 3 and task 3' of apps/histo.h (sums)   *)
(* and apps/sssp.h (minima), the tile's turn in tsu_core_thread.h.         *)
(*                                                                         *)
(* The tiles are those that stand for the Elements, each in a region of    *)
(* its own, in line: an update on its way from tile t to tile 0, which     *)
(* owns the elements, passes tiles t - 1, t - 2, ...  A message is one     *)
(* element of a queue; capacities are in flits, two per message.           *)
(***************************************************************************)
EXTENDS Integers, Sequences, FiniteSets, FiniteSetsExt

CONSTANTS
  APP,             \* "HISTO": updates are added; "SSSP": the least one counts
  PROXYS,          \* number of proxy regions
  Elements,        \* 0 .. n
  Values,          \* what the application sends
  MaxSends,        \* how many updates it sends (bound)
  proxys_cached,   \* FALSE: the memory holds a copy of everything
  pcache_size,     \* lines of a tile, as many as pcache_sets: direct mapped
  WRITE_THROUGH,   \* 1: better values are sent on at once (minima only)
  PROXY_ROUTING,   \* 3: never taken on the way, 4: sometimes, 5: always
  GLOBAL_BARRIER,  \* 2: lines are drained in epochs of their own
  proxy_default,   \* 0 for sums, the largest value for minima
  iq_size, oq_size \* of tasks 3 and 3'

DRAIN_PCACHE_ID     == 1
EXPLORE_FRONTIER_ID == 2      \* 16 in the code, where idle turns count too
None == -1
tiles == 0 .. PROXYS - 1

ASSUME ProxyAssumption ==
  /\ APP \in {"HISTO", "SSSP"} /\ GLOBAL_BARRIER \in {0, 1, 2}
  /\ PROXYS \in Nat \ {0} /\ PROXY_ROUTING \in 3 .. 5
  /\ Elements \subseteq Nat /\ IsFiniteSet(Elements) /\ Values \subseteq Nat
  /\ proxys_cached \in BOOLEAN /\ pcache_size \in Nat \ {0}
  /\ ~proxys_cached => Cardinality(Elements) <= pcache_size
  /\ WRITE_THROUGH \in {0, 1} /\ (WRITE_THROUGH = 1 => APP = "SSSP")
  /\ IF APP = "HISTO" THEN proxy_default = 0 ELSE \A v \in Values : v < proxy_default
  /\ {MaxSends, iq_size, oq_size, proxy_default} \subseteq Nat
  /\ oq_size > 2    \* SizesSuffice in Setup

VARIABLES
  ret,               \* ret[e]: the value at the owner
  proxy,             \* proxy[t][e]: the copy of tile t
  freq,              \* freq[t][e]: 1 when the copy is in the cache
  tags,              \* tags[t][i]: the element in line i
  pcache_occupancy,
  pcache_last_evicted,
  iq2,               \* the input queue of task 3 of tile 0
  iq3,               \* iq3[t]: the input queues of task 3'
  oq2,               \* oq2[t]: updates for the owner
  epoch_begin,
  sent,              \* sent[e]: what the application has sent, combined
  left               \* how many updates it still sends

cache == <<proxy, freq, tags, pcache_occupancy, pcache_last_evicted>>
app   == <<sent, left>>
vars  == <<ret, cache, iq2, iq3, oq2, epoch_begin, app>>

Init ==
  /\ ret = [e \in Elements |-> proxy_default]
  /\ proxy = [t \in tiles |-> [e \in Elements |-> proxy_default]]
  /\ freq = [t \in tiles |-> [e \in Elements |-> 0]]
  /\ tags = [t \in tiles |-> [i \in 0 .. pcache_size - 1 |-> None]]
  /\ pcache_occupancy = [t \in tiles |-> 0]
  /\ pcache_last_evicted = [t \in tiles |-> 0]
  /\ iq2 = <<>>
  /\ iq3 = [t \in tiles |-> <<>>]
  /\ oq2 = [t \in tiles |-> <<>>]
  /\ epoch_begin = [t \in tiles |-> 0]
  /\ sent = ret /\ left = MaxSends

(* What a task makes of an old value and an update.                        *)
Combine(old, v) == IF APP = "HISTO" THEN old + v ELSE Min({old, v})
Update(e, v) == [elem |-> e, value |-> v]
room(size, queue) == size - 2 * Len(queue)
-----------------------------------------------------------------------------
(* The cache.                                                              *)

Valid(t) == {i \in DOMAIN tags[t] : tags[t][i] # None}

(* replacement_policy(): the only line of the set; without a cache, the    *)
(* first line that is free.                                                *)
(* Fault: the first free line in both cases.                               *)
LineForFree(t, e) == IF Valid(t) = DOMAIN tags[t] THEN e % pcache_size
                     ELSE Min(DOMAIN tags[t] \ Valid(t))
LineFor(t, e) == IF proxys_cached THEN e % pcache_size ELSE Min(DOMAIN tags[t] \ Valid(t))

(* next_valid_line(): the first one after the last one drained.            *)
next_valid_line(t) ==
  LET after(i) == (i - pcache_last_evicted[t] - 1) % pcache_size
  IN CHOOSE i \in Valid(t) : \A j \in Valid(t) : after(i) <= after(j)

(* What a read of element e returns: the copy, unless it was written back. *)
Copy(t, e) == IF freq[t][e] > 0 THEN proxy[t][e] ELSE proxy_default

(* The updates that go to the owner when tag leaves the cache.             *)
(* Fault: without write-back.                                              *)
WritebackNone(t, tag) == <<>>
Writeback(t, tag) == IF WRITE_THROUGH = 1 THEN <<>> ELSE <<Update(tag, proxy[t][tag])>>

Freed(t, tag) == [freq EXCEPT ![t][tag] = 0]

(* A task that writes through sends the value on at once.                  *)
Through(e, v) == IF WRITE_THROUGH = 1 THEN <<Update(e, v)>> ELSE <<>>

(* check_pcache() and, if write, update_pcache() with value v.             *)
Access(t, e, write, v) ==
  LET through == IF write THEN Through(e, v) ELSE <<>> IN
  /\ proxy' = IF write THEN [proxy EXCEPT ![t][e] = v] ELSE proxy
  /\ IF freq[t][e] > 0
     THEN /\ oq2' = [oq2 EXCEPT ![t] = @ \o through]
          /\ UNCHANGED <<freq, tags, pcache_occupancy>>
     ELSE LET line == LineFor(t, e)
              old  == tags[t][line]
          IN /\ tags' = [tags EXCEPT ![t][line] = e]
             /\ IF old = None
                THEN /\ pcache_occupancy' = [pcache_occupancy EXCEPT ![t] = @ + 1]
                     /\ freq' = [freq EXCEPT ![t][e] = 1]
                     /\ oq2' = [oq2 EXCEPT ![t] = @ \o through]
                ELSE /\ freq' = [Freed(t, old) EXCEPT ![t][e] = 1]
                     /\ oq2' = [oq2 EXCEPT ![t] = @ \o Writeback(t, old) \o through]
                     /\ UNCHANGED pcache_occupancy
  /\ UNCHANGED pcache_last_evicted

(* drain_pcache()                                                          *)
drain_pcache(t) ==
  LET line == next_valid_line(t)
      tag  == tags[t][line]
  IN /\ tags' = [tags EXCEPT ![t][line] = None]
     /\ freq' = Freed(t, tag)
     /\ pcache_last_evicted' = [pcache_last_evicted EXCEPT ![t] = line]
     /\ pcache_occupancy' = [pcache_occupancy EXCEPT ![t] = @ - 1]
     /\ oq2' = [oq2 EXCEPT ![t] = Append(@, Update(tag, proxy[t][tag]))]
     /\ UNCHANGED proxy
-----------------------------------------------------------------------------
(* The tasks, and when a tile runs them.                                   *)

T3 == LET m == Head(iq2) IN
      /\ iq2' = Tail(iq2)
      /\ ret' = [ret EXCEPT ![m.elem] = Combine(@, m.value)]
      /\ UNCHANGED <<cache, iq3, oq2>>

T3bis(t) ==
  LET m   == Head(iq3[t])
      old == Copy(t, m.elem)
  IN /\ iq3' = [iq3 EXCEPT ![t] = Tail(@)]
     /\ Access(t, m.elem, APP = "HISTO" \/ m.value < old, Combine(old, m.value))
     /\ UNCHANGED <<ret, iq2>>

(* Task 3' waits until its output queue has room for what it may evict.    *)
(* Fault: it does not.                                                     *)
RunnableAlways(t) == iq3[t] # <<>>
Runnable(t) == /\ iq3[t] # <<>>
               /\ (WRITE_THROUGH = 1 \/ proxys_cached) => room(oq_size, oq2[t]) > 2

(* Task 3 is for tile 0 only; it gives way to a task 3' that is runnable   *)
(* and whose queue is almost full.                                         *)
T3Next(t) == /\ t = 0 /\ iq2 # <<>>
             /\ Runnable(t) => room(iq_size, iq3[t]) > iq_size \div 4

pcache_active(t) == /\ WRITE_THROUGH = 0 /\ pcache_occupancy[t] > 0
                    /\ GLOBAL_BARRIER = 2 => epoch_begin[t] >= DRAIN_PCACHE_ID

Quiet(t) == (t = 0 => iq2 = <<>>) /\ iq3[t] = <<>> /\ oq2[t] = <<>>
drain_pcache_now(t) == IF GLOBAL_BARRIER = 2 THEN room(oq_size, oq2[t]) > 2 ELSE Quiet(t)

Run(t) == \/ T3Next(t) /\ T3
          \/ ~T3Next(t) /\ Runnable(t) /\ T3bis(t)

Drain(t) == /\ ~T3Next(t) /\ ~Runnable(t)
            /\ pcache_active(t) /\ drain_pcache_now(t)
            /\ drain_pcache(t)
            /\ UNCHANGED <<ret, iq2, iq3>>

Visit(t) == (Run(t) \/ Drain(t)) /\ UNCHANGED <<epoch_begin, app>>
-----------------------------------------------------------------------------
(* The network takes an update from the output queue of tile t to the      *)
(* owner, or to a proxy on the way as a task 3'.                           *)
Onward(t) == IF PROXY_ROUTING = 3 THEN {}
             ELSE IF PROXY_ROUTING = 5 THEN {t - 1} \intersect (1 .. t)
             ELSE 1 .. t - 1

Capture(t, p) ==
  /\ oq2[t] # <<>> /\ p \in Onward(t) /\ room(iq_size, iq3[p]) >= 2
  /\ iq3' = [iq3 EXCEPT ![p] = Append(@, Head(oq2[t]))]
  /\ oq2' = [oq2 EXCEPT ![t] = Tail(@)]
  /\ UNCHANGED <<ret, cache, iq2, epoch_begin, app>>

Arrive(t) ==
  /\ oq2[t] # <<>> /\ (PROXY_ROUTING = 5 => t <= 1) /\ room(iq_size, iq2) >= 2
  /\ iq2' = Append(iq2, Head(oq2[t]))
  /\ oq2' = [oq2 EXCEPT ![t] = Tail(@)]
  /\ UNCHANGED <<ret, cache, iq3, epoch_begin, app>>

(* The application sends an update to its proxy, or on to the owner when   *)
(* that output queue is empty (TASK3_DIRECTLY_IF_NETWORK_EMPTY).           *)
Send(t, e, v) ==
  /\ left > 0 /\ left' = left - 1
  /\ GLOBAL_BARRIER = 2 => epoch_begin[t] # DRAIN_PCACHE_ID
  /\ sent' = [sent EXCEPT ![e] = Combine(@, v)]
  /\ \/ /\ room(iq_size, iq3[t]) >= 2
        /\ iq3' = [iq3 EXCEPT ![t] = Append(@, Update(e, v))]
        /\ UNCHANGED oq2
     \/ /\ oq2[t] = <<>> /\ oq_size >= 2
        /\ oq2' = [oq2 EXCEPT ![t] = <<Update(e, v)>>]
        /\ UNCHANGED iq3
  /\ UNCHANGED <<ret, cache, iq2, epoch_begin>>

(* GLOBAL_BARRIER = 2: the next epoch drains when a cache is not empty,    *)
(* else it explores; a tile that has explored clears epoch_begin.          *)
(* Fault: the caches are not looked at.                                    *)
pcache_busy_never == FALSE
pcache_busy == \E t \in tiles : pcache_occupancy[t] > 0

EndEpoch ==
  /\ GLOBAL_BARRIER = 2
  /\ \A t \in tiles : Quiet(t) /\ ~pcache_active(t)
  /\ pcache_busy \/ left > 0
  /\ epoch_begin' = [t \in tiles |-> IF pcache_busy THEN DRAIN_PCACHE_ID ELSE EXPLORE_FRONTIER_ID]
  /\ UNCHANGED <<ret, cache, iq2, iq3, oq2, app>>

T4(t) == /\ epoch_begin[t] = EXPLORE_FRONTIER_ID
         /\ ~T3Next(t) /\ ~Runnable(t) /\ ~(pcache_active(t) /\ drain_pcache_now(t))
         /\ epoch_begin' = [epoch_begin EXCEPT ![t] = 0]
         /\ UNCHANGED <<ret, cache, iq2, iq3, oq2, app>>

Next == \/ \E t \in tiles : Visit(t) \/ Arrive(t) \/ T4(t)
        \/ \E t, p \in tiles : Capture(t, p)
        \/ \E t \in tiles, e \in Elements, v \in Values : Send(t, e, v)
        \/ EndEpoch

Spec == Init /\ [][Next]_vars

(* Tiles, routers and the end of an epoch get their turn; the application  *)
(* need not send more.                                                     *)
FairSpec == /\ Spec
            /\ \A t \in tiles : WF_vars(Visit(t)) /\ WF_vars(Arrive(t) \/ \E p \in tiles : Capture(t, p))
            /\ WF_vars(EndEpoch)
-----------------------------------------------------------------------------
TypeOK ==
  /\ ret \in [Elements -> Nat]
  /\ proxy \in [tiles -> [Elements -> Nat]]
  /\ freq \in [tiles -> [Elements -> {0, 1}]]
  /\ tags \in [tiles -> [0 .. pcache_size - 1 -> Elements \union {None}]]
  /\ pcache_occupancy \in [tiles -> 0 .. pcache_size]
  /\ pcache_last_evicted \in [tiles -> 0 .. pcache_size - 1]
  /\ epoch_begin \in [tiles -> {0, DRAIN_PCACHE_ID, EXPLORE_FRONTIER_ID}]
  /\ room(iq_size, iq2) >= 0
  /\ \A t \in tiles : room(iq_size, iq3[t]) >= 0 /\ room(oq_size, oq2[t]) >= 0

(* The tags of a tile, the frequencies of its region and its occupancy say *)
(* the same: an element is cached exactly when one line has its tag, and   *)
(* as many lines are taken as were counted (the assertions on evict_tag).  *)
CacheAgrees ==
  \A t \in tiles :
    /\ \A e \in Elements : freq[t][e] = Cardinality({i \in Valid(t) : tags[t][i] = e})
    /\ pcache_occupancy[t] = Cardinality(Valid(t))
    /\ proxys_cached => \A i \in Valid(t) : tags[t][i] % pcache_size = i

(* Everything that holds a part of the updates of element e.               *)
Parts(e) ==
  LET of(name, t, queue) == {<<name, t, i, queue[i].value>> : i \in {j \in DOMAIN queue : queue[j].elem = e}}
  IN {<<"owner", 0, 0, ret[e]>>} \union of("iq2", 0, iq2)
     \union (UNION {of("iq3", t, iq3[t]) \union of("oq2", t, oq2[t]) : t \in tiles})
     \union {<<"copy", t, 0, proxy[t][e]>> : t \in {u \in tiles : freq[u][e] > 0}}

(* No update is lost and none counts twice, wherever evictions, write-     *)
(* backs, captures and drains have taken it: the parts in queues and valid *)
(* copies add up to what was sent; for minima, the least is among them.    *)
UpdatesConserved ==
  \A e \in Elements :
    sent[e] = IF APP = "HISTO" THEN MapThenSumSet(LAMBDA p : p[4], Parts(e))
              ELSE Min({p[4] : p \in Parts(e)})

(* "lines_left==0" (memory_system.h:93) and more: in the end nothing is    *)
(* left in a cache or a queue, and the owner has the result.               *)
Drained == /\ ret = sent
           /\ \A t \in tiles : Quiet(t)
           /\ WRITE_THROUGH = 0 => \A t \in tiles : pcache_occupancy[t] = 0
EventuallyDrained == <>[]Drained
=============================================================================
