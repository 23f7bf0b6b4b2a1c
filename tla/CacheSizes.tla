----------------------------- MODULE CacheSizes -----------------------------
(***************************************************************************)
(* How the memory of a tile is divided between the proxy cache and the     *)
(* data cache (mem/memory_util.h).  Sizes are 32-bit words, and numbers    *)
(* u_int32_t: differences wrap, at U32.                                    *)
(***************************************************************************)
EXTENDS Integers, FiniteSetsExt

CONSTANTS
  U32,                       \* 2^32, or less
  CACHE_WAYS, CACHE_FREQ_BITS,
  dcache_words_in_line_log2

ASSUME CacheAssumption ==
  /\ {U32, CACHE_WAYS} \subseteq Nat \ {0}
  /\ {CACHE_FREQ_BITS, dcache_words_in_line_log2} \subseteq Nat

u32(n) == n % U32
line_words == 2^dcache_words_in_line_log2
log2[n \in Nat] == IF n < 2 THEN 0 ELSE 1 + log2[n \div 2]
-----------------------------------------------------------------------------
(* calculate_words_for_tags(): a tag tells apart the addresses that share  *)
(* a set.                                                                  *)
words_for_tags(sets, lines, address_space_log2) ==
  LET sets_log2 == IF 2^log2[sets] < sets THEN log2[sets] + 1 ELSE log2[sets]
      address_log2 == IF sets_log2 = address_space_log2 THEN address_space_log2 + 1 ELSE address_space_log2
      tag_bits == u32(address_log2 - sets_log2)
  IN u32(lines * u32(tag_bits + CACHE_FREQ_BITS + 1)) \div 32

(* calculate_cache_space(): the words that hold data, a multiple of the    *)
(* ways, and those words with their tags.                                  *)
cache_space(words, line_log2, words_per_tile) ==
  LET sets == (words \div 2^line_log2) \div CACHE_WAYS
      data == sets * CACHE_WAYS * 2^line_log2
  IN [data |-> data, space |-> data + words_for_tags(sets, sets * CACHE_WAYS, log2[words_per_tile])]

(* assign_cache_size(): sets are taken off until the cache fits.           *)
(* Fault: none are, the data leave no room for their tags.                 *)
assign_cache_size_whole(remaining, line_log2, words_per_tile) == cache_space(remaining, line_log2, words_per_tile)
assign_cache_size(remaining, line_log2, words_per_tile) ==
  LET set == CACHE_WAYS * 2^line_log2
      all == remaining \div set
      less(n) == cache_space((all - n) * set, line_log2, words_per_tile)
      fits(n) == n = all \/ less(n).space <= remaining
  IN less(CHOOSE n \in 0 .. all : fits(n) /\ \A m \in 0 .. n - 1 : ~fits(m))
-----------------------------------------------------------------------------
(* setup_cache_sizes(), of a tile with so many words besides its queues.   *)

(* What the data cache must have, for its lines.                           *)
reserved_for_dataset(DCACHE, remaining, input_queues) ==
  CASE DCACHE >= 5 -> 2 * line_words
    [] DCACHE \in 3 .. 4 -> Min({512 * line_words, remaining})
    [] OTHER -> Max({remaining \div 5, input_queues})

min_dcache(DCACHE, reserved, dataset) ==
  IF DCACHE = 0 \/ reserved > dataset \div 2 THEN dataset
  ELSE cache_space(reserved, dcache_words_in_line_log2, dataset).space

min_pcache(proxys, PROXY_FACTOR) == IF PROXY_FACTOR > 1 THEN Min({8 * CACHE_WAYS, proxys}) ELSE proxys

(* The proxy cache, within the words the data cache does not need.         *)
proxy_cache(FORCE_PROXY_RATIO, budget, proxys) ==
  IF FORCE_PROXY_RATIO <= 1 /\ budget > proxys
  THEN [cached |-> FALSE, data |-> proxys, space |-> proxys]
  ELSE LET target == IF FORCE_PROXY_RATIO <= 1 THEN budget ELSE Min({budget, proxys \div FORCE_PROXY_RATIO})
           cache == assign_cache_size(target, 0, proxys)
       IN [cached |-> TRUE, data |-> cache.data, space |-> cache.space]

(* The data cache.  What DCACHE 3 to 5 give it is not counted as used.     *)
data_cache(DCACHE, reserved, remaining, dataset) ==
  IF DCACHE >= 3 THEN [cached |-> TRUE, data |-> reserved, space |-> 0]
  ELSE IF remaining >= dataset THEN [cached |-> DCACHE = 2, data |-> dataset, space |-> dataset]
  ELSE LET cache == assign_cache_size(remaining, dcache_words_in_line_log2, dataset)
       IN [cached |-> TRUE, data |-> cache.data, space |-> cache.space]

(* All of it; "stopped" when an assertion fails, or the size of the data   *)
(* cache that the footprint is divided by is zero: DCACHE 3 and 4 give it  *)
(* nothing when the queues take all of SRAM_SIZE.                          *)
setup_cache_sizes(b, max_capacity, dataset, proxys, reserved_sram, input_queues) ==
  LET remaining == u32(max_capacity - reserved_sram)
      reserved == reserved_for_dataset(b.DCACHE, remaining, input_queues)
      least == min_dcache(b.DCACHE, reserved, dataset)
      pcache == proxy_cache(b.FORCE_PROXY_RATIO, u32(remaining - least), proxys)
      left == u32(remaining - pcache.space)
      dcache == data_cache(b.DCACHE, reserved, left, dataset)
      sets == (dcache.data \div line_words) \div CACHE_WAYS
  IN IF \/ remaining < least + min_pcache(proxys, b.PROXY_FACTOR)
        \/ left < least \/ dcache.data = 0
        \/ b.DCACHE = 1 /\ dcache.cached /\ sets * CACHE_WAYS * line_words # dcache.data
     THEN [stopped |-> TRUE]
     ELSE [stopped |-> FALSE, max |-> max_capacity, taken |-> reserved_sram, reserved |-> reserved,
           pcache |-> pcache, dcache |-> dcache, unused |-> u32(left - dcache.space)]
=============================================================================
