---------------------------- MODULE MCProxyCache ----------------------------
(***************************************************************************)
(* Four configurations of the proxy caches in one run, told apart by conf: *)
(*   sums     three regions, conflicting lines, captures at will (the      *)
(*            values in the .cfg file);                                    *)
(*   epochs   GLOBAL_BARRIER=2, a capture at every proxy on the way;       *)
(*   minima   minima that are written through;                             *)
(*   stored   proxies that hold a copy of everything.                      *)
(***************************************************************************)
EXTENDS ProxyCache

VARIABLE conf

Epochs == INSTANCE ProxyCache WITH
  Elements <- {0, 2}, PROXY_ROUTING <- 5, GLOBAL_BARRIER <- 2, oq_size <- 4

Minima == INSTANCE ProxyCache WITH
  APP <- "SSSP", PROXYS <- 2, Elements <- {0, 1}, Values <- {1, 2}, MaxSends <- 4,
  pcache_size <- 1, WRITE_THROUGH <- 1, PROXY_ROUTING <- 3, proxy_default <- 5, oq_size <- 6

Stored == INSTANCE ProxyCache WITH
  PROXYS <- 2, proxys_cached <- FALSE, pcache_size <- 3, oq_size <- 4

all == <<vars, conf>>

InitAny ==
  \/ conf = "sums"   /\ Init
  \/ conf = "epochs" /\ Epochs!Init
  \/ conf = "minima" /\ Minima!Init
  \/ conf = "stored" /\ Stored!Init

NextAny ==
  /\ UNCHANGED conf
  /\ \/ conf = "sums"   /\ Next
     \/ conf = "epochs" /\ Epochs!Next
     \/ conf = "minima" /\ Minima!Next
     \/ conf = "stored" /\ Stored!Next

(* The fairness of ProxyCache!FairSpec, for each configuration.            *)
TileTurn(t) ==
  \/ conf = "sums"   /\ Visit(t)
  \/ conf = "epochs" /\ Epochs!Visit(t)
  \/ conf = "minima" /\ t \in Minima!tiles /\ Minima!Visit(t)
  \/ conf = "stored" /\ t \in Stored!tiles /\ Stored!Visit(t)

RouterTurn(t) ==
  \/ conf = "sums"   /\ (Arrive(t) \/ \E p \in tiles : Capture(t, p))
  \/ conf = "epochs" /\ (Epochs!Arrive(t) \/ \E p \in tiles : Epochs!Capture(t, p))
  \/ conf = "minima" /\ t \in Minima!tiles /\ (Minima!Arrive(t) \/ \E p \in Minima!tiles : Minima!Capture(t, p))
  \/ conf = "stored" /\ t \in Stored!tiles /\ (Stored!Arrive(t) \/ \E p \in Stored!tiles : Stored!Capture(t, p))

FairSpecAny ==
  /\ InitAny /\ [][NextAny]_all
  /\ \A t \in tiles : WF_all(UNCHANGED conf /\ TileTurn(t)) /\ WF_all(UNCHANGED conf /\ RouterTurn(t))
  /\ WF_all(UNCHANGED conf /\ conf = "epochs" /\ Epochs!EndEpoch)
-----------------------------------------------------------------------------
(* The properties of ProxyCache, in each configuration.                    *)

(* No variable leaves its type and no queue of a task overflows            *)
(* (Runnable asks for room for what task 3' may evict).                    *)
QueuesFit ==
  CASE conf = "sums"   -> TypeOK
    [] conf = "epochs" -> Epochs!TypeOK
    [] conf = "minima" -> Minima!TypeOK
    [] conf = "stored" -> Stored!TypeOK

(* Tags, frequencies and occupancy say the same of every line.             *)
LinesAgree ==
  CASE conf = "sums"   -> CacheAgrees
    [] conf = "epochs" -> Epochs!CacheAgrees
    [] conf = "minima" -> Minima!CacheAgrees
    [] conf = "stored" -> Stored!CacheAgrees

(* Evictions, write-backs, captures and drains lose and double no update.  *)
NoneLost ==
  CASE conf = "sums"   -> UpdatesConserved
    [] conf = "epochs" -> Epochs!UpdatesConserved
    [] conf = "minima" -> Minima!UpdatesConserved
    [] conf = "stored" -> Stored!UpdatesConserved

(* In the end caches and queues are empty and the owner has the result.    *)
DrainedAny ==
  CASE conf = "sums"   -> Drained
    [] conf = "epochs" -> Epochs!Drained
    [] conf = "minima" -> Minima!Drained
    [] conf = "stored" -> Stored!Drained
AllDrain == <>[]DrainedAny
=============================================================================
