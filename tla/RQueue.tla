------------------------------- MODULE RQueue -------------------------------
(***************************************************************************)
(* R_queue (src/src/network/r_queue.h), the circular buffer that every     *)
(* router port and every task queue of a tile is made of.                  *)
(*                                                                         *)
(* head and tail are plain ints and there is no lock.  One thread enqueues *)
(* and one thread dequeues; a third one may read the occupancy while they  *)
(* run (router thread 0 when it looks for the end of an epoch).  A user of *)
(* the queue first evaluates a guard (is_full, cannot_fit_two, capacity,   *)
(* occupancy) and acts on it later, possibly several times: every load and *)
(* every store of an operation is a step of its own here.                  *)
(***************************************************************************)
EXTENDS Naturals, Sequences

CONSTANTS
  Flit,     \* the values a queue can carry
  NoFlit,   \* content of a slot of the malloc'ed array never written
  Size,     \* the argument of init()
  MaxBatch  \* the most flits one guard covers (2: cannot_fit_two)

ASSUME SizeAssumption  == Size \in Nat \ {0}
ASSUME BatchAssumption == MaxBatch \in Nat \ {0}

virtual_size == Size + 1
Slot == 0 .. Size

VARIABLES
  arr, head, tail,   \* the fields of R_queue
  room,              \* enqueues the producer still owes to its last guard
  ppc,               \* producer: "idle" or "stored" (slot written, head not)
  avail,             \* dequeues the consumer still owes to its last guard
  cpc, taken,        \* consumer: "idle" or "loaded", and the flit it loaded
  opc, ohead, otail, \* observer: which of head and tail it has loaded
  omoved, oseen      \* history: which of head and tail moved while it loaded,
                     \* and the occupancies the queue had

producerVars == <<room, ppc>>
consumerVars == <<avail, cpc, taken>>
loadVars     == <<opc, ohead, otail>>
history      == <<omoved, oseen>>
observerVars == <<loadVars, history>>
vars == <<arr, head, tail, producerVars, consumerVars, observerVars>>
-----------------------------------------------------------------------------
(* The index after i.                                                      *)
Succ(i) == (i + 1) % virtual_size

(* occupancy(), on the head h and the tail t that the caller loaded.       *)
Used(h, t) == IF h < t THEN virtual_size - (t - h) ELSE h - t

(* capacity(), likewise.                                                   *)
Free(h, t) == IF h < t THEN t - h - 1 ELSE virtual_size - 1 - (h - t)

occupancy == Used(head, tail)
capacity  == Free(head, tail)
(* Faults: is_full forgets the wrap, cannot_fit_two the slot kept free.    *)
is_full_unwrapped   == tail = head + 1
cannot_fit_two_late == occupancy >= virtual_size - 1
is_full        == tail = Succ(head)
is_empty       == head = tail
cannot_fit_two == occupancy >= virtual_size - 2

(* The flits between tail t and head, the i-th one i - 1 slots after t.    *)
SlotOf(t, i) == IF t + i - 1 > Size THEN t + i - 1 - virtual_size ELSE t + i - 1
Contents     == [i \in 1 .. occupancy |-> arr[SlotOf(tail, i)]]
-----------------------------------------------------------------------------
Init == /\ arr = [s \in Slot |-> NoFlit] /\ head = 0 /\ tail = 0
        /\ room = 0  /\ ppc = "idle"
        /\ avail = 0 /\ cpc = "idle" /\ taken = NoFlit
        /\ opc = "idle" /\ ohead = 0 /\ otail = 0 /\ omoved = {} /\ oseen = {}

(* The history of the observation in progress, when an index moves.        *)
Moved(index) ==
  IF opc \in {"head", "tail"}
  THEN /\ omoved' = omoved \union {index}
       /\ oseen' = oseen \union {occupancy'}
  ELSE UNCHANGED history

(* Fault: is_full() stands in for the test that two flits fit.             *)
PCheckOne(n) ==
  /\ ppc = "idle" /\ room = 0
  /\ IF n <= 2 THEN ~is_full ELSE capacity >= n
  /\ room' = n
  /\ UNCHANGED <<arr, head, tail, ppc, consumerVars, observerVars>>

(* The producer tests that n flits fit: is_full() for one, cannot_fit_two()*)
(* for two, capacity() for a task's output.                                *)
PCheck(n) ==
  /\ ppc = "idle" /\ room = 0
  /\ \/ n = 1 /\ ~is_full
     \/ n = 2 /\ ~cannot_fit_two
     \/ n > 2 /\ capacity >= n
  /\ room' = n
  /\ UNCHANGED <<arr, head, tail, ppc, consumerVars, observerVars>>

(* enqueue(), first half: the flit is stored in the slot head designates.  *)
PStore(f) ==
  /\ ppc = "idle" /\ room > 0
  /\ arr' = [arr EXCEPT ![head] = f]
  /\ ppc' = "stored"
  /\ UNCHANGED <<head, tail, room, consumerVars, observerVars>>

(* enqueue(), second half: head moves and the flit becomes visible.        *)
PPublish ==
  /\ ppc = "stored"
  /\ head' = Succ(head)
  /\ ppc' = "idle" /\ room' = room - 1
  /\ UNCHANGED <<arr, tail, consumerVars, loadVars>>
  /\ Moved("head")

(* The consumer tests that n flits are there: !is_empty() for one, the     *)
(* occupancy against num_task_params for a task's message.                 *)
CCheck(n) ==
  /\ cpc = "idle" /\ avail = 0
  /\ IF n = 1 THEN ~is_empty ELSE occupancy >= n
  /\ avail' = n
  /\ UNCHANGED <<arr, head, tail, producerVars, cpc, taken, observerVars>>

(* dequeue(), first half (peek() is this load alone).                      *)
CLoad ==
  /\ cpc = "idle" /\ avail > 0
  /\ taken' = arr[tail]
  /\ cpc' = "loaded"
  /\ UNCHANGED <<arr, head, tail, avail, producerVars, observerVars>>

(* dequeue(), second half: tail moves and the slot may be reused.          *)
CRelease ==
  /\ cpc = "loaded"
  /\ tail' = Succ(tail)
  /\ cpc' = "idle" /\ avail' = avail - 1
  /\ UNCHANGED <<arr, head, taken, producerVars, loadVars>>
  /\ Moved("tail")

(* A third thread calls occupancy(): it loads head and tail one after the  *)
(* other, in the order the compiler chose.                                 *)
OBegin(first) ==
  /\ opc = "idle"
  /\ opc' = first
  /\ ohead' = IF first = "head" THEN head ELSE ohead
  /\ otail' = IF first = "tail" THEN tail ELSE otail
  /\ omoved' = {} /\ oseen' = {occupancy}
  /\ UNCHANGED <<arr, head, tail, producerVars, consumerVars>>

(* Fault: the second load is of the index loaded first.                    *)
OEndTwice ==
  /\ opc \in {"head", "tail"}
  /\ opc' = "both"
  /\ ohead' = IF opc = "head" THEN head ELSE ohead
  /\ otail' = IF opc = "tail" THEN tail ELSE otail
  /\ UNCHANGED <<arr, head, tail, producerVars, consumerVars, history>>

OEnd ==
  /\ opc \in {"head", "tail"}
  /\ opc' = "both"
  /\ ohead' = IF opc = "tail" THEN head ELSE ohead
  /\ otail' = IF opc = "head" THEN tail ELSE otail
  /\ UNCHANGED <<arr, head, tail, producerVars, consumerVars, history>>

(* The observer has used the result.                                       *)
OForget ==
  /\ opc = "both"
  /\ opc' = "idle" /\ ohead' = 0 /\ otail' = 0 /\ omoved' = {} /\ oseen' = {}
  /\ UNCHANGED <<arr, head, tail, producerVars, consumerVars>>

Producer == (\E n \in 1 .. MaxBatch : PCheck(n)) \/ (\E f \in Flit : PStore(f)) \/ PPublish
Consumer == (\E n \in 1 .. MaxBatch : CCheck(n)) \/ CLoad \/ CRelease
Observer == (\E first \in {"head", "tail"} : OBegin(first)) \/ OEnd \/ OForget

Next == Producer \/ Consumer \/ Observer

Spec == Init /\ [][Next]_vars
-----------------------------------------------------------------------------
(* Every variable stays within its type.                                   *)
TypeOK ==
  /\ arr \in [Slot -> Flit \union {NoFlit}] /\ head \in Slot /\ tail \in Slot
  /\ room \in 0 .. MaxBatch  /\ ppc \in {"idle", "stored"}
  /\ avail \in 0 .. MaxBatch /\ cpc \in {"idle", "loaded"}
  /\ taken \in Flit \union {NoFlit}
  /\ opc \in {"idle", "head", "tail", "both"}
  /\ ohead \in Slot /\ otail \in Slot
  /\ omoved \subseteq {"head", "tail"} /\ oseen \subseteq 0 .. Size

(* A guard evaluated by one thread is still true when that thread acts on  *)
(* it, whatever the other one did meanwhile: the router may test           *)
(* cannot_fit_two() once and enqueue twice (router.h:745-815).             *)
GuardsHold == room <= capacity /\ avail <= occupancy

(* Between the load of a flit and the move of tail nobody overwrites it,   *)
(* and no slot is read before it was written: a flit that was peeked is    *)
(* the flit that is dequeued.                                              *)
LoadedIntact == /\ cpc = "loaded" => taken = arr[tail]
                /\ \A i \in 1 .. occupancy : arr[SlotOf(tail, i)] \in Flit

(* An occupancy computed by a third thread is one the queue really had     *)
(* during the call, provided only one of its two owners was running: what  *)
(* the end-of-epoch check of router thread 0 relies on (router_thread.h:   *)
(* 208-222, between two barriers of the routers, cores still running).     *)
ObservedOccupancyIsReal ==
  opc = "both" /\ omoved # {"head", "tail"} => Used(ohead, otail) \in oseen

(* The ring is a bounded FIFO: a stored flit appears when head moves, a    *)
(* loaded one leaves when tail moves.                                      *)
Fifo == INSTANCE BoundedFifo WITH queue <- Contents
FifoSpec == Fifo!Spec

(* The inductive invariant behind the three invariants above.              *)
PendingIntact == /\ ppc = "stored" => room > 0 /\ arr[head] \in Flit
                 /\ cpc = "loaded" => avail > 0
IInv == TypeOK /\ GuardsHold /\ PendingIntact /\ LoadedIntact
=============================================================================
