---------------------------- MODULE BoundedFifo ----------------------------
(***************************************************************************)
(* What a queue of the simulator promises to the two threads that share    *)
(* it: a first-in first-out channel that holds at most Size flits.  The    *)
(* ring buffer of module RQueue implements it.                             *)
(***************************************************************************)
EXTENDS Naturals, Sequences

CONSTANTS
  Flit,   \* the values a queue can carry
  Size    \* the most flits the queue may hold

VARIABLE queue

Init == queue = <<>>

(* One flit enters at the back of a queue that has room for it.            *)
Enqueue == /\ Len(queue) < Size
           /\ \E f \in Flit : queue' = Append(queue, f)

(* The flit at the front leaves.                                           *)
Dequeue == /\ queue # <<>>
           /\ queue' = Tail(queue)

Next == Enqueue \/ Dequeue

Spec == Init /\ [][Next]_queue
=============================================================================
