--------------------------- MODULE RQueue_proofs ---------------------------
(***************************************************************************)
(* Proofs about the ring buffer, for every size, every set of flits and    *)
(* every batch size.                                                       *)
(***************************************************************************)
EXTENDS RQueue, SequenceTheorems, TLAPS

USE SizeAssumption, BatchAssumption

(* The remainder in enqueue() and dequeue() wraps the index at the end of  *)
(* the array and nowhere else (r_queue.h:81,90).                           *)
LEMMA SuccWraps ==
  ASSUME NEW i \in Slot
  PROVE  /\ Succ(i) = IF i = Size THEN 0 ELSE i + 1
         /\ Succ(i) \in Slot
<1>1. CASE i = Size
  BY <1>1 DEF Succ, Slot, virtual_size
<1>2. CASE i # Size
  BY <1>2 DEF Succ, Slot, virtual_size
<1>3. QED BY <1>1, <1>2

(* occupancy() and capacity() always add up to the size given to init(),   *)
(* and the guards of the router and of the cores say what their names say. *)
LEMMA UsedAndFree ==
  ASSUME NEW h \in Slot, NEW t \in Slot
  PROVE  /\ Used(h, t) \in 0 .. Size
         /\ Free(h, t) = Size - Used(h, t)
         /\ Used(h, t) = 0 <=> h = t
         /\ t = Succ(h) <=> Used(h, t) = Size
         /\ Used(h, t) >= virtual_size - 2 <=> Size - Used(h, t) < 2
BY SuccWraps DEF Used, Free, Slot, virtual_size

(* Moving head adds a flit, moving tail removes one.                       *)
LEMMA UsedAfterMove ==
  ASSUME NEW h \in Slot, NEW t \in Slot
  PROVE  /\ Used(h, t) < Size => Used(Succ(h), t) = Used(h, t) + 1
         /\ Used(h, t) > 0 => Used(h, Succ(t)) = Used(h, t) - 1
BY SuccWraps DEF Used, Slot, virtual_size

(* The live slots: in the array, none of them the one head designates      *)
(* while there is room, the one after the last live slot is head, and      *)
(* moving tail renumbers them.                                             *)
LEMMA LiveSlots ==
  ASSUME NEW h \in Slot, NEW t \in Slot
  PROVE  /\ \A i \in 1 .. Used(h, t) : SlotOf(t, i) \in Slot /\ SlotOf(t, i) # h
         /\ Used(h, t) < Size => SlotOf(t, Used(h, t) + 1) = h
         /\ Used(h, t) > 0 => SlotOf(t, 1) = t
         /\ \A i \in 1 .. Used(h, t) - 1 : SlotOf(Succ(t), i) = SlotOf(t, i + 1)
BY SuccWraps DEF Used, SlotOf, Slot, virtual_size
-----------------------------------------------------------------------------
(* Initially the invariant holds: the queue is empty and no thread owes    *)
(* anything.                                                               *)
LEMMA InitIInv == Init => IInv
BY DEF Init, IInv, TypeOK, GuardsHold, PendingIntact, LoadedIntact, Slot,
       occupancy, capacity, Used, Free, virtual_size

(* A successful guard of the producer is a reservation it can redeem.      *)
LEMMA PCheckIInv ==
  ASSUME IInv, NEW n \in 1 .. MaxBatch, PCheck(n)
  PROVE  IInv'
<1>1. n <= capacity
  BY UsedAndFree DEF PCheck, IInv, TypeOK, is_full, cannot_fit_two, occupancy, capacity
<1>2. QED
  BY <1>1 DEF PCheck, consumerVars, observerVars, loadVars, history, IInv, TypeOK, GuardsHold,
     PendingIntact, LoadedIntact, occupancy, capacity

(* Storing a flit touches no live slot.                                    *)
LEMMA PStoreIInv ==
  ASSUME IInv, NEW f \in Flit, PStore(f)
  PROVE  IInv'
<1> USE DEF IInv, TypeOK
<1>1. TypeOK' /\ GuardsHold'
  BY DEF PStore, consumerVars, observerVars, loadVars, history, GuardsHold, occupancy, capacity
<1>2. occupancy < Size
  BY UsedAndFree DEF PStore, GuardsHold, occupancy, capacity
<1>3. \A i \in 1 .. occupancy : /\ SlotOf(tail, i) \in Slot
                               /\ SlotOf(tail, i) # head
  BY LiveSlots DEF occupancy
<1>4. cpc = "loaded" => tail # head
  BY UsedAndFree DEF GuardsHold, PendingIntact, occupancy
<1>5. PendingIntact'
  BY DEF PStore, consumerVars, PendingIntact
<1>6. LoadedIntact'
  BY <1>3, <1>4 DEF PStore, consumerVars, LoadedIntact, occupancy
<1>7. QED BY <1>1, <1>5, <1>6

(* Moving head makes the stored flit the last live one.                    *)
LEMMA PPublishIInv ==
  ASSUME IInv, PPublish
  PROVE  IInv'
<1> USE DEF IInv, TypeOK
<1>1. /\ room > 0 /\ occupancy < Size
  BY UsedAndFree DEF PPublish, GuardsHold, PendingIntact, occupancy, capacity
<1>2. /\ head' \in Slot /\ tail' = tail
      /\ occupancy' = occupancy + 1
  BY <1>1, SuccWraps, UsedAfterMove DEF PPublish, occupancy
<1>3. occupancy' \in 0 .. Size /\ capacity' = Size - occupancy' /\ capacity = Size - occupancy
      /\ occupancy \in 0 .. Size
  BY <1>2, UsedAndFree DEF occupancy, capacity
<1>4. TypeOK'
  <2>1. omoved' \subseteq {"head", "tail"} /\ oseen' \subseteq 0 .. Size
    BY <1>3 DEF PPublish, history, Moved
  <2>2. room' \in 0 .. MaxBatch
    BY <1>1 DEF PPublish
  <2>3. QED BY <1>2, <2>1, <2>2 DEF PPublish, consumerVars, loadVars
<1>5. GuardsHold'
  BY <1>1, <1>2, <1>3 DEF PPublish, consumerVars, GuardsHold
<1>6. PendingIntact'
  BY DEF PPublish, consumerVars, PendingIntact
<1>7. SlotOf(tail, occupancy + 1) = head
  BY <1>1, LiveSlots DEF occupancy
<1>8. LoadedIntact'
  <2>1. cpc' = "loaded" => taken' = arr'[tail']
    BY <1>2 DEF PPublish, consumerVars, LoadedIntact
  <2>2. ASSUME NEW i \in 1 .. occupancy' PROVE arr'[SlotOf(tail', i)] \in Flit
    <3>1. CASE i = occupancy + 1
      BY <3>1, <1>2, <1>7 DEF PPublish, PendingIntact
    <3>2. CASE i # occupancy + 1
      <4>1. i \in 1 .. occupancy
        BY <3>2, <1>2, <1>3
      <4>2. QED BY <4>1, <1>2 DEF PPublish, LoadedIntact
    <3>3. QED BY <3>1, <3>2
  <2>3. QED BY <2>1, <2>2 DEF LoadedIntact
<1>9. QED BY <1>4, <1>5, <1>6, <1>8

(* A successful guard of the consumer is a reservation too.                *)
LEMMA CCheckIInv ==
  ASSUME IInv, NEW n \in 1 .. MaxBatch, CCheck(n)
  PROVE  IInv'
<1>1. n <= occupancy
  BY UsedAndFree DEF CCheck, IInv, TypeOK, is_empty, occupancy
<1>2. QED
  BY <1>1 DEF CCheck, producerVars, observerVars, loadVars, history, IInv, TypeOK, GuardsHold,
     PendingIntact, LoadedIntact, occupancy, capacity

(* The flit that is loaded is a live one.                                  *)
LEMMA CLoadIInv ==
  ASSUME IInv, CLoad
  PROVE  IInv'
BY DEF CLoad, producerVars, observerVars, loadVars, history, IInv, TypeOK, GuardsHold,
   PendingIntact, LoadedIntact, occupancy, capacity

(* Moving tail drops the first live slot and keeps the others.             *)
LEMMA CReleaseIInv ==
  ASSUME IInv, CRelease
  PROVE  IInv'
<1> USE DEF IInv, TypeOK
<1>1. avail > 0 /\ occupancy > 0
  BY UsedAndFree DEF CRelease, GuardsHold, PendingIntact, occupancy
<1>2. tail' \in Slot /\ head' = head /\ occupancy' = occupancy - 1
  BY <1>1, SuccWraps, UsedAfterMove DEF CRelease, occupancy
<1>3. occupancy' \in 0 .. Size /\ capacity' = Size - occupancy' /\ capacity = Size - occupancy
      /\ occupancy \in 0 .. Size
  BY <1>2, UsedAndFree DEF occupancy, capacity
<1>4. TypeOK'
  <2>1. omoved' \subseteq {"head", "tail"} /\ oseen' \subseteq 0 .. Size
    BY <1>3 DEF CRelease, history, Moved
  <2>2. avail' \in 0 .. MaxBatch
    BY <1>1 DEF CRelease
  <2>3. QED BY <1>2, <2>1, <2>2 DEF CRelease, producerVars, loadVars
<1>5. GuardsHold'
  BY <1>1, <1>2, <1>3 DEF CRelease, producerVars, GuardsHold
<1>6. PendingIntact'
  BY <1>2 DEF CRelease, producerVars, PendingIntact
<1>7. \A i \in 1 .. occupancy' : /\ SlotOf(tail', i) = SlotOf(tail, i + 1)
                                /\ i + 1 \in 1 .. occupancy
  BY <1>2, UsedAndFree, LiveSlots DEF CRelease, occupancy
<1>8. LoadedIntact'
  BY <1>7 DEF CRelease, LoadedIntact
<1>9. QED BY <1>4, <1>5, <1>6, <1>8

(* The observer only writes its own variables.                             *)
LEMMA ObserverIInv ==
  ASSUME IInv, Observer
  PROVE  IInv'
<1> USE DEF IInv, TypeOK, GuardsHold, PendingIntact, LoadedIntact, producerVars, consumerVars,
            occupancy, capacity
<1>1. CASE \E first \in {"head", "tail"} : OBegin(first)
  BY <1>1, UsedAndFree DEF OBegin
<1>2. CASE OEnd
  BY <1>2 DEF OEnd, history
<1>3. CASE OForget
  BY <1>3 DEF OForget, Slot
<1>4. QED BY <1>1, <1>2, <1>3 DEF Observer

(* Every step preserves the invariant.                                     *)
LEMMA NextIInv == IInv /\ [Next]_vars => IInv'
<1> SUFFICES ASSUME IInv, [Next]_vars PROVE IInv'
  OBVIOUS
<1>1. CASE Producer
  BY <1>1, PCheckIInv, PStoreIInv, PPublishIInv DEF Producer
<1>2. CASE Consumer
  BY <1>2, CCheckIInv, CLoadIInv, CReleaseIInv DEF Consumer
<1>3. CASE Observer
  BY <1>3, ObserverIInv
<1>4. CASE UNCHANGED vars
  BY <1>4 DEF vars, producerVars, consumerVars, observerVars, loadVars, history, IInv, TypeOK, GuardsHold,
     PendingIntact, LoadedIntact, occupancy, capacity
<1>5. QED BY <1>1, <1>2, <1>3, <1>4 DEF Next

(* The inductive invariant holds in every reachable state.                 *)
THEOREM Invariance == Spec => []IInv
BY InitIInv, NextIInv, PTL DEF Spec

(* The fields of a queue stay in range: no index ever leaves the           *)
(* malloc'ed array (r_queue.h:75-92).                                      *)
THEOREM TypeCorrect == Spec => []TypeOK
<1>1. IInv => TypeOK BY DEF IInv
<1>2. QED BY Invariance, <1>1, PTL

(* What a guard promised its caller is still there when it is used: no     *)
(* enqueue overflows and no dequeue underflows, so the assertions of       *)
(* r_queue.h:77-79 and 86-88 never fire.                                   *)
THEOREM GuardsStayTrue == Spec => []GuardsHold
<1>1. IInv => GuardsHold BY DEF IInv
<1>2. QED BY Invariance, <1>1, PTL

(* No live slot is overwritten and none is read before it was written.     *)
THEOREM NoOverwrite == Spec => []LoadedIntact
<1>1. IInv => LoadedIntact BY DEF IInv
<1>2. QED BY Invariance, <1>1, PTL
-----------------------------------------------------------------------------
(* What the observer knows after its first load: that index, unless it has *)
(* moved since; and, unless both moved, an occupancy the queue had.        *)
HalfSeen ==
  /\ opc = "head" => /\ "head" \notin omoved => ohead = head
                     /\ omoved # {"head", "tail"} => Used(ohead, tail) \in oseen
  /\ opc = "tail" => /\ "tail" \notin omoved => otail = tail
                     /\ omoved # {"head", "tail"} => Used(head, otail) \in oseen

ObserverInv == HalfSeen /\ ObservedOccupancyIsReal

(* The other threads' steps that move no index do not concern the observer.*)
LEMMA UnmovedObserverInv ==
  ASSUME ObserverInv, UNCHANGED <<head, tail, observerVars>>
  PROVE  ObserverInv'
BY DEF ObserverInv, HalfSeen, ObservedOccupancyIsReal, observerVars, loadVars, history

(* When an index moves, the new occupancy is one the queue had; the load   *)
(* of the other index stays good as long as only one of them moves.        *)
LEMMA MovedObserverInv ==
  ASSUME TypeOK, ObserverInv, UNCHANGED loadVars,
         \/ UNCHANGED tail /\ Moved("head")
         \/ UNCHANGED head /\ Moved("tail")
  PROVE  ObserverInv'
<1> USE DEF ObserverInv, HalfSeen, ObservedOccupancyIsReal, Moved, loadVars, history, TypeOK
<1>1. CASE opc = "head"
  BY <1>1 DEF occupancy
<1>2. CASE opc = "tail"
  BY <1>2 DEF occupancy
<1>3. CASE opc \notin {"head", "tail"}
  BY <1>3
<1>4. QED BY <1>1, <1>2, <1>3

(* The observer's own steps.                                               *)
LEMMA ObserverObserverInv ==
  ASSUME TypeOK, ObserverInv, Observer
  PROVE  ObserverInv'
<1> USE DEF ObserverInv, HalfSeen, ObservedOccupancyIsReal, TypeOK, history
<1>1. CASE \E first \in {"head", "tail"} : OBegin(first)
  BY <1>1 DEF OBegin, occupancy
<1>2. CASE OEnd
  BY <1>2 DEF OEnd
<1>3. CASE OForget
  BY <1>3 DEF OForget
<1>4. QED BY <1>1, <1>2, <1>3 DEF Observer

(* Every step keeps what the observer knows.                               *)
LEMMA NextObserverInv == IInv /\ ObserverInv /\ [Next]_vars => ObserverInv'
<1> SUFFICES ASSUME IInv, ObserverInv, [Next]_vars PROVE ObserverInv'
  OBVIOUS
<1>0. TypeOK
  BY DEF IInv
<1>1. CASE PPublish
  BY <1>0, <1>1, MovedObserverInv DEF PPublish
<1>2. CASE CRelease
  BY <1>0, <1>2, MovedObserverInv DEF CRelease
<1>3. CASE Observer
  BY <1>0, <1>3, ObserverObserverInv
<1>4. CASE UNCHANGED <<head, tail, observerVars>>
  BY <1>4, UnmovedObserverInv
<1>5. QED
  BY <1>1, <1>2, <1>3, <1>4
     DEF Next, Producer, Consumer, vars, PCheck, PStore, CCheck, CLoad

(* The end-of-epoch check reads the occupancy of queues in use: as long as *)
(* only one of the two owners moves its index while it does, the result is *)
(* an occupancy that the queue had meanwhile (router_thread.h:208-222).    *)
THEOREM ObservedIsReal == Spec => []ObservedOccupancyIsReal
<1>1. Init => ObserverInv
  BY DEF Init, ObserverInv, HalfSeen, ObservedOccupancyIsReal
<1>2. ObserverInv => ObservedOccupancyIsReal
  BY DEF ObserverInv
<1>3. QED
  BY Invariance, <1>1, NextObserverInv, <1>2, PTL DEF Spec
-----------------------------------------------------------------------------
(* The contents are a sequence as long as the occupancy.                   *)
LEMMA ContentsIsSeq ==
  ASSUME IInv
  PROVE  Contents \in Seq(Flit) /\ Len(Contents) = occupancy /\ occupancy \in 0 .. Size
<1>1. occupancy \in 0 .. Size
  BY UsedAndFree DEF IInv, TypeOK, occupancy
<1>2. \A i \in 1 .. occupancy : arr[SlotOf(tail, i)] \in Flit
  BY DEF IInv, LoadedIntact
<1>3. QED BY <1>1, <1>2 DEF Contents

(* Two states with the same indices and the same live slots have the same  *)
(* contents.                                                               *)
LEMMA ContentsKept ==
  ASSUME head' = head, tail' = tail,
         \A i \in 1 .. occupancy : arr'[SlotOf(tail, i)] = arr[SlotOf(tail, i)]
  PROVE  Contents' = Contents
BY DEF Contents, occupancy

(* An empty ring is the empty sequence.                                    *)
LEMMA FifoInit == Init => Fifo!Init
<1> SUFFICES ASSUME Init PROVE Contents = <<>>
  BY DEF Fifo!Init
<1>1. occupancy = 0
  BY DEF Init, occupancy, Used
<1>2. QED BY <1>1 DEF Contents

(* Moving head is the Enqueue of the FIFO.                                 *)
LEMMA PublishEnqueues ==
  ASSUME IInv, PPublish
  PROVE  Fifo!Enqueue
<1> USE DEF IInv, TypeOK
<1>1. occupancy < Size /\ arr[head] \in Flit
  BY UsedAndFree DEF PPublish, GuardsHold, PendingIntact, occupancy, capacity
<1>2. occupancy' = occupancy + 1 /\ tail' = tail /\ arr' = arr
  BY <1>1, UsedAfterMove DEF PPublish, occupancy
<1>3. SlotOf(tail, occupancy + 1) = head
  BY <1>1, LiveSlots DEF occupancy
<1>4. Contents \in Seq(Flit) /\ Len(Contents) = occupancy /\ occupancy \in 0 .. Size
  BY ContentsIsSeq
<1>5. Contents' = Append(Contents, arr[head])
  <2>1. Contents' = [i \in 1 .. occupancy + 1 |-> arr[SlotOf(tail, i)]]
    BY <1>2 DEF Contents
  <2>2. \A i \in 1 .. occupancy : Contents[i] = arr[SlotOf(tail, i)]
    BY DEF Contents
  <2>3. QED BY <1>3, <1>4, <2>1, <2>2
<1>6. QED BY <1>1, <1>4, <1>5 DEF Fifo!Enqueue

(* Moving tail is its Dequeue.                                             *)
LEMMA ReleaseDequeues ==
  ASSUME IInv, CRelease
  PROVE  Fifo!Dequeue
<1> USE DEF IInv, TypeOK
<1>1. occupancy > 0
  BY UsedAndFree DEF CRelease, GuardsHold, PendingIntact, occupancy
<1>2. occupancy' = occupancy - 1 /\ tail' = Succ(tail) /\ arr' = arr
  BY <1>1, UsedAfterMove DEF CRelease, occupancy
<1>3. \A i \in 1 .. occupancy - 1 : SlotOf(tail', i) = SlotOf(tail, i + 1)
  BY <1>2, LiveSlots DEF occupancy
<1>4. Contents \in Seq(Flit) /\ Len(Contents) = occupancy /\ occupancy \in 0 .. Size
  BY ContentsIsSeq
<1>5. Contents' = Tail(Contents)
  <2>1. Contents' = [i \in 1 .. occupancy - 1 |-> arr[SlotOf(tail, i + 1)]]
    BY <1>2, <1>3, <1>4 DEF Contents
  <2>2. \A i \in 1 .. occupancy - 1 : Contents[i + 1] = arr[SlotOf(tail, i + 1)]
    BY <1>4 DEF Contents
  <2>3. /\ Tail(Contents) \in Seq(Flit) /\ Len(Tail(Contents)) = occupancy - 1
        /\ \A i \in 1 .. occupancy - 1 : Tail(Contents)[i] = Contents[i + 1]
    BY <1>1, <1>4, HeadTailProperties
  <2>4. Contents' \in Seq(Flit) /\ Len(Contents') = occupancy - 1
    <3>1. \A i \in 1 .. occupancy - 1 : arr[SlotOf(tail, i + 1)] \in Flit
      BY <1>4 DEF LoadedIntact
    <3>2. occupancy - 1 \in Nat
      BY <1>1, <1>4
    <3>3. QED BY <2>1, <3>1, <3>2
  <2>5. QED BY <2>1, <2>2, <2>3, <2>4, SeqEqual
<1>6. QED BY <1>1, <1>4, <1>5 DEF Fifo!Dequeue

(* Every step of the ring is a step of the FIFO or leaves it alone.        *)
LEMMA FifoStep == IInv /\ [Next]_vars => [Fifo!Next]_Contents
<1> SUFFICES ASSUME IInv, [Next]_vars PROVE [Fifo!Next]_Contents
  OBVIOUS
<1> USE DEF Producer, Consumer, Observer, producerVars, consumerVars, loadVars, history, observerVars
<1>1. CASE PPublish
  BY <1>1, PublishEnqueues DEF Fifo!Next
<1>2. CASE CRelease
  BY <1>2, ReleaseDequeues DEF Fifo!Next
<1>3. CASE \E f \in Flit : PStore(f)
  <2>1. \A i \in 1 .. occupancy : SlotOf(tail, i) # head
    BY LiveSlots DEF IInv, TypeOK, occupancy
  <2>2. head' = head /\ tail' = tail
    BY <1>3 DEF PStore
  <2>3. \A i \in 1 .. occupancy : arr'[SlotOf(tail, i)] = arr[SlotOf(tail, i)]
    BY <1>3, <2>1 DEF PStore, IInv, TypeOK
  <2>4. QED BY <2>2, <2>3, ContentsKept
<1>4. CASE UNCHANGED <<arr, head, tail>>
  BY <1>4, ContentsKept
<1>5. QED
  BY <1>1, <1>2, <1>3, <1>4 DEF Next, vars, PCheck, CCheck, CLoad, OBegin, OEnd, OForget

(* The lock-free ring with separately visible stores implements the        *)
(* bounded FIFO that routers and cores take it for: flits leave in the     *)
(* order they came and never more than Size are inside.                    *)
THEOREM ImplementsFifo == Spec => FifoSpec
BY Invariance, FifoInit, FifoStep, PTL DEF Spec, FifoSpec, Fifo!Spec
=============================================================================
