-------------------------- MODULE SimThreads_proofs --------------------------
(***************************************************************************)
(* The barriers of the simulator's threads, for any grid, any number of    *)
(* columns of threads, any work and any timers: counters that the last     *)
(* thread resets, and that a thread may enter again before all threads of  *)
(* the round before have left (router_thread.h:202, :223, :232, :249).     *)
(***************************************************************************)
EXTENDS SimThreads, FiniteSetTheorems, TLAPS

-----------------------------------------------------------------------------
(* The four barriers.  Which threads are at position pc.                   *)
Threads(f, pc) == {r \in Rid : f[r] = pc}
Routers(pc) == Threads(rpc, pc)
Workers(pc) == Threads(wpc, pc)

CyclePc  == {"epoch", "loop", "scan", "spin", "mate", "look", "lookq", "advance", "tick"}
CheckPc  == {"check", "store", "bar2"}
SettlePc == {"decide", "all"}
RouterPc == CyclePc \union CheckPc \union SettlePc
            \union {"bar1", "wait1", "wait2", "all2", "waitall2", "waitall", "done"}
VisitPc  == {"init", "loop", "tile", "flag", "first", "second"}
WorkerPc == VisitPc \union SettlePc
            \union {"end", "publish", "all2", "waitall2", "waitall", "done"}

ControlOK ==
  /\ waiting \in [Barrier -> Int]
  /\ rpc \in [Rid -> RouterPc] /\ wpc \in [Rid -> WorkerPc]

(* Between two checks the first barrier of the routers fills up; those     *)
(* still at the second one may leave it.  During a check the second fills  *)
(* up, and those still at the first one may leave.                         *)
RoutersFree ==
  /\ \A r \in Rid : rpc[r] \notin CheckPc
  /\ \E r \in Rid : rpc[r] # "wait1"
  /\ waiting["routers"] = Cardinality(Routers("wait1")) /\ waiting["routers2"] = 0
RoutersMeet ==
  /\ \A r \in Rid : rpc[r] \in CheckPc \union {"wait1", "wait2"}
  /\ \E r \in Rid : rpc[r] # "wait2"
  /\ waiting["routers"] = 0 /\ waiting["routers2"] = Cardinality(Routers("wait2"))

(* The same for the barriers of all threads, around the decision.          *)
ThreadsFree ==
  /\ \A r \in Rid : rpc[r] \notin SettlePc /\ wpc[r] \notin SettlePc
  /\ \E r \in Rid : rpc[r] # "waitall2" \/ wpc[r] # "waitall2"
  /\ waiting["threads2"] = Cardinality(Routers("waitall2")) + Cardinality(Workers("waitall2"))
  /\ waiting["threads"] = 0
ThreadsMeet ==
  /\ \A r \in Rid : /\ rpc[r] \in SettlePc \union {"waitall2", "waitall"}
                    /\ wpc[r] \in SettlePc \union {"waitall2", "waitall"}
  /\ \E r \in Rid : rpc[r] # "waitall" \/ wpc[r] # "waitall"
  /\ waiting["threads2"] = 0
  /\ waiting["threads"] = Cardinality(Routers("waitall")) + Cardinality(Workers("waitall"))

BarrierInv == /\ ControlOK
              /\ RoutersFree \/ RoutersMeet
              /\ ThreadsFree \/ ThreadsMeet
-----------------------------------------------------------------------------
(* Quotient and remainder.                                                 *)
LEMMA DivMod ==
  ASSUME NEW a \in Int, NEW b \in Int, b > 0
  PROVE  /\ a \div b \in Int /\ a % b \in 0 .. b - 1
         /\ a = b * (a \div b) + (a % b)
<1>1. a \div b \in Int /\ a % b \in 0 .. b - 1
  OBVIOUS
<1>2. a = b * (a \div b) + (a % b)
  BY Z3
<1>3. QED BY <1>1, <1>2

(* The sizes derived from the constants.                                   *)
LEMMA Sizes ==
  /\ COLUMNS \in Nat /\ COLUMNS > 0 /\ columns \in Nat /\ columns > 0
  /\ GRID_X = COLUMNS * columns
  /\ GRID_X \in Nat /\ GRID_Y \in Nat /\ GRID_X > 0 /\ GRID_Y > 0
  /\ IsFiniteSet(Rid) /\ Cardinality(Rid) = COLUMNS
<1>1. /\ COLUMNS \in Nat /\ COLUMNS > 0 /\ COLUMNS <= GRID_X
      /\ GRID_X \in Nat /\ GRID_Y \in Nat /\ GRID_X > 0 /\ GRID_Y > 0
  BY GridAssumption
<1>2. GRID_X = COLUMNS * columns /\ columns \in Int
  BY <1>1, DivMod, GridAssumption DEF columns
<1>3. columns > 0
  BY <1>1, <1>2
<1>4. IsFiniteSet(0 .. COLUMNS - 1) /\ Cardinality(0 .. COLUMNS - 1) = COLUMNS
  BY <1>1, FS_Interval
<1>5. QED BY <1>1, <1>2, <1>3, <1>4 DEF Rid

(* Counting the threads at a position: none, all, and what a step of one   *)
(* thread changes.                                                         *)
LEMMA Counting ==
  ASSUME NEW f, NEW p
  PROVE  /\ IsFiniteSet(Threads(f, p)) /\ Cardinality(Threads(f, p)) \in 0 .. COLUMNS
         /\ Cardinality(Threads(f, p)) = 0 <=> \A r \in Rid : f[r] # p
         /\ Cardinality(Threads(f, p)) = COLUMNS <=> \A r \in Rid : f[r] = p
<1>1. Threads(f, p) \in SUBSET Rid
  BY DEF Threads
<1>2. /\ IsFiniteSet(Threads(f, p)) /\ Cardinality(Threads(f, p)) <= COLUMNS
      /\ Cardinality(Threads(f, p)) = COLUMNS => Threads(f, p) = Rid
  BY <1>1, Sizes, FS_Subset
<1>3. Cardinality(Threads(f, p)) \in Nat /\ (Cardinality(Threads(f, p)) = 0 <=> Threads(f, p) = {})
  BY <1>2, FS_CardinalityType, FS_EmptySet
<1>4. Threads(f, p) = Rid => Cardinality(Threads(f, p)) = COLUMNS
  BY Sizes
<1>5. /\ Threads(f, p) = {} <=> \A r \in Rid : f[r] # p
      /\ Threads(f, p) = Rid <=> \A r \in Rid : f[r] = p
  BY DEF Threads
<1>6. Cardinality(Threads(f, p)) \in 0 .. COLUMNS
  BY <1>2, <1>3, Sizes
<1>7. QED BY <1>2, <1>3, <1>4, <1>5, <1>6

(* The count at a position after a thread has moved.                       *)
LEMMA CountingStep ==
  ASSUME NEW f, NEW g, NEW p, NEW r \in Rid,
         \A q \in Rid : q # r => g[q] = f[q]
  PROVE  Cardinality(Threads(g, p)) =
           Cardinality(Threads(f, p)) + (IF g[r] = p THEN 1 ELSE 0) - (IF f[r] = p THEN 1 ELSE 0)
<1>1. /\ IsFiniteSet(Threads(f, p)) /\ Cardinality(Threads(f, p)) \in Int
      /\ Cardinality(Threads(g, p)) \in Int
  BY Counting, Sizes
<1>2. CASE g[r] = p /\ f[r] # p
  <2>1. Threads(g, p) = Threads(f, p) \union {r} /\ r \notin Threads(f, p)
    BY <1>2 DEF Threads
  <2>2. Cardinality(Threads(g, p)) = Cardinality(Threads(f, p)) + 1
    BY <1>1, <2>1, FS_AddElement
  <2>3. QED BY <1>1, <1>2, <2>2
<1>3. CASE g[r] # p /\ f[r] = p
  <2>1. Threads(g, p) = Threads(f, p) \ {r} /\ r \in Threads(f, p)
    BY <1>3 DEF Threads
  <2>2. Cardinality(Threads(g, p)) = Cardinality(Threads(f, p)) - 1
    BY <1>1, <2>1, FS_RemoveElement
  <2>3. QED BY <1>1, <1>3, <2>2
<1>4. CASE g[r] = p <=> f[r] = p
  <2>1. Threads(g, p) = Threads(f, p)
    BY <1>4 DEF Threads
  <2>2. QED BY <1>1, <1>4, <2>1
<1>5. QED BY <1>2, <1>3, <1>4

(* When all but one are counted, the one is the thread elsewhere.          *)
LEMMA CountingOthers ==
  ASSUME NEW f, NEW p, NEW r \in Rid, f[r] # p, Cardinality(Threads(f, p)) = COLUMNS - 1
  PROVE  \A q \in Rid : q # r => f[q] = p
<1>1. IsFiniteSet(Rid \ {r}) /\ Cardinality(Rid \ {r}) = COLUMNS - 1
  BY Sizes, FS_RemoveElement
<1>2. Threads(f, p) \in SUBSET (Rid \ {r})
  BY DEF Threads
<1>3. Threads(f, p) = Rid \ {r}
  BY <1>1, <1>2, FS_Subset
<1>4. QED BY <1>3 DEF Threads
-----------------------------------------------------------------------------
(* A router or worker that moves changes the counts of its old and its new *)
(* position only.                                                          *)
LEMMA RouterMoves ==
  ASSUME ControlOK, NEW r \in Rid, NEW pc \in RouterPc, GoR(r, pc)
  PROVE  /\ rpc' \in [Rid -> RouterPc] /\ rpc'[r] = pc
         /\ \A q \in Rid : q # r => rpc'[q] = rpc[q]
         /\ \A p : Cardinality(Routers(p))' = Cardinality(Routers(p))
                + (IF pc = p THEN 1 ELSE 0) - (IF rpc[r] = p THEN 1 ELSE 0)
<1>1. /\ rpc' \in [Rid -> RouterPc] /\ rpc'[r] = pc
      /\ \A q \in Rid : q # r => rpc'[q] = rpc[q]
  BY DEF ControlOK, GoR
<1>2. ASSUME NEW p
      PROVE  Cardinality(Threads(rpc', p)) = Cardinality(Threads(rpc, p))
                + (IF rpc'[r] = p THEN 1 ELSE 0) - (IF rpc[r] = p THEN 1 ELSE 0)
  BY <1>1, CountingStep
<1>3. QED BY <1>1, <1>2 DEF Routers

(* The same for a worker thread.                                           *)
LEMMA WorkerMoves ==
  ASSUME ControlOK, NEW w \in Rid, NEW pc \in WorkerPc, GoW(w, pc)
  PROVE  /\ wpc' \in [Rid -> WorkerPc] /\ wpc'[w] = pc
         /\ \A q \in Rid : q # w => wpc'[q] = wpc[q]
         /\ \A p : Cardinality(Workers(p))' = Cardinality(Workers(p))
                + (IF pc = p THEN 1 ELSE 0) - (IF wpc[w] = p THEN 1 ELSE 0)
<1>1. /\ wpc' \in [Rid -> WorkerPc] /\ wpc'[w] = pc
      /\ \A q \in Rid : q # w => wpc'[q] = wpc[q]
  BY DEF ControlOK, GoW
<1>2. ASSUME NEW p
      PROVE  Cardinality(Threads(wpc', p)) = Cardinality(Threads(wpc, p))
                + (IF wpc'[w] = p THEN 1 ELSE 0) - (IF wpc[w] = p THEN 1 ELSE 0)
  BY <1>1, CountingStep
<1>3. QED BY <1>1, <1>2 DEF Workers

(* The counts at a position are between none and all.                      *)
LEMMA Counts ==
  ASSUME NEW p
  PROVE  /\ Cardinality(Routers(p)) \in 0 .. COLUMNS /\ Cardinality(Workers(p)) \in 0 .. COLUMNS
         /\ Cardinality(Routers(p)) = 0 <=> \A r \in Rid : rpc[r] # p
         /\ Cardinality(Workers(p)) = 0 <=> \A w \in Rid : wpc[w] # p
         /\ Cardinality(Routers(p)) = COLUMNS <=> \A r \in Rid : rpc[r] = p
         /\ Cardinality(Workers(p)) = COLUMNS <=> \A w \in Rid : wpc[w] = p
BY Counting DEF Routers, Workers

(* Steps within a cycle, within a check and within the settling of an      *)
(* epoch concern no barrier.                                               *)
LEMMA RouterBetween ==
  ASSUME BarrierInv, NEW r \in Rid, NEW pc, GoR(r, pc), UNCHANGED <<waiting, wpc>>,
         \/ rpc[r] \in CyclePc /\ pc \in CyclePc \union {"bar1", "all2"}
         \/ rpc[r] \in CheckPc /\ pc \in CheckPc
         \/ rpc[r] \in SettlePc /\ pc \in SettlePc
  PROVE  BarrierInv'
<1> USE DEF BarrierInv, CyclePc, CheckPc, SettlePc, RouterPc
<1>1. /\ rpc' \in [Rid -> RouterPc] /\ rpc'[r] = pc
      /\ \A q \in Rid : q # r => rpc'[q] = rpc[q]
      /\ \A p \in {"wait1", "wait2", "waitall2", "waitall"} :
           Cardinality(Routers(p))' = Cardinality(Routers(p))
  <2>1. \A p \in {"wait1", "wait2", "waitall2", "waitall"} : pc # p /\ rpc[r] # p
    OBVIOUS
  <2>2. pc \in RouterPc
    OBVIOUS
  <2>3. \A p : Cardinality(Routers(p)) \in Int
    BY Counts, Sizes
  <2>4. QED BY <2>1, <2>2, <2>3, RouterMoves
<1>2. \A p : Cardinality(Workers(p))' = Cardinality(Workers(p))
  BY DEF Workers
<1>3. ControlOK'
  BY <1>1 DEF ControlOK
<1>4. (RoutersFree \/ RoutersMeet)'
  BY <1>1 DEF RoutersFree, RoutersMeet
<1>5. (ThreadsFree \/ ThreadsMeet)'
  BY <1>1, <1>2 DEF ThreadsFree, ThreadsMeet
<1>6. QED BY <1>3, <1>4, <1>5

(* The same for the steps of a worker.                                     *)
LEMMA WorkerBetween ==
  ASSUME BarrierInv, NEW w \in Rid, NEW pc, GoW(w, pc), UNCHANGED <<waiting, rpc>>,
         \/ /\ wpc[w] \in VisitPc \union {"end", "publish"}
            /\ pc \in VisitPc \union {"end", "publish", "all2"}
         \/ wpc[w] \in SettlePc /\ pc \in SettlePc
  PROVE  BarrierInv'
<1> USE DEF BarrierInv, VisitPc, SettlePc, WorkerPc
<1>1. /\ wpc' \in [Rid -> WorkerPc] /\ wpc'[w] = pc
      /\ \A q \in Rid : q # w => wpc'[q] = wpc[q]
      /\ \A p \in {"waitall2", "waitall"} : Cardinality(Workers(p))' = Cardinality(Workers(p))
  <2>1. \A p \in {"waitall2", "waitall"} : pc # p /\ wpc[w] # p
    OBVIOUS
  <2>2. pc \in WorkerPc
    OBVIOUS
  <2>3. \A p : Cardinality(Workers(p)) \in Int
    BY Counts, Sizes
  <2>4. QED BY <2>1, <2>2, <2>3, WorkerMoves
<1>2. \A p : Cardinality(Routers(p))' = Cardinality(Routers(p))
  BY DEF Routers
<1>3. ControlOK'
  BY <1>1 DEF ControlOK
<1>4. (RoutersFree \/ RoutersMeet)'
  BY <1>1, <1>2 DEF RoutersFree, RoutersMeet
<1>5. (ThreadsFree \/ ThreadsMeet)'
  BY <1>1, <1>2 DEF ThreadsFree, ThreadsMeet
<1>6. QED BY <1>3, <1>4, <1>5

(* The barriers of the routers: the last to come opens it for all, the     *)
(* others are then at its waiting position and nobody is past it.          *)
LEMMA ArriveRouters ==
  ASSUME BarrierInv, NEW r \in Rid,
         RArrive(r, "bar1", "routers", COLUMNS, "wait1", AfterBar1(r))
  PROVE  BarrierInv'
<1> USE DEF BarrierInv, RArrive, At, Arrive, IsLast, CyclePc, CheckPc, SettlePc, RouterPc
<1> DEFINE pc == IF IsLast("routers", COLUMNS) THEN AfterBar1(r) ELSE "wait1"
<1>1. pc \in RouterPc /\ (pc = "wait1" \/ pc \in CheckPc)
  BY DEF AfterBar1
<1>2. /\ rpc' \in [Rid -> RouterPc] /\ rpc'[r] = pc
      /\ \A q \in Rid : q # r => rpc'[q] = rpc[q]
      /\ \A p : Cardinality(Routers(p))' = Cardinality(Routers(p))
                + (IF pc = p THEN 1 ELSE 0) - (IF rpc[r] = p THEN 1 ELSE 0)
  BY <1>1, RouterMoves
<1>3. RoutersFree
  BY DEF RoutersMeet
<1>4. \A p : Cardinality(Workers(p))' = Cardinality(Workers(p))
  BY DEF Workers, workerVars
<1>5. \A p : Cardinality(Routers(p)) \in 0 .. COLUMNS
  BY Counts
<1>6. /\ waiting' \in [Barrier -> Int]
      /\ \A b \in Barrier : b # "routers" => waiting'[b] = waiting[b]
      /\ waiting'["routers"] = IF waiting["routers"] + 1 = COLUMNS THEN 0 ELSE waiting["routers"] + 1
  BY DEF ControlOK, Barrier
<1>7. ControlOK'
  BY <1>2, <1>6 DEF ControlOK, workerVars
<1>8. (ThreadsFree \/ ThreadsMeet)'
  <2>1. \A p \in {"waitall2", "waitall"} : Cardinality(Routers(p))' = Cardinality(Routers(p))
    BY <1>1, <1>2, <1>5, Sizes
  <2>2. QED
    BY <1>1, <1>2, <1>4, <1>6, <2>1 DEF ThreadsFree, ThreadsMeet, workerVars, Barrier
<1>9. (RoutersFree \/ RoutersMeet)'
  <2>1. CASE IsLast("routers", COLUMNS)
    <3>1. Cardinality(Routers("wait1")) = COLUMNS - 1
      BY <2>1, <1>3, <1>5, Sizes DEF RoutersFree
    <3>2. pc \in CheckPc
      BY <2>1 DEF AfterBar1
    <3>3. \A q \in Rid : q # r => rpc[q] = "wait1"
      BY <3>1, CountingOthers DEF Routers
    <3>4. Cardinality(Routers("wait2")) = 0
      BY <3>3, Counts
    <3>5. QED
      BY <2>1, <1>2, <1>3, <1>6, <3>2, <3>3, <3>4, Sizes DEF RoutersFree, RoutersMeet, ControlOK, Barrier
  <2>2. CASE ~IsLast("routers", COLUMNS)
    <3>1. Cardinality(Routers("wait1"))' = Cardinality(Routers("wait1")) + 1
      BY <2>2, <1>2, <1>5, Sizes
    <3>2. Cardinality(Threads(rpc', "wait1")) # COLUMNS
      BY <2>2, <3>1, <1>3 DEF RoutersFree, Routers
    <3>3. \E q \in Rid : rpc'[q] # "wait1"
      BY <3>2, Counting
    <3>4. QED
      BY <2>2, <1>2, <1>3, <1>6, <3>1, <3>3 DEF RoutersFree, Barrier
  <2>3. QED BY <2>1, <2>2
<1>10. QED BY <1>7, <1>8, <1>9

(* The second barrier of the routers: the last one ends the check for all. *)
LEMMA ArriveRouters2 ==
  ASSUME BarrierInv, NEW r \in Rid,
         RArrive(r, "bar2", "routers2", COLUMNS, "wait2", "epoch")
  PROVE  BarrierInv'
<1> USE DEF BarrierInv, RArrive, At, Arrive, IsLast, CyclePc, CheckPc, SettlePc, RouterPc
<1> DEFINE pc == IF IsLast("routers2", COLUMNS) THEN "epoch" ELSE "wait2"
<1>1. pc \in RouterPc /\ pc \in {"wait2", "epoch"}
  OBVIOUS
<1>2. /\ rpc' \in [Rid -> RouterPc] /\ rpc'[r] = pc
      /\ \A q \in Rid : q # r => rpc'[q] = rpc[q]
      /\ \A p : Cardinality(Routers(p))' = Cardinality(Routers(p))
                + (IF pc = p THEN 1 ELSE 0) - (IF rpc[r] = p THEN 1 ELSE 0)
  BY <1>1, RouterMoves
<1>3. RoutersMeet
  BY DEF RoutersFree
<1>4. \A p : Cardinality(Workers(p))' = Cardinality(Workers(p))
  BY DEF Workers, workerVars
<1>5. \A p : Cardinality(Routers(p)) \in 0 .. COLUMNS
  BY Counts
<1>6. /\ waiting' \in [Barrier -> Int]
      /\ \A b \in Barrier : b # "routers2" => waiting'[b] = waiting[b]
      /\ waiting'["routers2"] = IF waiting["routers2"] + 1 = COLUMNS THEN 0 ELSE waiting["routers2"] + 1
  BY DEF ControlOK, Barrier
<1>7. ControlOK'
  BY <1>2, <1>6 DEF ControlOK, workerVars
<1>8. (ThreadsFree \/ ThreadsMeet)'
  <2>1. \A p \in {"waitall2", "waitall"} : Cardinality(Routers(p))' = Cardinality(Routers(p))
    BY <1>1, <1>2, <1>5, Sizes
  <2>2. QED
    BY <1>1, <1>2, <1>4, <1>6, <2>1 DEF ThreadsFree, ThreadsMeet, workerVars, Barrier
<1>9. (RoutersFree \/ RoutersMeet)'
  <2>1. CASE IsLast("routers2", COLUMNS)
    <3>1. Cardinality(Routers("wait2")) = COLUMNS - 1
      BY <2>1, <1>3, <1>5, Sizes DEF RoutersMeet
    <3>2. \A q \in Rid : q # r => rpc[q] = "wait2"
      BY <3>1, CountingOthers DEF Routers
    <3>3. Cardinality(Routers("wait1")) = 0
      BY <3>2, Counts
    <3>4. QED
      BY <2>1, <1>2, <1>3, <1>6, <3>2, <3>3, Sizes DEF RoutersFree, RoutersMeet, ControlOK, Barrier
  <2>2. CASE ~IsLast("routers2", COLUMNS)
    <3>1. Cardinality(Routers("wait2"))' = Cardinality(Routers("wait2")) + 1
      BY <2>2, <1>2, <1>5, Sizes
    <3>2. Cardinality(Threads(rpc', "wait2")) # COLUMNS
      BY <2>2, <3>1, <1>3 DEF RoutersMeet, Routers
    <3>3. \E q \in Rid : rpc'[q] # "wait2"
      BY <3>2, Counting
    <3>4. Cardinality(Routers("wait1"))' = Cardinality(Routers("wait1"))
      BY <2>2, <1>2, <1>5, Sizes
    <3>5. QED
      BY <2>2, <1>2, <1>3, <1>6, <3>1, <3>3 DEF RoutersMeet, Barrier
  <2>3. QED BY <2>1, <2>2
<1>10. QED BY <1>7, <1>8, <1>9

(* A router that waits goes on only when the barrier was opened for it: the*)
(* counter is 0 again before anyone can come back to the same barrier.     *)
LEMMA WakeRouters ==
  ASSUME BarrierInv, NEW r \in Rid,
         \/ RWake(r, "wait1", "routers", AfterBar1(r))
         \/ RWake(r, "wait2", "routers2", "epoch")
  PROVE  BarrierInv'
<1> USE DEF BarrierInv, RWake, At, CyclePc, CheckPc, SettlePc, RouterPc
<1>1. PICK pc \in CheckPc \union {"epoch"} : GoR(r, pc) /\ (pc = "epoch" <=> rpc[r] = "wait2")
  BY DEF AfterBar1
<1>2. /\ rpc' \in [Rid -> RouterPc] /\ rpc'[r] = pc
      /\ \A q \in Rid : q # r => rpc'[q] = rpc[q]
      /\ \A p : Cardinality(Routers(p))' = Cardinality(Routers(p))
                + (IF pc = p THEN 1 ELSE 0) - (IF rpc[r] = p THEN 1 ELSE 0)
  BY <1>1, RouterMoves
<1>3. \A p : Cardinality(Workers(p))' = Cardinality(Workers(p))
  BY DEF Workers, workerVars
<1>4. \A p : Cardinality(Routers(p)) \in 0 .. COLUMNS
  BY Counts
<1>5. waiting' = waiting /\ wpc' = wpc
  BY DEF shared, workerVars
<1>6. ControlOK'
  BY <1>2, <1>5 DEF ControlOK
<1>7. (ThreadsFree \/ ThreadsMeet)'
  <2>1. \A p \in {"waitall2", "waitall"} : Cardinality(Routers(p))' = Cardinality(Routers(p))
    BY <1>1, <1>2, <1>4, Sizes
  <2>2. QED
    BY <1>1, <1>2, <1>3, <1>5, <2>1 DEF ThreadsFree, ThreadsMeet
<1>8. (RoutersFree \/ RoutersMeet)'
  <2>1. CASE rpc[r] = "wait1"
    <3>1. Cardinality(Routers("wait1")) # 0
      BY <2>1, Counts
    <3>2. RoutersMeet
      BY <2>1, <3>1 DEF RoutersFree
    <3>3. Cardinality(Routers("wait2"))' = Cardinality(Routers("wait2"))
      BY <2>1, <1>1, <1>2, <1>4, Sizes
    <3>4. QED
      BY <2>1, <1>1, <1>2, <1>5, <3>2, <3>3 DEF RoutersMeet
  <2>2. CASE rpc[r] = "wait2"
    <3>1. Cardinality(Routers("wait2")) # 0
      BY <2>2, Counts
    <3>2. RoutersFree
      BY <2>2, <3>1 DEF RoutersMeet
    <3>3. Cardinality(Routers("wait1"))' = Cardinality(Routers("wait1"))
      BY <2>2, <1>1, <1>2, <1>4, Sizes
    <3>4. QED
      BY <2>2, <1>1, <1>2, <1>5, <3>2, <3>3 DEF RoutersFree
  <2>3. QED BY <2>1, <2>2
<1>9. QED BY <1>6, <1>7, <1>8

(* The barriers of all threads, for a router or a worker.                  *)
Moves(r, from, to) == \/ rpc[r] = from /\ to \in RouterPc /\ GoR(r, to) /\ UNCHANGED wpc
                      \/ wpc[r] = from /\ to \in WorkerPc /\ GoW(r, to) /\ UNCHANGED rpc

(* The counts of routers and workers together, when either moves.          *)
LEMMA ThreadMoves ==
  ASSUME ControlOK, NEW r \in Rid, NEW from, NEW to,
         Moves(r, from, to)
  PROVE  /\ rpc' \in [Rid -> RouterPc] /\ wpc' \in [Rid -> WorkerPc]
         /\ \A q \in Rid : /\ rpc'[q] = rpc[q] \/ (q = r /\ rpc'[q] = to /\ rpc[q] = from)
                           /\ wpc'[q] = wpc[q] \/ (q = r /\ wpc'[q] = to /\ wpc[q] = from)
         /\ rpc'[r] = to \/ wpc'[r] = to
         /\ \A p : Cardinality(Routers(p))' + Cardinality(Workers(p))'
                  = Cardinality(Routers(p)) + Cardinality(Workers(p))
                      + (IF to = p THEN 1 ELSE 0) - (IF from = p THEN 1 ELSE 0)
         /\ \A p : p # from /\ p # to => Cardinality(Routers(p))' = Cardinality(Routers(p))
<1>1. \A p : Cardinality(Routers(p)) \in Int /\ Cardinality(Workers(p)) \in Int
  BY Counts, Sizes
<1>2. CASE rpc[r] = from /\ to \in RouterPc /\ GoR(r, to) /\ UNCHANGED wpc
  <2>1. \A p : Cardinality(Workers(p))' = Cardinality(Workers(p))
    BY <1>2 DEF Workers
  <2>2. /\ rpc' \in [Rid -> RouterPc] /\ rpc'[r] = to
        /\ \A q \in Rid : q # r => rpc'[q] = rpc[q]
        /\ \A p : Cardinality(Routers(p))' = Cardinality(Routers(p))
              + (IF to = p THEN 1 ELSE 0) - (IF rpc[r] = p THEN 1 ELSE 0)
    BY <1>2, RouterMoves
  <2>3. wpc' \in [Rid -> WorkerPc]
    BY <1>2 DEF ControlOK
  <2>4. QED BY <1>1, <1>2, <2>1, <2>2, <2>3
<1>3. CASE wpc[r] = from /\ to \in WorkerPc /\ GoW(r, to) /\ UNCHANGED rpc
  <2>1. \A p : Cardinality(Routers(p))' = Cardinality(Routers(p))
    BY <1>3 DEF Routers
  <2>2. /\ wpc' \in [Rid -> WorkerPc] /\ wpc'[r] = to
        /\ \A q \in Rid : q # r => wpc'[q] = wpc[q]
        /\ \A p : Cardinality(Workers(p))' = Cardinality(Workers(p))
              + (IF to = p THEN 1 ELSE 0) - (IF wpc[r] = p THEN 1 ELSE 0)
    BY <1>3, WorkerMoves
  <2>3. rpc' \in [Rid -> RouterPc]
    BY <1>3 DEF ControlOK
  <2>4. QED BY <1>1, <1>3, <2>1, <2>2, <2>3
<1>4. QED BY <1>2, <1>3 DEF Moves

(* All threads but the one that moves are at p, when so many are counted.  *)
LEMMA OtherThreads ==
  ASSUME NEW r \in Rid, NEW p, rpc[r] # p \/ wpc[r] # p,
         Cardinality(Routers(p)) + Cardinality(Workers(p)) = 2 * COLUMNS - 1
  PROVE  /\ \A q \in Rid : q # r => rpc[q] = p /\ wpc[q] = p
         /\ rpc[r] = p \/ wpc[r] = p
<1>1. Cardinality(Routers(p)) \in 0 .. COLUMNS /\ Cardinality(Workers(p)) \in 0 .. COLUMNS
  BY Counts
<1>2. CASE Cardinality(Routers(p)) = COLUMNS
  <2>1. (\A q \in Rid : rpc[q] = p) /\ Cardinality(Workers(p)) = COLUMNS - 1
    BY <1>1, <1>2, Counts, Sizes
  <2>2. wpc[r] # p /\ Cardinality(Threads(wpc, p)) = COLUMNS - 1
    BY <2>1 DEF Workers
  <2>3. \A q \in Rid : q # r => wpc[q] = p
    BY <2>2, CountingOthers
  <2>4. QED BY <2>1, <2>3
<1>3. CASE Cardinality(Workers(p)) = COLUMNS
  <2>1. (\A q \in Rid : wpc[q] = p) /\ Cardinality(Routers(p)) = COLUMNS - 1
    BY <1>1, <1>3, Counts, Sizes
  <2>2. rpc[r] # p /\ Cardinality(Threads(rpc, p)) = COLUMNS - 1
    BY <2>1 DEF Routers
  <2>3. \A q \in Rid : q # r => rpc[q] = p
    BY <2>2, CountingOthers
  <2>4. QED BY <2>1, <2>3
<1>4. QED BY <1>1, <1>2, <1>3, Sizes

(* Some thread is elsewhere, unless both counts are full.                  *)
LEMMA SomeElsewhere ==
  ASSUME NEW f, NEW g, NEW p,
         Cardinality(Threads(f, p)) + Cardinality(Threads(g, p)) # 2 * COLUMNS
  PROVE  \E q \in Rid : f[q] # p \/ g[q] # p
<1>1. Cardinality(Threads(f, p)) = COLUMNS <=> \A q \in Rid : f[q] = p
  BY Counting
<1>2. Cardinality(Threads(g, p)) = COLUMNS <=> \A q \in Rid : g[q] = p
  BY Counting
<1>3. QED BY <1>1, <1>2, Sizes

(* The last of all threads that arrives at the first barrier starts the    *)
(* meeting in which each decides on its own whether there is another       *)
(* epoch.                                                                  *)
LEMMA ArriveThreads2 ==
  ASSUME BarrierInv, NEW r \in Rid, Arrive("threads2", 2 * COLUMNS),
         Moves(r, "all2", IF IsLast("threads2", 2 * COLUMNS) THEN "decide" ELSE "waitall2")
  PROVE  BarrierInv'
<1> USE DEF BarrierInv, Arrive, IsLast, CyclePc, CheckPc, SettlePc, VisitPc, RouterPc, WorkerPc
<1> DEFINE pc == IF IsLast("threads2", 2 * COLUMNS) THEN "decide" ELSE "waitall2"
<1>2. /\ rpc' \in [Rid -> RouterPc] /\ wpc' \in [Rid -> WorkerPc]
      /\ \A q \in Rid : /\ rpc'[q] = rpc[q] \/ (q = r /\ rpc'[q] = pc /\ rpc[q] = "all2")
                        /\ wpc'[q] = wpc[q] \/ (q = r /\ wpc'[q] = pc /\ wpc[q] = "all2")
      /\ rpc'[r] = pc \/ wpc'[r] = pc
      /\ \A p : Cardinality(Routers(p))' + Cardinality(Workers(p))'
              = Cardinality(Routers(p)) + Cardinality(Workers(p))
                  + (IF pc = p THEN 1 ELSE 0) - (IF "all2" = p THEN 1 ELSE 0)
      /\ \A p : p # "all2" /\ p # pc => Cardinality(Routers(p))' = Cardinality(Routers(p))
  BY ThreadMoves
<1>3. ThreadsFree /\ (rpc[r] # "waitall2" \/ wpc[r] # "waitall2")
  BY DEF Moves, ThreadsMeet
<1>4. \A p : Cardinality(Routers(p)) \in 0 .. COLUMNS /\ Cardinality(Workers(p)) \in 0 .. COLUMNS
  BY Counts
<1>5. /\ waiting' \in [Barrier -> Int]
      /\ \A b \in Barrier : b # "threads2" => waiting'[b] = waiting[b]
      /\ waiting'["threads2"] = IF waiting["threads2"] + 1 = 2 * COLUMNS THEN 0 ELSE waiting["threads2"] + 1
  BY DEF ControlOK, Barrier
<1>6. ControlOK'
  BY <1>2, <1>5 DEF ControlOK
<1>7. (RoutersFree \/ RoutersMeet)'
  <2>1. Cardinality(Routers("wait1"))' = Cardinality(Routers("wait1"))
        /\ Cardinality(Routers("wait2"))' = Cardinality(Routers("wait2"))
    BY <1>2
  <2>2. QED
    BY <1>2, <1>5, <2>1 DEF RoutersFree, RoutersMeet, Barrier
<1>8. (ThreadsFree \/ ThreadsMeet)'
  <2>1. CASE IsLast("threads2", 2 * COLUMNS)
    <3>1. Cardinality(Routers("waitall2")) + Cardinality(Workers("waitall2")) = 2 * COLUMNS - 1
      BY <2>1, <1>3, <1>4, Sizes DEF ThreadsFree
    <3>2. /\ \A q \in Rid : q # r => rpc[q] = "waitall2" /\ wpc[q] = "waitall2"
          /\ rpc[r] = "waitall2" \/ wpc[r] = "waitall2"
      BY <3>1, <1>3, OtherThreads
    <3>3. \A q \in Rid : rpc[q] # "waitall" /\ wpc[q] # "waitall"
      BY <3>2 DEF Moves
    <3>4. Cardinality(Routers("waitall")) = 0 /\ Cardinality(Workers("waitall")) = 0
      BY <3>3, Counts
    <3>5. Cardinality(Routers("waitall"))' + Cardinality(Workers("waitall"))' = 0
      BY <2>1, <1>2, <3>4
    <3>6. QED
      BY <2>1, <1>2, <1>3, <1>5, <3>2, <3>5, Sizes DEF ThreadsFree, ThreadsMeet, Barrier, Moves
  <2>2. CASE ~IsLast("threads2", 2 * COLUMNS)
    <3>1. Cardinality(Routers("waitall2"))' + Cardinality(Workers("waitall2"))'
            = Cardinality(Routers("waitall2")) + Cardinality(Workers("waitall2")) + 1
      BY <2>2, <1>2, <1>4, Sizes
    <3>2. Cardinality(Routers("waitall2"))' + Cardinality(Workers("waitall2"))' # 2 * COLUMNS
      BY <2>2, <1>3, <3>1 DEF ThreadsFree
    <3>3. \E q \in Rid : rpc'[q] # "waitall2" \/ wpc'[q] # "waitall2"
      BY <3>2, SomeElsewhere DEF Routers, Workers
    <3>4. QED
      BY <2>2, <1>2, <1>3, <1>5, <3>1, <3>3 DEF ThreadsFree, Barrier
  <2>3. QED BY <2>1, <2>2
<1>9. QED BY <1>6, <1>7, <1>8

(* The last one that arrives at the second barrier ends the meeting.       *)
LEMMA ArriveThreads ==
  ASSUME BarrierInv, NEW r \in Rid, Arrive("threads", 2 * COLUMNS), NEW to \in {"epoch", "init", "done"},
         Moves(r, "all", IF IsLast("threads", 2 * COLUMNS) THEN to ELSE "waitall")
  PROVE  BarrierInv'
<1> USE DEF BarrierInv, Arrive, IsLast, CyclePc, CheckPc, SettlePc, VisitPc, RouterPc, WorkerPc
<1> DEFINE pc == IF IsLast("threads", 2 * COLUMNS) THEN to ELSE "waitall"
<1>1. /\ rpc' \in [Rid -> RouterPc] /\ wpc' \in [Rid -> WorkerPc]
      /\ \A q \in Rid : /\ rpc'[q] = rpc[q] \/ (q = r /\ rpc'[q] = pc /\ rpc[q] = "all")
                        /\ wpc'[q] = wpc[q] \/ (q = r /\ wpc'[q] = pc /\ wpc[q] = "all")
      /\ rpc'[r] = pc \/ wpc'[r] = pc
      /\ \A p : Cardinality(Routers(p))' + Cardinality(Workers(p))'
              = Cardinality(Routers(p)) + Cardinality(Workers(p))
                  + (IF pc = p THEN 1 ELSE 0) - (IF "all" = p THEN 1 ELSE 0)
      /\ \A p : p # "all" /\ p # pc => Cardinality(Routers(p))' = Cardinality(Routers(p))
  BY ThreadMoves
<1>2. ThreadsMeet /\ (rpc[r] # "waitall" \/ wpc[r] # "waitall")
  BY DEF Moves, ThreadsFree
<1>3. \A p : Cardinality(Routers(p)) \in 0 .. COLUMNS /\ Cardinality(Workers(p)) \in 0 .. COLUMNS
  BY Counts
<1>4. /\ waiting' \in [Barrier -> Int]
      /\ \A b \in Barrier : b # "threads" => waiting'[b] = waiting[b]
      /\ waiting'["threads"] = IF waiting["threads"] + 1 = 2 * COLUMNS THEN 0 ELSE waiting["threads"] + 1
  BY DEF ControlOK, Barrier
<1>5. ControlOK'
  BY <1>1, <1>4 DEF ControlOK
<1>6. (RoutersFree \/ RoutersMeet)'
  <2>1. /\ Cardinality(Routers("wait1"))' = Cardinality(Routers("wait1"))
        /\ Cardinality(Routers("wait2"))' = Cardinality(Routers("wait2"))
    BY <1>1
  <2>2. RoutersFree
    BY <1>2 DEF RoutersMeet, ThreadsMeet
  <2>3. QED
    BY <1>1, <1>4, <2>1, <2>2 DEF RoutersFree, Barrier
<1>7. (ThreadsFree \/ ThreadsMeet)'
  <2>1. CASE IsLast("threads", 2 * COLUMNS)
    <3>1. Cardinality(Routers("waitall")) + Cardinality(Workers("waitall")) = 2 * COLUMNS - 1
      BY <2>1, <1>2, <1>3, Sizes DEF ThreadsMeet
    <3>2. /\ \A q \in Rid : q # r => rpc[q] = "waitall" /\ wpc[q] = "waitall"
          /\ rpc[r] = "waitall" \/ wpc[r] = "waitall"
      BY <3>1, <1>2, OtherThreads
    <3>3. \A q \in Rid : rpc[q] # "waitall2" /\ wpc[q] # "waitall2"
      BY <3>2 DEF Moves
    <3>4. Cardinality(Routers("waitall2")) = 0 /\ Cardinality(Workers("waitall2")) = 0
      BY <3>3, Counts
    <3>5. Cardinality(Routers("waitall2"))' + Cardinality(Workers("waitall2"))' = 0
      BY <2>1, <1>1, <3>4
    <3>6. QED
      BY <2>1, <1>1, <1>2, <1>4, <3>2, <3>5, Sizes DEF ThreadsFree, ThreadsMeet, Barrier, Moves
  <2>2. CASE ~IsLast("threads", 2 * COLUMNS)
    <3>1. Cardinality(Routers("waitall"))' + Cardinality(Workers("waitall"))'
            = Cardinality(Routers("waitall")) + Cardinality(Workers("waitall")) + 1
      BY <2>2, <1>1, <1>3, Sizes
    <3>2. Cardinality(Routers("waitall"))' + Cardinality(Workers("waitall"))' # 2 * COLUMNS
      BY <2>2, <1>2, <3>1 DEF ThreadsMeet
    <3>3. \E q \in Rid : rpc'[q] # "waitall" \/ wpc'[q] # "waitall"
      BY <3>2, SomeElsewhere DEF Routers, Workers
    <3>4. QED
      BY <2>2, <1>1, <1>2, <1>4, <3>1, <3>3 DEF ThreadsMeet, Barrier
  <2>3. QED BY <2>1, <2>2
<1>8. QED BY <1>5, <1>6, <1>7

(* Leaving either barrier: the others still find its counter at 0, since   *)
(* nobody can come back to it before the meeting begins or ends.           *)
LEMMA WakeThreads ==
  ASSUME BarrierInv, NEW r \in Rid, UNCHANGED waiting,
         \/ waiting["threads2"] = 0 /\ Moves(r, "waitall2", "decide")
         \/ waiting["threads"] = 0 /\ \E to \in {"epoch", "init", "done"} : Moves(r, "waitall", to)
  PROVE  BarrierInv'
<1> USE DEF BarrierInv, CyclePc, CheckPc, SettlePc, VisitPc, RouterPc, WorkerPc
<1>1. PICK from \in {"waitall2", "waitall"}, to \in {"decide", "epoch", "init", "done"} :
        /\ Moves(r, from, to)
        /\ from = "waitall2" => waiting["threads2"] = 0 /\ to = "decide"
        /\ from = "waitall" => waiting["threads"] = 0 /\ to # "decide"
  OBVIOUS
<1>2. /\ rpc' \in [Rid -> RouterPc] /\ wpc' \in [Rid -> WorkerPc]
      /\ \A q \in Rid : /\ rpc'[q] = rpc[q] \/ (q = r /\ rpc'[q] = to /\ rpc[q] = from)
                        /\ wpc'[q] = wpc[q] \/ (q = r /\ wpc'[q] = to /\ wpc[q] = from)
      /\ rpc'[r] = to \/ wpc'[r] = to
      /\ \A p : Cardinality(Routers(p))' + Cardinality(Workers(p))'
              = Cardinality(Routers(p)) + Cardinality(Workers(p))
                  + (IF to = p THEN 1 ELSE 0) - (IF from = p THEN 1 ELSE 0)
      /\ \A p : p # from /\ p # to => Cardinality(Routers(p))' = Cardinality(Routers(p))
  BY <1>1, ThreadMoves
<1>3. \A p : Cardinality(Routers(p)) \in 0 .. COLUMNS /\ Cardinality(Workers(p)) \in 0 .. COLUMNS
  BY Counts
<1>4. Cardinality(Routers(from)) # 0 \/ Cardinality(Workers(from)) # 0
  BY <1>1, Counts DEF Moves
<1>5. IF from = "waitall2" THEN ThreadsMeet ELSE ThreadsFree
  BY <1>1, <1>3, <1>4, Sizes DEF ThreadsFree, ThreadsMeet
<1>6. ControlOK'
  BY <1>2 DEF ControlOK
<1>7. (RoutersFree \/ RoutersMeet)'
  <2>1. /\ Cardinality(Routers("wait1"))' = Cardinality(Routers("wait1"))
        /\ Cardinality(Routers("wait2"))' = Cardinality(Routers("wait2"))
    BY <1>2
  <2>2. QED
    BY <1>1, <1>2, <2>1 DEF RoutersFree, RoutersMeet, Moves
<1>8. (ThreadsFree \/ ThreadsMeet)'
  <2>1. CASE from = "waitall2"
    <3>1. Cardinality(Routers("waitall"))' + Cardinality(Workers("waitall"))'
            = Cardinality(Routers("waitall")) + Cardinality(Workers("waitall"))
      BY <2>1, <1>1, <1>2, <1>3, Sizes
    <3>2. QED
      BY <2>1, <1>1, <1>2, <1>5, <3>1 DEF ThreadsMeet
  <2>2. CASE from = "waitall"
    <3>1. Cardinality(Routers("waitall2"))' + Cardinality(Workers("waitall2"))'
            = Cardinality(Routers("waitall2")) + Cardinality(Workers("waitall2"))
      BY <2>2, <1>1, <1>2, <1>3, Sizes
    <3>2. QED
      BY <2>2, <1>1, <1>2, <1>5, <3>1 DEF ThreadsFree
  <2>3. QED BY <2>1, <2>2
<1>9. QED BY <1>6, <1>7, <1>8
-----------------------------------------------------------------------------
(* The steps of a router between barriers.                                 *)
RouterAlone(r) ==
  \/ REpoch(r) \/ RLoop(r) \/ RScan(r) \/ RSpin(r) \/ RMate(r)
  \/ RLookActive(r) \/ RLookQueues(r)
  \/ /\ At(r, "advance")
     /\ \E arrived \in SUBSET Kind, sent \in SUBSET oq[RouterTile(r, n[r])] :
          RAdvance(r, arrived, sent)
  \/ RTick(r) \/ RDecide(r) \/ (r = 0 /\ (RCheck \/ RStore))

(* Where a router thread goes by its own steps.                            *)
LEMMA RouterAloneControl ==
  ASSUME ControlOK, NEW r \in Rid, RouterAlone(r)
  PROVE  /\ UNCHANGED <<waiting, wpc>>
         /\ \E pc : /\ GoR(r, pc)
                    /\ \/ rpc[r] \in CyclePc /\ pc \in CyclePc \union {"bar1", "all2"}
                       \/ rpc[r] \in CheckPc /\ pc \in CheckPc
                       \/ rpc[r] \in SettlePc /\ pc \in SettlePc
<1> USE DEF At, shared, workerVars, CyclePc, CheckPc, SettlePc
<1>0. rpc' = rpc => GoR(r, rpc[r])
  BY DEF ControlOK, GoR
<1>1. CASE REpoch(r)
  BY <1>1 DEF REpoch
<1>2. CASE RLoop(r)
  BY <1>2 DEF RLoop
<1>3. CASE RScan(r)
  BY <1>0, <1>3 DEF RScan
<1>4. CASE RSpin(r)
  BY <1>4 DEF RSpin
<1>5. CASE RMate(r)
  BY <1>0, <1>5 DEF RMate
<1>6. CASE RLookActive(r)
  BY <1>6 DEF RLookActive
<1>7. CASE RLookQueues(r)
  BY <1>7 DEF RLookQueues
<1>8. ASSUME NEW arrived, NEW sent, RAdvance(r, arrived, sent)
      PROVE  /\ UNCHANGED <<waiting, wpc>> /\ rpc[r] = "advance"
             /\ \E pc \in CyclePc : GoR(r, pc)
  BY <1>0, <1>8 DEF RAdvance
<1>9. CASE RTick(r)
  BY <1>9 DEF RTick
<1>10. CASE RDecide(r)
  BY <1>10 DEF RDecide
<1>11. CASE r = 0 /\ RCheck
  BY <1>0, <1>11 DEF RCheck
<1>12. CASE r = 0 /\ RStore
  BY <1>12 DEF RStore
<1>13. QED
  BY <1>1, <1>2, <1>3, <1>4, <1>5, <1>6, <1>7, <1>8, <1>9, <1>10, <1>11, <1>12 DEF RouterAlone

(* The steps of a worker between barriers.                                 *)
WorkerAlone(w) ==
  \/ WInit(w) \/ WLoop(w) \/ WSkip(w) \/ WRead(w) \/ WFlag(w) \/ WFirst(w) \/ WSecond(w)
  \/ WEnd(w) \/ WPublish(w) \/ WDecide(w)

(* Where a worker thread goes by its own steps.                            *)
LEMMA WorkerAloneControl ==
  ASSUME ControlOK, NEW w \in Rid, WorkerAlone(w)
  PROVE  /\ UNCHANGED <<waiting, rpc>>
         /\ \E pc : /\ GoW(w, pc)
                    /\ \/ /\ wpc[w] \in VisitPc \union {"end", "publish"}
                          /\ pc \in VisitPc \union {"end", "publish", "all2"}
                       \/ wpc[w] \in SettlePc /\ pc \in SettlePc
<1> USE DEF Is, NextCid, shared, routerVars, VisitPc, SettlePc
<1>1. CASE WInit(w)
  BY <1>1 DEF WInit
<1>2. CASE WLoop(w)
  BY <1>2 DEF WLoop
<1>3. CASE WSkip(w)
  BY <1>3 DEF WSkip
<1>4. CASE WRead(w)
  BY <1>4 DEF WRead
<1>5. CASE WFlag(w)
  BY <1>5 DEF WFlag
<1>6. CASE WFirst(w)
  BY <1>6 DEF WFirst
<1>7. CASE WSecond(w)
  BY <1>7 DEF WSecond
<1>8. CASE WEnd(w)
  BY <1>8 DEF WEnd
<1>9. CASE WPublish(w)
  BY <1>9 DEF WPublish
<1>10. CASE WDecide(w)
  BY <1>10 DEF WDecide
<1>11. QED
  BY <1>1, <1>2, <1>3, <1>4, <1>5, <1>6, <1>7, <1>8, <1>9, <1>10 DEF WorkerAlone

(* The steps at barriers.                                                  *)
LEMMA RouterBarriers ==
  ASSUME BarrierInv, NEW r \in Rid, RBarriers(r)
  PROVE  BarrierInv'
<1> USE DEF At
<1>0. ControlOK
  BY DEF BarrierInv
<1>1. CASE RArrive(r, "bar1", "routers", COLUMNS, "wait1", AfterBar1(r))
  BY <1>1, ArriveRouters
<1>2. CASE RWake(r, "wait1", "routers", AfterBar1(r)) \/ RWake(r, "wait2", "routers2", "epoch")
  BY <1>2, WakeRouters
<1>3. CASE RArrive(r, "bar2", "routers2", COLUMNS, "wait2", "epoch")
  BY <1>3, ArriveRouters2
<1>4. CASE RArrive(r, "all2", "threads2", 2 * COLUMNS, "waitall2", "decide")
  <2>1. Arrive("threads2", 2 * COLUMNS)
        /\ Moves(r, "all2", IF IsLast("threads2", 2 * COLUMNS) THEN "decide" ELSE "waitall2")
    BY <1>4 DEF RArrive, Moves, RouterPc, SettlePc, workerVars
  <2>2. QED BY <2>1, ArriveThreads2
<1>5. CASE RArrive(r, "all", "threads", 2 * COLUMNS, "waitall", AfterThreads(r))
  <2>1. AfterThreads(r) \in {"epoch", "init", "done"}
    BY DEF AfterThreads
  <2>2. Arrive("threads", 2 * COLUMNS)
        /\ Moves(r, "all", IF IsLast("threads", 2 * COLUMNS) THEN AfterThreads(r) ELSE "waitall")
    BY <1>5 DEF RArrive, Moves, RouterPc, CyclePc, workerVars, AfterThreads
  <2>3. QED BY <2>1, <2>2, ArriveThreads
<1>6. CASE \/ RWake(r, "waitall2", "threads2", "decide")
           \/ RWake(r, "waitall", "threads", AfterThreads(r))
  <2>1. \/ waiting["threads2"] = 0 /\ Moves(r, "waitall2", "decide")
        \/ waiting["threads"] = 0 /\ \E to \in {"epoch", "init", "done"} : Moves(r, "waitall", to)
    BY <1>6 DEF RWake, Moves, RouterPc, CyclePc, SettlePc, workerVars, AfterThreads
  <2>2. UNCHANGED waiting
    BY <1>6 DEF RWake, shared
  <2>3. QED BY <2>1, <2>2, WakeThreads
<1>7. QED
  BY <1>1, <1>2, <1>3, <1>4, <1>5, <1>6 DEF RBarriers

(* The same for the barrier steps of a worker.                             *)
LEMMA WorkerBarriers ==
  ASSUME BarrierInv, NEW w \in Rid, WBarriers(w)
  PROVE  BarrierInv'
<1> USE DEF Is
<1>1. CASE WArrive(w, "all2", "threads2", "waitall2", "decide")
  <2>1. Arrive("threads2", 2 * COLUMNS)
        /\ Moves(w, "all2", IF IsLast("threads2", 2 * COLUMNS) THEN "decide" ELSE "waitall2")
    BY <1>1 DEF WArrive, Moves, WorkerPc, SettlePc, routerVars
  <2>2. QED BY <2>1, ArriveThreads2
<1>2. CASE WArrive(w, "all", "threads", "waitall", WAfterThreads(w))
  <2>1. WAfterThreads(w) \in {"epoch", "init", "done"}
    BY DEF WAfterThreads
  <2>2. Arrive("threads", 2 * COLUMNS)
        /\ Moves(w, "all", IF IsLast("threads", 2 * COLUMNS) THEN WAfterThreads(w) ELSE "waitall")
    BY <1>2 DEF WArrive, Moves, WorkerPc, VisitPc, routerVars, WAfterThreads
  <2>3. QED BY <2>1, <2>2, ArriveThreads
<1>3. CASE \/ WWake(w, "waitall2", "threads2", "decide")
           \/ WWake(w, "waitall", "threads", WAfterThreads(w))
  <2>1. \/ waiting["threads2"] = 0 /\ Moves(w, "waitall2", "decide")
        \/ waiting["threads"] = 0 /\ \E to \in {"epoch", "init", "done"} : Moves(w, "waitall", to)
    BY <1>3 DEF WWake, Moves, WorkerPc, VisitPc, SettlePc, routerVars, WAfterThreads
  <2>2. UNCHANGED waiting
    BY <1>3 DEF WWake, shared
  <2>3. QED BY <2>1, <2>2, WakeThreads
<1>4. QED
  BY <1>1, <1>2, <1>3 DEF WBarriers

(* No thread is at a barrier when the simulation starts.                   *)
LEMMA InitBarrierInv == Init => BarrierInv
<1> SUFFICES ASSUME Init PROVE BarrierInv
  OBVIOUS
<1> USE DEF Init, CyclePc, CheckPc, SettlePc, VisitPc, RouterPc, WorkerPc
<1>1. 0 \in Rid
  BY Sizes DEF Rid
<1>2. /\ Cardinality(Routers("wait1")) = 0
      /\ Cardinality(Routers("waitall2")) = 0 /\ Cardinality(Workers("waitall2")) = 0
  BY Counts
<1>3. ControlOK
  BY DEF ControlOK
<1>4. RoutersFree
  BY <1>1, <1>2 DEF RoutersFree, Barrier
<1>5. ThreadsFree
  BY <1>1, <1>2 DEF ThreadsFree, Barrier
<1>6. QED BY <1>3, <1>4, <1>5 DEF BarrierInv

(* Every step of every thread keeps the barriers in order.                 *)
LEMMA NextBarrierInv == BarrierInv /\ [Next]_vars => BarrierInv'
<1> SUFFICES ASSUME BarrierInv, [Next]_vars PROVE BarrierInv'
  OBVIOUS
<1>0. ControlOK
  BY DEF BarrierInv
<1>1. ASSUME NEW r \in Rid, RouterAlone(r) PROVE BarrierInv'
  BY <1>0, <1>1, RouterAloneControl, RouterBetween
<1>2. ASSUME NEW w \in Rid, WorkerAlone(w) PROVE BarrierInv'
  BY <1>0, <1>2, WorkerAloneControl, WorkerBetween
<1>3. ASSUME NEW r \in Rid, RBarriers(r) PROVE BarrierInv'
  BY <1>3, RouterBarriers
<1>4. ASSUME NEW w \in Rid, WBarriers(w) PROVE BarrierInv'
  BY <1>4, WorkerBarriers
<1>5. CASE UNCHANGED vars
  BY <1>5 DEF vars, shared, routerVars, workerVars, BarrierInv, ControlOK, RoutersFree, RoutersMeet,
     ThreadsFree, ThreadsMeet, Routers, Workers
<1>6. QED
  BY <1>1, <1>2, <1>3, <1>4, <1>5
     DEF Next, Router, Worker, RouterAlone, WorkerAlone, Terminating

(* BarrierInv holds in every reachable state of the simulation.            *)
THEOREM BarrierInvariance == Spec => []BarrierInv
BY InitBarrierInv, NextBarrierInv, PTL DEF Spec

(* The barriers of all threads (tsu_core_thread.h:290 and :329, and        *)
(* router_thread.h:232 and :249) keep them together: no thread is in the   *)
(* next epoch, and none still in this one, while another settles whether   *)
(* there is a next one.  And while router thread 0 looks for work          *)
(* (router_thread.h:208), every other router thread is held by one of the  *)
(* two barriers of the routers.                                            *)
THEOREM ThreadsStayInStep == Spec => []ThreadsInStep
<1>1. BarrierInv => EpochsInLockstep
  BY DEF BarrierInv, ThreadsFree, ThreadsMeet, EpochsInLockstep, SettlePc, At, Is
<1>2. BarrierInv => RoutersStopped
  BY Sizes DEF BarrierInv, RoutersFree, RoutersMeet, RoutersStopped, CheckPc, Rid
<1>3. BarrierInv => ThreadsInStep
  BY <1>1, <1>2 DEF ThreadsInStep
<1>4. QED BY BarrierInvariance, <1>3, PTL

(***************************************************************************)
(* Proof that the check of router thread 0, which reads flags and queues   *)
(* one after the other while workers run, ends an epoch only when no work  *)
(* is left; and that the simulation stops only when all of it is done.     *)
(* The parts of the invariant about flags are under OwnFlags: in a later   *)
(* epoch of several columns of threads they do not hold, because workers   *)
(* mark the wrong tiles as active (tsu_core_thread.h:284).                 *)
(***************************************************************************)

(* The numbers of a tile within its router thread and its worker thread.   *)
RouterIndex(t) == (((t % GRID_X) % columns) * GRID_Y) + (t \div GRID_X)
WorkerIndex(t) == ((t \div GRID_X) * columns) + ((t % GRID_X) % columns)

Inputs3 == Tile \X {"core", "net"} \X Kind

Types ==
  /\ global_router_active \in {0, 1} /\ epoch_counter \in Nat \ {0}
  /\ column_active \in [Rid -> BOOLEAN] /\ epoch_has_work \in [Rid -> BOOLEAN]
  /\ isActive \in [Tile -> BOOLEAN]
  /\ iq \in [Tile -> [Kind -> Nat]] /\ oq \in [Tile -> SUBSET ((2 .. 3) \X Tile)]
  /\ net \in [Tile -> [Kind -> Nat]]
  /\ frontier \in [Tile -> BOOLEAN] /\ epoch_begin \in [Tile -> Nat]
  /\ n \in [Rid -> Nat] /\ local \in [Rid -> BOOLEAN]
  /\ snap \in [Rid -> SUBSET Inputs3] /\ rongoing \in [Rid -> BOOLEAN]
  /\ cid \in [Rid -> 0 .. CORES_PER_TH - 1] /\ next \in [Rid -> 0 .. 4]
  /\ act \in [Rid -> BOOLEAN] /\ any \in [Rid -> BOOLEAN] /\ wongoing \in [Rid -> BOOLEAN]

-----------------------------------------------------------------------------
(* Where the threads are while the epoch goes on, and after it was ended.  *)
PhaseInv ==
  /\ global_router_active = 1 =>
       \A q \in Rid : /\ rpc[q] \notin {"all2", "waitall2", "decide", "all"}
                      /\ wpc[q] \in VisitPc \union {"waitall", "done"}
  /\ global_router_active = 0 =>
       /\ \A r \in Rid : rpc[r] \in {"wait1", "bar2", "wait2", "epoch", "all2", "waitall2",
                                     "decide", "all", "waitall"}
       /\ rpc[0] # "wait1"
       /\ \A r \in Rid : rpc[r] = "waitall" => waiting["threads"] # 0
  /\ \A r \in Rid : /\ rpc[r] \in {"check", "store"} => r = 0
                    /\ rpc[r] \in {"all", "waitall"} => column_active[r]
  /\ wpc[0] \in {"all", "waitall"} => epoch_counter # 1

(* The counters of the loops are reset when they end.                      *)
CidPc == {"loop", "publish", "all2", "waitall2", "decide", "all", "waitall"}
LoopInv ==
  \A q \in Rid : /\ rpc[q] \in {"bar1", "wait1"} => n[q] = 0
                 /\ wpc[q] \in CidPc => cid[q] = 0
                 /\ wpc[q] = "init" /\ epoch_counter > num_kernels => cid[q] = 0

(* All threads take the same decision, before anyone acts on it.           *)
AnyWork == \E q \in Rid : epoch_has_work[q]
Ended   == \A q \in Rid : /\ rpc[q] \in {"waitall", "done"} /\ ~rongoing[q]
                          /\ wpc[q] \in {"waitall", "done"} /\ ~wongoing[q]
Running == \A q \in Rid : rpc[q] # "done" /\ rongoing[q] /\ wpc[q] # "done" /\ wongoing[q]
DecisionInv ==
  /\ ThreadsFree => Ended \/ Running
  /\ ThreadsMeet => \A q \in Rid : /\ rpc[q] \in {"all", "waitall"} => rongoing[q] = AnyWork
                                   /\ wpc[q] \in {"all", "waitall"} => wongoing[q] = AnyWork

(* What a tile has left to do.                                             *)
Pending(t) == frontier[t] /\ (GLOBAL_BARRIER > 0 => epoch_begin[t] >= EXPLORE_FRONTIER_ID)
Queued(t)  == oq[t] # {} \/ \E k \in Kind : iq[t][k] > 0
InHand(t)  == LET w == ColumnOf(t) IN
              wpc[w] \in {"first", "second"} /\ next[w] # 0 /\ TileNow(w) = t
Woken(w)   == wpc[w] = "waitall" /\ waiting["threads"] = 0
Live(w)    == wpc[w] \in VisitPc \/ Woken(w)
Unstarted(t) ==
  LET w == ColumnOf(t) IN
  epoch_counter <= num_kernels /\ (Woken(w) \/ (wpc[w] = "init" /\ cid[w] <= WorkerIndex(t)))
Idle(t) == /\ ~Queued(t) /\ ~InHand(t) /\ ~Unstarted(t)
           /\ (Live(ColumnOf(t)) \/ GLOBAL_BARRIER = 0) => ~Pending(t)
Dead(t) == Idle(t) /\ \A k \in Kind : net[t][k] = 0

(* What a worker is about to run is there.                                 *)
HandInv ==
  \A w \in Rid :
    /\ wpc[w] = "flag" =>
         /\ next[w] \in Kind => iq[TileNow(w)][next[w]] > 0
         /\ next[w] = 4 => Pending(TileNow(w))
         /\ ~act[w] => next[w] = 0 /\ ~Pending(TileNow(w))
    /\ wpc[w] = "first" => /\ next[w] # 0
                           /\ next[w] \in Kind => iq[TileNow(w)][next[w]] > 0
    /\ wpc[w] = "second" /\ next[w] = 1 => iq[TileNow(w)][1] > 0

(* What a router noted is still at its inputs when it moves it.            *)
SnapInv ==
  \A r \in Rid :
    /\ rpc[r] \notin {"look", "lookq", "advance"} => snap[r] = {}
    /\ ~local[r] => snap[r] = {}
    /\ rpc[r] \in {"look", "lookq", "advance"} => n[r] \in 0 .. CORES_PER_TH - 1
    /\ \A t \in Tile, k \in Kind :
         /\ <<t, "net", k>> \in snap[r]
         /\ rpc[r] = "advance" => RouterIndex(t) >= n[r]
         => net[t][k] > 0 /\ ColumnOf(t) = r

(* A tile with something to do on its own is marked as active.             *)
FlagInv ==
  (OwnFlags /\ global_router_active = 1) =>
    \A t \in Tile : Live(ColumnOf(t)) /\ (InHand(t) \/ Pending(t) \/ Unstarted(t)) => isActive[t]

(* A column that was seen without work has none but on active tiles.       *)
Clean(t) ==
  LET w == ColumnOf(t) IN
  Queued(t) => isActive[t] /\ ~(wpc[w] = "flag" /\ TileNow(w) = t /\ ~act[w])
SeenClean(t) ==
  LET c == ColumnOf(t) IN
  CASE rpc[c] \in {"advance", "tick"} -> ~local[c]
    [] rpc[c] \in {"look", "lookq"}   -> ~local[c] /\ RouterIndex(t) < n[c]
    [] OTHER                          -> ~column_active[c]
CleanInv ==
  (OwnFlags /\ global_router_active = 1) => \A t \in Tile : SeenClean(t) => Clean(t)

(* What the check of router thread 0 has found so far stays true.          *)
CheckInv ==
  (OwnFlags /\ global_router_active = 1) =>
    /\ rpc[0] = "check" =>
         /\ n[0] \in 0 .. 2 * Cardinality(Tile) - 1
         /\ \A j \in 0 .. n[0] - 1 : /\ ~column_active[CheckColumn(j)] /\ Idle(CheckTile(j))
                                     /\ j % 2 = 1 => Dead(CheckTile(j))
    /\ rpc[0] = "store" /\ ~local[0] => \A t \in Tile : Dead(t)

(* When the epoch is over nothing is left.                                 *)
Settled == (OwnFlags /\ global_router_active = 0) => \A t \in Tile : Dead(t)

(* With one column the flags are right again for the next epoch.           *)
Settling(w) == \/ wpc[w] \in {"publish", "all2", "waitall2", "decide", "all"}
               \/ wpc[w] = "waitall" /\ waiting["threads"] # 0
Kernels(w) == IF wpc[w] \in {"all", "waitall"} THEN epoch_counter <= num_kernels
              ELSE epoch_counter < num_kernels
EndInv ==
  COLUMNS = 1 =>
    \A t \in Tile : /\ Settling(0) \/ (wpc[0] = "end" /\ WorkerIndex(t) < cid[0])
                    /\ frontier[t] \/ Kernels(0)
                    => isActive[t]

(* A worker that found nothing more to do has looked at all its tiles, and *)
(* when the threads have decided to stop there is nothing left.            *)
Final(w, i) == \A t \in Tile : ColumnOf(t) = w /\ WorkerIndex(t) < i => ~CidActive(t)
WorkInv ==
  \A w \in Rid :
    /\ wpc[w] = "end" /\ ~any[w] => Final(w, cid[w])
    /\ wpc[w] = "publish" /\ ~any[w] => Final(w, CORES_PER_TH)
    /\ Settling(w) /\ wpc[w] # "publish" /\ ~epoch_has_work[w] =>
         /\ Final(w, CORES_PER_TH)
         /\ w = 0 /\ wpc[0] \in {"all", "waitall"} => epoch_counter > num_kernels
DoneInv ==
  ThreadsFree /\ Ended =>
    /\ epoch_counter > num_kernels /\ \A t \in Tile : ~frontier[t]
    /\ OwnFlags => \A t \in Tile : ~QueuesBusy(t)

EpochInv == /\ BarrierInv /\ Types /\ PhaseInv /\ LoopInv /\ DecisionInv /\ HandInv /\ SnapInv
            /\ FlagInv /\ CleanInv /\ CheckInv /\ Settled /\ EndInv /\ WorkInv /\ DoneInv
-----------------------------------------------------------------------------
(* Products, quotients and remainders.                                     *)
LEMMA Multiples ==
  ASSUME NEW b \in Nat, b > 0, NEW c \in Int
  PROVE  b * c \in Int /\ (c >= 1 => b * c >= b) /\ (c <= -1 => b * c <= -b)
BY Z3

(* Two decompositions of a number differ by multiples of the divisor.      *)
LEMMA Divisions ==
  ASSUME NEW b \in Int, NEW q \in Int, NEW r \in Int, NEW x \in Int, NEW y \in Int,
         q * b + r = b * x + y
  PROVE  b * (x - q) = r - y
BY Z3

(* No number is odd and even.                                              *)
LEMMA OddEven ==
  ASSUME NEW x \in Int, NEW y \in Int
  PROVE  2 * x + 1 # 2 * y
<1>1. (2 * x + 1) % 2 = 1
  BY Z3
<1>2. (2 * y) % 2 = 0
  BY Z3
<1>3. QED BY <1>1, <1>2

(* a is item r of row q, in rows of b items; m items are p such rows.      *)
Item(a, b, q, r) == b \in Nat /\ b > 0 /\ q \in Int /\ r \in 0 .. b - 1 /\ a = (q * b) + r
Rows(m, b, p) == b \in Nat /\ b > 0 /\ p \in Nat /\ m = p * b

(* A number made of a row and an item has these as quotient and remainder. *)
LEMMA RowAndItem ==
  ASSUME NEW a, NEW b, NEW q, NEW r, Item(a, b, q, r)
  PROVE  a \in Int /\ a \div b = q /\ a % b = r
<1>0. b \in Nat /\ b > 0 /\ q \in Int /\ r \in 0 .. b - 1 /\ a = (q * b) + r
  BY DEF Item
<1>1. a \in Int
  BY <1>0, Z3
<1>2. PICK x \in Int, y \in 0 .. b - 1 : x = a \div b /\ y = a % b /\ a = b * x + y
  BY <1>0, <1>1, DivMod
<1>3. PICK c \in Int : c = x - q
  BY <1>0, <1>2
<1>4. b * c = r - y
  BY <1>0, <1>1, <1>2, <1>3, Divisions
<1>5. r - y < b /\ r - y > -b
  BY <1>0, <1>2
<1>6. c = 0
  BY <1>0, <1>3, <1>4, <1>5, Multiples
<1>7. x = q /\ y = r
  BY <1>0, <1>1, <1>2, <1>3, <1>4, <1>6, Z3
<1>8. QED BY <1>1, <1>2, <1>7

(* It is below the number of items when its row is one of the rows.        *)
LEMMA InRows ==
  ASSUME NEW m, NEW b, NEW p, NEW a, NEW q, NEW r, Rows(m, b, p), Item(a, b, q, r), q \in 0 .. p - 1
  PROVE  a \in 0 .. m - 1
<1>0. /\ b \in Nat /\ b > 0 /\ r \in 0 .. b - 1 /\ a = (q * b) + r
      /\ p \in Nat /\ m = p * b /\ q \in Int /\ 0 <= q /\ q <= p - 1
  BY DEF Item, Rows
<1>1. q * b >= 0 /\ q * b \in Int /\ m \in Int
  BY <1>0, Z3
<1>2. m - b >= q * b
  BY <1>0, Z3
<1>3. QED BY <1>0, <1>1, <1>2

(* Each number below the number of items is in one of the rows.            *)
LEMMA OfRows ==
  ASSUME NEW m, NEW b, NEW p, Rows(m, b, p), NEW a \in 0 .. m - 1
  PROVE  /\ a \div b \in 0 .. p - 1 /\ a % b \in 0 .. b - 1
         /\ Item(a, b, a \div b, a % b)
<1>0. b \in Nat /\ b > 0 /\ p \in Nat /\ m = p * b
  BY DEF Rows
<1>1. m \in Int /\ a \in Int /\ 0 <= a /\ a < m
  BY <1>0, Z3
<1>2. PICK x \in Int, y \in 0 .. b - 1 : x = a \div b /\ y = a % b /\ a = b * x + y
  BY <1>0, <1>1, DivMod
<1>3. a = (x * b) + y
  BY <1>0, <1>2, Z3
<1>4. ~(x <= -1)
  <2>1. x <= -1 => x * b <= -b
    BY <1>0, <1>2, Z3
  <2>2. x * b \in Int
    BY <1>0, <1>2, Z3
  <2>3. QED BY <2>1, <2>2, <1>0, <1>1, <1>2, <1>3
<1>5. ~(x >= p)
  <2>1. x >= p => x * b >= m
    BY <1>0, <1>2, Z3
  <2>2. x * b \in Int
    BY <1>0, <1>2, Z3
  <2>3. QED BY <2>1, <2>2, <1>0, <1>1, <1>2, <1>3
<1>6. QED BY <1>0, <1>2, <1>3, <1>4, <1>5 DEF Item

(* The grid is made of rows, of columns of threads, and of their tiles.    *)
LEMMA Areas ==
  /\ CORES_PER_TH \in Nat /\ CORES_PER_TH > 0
  /\ Rows(CORES_PER_TH, columns, GRID_Y) /\ Rows(CORES_PER_TH, GRID_Y, columns)
  /\ Rows(GRID_X, columns, COLUMNS) /\ Rows(GRID_X * GRID_Y, GRID_X, GRID_Y)
  /\ IsFiniteSet(Tile) /\ Cardinality(Tile) = COLUMNS * CORES_PER_TH
<1>1. CORES_PER_TH \in Nat /\ CORES_PER_TH > 0
  BY Sizes, Z3 DEF CORES_PER_TH
<1>2. /\ Rows(CORES_PER_TH, columns, GRID_Y) /\ Rows(CORES_PER_TH, GRID_Y, columns)
      /\ Rows(GRID_X, columns, COLUMNS) /\ Rows(GRID_X * GRID_Y, GRID_X, GRID_Y)
  BY Sizes, Z3 DEF CORES_PER_TH, Rows
<1>3. GRID_X * GRID_Y \in Nat /\ GRID_X * GRID_Y > 0
  BY Sizes, Z3
<1>4. IsFiniteSet(Tile) /\ Cardinality(Tile) = GRID_X * GRID_Y
  BY <1>3, FS_Interval DEF Tile
<1>5. GRID_X * GRID_Y = COLUMNS * CORES_PER_TH
  <2>1. GRID_X = COLUMNS * columns /\ COLUMNS \in Nat /\ columns \in Nat /\ GRID_Y \in Nat
    BY Sizes, Z3
  <2>2. (COLUMNS * columns) * GRID_Y = COLUMNS * (columns * GRID_Y)
    BY <2>1, Z3
  <2>3. QED BY <2>1, <2>2 DEF CORES_PER_TH
<1>6. QED BY <1>1, <1>2, <1>4, <1>5

(* The tile in column j of thread w, in row y.                             *)
LEMMA TileAt ==
  ASSUME NEW w \in Rid, NEW j \in 0 .. columns - 1, NEW y \in 0 .. GRID_Y - 1,
         NEW t, t = global((w * columns) + j, y)
  PROVE  /\ t \in Tile /\ ColumnOf(t) = w
         /\ t \div GRID_X = y /\ (t % GRID_X) % columns = j
<1> DEFINE x == (w * columns) + j
<1>1. w \in 0 .. COLUMNS - 1
  BY DEF Rid
<1>2. Item(x, columns, w, j)
  BY <1>1, Sizes DEF Item
<1>3. x \in 0 .. GRID_X - 1
  BY <1>1, <1>2, Areas, InRows
<1>4. x \div columns = w /\ x % columns = j
  BY <1>2, RowAndItem
<1>5. Item(t, GRID_X, y, x)
  BY <1>3, Sizes DEF Item, global
<1>6. t \in 0 .. (GRID_X * GRID_Y) - 1
  BY <1>5, Areas, InRows
<1>7. t \div GRID_X = y /\ t % GRID_X = x
  BY <1>5, RowAndItem
<1>8. QED BY <1>4, <1>6, <1>7 DEF Tile, ColumnOf

(* The thread, column and row of a tile give the tile.                     *)
LEMMA OfTile ==
  ASSUME NEW t \in Tile
  PROVE  /\ ColumnOf(t) \in Rid /\ t \div GRID_X \in 0 .. GRID_Y - 1
         /\ (t % GRID_X) % columns \in 0 .. columns - 1
         /\ t = global((ColumnOf(t) * columns) + ((t % GRID_X) % columns), t \div GRID_X)
<1>1. t \in 0 .. (GRID_X * GRID_Y) - 1
  BY DEF Tile
<1>2. /\ t \div GRID_X \in 0 .. GRID_Y - 1 /\ t % GRID_X \in 0 .. GRID_X - 1
      /\ Item(t, GRID_X, t \div GRID_X, t % GRID_X)
  BY <1>1, Areas, OfRows
<1>3. PICK x \in 0 .. GRID_X - 1 : x = t % GRID_X
  BY <1>2
<1>4. /\ x \div columns \in 0 .. COLUMNS - 1 /\ x % columns \in 0 .. columns - 1
      /\ Item(x, columns, x \div columns, x % columns)
  BY Areas, OfRows
<1>5. QED BY <1>2, <1>3, <1>4 DEF Rid, global, Item, ColumnOf

(* A worker thread visits each of its tiles once, under its own number.    *)
LEMMA WorkerTiles ==
  /\ \A w \in Rid, i \in 0 .. CORES_PER_TH - 1 :
       /\ WorkerTile(w, i) \in Tile /\ ColumnOf(WorkerTile(w, i)) = w
       /\ WorkerIndex(WorkerTile(w, i)) = i
  /\ \A t \in Tile : /\ ColumnOf(t) \in Rid /\ WorkerIndex(t) \in 0 .. CORES_PER_TH - 1
                     /\ WorkerTile(ColumnOf(t), WorkerIndex(t)) = t
<1>1. ASSUME NEW w \in Rid, NEW i \in 0 .. CORES_PER_TH - 1
      PROVE  /\ WorkerTile(w, i) \in Tile /\ ColumnOf(WorkerTile(w, i)) = w
             /\ WorkerIndex(WorkerTile(w, i)) = i
  <2>1. /\ i \div columns \in 0 .. GRID_Y - 1 /\ i % columns \in 0 .. columns - 1
        /\ Item(i, columns, i \div columns, i % columns)
    BY Areas, OfRows
  <2>2. QED BY <2>1, TileAt DEF WorkerTile, WorkerIndex, Item
<1>2. ASSUME NEW t \in Tile
      PROVE  /\ ColumnOf(t) \in Rid /\ WorkerIndex(t) \in 0 .. CORES_PER_TH - 1
             /\ WorkerTile(ColumnOf(t), WorkerIndex(t)) = t
  <2>1. Item(WorkerIndex(t), columns, t \div GRID_X, (t % GRID_X) % columns)
    BY OfTile, Sizes DEF WorkerIndex, Item
  <2>2. WorkerIndex(t) \in 0 .. CORES_PER_TH - 1
    BY <2>1, OfTile, Areas, InRows
  <2>3. /\ WorkerIndex(t) \div columns = t \div GRID_X
        /\ WorkerIndex(t) % columns = (t % GRID_X) % columns
    BY <2>1, RowAndItem
  <2>4. QED BY <2>2, <2>3, OfTile DEF WorkerTile
<1>3. QED BY <1>1, <1>2

(* So does a router thread, in its order.                                  *)
LEMMA RouterTiles ==
  /\ \A r \in Rid, i \in 0 .. CORES_PER_TH - 1 :
       /\ RouterTile(r, i) \in Tile /\ ColumnOf(RouterTile(r, i)) = r
       /\ RouterIndex(RouterTile(r, i)) = i
  /\ \A t \in Tile : /\ ColumnOf(t) \in Rid /\ RouterIndex(t) \in 0 .. CORES_PER_TH - 1
                     /\ RouterTile(ColumnOf(t), RouterIndex(t)) = t
<1>1. ASSUME NEW r \in Rid, NEW i \in 0 .. CORES_PER_TH - 1
      PROVE  /\ RouterTile(r, i) \in Tile /\ ColumnOf(RouterTile(r, i)) = r
             /\ RouterIndex(RouterTile(r, i)) = i
  <2>1. /\ i \div GRID_Y \in 0 .. columns - 1 /\ i % GRID_Y \in 0 .. GRID_Y - 1
        /\ Item(i, GRID_Y, i \div GRID_Y, i % GRID_Y)
    BY Areas, OfRows
  <2>2. QED BY <2>1, TileAt DEF RouterTile, RouterIndex, Item
<1>2. ASSUME NEW t \in Tile
      PROVE  /\ ColumnOf(t) \in Rid /\ RouterIndex(t) \in 0 .. CORES_PER_TH - 1
             /\ RouterTile(ColumnOf(t), RouterIndex(t)) = t
  <2>1. Item(RouterIndex(t), GRID_Y, (t % GRID_X) % columns, t \div GRID_X)
    BY OfTile, Sizes DEF RouterIndex, Item
  <2>2. RouterIndex(t) \in 0 .. CORES_PER_TH - 1
    BY <2>1, OfTile, Areas, InRows
  <2>3. /\ RouterIndex(t) \div GRID_Y = (t % GRID_X) % columns
        /\ RouterIndex(t) % GRID_Y = t \div GRID_X
    BY <2>1, RowAndItem
  <2>4. QED BY <2>2, <2>3, OfTile DEF RouterTile
<1>3. QED BY <1>1, <1>2

(* The check goes through every tile, in two steps each.                   *)
LEMMA Checked ==
  /\ \A j \in 0 .. 2 * Cardinality(Tile) - 1 :
       /\ CheckColumn(j) \in Rid /\ CheckTile(j) \in Tile /\ ColumnOf(CheckTile(j)) = CheckColumn(j)
       /\ j % 2 = 1 => /\ j - 1 \in 0 .. 2 * Cardinality(Tile) - 1 /\ (j - 1) % 2 = 0
                       /\ CheckColumn(j - 1) = CheckColumn(j) /\ CheckTile(j - 1) = CheckTile(j)
       /\ j % (2 * CORES_PER_TH) # 0 => /\ j - 1 \in 0 .. 2 * Cardinality(Tile) - 1
                                        /\ CheckColumn(j - 1) = CheckColumn(j)
  /\ \A t \in Tile : \E j \in 0 .. 2 * Cardinality(Tile) - 1 : j % 2 = 1 /\ CheckTile(j) = t
<1>0. PICK c \in Nat, m \in Nat :
        /\ c = 2 * CORES_PER_TH /\ m = 2 * Cardinality(Tile) /\ Rows(m, c, COLUMNS)
        /\ \A j : CheckColumn(j) = j \div c
  BY Areas, Sizes, Z3 DEF Rows, CheckColumn
<1>1. ASSUME NEW j \in 0 .. m - 1
      PROVE  /\ CheckColumn(j) \in Rid /\ CheckTile(j) \in Tile /\ ColumnOf(CheckTile(j)) = CheckColumn(j)
             /\ j % 2 = 1 => /\ j - 1 \in 0 .. m - 1 /\ (j - 1) % 2 = 0
                             /\ CheckColumn(j - 1) = CheckColumn(j) /\ CheckTile(j - 1) = CheckTile(j)
             /\ j % c # 0 => /\ j - 1 \in 0 .. m - 1
                             /\ CheckColumn(j - 1) = CheckColumn(j)
  <2>0. j \in Nat
    OBVIOUS
  <2>1. /\ j \div c \in 0 .. COLUMNS - 1 /\ j % c \in 0 .. c - 1
        /\ Item(j, c, j \div c, j % c)
    BY <1>0, OfRows
  <2>2. /\ j \div 2 \in Int /\ j % 2 \in 0 .. 1 /\ j = 2 * (j \div 2) + (j % 2)
    BY <2>0, DivMod
  <2>3. (j \div 2) % CORES_PER_TH \in 0 .. CORES_PER_TH - 1
    BY <2>2, Areas
  <2>4. CheckColumn(j) \in Rid /\ CheckTile(j) \in Tile /\ ColumnOf(CheckTile(j)) = CheckColumn(j)
    BY <1>0, <2>1, <2>3, RouterTiles DEF CheckTile, Rid
  <2>5. ASSUME j % c # 0
        PROVE  /\ j - 1 \in 0 .. m - 1 /\ CheckColumn(j - 1) = CheckColumn(j)
    <3>1. PICK q \in Int, r \in 0 .. c - 1 : q = j \div c /\ r = j % c /\ j = (q * c) + r
      BY <2>1 DEF Item
    <3>2. r - 1 \in 0 .. c - 1 /\ q * c \in Int
      BY <2>5, <3>1, Z3
    <3>3. Item(j - 1, c, q, r - 1)
      <4>1. c > 0 /\ (q * c) + (r - 1) = j - 1
        BY <2>0, <3>1, <3>2, <1>0 DEF Rows
      <4>2. QED BY <3>1, <3>2, <4>1 DEF Item
    <3>4. (j - 1) \div c = j \div c
      BY <3>1, <3>3, RowAndItem
    <3>5. j # 0
      BY <2>5, <1>0 DEF Rows
    <3>6. QED BY <1>0, <3>4, <3>5
  <2>6. ASSUME j % 2 = 1
        PROVE  /\ j - 1 \in 0 .. m - 1 /\ (j - 1) % 2 = 0
               /\ CheckColumn(j - 1) = CheckColumn(j) /\ CheckTile(j - 1) = CheckTile(j)
    <3>1. PICK x \in Int : x = j \div 2 /\ j = 2 * x + 1
      BY <2>2, <2>6
    <3>2. Item(j - 1, 2, x, 0)
      BY <3>1 DEF Item
    <3>3. (j - 1) % 2 = 0 /\ (j - 1) \div 2 = j \div 2
      BY <3>1, <3>2, RowAndItem
    <3>4. j % c # 0
      <4>1. SUFFICES ASSUME j % c = 0 PROVE FALSE
        OBVIOUS
      <4>2. PICK q \in Int : j = (q * c) + 0
        BY <2>1, <4>1 DEF Item
      <4>3. PICK y \in Int : y = q * CORES_PER_TH
        BY Areas, Z3
      <4>4. j = 2 * y
        BY <4>2, <4>3, <1>0, Areas, Z3
      <4>5. QED BY <3>1, <4>4, OddEven
    <3>5. QED BY <2>5, <3>3, <3>4 DEF CheckTile
  <2>7. QED BY <2>4, <2>5, <2>6
<1>2. ASSUME NEW t \in Tile
      PROVE  \E j \in 0 .. m - 1 : j % 2 = 1 /\ CheckTile(j) = t
  <2>1. PICK i \in 0 .. CORES_PER_TH - 1, w \in Rid : i = RouterIndex(t) /\ w = ColumnOf(t)
    BY RouterTiles
  <2>2. w \in 0 .. COLUMNS - 1 /\ 2 * i + 1 \in 0 .. c - 1
    BY <1>0, <2>1, Areas DEF Rid
  <2>3. PICK x \in Int : x = (w * CORES_PER_TH) + i
    BY <2>1, <2>2, Areas, Z3
  <2>4. PICK k \in Int : k = 2 * x + 1
    BY <2>3
  <2>5. Item(k, c, w, 2 * i + 1)
    BY <1>0, <2>2, <2>3, <2>4, Areas, Z3 DEF Item, Rows
  <2>6. Item(x, CORES_PER_TH, w, i) /\ Item(k, 2, x, 1)
    BY <2>2, <2>3, <2>4, Areas DEF Item
  <2>7. k \in 0 .. m - 1
    BY <1>0, <2>2, <2>5, InRows
  <2>8. k \div c = w /\ x % CORES_PER_TH = i /\ k \div 2 = x /\ k % 2 = 1
    BY <2>5, <2>6, RowAndItem
  <2>9. CheckTile(k) = t
    BY <1>0, <2>1, <2>8, RouterTiles DEF CheckTile
  <2>10. QED BY <2>7, <2>8, <2>9
<1>3. QED BY <1>0, <1>1, <1>2
-----------------------------------------------------------------------------
(* Every step keeps the variables within their types.                      *)
LEMMA InitTypes == Init => Types
BY Areas DEF Init, Types, Inputs3, Kind

(* The tile a worker is at is one of its own.                              *)
LEMMA TileNowIsTile ==
  ASSUME Types, NEW w \in Rid
  PROVE  TileNow(w) \in Tile /\ ColumnOf(TileNow(w)) = w /\ WorkerIndex(TileNow(w)) = cid[w]
<1>1. cid[w] \in 0 .. CORES_PER_TH - 1
  BY DEF Types
<1>2. QED BY <1>1, WorkerTiles DEF TileNow

(* One message more or less in an input queue of a tile.                   *)
Plus(f, g, t, k)  == g = [f EXCEPT ![t][k] = f[t][k] + 1]
Minus(f, g, t, k) == f[t][k] > 0 /\ g = [f EXCEPT ![t][k] = f[t][k] - 1]
(* A queue that takes or gives one message is still a queue.               *)
LEMMA QueueTypes ==
  ASSUME NEW f \in [Tile -> [Kind -> Nat]], NEW g, NEW t \in Tile, NEW k \in Kind,
         Plus(f, g, t, k) \/ Minus(f, g, t, k)
  PROVE  g \in [Tile -> [Kind -> Nat]]
<1>1. PICK x \in Nat : g = [f EXCEPT ![t] = [f[t] EXCEPT ![k] = x]]
  BY DEF Plus, Minus
<1>2. [f[t] EXCEPT ![k] = x] \in [Kind -> Nat]
  OBVIOUS
<1>3. QED BY <1>1, <1>2

(* A router that moves messages takes only what it noted, and it is there. *)
LEMMA AdvanceTypes ==
  ASSUME Types, SnapInv, NEW r \in Rid, NEW arrived \in SUBSET Kind,
         NEW sent \in SUBSET oq[RouterTile(r, n[r])], RAdvance(r, arrived, sent)
  PROVE  Types'
<1> DEFINE t == RouterTile(r, n[r])
<1>1. n[r] \in 0 .. CORES_PER_TH - 1
  BY DEF RAdvance, At, SnapInv
<1>2. t \in Tile /\ ColumnOf(t) = r /\ RouterIndex(t) = n[r]
  BY <1>1, RouterTiles
<1> HIDE DEF t
<1>3. iq' \in [Tile -> [Kind -> Nat]]
  BY <1>2 DEF Types, RAdvance, t
<1>4. oq' \in [Tile -> SUBSET ((2 .. 3) \X Tile)]
  BY <1>2 DEF Types, RAdvance, t
<1>5. net' \in [Tile -> [Kind -> Nat]]
  <2>1. \A k \in arrived : net[t][k] > 0
    <3>1. rpc[r] = "advance" /\ \A k \in arrived : <<t, "net", k>> \in snap[r]
      BY DEF RAdvance, At, t
    <3>2. RouterIndex(t) >= n[r]
      BY <1>1, <1>2
    <3>3. QED BY <1>2, <3>1, <3>2 DEF SnapInv
  <2>2. \A d \in Tile, k \in Kind :
          net[d][k] \in Nat /\ (d = t /\ k \in arrived => net[d][k] > 0)
    BY <2>1 DEF Types
  <2>3. net' = [d \in Tile |-> [k \in Kind |->
                  net[d][k] + (IF d # t /\ <<k, d>> \in sent THEN 1 ELSE 0)
                            - (IF d = t THEN (IF k \in arrived THEN 1 ELSE 0) ELSE 0)]]
    BY DEF RAdvance, t
  <2>4. QED BY <2>2, <2>3
<1>6. n' \in [Rid -> Nat] /\ snap' \in [Rid -> SUBSET Inputs3]
  <2>1. n \in [Rid -> Nat] /\ snap \in [Rid -> SUBSET Inputs3]
    BY DEF Types
  <2>2. /\ n' = [n EXCEPT ![r] = n[r] + 1] \/ n' = [n EXCEPT ![r] = 0]
        /\ snap' = snap \/ snap' = [snap EXCEPT ![r] = {}]
    BY DEF RAdvance
  <2>3. QED BY <1>1, <2>1, <2>2
<1>7. UNCHANGED <<shared, flags, frontier, epoch_begin, local, rongoing, workerVars>>
  BY DEF RAdvance
<1>8. QED BY <1>3, <1>4, <1>5, <1>6, <1>7 DEF Types, shared, flags, workerVars

(* A step of a router thread keeps the types.                              *)
LEMMA RouterTypes ==
  ASSUME Types, SnapInv, NEW r \in Rid, Router(r)
  PROVE  Types'
<1> USE DEF shared, flags, tileVars, routerVars, workerVars
<1>1. CASE REpoch(r)
  BY <1>1 DEF REpoch, Types
<1>2. CASE RLoop(r)
  BY <1>2 DEF RLoop, Types
<1>3. CASE RScan(r)
  BY <1>3 DEF RScan, Types
<1>4. CASE RSpin(r)
  BY <1>4 DEF RSpin, Types
<1>5. CASE RMate(r)
  <2>1. n' \in [Rid -> Nat] /\ local' \in [Rid -> BOOLEAN]
    <3>1. n[r] + 1 \in Nat
      BY DEF Types
    <3>2. n' = [n EXCEPT ![r] = n[r] + 1] \/ n' = [n EXCEPT ![r] = 0]
      BY <1>5 DEF RMate
    <3>3. local' = local \/ local' = [local EXCEPT ![r] = FALSE]
      BY <1>5 DEF RMate
    <3>4. n' \in [Rid -> Nat]
      BY <3>1, <3>2 DEF Types
    <3>5. local' \in [Rid -> BOOLEAN]
      BY <3>3 DEF Types
    <3>6. QED BY <3>4, <3>5
  <2>2. UNCHANGED <<shared, flags, tileVars, snap, rongoing, workerVars>>
    BY <1>5 DEF RMate
  <2>3. QED BY <2>1, <2>2 DEF Types
<1>6. CASE RLookActive(r)
  <2>1. n[r] \in 0 .. CORES_PER_TH - 1
    BY <1>6 DEF RLookActive, At, SnapInv
  <2>2. isActive[RouterTile(r, n[r])] \in BOOLEAN
    BY <2>1, RouterTiles DEF Types
  <2>3. local[r] \in BOOLEAN
    BY DEF Types
  <2>4. (local[r] \/ isActive[RouterTile(r, n[r])]) \in BOOLEAN
    BY <2>2, <2>3
  <2>5. QED BY <1>6, <2>4 DEF RLookActive, Types
<1>7. CASE RLookQueues(r)
  <2>1. n[r] \in 0 .. CORES_PER_TH - 1
    BY <1>7 DEF RLookQueues, At, SnapInv
  <2>2. RouterTile(r, n[r]) \in Tile
    BY <2>1, RouterTiles
  <2>3. Inputs(RouterTile(r, n[r])) \in SUBSET Inputs3
    BY <2>2 DEF Inputs, Inputs3, Types, Kind
  <2>4. (local[r] \/ QueuesBusy(RouterTile(r, n[r]))) \in BOOLEAN
    BY DEF Types, QueuesBusy
  <2>5. QED BY <1>7, <2>1, <2>3, <2>4 DEF RLookQueues, Types
<1>8. ASSUME NEW arrived \in SUBSET Kind, NEW sent \in SUBSET oq[RouterTile(r, n[r])],
             RAdvance(r, arrived, sent)
      PROVE  Types'
  BY <1>8, AdvanceTypes
<1>9. CASE RTick(r)
  BY <1>9 DEF RTick, Types
<1>10. CASE RDecide(r)
  BY <1>10 DEF RDecide, Types
<1>11. CASE r = 0 /\ RCheck
  <2>1. Seen(n[0]) \in BOOLEAN
    BY DEF Seen, QueuesBusy, Types
  <2>2. QED BY <1>11, <2>1 DEF RCheck, Types
<1>12. CASE r = 0 /\ RStore
  BY <1>12 DEF RStore, Types
<1>13. CASE RBarriers(r)
  BY <1>13 DEF RBarriers, RArrive, RWake, Types
<1>14. QED
  BY <1>1, <1>2, <1>3, <1>4, <1>5, <1>6, <1>7, <1>8, <1>9, <1>10, <1>11, <1>12, <1>13 DEF Router

(* A step of a worker keeps them: it dequeues only what is there.          *)
LEMMA WorkerTypes ==
  ASSUME Types, HandInv, NEW w \in Rid, Worker(w)
  PROVE  Types'
<1> USE DEF shared, flags, tileVars, routerVars, workerVars
<1>0. TileNow(w) \in Tile
  BY TileNowIsTile
<1>a. /\ 0 \in 0 .. CORES_PER_TH - 1
      /\ cid[w] \in Nat /\ (cid[w] + 1 < CORES_PER_TH => cid[w] + 1 \in 0 .. CORES_PER_TH - 1)
  BY Areas DEF Types
<1>q. iq \in [Tile -> [Kind -> Nat]] /\ 1 \in Kind
  BY DEF Types, Kind
<1>b. ASSUME NEW pc, NEW again, NextCid(w, again, pc)
      PROVE  cid' \in [Rid -> 0 .. CORES_PER_TH - 1]
  BY <1>a, <1>b DEF NextCid, Types
<1>1. CASE WInit(w)
  <2>1. cid' \in [Rid -> 0 .. CORES_PER_TH - 1]
    BY <1>1, <1>b DEF WInit, Types
  <2>2. iq' \in [Tile -> [Kind -> Nat]]
    <3>1. iq' = iq \/ Plus(iq, iq', TileNow(w), 1)
      BY <1>1 DEF WInit, Plus
    <3>2. QED BY <1>0, <1>q, <3>1, QueueTypes
  <2>3. QED BY <1>1, <2>1, <2>2 DEF WInit, Types
<1>2. CASE WLoop(w)
  BY <1>2 DEF WLoop, Types
<1>3. CASE WSkip(w)
  BY <1>3, <1>b DEF WSkip, Types
<1>4. CASE WRead(w)
  <2>1. epoch_begin' \in [Tile -> Nat]
    BY <1>4, <1>0, WorkAssumption DEF WRead, Types
  <2>2. next' \in [Rid -> 0 .. 4]
    BY <1>4 DEF WRead, Types, Runnable, Kind
  <2>3. act' \in [Rid -> BOOLEAN]
    <3>1. PICK b : act' = [act EXCEPT ![w] = b] /\ b \in BOOLEAN
      BY <1>4, <1>0 DEF WRead, Types
    <3>2. QED BY <3>1 DEF Types
  <2>4. QED BY <1>4, <2>1, <2>2, <2>3 DEF WRead, Types
<1>5. CASE WFlag(w)
  BY <1>5, <1>0 DEF WFlag, Types
<1>6. CASE WFirst(w)
  <2>1. iq' \in [Tile -> [Kind -> Nat]]
    <3>1. next[w] \in {2, 3} => iq[TileNow(w)][next[w]] > 0
      BY <1>6 DEF WFirst, Is, HandInv, Kind
    <3>2. \/ iq' = iq \/ Plus(iq, iq', TileNow(w), 1)
          \/ next[w] \in {2, 3} /\ Minus(iq, iq', TileNow(w), next[w])
      BY <1>6, <3>1 DEF WFirst, Plus, Minus
    <3>3. next[w] \in {2, 3} => next[w] \in Kind
      BY DEF Kind
    <3>4. QED BY <1>0, <1>q, <3>2, <3>3, QueueTypes
  <2>2. oq' \in [Tile -> SUBSET ((2 .. 3) \X Tile)]
    BY <1>6, <1>0, WorkAssumption DEF WFirst, Types
  <2>3. epoch_begin' \in [Tile -> Nat] /\ next' \in [Rid -> 0 .. 4]
    <3>1. epoch_begin' = epoch_begin \/ epoch_begin' = [epoch_begin EXCEPT ![TileNow(w)] = 0]
      BY <1>6 DEF WFirst
    <3>2. next' = next \/ next' = [next EXCEPT ![w] = 0]
      BY <1>6 DEF WFirst
    <3>a. next \in [Rid -> 0 .. 4] /\ 0 \in 0 .. 4
      BY DEF Types
    <3>3. next' \in [Rid -> 0 .. 4]
      BY <3>2, <3>a
    <3>4. epoch_begin' \in [Tile -> Nat]
      BY <1>0, <3>1 DEF Types
    <3>5. QED BY <3>3, <3>4
  <2>4. QED BY <1>6, <2>1, <2>2, <2>3 DEF WFirst, Types
<1>7. CASE WSecond(w)
  <2>1. iq' \in [Tile -> [Kind -> Nat]]
    <3>1. next[w] = 1 => iq[TileNow(w)][1] > 0
      BY <1>7 DEF WSecond, Is, HandInv
    <3>2. iq' = iq \/ Minus(iq, iq', TileNow(w), 1)
      BY <1>7, <3>1 DEF WSecond, Minus
    <3>3. QED BY <1>0, <1>q, <3>2, QueueTypes
  <2>2. oq' \in [Tile -> SUBSET ((2 .. 3) \X Tile)]
    <3>1. oq' = oq \/ \E D \in Fanout : oq' = [oq EXCEPT ![TileNow(w)] = @ \union {<<3, d>> : d \in D}]
      BY <1>7 DEF WSecond
    <3>2. QED BY <3>1, <1>0, WorkAssumption DEF Types
  <2>3. frontier' \in [Tile -> BOOLEAN]
    BY <1>7, <1>0 DEF WSecond, Types
  <2>4. next' \in [Rid -> 0 .. 4] /\ act' \in [Rid -> BOOLEAN]
    BY <1>7, <1>0 DEF WSecond, Types
  <2>5. cid' \in [Rid -> 0 .. CORES_PER_TH - 1]
    BY <1>7, <1>b DEF WSecond
  <2>6. QED BY <1>7, <2>1, <2>2, <2>3, <2>4, <2>5 DEF WSecond, Types
<1>8. CASE WEnd(w)
  <2>1. CidActive(TileNow(w)) \in BOOLEAN
    BY <1>0 DEF CidActive, Types
  <2>2. any' \in [Rid -> BOOLEAN] /\ isActive' \in [Tile -> BOOLEAN]
    BY <1>8, <2>1 DEF WEnd, EndFlags, Types
  <2>3. QED BY <1>8, <1>b, <2>2 DEF WEnd, Types
<1>9. CASE WPublish(w)
  BY <1>9 DEF WPublish, Types
<1>10. CASE WDecide(w)
  <2>1. epoch_counter' \in Nat \ {0} /\ epoch_begin' \in [Tile -> Nat]
    BY <1>10, WorkAssumption DEF WDecide, EpochBegin, Types
  <2>2. QED BY <1>10, <2>1 DEF WDecide, Types
<1>11. CASE WBarriers(w)
  BY <1>11 DEF WBarriers, WArrive, WWake, Types
<1>12. QED
  BY <1>1, <1>2, <1>3, <1>4, <1>5, <1>6, <1>7, <1>8, <1>9, <1>10, <1>11 DEF Worker
-----------------------------------------------------------------------------
(* What a step of one thread leaves alone.                                 *)
LEMMA RouterOthers ==
  ASSUME ControlOK, Types, SnapInv, NEW r \in Rid, Router(r)
  PROVE  /\ UNCHANGED <<workerVars, isActive, epoch_has_work, frontier, epoch_begin, epoch_counter>>
         /\ rpc[r] # "advance" => UNCHANGED <<iq, oq, net>>
         /\ \A t \in Tile : ColumnOf(t) # r => iq'[t] = iq[t] /\ oq'[t] = oq[t]
         /\ \A t \in Tile, k \in Kind : iq'[t][k] >= iq[t][k]
         /\ \A q \in Rid \ {r} : /\ rpc'[q] = rpc[q] /\ n'[q] = n[q] /\ local'[q] = local[q]
                                 /\ snap'[q] = snap[q] /\ rongoing'[q] = rongoing[q]
                                 /\ column_active'[q] = column_active[q]
<1> USE DEF shared, flags, tileVars, routerVars, workerVars, GoR
<1> DEFINE Goal == 
         /\ UNCHANGED <<workerVars, isActive, epoch_has_work, frontier, epoch_begin, epoch_counter>>
         /\ rpc[r] # "advance" => UNCHANGED <<iq, oq, net>>
         /\ \A t \in Tile : ColumnOf(t) # r => iq'[t] = iq[t] /\ oq'[t] = oq[t]
         /\ \A t \in Tile, k \in Kind : iq'[t][k] >= iq[t][k]
         /\ \A q \in Rid \ {r} : /\ rpc'[q] = rpc[q] /\ n'[q] = n[q] /\ local'[q] = local[q]
                                 /\ snap'[q] = snap[q] /\ rongoing'[q] = rongoing[q]
                                 /\ column_active'[q] = column_active[q]
<1>0. \A t \in Tile, k \in Kind : iq[t][k] \in Nat
  BY DEF Types
<1>c. /\ rpc \in [Rid -> RouterPc] /\ n \in [Rid -> Nat] /\ local \in [Rid -> BOOLEAN]
      /\ snap \in [Rid -> SUBSET Inputs3] /\ rongoing \in [Rid -> BOOLEAN]
      /\ column_active \in [Rid -> BOOLEAN]
  BY DEF ControlOK, Types
<1>a. UNCHANGED iq => \A t \in Tile, k \in Kind : iq'[t][k] >= iq[t][k]
  BY <1>0
<1>1. CASE REpoch(r)
  BY <1>1, <1>a, <1>c DEF REpoch
<1>2. CASE RLoop(r)
  BY <1>2, <1>a, <1>c DEF RLoop
<1>3. CASE RScan(r)
  BY <1>3, <1>a, <1>c DEF RScan
<1>4. CASE RSpin(r)
  BY <1>4, <1>a, <1>c DEF RSpin
<1>5. CASE RMate(r)
  BY <1>5, <1>a, <1>c DEF RMate
<1>6. CASE RLookActive(r)
  BY <1>6, <1>a, <1>c DEF RLookActive
<1>7. CASE RLookQueues(r)
  BY <1>7, <1>a, <1>c DEF RLookQueues
<1>8. ASSUME NEW arrived \in SUBSET Kind, NEW sent \in SUBSET oq[RouterTile(r, n[r])],
             RAdvance(r, arrived, sent)
      PROVE  Goal
  <2>1. n[r] \in 0 .. CORES_PER_TH - 1
    BY <1>8 DEF RAdvance, At, SnapInv
  <2>2. PICK d \in Tile : d = RouterTile(r, n[r]) /\ ColumnOf(d) = r
    BY <2>1, RouterTiles
  <2>3. \A t \in Tile : t # d => iq'[t] = iq[t] /\ oq'[t] = oq[t]
    BY <1>8, <2>2 DEF RAdvance, Types
  <2>4. \A k \in Kind : iq'[d][k] >= iq[d][k]
    BY <1>0, <1>8, <2>2 DEF RAdvance, Types
  <2>5. \A t \in Tile, k \in Kind : iq'[t][k] >= iq[t][k]
    BY <1>0, <2>3, <2>4
  <2>6. QED BY <1>8, <1>c, <2>2, <2>3, <2>5 DEF RAdvance, At
<1>9. CASE RTick(r)
  BY <1>9, <1>a, <1>c DEF RTick
<1>10. CASE RDecide(r)
  BY <1>10, <1>a, <1>c DEF RDecide
<1>11. CASE r = 0 /\ RCheck
  BY <1>11, <1>a, <1>c DEF RCheck
<1>12. CASE r = 0 /\ RStore
  BY <1>12, <1>a, <1>c DEF RStore
<1>13. CASE RBarriers(r)
  BY <1>13, <1>a, <1>c DEF RBarriers, RArrive, RWake
<1>14. Goal
  BY <1>1, <1>2, <1>3, <1>4, <1>5, <1>6, <1>7, <1>8, <1>9, <1>10, <1>11, <1>12, <1>13 DEF Router
<1>15. QED BY <1>14

(* A worker changes its own position and the tile it is at.                *)
LEMMA WorkerOthers ==
  ASSUME ControlOK, Types, NEW w \in Rid, Worker(w)
  PROVE  /\ UNCHANGED <<routerVars, column_active, net>>
         /\ \A q \in Rid \ {w} : /\ wpc'[q] = wpc[q] /\ cid'[q] = cid[q] /\ next'[q] = next[q]
                                 /\ act'[q] = act[q] /\ any'[q] = any[q] /\ wongoing'[q] = wongoing[q]
         /\ \A t \in Tile : t # TileNow(w) =>
              iq'[t] = iq[t] /\ oq'[t] = oq[t] /\ frontier'[t] = frontier[t]
         /\ \A t \in Tile : ColumnOf(t) # w => epoch_begin'[t] = epoch_begin[t]
<1> USE DEF shared, flags, tileVars, routerVars, workerVars, GoW, NextCid
<1> DEFINE Goal ==
         /\ UNCHANGED <<routerVars, column_active, net>>
         /\ \A q \in Rid \ {w} : /\ wpc'[q] = wpc[q] /\ cid'[q] = cid[q] /\ next'[q] = next[q]
                                 /\ act'[q] = act[q] /\ any'[q] = any[q] /\ wongoing'[q] = wongoing[q]
         /\ \A t \in Tile : t # TileNow(w) =>
              iq'[t] = iq[t] /\ oq'[t] = oq[t] /\ frontier'[t] = frontier[t]
         /\ \A t \in Tile : ColumnOf(t) # w => epoch_begin'[t] = epoch_begin[t]
<1>0. TileNow(w) \in Tile /\ ColumnOf(TileNow(w)) = w
  BY TileNowIsTile
<1>c. /\ wpc \in [Rid -> WorkerPc] /\ cid \in [Rid -> 0 .. CORES_PER_TH - 1]
      /\ next \in [Rid -> 0 .. 4] /\ act \in [Rid -> BOOLEAN] /\ any \in [Rid -> BOOLEAN]
      /\ wongoing \in [Rid -> BOOLEAN]
  BY DEF ControlOK, Types
<1>a. UNCHANGED epoch_begin => \A t \in Tile : ColumnOf(t) # w => epoch_begin'[t] = epoch_begin[t]
  OBVIOUS
<1>1. CASE WInit(w)
  BY <1>1, <1>c DEF WInit, Types
<1>2. CASE WLoop(w)
  BY <1>2, <1>c DEF WLoop
<1>3. CASE WSkip(w)
  BY <1>3, <1>c DEF WSkip
<1>4. CASE WRead(w)
  BY <1>0, <1>4, <1>c DEF WRead, Types
<1>5. CASE WFlag(w)
  BY <1>5, <1>c DEF WFlag
<1>6. CASE WFirst(w)
  BY <1>0, <1>6, <1>c DEF WFirst, Types
<1>7. CASE WSecond(w)
  BY <1>0, <1>7, <1>c DEF WSecond, Types
<1>8. CASE WEnd(w)
  BY <1>8, <1>c DEF WEnd
<1>9. CASE WPublish(w)
  BY <1>9, <1>c DEF WPublish
<1>10. CASE WDecide(w)
  <2>1. \A t \in Tile : ColumnOf(t) # w => epoch_begin'[t] = epoch_begin[t]
    BY <1>10, <1>c DEF WDecide, EpochBegin, TilesOf
  <2>2. QED BY <1>10, <2>1 DEF WDecide
<1>11. CASE WBarriers(w)
  BY <1>11, <1>c DEF WBarriers, WArrive, WWake
<1>12. Goal
  BY <1>1, <1>2, <1>3, <1>4, <1>5, <1>6, <1>7, <1>8, <1>9, <1>10, <1>11 DEF Worker
<1>13. QED BY <1>12
-----------------------------------------------------------------------------
(* What a thread is about to do stays possible until it does it.           *)
LEMMA RouterHand ==
  ASSUME ControlOK, Types, SnapInv, HandInv, NEW r \in Rid, Router(r)
  PROVE  HandInv'
<1>1. /\ UNCHANGED <<workerVars, frontier, epoch_begin>>
      /\ \A t \in Tile, k \in Kind : iq'[t][k] >= iq[t][k]
  BY RouterOthers
<1>2. \A w \in Rid : TileNow(w) \in Tile
  BY TileNowIsTile
<1>3. \A t \in Tile, k \in Kind : iq[t][k] \in Nat /\ (iq[t][k] > 0 => iq'[t][k] > 0)
  <2>1. iq \in [Tile -> [Kind -> Nat]] /\ iq' \in [Tile -> [Kind -> Nat]]
    BY RouterTypes DEF Types
  <2>2. QED BY <1>1, <2>1
<1>4. QED BY <1>1, <1>2, <1>3 DEF HandInv, workerVars, Pending, TileNow, Kind

(* A worker looks at a tile before it takes something up, and nobody else  *)
(* dequeues from it.                                                       *)
LEMMA WorkerHand ==
  ASSUME ControlOK, Types, HandInv, NEW w \in Rid, Worker(w)
  PROVE  HandInv'
<1> DEFINE H(q) == /\ wpc[q] = "flag" =>
                        /\ next[q] \in Kind => iq[TileNow(q)][next[q]] > 0
                        /\ next[q] = 4 => Pending(TileNow(q))
                        /\ ~act[q] => next[q] = 0 /\ ~Pending(TileNow(q))
                   /\ wpc[q] = "first" => /\ next[q] # 0
                                          /\ next[q] \in Kind => iq[TileNow(q)][next[q]] > 0
                   /\ wpc[q] = "second" /\ next[q] = 1 => iq[TileNow(q)][1] > 0
<1>0. PICK t \in Tile : t = TileNow(w) /\ ColumnOf(t) = w
  BY TileNowIsTile
<1>1. ASSUME NEW q \in Rid, q # w PROVE H(q)'
  <2>1. TileNow(q) \in Tile /\ ColumnOf(TileNow(q)) = q
    BY TileNowIsTile
  <2>2. TileNow(q) # t /\ TileNow(q)' = TileNow(q)
    BY <1>0, <1>1, <2>1, WorkerOthers DEF TileNow
  <2>3. /\ wpc'[q] = wpc[q] /\ next'[q] = next[q] /\ act'[q] = act[q]
        /\ iq'[TileNow(q)] = iq[TileNow(q)] /\ Pending(TileNow(q))' = Pending(TileNow(q))
    BY <1>0, <1>1, <2>1, <2>2, WorkerOthers DEF Pending
  <2>4. H(q)
    BY DEF HandInv
  <2>5. QED BY <2>2, <2>3, <2>4
<1>2. wpc \in [Rid -> WorkerPc] /\ cid \in [Rid -> 0 .. CORES_PER_TH - 1]
  BY DEF ControlOK, Types
<1>3. H(w)
  BY DEF HandInv
<1>a. SUFFICES H(w)'
  BY <1>1 DEF HandInv
<1>4. CASE WRead(w)
  <2>1. /\ UNCHANGED <<iq, frontier, cid>> /\ wpc'[w] = "flag"
        /\ epoch_begin'[t] \in Nat
    <3>1. epoch_begin' \in [Tile -> Nat]
      BY WorkerTypes DEF Types
    <3>2. QED BY <1>2, <1>4, <3>1 DEF WRead, GoW
  <2>2. TileNow(w)' = t
    BY <1>0, <2>1 DEF TileNow
  <2> DEFINE queued == oq[t] # {} \/ \E k \in Kind : iq[t][k] > 0
             explorable == frontier[t] /\ epoch_begin'[t] >= EXPLORE_FRONTIER_ID
  <2>3. /\ act'[w] <=> queued \/ (IF GLOBAL_BARRIER > 0 THEN explorable ELSE frontier[t])
        /\ next'[w] \in (IF Runnable(t) # {} THEN Runnable(t) ELSE IF explorable THEN {4} ELSE {0})
    BY <1>0, <1>4 DEF WRead, Types
  <2>4. \A k \in Runnable(t) : k \in Kind /\ iq[t][k] > 0
    BY DEF Runnable
  <2>5. next'[w] \in Kind => iq'[t][next'[w]] > 0
    BY <2>1, <2>3, <2>4 DEF Kind
  <2>6. /\ next'[w] = 4 => explorable
        /\ Runnable(t) # {} => queued
    BY <2>3, <2>4 DEF Kind
  <2>7. /\ explorable => Pending(t)'
        /\ Pending(t)' => IF GLOBAL_BARRIER > 0 THEN explorable ELSE frontier[t]
    BY <2>1 DEF Pending
  <2>8. ~act'[w] => next'[w] = 0 /\ ~Pending(t)'
    <3>1. explorable => frontier[t]
      OBVIOUS
    <3> HIDE DEF queued, explorable
    <3>2. QED BY <2>3, <2>6, <2>7, <3>1
  <2> HIDE DEF queued, explorable
  <2>9. Pending(TileNow(w))' = Pending(t)'
    BY <2>2 DEF Pending
  <2>10. QED BY <2>1, <2>2, <2>5, <2>6, <2>7, <2>8, <2>9
<1>5. CASE WFlag(w)
  <2>1. /\ UNCHANGED <<iq, next, cid>> /\ wpc[w] = "flag"
        /\ wpc'[w] = IF next[w] = 0 THEN "second" ELSE "first"
    BY <1>2, <1>5 DEF WFlag, GoW, Is, tileVars
  <2>2. TileNow(w)' = TileNow(w)
    BY <2>1 DEF TileNow
  <2>3. QED BY <1>3, <2>1, <2>2
<1>6. CASE WFirst(w)
  <2>1. wpc[w] = "first" /\ wpc'[w] = "second" /\ UNCHANGED cid
    BY <1>2, <1>6 DEF WFirst, GoW, Is
  <2>2. TileNow(w)' = TileNow(w)
    BY <2>1 DEF TileNow
  <2>3. next'[w] = 1 => next[w] = 1 /\ iq' = iq
    BY <1>6 DEF WFirst, Types
  <2>4. QED BY <1>3, <2>1, <2>2, <2>3 DEF Kind
<1>7. CASE WInit(w) \/ WSkip(w) \/ WSecond(w) \/ WEnd(w)
  <2>1. wpc'[w] \in {"init", "loop", "tile", "end", "publish"}
    BY <1>2, <1>7 DEF WInit, WSkip, WSecond, WEnd, NextCid, GoW
  <2>2. QED BY <2>1
<1>8. CASE WLoop(w) \/ WPublish(w) \/ WDecide(w) \/ WBarriers(w)
  <2>1. wpc'[w] \notin {"flag", "first", "second"}
    BY <1>2, <1>8 DEF WLoop, WPublish, WDecide, WBarriers, WArrive, WWake, WAfterThreads, GoW
  <2>2. QED BY <2>1
<1>9. QED
  BY <1>4, <1>5, <1>6, <1>7, <1>8 DEF Worker

(* A worker never takes what a router has noted at the network inputs.     *)
LEMMA WorkerSnap ==
  ASSUME ControlOK, Types, SnapInv, NEW w \in Rid, Worker(w)
  PROVE  SnapInv'
BY WorkerOthers DEF SnapInv, routerVars

(* A router moves what it noted, each tile in turn, and forgets the rest.  *)
LEMMA RouterSnap ==
  ASSUME ControlOK, Types, SnapInv, NEW r \in Rid, Router(r)
  PROVE  SnapInv'
<1> DEFINE A(q) == /\ rpc[q] \notin {"look", "lookq", "advance"} => snap[q] = {}
                   /\ ~local[q] => snap[q] = {}
                   /\ rpc[q] \in {"look", "lookq", "advance"} => n[q] \in 0 .. CORES_PER_TH - 1
           B(q) == \A t \in Tile, k \in Kind :
                     /\ <<t, "net", k>> \in snap[q]
                     /\ rpc[q] = "advance" => RouterIndex(t) >= n[q]
                     => net[t][k] > 0 /\ ColumnOf(t) = q
<1>0. A(r) /\ B(r) /\ \A q \in Rid : A(q) /\ B(q)
  BY DEF SnapInv
<1>1. \A q \in Rid \ {r} : rpc'[q] = rpc[q] /\ n'[q] = n[q] /\ local'[q] = local[q] /\ snap'[q] = snap[q]
  BY RouterOthers
<1>2. /\ rpc \in [Rid -> RouterPc] /\ n \in [Rid -> Nat] /\ local \in [Rid -> BOOLEAN]
      /\ snap \in [Rid -> SUBSET Inputs3]
      /\ net \in [Tile -> [Kind -> Nat]] /\ net' \in [Tile -> [Kind -> Nat]]
  BY RouterTypes DEF ControlOK, Types
<1>3. 0 \in 0 .. CORES_PER_TH - 1 /\ CORES_PER_TH \in Nat
  BY Areas
<1>4. ASSUME NEW q \in Rid, q # r, \A t \in Tile, k \in Kind : ColumnOf(t) # r /\ net[t][k] > 0 => net'[t][k] > 0
      PROVE  A(q)' /\ B(q)'
  BY <1>0, <1>1, <1>4
<1>5. ASSUME UNCHANGED net, snap'[r] = snap[r] \/ snap'[r] = {}, A(r)',
             rpc[r] # "advance", rpc'[r] # "advance"
      PROVE  SnapInv'
  BY <1>0, <1>1, <1>5, <1>2 DEF SnapInv
<1>6. CASE REpoch(r) \/ RLoop(r) \/ RScan(r) \/ RSpin(r) \/ RTick(r) \/ RDecide(r) \/ RBarriers(r)
  <2>1. UNCHANGED <<net, snap>> /\ rpc'[r] \notin {"look", "lookq", "advance"} /\ snap[r] = {}
        /\ rpc[r] # "advance"
    BY <1>0, <1>2, <1>6
       DEF REpoch, RLoop, RScan, RSpin, RTick, RDecide, RBarriers, RArrive, RWake, AfterBar1,
           AfterThreads, GoR, At, tileVars
  <2>2. QED BY <1>5, <2>1
<1>7. CASE r = 0 /\ (RCheck \/ RStore)
  <2>1. UNCHANGED <<net, snap>> /\ rpc'[r] \notin {"look", "lookq", "advance"} /\ snap[r] = {}
        /\ rpc[r] # "advance"
    BY <1>0, <1>2, <1>7 DEF RCheck, RStore, GoR, At, tileVars
  <2>2. QED BY <1>5, <2>1
<1>8. CASE RMate(r)
  <2>1. /\ UNCHANGED <<net, snap>> /\ rpc'[r] \in {"mate", "look"} /\ snap[r] = {}
        /\ rpc[r] # "advance"
        /\ rpc'[r] = "look" => n'[r] = 0
    BY <1>0, <1>2, <1>8 DEF RMate, GoR, At, tileVars
  <2>2. A(r)'
    BY <1>0, <1>3, <2>1
  <2>3. QED BY <1>5, <2>1, <2>2
<1>9. CASE RLookActive(r)
  <2>1. UNCHANGED <<net, snap, n>> /\ rpc[r] = "look" /\ rpc'[r] = "lookq" /\ (~local'[r] => ~local[r])
    BY <1>0, <1>2, <1>9 DEF RLookActive, GoR, At, tileVars
  <2>2. QED BY <1>0, <1>5, <2>1
<1>10. CASE RLookQueues(r)
  <2>1. PICK d \in Tile : d = RouterTile(r, n[r]) /\ ColumnOf(d) = r
    BY <1>0, <1>10, RouterTiles DEF RLookQueues, At
  <2>2. /\ UNCHANGED net /\ rpc[r] = "lookq" /\ snap'[r] = snap[r] \union Inputs(d)
        /\ ~local'[r] => ~local[r] /\ ~QueuesBusy(d)
        /\ rpc'[r] \in {"look", "advance"}
    BY <1>2, <1>10, <2>1 DEF RLookQueues, GoR, At, tileVars
  <2>2a. n'[r] \in 0 .. CORES_PER_TH - 1
    BY <1>2, <1>3, <1>10 DEF RLookQueues
  <2>3. ~QueuesBusy(d) => Inputs(d) = {}
    BY <1>2 DEF QueuesBusy, Inputs, Kind, Types
  <2>4. A(r)'
    BY <1>0, <2>2, <2>2a, <2>3
  <2>5. \A t \in Tile, k \in Kind : <<t, "net", k>> \in Inputs(d) => t = d /\ net[t][k] > 0
    BY DEF Inputs
  <2>6. B(r)'
    BY <1>0, <2>1, <2>2, <2>5
  <2>7. QED BY <1>0, <1>1, <2>2, <2>4, <2>6 DEF SnapInv
<1>11. ASSUME NEW arrived \in SUBSET Kind, NEW sent \in SUBSET oq[RouterTile(r, n[r])],
              RAdvance(r, arrived, sent)
       PROVE  SnapInv'
  <2>1. PICK d \in Tile : d = RouterTile(r, n[r]) /\ ColumnOf(d) = r /\ RouterIndex(d) = n[r]
    BY <1>0, <1>11, RouterTiles DEF RAdvance, At
  <2>2. \A t \in Tile, k \in Kind : t # d => net'[t][k] >= net[t][k]
    BY <1>2, <1>11, <2>1 DEF RAdvance
  <2>3. /\ rpc[r] = "advance" /\ UNCHANGED local
        /\ \/ rpc'[r] = "advance" /\ snap'[r] = snap[r] /\ n'[r] = n[r] + 1 /\ n'[r] < CORES_PER_TH
           \/ rpc'[r] = "tick" /\ snap'[r] = {}
    BY <1>2, <1>11 DEF RAdvance, At, GoR
  <2>4. A(r)'
    BY <1>0, <1>2, <1>3, <2>3
  <2>5. B(r)'
    <3>1. \A t \in Tile : RouterIndex(t) \in Nat
      BY <1>3, RouterTiles
    <3>2. QED BY <1>0, <1>2, <2>1, <2>2, <2>3, <3>1
  <2>6. \A q \in Rid \ {r} : A(q)' /\ B(q)'
    BY <1>2, <1>4, <2>1, <2>2
  <2>7. QED BY <2>4, <2>5, <2>6 DEF SnapInv
<1>12. QED
  BY <1>6, <1>7, <1>8, <1>9, <1>10, <1>11 DEF Router
-----------------------------------------------------------------------------
(* Who is where when the last thread arrives at a barrier of all threads.  *)
LEMMA AtThreads ==
  ASSUME BarrierInv, NEW r \in Rid, rpc[r] = "all" \/ wpc[r] = "all"
  PROVE  /\ ThreadsMeet /\ waiting["threads"] \in Nat
         /\ IsLast("threads", 2 * COLUMNS) =>
              /\ \A q \in Rid : q # r => rpc[q] = "waitall" /\ wpc[q] = "waitall"
              /\ rpc[r] = "waitall" \/ wpc[r] = "waitall"
<1>1. ThreadsMeet
  BY DEF BarrierInv, ThreadsFree, SettlePc
<1>2. Cardinality(Routers("waitall")) \in Nat /\ Cardinality(Workers("waitall")) \in Nat
  BY Counts, Sizes
<1>3. waiting["threads"] \in Nat
  BY <1>1, <1>2 DEF ThreadsMeet
<1>4. ASSUME IsLast("threads", 2 * COLUMNS)
      PROVE  /\ \A q \in Rid : q # r => rpc[q] = "waitall" /\ wpc[q] = "waitall"
             /\ rpc[r] = "waitall" \/ wpc[r] = "waitall"
  <2>1. Cardinality(Routers("waitall")) + Cardinality(Workers("waitall")) = 2 * COLUMNS - 1
    BY <1>1, <1>2, <1>4, Sizes DEF ThreadsMeet, IsLast
  <2>2. QED BY <2>1, OtherThreads
<1>5. QED BY <1>1, <1>3, <1>4

(* The same at the barrier before the decision.                            *)
LEMMA AtThreads2 ==
  ASSUME BarrierInv, NEW r \in Rid, rpc[r] = "all2" \/ wpc[r] = "all2"
  PROVE  /\ ThreadsFree
         /\ IsLast("threads2", 2 * COLUMNS) =>
              /\ \A q \in Rid : q # r => rpc[q] = "waitall2" /\ wpc[q] = "waitall2"
              /\ rpc[r] = "waitall2" \/ wpc[r] = "waitall2"
<1>1. ThreadsFree
  BY DEF BarrierInv, ThreadsMeet, SettlePc
<1>2. Cardinality(Routers("waitall2")) \in Nat /\ Cardinality(Workers("waitall2")) \in Nat
  BY Counts, Sizes
<1>4. ASSUME IsLast("threads2", 2 * COLUMNS)
      PROVE  /\ \A q \in Rid : q # r => rpc[q] = "waitall2" /\ wpc[q] = "waitall2"
             /\ rpc[r] = "waitall2" \/ wpc[r] = "waitall2"
  <2>1. Cardinality(Routers("waitall2")) + Cardinality(Workers("waitall2")) = 2 * COLUMNS - 1
    BY <1>1, <1>2, <1>4, Sizes DEF ThreadsFree, IsLast
  <2>2. QED BY <2>1, OtherThreads
<1>5. QED BY <1>1, <1>4

(* While threads meet, one that waits is counted.                          *)
LEMMA WaitersCounted ==
  ASSUME ThreadsMeet, NEW q \in Rid, rpc[q] = "waitall" \/ wpc[q] = "waitall"
  PROVE  waiting["threads"] # 0
<1>1. /\ Cardinality(Routers("waitall")) \in Nat /\ Cardinality(Workers("waitall")) \in Nat
      /\ Cardinality(Routers("waitall")) # 0 \/ Cardinality(Workers("waitall")) # 0
  BY Counts, Sizes
<1>2. QED BY <1>1 DEF ThreadsMeet

(* What the steps of barriers do: arrive last, arrive, or wake.            *)
LEMMA Opens ==
  ASSUME BarrierInv, NEW r \in Rid, IsLast("threads", 2 * COLUMNS),
         \/ RArrive(r, "all", "threads", 2 * COLUMNS, "waitall", AfterThreads(r))
         \/ WArrive(r, "all", "threads", "waitall", WAfterThreads(r))
  PROVE  /\ global_router_active' = 1 /\ waiting'["threads"] = 0
         /\ UNCHANGED <<epoch_counter, flags, tileVars, n, local, snap, rongoing,
                        cid, next, act, any, wongoing>>
         /\ \A q \in Rid : /\ rpc[q] \in {"all", "waitall"} /\ rpc'[q] \in {"epoch", "waitall", "done"}
                           /\ wpc[q] \in {"all", "waitall"} /\ wpc'[q] \in {"init", "waitall", "done"}
                           /\ wpc'[q] = "init" => wongoing[q]
<1>1. /\ rpc \in [Rid -> RouterPc] /\ wpc \in [Rid -> WorkerPc] /\ waiting \in [Barrier -> Int]
  BY DEF BarrierInv, ControlOK
<1>2. rpc[r] = "all" \/ wpc[r] = "all"
  BY DEF RArrive, WArrive, At, Is
<1>3. /\ \A q \in Rid : q # r => rpc[q] = "waitall" /\ wpc[q] = "waitall"
      /\ rpc[r] = "waitall" \/ wpc[r] = "waitall"
  BY <1>2, AtThreads
<1>4. CASE RArrive(r, "all", "threads", 2 * COLUMNS, "waitall", AfterThreads(r))
  BY <1>1, <1>3, <1>4
     DEF RArrive, Arrive, IsLast, At, GoR, AfterThreads, Barrier, workerVars
<1>5. CASE WArrive(r, "all", "threads", "waitall", WAfterThreads(r))
  BY <1>1, <1>3, <1>5
     DEF WArrive, Arrive, IsLast, Is, GoW, WAfterThreads, Barrier, routerVars
<1>6. QED BY <1>4, <1>5

(* The last arrival of all threads starts the next epoch.                  *)
LEMMA OpensPhase ==
  ASSUME BarrierInv, PhaseInv, NEW r \in Rid, IsLast("threads", 2 * COLUMNS),
         \/ RArrive(r, "all", "threads", 2 * COLUMNS, "waitall", AfterThreads(r))
         \/ WArrive(r, "all", "threads", "waitall", WAfterThreads(r))
  PROVE  PhaseInv'
<1>1. /\ global_router_active' = 1 /\ UNCHANGED <<epoch_counter, column_active>>
      /\ \A q \in Rid : /\ rpc[q] \in {"all", "waitall"} /\ rpc'[q] \in {"epoch", "waitall", "done"}
                        /\ wpc[q] \in {"all", "waitall"} /\ wpc'[q] \in {"init", "waitall", "done"}
  BY Opens DEF flags
<1>2. 0 \in Rid
  BY Sizes DEF Rid
<1>3. QED BY <1>1, <1>2 DEF PhaseInv, VisitPc

(* A router thread goes to the barriers of all threads only after thread 0 *)
(* has ended the epoch.                                                    *)
LEMMA RouterPhase ==
  ASSUME BarrierInv, Types, SnapInv, PhaseInv, NEW r \in Rid, Router(r)
  PROVE  PhaseInv'
<1>0. /\ rpc \in [Rid -> RouterPc] /\ waiting \in [Barrier -> Int]
      /\ column_active \in [Rid -> BOOLEAN]
      /\ ControlOK /\ global_router_active \in {0, 1}
  BY DEF BarrierInv, ControlOK, Types
<1>1. /\ UNCHANGED <<wpc, epoch_counter>>
      /\ \A q \in Rid \ {r} : rpc'[q] = rpc[q] /\ column_active'[q] = column_active[q]
  BY <1>0, RouterOthers DEF workerVars
<1>2. ASSUME UNCHANGED <<global_router_active, waiting>>,
             global_router_active = 1 => rpc'[r] \notin {"all2", "waitall2", "decide", "all"},
             global_router_active = 0 => /\ rpc'[r] \in {"wait1", "bar2", "wait2", "epoch", "all2",
                                                        "waitall2", "decide", "all"}
                                         /\ rpc'[0] # "wait1",
             rpc'[r] \in {"check", "store"} => r = 0,
             rpc'[r] \in {"all", "waitall"} => column_active'[r]
      PROVE  PhaseInv'
  BY <1>1, <1>2 DEF PhaseInv
<1>3. CASE \/ REpoch(r) \/ RLoop(r) \/ RScan(r) \/ RSpin(r) \/ RMate(r)
           \/ RLookActive(r) \/ RLookQueues(r) \/ RTick(r)
  <2>1. /\ UNCHANGED <<global_router_active, waiting>>
        /\ rpc'[r] \in {"loop", "all2", "scan", "bar1", "spin", "mate", "look", "lookq", "advance"}
        /\ rpc'[r] = "all2" <=> rpc[r] = "epoch" /\ global_router_active # 1
        /\ rpc[r] \in CyclePc
    BY <1>0, <1>3
       DEF REpoch, RLoop, RScan, RSpin, RMate, RLookActive, RLookQueues, RTick, shared, At, GoR, CyclePc
  <2>2. global_router_active = 0 => rpc[r] = "epoch" /\ rpc'[r] = "all2"
    BY <2>1 DEF PhaseInv, CyclePc
  <2>3. rpc'[0] # "wait1" \/ global_router_active # 0
    BY <1>1, <2>1, <2>2, Sizes DEF PhaseInv, Rid
  <2>4. QED BY <1>2, <2>1, <2>2, <2>3
<1>4. ASSUME NEW arrived \in SUBSET Kind, NEW sent \in SUBSET oq[RouterTile(r, n[r])],
             RAdvance(r, arrived, sent)
      PROVE  PhaseInv'
  <2>1. /\ UNCHANGED <<global_router_active, waiting>> /\ rpc[r] = "advance"
        /\ rpc'[r] \in {"advance", "tick"}
    BY <1>0, <1>4 DEF RAdvance, shared, At, GoR
  <2>2. global_router_active # 0
    BY <2>1 DEF PhaseInv
  <2>3. QED BY <1>2, <2>1, <2>2
<1>5. CASE RDecide(r)
  <2>1. /\ UNCHANGED <<global_router_active, waiting>> /\ rpc[r] = "decide" /\ rpc'[r] = "all"
        /\ column_active'[r]
    BY <1>0, <1>5 DEF RDecide, shared, At, GoR
  <2>2. global_router_active = 0 /\ rpc'[0] # "wait1"
    BY <1>0, <1>1, <2>1, Sizes DEF PhaseInv, Rid
  <2>3. QED BY <1>2, <2>1, <2>2
<1>6. CASE r = 0 /\ RCheck
  <2>1. /\ UNCHANGED <<global_router_active, waiting>> /\ rpc[0] = "check" /\ rpc'[0] \in {"check", "store"}
    BY <1>0, <1>6 DEF RCheck, shared, At, GoR
  <2>2. global_router_active # 0
    BY <1>6, <2>1 DEF PhaseInv
  <2>3. QED BY <1>2, <1>6, <2>1, <2>2
<1>7. CASE r = 0 /\ RStore
  <2>1. /\ rpc[0] = "store" /\ rpc'[0] = "bar2" /\ UNCHANGED waiting
        /\ global_router_active' \in {0, 1} /\ global_router_active # 0
    BY <1>0, <1>7 DEF RStore, At, GoR, PhaseInv
  <2>2. \A q \in Rid : rpc[q] \in CheckPc \union {"wait1", "wait2"}
    BY <1>7, <2>1 DEF BarrierInv, RoutersFree, RoutersMeet, CheckPc
  <2>3. \A q \in Rid : rpc'[q] \in {"wait1", "bar2", "wait2"}
    BY <1>1, <1>7, <2>1, <2>2 DEF PhaseInv, CheckPc
  <2>4. global_router_active = 1
    BY <1>0, <2>1
  <2>5. QED BY <1>1, <1>7, <2>1, <2>3, <2>4 DEF PhaseInv
<1>8. CASE RArrive(r, "all", "threads", 2 * COLUMNS, "waitall", AfterThreads(r))
  <2>1. rpc[r] = "all" /\ global_router_active = 0
    BY <1>0, <1>8 DEF RArrive, At, PhaseInv
  <2>2. CASE IsLast("threads", 2 * COLUMNS)
    BY <1>8, <2>2, OpensPhase
  <2>3. CASE ~IsLast("threads", 2 * COLUMNS)
    <3>1. /\ waiting'["threads"] = waiting["threads"] + 1 /\ rpc'[r] = "waitall"
          /\ UNCHANGED <<global_router_active, column_active>>
      BY <1>0, <1>8, <2>3 DEF RArrive, Arrive, IsLast, GoR, Barrier, flags
    <3>2. waiting["threads"] + 1 # 0
      BY <2>1, AtThreads
    <3>3. \A q \in Rid : rpc'[q] = rpc[q] \/ (rpc'[q] = "waitall" /\ rpc[q] = "all")
      BY <1>1, <2>1, <3>1
    <3>4. 0 \in Rid /\ waiting'["threads"] # 0
      BY <3>1, <3>2, Sizes DEF Rid
    <3>5. QED BY <1>1, <2>1, <3>1, <3>3, <3>4 DEF PhaseInv
  <2>4. QED BY <2>2, <2>3
<1>9. CASE \/ RArrive(r, "bar1", "routers", COLUMNS, "wait1", AfterBar1(r))
           \/ RArrive(r, "bar2", "routers2", COLUMNS, "wait2", "epoch")
           \/ RArrive(r, "all2", "threads2", 2 * COLUMNS, "waitall2", "decide")
  <2>1. /\ waiting'["threads"] = waiting["threads"] /\ UNCHANGED <<global_router_active, column_active>>
        /\ \/ rpc[r] = "bar1" /\ rpc'[r] \in {"wait1", AfterBar1(r)}
           \/ rpc[r] = "bar2" /\ rpc'[r] \in {"wait2", "epoch"}
           \/ rpc[r] = "all2" /\ rpc'[r] \in {"waitall2", "decide"}
    BY <1>0, <1>9 DEF RArrive, Arrive, IsLast, At, GoR, Barrier, flags
  <2>2. 0 \in Rid /\ (rpc'[r] \in {"check", "store"} => r = 0) /\ (rpc'[r] = "wait1" => rpc[r] = "bar1")
    BY <2>1, Sizes DEF AfterBar1, Rid
  <2>3. CASE global_router_active = 1
    BY <1>1, <2>1, <2>2, <2>3 DEF PhaseInv, AfterBar1
  <2>4. CASE global_router_active = 0
    BY <1>1, <2>1, <2>2, <2>4 DEF PhaseInv
  <2>5. QED BY <1>0, <2>3, <2>4
<1>10. CASE \/ RWake(r, "wait1", "routers", AfterBar1(r)) \/ RWake(r, "wait2", "routers2", "epoch")
            \/ RWake(r, "waitall2", "threads2", "decide")
            \/ RWake(r, "waitall", "threads", AfterThreads(r))
  <2>1. /\ UNCHANGED <<global_router_active, waiting, column_active>>
        /\ \/ rpc[r] = "wait1" /\ rpc'[r] = AfterBar1(r)
           \/ rpc[r] = "wait2" /\ rpc'[r] = "epoch"
           \/ rpc[r] = "waitall2" /\ rpc'[r] = "decide"
           \/ rpc[r] = "waitall" /\ waiting["threads"] = 0 /\ rpc'[r] = AfterThreads(r)
    BY <1>0, <1>10 DEF RWake, At, GoR, flags, shared
  <2>2. 0 \in Rid /\ (rpc'[r] \in {"check", "store"} => r = 0) /\ (r # 0 => rpc'[r] # "check")
    BY <2>1, Sizes DEF AfterBar1, AfterThreads, Rid
  <2>3. CASE global_router_active = 1
    BY <1>1, <2>1, <2>2, <2>3 DEF PhaseInv, AfterBar1, AfterThreads
  <2>4. CASE global_router_active = 0
    <3>1. rpc[r] # "waitall" /\ (rpc[r] = "wait1" => rpc'[r] = "bar2")
      BY <2>1, <2>4 DEF PhaseInv, AfterBar1
    <3>2. QED BY <1>1, <2>1, <2>2, <2>4, <3>1 DEF PhaseInv
  <2>5. QED BY <1>0, <2>3, <2>4
<1>11. QED
  BY <1>3, <1>4, <1>5, <1>6, <1>7, <1>8, <1>9, <1>10 DEF Router, RBarriers

(* A worker leaves its loop only after thread 0 has ended the epoch.       *)
LEMMA WorkerPhase ==
  ASSUME BarrierInv, Types, PhaseInv, NEW w \in Rid, Worker(w)
  PROVE  PhaseInv'
<1>0. /\ wpc \in [Rid -> WorkerPc] /\ waiting \in [Barrier -> Int]
      /\ ControlOK /\ global_router_active \in {0, 1} /\ epoch_counter \in Nat \ {0}
  BY DEF BarrierInv, ControlOK, Types
<1>1. /\ UNCHANGED <<rpc, column_active>> /\ \A q \in Rid \ {w} : wpc'[q] = wpc[q]
  BY <1>0, WorkerOthers DEF routerVars
<1>2. ASSUME UNCHANGED <<global_router_active, waiting>>,
             global_router_active = 1 => wpc'[w] \in VisitPc \union {"waitall", "done"},
             wpc'[0] \in {"all", "waitall"} => epoch_counter' # 1
      PROVE  PhaseInv'
  BY <1>1, <1>2 DEF PhaseInv
<1>3. CASE WInit(w) \/ WSkip(w) \/ WRead(w) \/ WFlag(w) \/ WFirst(w) \/ WSecond(w) \/ WLoop(w)
  <2>1. /\ UNCHANGED <<global_router_active, waiting, epoch_counter>>
        /\ wpc'[w] \in VisitPc \union {"end"}
        /\ wpc'[w] = "end" => global_router_active # 1
    BY <1>0, <1>3
       DEF WInit, WSkip, WRead, WFlag, WFirst, WSecond, WLoop, NextCid, shared, GoW, VisitPc
  <2>2. wpc'[0] \in {"all", "waitall"} => wpc[0] \in {"all", "waitall"}
    BY <1>1, <2>1, Sizes DEF VisitPc, Rid
  <2>3. QED BY <1>2, <2>1, <2>2 DEF PhaseInv
<1>4. CASE WEnd(w) \/ WPublish(w)
  <2>1. /\ UNCHANGED <<global_router_active, waiting, epoch_counter>>
        /\ wpc[w] \in {"end", "publish"} /\ wpc'[w] \in {"end", "publish", "all2"}
    BY <1>0, <1>4 DEF WEnd, WPublish, NextCid, shared, GoW, Is
  <2>2. wpc'[0] \in {"all", "waitall"} => wpc[0] \in {"all", "waitall"}
    BY <1>1, <2>1, Sizes DEF Rid
  <2>3. global_router_active # 1
    BY <2>1 DEF PhaseInv, VisitPc
  <2>4. QED BY <1>2, <2>1, <2>2, <2>3 DEF PhaseInv
<1>5. CASE WDecide(w)
  <2>1. /\ UNCHANGED <<global_router_active, waiting>> /\ wpc[w] = "decide" /\ wpc'[w] = "all"
        /\ epoch_counter' = IF w = 0 /\ epoch_counter <= num_kernels THEN epoch_counter + 1
                            ELSE epoch_counter
    BY <1>0, <1>5 DEF WDecide, GoW, Is
  <2>2. global_router_active # 1
    BY <2>1 DEF PhaseInv, VisitPc
  <2>3. epoch_counter # 1 => epoch_counter' # 1
    BY <1>0, <2>1
  <2>4. w = 0 => epoch_counter' # 1
    BY <1>0, <2>1, WorkAssumption
  <2>5. wpc'[0] \in {"all", "waitall"} => epoch_counter' # 1
    BY <1>1, <2>3, <2>4, Sizes DEF PhaseInv, Rid
  <2>6. QED BY <1>2, <2>1, <2>2, <2>5
<1>6. CASE WArrive(w, "all", "threads", "waitall", WAfterThreads(w))
  <2>1. wpc[w] = "all" /\ global_router_active = 0
    BY <1>0, <1>6 DEF WArrive, Is, PhaseInv, VisitPc
  <2>2. CASE IsLast("threads", 2 * COLUMNS)
    BY <1>6, <2>2, OpensPhase
  <2>3. CASE ~IsLast("threads", 2 * COLUMNS)
    <3>1. /\ waiting'["threads"] = waiting["threads"] + 1 /\ wpc'[w] = "waitall"
          /\ UNCHANGED <<global_router_active, epoch_counter>>
      BY <1>0, <1>6, <2>3 DEF WArrive, Arrive, IsLast, GoW, Barrier
    <3>2. waiting["threads"] + 1 # 0
      BY <2>1, AtThreads
    <3>3. wpc'[0] \in {"all", "waitall"} => wpc[0] \in {"all", "waitall"}
      BY <1>1, <2>1, <3>1, Sizes DEF Rid
    <3>4. QED BY <1>1, <2>1, <3>1, <3>2, <3>3 DEF PhaseInv
  <2>4. QED BY <2>2, <2>3
<1>7. CASE \/ WArrive(w, "all2", "threads2", "waitall2", "decide")
           \/ WWake(w, "waitall2", "threads2", "decide")
           \/ WWake(w, "waitall", "threads", WAfterThreads(w))
  <2>1. /\ waiting'["threads"] = waiting["threads"] /\ UNCHANGED <<global_router_active, epoch_counter>>
        /\ \/ wpc[w] \in {"all2", "waitall2"} /\ wpc'[w] \in {"waitall2", "decide"}
           \/ wpc[w] = "waitall" /\ wpc'[w] \in {"init", "done"}
    BY <1>0, <1>7 DEF WArrive, Arrive, WWake, WAfterThreads, IsLast, Is, GoW, Barrier, shared
  <2>2. wpc'[0] \in {"all", "waitall"} => wpc[0] \in {"all", "waitall"}
    BY <1>1, <2>1, Sizes DEF Rid
  <2>3. QED BY <1>0, <1>1, <2>1, <2>2 DEF PhaseInv, VisitPc
<1>8. QED
  BY <1>3, <1>4, <1>5, <1>6, <1>7 DEF Worker, WBarriers

(* The loops over tiles of a router thread start from the first one.       *)
LEMMA RouterLoop ==
  ASSUME ControlOK, Types, SnapInv, LoopInv, NEW r \in Rid, Router(r)
  PROVE  LoopInv'
<1>1. /\ UNCHANGED <<wpc, cid, epoch_counter>>
      /\ \A q \in Rid \ {r} : rpc'[q] = rpc[q] /\ n'[q] = n[q]
  BY RouterOthers DEF workerVars
<1>2. rpc \in [Rid -> RouterPc] /\ n \in [Rid -> Nat]
  BY DEF ControlOK, Types
<1>3. ASSUME rpc'[r] \in {"bar1", "wait1"} => n'[r] = 0
      PROVE  LoopInv'
  BY <1>1, <1>3 DEF LoopInv
<1>4. CASE RLoop(r)
  BY <1>2, <1>3, <1>4 DEF RLoop
<1>5. CASE REpoch(r) \/ RScan(r) \/ RSpin(r) \/ RMate(r) \/ RLookActive(r) \/ RLookQueues(r) \/ RTick(r)
  <2>1. rpc'[r] \notin {"bar1", "wait1"}
    BY <1>2, <1>5 DEF REpoch, RScan, RSpin, RMate, RLookActive, RLookQueues, RTick, At, GoR
  <2>2. QED BY <1>3, <2>1
<1>6. CASE RDecide(r) \/ (r = 0 /\ (RCheck \/ RStore))
  <2>1. rpc'[r] \notin {"bar1", "wait1"}
    BY <1>2, <1>6 DEF RDecide, RCheck, RStore, At, GoR
  <2>2. QED BY <1>3, <2>1
<1>7. ASSUME NEW arrived, NEW sent, RAdvance(r, arrived, sent)
      PROVE  LoopInv'
  <2>1. rpc'[r] \notin {"bar1", "wait1"}
    BY <1>2, <1>7 DEF RAdvance, At, GoR
  <2>2. QED BY <1>3, <2>1
<1>8. CASE RBarriers(r)
  <2>1. UNCHANGED n /\ (rpc'[r] \in {"bar1", "wait1"} => rpc[r] = "bar1")
    BY <1>2, <1>8 DEF RBarriers, RArrive, RWake, AfterBar1, AfterThreads, At, GoR
  <2>2. QED BY <1>3, <2>1 DEF LoopInv
<1>9. QED
  BY <1>4, <1>5, <1>6, <1>7, <1>8 DEF Router

(* The loops over tiles of a worker start from the first one.              *)
LEMMA WorkerLoop ==
  ASSUME BarrierInv, Types, LoopInv, NEW w \in Rid, Worker(w)
  PROVE  LoopInv'
<1>0. ControlOK
  BY DEF BarrierInv
<1>1. /\ UNCHANGED <<rpc, n>>
      /\ \A q \in Rid \ {w} : wpc'[q] = wpc[q] /\ cid'[q] = cid[q]
  BY <1>0, WorkerOthers DEF routerVars
<1>2. wpc \in [Rid -> WorkerPc] /\ cid \in [Rid -> 0 .. CORES_PER_TH - 1]
  BY <1>0 DEF ControlOK, Types
<1>3. ASSUME UNCHANGED epoch_counter,
             wpc'[w] \in CidPc \/ (wpc'[w] = "init" /\ epoch_counter > num_kernels) => cid'[w] = 0
      PROVE  LoopInv'
  BY <1>1, <1>3 DEF LoopInv
<1>4. CASE WInit(w)
  <2>1. UNCHANGED epoch_counter /\ wpc[w] = "init"
        /\ IF epoch_counter <= num_kernels THEN NextCid(w, "init", "loop")
           ELSE wpc'[w] = "loop" /\ cid' = cid
    BY <1>2, <1>4 DEF WInit, GoW, Is, shared
  <2>2. epoch_counter \in Nat /\ num_kernels \in Nat
    BY WorkAssumption DEF Types
  <2>3. CASE epoch_counter <= num_kernels
    BY <1>2, <1>3, <2>1, <2>2, <2>3 DEF NextCid, GoW, CidPc
  <2>4. CASE ~(epoch_counter <= num_kernels)
    BY <1>3, <2>1, <2>2, <2>4 DEF LoopInv
  <2>5. QED BY <2>3, <2>4
<1>5. CASE WSkip(w) \/ WSecond(w) \/ WEnd(w)
  BY <1>2, <1>3, <1>5 DEF WSkip, WSecond, WEnd, NextCid, GoW, CidPc, shared
<1>6. CASE WRead(w) \/ WFlag(w) \/ WFirst(w)
  BY <1>2, <1>3, <1>6 DEF WRead, WFlag, WFirst, GoW, CidPc, shared
<1>7. CASE WLoop(w) \/ WPublish(w)
  <2>1. UNCHANGED <<cid, epoch_counter>> /\ wpc[w] \in CidPc /\ wpc'[w] # "init"
    BY <1>2, <1>7 DEF WLoop, WPublish, GoW, Is, CidPc, shared
  <2>2. QED BY <1>3, <2>1 DEF LoopInv
<1>8. CASE WDecide(w)
  <2>1. UNCHANGED cid /\ wpc[w] = "decide" /\ wpc'[w] = "all"
    BY <1>2, <1>8 DEF WDecide, GoW, Is
  <2>2. \A q \in Rid : wpc[q] # "init"
    BY <2>1 DEF BarrierInv, ThreadsFree, ThreadsMeet, SettlePc
  <2>3. \A q \in Rid : wpc'[q] # "init" /\ (wpc'[q] \in CidPc => wpc[q] \in CidPc)
    BY <1>1, <2>1, <2>2 DEF CidPc
  <2>4. QED BY <1>1, <2>1, <2>3 DEF LoopInv
<1>9. CASE WBarriers(w)
  <2>1. UNCHANGED <<cid, epoch_counter>> /\ wpc[w] \in CidPc
    BY <1>2, <1>9 DEF WBarriers, WArrive, WWake, Is, CidPc, shared
  <2>2. QED BY <1>3, <2>1 DEF LoopInv
<1>10. QED
  BY <1>4, <1>5, <1>6, <1>7, <1>8, <1>9 DEF Worker
-----------------------------------------------------------------------------
(* Threads begin or stop to meet only when the last one arrives.           *)
LEMMA FreeOrMeet ==
  ~(ThreadsFree /\ ThreadsMeet)
<1> SUFFICES ASSUME ThreadsFree, ThreadsMeet PROVE FALSE
  OBVIOUS
<1>1. \A q \in Rid : rpc[q] # "waitall" /\ wpc[q] # "waitall"
  BY WaitersCounted DEF ThreadsFree
<1>2. QED BY <1>1 DEF ThreadsFree, ThreadsMeet

(* No other step starts or ends a meeting.                                 *)
LEMMA SameMeeting ==
  ASSUME BarrierInv, BarrierInv', NEW r \in Rid, Router(r) \/ Worker(r),
         waiting'["threads"] >= waiting["threads"], waiting'["threads2"] >= waiting["threads2"]
  PROVE  (ThreadsFree' => ThreadsFree) /\ (ThreadsMeet' => ThreadsMeet)
<1> DEFINE Met == SettlePc \union {"waitall2", "waitall"}
<1> USE DEF SettlePc
<1>0. /\ rpc \in [Rid -> RouterPc] /\ wpc \in [Rid -> WorkerPc] /\ waiting \in [Barrier -> Int] /\ ControlOK
  BY DEF BarrierInv, ControlOK
<1>1. \E a, b : /\ \/ rpc[r] = a /\ rpc' = [rpc EXCEPT ![r] = b] /\ UNCHANGED wpc
                   \/ wpc[r] = a /\ wpc' = [wpc EXCEPT ![r] = b] /\ UNCHANGED rpc
                /\ \/ a \notin Met /\ b \notin Met
                   \/ a = "all2" /\ b = "waitall2" /\ waiting'["threads2"] = waiting["threads2"] + 1
                   \/ a = "all2" /\ b = "decide" /\ waiting["threads2"] + 1 = 2 * COLUMNS
                        /\ waiting'["threads2"] = 0
                   \/ a = "waitall2" /\ b = "decide" /\ waiting["threads2"] = 0
                   \/ a \in SettlePc /\ b \in SettlePc
                   \/ a = "all" /\ b = "waitall" /\ waiting'["threads"] = waiting["threads"] + 1
                   \/ a = "all" /\ b \notin Met /\ waiting["threads"] + 1 = 2 * COLUMNS
                        /\ waiting'["threads"] = 0
                   \/ a = "waitall" /\ b \notin Met /\ waiting["threads"] = 0
  <2>1. CASE RouterAlone(r)
    <3>1. PICK pc : /\ rpc' = [rpc EXCEPT ![r] = pc] /\ UNCHANGED wpc
                    /\ \/ rpc[r] \in CyclePc /\ pc \in CyclePc \union {"bar1", "all2"}
                       \/ rpc[r] \in CheckPc /\ pc \in CheckPc
                       \/ rpc[r] \in SettlePc /\ pc \in SettlePc
      BY <1>0, <2>1, RouterAloneControl DEF GoR
    <3>2. \/ rpc[r] \notin Met /\ pc \notin Met
          \/ rpc[r] \in SettlePc /\ pc \in SettlePc
      BY <3>1 DEF CyclePc, CheckPc
    <3>3. QED BY <3>1, <3>2
  <2>2. CASE WorkerAlone(r)
    <3>1. PICK pc : /\ wpc' = [wpc EXCEPT ![r] = pc] /\ UNCHANGED rpc
                    /\ \/ /\ wpc[r] \in VisitPc \union {"end", "publish"}
                          /\ pc \in VisitPc \union {"end", "publish", "all2"}
                       \/ wpc[r] \in SettlePc /\ pc \in SettlePc
      BY <1>0, <2>2, WorkerAloneControl DEF GoW
    <3>2. \/ wpc[r] \notin Met /\ pc \notin Met
          \/ wpc[r] \in SettlePc /\ pc \in SettlePc
      BY <3>1 DEF VisitPc
    <3>3. QED BY <3>1, <3>2
  <2>3. CASE \/ RArrive(r, "bar1", "routers", COLUMNS, "wait1", AfterBar1(r))
             \/ RWake(r, "wait1", "routers", AfterBar1(r))
             \/ RArrive(r, "bar2", "routers2", COLUMNS, "wait2", "epoch")
             \/ RWake(r, "wait2", "routers2", "epoch")
    BY <1>0, <2>3 DEF RArrive, RWake, At, GoR, AfterBar1, workerVars
  <2>4. CASE RArrive(r, "all2", "threads2", 2 * COLUMNS, "waitall2", "decide")
    BY <1>0, <2>4 DEF RArrive, Arrive, IsLast, At, GoR, Barrier, workerVars
  <2>5. CASE RArrive(r, "all", "threads", 2 * COLUMNS, "waitall", AfterThreads(r))
    <3>1. /\ rpc[r] = "all" /\ UNCHANGED wpc
          /\ waiting'["threads"] = IF waiting["threads"] + 1 = 2 * COLUMNS THEN 0 ELSE waiting["threads"] + 1
          /\ rpc' = [rpc EXCEPT ![r] = IF waiting["threads"] + 1 = 2 * COLUMNS THEN AfterThreads(r) ELSE "waitall"]
      BY <1>0, <2>5 DEF RArrive, Arrive, IsLast, At, GoR, Barrier, workerVars
    <3>2. AfterThreads(r) \notin Met
      BY DEF AfterThreads
    <3>3. CASE waiting["threads"] + 1 = 2 * COLUMNS
      BY <3>1, <3>2, <3>3
    <3>4. CASE waiting["threads"] + 1 # 2 * COLUMNS
      BY <3>1, <3>4
    <3>5. QED BY <3>3, <3>4
  <2>6. CASE RWake(r, "waitall2", "threads2", "decide") \/ RWake(r, "waitall", "threads", AfterThreads(r))
    BY <1>0, <2>6 DEF RWake, At, GoR, AfterThreads, workerVars
  <2>7. CASE WArrive(r, "all2", "threads2", "waitall2", "decide")
    BY <1>0, <2>7 DEF WArrive, Arrive, IsLast, Is, GoW, Barrier, routerVars
  <2>8. CASE WArrive(r, "all", "threads", "waitall", WAfterThreads(r))
    <3>1. /\ wpc[r] = "all" /\ UNCHANGED rpc
          /\ waiting'["threads"] = IF waiting["threads"] + 1 = 2 * COLUMNS THEN 0 ELSE waiting["threads"] + 1
          /\ wpc' = [wpc EXCEPT ![r] = IF waiting["threads"] + 1 = 2 * COLUMNS THEN WAfterThreads(r) ELSE "waitall"]
      BY <1>0, <2>8 DEF WArrive, Arrive, IsLast, Is, GoW, Barrier, routerVars
    <3>2. WAfterThreads(r) \notin Met
      BY DEF WAfterThreads
    <3>3. CASE waiting["threads"] + 1 = 2 * COLUMNS
      BY <3>1, <3>2, <3>3
    <3>4. CASE waiting["threads"] + 1 # 2 * COLUMNS
      BY <3>1, <3>4
    <3>5. QED BY <3>3, <3>4
  <2>9. CASE WWake(r, "waitall2", "threads2", "decide") \/ WWake(r, "waitall", "threads", WAfterThreads(r))
    BY <1>0, <2>9 DEF WWake, Is, GoW, WAfterThreads, routerVars
  <2>10. QED
    BY <2>1, <2>2, <2>3, <2>4, <2>5, <2>6, <2>7, <2>8, <2>9
       DEF Router, Worker, RouterAlone, WorkerAlone, RBarriers, WBarriers
<1>2. PICK a, b :
        /\ \/ rpc[r] = a /\ rpc' = [rpc EXCEPT ![r] = b] /\ UNCHANGED wpc
           \/ wpc[r] = a /\ wpc' = [wpc EXCEPT ![r] = b] /\ UNCHANGED rpc
        /\ \/ a \notin Met /\ b \notin Met
           \/ a = "all2" /\ b = "waitall2" /\ waiting'["threads2"] = waiting["threads2"] + 1
           \/ a = "all2" /\ b = "decide" /\ waiting["threads2"] + 1 = 2 * COLUMNS
                /\ waiting'["threads2"] = 0
           \/ a = "waitall2" /\ b = "decide" /\ waiting["threads2"] = 0
           \/ a \in SettlePc /\ b \in SettlePc
           \/ a = "all" /\ b = "waitall" /\ waiting'["threads"] = waiting["threads"] + 1
           \/ a = "all" /\ b \notin Met /\ waiting["threads"] + 1 = 2 * COLUMNS
                /\ waiting'["threads"] = 0
           \/ a = "waitall" /\ b \notin Met /\ waiting["threads"] = 0
  BY <1>1
<1>3. \/ rpc[r] = a /\ rpc'[r] = b
      \/ wpc[r] = a /\ wpc'[r] = b
  BY <1>0, <1>2
<1>4. /\ Cardinality(Routers("waitall")) \in Nat /\ Cardinality(Workers("waitall")) \in Nat
      /\ Cardinality(Routers("waitall2")) \in Nat /\ Cardinality(Workers("waitall2")) \in Nat
      /\ rpc[r] = "waitall2" \/ wpc[r] = "waitall2" =>
           Cardinality(Routers("waitall2")) # 0 \/ Cardinality(Workers("waitall2")) # 0
  BY Counts, Sizes
<1>5. ASSUME ThreadsFree', ThreadsMeet PROVE FALSE
  <2>1. a \in Met /\ b \notin SettlePc
    BY <1>3, <1>5 DEF ThreadsFree, ThreadsMeet
  <2>2. waiting["threads"] \in Nat /\ waiting'["threads"] = 0
    BY <1>4, <1>5 DEF ThreadsFree, ThreadsMeet
  <2>3. waiting["threads"] = 0
    BY <2>2
  <2>4. rpc[r] # "waitall" /\ wpc[r] # "waitall"
    BY <1>5, <2>3, WaitersCounted
  <2>5. a = "all" /\ waiting["threads"] + 1 = 2 * COLUMNS
    BY <1>2, <1>3, <2>1, <2>2, <2>3, <2>4
  <2>6. QED BY <2>3, <2>5, Sizes
<1>6. ASSUME ThreadsMeet', ThreadsFree PROVE FALSE
  <2>1. b \in Met /\ a \notin SettlePc
    BY <1>3, <1>6 DEF ThreadsFree, ThreadsMeet
  <2>2. waiting["threads2"] \in Nat /\ waiting'["threads2"] = 0
    BY <1>4, <1>6 DEF ThreadsFree, ThreadsMeet
  <2>3. waiting["threads2"] = 0 /\ rpc[r] # "waitall2" /\ wpc[r] # "waitall2"
    BY <1>4, <1>6, <2>2 DEF ThreadsFree
  <2>4. a = "all2" /\ waiting["threads2"] + 1 = 2 * COLUMNS
    BY <1>2, <1>3, <2>1, <2>2, <2>3
  <2>5. QED BY <2>3, <2>4, Sizes
<1>7. QED BY <1>5, <1>6 DEF BarrierInv

(* The last arrival at "threads2" starts the meeting, none has decided.    *)
LEMMA Opens2 ==
  ASSUME BarrierInv, BarrierInv', NEW r \in Rid, IsLast("threads2", 2 * COLUMNS),
         \/ RArrive(r, "all2", "threads2", 2 * COLUMNS, "waitall2", "decide")
         \/ WArrive(r, "all2", "threads2", "waitall2", "decide")
  PROVE  /\ ~ThreadsFree'
         /\ \A q \in Rid : rpc'[q] \in {"waitall2", "decide"} /\ wpc'[q] \in {"waitall2", "decide"}
<1>1. /\ rpc \in [Rid -> RouterPc] /\ wpc \in [Rid -> WorkerPc]
  BY DEF BarrierInv, ControlOK
<1>2. rpc[r] = "all2" \/ wpc[r] = "all2"
  BY DEF RArrive, WArrive, At, Is
<1>3. /\ \A q \in Rid : q # r => rpc[q] = "waitall2" /\ wpc[q] = "waitall2"
      /\ rpc[r] = "waitall2" \/ wpc[r] = "waitall2"
  BY <1>2, AtThreads2
<1>4. CASE RArrive(r, "all2", "threads2", 2 * COLUMNS, "waitall2", "decide")
  <2>1. rpc'[r] = "decide"
    BY <1>1, <1>4 DEF RArrive, GoR
  <2>2. QED BY <1>1, <1>3, <1>4, <2>1 DEF RArrive, At, GoR, workerVars, ThreadsFree, SettlePc
<1>5. CASE WArrive(r, "all2", "threads2", "waitall2", "decide")
  <2>1. wpc'[r] = "decide"
    BY <1>1, <1>5 DEF WArrive, GoW
  <2>2. QED BY <1>1, <1>3, <1>5, <2>1 DEF WArrive, Is, GoW, routerVars, ThreadsFree, SettlePc
<1>6. QED BY <1>4, <1>5

(* All threads come to the same decision.                                  *)
LEMMA RouterDecision ==
  ASSUME BarrierInv, BarrierInv', Types, SnapInv, DecisionInv, NEW r \in Rid, Router(r)
  PROVE  DecisionInv'
<1>0. /\ rpc \in [Rid -> RouterPc] /\ waiting \in [Barrier -> Int] /\ ControlOK
      /\ rongoing \in [Rid -> BOOLEAN]
  BY DEF BarrierInv, ControlOK, Types
<1>1. /\ UNCHANGED <<wpc, wongoing, epoch_has_work>>
      /\ \A q \in Rid \ {r} : rpc'[q] = rpc[q] /\ rongoing'[q] = rongoing[q]
  BY <1>0, RouterOthers DEF workerVars
<1>2. AnyWork' = AnyWork /\ AnyWork \in BOOLEAN
  BY <1>1 DEF AnyWork
<1>3. ASSUME waiting'["threads"] >= waiting["threads"], waiting'["threads2"] >= waiting["threads2"],
             UNCHANGED rongoing, rpc'[r] # "waitall",
             rpc'[r] = "all" => rpc[r] = "all",
             rpc[r] = "waitall" => rpc'[r] = AfterThreads(r),
             rpc[r] # "waitall" => rpc[r] # "done" /\ rpc'[r] # "done"
      PROVE  DecisionInv'
  <2>1. (ThreadsFree' => ThreadsFree) /\ (ThreadsMeet' => ThreadsMeet)
    BY <1>3, SameMeeting
  <2>2. ThreadsFree /\ Ended => Ended'
    BY <1>0, <1>1, <1>3 DEF Ended, AfterThreads
  <2>3. ThreadsFree /\ Running => Running'
    BY <1>1, <1>3 DEF Running, AfterThreads
  <2>4. ThreadsMeet' => \A q \in Rid : /\ rpc'[q] \in {"all", "waitall"} => rongoing'[q] = AnyWork
                                       /\ wpc'[q] \in {"all", "waitall"} => wongoing'[q] = AnyWork
    BY <1>1, <1>3, <2>1 DEF DecisionInv
  <2>5. QED BY <1>2, <2>1, <2>2, <2>3, <2>4 DEF DecisionInv
<1>4. CASE RouterAlone(r) /\ ~RDecide(r)
  <2>1. UNCHANGED <<waiting, rongoing>> /\ rpc'[r] # "waitall"
        /\ (rpc'[r] = "all" => rpc[r] = "all") /\ rpc[r] \notin {"waitall", "done"} /\ rpc'[r] # "done"
    BY <1>0, <1>4
       DEF RouterAlone, REpoch, RLoop, RScan, RSpin, RMate, RLookActive, RLookQueues, RAdvance, RTick,
           RCheck, RStore, shared, At, GoR
  <2>2. QED BY <1>0, <1>3, <2>1 DEF Barrier
<1>5. CASE RDecide(r)
  <2>1. rpc[r] = "decide" /\ rpc'[r] = "all" /\ rongoing'[r] = AnyWork
    BY <1>0, <1>5 DEF RDecide, At, GoR, AnyWork
  <2>2. ThreadsMeet /\ ~ThreadsFree'
    BY <2>1 DEF BarrierInv, ThreadsFree, SettlePc
  <2>3. QED BY <1>1, <1>2, <2>1, <2>2 DEF DecisionInv
<1>6. CASE RArrive(r, "all", "threads", 2 * COLUMNS, "waitall", AfterThreads(r))
  <2>0. rpc[r] = "all" /\ ThreadsMeet /\ waiting["threads"] \in Nat
    BY <1>6, AtThreads DEF RArrive, At
  <2>1. CASE IsLast("threads", 2 * COLUMNS)
    <3>1. /\ \A q \in Rid : q # r => rpc[q] = "waitall" /\ wpc[q] = "waitall"
          /\ wpc[r] = "waitall"
      BY <2>0, <2>1, AtThreads
    <3>2. \A q \in Rid : rongoing[q] = AnyWork /\ wongoing[q] = AnyWork
      BY <2>0, <3>1 DEF DecisionInv
    <3>3. rpc'[r] = AfterThreads(r) /\ UNCHANGED rongoing
      BY <1>0, <1>6, <2>1 DEF RArrive, GoR
    <3>4. Ended' \/ Running'
      BY <1>1, <1>2, <3>1, <3>2, <3>3 DEF Ended, Running, AfterThreads
    <3>5. QED BY <1>1, <1>2, <3>2, <3>3, <3>4 DEF DecisionInv
  <2>2. CASE ~IsLast("threads", 2 * COLUMNS)
    <3>1. /\ waiting'["threads"] = waiting["threads"] + 1 /\ waiting'["threads2"] = waiting["threads2"]
          /\ rpc'[r] = "waitall" /\ UNCHANGED rongoing
      BY <1>0, <1>6, <2>2 DEF RArrive, Arrive, IsLast, GoR, Barrier
    <3>2. (ThreadsFree' => ThreadsFree) /\ ~ThreadsFree
      BY <1>0, <2>0, <3>1, SameMeeting, FreeOrMeet DEF Barrier
    <3>3. QED BY <1>1, <1>2, <2>0, <3>1, <3>2 DEF DecisionInv
  <2>3. QED BY <2>1, <2>2
<1>7. CASE RArrive(r, "all2", "threads2", 2 * COLUMNS, "waitall2", "decide")
  <2>1. CASE IsLast("threads2", 2 * COLUMNS)
    BY <1>7, <2>1, Opens2 DEF DecisionInv
  <2>2. CASE ~IsLast("threads2", 2 * COLUMNS)
    <3>1. /\ waiting'["threads"] = waiting["threads"] /\ waiting'["threads2"] = waiting["threads2"] + 1
          /\ rpc[r] = "all2" /\ rpc'[r] = "waitall2" /\ UNCHANGED rongoing
      BY <1>0, <1>7, <2>2 DEF RArrive, Arrive, IsLast, At, GoR, Barrier
    <3>2. QED BY <1>0, <1>3, <3>1 DEF Barrier
  <2>3. QED BY <2>1, <2>2
<1>8. CASE \/ RArrive(r, "bar1", "routers", COLUMNS, "wait1", AfterBar1(r))
           \/ RArrive(r, "bar2", "routers2", COLUMNS, "wait2", "epoch")
  <2>1. /\ waiting'["threads"] = waiting["threads"] /\ waiting'["threads2"] = waiting["threads2"]
        /\ UNCHANGED rongoing /\ rpc[r] \in {"bar1", "bar2"}
        /\ rpc'[r] \in {"wait1", "check", "bar2", "wait2", "epoch"}
    BY <1>0, <1>8 DEF RArrive, Arrive, At, GoR, Barrier, AfterBar1
  <2>2. QED BY <1>0, <1>3, <2>1 DEF Barrier
<1>9. CASE \/ RWake(r, "wait1", "routers", AfterBar1(r)) \/ RWake(r, "wait2", "routers2", "epoch")
           \/ RWake(r, "waitall2", "threads2", "decide")
           \/ RWake(r, "waitall", "threads", AfterThreads(r))
  <2>1. /\ UNCHANGED <<waiting, rongoing>>
        /\ \/ rpc[r] \in {"wait1", "wait2", "waitall2"} /\ rpc'[r] \in {"check", "bar2", "epoch", "decide"}
           \/ rpc[r] = "waitall" /\ rpc'[r] = AfterThreads(r)
    BY <1>0, <1>9 DEF RWake, At, GoR, AfterBar1, shared
  <2>2. rpc'[r] \notin {"all", "waitall"}
    BY <2>1 DEF AfterThreads
  <2>3. QED BY <1>0, <1>3, <2>1, <2>2 DEF Barrier
<1>10. QED
  BY <1>4, <1>5, <1>6, <1>7, <1>8, <1>9 DEF Router, RouterAlone, RBarriers

(* The same for the steps of a worker.                                     *)
LEMMA WorkerDecision ==
  ASSUME BarrierInv, BarrierInv', Types, DecisionInv, NEW w \in Rid, Worker(w)
  PROVE  DecisionInv'
<1>0. /\ wpc \in [Rid -> WorkerPc] /\ waiting \in [Barrier -> Int] /\ ControlOK
      /\ wongoing \in [Rid -> BOOLEAN]
  BY DEF BarrierInv, ControlOK, Types
<1>1. /\ UNCHANGED <<rpc, rongoing>>
      /\ \A q \in Rid \ {w} : wpc'[q] = wpc[q] /\ wongoing'[q] = wongoing[q]
  BY <1>0, WorkerOthers DEF routerVars
<1>2. UNCHANGED epoch_has_work => AnyWork' = AnyWork
  BY DEF AnyWork
<1>a. AnyWork \in BOOLEAN
  BY DEF AnyWork
<1>3. ASSUME waiting'["threads"] >= waiting["threads"], waiting'["threads2"] >= waiting["threads2"],
             UNCHANGED wongoing, ThreadsMeet => UNCHANGED epoch_has_work,
             wpc'[w] # "waitall", wpc'[w] = "all" => wpc[w] = "all",
             wpc[w] = "waitall" => wpc'[w] = WAfterThreads(w),
             wpc[w] # "waitall" => wpc[w] # "done" /\ wpc'[w] # "done"
      PROVE  DecisionInv'
  <2>1. (ThreadsFree' => ThreadsFree) /\ (ThreadsMeet' => ThreadsMeet)
    BY <1>3, SameMeeting
  <2>2. ThreadsFree /\ Ended => Ended'
    BY <1>0, <1>1, <1>3 DEF Ended, WAfterThreads
  <2>3. ThreadsFree /\ Running => Running'
    BY <1>1, <1>3 DEF Running, WAfterThreads
  <2>4. ThreadsMeet' => \A q \in Rid : /\ rpc'[q] \in {"all", "waitall"} => rongoing'[q] = AnyWork'
                                       /\ wpc'[q] \in {"all", "waitall"} => wongoing'[q] = AnyWork'
    BY <1>1, <1>2, <1>3, <2>1 DEF DecisionInv
  <2>5. QED BY <2>1, <2>2, <2>3, <2>4 DEF DecisionInv
<1>4. CASE WInit(w) \/ WSkip(w) \/ WRead(w) \/ WFlag(w) \/ WFirst(w) \/ WSecond(w) \/ WLoop(w) \/ WEnd(w)
  <2>1. /\ UNCHANGED <<waiting, wongoing, epoch_has_work>>
        /\ wpc'[w] \notin {"all", "waitall", "done"} /\ wpc[w] \notin {"waitall", "done"}
    BY <1>0, <1>4
       DEF WInit, WSkip, WRead, WFlag, WFirst, WSecond, WLoop, WEnd, NextCid, shared, flags, Is, GoW
  <2>2. QED BY <1>0, <1>3, <2>1 DEF Barrier
<1>5. CASE WPublish(w)
  <2>1. UNCHANGED <<waiting, wongoing>> /\ wpc[w] = "publish" /\ wpc'[w] = "all2"
    BY <1>0, <1>5 DEF WPublish, shared, Is, GoW
  <2>2. ~ThreadsMeet
    BY <2>1 DEF ThreadsMeet, SettlePc
  <2>3. QED BY <1>0, <1>3, <2>1, <2>2 DEF Barrier
<1>6. CASE WDecide(w)
  <2>1. /\ wpc[w] = "decide" /\ wpc'[w] = "all" /\ wongoing'[w] = AnyWork /\ UNCHANGED epoch_has_work
    BY <1>0, <1>6 DEF WDecide, Is, GoW, AnyWork, flags
  <2>2. ThreadsMeet /\ ~ThreadsFree'
    BY <2>1 DEF BarrierInv, ThreadsFree, SettlePc
  <2>3. QED BY <1>1, <1>2, <2>1, <2>2 DEF DecisionInv
<1>7. CASE WArrive(w, "all", "threads", "waitall", WAfterThreads(w))
  <2>0. wpc[w] = "all" /\ ThreadsMeet /\ waiting["threads"] \in Nat /\ UNCHANGED epoch_has_work
    BY <1>7, AtThreads DEF WArrive, Is, flags
  <2>1. CASE IsLast("threads", 2 * COLUMNS)
    <3>1. /\ \A q \in Rid : q # w => rpc[q] = "waitall" /\ wpc[q] = "waitall"
          /\ rpc[w] = "waitall"
      BY <2>0, <2>1, AtThreads
    <3>2. \A q \in Rid : rongoing[q] = AnyWork /\ wongoing[q] = AnyWork
      BY <2>0, <3>1 DEF DecisionInv
    <3>3. wpc'[w] = WAfterThreads(w) /\ UNCHANGED wongoing
      BY <1>0, <1>7, <2>1 DEF WArrive, GoW
    <3>4. Ended' \/ Running'
      BY <1>1, <1>a, <3>1, <3>2, <3>3 DEF Ended, Running, WAfterThreads
    <3>5. QED BY <1>1, <1>2, <2>0, <3>2, <3>3, <3>4 DEF DecisionInv
  <2>2. CASE ~IsLast("threads", 2 * COLUMNS)
    <3>1. /\ waiting'["threads"] = waiting["threads"] + 1 /\ waiting'["threads2"] = waiting["threads2"]
          /\ wpc'[w] = "waitall" /\ UNCHANGED wongoing
      BY <1>0, <1>7, <2>2 DEF WArrive, Arrive, IsLast, GoW, Barrier
    <3>2. (ThreadsFree' => ThreadsFree) /\ ~ThreadsFree
      BY <1>0, <2>0, <3>1, SameMeeting, FreeOrMeet DEF Barrier
    <3>3. QED BY <1>1, <1>2, <2>0, <3>1, <3>2 DEF DecisionInv
  <2>3. QED BY <2>1, <2>2
<1>8. CASE WArrive(w, "all2", "threads2", "waitall2", "decide")
  <2>1. CASE IsLast("threads2", 2 * COLUMNS)
    BY <1>8, <2>1, Opens2 DEF DecisionInv
  <2>2. CASE ~IsLast("threads2", 2 * COLUMNS)
    <3>1. /\ waiting'["threads"] = waiting["threads"] /\ waiting'["threads2"] = waiting["threads2"] + 1
          /\ wpc[w] = "all2" /\ wpc'[w] = "waitall2" /\ UNCHANGED <<wongoing, epoch_has_work>>
      BY <1>0, <1>8, <2>2 DEF WArrive, Arrive, IsLast, Is, GoW, Barrier, flags
    <3>2. QED BY <1>0, <1>3, <3>1 DEF Barrier
  <2>3. QED BY <2>1, <2>2
<1>9. CASE \/ WWake(w, "waitall2", "threads2", "decide")
           \/ WWake(w, "waitall", "threads", WAfterThreads(w))
  <2>1. /\ UNCHANGED <<waiting, wongoing, epoch_has_work>>
        /\ \/ wpc[w] = "waitall2" /\ wpc'[w] = "decide"
           \/ wpc[w] = "waitall" /\ wpc'[w] = WAfterThreads(w)
    BY <1>0, <1>9 DEF WWake, Is, GoW, shared, flags
  <2>2. wpc'[w] \notin {"all", "waitall"}
    BY <2>1 DEF WAfterThreads
  <2>3. QED BY <1>0, <1>3, <2>1, <2>2 DEF Barrier
<1>10. QED
  BY <1>4, <1>5, <1>6, <1>7, <1>8, <1>9 DEF Worker, WBarriers
-----------------------------------------------------------------------------
(* The step that lets all threads go on, which starts the next epoch.      *)
Opening(r) ==
  /\ IsLast("threads", 2 * COLUMNS)
  /\ \/ RArrive(r, "all", "threads", 2 * COLUMNS, "waitall", AfterThreads(r))
     \/ WArrive(r, "all", "threads", "waitall", WAfterThreads(r))

(* Any other step changes the barrier and the flags of the epoch so.       *)
LEMMA RouterShared ==
  ASSUME BarrierInv, NEW r \in Rid, Router(r), ~Opening(r)
  PROVE  /\ ~(r = 0 /\ RStore) => UNCHANGED global_router_active
         /\ \/ UNCHANGED waiting \/ waiting'["threads"] = waiting["threads"]
            \/ /\ ThreadsMeet /\ waiting["threads"] \in Nat /\ rpc[r] = "all"
               /\ waiting'["threads"] = waiting["threads"] + 1
<1>0. rpc \in [Rid -> RouterPc] /\ waiting \in [Barrier -> Int]
  BY DEF BarrierInv, ControlOK
<1>1. CASE RouterAlone(r)
  BY <1>1
     DEF RouterAlone, REpoch, RLoop, RScan, RSpin, RMate, RLookActive, RLookQueues, RAdvance, RTick,
         RDecide, RCheck, RStore, shared
<1>2. CASE RArrive(r, "all", "threads", 2 * COLUMNS, "waitall", AfterThreads(r))
  <2>1. rpc[r] = "all" /\ ThreadsMeet /\ waiting["threads"] \in Nat
    BY <1>2, AtThreads DEF RArrive, At
  <2>2. ~IsLast("threads", 2 * COLUMNS)
    BY <1>2 DEF Opening
  <2>3. QED BY <1>0, <1>2, <2>1, <2>2 DEF RArrive, Arrive, IsLast, Barrier
<1>3. CASE \/ RArrive(r, "bar1", "routers", COLUMNS, "wait1", AfterBar1(r))
           \/ RArrive(r, "bar2", "routers2", COLUMNS, "wait2", "epoch")
           \/ RArrive(r, "all2", "threads2", 2 * COLUMNS, "waitall2", "decide")
  BY <1>0, <1>3 DEF RArrive, Arrive, Barrier
<1>4. CASE \/ RWake(r, "wait1", "routers", AfterBar1(r)) \/ RWake(r, "wait2", "routers2", "epoch")
           \/ RWake(r, "waitall2", "threads2", "decide")
           \/ RWake(r, "waitall", "threads", AfterThreads(r))
  BY <1>4 DEF RWake, shared
<1>5. QED BY <1>1, <1>2, <1>3, <1>4 DEF Router, RouterAlone, RBarriers

(* The same for the steps of a worker.                                     *)
LEMMA WorkerShared ==
  ASSUME BarrierInv, NEW w \in Rid, Worker(w), ~Opening(w)
  PROVE  /\ UNCHANGED global_router_active
         /\ \/ UNCHANGED waiting \/ waiting'["threads"] = waiting["threads"]
            \/ /\ ThreadsMeet /\ waiting["threads"] \in Nat /\ wpc[w] = "all"
               /\ waiting'["threads"] = waiting["threads"] + 1
<1>0. wpc \in [Rid -> WorkerPc] /\ waiting \in [Barrier -> Int]
  BY DEF BarrierInv, ControlOK
<1>1. CASE WorkerAlone(w)
  BY <1>1
     DEF WorkerAlone, WInit, WLoop, WSkip, WRead, WFlag, WFirst, WSecond, WEnd, WPublish, WDecide, shared
<1>2. CASE WArrive(w, "all", "threads", "waitall", WAfterThreads(w))
  <2>1. wpc[w] = "all" /\ ThreadsMeet /\ waiting["threads"] \in Nat
    BY <1>2, AtThreads DEF WArrive, Is
  <2>2. ~IsLast("threads", 2 * COLUMNS)
    BY <1>2 DEF Opening
  <2>3. QED BY <1>0, <1>2, <2>1, <2>2 DEF WArrive, Arrive, IsLast, Barrier
<1>3. CASE WArrive(w, "all2", "threads2", "waitall2", "decide")
  BY <1>0, <1>3 DEF WArrive, Arrive, Barrier
<1>4. CASE WWake(w, "waitall2", "threads2", "decide") \/ WWake(w, "waitall", "threads", WAfterThreads(w))
  BY <1>4 DEF WWake, shared
<1>5. QED BY <1>1, <1>2, <1>3, <1>4 DEF Worker, WorkerAlone, WBarriers

(* What a step of worker w does to a tile of its own.                      *)
LEMMA WorkerEffect ==
  ASSUME BarrierInv, Types, HandInv, LoopInv, NEW w \in Rid, Worker(w), ~Opening(w),
         NEW t \in Tile, ColumnOf(t) = w
  PROVE  /\ Live(w)' => Live(w)
         /\ Unstarted(t)' => Unstarted(t)
         /\ Queued(t)' => Queued(t) \/ InHand(t) \/ Unstarted(t)
         /\ InHand(t)' => InHand(t) \/ (wpc[w] = "flag" /\ next[w] # 0 /\ TileNow(w) = t)
         /\ Pending(t)' => Pending(t) \/ InHand(t) \/ (wpc'[w] = "all" /\ frontier[t])
<1> DEFINE A == Live(w)' => Live(w)
           B == Unstarted(t)' => Unstarted(t)
           C == Queued(t)' => Queued(t) \/ InHand(t) \/ Unstarted(t)
           D == InHand(t)' => InHand(t) \/ (wpc[w] = "flag" /\ next[w] # 0 /\ TileNow(w) = t)
           E == Pending(t)' => Pending(t) \/ InHand(t) \/ (wpc'[w] = "all" /\ frontier[t])
<1>0. /\ wpc \in [Rid -> WorkerPc] /\ cid \in [Rid -> 0 .. CORES_PER_TH - 1]
      /\ next \in [Rid -> 0 .. 4] /\ epoch_counter \in Nat
      /\ iq \in [Tile -> [Kind -> Nat]] /\ oq \in [Tile -> SUBSET ((2 .. 3) \X Tile)]
      /\ frontier \in [Tile -> BOOLEAN] /\ epoch_begin \in [Tile -> Nat]
      /\ ControlOK /\ CORES_PER_TH \in Nat
  BY Areas DEF BarrierInv, ControlOK, Types
<1>1. PICK d \in Tile : d = TileNow(w) /\ ColumnOf(d) = w /\ WorkerIndex(d) = cid[w]
  BY TileNowIsTile
<1>2. t # d => iq'[t] = iq[t] /\ oq'[t] = oq[t] /\ frontier'[t] = frontier[t]
  BY <1>0, <1>1, WorkerOthers
<1>3. WorkerIndex(t) \in 0 .. CORES_PER_TH - 1
  BY WorkerTiles
<1>4. wpc[w] \in {"first", "second"} /\ next[w] # 0 => InHand(d)
  BY <1>1 DEF InHand
<1>5. ASSUME wpc[w] \in VisitPc PROVE A
  BY <1>5 DEF Live
<1>6. ASSUME wpc'[w] \notin {"init", "waitall"} PROVE B
  BY <1>6 DEF Unstarted, Woken
<1>7. ASSUME UNCHANGED <<iq, oq>> PROVE C
  BY <1>7 DEF Queued
<1>8. ASSUME wpc'[w] \notin {"first", "second"} PROVE D
  BY <1>8 DEF InHand
<1>9. ASSUME UNCHANGED <<frontier, epoch_begin>> PROVE E
  BY <1>9 DEF Pending
<1>10. CASE WInit(w)
  <2>1. /\ wpc[w] = "init" /\ wpc'[w] \in {"init", "loop"} /\ UNCHANGED <<epoch_counter, waiting, oq, frontier, epoch_begin>>
        /\ wpc'[w] = "init" => epoch_counter <= num_kernels /\ cid'[w] = cid[w] + 1
        /\ epoch_counter <= num_kernels \/ UNCHANGED iq
    BY <1>0, <1>10 DEF WInit, NextCid, GoW, Is, shared, VisitPc
  <2>2. A /\ D /\ E
    BY <1>5, <1>8, <1>9, <2>1 DEF VisitPc
  <2>3. B
    <3>1. SUFFICES ASSUME Unstarted(t)' PROVE Unstarted(t)
      OBVIOUS
    <3>2. wpc'[w] = "init" /\ cid'[w] <= WorkerIndex(t)
      BY <2>1, <3>1 DEF Unstarted, Woken, WorkerIndex
    <3>3. epoch_counter <= num_kernels /\ cid[w] + 1 <= WorkerIndex(t)
      BY <2>1, <3>2
    <3>4. cid[w] <= WorkerIndex(t)
      BY <1>0, <1>3, <3>3
    <3>5. QED BY <2>1, <3>3, <3>4 DEF Unstarted
  <2>4. C
    <3>1. CASE t = d /\ epoch_counter <= num_kernels
      <4>1. cid[w] <= WorkerIndex(d)
        BY <1>0, <1>1
      <4>2. QED BY <1>1, <2>1, <3>1, <4>1 DEF Unstarted
    <3>2. CASE t # d \/ UNCHANGED iq
      BY <1>2, <2>1, <3>2 DEF Queued
    <3>3. QED BY <2>1, <3>1, <3>2
  <2>5. QED BY <2>2, <2>3, <2>4
<1>11. CASE WLoop(w) \/ WSkip(w)
  <2>1. /\ wpc[w] \in VisitPc /\ wpc'[w] \in {"tile", "loop", "end"}
        /\ UNCHANGED <<iq, oq, frontier, epoch_begin>>
    BY <1>0, <1>11 DEF WLoop, WSkip, NextCid, GoW, Is, tileVars, VisitPc
  <2>2. QED BY <1>5, <1>6, <1>7, <1>8, <1>9, <2>1
<1>12. CASE WRead(w)
  <2>1. /\ wpc[w] \in VisitPc /\ wpc'[w] = "flag" /\ UNCHANGED <<iq, oq, frontier>>
        /\ GLOBAL_BARRIER > 0 => epoch_begin'[t] = epoch_begin[t]
    <3>1. GLOBAL_BARRIER > 0 => epoch_begin' = [epoch_begin EXCEPT ![d] = epoch_begin[d]]
      BY <1>1, <1>12 DEF WRead
    <3>2. GLOBAL_BARRIER > 0 => epoch_begin'[t] = epoch_begin[t]
      BY <1>0, <3>1
    <3>3. QED BY <1>0, <1>12, <3>2 DEF WRead, GoW, Is, VisitPc
  <2>2. E
    BY <2>1 DEF Pending
  <2>3. QED BY <1>5, <1>6, <1>7, <1>8, <2>1, <2>2
<1>13. CASE WFlag(w)
  <2>1. /\ wpc[w] = "flag" /\ wpc'[w] \in {"first", "second"}
        /\ UNCHANGED <<iq, oq, frontier, epoch_begin, next, cid>>
    BY <1>0, <1>13 DEF WFlag, GoW, Is, tileVars
  <2>2. D
    BY <2>1 DEF InHand, TileNow
  <2>3. QED BY <1>5, <1>6, <1>7, <1>9, <2>1, <2>2 DEF VisitPc
<1>14. CASE WFirst(w)
  <2>1. wpc[w] = "first" /\ wpc'[w] = "second" /\ UNCHANGED <<frontier, cid>> /\ next[w] # 0
    BY <1>0, <1>14 DEF WFirst, GoW, Is, HandInv
  <2>2. InHand(d)
    BY <1>4, <2>1
  <2>3. C
    BY <1>2, <2>2 DEF Queued
  <2>4. D
    BY <1>1, <2>1, <2>2 DEF InHand, TileNow
  <2>5. E
    <3>1. UNCHANGED epoch_begin \/ epoch_begin' = [epoch_begin EXCEPT ![d] = 0]
      BY <1>1, <1>14 DEF WFirst
    <3>2. QED BY <1>0, <2>1, <2>2, <3>1 DEF Pending
  <2>6. QED BY <1>5, <1>6, <2>1, <2>3, <2>4, <2>5 DEF VisitPc
<1>15. CASE WSecond(w)
  <2>1. wpc[w] = "second" /\ wpc'[w] \in {"tile", "loop"} /\ UNCHANGED epoch_begin
    BY <1>0, <1>15 DEF WSecond, NextCid, GoW, Is
  <2>2. next[w] = 0 => UNCHANGED <<iq, oq, frontier>>
    BY <1>15 DEF WSecond
  <2>3. next[w] # 0 => InHand(d)
    BY <1>4, <2>1
  <2>4. C
    BY <1>2, <2>2, <2>3 DEF Queued
  <2>5. E
    BY <1>2, <2>1, <2>2, <2>3 DEF Pending
  <2>6. QED BY <1>5, <1>6, <1>8, <2>1, <2>4, <2>5 DEF VisitPc
<1>16. CASE WEnd(w) \/ WPublish(w)
  <2>1. wpc'[w] \in {"end", "publish", "all2"} /\ UNCHANGED <<iq, oq, frontier, epoch_begin>>
    BY <1>0, <1>16 DEF WEnd, WPublish, NextCid, GoW, tileVars
  <2>2. A
    BY <2>1 DEF Live, Woken, VisitPc
  <2>3. QED BY <1>6, <1>7, <1>8, <1>9, <2>1, <2>2
<1>17. CASE WDecide(w)
  <2>1. wpc'[w] = "all" /\ UNCHANGED <<iq, oq, frontier>>
    BY <1>0, <1>17 DEF WDecide, GoW
  <2>2. A
    BY <2>1 DEF Live, Woken, VisitPc
  <2>3. E
    BY <2>1 DEF Pending
  <2>4. QED BY <1>6, <1>7, <1>8, <2>1, <2>2, <2>3
<1>18. CASE WArrive(w, "all2", "threads2", "waitall2", "decide") \/ WWake(w, "waitall2", "threads2", "decide")
  <2>1. wpc'[w] \in {"waitall2", "decide"} /\ UNCHANGED <<iq, oq, frontier, epoch_begin>>
    BY <1>0, <1>18 DEF WArrive, WWake, GoW, tileVars
  <2>2. A
    BY <2>1 DEF Live, Woken, VisitPc
  <2>3. QED BY <1>6, <1>7, <1>8, <1>9, <2>1, <2>2
<1>19. CASE WArrive(w, "all", "threads", "waitall", WAfterThreads(w))
  <2>1. /\ wpc[w] = "all" /\ UNCHANGED <<iq, oq, frontier, epoch_begin>>
        /\ ~IsLast("threads", 2 * COLUMNS) /\ waiting["threads"] \in Nat
    BY <1>19, AtThreads DEF WArrive, Is, tileVars, Opening
  <2>2. wpc'[w] = "waitall" /\ waiting'["threads"] = waiting["threads"] + 1
    BY <1>0, <1>19, <2>1 DEF WArrive, Arrive, IsLast, GoW, Barrier, ControlOK
  <2>3. A /\ B
    <3>1. waiting'["threads"] # 0
      BY <2>1, <2>2
    <3>2. QED BY <2>2, <3>1 DEF Live, Woken, Unstarted, VisitPc
  <2>4. QED BY <1>7, <1>8, <1>9, <2>1, <2>2, <2>3
<1>20. CASE WWake(w, "waitall", "threads", WAfterThreads(w))
  <2>1. /\ wpc[w] = "waitall" /\ waiting["threads"] = 0 /\ wpc'[w] \in {"init", "done"}
        /\ UNCHANGED <<iq, oq, frontier, epoch_begin, epoch_counter>>
    BY <1>0, <1>20 DEF WWake, WAfterThreads, Is, GoW, tileVars, shared
  <2>2. Live(w)
    BY <2>1 DEF Live, Woken
  <2>3. B
    BY <2>1 DEF Unstarted, Woken
  <2>4. QED BY <1>7, <1>8, <1>9, <2>1, <2>2, <2>3
<1>21. A /\ B /\ C /\ D /\ E
  BY <1>10, <1>11, <1>12, <1>13, <1>14, <1>15, <1>16, <1>17, <1>18, <1>19, <1>20 DEF Worker, WBarriers
<1>22. QED BY <1>21

(* What it does to the tiles of the others, and a router to any tile.      *)
LEMMA WorkerElsewhere ==
  ASSUME BarrierInv, Types, NEW w \in Rid, Worker(w), ~Opening(w),
         NEW t \in Tile, ColumnOf(t) # w
  PROVE  /\ Live(ColumnOf(t))' => Live(ColumnOf(t))
         /\ Unstarted(t)' => Unstarted(t)
         /\ Queued(t)' = Queued(t) /\ InHand(t)' = InHand(t) /\ Pending(t)' = Pending(t)
<1>1. PICK c \in Rid : c = ColumnOf(t) /\ c # w
  BY WorkerTiles
<1>2. TileNow(w) # t
  BY TileNowIsTile
<1>3. /\ wpc'[c] = wpc[c] /\ cid'[c] = cid[c] /\ next'[c] = next[c]
      /\ iq'[t] = iq[t] /\ oq'[t] = oq[t] /\ frontier'[t] = frontier[t]
      /\ epoch_begin'[t] = epoch_begin[t]
  BY <1>1, <1>2, WorkerOthers DEF BarrierInv
<1>4. TileNow(c)' = TileNow(c)
  BY <1>3 DEF TileNow
<1>5. Woken(c)' => Woken(c)
  <2>1. waiting'["threads"] = 0 => waiting["threads"] = 0
    BY WorkerShared
  <2>2. QED BY <1>3, <2>1 DEF Woken
<1>6. epoch_counter' <= num_kernels => epoch_counter <= num_kernels
  BY WorkAssumption DEF Worker, WInit, WLoop, WSkip, WRead, WFlag, WFirst, WSecond, WEnd, WPublish, WDecide,
     WBarriers, WArrive, WWake, shared, Types
<1>7. QED BY <1>1, <1>3, <1>4, <1>5, <1>6 DEF Live, Unstarted, Queued, InHand, Pending

(* A router gives no tile work of its own but the messages that reach it.  *)
LEMMA RouterEffect ==
  ASSUME BarrierInv, Types, SnapInv, NEW r \in Rid, Router(r), ~Opening(r), NEW t \in Tile
  PROVE  /\ Live(ColumnOf(t))' => Live(ColumnOf(t))
         /\ Unstarted(t)' => Unstarted(t)
         /\ InHand(t)' = InHand(t) /\ Pending(t)' = Pending(t)
         /\ rpc[r] # "advance" \/ ColumnOf(t) # r => Queued(t)' = Queued(t)
<1>1. /\ UNCHANGED <<workerVars, frontier, epoch_begin, epoch_counter>>
      /\ rpc[r] # "advance" => UNCHANGED <<iq, oq>>
      /\ ColumnOf(t) # r => iq'[t] = iq[t] /\ oq'[t] = oq[t]
  BY RouterOthers DEF BarrierInv
<1>2. waiting'["threads"] = 0 => waiting["threads"] = 0
  BY RouterShared
<1>3. Woken(ColumnOf(t))' => Woken(ColumnOf(t))
  BY <1>1, <1>2 DEF Woken, workerVars, ColumnOf
<1>4. Live(ColumnOf(t))' => Live(ColumnOf(t))
  BY <1>1, <1>3 DEF Live, workerVars, ColumnOf
<1>5. Unstarted(t)' => Unstarted(t)
  BY <1>1, <1>3 DEF Unstarted, workerVars, ColumnOf, WorkerIndex
<1>6. InHand(t)' = InHand(t) /\ Pending(t)' = Pending(t)
  BY <1>1 DEF InHand, Pending, TileNow, workerVars
<1>7. rpc[r] # "advance" \/ ColumnOf(t) # r => Queued(t)' = Queued(t)
  BY <1>1 DEF Queued
<1>8. QED BY <1>4, <1>5, <1>6, <1>7

(* A tile with nothing to do stays so unless a message reaches it.         *)
LEMMA WorkerIdle ==
  ASSUME BarrierInv, Types, HandInv, LoopInv, NEW w \in Rid, Worker(w), ~Opening(w),
         NEW t \in Tile, Idle(t)
  PROVE  Idle(t)' /\ (Dead(t) => Dead(t)')
<1>1. UNCHANGED net
  BY WorkerOthers DEF BarrierInv
<1>2. SUFFICES Idle(t)'
  BY <1>1 DEF Dead
<1>3. CASE ColumnOf(t) # w
  BY <1>3, WorkerElsewhere DEF Idle
<1>4. CASE ColumnOf(t) = w
  <2>1. ~Queued(t) /\ ~InHand(t) /\ ~Unstarted(t) /\ (Live(w) \/ GLOBAL_BARRIER = 0 => ~Pending(t))
    BY <1>4 DEF Idle
  <2>2. ~(wpc[w] = "flag" /\ next[w] # 0 /\ TileNow(w) = t)
    <3>1. SUFFICES ASSUME wpc[w] = "flag", next[w] # 0, TileNow(w) = t PROVE FALSE
      OBVIOUS
    <3>2. next[w] \in Kind \/ next[w] = 4
      BY <3>1 DEF Types, Kind
    <3>3. CASE next[w] \in Kind
      BY <2>1, <3>1, <3>3 DEF HandInv, Queued
    <3>4. CASE next[w] = 4
      BY <2>1, <3>1, <3>4 DEF HandInv, Live, VisitPc
    <3>5. QED BY <3>2, <3>3, <3>4
  <2>3. ~Queued(t)' /\ ~InHand(t)' /\ ~Unstarted(t)' /\ (Live(w)' => Live(w))
    BY <1>4, <2>1, <2>2, WorkerEffect
  <2>4. Live(w)' \/ GLOBAL_BARRIER = 0 => ~Pending(t)'
    <3>1. CASE wpc'[w] = "all"
      <4>1. ~Live(w)'
        BY <3>1 DEF Live, Woken, VisitPc
      <4>2. GLOBAL_BARRIER = 0 => (Pending(t) <=> frontier[t])
        BY DEF Pending
      <4>3. GLOBAL_BARRIER = 0 => ~Pending(t)'
        BY <1>4, <2>1, <4>2, WorkerEffect
      <4>4. QED BY <4>1, <4>3
    <3>2. CASE wpc'[w] # "all"
      BY <1>4, <2>1, <2>3, <3>2, WorkerEffect
    <3>3. QED BY <3>1, <3>2
  <2>5. ColumnOf(t)' = w
    BY <1>4 DEF ColumnOf
  <2>6. QED BY <1>4, <2>3, <2>4 DEF Idle, ColumnOf
<1>5. QED BY <1>3, <1>4

(* The same for the steps of routers that move no message.                 *)
LEMMA RouterIdle ==
  ASSUME BarrierInv, Types, SnapInv, NEW r \in Rid, Router(r), ~Opening(r),
         rpc[r] # "advance", NEW t \in Tile, Idle(t)
  PROVE  Idle(t)' /\ (Dead(t) => Dead(t)')
<1>1. UNCHANGED net
  BY RouterOthers DEF BarrierInv
<1>2. Idle(t)'
  BY RouterEffect DEF Idle
<1>3. QED BY <1>1, <1>2 DEF Dead
-----------------------------------------------------------------------------
(* The epochs only go up.                                                  *)
LEMMA OwnStays ==
  ASSUME ControlOK, Types, SnapInv, NEW r \in Rid, Router(r) \/ Worker(r), OwnFlags'
  PROVE  OwnFlags
<1>1. epoch_counter \in Nat \ {0}
  BY DEF Types
<1>2. CASE Router(r)
  BY <1>2, RouterOthers DEF OwnFlags
<1>3. CASE Worker(r)
  <2>1. epoch_counter' = epoch_counter \/ epoch_counter' = epoch_counter + 1
    BY <1>3
       DEF Worker, WInit, WLoop, WSkip, WRead, WFlag, WFirst, WSecond, WEnd, WPublish, WDecide,
           WBarriers, WArrive, WWake, shared
  <2>2. QED BY <1>1, <2>1 DEF OwnFlags
<1>4. QED BY <1>2, <1>3

(* While the epoch goes on only the worker that looked at a tile sets its  *)
(* flag, to what it saw.                                                   *)
LEMMA WorkerFlag ==
  ASSUME ControlOK, Types, PhaseInv, global_router_active = 1, NEW w \in Rid, Worker(w), NEW t \in Tile
  PROVE  \/ isActive'[t] = isActive[t] /\ ~(wpc[w] = "flag" /\ TileNow(w) = t)
         \/ /\ wpc[w] = "flag" /\ TileNow(w) = t /\ isActive'[t] = act[w]
            /\ wpc'[w] \in {"first", "second"}
            /\ UNCHANGED <<iq, oq, frontier, epoch_begin, next, cid>>
<1>0. PICK d \in Tile : d = TileNow(w)
  BY TileNowIsTile
<1>1. wpc \in [Rid -> WorkerPc] /\ isActive \in [Tile -> BOOLEAN] /\ wpc[w] # "end"
  BY DEF ControlOK, Types, PhaseInv, VisitPc
<1>2. CASE WFlag(w)
  <2>1. /\ wpc[w] = "flag" /\ isActive' = [isActive EXCEPT ![d] = act[w]]
        /\ wpc'[w] \in {"first", "second"} /\ UNCHANGED <<iq, oq, frontier, epoch_begin, next, cid>>
    BY <1>0, <1>1, <1>2 DEF WFlag, Is, GoW, tileVars
  <2>2. CASE t = d
    BY <1>0, <1>1, <2>1, <2>2
  <2>3. CASE t # d
    BY <1>0, <1>1, <2>1, <2>3
  <2>4. QED BY <2>2, <2>3
<1>3. CASE ~WFlag(w)
  <2>1. wpc[w] # "flag" /\ UNCHANGED isActive
    BY <1>1, <1>3
       DEF Worker, WInit, WLoop, WSkip, WRead, WFirst, WSecond, WEnd, WPublish, WDecide,
           WBarriers, WArrive, WWake, flags, Is
  <2>2. QED BY <2>1
<1>4. QED BY <1>2, <1>3

(* When the next epoch starts, the tiles with work to do are marked.       *)
LEMMA OpensFlag ==
  ASSUME EpochInv, NEW r \in Rid, Opening(r)
  PROVE  FlagInv'
<1>1. /\ UNCHANGED <<epoch_counter, isActive, frontier, epoch_begin>>
      /\ \A q \in Rid : wpc[q] \in {"all", "waitall"} /\ wpc'[q] \in {"init", "waitall", "done"}
  BY Opens DEF Opening, EpochInv, flags, tileVars
<1>b. rpc[r] = "all" \/ wpc[r] = "all"
  BY DEF Opening, RArrive, WArrive, At, Is
<1>2. (rpc[r] = "all" \/ wpc[r] = "all") /\ global_router_active = 0
  BY <1>b DEF EpochInv, PhaseInv, VisitPc, Types
<1>2a. 0 \in Rid
  BY Sizes DEF Rid
<1>3. ThreadsMeet /\ epoch_counter # 1 /\ epoch_counter \in Nat \ {0}
  BY <1>1, <1>2, <1>2a, AtThreads DEF EpochInv, PhaseInv, Types
<1>4. SUFFICES ASSUME OwnFlags', NEW t \in Tile, InHand(t)' \/ Pending(t)' \/ Unstarted(t)'
               PROVE  isActive'[t]
  BY DEF FlagInv
<1>5. PICK c \in Rid : c = ColumnOf(t)
  BY WorkerTiles
<1>6. frontier[t] \/ epoch_counter <= num_kernels
  BY <1>1, <1>4, <1>5 DEF InHand, Pending, Unstarted
<1>7. CASE COLUMNS = 1
  <2>1. wpc[0] \in {"all", "waitall"} /\ Settling(0)
    BY <1>1, <1>2a, <1>3, WaitersCounted DEF Settling
  <2>2. Kernels(0) <=> epoch_counter <= num_kernels
    BY <2>1 DEF Kernels
  <2>3. QED BY <1>1, <1>6, <1>7, <2>1, <2>2 DEF EpochInv, EndInv
<1>8. CASE num_kernels = 1 /\ GLOBAL_BARRIER = 0
  <2>1. OwnFlags /\ Dead(t)
    BY <1>2, <1>8 DEF OwnFlags, EpochInv, Settled
  <2>2. ~Pending(t)
    BY <1>8, <2>1 DEF Dead, Idle
  <2>3. ~frontier[t] /\ ~(epoch_counter <= num_kernels)
    BY <1>3, <1>8, <2>2 DEF Pending
  <2>4. QED BY <1>6, <2>3
<1>9. QED BY <1>1, <1>3, <1>4, <1>7, <1>8 DEF OwnFlags

(* A worker clears the flag of a tile only when the tile has nothing to do *)
(* of its own.                                                             *)
LEMMA WorkerFlags ==
  ASSUME EpochInv, NEW w \in Rid, Worker(w), ~Opening(w)
  PROVE  FlagInv'
<1>0. BarrierInv /\ ControlOK /\ Types /\ HandInv /\ LoopInv /\ PhaseInv /\ SnapInv
  BY DEF EpochInv, BarrierInv
<1>1. SUFFICES ASSUME OwnFlags', global_router_active' = 1, NEW t \in Tile, Live(ColumnOf(t))',
                      InHand(t)' \/ Pending(t)' \/ Unstarted(t)'
               PROVE  isActive'[t]
  BY DEF FlagInv, ColumnOf
<1>2. OwnFlags /\ global_router_active = 1
  BY <1>0, <1>1, OwnStays, WorkerShared
<1>3. Live(ColumnOf(t)) /\ (InHand(t) \/ Pending(t) \/ Unstarted(t)) => isActive[t]
  BY <1>2 DEF EpochInv, FlagInv
<1>4. CASE ColumnOf(t) # w
  <2>1. isActive'[t] = isActive[t]
    BY <1>0, <1>2, <1>4, WorkerFlag, TileNowIsTile
  <2>2. QED BY <1>0, <1>1, <1>3, <1>4, <2>1, WorkerElsewhere
<1>5. CASE ColumnOf(t) = w /\ wpc[w] = "flag" /\ TileNow(w) = t
  <2>1. /\ isActive'[t] = act[w] /\ wpc'[w] \in {"first", "second"}
        /\ UNCHANGED <<iq, oq, frontier, epoch_begin, next, cid>>
    BY <1>0, <1>2, <1>5, WorkerFlag
  <2>2. ~Unstarted(t)' /\ Pending(t)' = Pending(t)
    BY <1>5, <2>1 DEF Unstarted, Woken, Pending, ColumnOf
  <2>3. InHand(t)' => next[w] # 0
    BY <1>5, <2>1 DEF InHand, ColumnOf
  <2>4. ~act[w] => next[w] = 0 /\ ~Pending(t)
    BY <1>0, <1>5 DEF HandInv
  <2>5. QED BY <1>1, <2>1, <2>2, <2>3, <2>4
<1>6. CASE ColumnOf(t) = w /\ ~(wpc[w] = "flag" /\ TileNow(w) = t)
  <2>1. isActive'[t] = isActive[t]
    BY <1>0, <1>2, <1>6, WorkerFlag
  <2>2. wpc'[w] # "all"
    BY <1>1, <1>6 DEF Live, Woken, VisitPc, ColumnOf
  <2>3. QED BY <1>0, <1>1, <1>3, <1>6, <2>1, <2>2, WorkerEffect DEF ColumnOf
<1>7. QED BY <1>4, <1>5, <1>6

(* A router gives a tile nothing to do of its own.                         *)
LEMMA RouterFlags ==
  ASSUME EpochInv, NEW r \in Rid, Router(r), ~Opening(r)
  PROVE  FlagInv'
<1>0. BarrierInv /\ ControlOK /\ Types /\ PhaseInv /\ SnapInv
  BY DEF EpochInv, BarrierInv
<1>1. SUFFICES ASSUME OwnFlags', global_router_active' = 1, NEW t \in Tile, Live(ColumnOf(t))',
                      InHand(t)' \/ Pending(t)' \/ Unstarted(t)'
               PROVE  isActive'[t]
  BY DEF FlagInv, ColumnOf
<1>2. OwnFlags /\ global_router_active = 1
  <2>1. global_router_active # 1 => ~(r = 0 /\ RStore)
    BY <1>0 DEF RStore, At, PhaseInv, Types
  <2>2. QED BY <1>0, <1>1, <2>1, OwnStays, RouterShared
<1>3. Live(ColumnOf(t)) /\ (InHand(t) \/ Pending(t) \/ Unstarted(t)) => isActive[t]
  BY <1>2 DEF EpochInv, FlagInv
<1>4. isActive' = isActive
  BY <1>0, RouterOthers
<1>5. QED BY <1>0, <1>1, <1>3, <1>4, RouterEffect DEF ColumnOf
-----------------------------------------------------------------------------
(* A column that was seen without work.                                    *)
LEMMA OpensClean ==
  ASSUME EpochInv, NEW r \in Rid, Opening(r)
  PROVE  CleanInv'
<1>1. /\ UNCHANGED column_active
      /\ \A q \in Rid : rpc[q] \in {"all", "waitall"} /\ rpc'[q] \in {"epoch", "waitall", "done"}
  BY Opens DEF Opening, EpochInv, flags
<1>2. \A q \in Rid : column_active'[q]
  BY <1>1 DEF EpochInv, PhaseInv
<1>3. ASSUME NEW t \in Tile PROVE ~SeenClean(t)'
  <2>1. PICK c \in Rid : c = ColumnOf(t)
    BY WorkerTiles
  <2>2. rpc'[c] \in {"epoch", "waitall", "done"} /\ column_active'[c]
    BY <1>1, <1>2
  <2>3. QED BY <2>1, <2>2 DEF SeenClean
<1>4. QED BY <1>3 DEF CleanInv

(* A worker gives a tile of a column seen without work something only if   *)
(* it is marked as active.                                                 *)
LEMMA WorkerClean ==
  ASSUME EpochInv, NEW w \in Rid, Worker(w), ~Opening(w)
  PROVE  CleanInv'
<1>0. BarrierInv /\ ControlOK /\ Types /\ HandInv /\ LoopInv /\ PhaseInv /\ SnapInv
  BY DEF EpochInv, BarrierInv
<1>1. SUFFICES ASSUME OwnFlags', global_router_active' = 1, NEW t \in Tile, SeenClean(t)', Queued(t)'
               PROVE  /\ isActive'[t]
                      /\ ~(wpc'[ColumnOf(t)] = "flag" /\ TileNow(ColumnOf(t))' = t /\ ~act'[ColumnOf(t)])
  BY DEF CleanInv, Clean, ColumnOf
<1>2. OwnFlags /\ global_router_active = 1
  BY <1>0, <1>1, OwnStays, WorkerShared
<1>3. SeenClean(t)
  BY <1>0, <1>1, WorkerOthers DEF SeenClean, routerVars, ColumnOf, RouterIndex
<1>4. /\ Queued(t) => isActive[t]
      /\ Queued(t) => ~(wpc[ColumnOf(t)] = "flag" /\ TileNow(ColumnOf(t)) = t /\ ~act[ColumnOf(t)])
  BY <1>2, <1>3 DEF EpochInv, CleanInv, Clean
<1>5. CASE ColumnOf(t) # w
  <2>1. PICK c \in Rid : c = ColumnOf(t) /\ c # w
    BY <1>5, WorkerTiles
  <2>2. isActive'[t] = isActive[t] /\ Queued(t)
    BY <1>0, <1>1, <1>2, <1>5, WorkerFlag, TileNowIsTile, WorkerElsewhere
  <2>3. wpc'[c] = wpc[c] /\ act'[c] = act[c] /\ TileNow(c)' = TileNow(c)
    BY <1>0, <2>1, WorkerOthers DEF TileNow
  <2>4. QED BY <1>4, <2>1, <2>2, <2>3
<1>6. CASE ColumnOf(t) = w
  <2>1. isActive'[t]
    <3>1. CASE wpc[w] = "flag" /\ TileNow(w) = t
      <4>1. isActive'[t] = act[w] /\ UNCHANGED <<iq, oq>>
        BY <1>0, <1>2, <3>1, WorkerFlag
      <4>2. QED BY <1>1, <1>4, <1>6, <3>1, <4>1 DEF Queued
    <3>2. CASE ~(wpc[w] = "flag" /\ TileNow(w) = t)
      <4>1. isActive'[t] = isActive[t]
        BY <1>0, <1>2, <3>2, WorkerFlag
      <4>2. Queued(t) \/ InHand(t) \/ Unstarted(t)
        BY <1>0, <1>1, <1>6, WorkerEffect
      <4>3. InHand(t) \/ Unstarted(t) => Live(w)
        BY <1>6 DEF InHand, Unstarted, Live, VisitPc
      <4>4. InHand(t) \/ Unstarted(t) => isActive[t]
        BY <1>2, <1>6, <4>3 DEF EpochInv, FlagInv
      <4>5. QED BY <1>4, <4>1, <4>2, <4>4
    <3>3. QED BY <3>1, <3>2
  <2>2. ASSUME wpc'[w] = "flag", TileNow(w)' = t PROVE act'[w]
    <3>1. WRead(w)
      <4>1. wpc \in [Rid -> WorkerPc]
        BY <1>0 DEF ControlOK
      <4>2. QED
        BY <2>2, <4>1
           DEF Worker, WInit, WLoop, WSkip, WFlag, WFirst, WSecond, WEnd, WPublish, WDecide,
               WBarriers, WArrive, WWake, WAfterThreads, NextCid, GoW
    <3>2. UNCHANGED <<iq, oq, cid>>
      BY <3>1 DEF WRead
    <3>3. TileNow(w) = t
      BY <2>2, <3>2 DEF TileNow
    <3>4. oq[t] # {} \/ \E k \in Kind : iq[t][k] > 0
      BY <1>1, <3>2 DEF Queued
    <3>5. act \in [Rid -> BOOLEAN]
      BY <1>0 DEF Types
    <3>6. QED BY <3>1, <3>3, <3>4, <3>5 DEF WRead
  <2>3. QED BY <1>6, <2>1, <2>2
<1>7. QED BY <1>5, <1>6

(* A router that marks its column as inactive has seen its tiles so.       *)
LEMMA RouterSees ==
  ASSUME EpochInv, NEW r \in Rid, Router(r), global_router_active = 1,
         NEW t \in Tile, ColumnOf(t) = r, SeenClean(t)', Queued(t)'
  PROVE  SeenClean(t) /\ Queued(t)
<1>0. /\ rpc \in [Rid -> RouterPc] /\ n \in [Rid -> Nat] /\ local \in [Rid -> BOOLEAN]
      /\ column_active \in [Rid -> BOOLEAN] /\ ControlOK /\ Types /\ SnapInv
  BY DEF EpochInv, BarrierInv, ControlOK, Types
<1>1. rpc[r] # "advance" => Queued(t)
  BY <1>0, RouterOthers DEF Queued
<1>2. RouterIndex(t) \in 0 .. CORES_PER_TH - 1 /\ RouterTile(r, RouterIndex(t)) = t
      /\ CORES_PER_TH \in Nat
  BY Areas, RouterTiles
<1>3. /\ rpc'[r] \in {"advance", "tick"} => ~local'[r]
      /\ rpc'[r] \in {"look", "lookq"} => ~local'[r] /\ RouterIndex(t) < n'[r]
      /\ rpc'[r] \notin {"advance", "tick", "look", "lookq"} => ~column_active'[r]
  <2>1. CASE rpc'[r] \in {"advance", "tick"}
    BY <2>1 DEF SeenClean, ColumnOf
  <2>2. CASE rpc'[r] \in {"look", "lookq"}
    BY <2>2 DEF SeenClean, ColumnOf, RouterIndex
  <2>3. CASE rpc'[r] \notin {"advance", "tick", "look", "lookq"}
    BY <2>3 DEF SeenClean, ColumnOf
  <2>4. QED BY <2>1, <2>2, <2>3
<1>4. /\ rpc[r] \in {"advance", "tick"} /\ ~local[r] => SeenClean(t)
      /\ rpc[r] \in {"look", "lookq"} /\ ~local[r] /\ RouterIndex(t) < n[r] => SeenClean(t)
      /\ rpc[r] \notin {"advance", "tick", "look", "lookq"} /\ ~column_active[r] => SeenClean(t)
  BY DEF SeenClean
<1>5. ASSUME rpc[r] \notin {"advance", "tick", "look", "lookq"},
             rpc'[r] \notin {"advance", "tick", "look", "lookq"}, UNCHANGED column_active
      PROVE  SeenClean(t) /\ Queued(t)
  BY <1>1, <1>3, <1>4, <1>5
<1>6. CASE REpoch(r) \/ RLoop(r) \/ RScan(r) \/ RSpin(r) \/ RBarriers(r)
  <2>1. /\ rpc[r] \notin {"advance", "tick", "look", "lookq"} /\ UNCHANGED column_active
        /\ rpc'[r] \notin {"advance", "tick", "look", "lookq"}
    BY <1>0, <1>6
       DEF REpoch, RLoop, RScan, RSpin, RBarriers, RArrive, RWake, AfterBar1, AfterThreads, flags, At, GoR
  <2>2. QED BY <1>5, <2>1
<1>7. CASE r = 0 /\ (RCheck \/ RStore)
  <2>1. /\ rpc[r] \notin {"advance", "tick", "look", "lookq"} /\ UNCHANGED column_active
        /\ rpc'[r] \notin {"advance", "tick", "look", "lookq"}
    BY <1>0, <1>7 DEF RCheck, RStore, flags, At, GoR
  <2>2. QED BY <1>5, <2>1
<1>8. CASE RMate(r)
  <2>1. /\ rpc[r] = "mate" /\ UNCHANGED column_active
        /\ rpc'[r] = "mate" \/ (rpc'[r] = "look" /\ n'[r] = 0)
    BY <1>0, <1>8 DEF RMate, flags, At, GoR
  <2>2. rpc'[r] = "mate"
    BY <1>2, <1>3, <2>1
  <2>3. QED BY <1>5, <2>1, <2>2
<1>9. CASE RLookActive(r)
  <2>1. /\ rpc[r] = "look" /\ rpc'[r] = "lookq" /\ UNCHANGED n /\ (~local'[r] => ~local[r])
    BY <1>0, <1>9 DEF RLookActive, At, GoR
  <2>2. QED BY <1>1, <1>3, <1>4, <2>1
<1>10. CASE RLookQueues(r)
  <2>1. /\ rpc[r] = "lookq" /\ (~local'[r] => ~local[r] /\ ~QueuesBusy(RouterTile(r, n[r])))
        /\ \/ rpc'[r] = "look" /\ n'[r] = n[r] + 1
           \/ rpc'[r] = "advance" /\ n[r] + 1 >= CORES_PER_TH
    <3>1. rpc[r] = "lookq" /\ local'[r] = (local[r] \/ QueuesBusy(RouterTile(r, n[r])))
      BY <1>0, <1>10 DEF RLookQueues, At
    <3>2. \/ rpc'[r] = "look" /\ n'[r] = n[r] + 1
          \/ rpc'[r] = "advance" /\ ~(n[r] + 1 < CORES_PER_TH)
      BY <1>0, <1>10 DEF RLookQueues, GoR
    <3>3. n[r] \in Nat
      BY <1>0
    <3>4. ~local'[r] => ~local[r] /\ ~QueuesBusy(RouterTile(r, n[r]))
      BY <3>1, Zenon
    <3>5. QED BY <1>2, <3>1, <3>2, <3>3, <3>4
  <2>2. ~local'[r] /\ (RouterIndex(t) < n[r] \/ RouterIndex(t) = n[r])
    BY <1>0, <1>2, <1>3, <2>1
  <2>3. RouterIndex(t) # n[r]
    <3>1. SUFFICES ASSUME RouterIndex(t) = n[r] PROVE FALSE
      OBVIOUS
    <3>2. ~QueuesBusy(t)
      BY <1>2, <2>1, <2>2, <3>1
    <3>3. \A k \in Kind : iq[t][k] \in Nat /\ net[t][k] \in Nat
      BY <1>0 DEF Types
    <3>4. QED BY <1>1, <2>1, <3>2, <3>3 DEF QueuesBusy, Queued
  <2>4. QED BY <1>1, <1>4, <2>1, <2>2, <2>3
<1>11. ASSUME NEW arrived \in SUBSET Kind, NEW sent \in SUBSET oq[RouterTile(r, n[r])],
              RAdvance(r, arrived, sent)
       PROVE  SeenClean(t) /\ Queued(t)
  <2>1. rpc[r] = "advance" /\ rpc'[r] \in {"advance", "tick"} /\ UNCHANGED local
    BY <1>0, <1>11 DEF RAdvance, At, GoR
  <2>2. ~local[r] /\ snap[r] = {}
    BY <1>0, <1>3, <2>1 DEF SnapInv
  <2>3. arrived = {} /\ sent = {}
    BY <1>11, <2>2 DEF RAdvance
  <2>4. PICK d \in Tile : d = RouterTile(r, n[r])
    BY <1>0, <2>1, RouterTiles DEF SnapInv
  <2>5. iq'[t] = iq[t] /\ oq'[t] = oq[t]
    <3>1. \A k \in Kind : iq[d][k] \in Nat
      BY <1>0 DEF Types
    <3>2. iq' = [iq EXCEPT ![d] = [k \in Kind |-> iq[d][k] + 0 + 0]] /\ oq' = [oq EXCEPT ![d] = oq[d] \ {}]
      BY <1>11, <2>3, <2>4 DEF RAdvance
    <3>3. \A k \in Kind : iq'[d][k] = iq[d][k]
      BY <1>0, <3>1, <3>2 DEF Types
    <3>4. iq' \in [Tile -> [Kind -> Nat]]
      BY <1>0, RouterTypes DEF Types
    <3>5. iq'[d] = iq[d]
      BY <1>0, <3>3, <3>4 DEF Types
    <3>6. QED BY <1>0, <3>2, <3>5 DEF Types
  <2>6. QED BY <1>4, <2>1, <2>2, <2>5 DEF Queued
<1>12. CASE RTick(r)
  <2>1. rpc[r] = "tick" /\ rpc'[r] = "loop" /\ column_active'[r] = local[r]
    BY <1>0, <1>12 DEF RTick, At, GoR
  <2>2. QED BY <1>1, <1>3, <1>4, <2>1
<1>13. CASE RDecide(r)
  BY <1>13 DEF RDecide, At, EpochInv, PhaseInv
<1>14. QED
  BY <1>6, <1>7, <1>8, <1>9, <1>10, <1>11, <1>12, <1>13 DEF Router

(* A router that goes on moving messages does not count as seen without    *)
(* work.                                                                   *)
LEMMA RouterClean ==
  ASSUME EpochInv, NEW r \in Rid, Router(r), ~Opening(r)
  PROVE  CleanInv'
<1>0. BarrierInv /\ ControlOK /\ Types /\ PhaseInv /\ SnapInv
  BY DEF EpochInv, BarrierInv
<1>1. SUFFICES ASSUME OwnFlags', global_router_active' = 1, NEW t \in Tile, SeenClean(t)', Queued(t)'
               PROVE  /\ isActive'[t]
                      /\ ~(wpc'[ColumnOf(t)] = "flag" /\ TileNow(ColumnOf(t))' = t /\ ~act'[ColumnOf(t)])
  BY DEF CleanInv, Clean, ColumnOf
<1>2. OwnFlags /\ global_router_active = 1
  <2>1. global_router_active # 1 => ~(r = 0 /\ RStore)
    BY <1>0 DEF RStore, At, PhaseInv, Types
  <2>2. QED BY <1>0, <1>1, <2>1, OwnStays, RouterShared
<1>3. SeenClean(t) /\ Queued(t)
  <2>1. CASE ColumnOf(t) = r
    BY <1>1, <1>2, <2>1, RouterSees
  <2>2. CASE ColumnOf(t) # r
    <3>1. PICK c \in Rid : c = ColumnOf(t) /\ c # r
      BY <2>2, WorkerTiles
    <3>2. /\ rpc'[c] = rpc[c] /\ n'[c] = n[c] /\ local'[c] = local[c]
          /\ column_active'[c] = column_active[c]
      BY <1>0, <3>1, RouterOthers
    <3>3. SeenClean(t)
      BY <1>1, <3>1, <3>2 DEF SeenClean, ColumnOf, RouterIndex
    <3>4. QED BY <1>0, <1>1, <2>2, <3>3, RouterEffect
  <2>3. QED BY <2>1, <2>2
<1>4. UNCHANGED <<workerVars, isActive>>
  BY <1>0, RouterOthers
<1>5. Clean(t)
  BY <1>2, <1>3 DEF EpochInv, CleanInv
<1>6. QED BY <1>3, <1>4, <1>5 DEF Clean, workerVars, TileNow
-----------------------------------------------------------------------------
(* The check of router thread 0.                                           *)
Found(j) == /\ ~column_active[CheckColumn(j)] /\ Idle(CheckTile(j))
            /\ j % 2 = 1 => Dead(CheckTile(j))

(* During the check the routers stand still and the workers still run.     *)
LEMMA CheckMeets ==
  ASSUME EpochInv, rpc[0] \in {"check", "store"}
  PROVE  /\ \A q \in Rid : rpc[q] \in {"check", "store", "bar2", "wait1", "wait2"}
         /\ global_router_active = 1 => \A q \in Rid : Live(q)
<1>0. 0 \in Rid
  BY Sizes DEF Rid
<1>1. \A q \in Rid : rpc[q] \in {"check", "store", "bar2", "wait1", "wait2"}
  BY <1>0 DEF EpochInv, BarrierInv, RoutersFree, RoutersMeet, CheckPc
<1>2. ThreadsFree
  BY <1>0 DEF EpochInv, BarrierInv, ThreadsMeet, SettlePc
<1>3. \A q \in Rid : wpc[q] # "done"
  BY <1>0, <1>2 DEF EpochInv, DecisionInv, Ended, Running
<1>4. global_router_active = 1 => \A q \in Rid : wpc[q] \in VisitPc \union {"waitall"}
  BY <1>3 DEF EpochInv, PhaseInv
<1>5. waiting["threads"] = 0
  BY <1>2 DEF ThreadsFree
<1>6. QED BY <1>1, <1>4, <1>5 DEF Live, Woken

(* One step of the check, when it sees nothing.                            *)
LEMMA CheckSees ==
  ASSUME EpochInv, OwnFlags, global_router_active = 1, rpc[0] = "check", ~Seen(n[0])
  PROVE  Found(n[0])
<1>0. BarrierInv /\ ControlOK /\ Types /\ CheckInv /\ FlagInv /\ CleanInv
  BY DEF EpochInv, BarrierInv
<1>1. PICK j \in 0 .. 2 * Cardinality(Tile) - 1 : j = n[0]
  BY <1>0 DEF CheckInv
<1>2. \A i \in 0 .. j - 1 : Found(i)
  BY <1>0, <1>1 DEF CheckInv, Found
<1>3. PICK t \in Tile, c \in Rid : t = CheckTile(j) /\ c = CheckColumn(j) /\ ColumnOf(t) = c
  BY Checked
<1>4. Live(c) /\ rpc[c] \notin {"advance", "tick", "look", "lookq"}
  BY CheckMeets
<1>5. CASE j % 2 = 1
  <2>1. j - 1 \in 0 .. j - 1 /\ CheckColumn(j - 1) = c /\ CheckTile(j - 1) = t
    <3>1. j - 1 \in 0 .. 2 * Cardinality(Tile) - 1 /\ CheckColumn(j - 1) = c /\ CheckTile(j - 1) = t
      BY <1>3, <1>5, Checked
    <3>2. QED BY <3>1
  <2>2. ~column_active[c] /\ Idle(t)
    BY <1>2, <2>1 DEF Found
  <2>3. ~QueuesBusy(t)
    BY <1>1, <1>3, <1>5 DEF Seen
  <2>4. \A k \in Kind : iq[t][k] \in Nat /\ net[t][k] \in Nat
    BY <1>0 DEF Types
  <2>5. \A k \in Kind : net[t][k] = 0
    BY <2>3, <2>4 DEF QueuesBusy
  <2>6. QED BY <1>1, <1>3, <2>2, <2>5 DEF Found, Dead
<1>6. CASE j % 2 # 1
  <2>1. /\ ~isActive[t]
        /\ j % (2 * CORES_PER_TH) = 0 => ~column_active[c]
    BY <1>1, <1>3, <1>6 DEF Seen
  <2>2. ~column_active[c]
    <3>1. CASE j % (2 * CORES_PER_TH) # 0
      <4>1. j - 1 \in 0 .. 2 * Cardinality(Tile) - 1 /\ CheckColumn(j - 1) = c
        BY <1>3, <3>1, Checked
      <4>2. j - 1 \in 0 .. j - 1
        BY <4>1
      <4>3. QED BY <1>2, <4>1, <4>2 DEF Found
    <3>2. QED BY <2>1, <3>1
  <2>3. SeenClean(t)
    BY <1>3, <1>4, <2>2 DEF SeenClean
  <2>4. ~Queued(t)
    BY <1>0, <2>1, <2>3 DEF CleanInv, Clean
  <2>5. ~InHand(t) /\ ~Pending(t) /\ ~Unstarted(t)
    BY <1>0, <1>3, <1>4, <2>1 DEF FlagInv
  <2>6. QED BY <1>1, <1>3, <1>6, <2>2, <2>4, <2>5 DEF Found, Idle
<1>7. QED BY <1>5, <1>6

(* When the next epoch starts nothing has been seen yet, and with one      *)
(* column of threads the flags are no longer needed.                       *)
LEMMA OpensRest ==
  ASSUME EpochInv, NEW r \in Rid, Opening(r)
  PROVE  CheckInv' /\ Settled' /\ EndInv'
<1>1. /\ global_router_active' = 1 /\ waiting'["threads"] = 0
      /\ \A q \in Rid : /\ rpc'[q] \in {"epoch", "waitall", "done"}
                        /\ wpc'[q] \in {"init", "waitall", "done"}
  BY Opens DEF Opening, EpochInv
<1>2. 0 \in Rid
  BY Sizes DEF Rid
<1>3. QED BY <1>1, <1>2 DEF CheckInv, Settled, EndInv, Settling

(* What the check has found stays true whatever a worker does meanwhile.   *)
LEMMA WorkerCheck ==
  ASSUME EpochInv, NEW w \in Rid, Worker(w), ~Opening(w)
  PROVE  CheckInv' /\ Settled'
<1>0. BarrierInv /\ ControlOK /\ Types /\ HandInv /\ LoopInv /\ SnapInv
  BY DEF EpochInv, BarrierInv
<1>1. (OwnFlags' => OwnFlags) /\ UNCHANGED <<rpc, n, local, column_active, global_router_active>>
  BY <1>0, OwnStays, WorkerOthers, WorkerShared DEF routerVars
<1>2. \A t \in Tile : (Idle(t) => Idle(t)') /\ (Dead(t) => Dead(t)')
  BY <1>0, WorkerIdle DEF Dead
<1>3. Settled'
  BY <1>1, <1>2 DEF EpochInv, Settled
<1>4. ASSUME OwnFlags', global_router_active' = 1, rpc'[0] = "check", NEW j \in 0 .. n'[0] - 1
      PROVE  Found(j)'
  <2>1. Found(j) /\ j \in 0 .. 2 * Cardinality(Tile) - 1
    <3>1. n[0] \in 0 .. 2 * Cardinality(Tile) - 1 /\ j \in 0 .. n[0] - 1 /\ Cardinality(Tile) \in Nat
      BY <1>1, <1>4, FS_CardinalityType, Areas DEF EpochInv, CheckInv
    <3>2. QED BY <1>1, <1>4, <3>1 DEF EpochInv, CheckInv, Found
  <2>2. PICK t \in Tile : t = CheckTile(j)
    BY <2>1, Checked
  <2>3. t = CheckTile(j)' /\ column_active'[CheckColumn(j)] = column_active[CheckColumn(j)]
        /\ CheckColumn(j)' = CheckColumn(j)
    BY <1>1, <2>2 DEF CheckTile, CheckColumn
  <2>4. Idle(t)' /\ (j % 2 = 1 => Dead(t)')
    BY <1>2, <2>1, <2>2 DEF Found
  <2>5. QED BY <2>1, <2>2, <2>3, <2>4 DEF Found
<1>5. CheckInv'
  BY <1>1, <1>2, <1>4 DEF EpochInv, CheckInv, Found
<1>6. QED BY <1>3, <1>5

(* What was found stays so when the routers are at their barriers.         *)
LEMMA RouterFound ==
  ASSUME EpochInv, NEW r \in Rid, Router(r), ~Opening(r),
         rpc[r] \notin {"advance", "tick", "decide"},
         NEW j \in 0 .. 2 * Cardinality(Tile) - 1, Found(j)
  PROVE  Found(j)'
<1>0. BarrierInv /\ ControlOK /\ Types /\ SnapInv
  BY DEF EpochInv, BarrierInv
<1>1. UNCHANGED column_active
  BY DEF Router, REpoch, RLoop, RScan, RSpin, RMate, RLookActive, RLookQueues, RTick, RDecide, RCheck, RStore,
     RBarriers, RArrive, RWake, flags, At
<1>2. PICK t \in Tile : t = CheckTile(j)
  BY Checked
<1>3. Idle(t)' /\ (j % 2 = 1 => Dead(t)')
  BY <1>0, <1>2, RouterIdle DEF Found
<1>4. QED BY <1>1, <1>2, <1>3 DEF Found, CheckTile, CheckColumn

(* The check goes on from tile to tile, and what it found stays true.      *)
LEMMA RouterCheck ==
  ASSUME EpochInv, NEW r \in Rid, Router(r), ~Opening(r)
  PROVE  CheckInv'
<1>0. /\ BarrierInv /\ ControlOK /\ Types /\ SnapInv /\ PhaseInv /\ CheckInv
      /\ rpc \in [Rid -> RouterPc] /\ n \in [Rid -> Nat] /\ local \in [Rid -> BOOLEAN]
      /\ 0 \in Rid /\ Cardinality(Tile) \in Nat /\ Cardinality(Tile) > 0
  <2>1. IsFiniteSet(Tile) /\ Cardinality(Tile) \in Nat /\ WorkerTile(0, 0) \in Tile
    BY Sizes, Areas, WorkerTiles, FS_CardinalityType DEF Rid
  <2>2. Cardinality(Tile) > 0
    BY <2>1, FS_EmptySet
  <2>3. 0 \in Rid
    BY Sizes DEF Rid
  <2>4. QED BY <2>1, <2>2, <2>3 DEF EpochInv, BarrierInv, ControlOK, Types
<1>1. SUFFICES ASSUME OwnFlags', global_router_active' = 1, rpc'[0] \in {"check", "store"}
               PROVE  CheckInv'
  BY DEF CheckInv
<1>2. OwnFlags /\ global_router_active = 1
  <2>1. global_router_active # 1 => ~(r = 0 /\ RStore)
    BY <1>0 DEF RStore, At, PhaseInv, Types
  <2>2. QED BY <1>0, <1>1, <2>1, OwnStays, RouterShared
<1>3. CASE r = 0 /\ RCheck
  <2>1. rpc[0] = "check" /\ rpc[r] = "check" /\ local'[0] = Seen(n[0])
    BY <1>0, <1>3 DEF RCheck, At
  <2>2. PICK j \in 0 .. 2 * Cardinality(Tile) - 1 : j = n[0]
    BY <1>0, <1>2, <2>1 DEF CheckInv
  <2>3. \A i \in 0 .. j - 1 : i \in 0 .. 2 * Cardinality(Tile) - 1 /\ Found(i)
    BY <1>0, <1>2, <2>1, <2>2 DEF CheckInv, Found
  <2>4. \A i \in 0 .. j - 1 : Found(i)'
    BY <2>1, <2>3, RouterFound
  <2>5. ASSUME ~Seen(j) PROVE Found(j)'
    BY <1>2, <2>1, <2>2, <2>5, CheckSees, RouterFound
  <2>6. CASE rpc'[0] = "check"
    <3>1. ~Seen(j) /\ n'[0] = j + 1 /\ j + 1 # 2 * Cardinality(Tile)
      BY <1>0, <1>3, <2>2, <2>6 DEF RCheck, GoR
    <3>2. \A i \in 0 .. j : Found(i)'
      BY <2>4, <2>5, <3>1
    <3>3. n'[0] \in 0 .. 2 * Cardinality(Tile) - 1 /\ \A i \in 0 .. n'[0] - 1 : i \in 0 .. j
      BY <1>0, <3>1
    <3>4. QED BY <2>6, <3>2, <3>3 DEF CheckInv, Found
  <2>7. CASE rpc'[0] = "store"
    <3>1. SUFFICES ASSUME ~local'[0] PROVE \A t \in Tile : Dead(t)'
      BY <2>7 DEF CheckInv
    <3>2. ~Seen(j)
      BY <2>1, <2>2, <3>1, Zenon
    <3>3. j + 1 = 2 * Cardinality(Tile)
      <4>1. Seen(j) \/ j + 1 = 2 * Cardinality(Tile) \/ UNCHANGED rpc
        BY <1>3, <2>2 DEF RCheck
      <4>2. QED BY <2>1, <2>7, <3>2, <4>1
    <3>4. \A i \in 0 .. 2 * Cardinality(Tile) - 1 : Found(i)'
      BY <2>4, <2>5, <3>2, <3>3
    <3>5. ASSUME NEW t \in Tile PROVE Dead(t)'
      <4>1. PICK i \in 0 .. 2 * Cardinality(Tile) - 1 : i % 2 = 1 /\ CheckTile(i) = t
        BY Checked
      <4>2. Dead(CheckTile(i))'
        BY <3>4, <4>1 DEF Found
      <4>3. QED BY <4>1, <4>2 DEF CheckTile, CheckColumn
    <3>6. QED BY <3>5
  <2>8. QED BY <1>1, <2>6, <2>7
<1>4. CASE r # 0 /\ rpc[0] \in {"check", "store"}
  <2>1. rpc'[0] = rpc[0] /\ n'[0] = n[0] /\ local'[0] = local[0]
    BY <1>0, <1>4, RouterOthers
  <2>2. rpc[r] \notin {"advance", "tick", "decide"}
    BY <1>4, CheckMeets
  <2>3. CASE rpc[0] = "check"
    <3>1. /\ n[0] \in 0 .. 2 * Cardinality(Tile) - 1
          /\ \A i \in 0 .. n[0] - 1 : i \in 0 .. 2 * Cardinality(Tile) - 1 /\ Found(i)
      BY <1>0, <1>2, <2>3 DEF CheckInv, Found
    <3>2. \A i \in 0 .. n[0] - 1 : Found(i)'
      BY <2>2, <3>1, RouterFound
    <3>3. QED BY <2>1, <2>3, <3>1, <3>2 DEF CheckInv, Found
  <2>4. CASE rpc[0] = "store"
    <3>1. ~local[0] => \A t \in Tile : Dead(t)
      BY <1>0, <1>2, <2>4 DEF CheckInv
    <3>2. ~local[0] => \A t \in Tile : Dead(t)'
      BY <1>0, <2>2, <3>1, RouterIdle DEF Dead
    <3>3. QED BY <2>1, <2>4, <3>2 DEF CheckInv
  <2>5. QED BY <1>4, <2>3, <2>4
<1>5. CASE r = 0 /\ rpc[0] \in {"bar1", "wait1"}
  <2>1. rpc'[0] = "check" /\ n'[0] = 0
    <3>1. n[0] = 0 /\ (rpc'[0] = "check" => n'[0] = n[0]) /\ rpc'[0] # "store"
      BY <1>0, <1>5
         DEF EpochInv, LoopInv, Router, REpoch, RLoop, RScan, RSpin, RMate, RLookActive, RLookQueues, RTick, RDecide,
             RCheck, RStore, RBarriers, RArrive, RWake, At, GoR, AfterBar1, AfterThreads
    <3>2. QED BY <1>1, <3>1
  <2>2. QED BY <1>0, <2>1 DEF CheckInv
<1>6. CASE ~(r = 0 /\ RCheck) /\ ~(r # 0 /\ rpc[0] \in {"check", "store"})
           /\ ~(r = 0 /\ rpc[0] \in {"bar1", "wait1"})
  <2>1. rpc'[0] \notin {"check", "store"}
    <3>1. CASE r # 0
      BY <1>0, <1>6, <3>1, RouterOthers
    <3>2. CASE r = 0
      BY <1>0, <1>6, <3>2
         DEF Router, REpoch, RLoop, RScan, RSpin, RMate, RLookActive, RLookQueues, RAdvance, RTick, RDecide,
             RStore, RBarriers, RArrive, RWake, At, GoR, AfterBar1, AfterThreads
    <3>3. QED BY <3>1, <3>2
  <2>2. QED BY <1>1, <2>1
<1>7. QED BY <1>3, <1>4, <1>5, <1>6

(* Router thread 0 ends the epoch after it found nothing on any tile.      *)
LEMMA RouterSettled ==
  ASSUME EpochInv, NEW r \in Rid, Router(r), ~Opening(r)
  PROVE  Settled'
<1>0. BarrierInv /\ ControlOK /\ Types /\ SnapInv /\ PhaseInv
  BY DEF EpochInv, BarrierInv
<1>1. SUFFICES ASSUME OwnFlags', global_router_active' = 0, NEW t \in Tile
               PROVE  Dead(t)'
  BY DEF Settled
<1>2. OwnFlags
  BY <1>0, <1>1, OwnStays
<1>3. CASE r = 0 /\ RStore
  <2>1. rpc[0] = "store" /\ ~local[0]
    BY <1>1, <1>3 DEF RStore, At
  <2>2. global_router_active = 1
    BY <1>0, <1>3, <2>1 DEF PhaseInv, Types
  <2>3. Dead(t)
    BY <1>2, <2>1, <2>2 DEF EpochInv, CheckInv
  <2>4. QED BY <1>0, <1>3, <2>1, <2>3, RouterIdle DEF Dead
<1>4. CASE ~(r = 0 /\ RStore)
  <2>1. global_router_active = 0
    BY <1>0, <1>1, <1>4, RouterShared
  <2>2. Dead(t) /\ rpc[r] # "advance"
    BY <1>0, <1>2, <2>1 DEF EpochInv, Settled, PhaseInv
  <2>3. QED BY <1>0, <2>2, RouterIdle DEF Dead
<1>5. QED BY <1>3, <1>4
-----------------------------------------------------------------------------
(* With one column of threads a tile's number within its thread is its     *)
(* number, so the flags written at the end of an epoch are the tiles' own. *)
LEMMA OneColumn ==
  ASSUME COLUMNS = 1
  PROVE  /\ Rid = {0}
         /\ \A i \in 0 .. CORES_PER_TH - 1 : WorkerTile(0, i) = i
         /\ \A t \in Tile : ColumnOf(t) = 0 /\ WorkerIndex(t) = t
<1>1. Rid = {0} /\ GRID_X = columns /\ columns \in Nat /\ columns > 0
  BY Sizes DEF Rid
<1>2. ASSUME NEW i \in 0 .. CORES_PER_TH - 1 PROVE WorkerTile(0, i) = i
  <2>1. /\ i \div columns \in Int /\ i % columns \in Int
        /\ i = columns * (i \div columns) + (i % columns)
    BY <1>1, DivMod
  <2>2. PICK q \in Int, m \in Int : q = i \div columns /\ m = i % columns /\ i = columns * q + m
    BY <2>1
  <2>3. WorkerTile(0, i) = (q * columns) + ((0 * columns) + m)
    BY <1>1, <2>2 DEF WorkerTile, global
  <2>4. QED BY <1>1, <2>2, <2>3, Z3
<1>3. ASSUME NEW t \in Tile PROVE ColumnOf(t) = 0 /\ WorkerIndex(t) = t
  BY <1>1, <1>2, WorkerTiles
<1>4. QED BY <1>1, <1>2, <1>3

(* Routers do not touch the flags.                                         *)
LEMMA RouterEnd ==
  ASSUME EpochInv, NEW r \in Rid, Router(r), ~Opening(r)
  PROVE  EndInv'
<1>0. BarrierInv /\ ControlOK /\ Types /\ SnapInv /\ EndInv
  BY DEF EpochInv, BarrierInv
<1>1. SUFFICES ASSUME COLUMNS = 1 PROVE EndInv'
  BY DEF EndInv
<1>2. UNCHANGED <<workerVars, isActive, frontier, epoch_counter>> /\ 0 \in Rid
  BY <1>0, <1>1, RouterOthers, OneColumn
<1>3. wpc[0] = "waitall" /\ waiting'["threads"] # 0 => waiting["threads"] # 0
  BY <1>0, <1>2, RouterShared, WaitersCounted
<1>4. Settling(0)' => Settling(0)
  BY <1>2, <1>3 DEF Settling, workerVars
<1>5. Kernels(0)' = Kernels(0)
  BY <1>2 DEF Kernels, workerVars
<1>6. QED BY <1>0, <1>1, <1>2, <1>4, <1>5 DEF EndInv, workerVars, WorkerIndex

(* A worker marks each of its tiles that has more to do.                   *)
LEMMA WorkerEnd ==
  ASSUME EpochInv, NEW w \in Rid, Worker(w), ~Opening(w)
  PROVE  EndInv'
<1>0. BarrierInv /\ ControlOK /\ Types /\ SnapInv /\ LoopInv /\ EndInv
  BY DEF EpochInv, BarrierInv
<1>1. SUFFICES ASSUME COLUMNS = 1 PROVE EndInv'
  BY DEF EndInv
<1>2. /\ w = 0 /\ 0 \in Rid /\ CORES_PER_TH \in Nat
      /\ \A i \in 0 .. CORES_PER_TH - 1 : WorkerTile(0, i) = i
      /\ \A t \in Tile : WorkerIndex(t) = t /\ t \in 0 .. CORES_PER_TH - 1
  BY <1>1, OneColumn, Areas, WorkerTiles
<1>3. /\ wpc \in [Rid -> WorkerPc] /\ cid \in [Rid -> 0 .. CORES_PER_TH - 1]
      /\ epoch_counter \in Nat /\ isActive \in [Tile -> BOOLEAN]
  BY <1>0 DEF ControlOK, Types
<1>4. ASSUME wpc'[0] # "end", ~Settling(0)' PROVE EndInv'
  BY <1>4 DEF EndInv
<1>5. ASSUME Settling(0), Kernels(0)' => Kernels(0), UNCHANGED <<isActive, frontier>>, wpc'[0] # "end"
      PROVE  EndInv'
  BY <1>0, <1>1, <1>5 DEF EndInv
<1>6. CASE WInit(w) \/ WSkip(w) \/ WRead(w) \/ WFlag(w) \/ WFirst(w) \/ WSecond(w)
  <2>1. wpc'[0] \in VisitPc
    BY <1>2, <1>3, <1>6 DEF WInit, WSkip, WRead, WFlag, WFirst, WSecond, NextCid, GoW, VisitPc
  <2>2. QED BY <1>4, <2>1 DEF Settling, VisitPc
<1>7. CASE WLoop(w)
  <2>1. wpc'[0] \in {"tile", "end"} /\ cid'[0] = 0
    BY <1>0, <1>2, <1>3, <1>7 DEF WLoop, GoW, Is, LoopInv, CidPc
  <2>2. ~Settling(0)' /\ ~(wpc'[0] = "end" /\ \E t \in Tile : WorkerIndex(t)' < cid'[0])
    BY <1>2, <2>1 DEF Settling, WorkerIndex
  <2>3. QED BY <2>2 DEF EndInv
<1>8. CASE WEnd(w)
  <2>1. /\ wpc[0] = "end" /\ UNCHANGED <<frontier, epoch_counter>>
        /\ isActive' = [isActive EXCEPT ![cid[0]] = CidActive(cid[0])]
        /\ \/ wpc'[0] = "end" /\ cid'[0] = cid[0] + 1
           \/ wpc'[0] = "publish" /\ cid[0] + 1 >= CORES_PER_TH
    <3>1. TileNow(0) = cid[0] /\ cid[0] \in 0 .. CORES_PER_TH - 1
      BY <1>2, <1>3 DEF TileNow
    <3>2. wpc[0] = "end" /\ UNCHANGED <<frontier, epoch_counter>>
          /\ isActive' = [isActive EXCEPT ![cid[0]] = CidActive(cid[0])]
      BY <1>2, <1>8, <3>1 DEF WEnd, EndFlags, tileVars, shared, Is
    <3>3. \/ wpc'[0] = "end" /\ cid'[0] = cid[0] + 1
          \/ wpc'[0] = "publish" /\ ~(cid[0] + 1 < CORES_PER_TH)
      BY <1>2, <1>3, <1>8 DEF WEnd, NextCid, GoW
    <3>4. QED BY <1>2, <3>1, <3>2, <3>3
  <2>2. ASSUME NEW t \in Tile, frontier[t] \/ epoch_counter < num_kernels, t <= cid[0]
        PROVE  isActive'[t]
    <3>1. CASE t = cid[0]
      <4>1. isActive'[t] = CidActive(t)
        BY <1>3, <2>1, <3>1
      <4>2. CidActive(t)
        BY <2>2 DEF CidActive
      <4>3. QED BY <4>1, <4>2
    <3>2. CASE t # cid[0]
      <4>1. WorkerIndex(t) < cid[0]
        BY <1>2, <1>3, <2>2, <3>2
      <4>2. isActive[t]
        BY <1>0, <1>1, <2>1, <2>2, <4>1 DEF EndInv, Kernels
      <4>3. QED BY <1>3, <2>1, <3>2, <4>2
    <3>3. QED BY <3>1, <3>2
  <2>3. ASSUME NEW t \in Tile, Settling(0)' \/ (wpc'[0] = "end" /\ WorkerIndex(t)' < cid'[0])
        PROVE  t <= cid[0]
    <3>1. t \in 0 .. CORES_PER_TH - 1 /\ WorkerIndex(t)' = t /\ cid[0] \in Nat
      BY <1>2, <1>3 DEF WorkerIndex
    <3>2. CASE wpc'[0] = "end"
      BY <2>1, <2>3, <3>1, <3>2 DEF Settling
    <3>3. CASE wpc'[0] = "publish"
      BY <1>2, <2>1, <3>1, <3>3
    <3>4. QED BY <2>1, <3>2, <3>3
  <2>4. Kernels(0)' => epoch_counter < num_kernels
    BY <2>1 DEF Kernels
  <2>5. QED BY <2>1, <2>2, <2>3, <2>4 DEF EndInv
<1>9. CASE WPublish(w) \/ WArrive(w, "all2", "threads2", "waitall2", "decide")
           \/ WWake(w, "waitall2", "threads2", "decide")
  <2>1. /\ wpc[0] \in {"publish", "all2", "waitall2"} /\ wpc'[0] \in {"all2", "waitall2", "decide"}
        /\ UNCHANGED <<isActive, frontier, epoch_counter>>
    BY <1>2, <1>3, <1>9 DEF WPublish, WArrive, WWake, Is, GoW, shared, flags, tileVars
  <2>2. QED BY <1>5, <2>1 DEF Settling, Kernels
<1>10. CASE WDecide(w)
  <2>1. /\ wpc[0] = "decide" /\ wpc'[0] = "all" /\ UNCHANGED <<isActive, frontier>>
        /\ epoch_counter' = IF epoch_counter <= num_kernels THEN epoch_counter + 1 ELSE epoch_counter
    BY <1>2, <1>3, <1>10 DEF WDecide, Is, GoW, flags
  <2>2. Kernels(0)' => Kernels(0)
    <3>1. (Kernels(0)' <=> epoch_counter' <= num_kernels) /\ (Kernels(0) <=> epoch_counter < num_kernels)
      BY <2>1 DEF Kernels
    <3>2. QED BY <1>3, <2>1, <3>1, WorkAssumption
  <2>3. QED BY <1>5, <2>1, <2>2 DEF Settling
<1>11. CASE WArrive(w, "all", "threads", "waitall", WAfterThreads(w))
  <2>1. /\ wpc[0] = "all" /\ wpc'[0] = "waitall" /\ UNCHANGED <<isActive, frontier, epoch_counter>>
    BY <1>2, <1>3, <1>11 DEF WArrive, Is, GoW, Opening, flags, tileVars
  <2>2. QED BY <1>5, <2>1 DEF Settling, Kernels
<1>12. CASE WWake(w, "waitall", "threads", WAfterThreads(w))
  <2>1. wpc'[0] \in {"init", "done"}
    BY <1>2, <1>3, <1>12 DEF WWake, WAfterThreads, GoW
  <2>2. QED BY <1>4, <2>1 DEF Settling
<1>13. QED
  BY <1>6, <1>7, <1>8, <1>9, <1>10, <1>11, <1>12 DEF Worker, WBarriers
-----------------------------------------------------------------------------
(* What the workers found when they looked for more work.                  *)
LEMMA FinalStays ==
  ASSUME Types, NEW t \in Tile, CidActive(t)', frontier'[t] => frontier[t],
         epoch_counter' = epoch_counter \/ epoch_counter' = epoch_counter + 1
  PROVE  CidActive(t)
<1>1. epoch_counter \in Nat /\ num_kernels \in Nat
  BY WorkAssumption DEF Types
<1>2. epoch_counter' < num_kernels => epoch_counter < num_kernels
  BY <1>1
<1>3. QED BY <1>2 DEF CidActive

(* No thread enters or leaves the end of an epoch by a step of another.    *)
LEMMA SettlingStays ==
  ASSUME BarrierInv, NEW r \in Rid, Router(r) \/ Worker(r), ~Opening(r),
         NEW q \in Rid, wpc'[q] = wpc[q], Settling(q)'
  PROVE  Settling(q)
<1>1. CASE wpc[q] = "waitall"
  <2>1. waiting'["threads"] # 0
    BY <1>1 DEF Settling
  <2>2. waiting["threads"] # 0
    BY <1>1, <2>1, RouterShared, WorkerShared, WaitersCounted
  <2>3. QED BY <1>1, <2>2 DEF Settling
<1>2. CASE wpc[q] # "waitall"
  BY <1>2 DEF Settling
<1>3. QED BY <1>1, <1>2

(* When the threads start an epoch, or stop, they have all looked.         *)
LEMMA OpensWork ==
  ASSUME EpochInv, NEW r \in Rid, Opening(r)
  PROVE  WorkInv' /\ DoneInv'
<1>0. BarrierInv /\ Types /\ PhaseInv /\ DecisionInv /\ WorkInv /\ Settled /\ 0 \in Rid
  BY Sizes DEF EpochInv, Rid
<1>1. /\ waiting'["threads"] = 0 /\ UNCHANGED <<epoch_counter, epoch_has_work, wongoing, frontier, iq, oq, net>>
      /\ \A q \in Rid : wpc[q] \in {"all", "waitall"} /\ wpc'[q] \in {"init", "waitall", "done"}
  BY <1>0, Opens DEF Opening, flags, tileVars
<1>2. WorkInv'
  BY <1>1 DEF WorkInv, Settling
<1>3. ThreadsMeet
  BY <1>0, AtThreads DEF Opening, RArrive, WArrive, At, Is
<1>4. SUFFICES ASSUME Ended'
               PROVE  /\ epoch_counter > num_kernels /\ \A t \in Tile : ~frontier[t]
                      /\ OwnFlags => \A t \in Tile : ~QueuesBusy(t)
  <2>1. /\ (epoch_counter > num_kernels)' = (epoch_counter > num_kernels) /\ frontier' = frontier
        /\ OwnFlags' = OwnFlags /\ \A t \in Tile : QueuesBusy(t)' = QueuesBusy(t)
    BY <1>1 DEF OwnFlags, QueuesBusy
  <2>2. QED BY <1>2, <2>1 DEF DoneInv
<1>5. \A q \in Rid : ~epoch_has_work[q]
  <2>1. \A q \in Rid : ~wongoing[q] /\ wongoing[q] = AnyWork
    BY <1>0, <1>1, <1>3, <1>4 DEF Ended, DecisionInv
  <2>2. QED BY <1>0, <2>1 DEF AnyWork
<1>6. \A q \in Rid : Settling(q) /\ wpc[q] # "publish"
  BY <1>1, <1>3, WaitersCounted DEF Settling
<1>7. epoch_counter > num_kernels /\ \A q \in Rid : Final(q, CORES_PER_TH)
  BY <1>0, <1>1, <1>5, <1>6 DEF WorkInv
<1>8. ASSUME NEW t \in Tile PROVE ~frontier[t]
  <2>1. ColumnOf(t) \in Rid /\ WorkerIndex(t) < CORES_PER_TH
    BY WorkerTiles, Areas
  <2>2. QED BY <1>7, <2>1 DEF Final, CidActive
<1>9. ASSUME OwnFlags, NEW t \in Tile PROVE ~QueuesBusy(t)
  <2>1. global_router_active = 0
    BY <1>0, <1>1 DEF PhaseInv, Types, Opening, RArrive, WArrive, At, Is, VisitPc
  <2>2. Dead(t) /\ \A k \in Kind : iq[t][k] \in Nat
    BY <1>0, <1>9, <2>1 DEF Settled, Types
  <2>3. QED BY <2>2 DEF Dead, Idle, Queued, QueuesBusy
<1>10. QED BY <1>7, <1>8, <1>9

(* Routers do not change what the workers found.                           *)
LEMMA RouterWork ==
  ASSUME EpochInv, NEW r \in Rid, Router(r), ~Opening(r)
  PROVE  WorkInv'
<1>0. BarrierInv /\ ControlOK /\ Types /\ SnapInv /\ WorkInv
  BY DEF EpochInv, BarrierInv
<1>1. UNCHANGED <<workerVars, epoch_has_work, frontier, epoch_counter>>
  BY <1>0, RouterOthers
<1>2. \A w \in Rid : Settling(w)' => Settling(w)
  BY <1>0, <1>1, SettlingStays DEF workerVars
<1>3. QED BY <1>0, <1>1, <1>2 DEF WorkInv, Final, CidActive, workerVars, ColumnOf, WorkerIndex

(* A worker that publishes that nothing is left has looked at all its      *)
(* tiles, and no frontier grows while the threads settle.                  *)
LEMMA WorkerWork ==
  ASSUME EpochInv, NEW w \in Rid, Worker(w), ~Opening(w)
  PROVE  WorkInv'
<1> DEFINE V(q) == /\ wpc[q] = "end" /\ ~any[q] => Final(q, cid[q])
                   /\ wpc[q] = "publish" /\ ~any[q] => Final(q, CORES_PER_TH)
                   /\ Settling(q) /\ wpc[q] # "publish" /\ ~epoch_has_work[q] =>
                        /\ Final(q, CORES_PER_TH)
                        /\ q = 0 /\ wpc[0] \in {"all", "waitall"} => epoch_counter > num_kernels
<1>0. /\ BarrierInv /\ ControlOK /\ Types /\ WorkInv /\ LoopInv
      /\ wpc \in [Rid -> WorkerPc] /\ cid \in [Rid -> 0 .. CORES_PER_TH - 1]
      /\ any \in [Rid -> BOOLEAN] /\ epoch_has_work \in [Rid -> BOOLEAN]
      /\ epoch_counter \in Nat /\ num_kernels \in Nat /\ CORES_PER_TH \in Nat /\ CORES_PER_TH > 0
  BY Areas, WorkAssumption DEF EpochInv, BarrierInv, ControlOK, Types
<1>1. V(w) /\ \A q \in Rid : V(q)
  BY <1>0 DEF WorkInv
<1>2. epoch_counter' = epoch_counter \/ epoch_counter' = epoch_counter + 1
  BY DEF Worker, WInit, WLoop, WSkip, WRead, WFlag, WFirst, WSecond, WEnd, WPublish, WDecide,
     WBarriers, WArrive, WWake, shared
<1>3. ASSUME NEW q \in Rid, q # w PROVE V(q)'
  <2>1. /\ wpc'[q] = wpc[q] /\ any'[q] = any[q] /\ cid'[q] = cid[q]
        /\ \A t \in Tile : ColumnOf(t) = q => frontier'[t] = frontier[t]
    BY <1>0, <1>3, WorkerOthers, TileNowIsTile
  <2>2. epoch_has_work'[q] = epoch_has_work[q]
    <3>1. UNCHANGED epoch_has_work \/ epoch_has_work' = [epoch_has_work EXCEPT ![w] = any[w]]
      BY DEF Worker, WInit, WLoop, WSkip, WRead, WFlag, WFirst, WSecond, WEnd, WPublish, WDecide,
         WBarriers, WArrive, WWake, flags
    <3>2. QED BY <1>0, <1>3, <3>1
  <2>3. Settling(q)' => Settling(q)
    BY <1>0, <2>1, SettlingStays
  <2>4. \A t \in Tile : ColumnOf(t) = q /\ ~CidActive(t) => ~CidActive(t)'
    BY <1>0, <1>2, <2>1, FinalStays
  <2>5. q = 0 /\ wpc'[0] \in {"all", "waitall"} /\ epoch_counter > num_kernels => epoch_counter' > num_kernels
    BY <1>0, <1>2
  <2>6. V(q)
    BY <1>1
  <2>7. QED
    BY <2>1, <2>2, <2>3, <2>4, <2>5, <2>6 DEF Final, ColumnOf, WorkerIndex, CORES_PER_TH, columns
<1>4. SUFFICES V(w)'
  BY <1>3 DEF WorkInv
<1>5. ASSUME NEW t \in Tile, UNCHANGED frontier, ~CidActive(t) PROVE ~CidActive(t)'
  BY <1>0, <1>2, <1>5, FinalStays
<1>6. CASE \/ WInit(w) \/ WSkip(w) \/ WRead(w) \/ WFlag(w) \/ WFirst(w) \/ WSecond(w)
           \/ WWake(w, "waitall", "threads", WAfterThreads(w))
  <2>1. wpc'[w] \in VisitPc \union {"done"}
    BY <1>0, <1>6
       DEF WInit, WSkip, WRead, WFlag, WFirst, WSecond, WWake, WAfterThreads, NextCid, GoW, VisitPc
  <2>2. QED BY <2>1 DEF Settling, VisitPc
<1>7. CASE WLoop(w)
  <2>1. wpc'[w] \in {"tile", "end"} /\ cid'[w] = 0
    BY <1>0, <1>7 DEF WLoop, GoW, Is, LoopInv, CidPc
  <2>2. \A t \in Tile : ~(WorkerIndex(t) < 0)
    BY WorkerTiles
  <2>3. QED BY <2>1, <2>2 DEF Settling, Final, WorkerIndex
<1>8. CASE WEnd(w)
  <2>1. PICK c \in 0 .. CORES_PER_TH - 1, d \in Tile :
          c = cid[w] /\ d = TileNow(w) /\ ColumnOf(d) = w /\ WorkerIndex(d) = c
    BY <1>0, TileNowIsTile
  <2>2. /\ wpc[w] = "end" /\ UNCHANGED <<frontier, epoch_counter>>
        /\ ~any'[w] => ~any[w] /\ ~CidActive(d)
    <3>1. any'[w] = (any[w] \/ CidActive(d))
      BY <1>0, <1>8, <2>1 DEF WEnd
    <3>2. ~any'[w] => ~any[w] /\ ~CidActive(d)
      BY <3>1, Zenon
    <3>3. QED BY <1>8, <3>2 DEF WEnd, Is, tileVars, shared
  <2>3. \/ wpc'[w] = "end" /\ cid'[w] = c + 1
        \/ wpc'[w] = "publish" /\ ~(c + 1 < CORES_PER_TH)
    BY <1>0, <1>8, <2>1 DEF WEnd, NextCid, GoW
  <2>4. ASSUME ~any'[w], NEW t \in Tile, ColumnOf(t) = w, WorkerIndex(t) < c + 1
        PROVE  ~CidActive(t)
    <3>1. WorkerIndex(t) \in Nat /\ WorkerTile(w, WorkerIndex(t)) = t
      BY <2>4, WorkerTiles
    <3>2. CASE WorkerIndex(t) = c
      BY <2>1, <2>2, <2>4, <3>1, <3>2, WorkerTiles
    <3>3. CASE WorkerIndex(t) # c
      <4>1. WorkerIndex(t) < c
        BY <2>4, <3>1, <3>3
      <4>2. QED BY <1>1, <2>1, <2>2, <2>4, <4>1 DEF Final
    <3>4. QED BY <3>2, <3>3
  <2>5. ASSUME ~any'[w], NEW t \in Tile, ColumnOf(t) = w, WorkerIndex(t) < c + 1
        PROVE  ~CidActive(t)'
    BY <1>5, <2>2, <2>4, <2>5
  <2>6. CASE wpc'[w] = "end" /\ cid'[w] = c + 1
    BY <2>5, <2>6 DEF Settling, Final, ColumnOf, WorkerIndex
  <2>7. CASE wpc'[w] = "publish" /\ ~(c + 1 < CORES_PER_TH)
    <3>1. \A t \in Tile : WorkerIndex(t) \in 0 .. CORES_PER_TH - 1
      BY WorkerTiles
    <3>2. \A t \in Tile : WorkerIndex(t) < c + 1
      BY <1>0, <2>7, <3>1
    <3>3. QED BY <2>5, <2>7, <3>2 DEF Settling, Final, ColumnOf
  <2>8. QED BY <2>3, <2>6, <2>7
<1>9. ASSUME UNCHANGED <<frontier, epoch_counter>>, ~epoch_has_work'[w], Final(w, CORES_PER_TH),
             wpc'[w] \in {"all2", "waitall2", "decide"}
      PROVE  V(w)'
  <2>1. \A t \in Tile : CidActive(t)' = CidActive(t)
    BY <1>9 DEF CidActive
  <2>2. QED BY <1>9, <2>1 DEF Final, ColumnOf, WorkerIndex, CORES_PER_TH, columns
<1>10. ASSUME wpc'[w] \notin {"end", "publish"}, epoch_has_work'[w] PROVE V(w)'
  BY <1>10
<1>11. CASE WPublish(w)
  <2>1. /\ wpc[w] = "publish" /\ wpc'[w] = "all2" /\ UNCHANGED <<frontier, epoch_counter>>
        /\ epoch_has_work'[w] = any[w]
    BY <1>0, <1>11 DEF WPublish, Is, GoW, shared, tileVars
  <2>2. CASE any[w]
    BY <1>10, <2>1, <2>2
  <2>3. CASE ~any[w]
    BY <1>1, <1>9, <2>1, <2>3
  <2>4. QED BY <2>2, <2>3
<1>12. CASE WArrive(w, "all2", "threads2", "waitall2", "decide") \/ WWake(w, "waitall2", "threads2", "decide")
  <2>1. /\ wpc[w] \in {"all2", "waitall2"} /\ wpc'[w] \in {"waitall2", "decide"}
        /\ UNCHANGED <<frontier, epoch_counter, epoch_has_work>>
    BY <1>0, <1>12 DEF WArrive, WWake, Is, GoW, shared, flags, tileVars
  <2>2. CASE epoch_has_work[w]
    BY <1>10, <2>1, <2>2
  <2>3. CASE ~epoch_has_work[w]
    BY <1>1, <1>9, <2>1, <2>3 DEF Settling
  <2>4. QED BY <2>2, <2>3
<1>13. CASE WDecide(w)
  <2>1. /\ wpc[w] = "decide" /\ wpc'[w] = "all" /\ UNCHANGED <<frontier, epoch_has_work>>
        /\ epoch_counter' = IF w = 0 /\ epoch_counter <= num_kernels THEN epoch_counter + 1
                            ELSE epoch_counter
    BY <1>0, <1>13 DEF WDecide, Is, GoW, flags
  <2>2. CASE epoch_has_work[w]
    BY <1>10, <2>1, <2>2
  <2>3. CASE ~epoch_has_work[w]
    <3>1. Final(w, CORES_PER_TH)
      BY <1>1, <2>1, <2>3 DEF Settling
    <3>2. \A t \in Tile : ColumnOf(t) = w /\ WorkerIndex(t) < CORES_PER_TH => ~CidActive(t)'
      BY <1>5, <2>1, <3>1 DEF Final
    <3>3. epoch_counter >= num_kernels
      <4>1. PICK t \in Tile : t = WorkerTile(w, 0) /\ ColumnOf(t) = w /\ WorkerIndex(t) = 0
        BY <1>0, WorkerTiles
      <4>2. QED BY <1>0, <3>1, <4>1 DEF Final, CidActive
    <3>4. w = 0 => epoch_counter' > num_kernels
      BY <1>0, <2>1, <3>3
    <3>5. QED BY <2>1, <3>2, <3>4 DEF Final, ColumnOf, WorkerIndex, CORES_PER_TH, columns
  <2>4. QED BY <2>2, <2>3
<1>14. CASE WArrive(w, "all", "threads", "waitall", WAfterThreads(w))
  <2>1. /\ wpc[w] = "all" /\ wpc'[w] = "waitall" /\ UNCHANGED <<frontier, epoch_counter, epoch_has_work>>
    BY <1>0, <1>14 DEF WArrive, Is, GoW, Opening, flags, tileVars
  <2>2. CASE epoch_has_work[w]
    BY <1>10, <2>1, <2>2
  <2>3. CASE ~epoch_has_work[w]
    <3>1. Final(w, CORES_PER_TH) /\ (w = 0 => epoch_counter > num_kernels)
      BY <1>1, <2>1, <2>3 DEF Settling
    <3>2. \A t \in Tile : CidActive(t)' = CidActive(t)
      BY <2>1 DEF CidActive
    <3>3. QED BY <2>1, <3>1, <3>2 DEF Final, ColumnOf, WorkerIndex, CORES_PER_TH, columns
  <2>4. QED BY <2>2, <2>3
<1>15. QED
  BY <1>6, <1>7, <1>8, <1>11, <1>12, <1>13, <1>14 DEF Worker, WBarriers

(* Once the threads have ended, they only leave the last barrier.          *)
LEMMA DoneStays ==
  ASSUME EpochInv, BarrierInv', NEW r \in Rid, Router(r) \/ Worker(r), ~Opening(r)
  PROVE  DoneInv'
<1>0. /\ BarrierInv /\ ControlOK /\ Types /\ SnapInv /\ DoneInv
      /\ rpc \in [Rid -> RouterPc] /\ wpc \in [Rid -> WorkerPc] /\ waiting \in [Barrier -> Int]
      /\ epoch_counter \in Nat
  BY DEF EpochInv, BarrierInv, ControlOK, Types
<1>1. SUFFICES ASSUME ThreadsFree', Ended'
               PROVE  /\ epoch_counter' > num_kernels /\ \A t \in Tile : ~frontier'[t]
                      /\ OwnFlags' => \A t \in Tile : ~QueuesBusy(t)'
  BY DEF DoneInv
<1>2. waiting'["threads"] = 0
  BY <1>1 DEF ThreadsFree
<1>3. waiting["threads"] = 0
  BY <1>0, <1>2, RouterShared, WorkerShared
<1>4. ASSUME RWake(r, "waitall", "threads", AfterThreads(r)) \/ WWake(r, "waitall", "threads", WAfterThreads(r))
      PROVE  /\ epoch_counter' > num_kernels /\ \A t \in Tile : ~frontier'[t]
             /\ OwnFlags' => \A t \in Tile : ~QueuesBusy(t)'
  <2>1. ThreadsFree
    <3>1. rpc[r] = "waitall" \/ wpc[r] = "waitall"
      BY <1>4 DEF RWake, WWake, At, Is
    <3>2. ~ThreadsMeet
      BY <1>3, <3>1, WaitersCounted
    <3>3. QED BY <1>0, <3>2 DEF BarrierInv
  <2>2. /\ UNCHANGED <<rongoing, wongoing, epoch_counter, frontier, iq, oq, net>>
        /\ \A q \in Rid : /\ rpc[q] = rpc'[q] \/ rpc[q] = "waitall"
                          /\ wpc[q] = wpc'[q] \/ wpc[q] = "waitall"
    BY <1>0, <1>4 DEF RWake, WWake, At, Is, GoR, GoW, shared, tileVars, routerVars, workerVars
  <2>3. Ended
    BY <1>1, <2>2 DEF Ended
  <2>4. QED BY <1>0, <2>1, <2>2, <2>3 DEF DoneInv, OwnFlags, QueuesBusy
<1>5. CASE Router(r)
  <2>1. rpc'[r] \in {"waitall", "done"}
    BY <1>1 DEF Ended
  <2>2. \/ RWake(r, "waitall", "threads", AfterThreads(r))
        \/ RArrive(r, "all", "threads", 2 * COLUMNS, "waitall", AfterThreads(r))
    BY <1>0, <1>5, <2>1
       DEF Router, REpoch, RLoop, RScan, RSpin, RMate, RLookActive, RLookQueues, RAdvance, RTick, RDecide,
           RCheck, RStore, RBarriers, RArrive, RWake, At, GoR, AfterBar1
  <2>3. CASE RArrive(r, "all", "threads", 2 * COLUMNS, "waitall", AfterThreads(r))
    <3>1. ~IsLast("threads", 2 * COLUMNS)
      BY <2>3 DEF Opening
    <3>2. waiting'["threads"] = waiting["threads"] + 1
      BY <1>0, <2>3, <3>1 DEF RArrive, Arrive, IsLast, Barrier
    <3>3. QED BY <1>2, <1>3, <3>2
  <2>4. QED BY <1>4, <2>2, <2>3
<1>6. CASE Worker(r)
  <2>1. wpc'[r] \in {"waitall", "done"}
    BY <1>1 DEF Ended
  <2>2. \/ WWake(r, "waitall", "threads", WAfterThreads(r))
        \/ WArrive(r, "all", "threads", "waitall", WAfterThreads(r))
    BY <1>0, <1>6, <2>1
       DEF Worker, WInit, WLoop, WSkip, WRead, WFlag, WFirst, WSecond, WEnd, WPublish, WDecide,
           WBarriers, WArrive, WWake, NextCid, GoW
  <2>3. CASE WArrive(r, "all", "threads", "waitall", WAfterThreads(r))
    <3>1. ~IsLast("threads", 2 * COLUMNS)
      BY <2>3 DEF Opening
    <3>2. waiting'["threads"] = waiting["threads"] + 1
      BY <1>0, <2>3, <3>1 DEF WArrive, Arrive, IsLast, Barrier
    <3>3. QED BY <1>2, <1>3, <3>2
  <2>4. QED BY <1>4, <2>2, <2>3
<1>7. QED BY <1>5, <1>6
-----------------------------------------------------------------------------
(* The invariant holds when the simulation starts.                         *)
LEMMA InitEpochInv == Init => EpochInv
<1> SUFFICES ASSUME Init PROVE EpochInv
  OBVIOUS
<1>0. BarrierInv /\ Types /\ 0 \in Rid
  BY InitBarrierInv, InitTypes, Sizes DEF Rid
<1>1. /\ \A q \in Rid : /\ rpc[q] = "epoch" /\ wpc[q] = "init" /\ cid[q] = 0 /\ snap[q] = {} /\ local[q]
                        /\ column_active[q] /\ rongoing[q] /\ wongoing[q]
      /\ global_router_active = 1
  BY DEF Init
<1>2. \A t \in Tile : isActive[t] /\ ColumnOf(t) \in Rid
  BY WorkerTiles DEF Init
<1>3. PhaseInv /\ LoopInv /\ DecisionInv /\ HandInv
  BY <1>0, <1>1, FreeOrMeet
     DEF PhaseInv, LoopInv, CidPc, DecisionInv, Running, HandInv, VisitPc, ThreadsMeet, SettlePc
<1>4. SnapInv /\ Settled
  BY <1>0, <1>1 DEF SnapInv, Settled
<1>5. FlagInv /\ EndInv
  BY <1>2 DEF FlagInv, EndInv
<1>6. CleanInv
  <2>1. ASSUME NEW t \in Tile PROVE ~SeenClean(t)
    BY <1>1, <1>2 DEF SeenClean
  <2>2. QED BY <2>1 DEF CleanInv
<1>7. CheckInv /\ WorkInv /\ DoneInv
  BY <1>0, <1>1 DEF CheckInv, WorkInv, DoneInv, Settling, Ended
<1>8. QED BY <1>0, <1>3, <1>4, <1>5, <1>6, <1>7 DEF EpochInv

(* Every step of every thread keeps the invariant.                         *)
LEMMA NextEpochInv == EpochInv /\ [Next]_vars => EpochInv'
<1> SUFFICES ASSUME EpochInv, [Next]_vars PROVE EpochInv'
  OBVIOUS
<1>1. BarrierInv'
  BY NextBarrierInv DEF EpochInv
<1>2. /\ BarrierInv /\ ControlOK /\ Types /\ SnapInv /\ HandInv /\ LoopInv /\ PhaseInv /\ DecisionInv
  BY DEF EpochInv, BarrierInv
<1>3. ASSUME NEW r \in Rid, Router(r) PROVE EpochInv'
  <2>1. Types' /\ PhaseInv' /\ LoopInv' /\ DecisionInv' /\ HandInv' /\ SnapInv'
    BY <1>1, <1>2, <1>3, RouterTypes, RouterPhase, RouterLoop, RouterDecision, RouterHand, RouterSnap
  <2>2. CASE Opening(r)
    BY <1>1, <2>1, <2>2, OpensFlag, OpensClean, OpensRest, OpensWork DEF EpochInv
  <2>3. CASE ~Opening(r)
    <3>1. FlagInv' /\ CleanInv' /\ CheckInv' /\ Settled'
      BY <1>3, <2>3, RouterFlags, RouterClean, RouterCheck, RouterSettled
    <3>2. EndInv' /\ WorkInv' /\ DoneInv'
      BY <1>1, <1>3, <2>3, RouterEnd, RouterWork, DoneStays
    <3>3. QED BY <1>1, <2>1, <3>1, <3>2 DEF EpochInv
  <2>4. QED BY <2>2, <2>3
<1>4. ASSUME NEW w \in Rid, Worker(w) PROVE EpochInv'
  <2>1. Types' /\ PhaseInv' /\ LoopInv' /\ DecisionInv' /\ HandInv' /\ SnapInv'
    BY <1>1, <1>2, <1>4, WorkerTypes, WorkerPhase, WorkerLoop, WorkerDecision, WorkerHand, WorkerSnap
  <2>2. CASE Opening(w)
    BY <1>1, <2>1, <2>2, OpensFlag, OpensClean, OpensRest, OpensWork DEF EpochInv
  <2>3. CASE ~Opening(w)
    <3>1. FlagInv' /\ CleanInv' /\ CheckInv' /\ Settled'
      BY <1>4, <2>3, WorkerFlags, WorkerClean, WorkerCheck
    <3>2. EndInv' /\ WorkInv' /\ DoneInv'
      BY <1>1, <1>4, <2>3, WorkerEnd, WorkerWork, DoneStays
    <3>3. QED BY <1>1, <2>1, <3>1, <3>2 DEF EpochInv
  <2>4. QED BY <2>2, <2>3
<1>5. CASE UNCHANGED vars
  <2> USE <1>5 DEF vars, shared, flags, tileVars, routerVars, workerVars
  <2>1. Types' /\ PhaseInv' /\ LoopInv' /\ HandInv' /\ SnapInv'
    BY <1>2 DEF Types, PhaseInv, LoopInv, HandInv, SnapInv, Pending, TileNow
  <2>2. DecisionInv'
    BY <1>2 DEF DecisionInv, ThreadsFree, ThreadsMeet, Ended, Running, AnyWork, Routers, Workers, Threads
  <2>3. FlagInv'
    BY DEF EpochInv, FlagInv, OwnFlags, Live, Woken, InHand, TileNow, Pending, Unstarted
  <2>4. CleanInv'
    BY DEF EpochInv, CleanInv, OwnFlags, SeenClean, Clean, Queued, TileNow
  <2>5. \A t : Idle(t) <=> Idle(t)'
    BY DEF Idle, Queued, Live, Woken, InHand, TileNow, Pending, Unstarted
  <2>6. \A t : Dead(t) <=> Dead(t)'
    BY <2>5 DEF Dead
  <2>7. Settled' /\ CheckInv'
    BY <2>5, <2>6 DEF EpochInv, Settled, CheckInv, OwnFlags, CheckTile, CheckColumn
  <2>8. EndInv' /\ WorkInv'
    BY DEF EpochInv, EndInv, WorkInv, Settling, Kernels, Final, CidActive
  <2>9. DoneInv'
    BY DEF EpochInv, DoneInv, ThreadsFree, Ended, OwnFlags, QueuesBusy, Workers, Routers, Threads
  <2>10. QED BY <1>1, <2>1, <2>2, <2>3, <2>4, <2>7, <2>8, <2>9 DEF EpochInv
<1>6. QED BY <1>3, <1>4, <1>5 DEF Next, Terminating

(* EpochInv holds in every reachable state of the simulation.              *)
THEOREM EpochInvariance == Spec => []EpochInv
<1>1. QED BY InitEpochInv, NextEpochInv, PTL DEF Spec

(* Router thread 0 clears global_router_active (router_thread.h:208) only  *)
(* when no message is left and no task under way, although it reads flags  *)
(* and queues one by one while the workers run: under OwnFlags.            *)
LEMMA QuiescentWhenEnded == EpochInv /\ OwnFlags => EpochEndsQuiescent
<1> SUFFICES ASSUME EpochInv, OwnFlags, global_router_active = 0 PROVE Quiescent
  BY DEF EpochEndsQuiescent
<1>1. \A t \in Tile : Dead(t)
  BY DEF EpochInv, Settled
<1>2. ASSUME NEW t \in Tile PROVE ~QueuesBusy(t)
  <2>1. \A k \in Kind : iq[t][k] \in Nat
    BY DEF EpochInv, Types
  <2>2. QED BY <1>1, <2>1 DEF Dead, Idle, Queued, QueuesBusy
<1>3. ASSUME NEW w \in Rid PROVE ~(wpc[w] \in {"first", "second"} /\ next[w] # 0)
  <2>1. PICK t \in Tile : t = TileNow(w) /\ ColumnOf(t) = w
    BY TileNowIsTile DEF EpochInv
  <2>2. ~InHand(t)
    BY <1>1 DEF Dead, Idle
  <2>3. QED BY <2>1, <2>2 DEF InHand
<1>4. QED BY <1>2, <1>3 DEF Quiescent

(* No epoch that starts a kernel ends before every worker has run          *)
(* task_init() on all its tiles (tsu_core_thread.h:92), under OwnFlags.    *)
LEMMA StartedWhenEnded == EpochInv /\ OwnFlags => KernelStarted
<1> SUFFICES ASSUME EpochInv, OwnFlags, global_router_active = 0, epoch_counter <= num_kernels, NEW w \in Rid,
                    wpc[w] = "init"
             PROVE  FALSE
  BY DEF KernelStarted, Is
<1>1. PICK t \in Tile : t = TileNow(w) /\ ColumnOf(t) = w /\ WorkerIndex(t) = cid[w]
  BY TileNowIsTile DEF EpochInv
<1>2. ~Unstarted(t)
  BY DEF EpochInv, Settled, Dead, Idle
<1>3. cid[w] \in Nat
  BY Areas DEF EpochInv, Types
<1>4. QED BY <1>1, <1>2, <1>3 DEF Unstarted

(* While the workers mark their own tiles, an epoch ends neither with work *)
(* left (router_thread.h:208) nor before every worker has run task_init()  *)
(* on its tiles (tsu_core_thread.h:92).                                    *)
THEOREM EpochsEndInOrder == Spec => []EpochEndsInOrder
<1>1. EpochInv => EpochEndsInOrder
  BY QuiescentWhenEnded, StartedWhenEnded DEF EpochEndsInOrder
<1>2. QED BY <1>1, EpochInvariance, PTL

(* When a thread stops, all of them have decided to.                       *)
LEMMA StoppedThreads ==
  ASSUME EpochInv, NEW r \in Rid, rpc[r] = "done" \/ wpc[r] = "done"
  PROVE  ThreadsFree /\ Ended
<1>1. ThreadsFree
  BY DEF EpochInv, BarrierInv, ThreadsMeet, SettlePc
<1>2. QED BY <1>1 DEF EpochInv, DecisionInv, Running

(* The threads never stop before the last kernel was counted and every     *)
(* frontier is empty (tsu_core_thread.h:278), whatever the flags are; and  *)
(* while the workers mark their own tiles no message and no task is left.  *)
THEOREM WorkIsCompleted == Spec => []WorkCompleted
<1>1. ASSUME EpochInv, NEW r \in Rid, At(r, "done") \/ Is(r, "done")
      PROVE  /\ epoch_counter > num_kernels /\ \A t \in Tile : ~frontier[t]
             /\ OwnFlags => Quiescent
  <2>1. ThreadsFree /\ Ended
    BY <1>1, StoppedThreads DEF At, Is
  <2>2. /\ epoch_counter > num_kernels /\ \A t \in Tile : ~frontier[t]
        /\ OwnFlags => \A t \in Tile : ~QueuesBusy(t)
    BY <1>1, <2>1 DEF EpochInv, DoneInv
  <2>3. QED BY <2>1, <2>2 DEF Quiescent, Ended
<1>2. EpochInv => WorkCompleted
  BY <1>1 DEF WorkCompleted
<1>3. QED BY <1>2, EpochInvariance, PTL

-----------------------------------------------------------------------------
(***************************************************************************)
(* Proof that with one column of threads no tile falls back by more cycles *)
(* than there are other tiles, although the router waits for one of them   *)
(* only, and that one was the slowest before the others went on.           *)
(***************************************************************************)

(* The tiles that are j cycles behind, or more.                            *)
Behind(j) == {t \in Tile : lead[t] <= -j}

Timers == /\ lead \in [Tile -> Int] /\ router_timer \in [Rid -> Int]
          /\ tileid_min \in [Rid -> Tile] /\ min_lead \in [Rid -> Int]
          /\ min_lead[0] \in -(CORES_PER_TH - 1) .. 0

(* The farther behind, the fewer tiles; one fewer yet when the router is   *)
(* about to go on; and when it has found a tile, without that one for all  *)
(* the tile was behind.                                                    *)
Few    == \A j \in 0 .. CORES_PER_TH : Cardinality(Behind(j)) <= CORES_PER_TH - j
Ready  == \A j \in 0 .. CORES_PER_TH - 1 : Cardinality(Behind(j)) <= CORES_PER_TH - j - 1
Chosen == \A j \in 0 .. -min_lead[0] :
             Cardinality(Behind(j) \ {tileid_min[0]}) <= CORES_PER_TH - j - 1
Passed(k) == \A t \in Tile : RouterIndex(t) < k => lead[t] >= min_lead[0]

LagInv ==
  /\ Timers /\ Few
  /\ rpc[0] = "scan" => n[0] \in 0 .. CORES_PER_TH - 1 /\ Chosen /\ Passed(n[0])
  /\ rpc[0] = "spin" => Chosen /\ Passed(CORES_PER_TH)
  /\ rpc[0] \in {"mate", "look", "lookq", "advance", "tick"} => Ready

(* Sets of tiles.                                                          *)
LEMMA TileSets ==
  ASSUME NEW A \in SUBSET Tile
  PROVE  IsFiniteSet(A) /\ Cardinality(A) \in Nat /\ (Cardinality(A) = 0 <=> A = {})
BY Areas, FS_Subset, FS_CardinalityType, FS_EmptySet

LEMMA TileZero == 0 \in Tile
<1>1. GRID_X * GRID_Y \in Nat /\ GRID_X * GRID_Y > 0
  BY Sizes, Z3
<1>2. QED
  BY <1>1 DEF Tile

LEMMA FewerTiles ==
  ASSUME NEW A \in SUBSET Tile, NEW B \in SUBSET A
  PROVE  Cardinality(B) <= Cardinality(A)
BY TileSets, FS_Subset

LEMMA WithoutTile ==
  ASSUME NEW A \in SUBSET Tile, NEW t \in A
  PROVE  Cardinality(A \ {t}) = Cardinality(A) - 1
BY TileSets, FS_RemoveElement

LEMMA BehindAre == \A j \in Int : Behind(j) \in SUBSET Tile
BY DEF Behind

(* What does not move a timer back keeps what is said of them.             *)
LEMMA TimersGoOn ==
  ASSUME Timers, lead' \in [Tile -> Int], \A t \in Tile : lead[t] <= lead'[t]
  PROVE  /\ Few => Few'
         /\ Ready => Ready'
         /\ UNCHANGED <<tileid_min, min_lead>> => /\ Chosen => Chosen'
                                                  /\ \A k : Passed(k) => Passed(k)'
<1>1. ASSUME NEW j \in Int PROVE Behind(j)' \in SUBSET Behind(j)
  <2>1. ASSUME NEW t \in Tile, lead'[t] <= -j PROVE lead[t] <= -j
    <3>1. lead[t] \in Int /\ lead'[t] \in Int /\ lead[t] <= lead'[t]
      BY DEF Timers
    <3>2. QED
      BY <2>1, <3>1
  <2>2. QED
    BY <2>1 DEF Behind
<1>2. ASSUME NEW j \in Int PROVE Cardinality(Behind(j)') <= Cardinality(Behind(j))
  BY <1>1, BehindAre, FewerTiles
<1>3. ASSUME NEW j \in Int PROVE Cardinality(Behind(j)) \in Nat /\ Cardinality(Behind(j)') \in Nat
  <2>1. Behind(j) \in SUBSET Tile /\ Behind(j)' \in SUBSET Tile
    BY <1>1, BehindAre
  <2>2. QED
    BY <2>1, TileSets
<1>4. CORES_PER_TH \in Nat
  BY Areas
<1>5. Few => Few'
  <2>1. ASSUME Few, NEW j \in 0 .. CORES_PER_TH PROVE Cardinality(Behind(j)') <= CORES_PER_TH - j
    <3>1. Cardinality(Behind(j)) <= CORES_PER_TH - j
      BY <2>1 DEF Few
    <3>2. QED
      BY <1>2, <1>3, <1>4, <3>1
  <2>2. QED
    BY <2>1 DEF Few
<1>6. Ready => Ready'
  <2>1. ASSUME Ready, NEW j \in 0 .. CORES_PER_TH - 1
        PROVE  Cardinality(Behind(j)') <= CORES_PER_TH - j - 1
    <3>1. Cardinality(Behind(j)) <= CORES_PER_TH - j - 1
      BY <2>1 DEF Ready
    <3>2. QED
      BY <1>2, <1>3, <1>4, <3>1
  <2>2. QED
    BY <2>1 DEF Ready
<1>7. ASSUME UNCHANGED <<tileid_min, min_lead>>, Chosen PROVE Chosen'
  <2>1. ASSUME NEW j \in 0 .. -min_lead[0]
        PROVE  Cardinality(Behind(j)' \ {tileid_min[0]}) <= CORES_PER_TH - j - 1
    <3>1. j \in Int /\ min_lead[0] \in Int
      BY DEF Timers
    <3>2. Behind(j) \ {tileid_min[0]} \in SUBSET Tile
      BY <3>1, BehindAre
    <3>3. Behind(j)' \ {tileid_min[0]} \in SUBSET (Behind(j) \ {tileid_min[0]})
      BY <1>1, <3>1
    <3>4. Cardinality(Behind(j)' \ {tileid_min[0]}) <= Cardinality(Behind(j) \ {tileid_min[0]})
      BY <3>2, <3>3, FewerTiles
    <3>5. Cardinality(Behind(j)' \ {tileid_min[0]}) \in Nat /\ Cardinality(Behind(j) \ {tileid_min[0]}) \in Nat
      BY <3>2, <3>3, TileSets
    <3>6. Cardinality(Behind(j) \ {tileid_min[0]}) <= CORES_PER_TH - j - 1
      BY <1>7 DEF Chosen
    <3>7. QED
      BY <1>4, <3>1, <3>4, <3>5, <3>6
  <2>2. QED
    BY <1>7, <2>1 DEF Chosen
<1>8. ASSUME UNCHANGED <<tileid_min, min_lead>>, NEW k, Passed(k) PROVE Passed(k)'
  <2>1. ASSUME NEW t \in Tile, RouterIndex(t) < k PROVE lead'[t] >= min_lead[0]
    <3>1. lead[t] >= min_lead[0] /\ lead[t] <= lead'[t]
      BY <1>8, <2>1 DEF Passed
    <3>2. lead[t] \in Int /\ lead'[t] \in Int /\ min_lead[0] \in Int
      BY DEF Timers
    <3>3. QED
      BY <3>1, <3>2
  <2>2. QED
    BY <1>8, <2>1 DEF Passed, RouterIndex
<1>9. QED
  BY <1>5, <1>6, <1>7, <1>8

(* No tile is farther behind than there are other tiles.                   *)
LEMMA FewBound == LagInv => LagBounded
<1>1. SUFFICES ASSUME LagInv, NEW t \in Tile PROVE lead[t] >= -(CORES_PER_TH - 1)
  BY DEF LagBounded
<1>2. CORES_PER_TH \in Nat
  BY Areas
<1>3. lead[t] \in Int
  BY <1>1 DEF LagInv, Timers
<1>4. Cardinality(Behind(CORES_PER_TH)) <= CORES_PER_TH - CORES_PER_TH
  <2>1. CORES_PER_TH \in 0 .. CORES_PER_TH
    BY <1>2
  <2>2. QED
    BY <1>1, <2>1 DEF LagInv, Few
<1>5. Behind(CORES_PER_TH) = {}
  <2>1. Behind(CORES_PER_TH) \in SUBSET Tile
    BY <1>2, BehindAre
  <2>2. Cardinality(Behind(CORES_PER_TH)) \in Nat
    BY <2>1, TileSets
  <2>3. Cardinality(Behind(CORES_PER_TH)) = 0
    BY <1>2, <1>4, <2>2
  <2>4. QED
    BY <2>1, <2>3, TileSets
<1>6. ~ (lead[t] <= -CORES_PER_TH)
  BY <1>5 DEF Behind
<1>7. QED
  BY <1>2, <1>3, <1>6

(* A tile less behind than the one found so far is found.                  *)
LEMMA ScanLag ==
  ASSUME COLUMNS = 1, EpochInv, LagInv, RScan(0)
  PROVE  LagInv'
<1> DEFINE t == RouterTile(0, n[0])
<1>1. /\ Timers /\ Few /\ Chosen /\ Passed(n[0]) /\ n[0] \in 0 .. CORES_PER_TH - 1
      /\ rpc[0] = "scan" /\ 0 \in Rid /\ CORES_PER_TH \in Nat
  BY OneColumn, Areas DEF LagInv, RScan, At
<1>2. t \in Tile /\ RouterIndex(t) = n[0]
  BY <1>1, RouterTiles
<1>3. \A u \in Tile : RouterIndex(u) \in Int /\ (RouterIndex(u) = n[0] => u = t)
  <2>1. \A u \in Tile : ColumnOf(u) = 0
    BY OneColumn
  <2>2. QED
    BY <2>1, RouterTiles
<1>4. lead' = lead /\ router_timer' = router_timer
  BY DEF RScan, timers
<1>5. /\ lead \in [Tile -> Int] /\ min_lead \in [Rid -> Int] /\ tileid_min \in [Rid -> Tile]
      /\ min_lead[0] \in -(CORES_PER_TH - 1) .. 0
  BY <1>1 DEF Timers
<1>6. lead[t] \in Int /\ min_lead[0] \in Int /\ lead[t] >= -(CORES_PER_TH - 1)
  BY <1>2, <1>5, FewBound DEF LagBounded
<1> HIDE DEF t
<1>7. PICK k \in Nat : k = n[0] + 1
  BY <1>1
<1>8. ASSUME lead[t] < min_lead[0] PROVE Timers' /\ Chosen' /\ Passed(k)'
  <2>1. min_lead' = [min_lead EXCEPT ![0] = lead[t]] /\ tileid_min' = [tileid_min EXCEPT ![0] = t]
    BY <1>8 DEF RScan, t
  <2>2. min_lead'[0] = lead[t] /\ tileid_min'[0] = t
    BY <1>1, <1>5, <2>1
  <2>3. Timers'
    <3>1. min_lead' \in [Rid -> Int] /\ tileid_min' \in [Rid -> Tile]
      BY <1>2, <1>5, <1>6, <2>1
    <3>2. min_lead'[0] \in -(CORES_PER_TH - 1) .. 0
      BY <1>1, <1>5, <1>6, <1>8, <2>2
    <3>3. QED
      BY <1>1, <1>4, <3>1, <3>2 DEF Timers
  <2>4. Chosen'
    <3>1. ASSUME NEW j \in 0 .. -lead[t] PROVE Cardinality(Behind(j) \ {t}) <= CORES_PER_TH - j - 1
      <4>1. j \in 0 .. CORES_PER_TH
        BY <1>1, <1>6
      <4>2. t \in Behind(j)
        BY <1>2, <1>6 DEF Behind
      <4>3. Behind(j) \in SUBSET Tile
        BY <4>1, BehindAre
      <4>4. Cardinality(Behind(j)) \in Nat /\ Cardinality(Behind(j) \ {t}) = Cardinality(Behind(j)) - 1
        BY <4>2, <4>3, TileSets, WithoutTile
      <4>5. Cardinality(Behind(j)) <= CORES_PER_TH - j
        BY <1>1, <4>1 DEF Few
      <4>6. QED
        BY <1>1, <4>1, <4>4, <4>5
    <3>2. \A j \in Int : Behind(j)' = Behind(j)
      BY <1>4 DEF Behind
    <3>3. QED
      BY <1>6, <2>2, <3>1, <3>2 DEF Chosen
  <2>5. ASSUME NEW u \in Tile, RouterIndex(u) < k PROVE lead[u] >= min_lead'[0]
    <3>1. CASE RouterIndex(u) = n[0]
      BY <1>3, <1>6, <2>2, <3>1
    <3>2. CASE RouterIndex(u) < n[0]
      <4>1. lead[u] >= min_lead[0] /\ lead[u] \in Int
        BY <1>1, <1>5, <3>2 DEF Passed
      <4>2. QED
        BY <1>6, <1>8, <2>2, <4>1
    <3>3. QED
      BY <1>1, <1>3, <1>7, <2>5, <3>1, <3>2
  <2>6. Passed(k)'
    BY <1>1, <1>4, <2>5 DEF Passed, RouterIndex
  <2>7. QED
    BY <2>3, <2>4, <2>6
<1>9. ASSUME ~ (lead[t] < min_lead[0]) PROVE Timers' /\ Chosen' /\ Passed(k)'
  <2>1. min_lead' = min_lead /\ tileid_min' = tileid_min
    BY <1>9 DEF RScan, t
  <2>2. Timers' /\ Chosen'
    BY <1>1, <1>4, <2>1 DEF Timers, Chosen, Behind
  <2>3. ASSUME NEW u \in Tile, RouterIndex(u) < k PROVE lead[u] >= min_lead[0]
    <3>1. CASE RouterIndex(u) = n[0]
      BY <1>3, <1>6, <1>9, <3>1
    <3>2. CASE RouterIndex(u) < n[0]
      BY <1>1, <3>2 DEF Passed
    <3>3. QED
      BY <1>1, <1>3, <1>7, <2>3, <3>1, <3>2
  <2>4. Passed(k)'
    BY <1>1, <1>4, <2>1, <2>3 DEF Passed, RouterIndex
  <2>5. QED
    BY <2>2, <2>4
<1>10. Timers' /\ Chosen' /\ Passed(k)'
  BY <1>8, <1>9
<1>11. Few'
  BY <1>1, <1>4 DEF Few, Behind
<1>12. CASE n[0] + 1 < CORES_PER_TH
  <2>1. n'[0] = n[0] + 1 /\ rpc'[0] = "scan"
    <3>1. n' = [n EXCEPT ![0] = @ + 1] /\ UNCHANGED rpc
      BY <1>12 DEF RScan
    <3>2. n \in [Rid -> Nat]
      BY DEF EpochInv, Types
    <3>3. QED
      BY <1>1, <3>1, <3>2
  <2>2. n'[0] \in 0 .. CORES_PER_TH - 1
    BY <1>1, <1>12, <2>1
  <2>3. Passed(n[0])'
    BY <1>10, <1>7, <2>1 DEF Passed, RouterIndex
  <2>4. QED
    BY <1>10, <1>11, <2>1, <2>2, <2>3 DEF LagInv
<1>13. CASE ~ (n[0] + 1 < CORES_PER_TH)
  <2>1. rpc'[0] = "spin"
    <3>1. rpc' = [rpc EXCEPT ![0] = "spin"]
      BY <1>13 DEF RScan, GoR
    <3>2. rpc \in [Rid -> RouterPc]
      BY DEF EpochInv, BarrierInv, ControlOK
    <3>3. QED
      BY <1>1, <3>1, <3>2
  <2>2. Passed(CORES_PER_TH)'
    <3>1. k = CORES_PER_TH
      BY <1>1, <1>13, <1>7
    <3>2. QED
      BY <1>10, <3>1
  <2>3. QED
    BY <1>10, <1>11, <2>1, <2>2 DEF LagInv
<1>14. QED
  BY <1>12, <1>13

(* The router leaves its loop only when the tile it found is past it.      *)
LEMMA SpinLag ==
  ASSUME COLUMNS = 1, EpochInv, LagInv, RSpin(0)
  PROVE  LagInv'
<1>1. /\ Timers /\ Few /\ Chosen /\ Passed(CORES_PER_TH)
      /\ rpc[0] = "spin" /\ Rid = {0} /\ CORES_PER_TH \in Nat \ {0}
  BY OneColumn, Areas DEF LagInv, RSpin, At
<1>2. /\ lead' = lead /\ router_timer' = router_timer
      /\ tileid_min' = [tileid_min EXCEPT ![0] = 0] /\ min_lead' = [min_lead EXCEPT ![0] = 0]
      /\ rpc' = [rpc EXCEPT ![0] = "mate"]
  BY DEF RSpin, timers, GoR
<1>3. /\ lead \in [Tile -> Int] /\ min_lead \in [Rid -> Int] /\ tileid_min \in [Rid -> Tile]
      /\ router_timer \in [Rid -> Int] /\ min_lead[0] \in -(CORES_PER_TH - 1) .. 0
  BY <1>1 DEF Timers
<1> DEFINE p == tileid_min[0]
<1>4. p \in Tile /\ lead[p] > 0
  <2>1. waiting["routers"] = 0
    <3>1. CASE RoutersFree
      <4>1. \A r \in Rid : rpc[r] # "wait1"
        BY <1>1
      <4>2. Cardinality(Routers("wait1")) = 0
        BY <4>1, Counting DEF Routers
      <4>3. QED
        BY <3>1, <4>2 DEF RoutersFree
    <3>2. CASE RoutersMeet
      BY <3>2 DEF RoutersMeet
    <3>3. QED
      BY <3>1, <3>2 DEF EpochInv, BarrierInv
  <2>2. p \in Tile
    BY <1>1, <1>3
  <2>3. CoreAhead(p, 0) > 0
    BY <2>1 DEF RSpin
  <2>4. CoreAhead(p, 0) = lead[p] + router_timer[0] - router_timer[0]
    BY <2>2, OneColumn DEF CoreAhead
  <2>5. lead[p] \in Int /\ router_timer[0] \in Int
    BY <1>1, <1>3, <2>2
  <2>6. QED
    BY <2>2, <2>3, <2>4, <2>5
<1> HIDE DEF p
<1>5. Ready
  <2>1. ASSUME NEW j \in 0 .. CORES_PER_TH - 1 PROVE Cardinality(Behind(j)) <= CORES_PER_TH - j - 1
    <3>1. j \in Nat /\ min_lead[0] \in Int /\ Behind(j) \in SUBSET Tile
      BY <1>1, <1>3, BehindAre
    <3>2. CASE j <= -min_lead[0]
      <4>1. p \notin Behind(j)
        <5>1. lead[p] \in Int
          BY <1>3, <1>4
        <5>2. ~ (lead[p] <= -j)
          BY <1>4, <3>1, <5>1
        <5>3. QED
          BY <5>2 DEF Behind
      <4>2. Behind(j) \ {tileid_min[0]} = Behind(j)
        BY <4>1 DEF p
      <4>3. j \in 0 .. -min_lead[0]
        BY <3>1, <3>2
      <4>4. QED
        BY <1>1, <4>2, <4>3 DEF Chosen
    <3>3. CASE j > -min_lead[0]
      <4>1. ASSUME NEW t \in Tile PROVE ~ (lead[t] <= -j)
        <5>1. RouterIndex(t) < CORES_PER_TH
          BY <1>1, RouterTiles
        <5>2. lead[t] >= min_lead[0] /\ lead[t] \in Int
          BY <1>1, <1>3, <5>1 DEF Passed
        <5>3. QED
          BY <3>1, <3>3, <5>2
      <4>2. Behind(j) = {}
        BY <4>1 DEF Behind
      <4>3. Cardinality(Behind(j)) = 0
        BY <4>2, FS_EmptySet
      <4>4. QED
        BY <1>1, <4>3
    <3>4. QED
      BY <3>1, <3>2, <3>3
  <2>2. QED
    BY <2>1 DEF Ready
<1>6. Timers'
  <2>1. 0 \in Tile
    BY TileZero
  <2>2. min_lead'[0] = 0 /\ min_lead' \in [Rid -> Int] /\ tileid_min' \in [Rid -> Tile]
    BY <1>1, <1>2, <1>3, <2>1
  <2>3. 0 \in -(CORES_PER_TH - 1) .. 0
    BY <1>1
  <2>4. QED
    BY <1>2, <1>3, <2>2, <2>3 DEF Timers
<1>7. Few' /\ Ready'
  BY <1>1, <1>2, <1>5 DEF Few, Ready, Behind
<1>8. rpc'[0] = "mate"
  <2>1. rpc \in [Rid -> RouterPc]
    BY DEF EpochInv, BarrierInv, ControlOK
  <2>2. QED
    BY <1>1, <1>2, <2>1
<1>9. QED
  BY <1>6, <1>7, <1>8 DEF LagInv

(* A cycle later each tile is one cycle farther behind.                    *)
LEMMA TickLag ==
  ASSUME COLUMNS = 1, EpochInv, LagInv, RTick(0)
  PROVE  LagInv'
<1>1. /\ Timers /\ Ready /\ rpc[0] = "tick" /\ Rid = {0} /\ CORES_PER_TH \in Nat \ {0}
  BY OneColumn, Areas DEF LagInv, RTick, At
<1>2. lead' = [t \in Tile |-> lead[t] - 1]
  BY OneColumn DEF RTick
<1>3. lead \in [Tile -> Int] /\ lead' \in [Tile -> Int] /\ router_timer \in [Rid -> Int]
  BY <1>1, <1>2 DEF Timers
<1>4. router_timer' \in [Rid -> Int]
  <2> DEFINE ticked == [router_timer EXCEPT ![0] = @ + 1]
             base   == CHOOSE m \in {ticked[q] : q \in Rid} : \A q \in Rid : m <= ticked[q]
  <2>1. router_timer' = [q \in Rid |-> ticked[q] - base]
    BY DEF RTick
  <2>2. ticked \in [Rid -> Int]
    BY <1>1, <1>3
  <2> HIDE DEF ticked
  <2>3. ticked[0] \in {ticked[q] : q \in Rid} /\ \A q \in Rid : ticked[0] <= ticked[q]
    BY <1>1, <2>2
  <2>4. base \in {ticked[q] : q \in Rid}
    BY <2>3
  <2>5. base \in Int
    BY <2>2, <2>4
  <2> HIDE DEF base
  <2>6. QED
    BY <2>1, <2>2, <2>5
<1>5. Few'
  <2>1. ASSUME NEW j \in 1 .. CORES_PER_TH PROVE Behind(j)' = Behind(j - 1)
    <3>1. ASSUME NEW t \in Tile PROVE lead'[t] <= -j <=> lead[t] <= -(j - 1)
      BY <1>2, <1>3
    <3>2. QED
      BY <3>1 DEF Behind
  <2>2. ASSUME NEW j \in 0 .. CORES_PER_TH PROVE Cardinality(Behind(j)') <= CORES_PER_TH - j
    <3>1. CASE j = 0
      <4>1. Behind(0)' \in SUBSET Tile
        BY DEF Behind
      <4>2. Cardinality(Behind(0)') <= Cardinality(Tile)
        BY <4>1, FewerTiles
      <4>3. Cardinality(Tile) = 1 * CORES_PER_TH
        BY Areas
      <4>4. QED
        BY <1>1, <3>1, <4>2, <4>3
    <3>2. CASE j # 0
      <4>1. j \in 1 .. CORES_PER_TH /\ j - 1 \in 0 .. CORES_PER_TH - 1
        BY <1>1, <3>2
      <4>2. Cardinality(Behind(j - 1)) <= CORES_PER_TH - (j - 1) - 1
        BY <1>1, <4>1 DEF Ready
      <4>3. CORES_PER_TH - (j - 1) - 1 = CORES_PER_TH - j
        BY <1>1
      <4>4. QED
        BY <2>1, <4>1, <4>2, <4>3
    <3>3. QED
      BY <3>1, <3>2
  <2>3. QED
    BY <2>2 DEF Few
<1>6. Timers'
  BY <1>1, <1>3, <1>4 DEF Timers, RTick
<1>7. rpc'[0] = "loop"
  BY <1>1 DEF RTick, GoR, EpochInv, BarrierInv, ControlOK
<1>8. QED
  BY <1>5, <1>6, <1>7 DEF LagInv

(* Before it looks for a tile the router has found none: then the one it   *)
(* starts from is among all.                                               *)
LEMMA LoopLag ==
  ASSUME COLUMNS = 1, EpochInv, LagInv, RLoop(0)
  PROVE  LagInv'
<1>1. /\ Timers /\ Few /\ Rid = {0} /\ CORES_PER_TH \in Nat \ {0} /\ 0 \in Tile
  BY OneColumn, Areas, TileZero DEF LagInv
<1>2. /\ lead' = lead /\ router_timer' = router_timer /\ n' = [n EXCEPT ![0] = 0]
      /\ tileid_min' = [tileid_min EXCEPT ![0] = 0] /\ min_lead' = [min_lead EXCEPT ![0] = 0]
  BY DEF RLoop, timers
<1>3. n'[0] = 0 /\ tileid_min'[0] = 0 /\ min_lead'[0] = 0
  BY <1>1, <1>2 DEF EpochInv, Types, Timers
<1>4. rpc'[0] \in {"scan", "bar1"}
  BY <1>1 DEF RLoop, GoR, EpochInv, BarrierInv, ControlOK
<1>5. Timers'
  <2>1. min_lead' \in [Rid -> Int] /\ tileid_min' \in [Rid -> Tile]
    BY <1>1, <1>2 DEF Timers
  <2>2. min_lead'[0] \in -(CORES_PER_TH - 1) .. 0
    BY <1>1, <1>3
  <2>3. QED
    BY <1>1, <1>2, <2>1, <2>2 DEF Timers
<1>6. Few'
  BY <1>1, <1>2 DEF Few, Behind
<1>7. Chosen'
  <2>1. ASSUME NEW j \in 0 .. -min_lead'[0] PROVE Cardinality(Behind(j)' \ {0}) <= CORES_PER_TH - j - 1
    <3>0. j = 0
      <4>1. PICK m \in Int : m = min_lead'[0] /\ m = 0
        BY <1>3
      <4>2. j \in 0 .. -m
        BY <4>1
      <4>3. QED
        BY <4>1, <4>2
    <3>1. j = 0 /\ Behind(j)' \in SUBSET Tile
      BY <3>0 DEF Behind
    <3>2. Behind(j)' \ {0} \in SUBSET (Tile \ {0}) /\ Tile \ {0} \in SUBSET Tile
      BY <3>1
    <3>3. Cardinality(Behind(j)' \ {0}) <= Cardinality(Tile \ {0})
      BY <3>2, FewerTiles
    <3>4. Cardinality(Tile \ {0}) = Cardinality(Tile) - 1
      BY <1>1, WithoutTile
    <3>5. Cardinality(Tile) = 1 * CORES_PER_TH
      BY Areas
    <3>6. QED
      BY <1>1, <3>1, <3>3, <3>4, <3>5
  <2>2. QED
    BY <1>3, <2>1 DEF Chosen
<1>8. Passed(0)'
  <2>1. \A t \in Tile : ~ (RouterIndex(t) < 0)
    BY <1>1, RouterTiles
  <2>2. QED
    BY <2>1 DEF Passed, RouterIndex
<1>9. n'[0] \in 0 .. CORES_PER_TH - 1 /\ Passed(n[0])'
  BY <1>1, <1>3, <1>8
<1>10. QED
  BY <1>4, <1>5, <1>6, <1>7, <1>9 DEF LagInv

(* The other steps of the router don't touch timers.                       *)
LEMMA RouterLag ==
  ASSUME COLUMNS = 1, EpochInv, LagInv, NEW r \in Rid, Router(r)
  PROVE  LagInv'
<1>1. r = 0 /\ rpc \in [Rid -> RouterPc]
  BY OneColumn DEF EpochInv, BarrierInv, ControlOK
<1>2. ASSUME UNCHANGED <<lead, router_timer, tileid_min, min_lead>>,
             rpc'[0] \notin {"scan", "spin"},
             rpc'[0] \in {"mate", "look", "lookq", "advance", "tick"}
               => rpc[0] \in {"mate", "look", "lookq", "advance", "tick"}
      PROVE  LagInv'
  <2>1. Timers' /\ Few' /\ (Ready => Ready')
    BY <1>2 DEF LagInv, Timers, Few, Ready, Behind
  <2>2. QED
    BY <1>2, <2>1 DEF LagInv
<1>3. CASE RScan(r)
  BY <1>1, <1>3, ScanLag
<1>4. CASE RSpin(r)
  BY <1>1, <1>4, SpinLag
<1>5. CASE RTick(r)
  BY <1>1, <1>5, TickLag
<1>6. CASE RLoop(r)
  BY <1>1, <1>6, LoopLag
<1>7. CASE REpoch(r)
  BY <1>1, <1>2, <1>7 DEF REpoch, At, GoR, timers
<1>8. CASE RMate(r)
  BY <1>1, <1>2, <1>8 DEF RMate, At, GoR, timers
<1>9. CASE RLookActive(r)
  BY <1>1, <1>2, <1>9 DEF RLookActive, At, GoR, timers
<1>10. CASE RLookQueues(r)
  BY <1>1, <1>2, <1>10 DEF RLookQueues, At, GoR, timers
<1>11. ASSUME NEW arrived \in SUBSET Kind, NEW sent, RAdvance(r, arrived, sent) PROVE LagInv'
  BY <1>1, <1>2, <1>11 DEF RAdvance, At, GoR, timers
<1>12. CASE RBarriers(r)
  BY <1>1, <1>2, <1>12 DEF RBarriers, RArrive, RWake, AfterBar1, AfterThreads, At, GoR, timers
<1>13. CASE RDecide(r)
  BY <1>1, <1>2, <1>13 DEF RDecide, At, GoR, timers
<1>14. CASE RCheck
  BY <1>1, <1>2, <1>14 DEF RCheck, At, GoR, timers
<1>15. CASE RStore
  BY <1>1, <1>2, <1>15 DEF RStore, At, GoR, timers
<1>16. QED
  BY <1>3, <1>4, <1>5, <1>6, <1>7, <1>8, <1>9, <1>10, <1>11, <1>12, <1>13, <1>14, <1>15 DEF Router

(* Workers only move timers on.                                            *)
LEMMA WorkerLag ==
  ASSUME COLUMNS = 1, EpochInv, LagInv, NEW w \in Rid, Worker(w)
  PROVE  LagInv'
<1>1. lead \in [Tile -> Int]
  BY DEF LagInv, Timers
<1>2. UNCHANGED <<rpc, n, router_timer, tileid_min, min_lead>>
  BY DEF Worker, WInit, WLoop, WSkip, WRead, WFlag, WFirst, WSecond, WEnd, WPublish, WDecide,
         WBarriers, WArrive, WWake, routerVars, timers
<1>3. lead' \in [Tile -> Int] /\ \A t \in Tile : lead[t] <= lead'[t]
  <2>1. CASE lead' = lead
    BY <1>1, <2>1
  <2>2. CASE WSecond(w)
    <3>1. PICK delay \in IF next[w] = 0 THEN {1} ELSE 1 .. MaxDelay :
             lead' = [lead EXCEPT ![TileNow(w)] = @ + delay]
      BY <2>2 DEF WSecond
    <3>2. delay \in Nat
      <4>1. CASE next[w] = 0
        BY <4>1
      <4>2. CASE next[w] # 0
        <5>1. delay \in 1 .. MaxDelay
          BY <4>2
        <5>2. QED
          BY <5>1
      <4>3. QED
        BY <4>1, <4>2
    <3>3. TileNow(w) \in Tile
      BY TileNowIsTile DEF EpochInv
    <3>4. ASSUME NEW t \in Tile PROVE lead'[t] \in Int /\ lead[t] <= lead'[t]
      BY <1>1, <3>1, <3>2
    <3>5. lead' \in [Tile -> Int]
      BY <1>1, <3>1, <3>4
    <3>6. QED
      BY <3>4, <3>5
  <2>3. QED
    BY <2>1, <2>2 DEF Worker, WInit, WLoop, WSkip, WRead, WFlag, WFirst, WEnd, WPublish, WDecide,
         WBarriers, WArrive, WWake, timers
<1>4. Few' /\ (Ready => Ready') /\ (Chosen => Chosen') /\ \A k : Passed(k) => Passed(k)'
  BY <1>2, <1>3, TimersGoOn DEF LagInv
<1>5. Timers'
  BY <1>2, <1>3 DEF LagInv, Timers
<1>6. rpc' = rpc /\ n' = n
  BY <1>2
<1>7. Passed(n[0]) => Passed(n[0])'
  <2>1. PICK k : k = n[0]
    OBVIOUS
  <2>2. Passed(k) => Passed(k)'
    BY <1>4
  <2>3. QED
    BY <1>6, <2>1, <2>2 DEF Passed, RouterIndex
<1>8. Passed(CORES_PER_TH) => Passed(CORES_PER_TH)'
  BY <1>4
<1>9. QED
  BY <1>4, <1>5, <1>6, <1>7, <1>8 DEF LagInv

LEMMA InitLag == COLUMNS = 1 /\ Init => LagInv
<1>1. SUFFICES ASSUME COLUMNS = 1, Init PROVE LagInv
  OBVIOUS
<1>2. Rid = {0} /\ CORES_PER_TH \in Nat \ {0} /\ 0 \in Tile /\ Cardinality(Tile) = CORES_PER_TH
  BY <1>1, OneColumn, Areas, TileZero
<1>3. Timers
  <2>1. lead \in [Tile -> Int] /\ router_timer \in [Rid -> Int] /\ min_lead = [r \in Rid |-> 0]
    BY <1>1 DEF Init
  <2>2. tileid_min \in [Rid -> Tile]
    BY <1>1, <1>2 DEF Init
  <2>3. min_lead \in [Rid -> Int] /\ min_lead[0] = 0 /\ 0 \in -(CORES_PER_TH - 1) .. 0
    BY <1>2, <2>1
  <2>4. QED
    BY <2>1, <2>2, <2>3 DEF Timers
<1>4. Few
  <2>1. ASSUME NEW j \in 0 .. CORES_PER_TH PROVE Cardinality(Behind(j)) <= CORES_PER_TH - j
    <3>1. CASE j = 0
      <4>1. Cardinality(Behind(j)) <= Cardinality(Tile)
        BY <3>1, BehindAre, FewerTiles
      <4>2. QED
        BY <1>2, <3>1, <4>1
    <3>2. CASE j # 0
      <4>1. j >= 1 /\ j \in Nat
        BY <3>2
      <4>2. Behind(j) = {}
        BY <1>1, <4>1 DEF Behind, Init
      <4>3. QED
        BY <1>2, <4>2, FS_EmptySet
    <3>3. QED
      BY <3>1, <3>2
  <2>2. QED
    BY <2>1 DEF Few
<1>5. rpc[0] = "epoch"
  BY <1>1, <1>2 DEF Init
<1>6. QED
  BY <1>3, <1>4, <1>5 DEF LagInv

(* With one column of threads a tile never falls back by more cycles than  *)
(* there are other tiles (router_thread.h: the loop that looks for the     *)
(* slowest tile, and the wait for that one only).                          *)
THEOREM TilesLagBounded == COLUMNS = 1 => (Spec => []LagBounded)
<1>1. COLUMNS = 1 /\ LagInv /\ EpochInv /\ [Next]_vars => LagInv'
  <2>1. SUFFICES ASSUME COLUMNS = 1, LagInv, EpochInv, [Next]_vars PROVE LagInv'
    OBVIOUS
  <2>2. CASE UNCHANGED vars
    BY <2>1, <2>2 DEF vars, routerVars, timers, LagInv, Timers, Few, Ready, Chosen, Passed, Behind, RouterIndex
  <2>3. CASE Next
    BY <2>1, <2>2, <2>3, RouterLag, WorkerLag DEF Next, Terminating
  <2>4. QED
    BY <2>1, <2>2, <2>3
<1>2. SUFFICES ASSUME COLUMNS = 1 PROVE Spec => []LagBounded
  OBVIOUS
<1>3. Init => LagInv
  BY <1>2, InitLag
<1>4. LagInv /\ EpochInv /\ EpochInv' /\ [Next]_vars => LagInv'
  BY <1>1, <1>2
<1>5. QED
  BY <1>3, <1>4, FewBound, EpochInvariance, PTL DEF Spec
=============================================================================
