------------------------------ MODULE FFT_proofs ------------------------------
(***************************************************************************)
(* Proof that the rounds of the FFT do not mix, for a grid of any size:    *)
(* T3 takes the round of a message from its own tile (apps/fft.h:244), and *)
(* fetches elements from arrays that T1 and T3 of other tiles overwrite.   *)
(***************************************************************************)
EXTENDS FFT, FiniteSetTheorems, SequenceTheorems, TLAPS

(* Rounds in which tiles send, and the places of t's line they send to.    *)
Rounds == 1 .. LAST_ROUND - 1
others(t, r) == places \ {dim(t, r)}

(* What place i of t has when t's line has been transposed in round r.     *)
Element(r, t, i) == <<r, Peer(t, r, i), dim(t, r)>>
Elements == (0 .. LAST_ROUND) \X tiles \X places

Messages ==
  {m \in [from : tiles, to : tiles, dim : places, data : Elements, round : Rounds] :
     /\ m.from = Peer(m.to, m.round, m.dim) /\ m.to = Peer(m.from, m.round, dim(m.to, m.round))
     /\ m.dim = dim(m.from, m.round) /\ m.dim # dim(m.to, m.round)
     /\ m.data = <<m.round, m.from, dim(m.to, m.round)>>}

TypeOK ==
  /\ iq0 \in [tiles -> {<<>>} \cup {<<i>> : i \in places}]
  /\ received \in [tiles -> Nat] /\ round \in [tiles -> 0 .. LAST_ROUND]
  /\ restart \in [tiles -> BOOLEAN]
  /\ data \in [0 .. 1 -> [tiles -> [places -> Elements]]]
  /\ oq \in [tiles -> Seq(Messages)] /\ net \subseteq Messages

-----------------------------------------------------------------------------
(* The elements tile t has received in its round.                          *)
Got(t)  == {i \in others(t, round[t]) : data[target(round[t])][t][i] = Element(round[t], t, i)}
Full(t) == Got(t) = others(t, round[t])

(* Tile s has sent its element of round r to place i; tile t has received  *)
(* the element of round r from place i.                                    *)
Next_idx(s) == IF iq0[s] \in {<<>>, <<0>>} THEN GRID_X ELSE iq0[s][1]
Sent(s, r, i) == round[s] > r \/ (round[s] = r /\ i < Next_idx(s))
Has(t, r, i)  == round[t] > r \/ (round[t] = r /\ i \in Got(t))

(* How far a tile is: it is told to go on exactly when it has everything.  *)
Progress(t) ==
  /\ round[t] = 0 => iq0[t] = <<0>> /\ received[t] = 0
  /\ round[t] = LAST_ROUND => iq0[t] = <<>>
  /\ iq0[t] \in {<<>>, <<0>>} => ~restart[t]
  /\ iq0[t] \notin {<<>>, <<0>>} => iq0[t][1] # dim(t, round[t])
  /\ round[t] > 0 => /\ Full(t) <=> iq0[t] = <<0>> \/ restart[t]
                     /\ received[t] = IF Full(t) THEN 0 ELSE Cardinality(Got(t))
ProgressInv == \A t \in tiles : Progress(t)

(* What the arrays hold: the line as it was computed, and the transposed   *)
(* one, which is that of the round before where nothing was received.      *)
Holds(t) ==
  /\ \A i \in places : data[array(round[t])][t][i] = <<round[t], t, i>>
  /\ round[t] > 0 =>
       \A i \in places : data[target(round[t])][t][i] =
         IF i \in Got(t) \/ Full(t) THEN Element(round[t], t, i) ELSE <<round[t] - 1, t, i>>
DataInv == \A t \in tiles : Holds(t)

(* A message underway was sent, is there once and has not been received;   *)
(* one in the network left when all tiles had begun its round.             *)
MessageInv ==
  /\ \A m \in Underway : Sent(m.from, m.round, dim(m.to, m.round)) /\ ~Has(m.to, m.round, m.dim)
  /\ \A m \in net : Paced(m)
  /\ \A s \in tiles : \A k, l \in DOMAIN oq[s] :
       oq[s][k].from = s /\ oq[s][k] \notin net /\ (oq[s][k] = oq[s][l] => k = l)

(* What was received was sent.                                             *)
SentInv ==
  \A t \in tiles, r \in Rounds : \A i \in others(t, r) :
    Has(t, r, i) => Sent(Peer(t, r, i), r, dim(t, r))

(* A tile receives only when all have begun its round.                     *)
PaceInv ==
  \A t \in tiles :
    /\ round[t] > 0 /\ Got(t) # {} => \A u \in tiles : round[u] >= round[t]
    /\ \A u \in tiles : round[u] >= round[t] - 1

FFTInv == TypeOK /\ ProgressInv /\ DataInv /\ MessageInv /\ SentInv /\ PaceInv

-----------------------------------------------------------------------------
(* Places, rounds and arrays.                                              *)
LEMMA Sizes ==
  /\ GRID_X \in Nat /\ GRID_X > 1 /\ LAST_ROUND \in 1 .. 3
  /\ IsFiniteSet(places) /\ Cardinality(places) = GRID_X
<1>1. GRID_X \in Nat /\ GRID_X > 1 /\ LAST_ROUND \in 1 .. 3
  BY FFTAssumption
<1>2. QED BY <1>1, FS_Interval DEF places

(* A round computes in one array and receives in the other, which is the   *)
(* one the next round computes in.                                         *)
LEMMA Arrays ==
  ASSUME NEW r \in 0 .. 3
  PROVE  /\ array(r) \in 0 .. 1 /\ target(r) \in 0 .. 1 /\ array(r) # target(r)
         /\ array(r + 1) = target(r) /\ target(r + 1) = array(r)
BY DEF array, target

(* Every place of a line has a tile.  The tile at place i of t's line has  *)
(* t at the place of t, and is not t.                                      *)
LEMMA Peers ==
  ASSUME NEW r \in Rounds, NEW t \in tiles
  PROVE  /\ r \in 1 .. 2 /\ dim(t, r) \in places /\ Peer(t, r, dim(t, r)) = t
         /\ \A i \in places : /\ Peer(t, r, i) \in tiles /\ dim(Peer(t, r, i), r) = i
                              /\ Peer(Peer(t, r, i), r, dim(t, r)) = t
<1>1. r \in 1 .. 2 /\ (r = 2 => LINES = places)
  BY FFTAssumption DEF Rounds, places
<1>2. t = <<t[1], t[2]>> /\ t[1] \in places /\ t[2] \in LINES /\ LINES \subseteq places
  BY FFTAssumption DEF tiles, places
<1>3. CASE r = 1
  BY <1>2, <1>3 DEF dim, Peer, tiles
<1>4. CASE r = 2
  BY <1>1, <1>2, <1>4 DEF dim, Peer, tiles
<1>5. QED BY <1>1, <1>3, <1>4

(* A tile exchanges with at least one other.                               *)
LEMMA OthersExist ==
  ASSUME NEW r \in Nat, NEW t \in tiles
  PROVE  /\ dim(t, r) \in places /\ others(t, r) # {}
         /\ IsFiniteSet(others(t, r)) /\ Cardinality(others(t, r)) = GRID_X - 1
<1>1. dim(t, r) \in places
  BY FFTAssumption DEF dim, tiles, places
<1>2. IsFiniteSet(others(t, r)) /\ Cardinality(others(t, r)) = GRID_X - 1
  BY <1>1, Sizes, FS_RemoveElement DEF others
<1>3. QED BY <1>1, <1>2, Sizes, FS_EmptySet

(* The message with t's element of round r for place i.                    *)
Message(t, r, i) ==
  [from |-> t, to |-> Peer(t, r, i), dim |-> dim(t, r), data |-> <<r, t, i>>, round |-> r]
LEMMA MessageIs ==
  ASSUME NEW t \in tiles, NEW r \in Rounds, NEW i \in others(t, r)
  PROVE  Message(t, r, i) \in Messages /\ dim(Message(t, r, i).to, r) = i
<1>1. /\ i \in places /\ i # dim(t, r) /\ dim(t, r) \in places /\ r \in 0 .. LAST_ROUND
      /\ Peer(t, r, i) \in tiles /\ dim(Peer(t, r, i), r) = i
      /\ Peer(Peer(t, r, i), r, dim(t, r)) = t
  BY Peers, Sizes DEF others, Rounds
<1>2. <<r, t, i>> \in Elements
  BY <1>1 DEF Elements
<1>3. QED BY <1>1, <1>2 DEF Message, Messages

(* The less of two numbers.                                                *)
LEMMA LessOfTwo ==
  ASSUME NEW a \in Int, NEW b \in Int
  PROVE  Min({a, b}) = IF a <= b THEN a ELSE b
<1> DEFINE x == Min({a, b})
<1>1. \E c \in {a, b} : \A y \in {a, b} : c <= y
  OBVIOUS
<1>2. x \in {a, b} /\ \A y \in {a, b} : x <= y
  BY <1>1 DEF Min
<1> HIDE DEF x
<1>3. x = IF a <= b THEN a ELSE b
  BY <1>2
<1>4. QED BY <1>3 DEF x

(* A wave goes to at least one place, and never to the tile's own.         *)
LEMMA Waves ==
  ASSUME TypeOK, NEW t \in tiles, NEW r \in Rounds, NEW first \in others(t, r), oq_room(t) > 8
  PROVE  /\ WaveEnd(t, r, first) \in first + 1 .. GRID_X
         /\ \A i \in first .. WaveEnd(t, r, first) - 1 : i \in others(t, r)
         /\ NextIdx(t, r, WaveEnd(t, r, first)) \in WaveEnd(t, r, first) .. GRID_X
         /\ NextIdx(t, r, WaveEnd(t, r, first)) # dim(t, r)
<1> DEFINE to == IF first < dim(t, r) THEN dim(t, r) ELSE GRID_X
           room == oq_room(t) \div num_task_params
           end == WaveEnd(t, r, first)
<1>1. dim(t, r) \in places /\ first \in places /\ first # dim(t, r)
  BY Peers DEF others
<1>2. GRID_X \in Nat /\ places = 0 .. GRID_X - 1
  BY Sizes DEF places
<1>3. room \in Nat /\ room > 0
  <2>1. oq_room(t) \in Int
    BY FFTAssumption, LenProperties DEF oq_room, num_task_params, TypeOK
  <2>2. CASE num_task_params = 4
    BY <2>1, <2>2
  <2>3. CASE num_task_params = 2
    BY <2>1, <2>3
  <2>4. QED BY <2>2, <2>3 DEF num_task_params
<1>4. to \in first + 1 .. GRID_X /\ first + room \in Nat /\ first + room > first
  BY <1>1, <1>2, <1>3
<1>5. end = IF to <= first + room THEN to ELSE first + room
  <2>1. end = Min({to, first + room})
    BY DEF WaveEnd
  <2>2. to \in Int /\ first + room \in Int
    BY <1>1, <1>2, <1>4
  <2> HIDE DEF to, room, end
  <2>3. QED BY <2>1, <2>2, LessOfTwo
<1>6. end \in first + 1 .. to
  <2> HIDE DEF to, room, end
  <2>1. first \in Int /\ to \in Int
    BY <1>1, <1>2, <1>4
  <2>2. QED BY <1>4, <1>5, <2>1
<1> HIDE DEF end, room
<1>7. \A i \in first .. end - 1 : i \in others(t, r)
  BY <1>1, <1>2, <1>6 DEF others
<1>8. NextIdx(t, r, end) \in end .. GRID_X /\ NextIdx(t, r, end) # dim(t, r)
  BY <1>1, <1>2, <1>6 DEF NextIdx
<1>9. end \in first + 1 .. GRID_X
  <2> HIDE DEF to
  <2>1. QED BY <1>1, <1>2, <1>4, <1>6
<1>10. QED BY <1>7, <1>8, <1>9 DEF end

(* What T1 sends goes behind what is in the queue.                         *)
LEMMA WaveQueued ==
  ASSUME TypeOK, NEW t \in tiles, NEW r \in Rounds, NEW first \in others(t, r), runnable(t),
         data'[array(r)][t] = [i \in places |-> <<r, t, i>>], SendWave(t, r, first)
  PROVE  LET end == WaveEnd(t, r, first)
             next == NextIdx(t, r, end)
             n == Len(oq[t])
         IN
           /\ end \in first + 1 .. GRID_X /\ \A i \in first .. end - 1 : i \in others(t, r)
           /\ oq' \in [tiles -> Seq(Messages)] /\ \A s \in tiles : s # t => oq'[s] = oq[s]
           /\ DOMAIN oq'[t] = 1 .. n + (end - first)
           /\ \A k \in 1 .. n : oq'[t][k] = oq[t][k]
           /\ \A k \in n + 1 .. n + (end - first) : oq'[t][k] = Message(t, r, first + (k - n) - 1)
           /\ next \in end .. GRID_X /\ next # dim(t, r)
           /\ iq0' = [iq0 EXCEPT ![t] = GoOn(t, next)]
           /\ restart' = [restart EXCEPT ![t] = @ /\ next < GRID_X]
<1> DEFINE end == WaveEnd(t, r, first)
           next == NextIdx(t, r, end)
           n == Len(oq[t])
           new == [i \in 1 .. end - first |-> Message(t, r, first + i - 1)]
<1>1. /\ end \in first + 1 .. GRID_X /\ \A i \in first .. end - 1 : i \in others(t, r)
      /\ next \in end .. GRID_X /\ next # dim(t, r)
  BY Waves DEF runnable
<1>2. first \in Nat /\ GRID_X \in Nat
  BY Sizes DEF others, places
<1>3. oq' = [oq EXCEPT ![t] = @ \o new]
  <2>1. \A i \in 1 .. end - first : data'[array(r)][t][first + i - 1] = <<r, t, first + i - 1>>
    BY <1>1, <1>2 DEF others
  <2> HIDE DEF end
  <2>2. QED BY <2>1 DEF SendWave, Message, end
<1>4. iq0' = [iq0 EXCEPT ![t] = GoOn(t, next)]
  <2>1. Tail(iq0[t]) \o GoOn(t, next) = GoOn(t, next)
    <3>1. PICK i \in places : iq0[t] = <<i>>
      BY DEF TypeOK, runnable
    <3>2. Tail(<<i>>) = <<>>
      OBVIOUS
    <3>3. GoOn(t, next) \in Seq(Nat)
      BY <1>1, <1>2 DEF GoOn
    <3>4. QED BY <3>1, <3>2, <3>3, ConcatEmptySeq
  <2>2. QED BY <2>1 DEF SendWave
<1>5. restart' = [restart EXCEPT ![t] = @ /\ next < GRID_X]
  BY DEF SendWave
<1> HIDE DEF end, next
<1>6. \A i \in 1 .. end - first : Message(t, r, first + i - 1) \in Messages
  BY <1>1, <1>2, MessageIs
<1>7. new \in Seq(Messages) /\ Len(new) = end - first
  BY <1>1, <1>2, <1>6
<1>8. oq[t] \in Seq(Messages)
  BY DEF TypeOK
<1>9. /\ oq[t] \o new \in Seq(Messages) /\ Len(oq[t] \o new) = n + (end - first)
      /\ \A k \in 1 .. n + (end - first) : (oq[t] \o new)[k] = IF k <= n THEN oq[t][k] ELSE new[k - n]
  BY <1>1, <1>2, <1>7, <1>8, ConcatProperties
<1>10. n \in Nat /\ DOMAIN (oq[t] \o new) = 1 .. n + (end - first)
  BY <1>8, <1>9, LenProperties
<1>11. oq'[t] = oq[t] \o new
  BY <1>3 DEF TypeOK
<1> HIDE DEF new, n
<1>12. ASSUME NEW k \in 1 .. n
       PROVE  oq'[t][k] = oq[t][k]
  <2>1. k \in 1 .. n + (end - first) /\ k <= n
    BY <1>1, <1>2, <1>10
  <2>2. QED BY <1>9, <1>11, <2>1
<1>13. ASSUME NEW k \in n + 1 .. n + (end - first)
       PROVE  oq'[t][k] = Message(t, r, first + (k - n) - 1)
  <2>1. k - n \in 1 .. end - first /\ k \in 1 .. n + (end - first) /\ ~(k <= n)
    BY <1>1, <1>2, <1>10
  <2>2. oq'[t][k] = new[k - n]
    BY <1>9, <1>11, <2>1
  <2>3. QED BY <2>1, <2>2 DEF new
<1>14. oq' \in [tiles -> Seq(Messages)] /\ \A s \in tiles : s # t => oq'[s] = oq[s]
  BY <1>3, <1>9 DEF TypeOK
<1>15. QED BY <1>1, <1>4, <1>5, <1>10, <1>11, <1>12, <1>13, <1>14 DEF n, end, next

-----------------------------------------------------------------------------
(* What a step leaves alone.                                               *)

(* A tile whose variables do not change is as far as before.               *)
LEMMA Unmoved ==
  ASSUME NEW u \in tiles, round'[u] = round[u], \A b \in 0 .. 1 : data'[b][u] = data[b][u],
         round[u] \in 0 .. LAST_ROUND
  PROVE  /\ Got(u)' = Got(u) /\ (Full(u)' <=> Full(u)) /\ (Holds(u) => Holds(u)')
         /\ \A r, i : Has(u, r, i)' <=> Has(u, r, i)
         /\ iq0'[u] = iq0[u] /\ received'[u] = received[u] /\ restart'[u] = restart[u] /\ Progress(u)
            => Progress(u)' /\ \A r, i : Sent(u, r, i)' <=> Sent(u, r, i)
<1>1. array(round[u]) \in 0 .. 1 /\ target(round[u]) \in 0 .. 1
  BY Arrays, Sizes
<1>2. Got(u)' = Got(u)
  BY <1>1 DEF Got
<1>3. Full(u)' <=> Full(u)
  BY <1>2 DEF Full
<1>4. Holds(u) => Holds(u)'
  BY <1>1, <1>2, <1>3 DEF Holds
<1>5. \A r, i : Has(u, r, i)' <=> Has(u, r, i)
  BY <1>2 DEF Has
<1>6. iq0'[u] = iq0[u] /\ received'[u] = received[u] /\ restart'[u] = restart[u] /\ Progress(u)
      => Progress(u)' /\ \A r, i : Sent(u, r, i)' <=> Sent(u, r, i)
  BY <1>2, <1>3 DEF Progress, Sent, Next_idx
<1>7. QED BY <1>2, <1>3, <1>4, <1>5, <1>6

(* The queue of T1 says where the next wave begins.                        *)
LEMMA NextAfterWave ==
  ASSUME TypeOK, NEW t \in tiles, NEW next \in 1 .. GRID_X, iq0' = [iq0 EXCEPT ![t] = GoOn(t, next)]
  PROVE  /\ Next_idx(t)' = next
         /\ iq0' \in [tiles -> {<<>>} \cup {<<i>> : i \in places}]
<1>1. GRID_X \in Nat /\ 0 \in places /\ (next < GRID_X => next \in places)
  BY Sizes DEF places
<1>2. iq0'[t] = GoOn(t, next) /\ (next < GRID_X => <<next>> # <<0>> /\ <<next>> # <<>>)
  BY DEF TypeOK
<1>3. Next_idx(t)' = next
  BY <1>1, <1>2 DEF Next_idx, GoOn
<1>4. GoOn(t, next) \in {<<>>} \cup {<<i>> : i \in places}
  BY <1>1 DEF GoOn
<1>5. QED BY <1>3, <1>4 DEF TypeOK

(* What is underway is a message, from one tile to another.                *)
LEMMA MessagesUnderway ==
  ASSUME TypeOK, NEW m \in Underway
  PROVE  /\ m \in Messages /\ m.from \in tiles /\ m.to \in tiles /\ m.round \in Rounds
         /\ dim(m.to, m.round) \in places /\ m.dim \in others(m.to, m.round)
         /\ m.from = Peer(m.to, m.round, m.dim)
<1>1. m \in Messages
  BY ElementOfSeq, LenProperties DEF Underway, TypeOK
<1>2. m.from \in tiles /\ m.to \in tiles /\ m.round \in Rounds
  BY <1>1 DEF Messages
<1>3. m.dim \in others(m.to, m.round) /\ m.from = Peer(m.to, m.round, m.dim)
  BY <1>1 DEF Messages, others
<1>4. QED BY <1>1, <1>2, <1>3, Peers

(* The messages of a wave are new, and on their way.                       *)
LEMMA WaveMessages ==
  ASSUME TypeOK, MessageInv, NEW t \in tiles, NEW r \in Rounds, NEW first \in others(t, r), runnable(t),
         data'[array(r)][t] = [i \in places |-> <<r, t, i>>], SendWave(t, r, first),
         net' = net, round'[t] = r, \A u \in tiles : round'[u] \in Nat /\ round'[u] >= round[u],
         \A m \in Underway : ~Has(m.to, m.round, m.dim)',
         \A s \in tiles, q \in Rounds, i \in places : Sent(s, q, i) => Sent(s, q, i)',
         \A i \in others(t, r) : i >= first => /\ ~Sent(t, r, i)
                                               /\ ~Has(Peer(t, r, i), r, dim(t, r))'
  PROVE  MessageInv'
<1> DEFINE end == WaveEnd(t, r, first)
           next == NextIdx(t, r, end)
           n == Len(oq[t])
           New(m) == \E i \in first .. end - 1 : m = Message(t, r, i)
<1>1. /\ end \in first + 1 .. GRID_X /\ \A i \in first .. end - 1 : i \in others(t, r)
      /\ oq' \in [tiles -> Seq(Messages)] /\ \A s \in tiles : s # t => oq'[s] = oq[s]
      /\ DOMAIN oq'[t] = 1 .. n + (end - first)
      /\ \A k \in 1 .. n : oq'[t][k] = oq[t][k]
      /\ \A k \in n + 1 .. n + (end - first) : oq'[t][k] = Message(t, r, first + (k - n) - 1)
      /\ next \in end .. GRID_X
      /\ iq0' = [iq0 EXCEPT ![t] = GoOn(t, next)]
  BY WaveQueued
<1>2. first \in Nat /\ GRID_X \in Nat /\ n \in Nat /\ DOMAIN oq[t] = 1 .. n
  BY Sizes, LenProperties DEF others, places, TypeOK
<1> HIDE DEF end, next, n
<1>3. next \in 1 .. GRID_X
  BY <1>1, <1>2
<1>4. Next_idx(t)' = next
  BY <1>1, <1>3, NextAfterWave
<1>5. ASSUME NEW i \in first .. end - 1
      PROVE  /\ Sent(t, r, i)' /\ ~Sent(t, r, i) /\ ~Has(Peer(t, r, i), r, dim(t, r))'
             /\ Message(t, r, i) \in Messages /\ dim(Message(t, r, i).to, r) = i
             /\ Message(t, r, i).from = t /\ Message(t, r, i).round = r
             /\ Message(t, r, i).dim = dim(t, r) /\ Message(t, r, i).to = Peer(t, r, i)
  <2>1. i \in others(t, r) /\ i >= first /\ i < next
    BY <1>1, <1>2
  <2>2. QED BY <1>4, <2>1, MessageIs DEF Sent, Message
<1>6. \A m \in Underway : /\ m \in Messages /\ ~New(m)
                          /\ Sent(m.from, m.round, dim(m.to, m.round))'
                          /\ ~Has(m.to, m.round, m.dim)'
  <2>1. SUFFICES ASSUME NEW m \in Underway
                 PROVE  /\ m \in Messages /\ ~New(m)
                        /\ Sent(m.from, m.round, dim(m.to, m.round))'
                        /\ ~Has(m.to, m.round, m.dim)'
    OBVIOUS
  <2>2. m \in Messages
    BY MessagesUnderway
  <2>3. Sent(m.from, m.round, dim(m.to, m.round))
    BY DEF MessageInv
  <2>4. m.from \in tiles /\ m.to \in tiles /\ m.round \in Rounds
    BY MessagesUnderway
  <2>5. dim(m.to, m.round) \in places
    BY MessagesUnderway
  <2>6. ~New(m)
    BY <1>5, <2>3
  <2>7. QED BY <2>2, <2>3, <2>4, <2>5, <2>6
<1>7. \A s \in tiles : \A k \in DOMAIN oq'[s] :
        \/ k \in DOMAIN oq[s] /\ oq'[s][k] = oq[s][k]
        \/ s = t /\ k \in n + 1 .. n + (end - first) /\ oq'[s][k] = Message(t, r, first + (k - n) - 1)
  <2>1. ASSUME NEW k \in 1 .. n + (end - first) PROVE k \in 1 .. n \/ k \in n + 1 .. n + (end - first)
    BY <1>1, <1>2
  <2>2. ASSUME NEW k \in DOMAIN oq'[t]
        PROVE  \/ k \in DOMAIN oq[t] /\ oq'[t][k] = oq[t][k]
               \/ k \in n + 1 .. n + (end - first) /\ oq'[t][k] = Message(t, r, first + (k - n) - 1)
    BY <1>1, <1>2, <2>1
  <2>3. \A s \in tiles : s # t => oq'[s] = oq[s]
    BY <1>1
  <2>4. QED BY <2>2, <2>3
<1>8. \A k \in n + 1 .. n + (end - first) : first + (k - n) - 1 \in first .. end - 1
  BY <1>1, <1>2
<1>9. \A m \in Underway' : m \in Underway \/ New(m)
  <2>1. DOMAIN oq' = tiles /\ DOMAIN oq = tiles
    BY <1>1 DEF TypeOK
  <2>2. SUFFICES ASSUME NEW m \in Underway', m \notin Underway PROVE New(m)
    OBVIOUS
  <2>a. PICK s \in tiles : \E k \in DOMAIN oq'[s] : m = oq'[s][k]
    BY <2>1, <2>2 DEF Underway
  <2>3. PICK k \in DOMAIN oq'[s] : m = oq'[s][k]
    BY <2>a
  <2>4. CASE k \in DOMAIN oq[s] /\ oq'[s][k] = oq[s][k]
    BY <2>1, <2>2, <2>3, <2>4 DEF Underway
  <2>5. CASE k \in n + 1 .. n + (end - first) /\ oq'[s][k] = Message(t, r, first + (k - n) - 1)
    BY <1>8, <2>3, <2>5
  <2>6. QED BY <1>7, <2>4, <2>5
<1>10. \A m \in Underway' : Sent(m.from, m.round, dim(m.to, m.round))' /\ ~Has(m.to, m.round, m.dim)'
  BY <1>5, <1>6, <1>9
<1>11. \A m \in net' : Paced(m)'
  <2>1. SUFFICES ASSUME NEW m \in net, NEW u \in tiles PROVE round'[u] >= m.round
    BY DEF Paced
  <2>2. round[u] >= m.round
    BY DEF MessageInv, Paced
  <2>3. m.round \in Nat /\ round[u] \in Nat
    BY DEF TypeOK, Messages, Rounds
  <2>4. round'[u] \in Nat /\ round'[u] >= round[u]
    OBVIOUS
  <2>5. QED BY <2>2, <2>3, <2>4
<1>12. \A s \in tiles : \A k \in DOMAIN oq'[s] : oq'[s][k].from = s /\ oq'[s][k] \notin net'
  <2>1. net \subseteq Underway
    BY DEF Underway
  <2>2. QED BY <1>5, <1>6, <1>7, <1>8, <2>1 DEF MessageInv
<1>13. ASSUME NEW s \in tiles, NEW k \in DOMAIN oq'[s], NEW l \in DOMAIN oq'[s], oq'[s][k] = oq'[s][l]
       PROVE  k = l
  <2>1. \A j \in DOMAIN oq[s] : oq[s][j] \in Underway
    BY DEF Underway, TypeOK
  <2>2. CASE k \in DOMAIN oq[s] /\ oq'[s][k] = oq[s][k] /\ l \in DOMAIN oq[s] /\ oq'[s][l] = oq[s][l]
    <3>1. oq[s][k] = oq[s][l]
      BY <1>13, <2>2
    <3>2. QED BY <2>2, <3>1 DEF MessageInv
  <2>3. CASE /\ k \in n + 1 .. n + (end - first) /\ oq'[s][k] = Message(t, r, first + (k - n) - 1)
             /\ l \in n + 1 .. n + (end - first) /\ oq'[s][l] = Message(t, r, first + (l - n) - 1)
    <3>1. /\ first + (k - n) - 1 = dim(oq'[s][k].to, r)
          /\ first + (l - n) - 1 = dim(oq'[s][l].to, r)
      BY <1>5, <1>8, <2>3
    <3>2. first + (k - n) - 1 = first + (l - n) - 1
      BY <1>13, <3>1
    <3>3. k \in Int /\ l \in Int
      BY <1>1, <1>2, <2>3
    <3>4. QED BY <1>2, <3>2, <3>3
  <2>4. QED BY <1>6, <1>7, <1>8, <1>13, <2>1, <2>2, <2>3
<1>14. QED BY <1>10, <1>11, <1>12, <1>13 DEF MessageInv

-----------------------------------------------------------------------------
(* The steps.                                                              *)
LEMMA InitInv == Init => FFTInv
<1> SUFFICES ASSUME Init PROVE FFTInv
  OBVIOUS
<1> USE DEF Init
<1>0. 0 \in places /\ LAST_ROUND \in 1 .. 3 /\ 0 \in 0 .. LAST_ROUND
  BY Sizes DEF places
<1>1. TypeOK
  <2>1. data \in [0 .. 1 -> [tiles -> [places -> Elements]]]
    BY <1>0 DEF Elements
  <2>2. <<>> \in Seq(Messages)
    BY EmptySeq
  <2>3. iq0 \in [tiles -> {<<>>} \cup {<<i>> : i \in places}]
    BY <1>0
  <2>4. QED BY <1>0, <2>1, <2>2, <2>3 DEF TypeOK
<1>2. ProgressInv
  BY <1>0 DEF ProgressInv, Progress
<1>3. DataInv
  BY DEF DataInv, Holds, array
<1>4. Underway = {}
  BY DEF Underway
<1>5. MessageInv
  BY <1>4 DEF MessageInv
<1>6. SentInv
  BY DEF SentInv, Has, Rounds
<1>7. PaceInv
  BY DEF PaceInv
<1>8. QED BY <1>1, <1>2, <1>3, <1>5, <1>6, <1>7 DEF FFTInv

(* A tile that has received everything: nothing is underway to it, all     *)
(* tiles of its line have sent, and none is a round behind.                *)
LEMMA FullTile ==
  ASSUME FFTInv, NEW t \in tiles, round[t] > 0, Full(t)
  PROVE  /\ \A u \in tiles : round[u] >= round[t]
         /\ \A m \in Underway : m.to = t => m.round > round[t]
<1>1. round[t] \in Nat
  BY DEF FFTInv, TypeOK
<1>2. Got(t) # {}
  BY <1>1, OthersExist DEF Full
<1>3. \A u \in tiles : round[u] >= round[t]
  BY <1>2 DEF FFTInv, PaceInv
<1>4. ASSUME NEW m \in Underway, m.to = t
      PROVE  m.round > round[t]
  <2>2. m.round \in Nat /\ m.dim \in places /\ m.dim # dim(t, m.round)
    BY <1>4, MessagesUnderway DEF FFTInv, others, Rounds
  <2>3. ~Has(t, m.round, m.dim)
    BY <1>4 DEF FFTInv, MessageInv
  <2>4. m.round # round[t]
    BY <2>2, <2>3 DEF Has, Full, others
  <2>5. ~(round[t] > m.round)
    BY <2>3 DEF Has
  <2>6. QED BY <1>1, <2>2, <2>4, <2>5
<1>5. QED BY <1>3, <1>4

(* T1 begins a round when the tile has all elements of the round before.   *)
LEMMA T1BeginInv ==
  ASSUME FFTInv, NEW t \in tiles, T1Begin(t)
  PROVE  FFTInv'
<1>0. TypeOK /\ ProgressInv /\ DataInv /\ MessageInv /\ SentInv /\ PaceInv
  BY DEF FFTInv
<1>a. \E r \in Nat : r = round[t] + 1
  <2>1. round[t] \in Nat
    BY <1>0 DEF TypeOK
  <2>2. QED BY <2>1
<1>r. PICK r \in Nat : r = round[t] + 1
  BY <1>a
<1> DEFINE first == IF dim(t, r) = 0 THEN 1 ELSE 0
<1>1. iq0[t] = <<0>> /\ ~restart[t]
  <2>1. PICK i \in places : iq0[t] = <<i>>
    BY <1>0 DEF T1Begin, runnable, TypeOK
  <2>2. i = 0
    BY <2>1 DEF T1Begin
  <2>3. QED BY <1>0, <2>1, <2>2 DEF ProgressInv, Progress
<1>2. /\ round[t] \in 0 .. LAST_ROUND - 1 /\ r \in 1 .. LAST_ROUND /\ LAST_ROUND \in 1 .. 3
      /\ round[t] \in 0 .. 3 /\ array(r) \in 0 .. 1 /\ target(r) \in 0 .. 1
      /\ array(r) # target(r) /\ target(r) = array(round[t])
  <2>1. round[t] \in 0 .. LAST_ROUND /\ LAST_ROUND \in 1 .. 3
    BY <1>0, Sizes DEF TypeOK
  <2>2. round[t] # LAST_ROUND
    BY <1>0, <1>1 DEF ProgressInv, Progress
  <2>3. round[t] \in 0 .. 3 /\ r \in 0 .. 3
    BY <1>r, <2>1, <2>2
  <2>4. QED BY <1>r, <2>1, <2>2, <2>3, Arrays
<1>3. /\ round' = [round EXCEPT ![t] = r] /\ received' = received /\ net' = net
      /\ data' = [data EXCEPT ![array(r)][t] = [i \in places |-> <<r, t, i>>]]
  BY <1>r DEF T1Begin, Transformed
<1>4. /\ round'[t] = r /\ \A u \in tiles \ {t} : round'[u] = round[u]
      /\ data'[array(r)][t] = [i \in places |-> <<r, t, i>>]
      /\ data'[target(r)][t] = data[target(r)][t]
      /\ \A u \in tiles \ {t} : \A b \in 0 .. 1 : data'[b][u] = data[b][u]
      /\ r = round[t] + 1
  BY <1>0, <1>r, <1>2, <1>3 DEF TypeOK
<1>5. Got(t)' = {} /\ ~Full(t)' /\ \A i \in places : data'[target(r)][t][i] = <<round[t], t, i>>
  <2>1. \A i \in places : data'[target(r)][t][i] = <<round[t], t, i>>
    <3>1. Holds(t)
      BY <1>0 DEF DataInv
    <3>2. \A i \in places : data[array(round[t])][t][i] = <<round[t], t, i>>
      BY <3>1 DEF Holds
    <3>3. QED BY <1>2, <1>4, <3>2
  <2>2. \A i \in places : data'[target(r)][t][i] # Element(r, t, i)
    <3>1. round[t] # r
      BY <1>2, <1>4
    <3>2. QED BY <2>1, <3>1 DEF Element
  <2>3. Got(t)' = {}
    BY <1>4, <2>2 DEF Got, others
  <2>4. others(t, r) # {}
    BY <1>2, OthersExist
  <2>5. QED BY <1>4, <2>1, <2>3, <2>4 DEF Full
<1>6. round[t] > 0 => /\ Full(t) /\ \A u \in tiles : round[u] >= round[t]
                      /\ \A m \in Underway : m.to = t => m.round > round[t]
  BY <1>0, <1>1, FullTile DEF ProgressInv, Progress
<1>7. \A u \in tiles : round'[u] \in 0 .. LAST_ROUND /\ round[u] \in 0 .. LAST_ROUND /\ round'[u] >= round[u]
  <2>1. SUFFICES ASSUME NEW u \in tiles
                 PROVE  round'[u] \in 0 .. LAST_ROUND /\ round[u] \in 0 .. LAST_ROUND /\ round'[u] >= round[u]
    OBVIOUS
  <2>2. round[u] \in 0 .. LAST_ROUND
    BY <1>0 DEF TypeOK
  <2>3. CASE u = t
    BY <1>2, <1>4, <2>2, <2>3
  <2>4. CASE u # t
    BY <1>2, <1>4, <2>2, <2>4
  <2>5. QED BY <2>3, <2>4
<1>8. \A u \in tiles \ {t} : /\ Got(u)' = Got(u) /\ Holds(u)'
                              /\ \A q, i : Has(u, q, i)' <=> Has(u, q, i)
  BY <1>0, <1>4, <1>7, Unmoved DEF DataInv
<1>9. /\ oq' \in [tiles -> Seq(Messages)] /\ restart'[t] = FALSE /\ restart' \in [tiles -> BOOLEAN]
      /\ iq0' \in [tiles -> {<<>>} \cup {<<i>> : i \in places}]
      /\ iq0'[t] # <<0>> /\ (iq0'[t] = <<>> \/ iq0'[t][1] # dim(t, r))
      /\ r = LAST_ROUND => iq0'[t] = <<>>
      /\ \A u \in tiles \ {t} : iq0'[u] = iq0[u] /\ restart'[u] = restart[u]
      /\ \A s \in tiles, q \in Rounds, i \in places : Sent(s, q, i) => Sent(s, q, i)'
      /\ MessageInv'
  <2>a. \A s \in tiles, q \in Rounds, i \in places :
          Sent(s, q, i) /\ (s # t => iq0'[s] = iq0[s]) => Sent(s, q, i)'
    <3>1. SUFFICES ASSUME NEW s \in tiles, NEW q \in Rounds, NEW i \in places, Sent(s, q, i),
                          s # t => iq0'[s] = iq0[s]
                   PROVE  Sent(s, q, i)'
      OBVIOUS
    <3>2. CASE s = t
      BY <1>2, <1>4, <3>1, <3>2 DEF Sent, Rounds
    <3>3. CASE s # t
      BY <1>4, <3>1, <3>3 DEF Sent, Next_idx
    <3>4. QED BY <3>2, <3>3
  <2>b. \A m \in Underway : ~Has(m.to, m.round, m.dim)'
    <3>1. SUFFICES ASSUME NEW m \in Underway PROVE ~Has(m.to, m.round, m.dim)'
      OBVIOUS
    <3>2. m.to \in tiles /\ m.round \in Rounds
      BY <1>0, MessagesUnderway
    <3>3. CASE m.to = t
      <4>1. m.round >= r
        BY <1>2, <1>4, <1>6, <3>2, <3>3 DEF Rounds
      <4>2. QED BY <1>2, <1>4, <1>5, <3>2, <3>3, <4>1 DEF Has, Rounds
    <3>4. CASE m.to # t
      BY <1>0, <1>8, <3>2, <3>4 DEF MessageInv
    <3>5. QED BY <3>3, <3>4
  <2>1. CASE r = LAST_ROUND /\ iq0' = [iq0 EXCEPT ![t] = Tail(@)] /\ UNCHANGED <<oq, restart>>
    <3>1. Tail(<<0>>) = <<>>
      OBVIOUS
    <3>2. iq0' = [iq0 EXCEPT ![t] = <<>>]
      BY <1>1, <2>1, <3>1
    <3>3. iq0'[t] = <<>> /\ \A u \in tiles \ {t} : iq0'[u] = iq0[u]
      BY <1>0, <3>2 DEF TypeOK
    <3>4. \A s \in tiles, q \in Rounds, i \in places : Sent(s, q, i) => Sent(s, q, i)'
      BY <2>a, <3>3
    <3>5. Underway' = Underway
      BY <1>3, <2>1 DEF Underway
    <3>6. \A m \in Underway : Sent(m.from, m.round, dim(m.to, m.round))'
      <4>1. SUFFICES ASSUME NEW m \in Underway PROVE Sent(m.from, m.round, dim(m.to, m.round))'
        OBVIOUS
      <4>2. m.from \in tiles /\ m.to \in tiles /\ m.round \in Rounds
        BY <1>0, MessagesUnderway
      <4>3. dim(m.to, m.round) \in places
        BY <4>2, Peers
      <4>4. QED BY <1>0, <3>4, <4>2, <4>3 DEF MessageInv
    <3>7. \A m \in net : Paced(m)'
      <4>1. SUFFICES ASSUME NEW m \in net, NEW u \in tiles PROVE round'[u] >= m.round
        BY DEF Paced
      <4>2. round[u] >= m.round /\ m.round \in Nat
        BY <1>0 DEF MessageInv, Paced, TypeOK, Messages, Rounds
      <4>3. QED BY <1>7, <4>2
    <3>8. MessageInv'
      BY <1>0, <1>3, <2>1, <2>b, <3>5, <3>6, <3>7 DEF MessageInv
    <3>9. iq0' \in [tiles -> {<<>>} \cup {<<i>> : i \in places}]
      BY <1>0, <3>2 DEF TypeOK
    <3>10. <<>> # <<0>>
      OBVIOUS
    <3>11. QED BY <1>0, <1>1, <2>1, <3>3, <3>4, <3>8, <3>9, <3>10 DEF TypeOK
  <2>2. CASE r # LAST_ROUND /\ SendWave(t, r, first)
    <3> DEFINE end == WaveEnd(t, r, first)
               next == NextIdx(t, r, end)
    <3>1. r \in Rounds
      BY <1>2, <2>2 DEF Rounds
    <3>2. first \in others(t, r) /\ first \in Nat /\ GRID_X \in Nat
      BY Sizes DEF others, places
    <3>3. runnable(t)
      BY DEF T1Begin
    <3> HIDE DEF first
    <3>4. /\ oq' \in [tiles -> Seq(Messages)]
          /\ end \in first + 1 .. GRID_X /\ next \in end .. GRID_X /\ next # dim(t, r)
          /\ iq0' = [iq0 EXCEPT ![t] = GoOn(t, next)]
          /\ restart' = [restart EXCEPT ![t] = @ /\ next < GRID_X]
      <4>1. TypeOK /\ SendWave(t, r, first) /\ data'[array(r)][t] = [i \in places |-> <<r, t, i>>]
        BY <1>0, <1>4, <2>2
      <4> HIDE DEF first
      <4>2. QED BY <3>1, <3>2, <3>3, <4>1, WaveQueued
    <3> HIDE DEF end, next
    <3>5. next \in 1 .. GRID_X
      BY <3>2, <3>4
    <3>6. iq0' \in [tiles -> {<<>>} \cup {<<i>> : i \in places}]
      BY <1>0, <3>4, <3>5, NextAfterWave
    <3>7. iq0'[t] = GoOn(t, next) /\ \A u \in tiles \ {t} : iq0'[u] = iq0[u]
      BY <1>0, <3>4 DEF TypeOK
    <3>8. GoOn(t, next) = IF next < GRID_X THEN <<next>> ELSE <<>>
      BY <1>1 DEF GoOn
    <3>9. iq0'[t] # <<0>> /\ (iq0'[t] = <<>> \/ iq0'[t][1] # dim(t, r))
      <4>1. next \in Int /\ next # 0
        BY <3>2, <3>5
      <4>2. <<next>> # <<0>> /\ <<next>> # <<>> /\ <<>> # <<0>> /\ <<next>>[1] = next
        BY <4>1
      <4>3. QED BY <3>4, <3>7, <3>8, <4>2
    <3>10. \A s \in tiles, q \in Rounds, i \in places : Sent(s, q, i) => Sent(s, q, i)'
      BY <2>a, <3>7
    <3>11. ASSUME NEW i \in others(t, r)
           PROVE  ~Sent(t, r, i) /\ ~Has(Peer(t, r, i), r, dim(t, r))'
      <4>1. ~Sent(t, r, i)
        BY <1>2, <1>4 DEF Sent
      <4>2. /\ i \in places /\ i # dim(t, r) /\ Peer(t, r, i) \in tiles /\ dim(Peer(t, r, i), r) = i
            /\ Peer(Peer(t, r, i), r, dim(t, r)) = t /\ dim(t, r) \in places
        BY <3>1, Peers DEF others
      <4>3. dim(t, r) \in others(Peer(t, r, i), r)
        BY <4>2 DEF others
      <4>4. ~Has(Peer(t, r, i), r, dim(t, r))
        BY <1>0, <3>1, <4>1, <4>2, <4>3 DEF SentInv
      <4>5. Peer(t, r, i) # t
        BY <4>2
      <4>6. ~Has(Peer(t, r, i), r, dim(t, r))'
        BY <1>8, <4>2, <4>4, <4>5
      <4>7. QED BY <4>1, <4>6
    <3>12. MessageInv'
      BY <1>0, <1>3, <1>4, <1>7, <2>2, <2>b, <3>1, <3>2, <3>3, <3>10, <3>11, WaveMessages
    <3>13. restart'[t] = FALSE /\ restart' \in [tiles -> BOOLEAN]
           /\ \A u \in tiles \ {t} : restart'[u] = restart[u]
      BY <1>0, <1>1, <3>4 DEF TypeOK
    <3>14. QED BY <2>2, <3>4, <3>6, <3>7, <3>9, <3>10, <3>12, <3>13
  <2>3. QED BY <1>r, <2>1, <2>2 DEF T1Begin
<1>10. TypeOK'
  <2>1. \A i \in places : <<r, t, i>> \in Elements
    BY <1>2 DEF Elements
  <2>2. data' \in [0 .. 1 -> [tiles -> [places -> Elements]]]
    BY <1>0, <1>2, <1>3, <2>1 DEF TypeOK
  <2>3. round' \in [tiles -> 0 .. LAST_ROUND]
    BY <1>0, <1>2, <1>3 DEF TypeOK
  <2>4. QED BY <1>0, <1>3, <1>9, <2>2, <2>3 DEF TypeOK
<1>11. ProgressInv'
  <2>1. ASSUME NEW u \in tiles \ {t}
        PROVE  Progress(u)'
    BY <1>0, <1>3, <1>4, <1>7, <1>9, Unmoved DEF ProgressInv
  <2>2. received[t] = 0
    BY <1>0, <1>1, <1>2 DEF ProgressInv, Progress
  <2>3. Cardinality({}) = 0
    BY FS_EmptySet
  <2>4. Progress(t)'
    BY <1>2, <1>3, <1>4, <1>5, <1>9, <2>2, <2>3 DEF Progress
  <2>5. QED BY <1>0, <2>1, <2>4 DEF ProgressInv
<1>12. DataInv'
  <2>1. Holds(t)'
    <3>1. r - 1 = round[t]
      BY <1>2, <1>4
    <3>2. \A i \in places : data'[target(r)][t][i] = <<r - 1, t, i>>
      BY <1>5, <3>1
    <3>3. QED BY <1>4, <1>5, <3>2 DEF Holds
  <2>2. QED BY <1>0, <1>8, <2>1 DEF DataInv
<1>13. SentInv'
  <2>1. SUFFICES ASSUME NEW u \in tiles, NEW q \in Rounds, NEW i \in others(u, q), Has(u, q, i)'
                 PROVE  Sent(Peer(u, q, i), q, dim(u, q))'
    BY <1>0 DEF SentInv
  <2>2. Has(u, q, i)
    <3>1. CASE u = t
      <4>1. r > q
        BY <1>4, <1>5, <2>1, <3>1 DEF Has
      <4>2. round[t] > q \/ (round[t] = q /\ round[t] > 0)
        BY <1>2, <1>4, <4>1 DEF Rounds
      <4>3. ASSUME round[t] = q PROVE i \in Got(t)
        <5>1. i \in others(t, round[t])
          BY <3>1, <4>3
        <5>2. Full(t)
          BY <1>2, <1>6, <4>2, <4>3 DEF Rounds
        <5>3. QED BY <5>1, <5>2 DEF Full
      <4>4. QED BY <3>1, <4>2, <4>3 DEF Has
    <3>2. CASE u # t
      BY <1>8, <2>1, <3>2
    <3>3. QED BY <3>1, <3>2
  <2>3. Sent(Peer(u, q, i), q, dim(u, q))
    BY <1>0, <2>2 DEF SentInv
  <2>4. Peer(u, q, i) \in tiles /\ dim(u, q) \in places
    BY Peers DEF others
  <2>5. QED BY <1>9, <2>3, <2>4
<1>14. PaceInv'
  <2>1. ASSUME NEW u \in tiles
        PROVE  /\ (round[u] > 0 /\ Got(u) # {} => \A w \in tiles : round[w] >= round[u])'
               /\ (\A w \in tiles : round[w] >= round[u] - 1)'
    <3>1. CASE u = t
      <4>1. round'[u] = r /\ Got(u)' = {}
        BY <1>4, <1>5, <3>1
      <4>2. ASSUME NEW w \in tiles PROVE round'[w] >= r - 1
        <5>1. round'[w] \in Nat /\ round[w] \in Nat /\ round'[w] >= round[w]
          BY <1>7
        <5>2. round[t] > 0 => round[w] >= round[t]
          BY <1>6
        <5>3. round[t] \in Nat /\ r - 1 = round[t]
          BY <1>2, <1>r
        <5>4. QED BY <5>1, <5>2, <5>3
      <4>3. QED BY <4>1, <4>2
    <3>2. CASE u # t
      <4>1. round'[u] = round[u] /\ Got(u)' = Got(u)
        BY <1>4, <1>8, <3>2
      <4>2. QED BY <1>0, <1>7, <4>1 DEF PaceInv
    <3>3. QED BY <3>1, <3>2
  <2>2. QED BY <1>0, <2>1 DEF PaceInv
<1>15. QED BY <1>9, <1>10, <1>11, <1>12, <1>13, <1>14 DEF FFTInv

(* T1 goes on sending its line.                                            *)
LEMMA T1ResumeInv ==
  ASSUME FFTInv, NEW t \in tiles, T1Resume(t)
  PROVE  FFTInv'
<1>0. TypeOK /\ ProgressInv /\ DataInv /\ MessageInv /\ SentInv /\ PaceInv
  BY DEF FFTInv
<1>a. \E i \in places : iq0[t] = <<i>>
  BY <1>0 DEF T1Resume, runnable, TypeOK
<1>b. \E q \in 0 .. LAST_ROUND : q = round[t]
  BY <1>0 DEF TypeOK
<1>1. PICK first \in places : iq0[t] = <<first>>
  BY <1>a
<1>2. PICK r \in 0 .. LAST_ROUND : r = round[t]
  BY <1>b
<1>3. first # 0 /\ first \in Nat /\ GRID_X \in Nat /\ LAST_ROUND \in 1 .. 3
  BY <1>1, Sizes DEF T1Resume, places
<1>4. iq0[t] \notin {<<>>, <<0>>}
  BY <1>1, <1>3
<1>5. r \in Rounds /\ first \in others(t, r)
  <2>1. Progress(t)
    BY <1>0 DEF ProgressInv
  <2>2. r # 0 /\ r # LAST_ROUND /\ first # dim(t, r)
    BY <1>1, <1>2, <1>4, <2>1 DEF Progress
  <2>3. QED BY <1>3, <2>2 DEF Rounds, others
<1>6. data' = data /\ received' = received /\ round' = round /\ net' = net /\ runnable(t)
  BY DEF T1Resume
<1>7. SendWave(t, r, first)
  BY <1>1, <1>2 DEF T1Resume
<1>8. data'[array(r)][t] = [i \in places |-> <<r, t, i>>]
  <2>1. array(r) \in 0 .. 1
    BY <1>3, Arrays
  <2>2. data[array(r)][t] \in [places -> Elements]
    BY <1>0, <2>1 DEF TypeOK
  <2>3. \A i \in places : data[array(r)][t][i] = <<r, t, i>>
    BY <1>0, <1>2 DEF DataInv, Holds
  <2>4. QED BY <1>6, <2>2, <2>3
<1> DEFINE end == WaveEnd(t, r, first)
           next == NextIdx(t, r, end)
<1>9. /\ oq' \in [tiles -> Seq(Messages)]
      /\ end \in first + 1 .. GRID_X /\ next \in end .. GRID_X /\ next # dim(t, r)
      /\ iq0' = [iq0 EXCEPT ![t] = GoOn(t, next)]
      /\ restart' = [restart EXCEPT ![t] = @ /\ next < GRID_X]
  BY <1>0, <1>5, <1>6, <1>7, <1>8, WaveQueued
<1>c. \E n \in first + 1 .. GRID_X : n = next
  <2> HIDE DEF end, next
  <2>1. QED BY <1>3, <1>9
<1>d. PICK n \in first + 1 .. GRID_X : n = next
  BY <1>c
<1> HIDE DEF end, next
<1>10. n \in 1 .. GRID_X /\ n # 0 /\ n \in Int
  BY <1>3
<1>11. /\ iq0' \in [tiles -> {<<>>} \cup {<<i>> : i \in places}] /\ Next_idx(t)' = n
       /\ iq0'[t] = GoOn(t, n) /\ \A u \in tiles \ {t} : iq0'[u] = iq0[u]
  <2>1. iq0' = [iq0 EXCEPT ![t] = GoOn(t, n)]
    BY <1>9, <1>d
  <2>2. QED BY <1>0, <1>10, <2>1, NextAfterWave DEF TypeOK
<1>12. /\ restart' \in [tiles -> BOOLEAN] /\ restart'[t] = (restart[t] /\ n < GRID_X)
       /\ \A u \in tiles \ {t} : restart'[u] = restart[u]
  BY <1>0, <1>9, <1>d DEF TypeOK
<1>13. \A u \in tiles : /\ Got(u)' = Got(u) /\ (Full(u)' <=> Full(u)) /\ Holds(u)'
                         /\ \A q, i : Has(u, q, i)' <=> Has(u, q, i)
  BY <1>0, <1>6, Unmoved DEF DataInv, TypeOK
<1>14. \A s \in tiles, q \in Rounds, i \in places : Sent(s, q, i) => Sent(s, q, i)'
  <2>1. SUFFICES ASSUME NEW s \in tiles, NEW q \in Rounds, NEW i \in places, Sent(s, q, i)
                 PROVE  Sent(s, q, i)'
    OBVIOUS
  <2>2. CASE s = t
    <3>1. Next_idx(t) = first
      BY <1>1, <1>4 DEF Next_idx
    <3>2. i \in Int /\ (i < first => i < n)
      BY <1>3, <1>10 DEF places
    <3>3. QED BY <1>6, <1>11, <2>1, <2>2, <3>1, <3>2 DEF Sent
  <2>3. CASE s # t
    BY <1>6, <1>11, <2>1, <2>3 DEF Sent, Next_idx
  <2>4. QED BY <2>2, <2>3
<1>15. MessageInv'
  <2>1. \A m \in Underway : ~Has(m.to, m.round, m.dim)'
    BY <1>0, <1>13, MessagesUnderway DEF MessageInv
  <2>2. \A u \in tiles : round'[u] \in Nat /\ round'[u] >= round[u]
    BY <1>0, <1>6 DEF TypeOK
  <2>3. ASSUME NEW i \in others(t, r), i >= first
        PROVE  ~Sent(t, r, i) /\ ~Has(Peer(t, r, i), r, dim(t, r))'
    <3>1. /\ i \in places /\ i # dim(t, r) /\ Peer(t, r, i) \in tiles /\ dim(Peer(t, r, i), r) = i
          /\ Peer(Peer(t, r, i), r, dim(t, r)) = t /\ dim(t, r) \in places
      BY <1>5, Peers DEF others
    <3>2. Next_idx(t) = first
      BY <1>1, <1>4 DEF Next_idx
    <3>3. ~Sent(t, r, i)
      BY <1>2, <1>3, <2>3, <3>1, <3>2 DEF Sent, places
    <3>4. dim(t, r) \in others(Peer(t, r, i), r)
      BY <3>1 DEF others
    <3>5. ~Has(Peer(t, r, i), r, dim(t, r))
      BY <1>0, <1>5, <3>1, <3>3, <3>4 DEF SentInv
    <3>6. QED BY <1>13, <3>1, <3>3, <3>5
  <2>4. TypeOK /\ MessageInv /\ net' = net /\ round'[t] = r
    BY <1>0, <1>2, <1>6
  <2>5. QED BY <1>5, <1>6, <1>7, <1>8, <1>14, <2>1, <2>2, <2>3, <2>4, WaveMessages
<1>16. TypeOK'
  BY <1>0, <1>6, <1>9, <1>11, <1>12 DEF TypeOK
<1>17. ProgressInv'
  <2>1. ASSUME NEW u \in tiles \ {t}
        PROVE  Progress(u)'
    BY <1>0, <1>6, <1>11, <1>12, Unmoved DEF ProgressInv, TypeOK
  <2>2. Progress(t)
    BY <1>0 DEF ProgressInv
  <2>3. /\ round[t] > 0 /\ round[t] # 0 /\ round[t] # LAST_ROUND /\ round'[t] = round[t]
        /\ n # dim(t, round'[t])
    BY <1>2, <1>5, <1>6, <1>9, <1>d, Sizes DEF Rounds
  <2>4. /\ Full(t) <=> restart[t]
        /\ received[t] = IF Full(t) THEN 0 ELSE Cardinality(Got(t))
    BY <1>4, <2>2, <2>3 DEF Progress
  <2>a. /\ received'[t] = IF Full(t)' THEN 0 ELSE Cardinality(Got(t)')
        /\ Full(t)' <=> restart[t]
    BY <1>6, <1>13, <2>4
  <2>b. round'[t] > 0 /\ round'[t] # 0 /\ round'[t] # LAST_ROUND
    BY <2>3
  <2>5. ASSUME n < GRID_X PROVE Progress(t)'
    <3>1. iq0'[t] = <<n>> /\ restart'[t] = restart[t]
      BY <1>0, <1>11, <1>12, <2>5 DEF GoOn, TypeOK
    <3>2. iq0'[t] # <<>> /\ iq0'[t] # <<0>> /\ iq0'[t][1] # dim(t, round'[t])
      BY <1>10, <2>3, <3>1
    <3>3. iq0'[t] \notin {<<>>, <<0>>} /\ (Full(t)' <=> iq0'[t] = <<0>> \/ restart'[t])
      BY <2>a, <3>1, <3>2
    <3>4. QED BY <2>a, <2>b, <3>2, <3>3 DEF Progress
  <2>6. ASSUME ~(n < GRID_X) PROVE Progress(t)'
    <3>1. iq0'[t] = IF restart[t] THEN <<0>> ELSE <<>>
      BY <1>11, <2>6 DEF GoOn
    <3>2. ~restart'[t] /\ <<>> # <<0>>
      BY <1>12, <2>6
    <3>3. iq0'[t] \in {<<>>, <<0>>} /\ (Full(t)' <=> iq0'[t] = <<0>> \/ restart'[t])
      BY <2>a, <3>1, <3>2
    <3>4. QED BY <2>a, <2>b, <3>2, <3>3 DEF Progress
  <2>7. QED BY <2>1, <2>5, <2>6 DEF ProgressInv
<1>18. DataInv'
  BY <1>13 DEF DataInv
<1>19. SentInv'
  <2>1. SUFFICES ASSUME NEW u \in tiles, NEW q \in Rounds, NEW i \in others(u, q), Has(u, q, i)'
                 PROVE  Sent(Peer(u, q, i), q, dim(u, q))'
    BY DEF SentInv
  <2>2. Sent(Peer(u, q, i), q, dim(u, q))
    BY <1>0, <1>13, <2>1 DEF SentInv
  <2>3. Peer(u, q, i) \in tiles /\ dim(u, q) \in places
    BY Peers DEF others
  <2>4. QED BY <1>14, <2>2, <2>3
<1>20. PaceInv'
  BY <1>0, <1>6, <1>13 DEF PaceInv
<1>21. QED BY <1>15, <1>16, <1>17, <1>18, <1>19, <1>20 DEF FFTInv

(* A message enters the network.                                           *)
LEMMA InjectInv ==
  ASSUME FFTInv, NEW t \in tiles, Inject(t)
  PROVE  FFTInv'
<1>0. TypeOK /\ ProgressInv /\ DataInv /\ MessageInv /\ SentInv /\ PaceInv
  BY DEF FFTInv
<1> DEFINE h == Head(oq[t])
<1>1. /\ iq0' = iq0 /\ received' = received /\ round' = round /\ restart' = restart /\ data' = data
      /\ net' = net \cup {h} /\ oq' = [oq EXCEPT ![t] = Tail(@)] /\ oq[t] # <<>> /\ Paced(h)
  BY DEF Inject
<1>2. /\ oq[t] \in Seq(Messages) /\ Len(oq[t]) \in Nat /\ Len(oq[t]) > 0
      /\ DOMAIN oq[t] = 1 .. Len(oq[t]) /\ h = oq[t][1] /\ h \in Messages
      /\ Tail(oq[t]) \in Seq(Messages) /\ Len(Tail(oq[t])) = Len(oq[t]) - 1
      /\ \A k \in 1 .. Len(oq[t]) - 1 : Tail(oq[t])[k] = oq[t][k + 1]
  <2>1. oq[t] \in Seq(Messages)
    BY <1>0 DEF TypeOK
  <2>2. QED BY <1>1, <2>1, HeadTailProperties, EmptySeq, LenProperties, ElementOfSeq
<1> HIDE DEF h
<1>3. /\ oq' \in [tiles -> Seq(Messages)] /\ oq'[t] = Tail(oq[t])
      /\ \A s \in tiles \ {t} : oq'[s] = oq[s]
  BY <1>0, <1>1, <1>2 DEF TypeOK
<1>4. DOMAIN oq'[t] = 1 .. Len(oq[t]) - 1 /\ \A k \in DOMAIN oq'[t] : oq'[t][k] = oq[t][k + 1]
  BY <1>2, <1>3, LenProperties
<1>5. \A s \in tiles : \A k \in DOMAIN oq'[s] :
        IF s = t THEN k + 1 \in DOMAIN oq[t] /\ oq'[t][k] = oq[t][k + 1] /\ k + 1 # 1
                 ELSE k \in DOMAIN oq[s] /\ oq'[s][k] = oq[s][k]
  BY <1>2, <1>3, <1>4
<1>6. Underway' \subseteq Underway
  <2>1. DOMAIN oq' = tiles /\ DOMAIN oq = tiles
    BY <1>0, <1>3 DEF TypeOK
  <2>2. h \in Underway
    BY <1>2, <2>1 DEF Underway
  <2>3. ASSUME NEW s \in tiles, NEW k \in DOMAIN oq'[s] PROVE oq'[s][k] \in Underway
    BY <1>5, <2>1 DEF Underway
  <2>4. QED BY <1>1, <2>1, <2>2, <2>3 DEF Underway
<1>7. \A u \in tiles : /\ Got(u)' = Got(u) /\ Holds(u)' /\ Progress(u)'
                        /\ \A q, i : Has(u, q, i)' <=> Has(u, q, i)
  BY <1>0, <1>1, Unmoved DEF DataInv, ProgressInv, TypeOK
<1>a. \A s \in tiles, q \in Rounds, i \in places : Sent(s, q, i) => Sent(s, q, i)'
  BY <1>1 DEF Sent, Next_idx
<1>b. \A u \in tiles, q \in Rounds, i \in places : Has(u, q, i)' => Has(u, q, i)
  BY <1>7
<1>8. MessageInv'
  <2>1. \A m \in Underway' : Sent(m.from, m.round, dim(m.to, m.round))' /\ ~Has(m.to, m.round, m.dim)'
    <3>1. SUFFICES ASSUME NEW m \in Underway
                   PROVE  Sent(m.from, m.round, dim(m.to, m.round))' /\ ~Has(m.to, m.round, m.dim)'
      BY <1>6
    <3>2. /\ m.from \in tiles /\ m.to \in tiles /\ m.round \in Rounds
          /\ dim(m.to, m.round) \in places /\ m.dim \in places
      BY <1>0, MessagesUnderway DEF others
    <3>3. Sent(m.from, m.round, dim(m.to, m.round)) /\ ~Has(m.to, m.round, m.dim)
      BY <1>0 DEF MessageInv
    <3>4. QED BY <1>a, <1>b, <3>2, <3>3
  <2>2. \A m \in net' : Paced(m)'
    BY <1>0, <1>1 DEF MessageInv, Paced
  <2>3. ASSUME NEW s \in tiles, NEW k \in DOMAIN oq'[s]
        PROVE  oq'[s][k].from = s /\ oq'[s][k] \notin net'
    <3>1. oq'[s][k].from = s /\ oq'[s][k] \notin net
      BY <1>0, <1>5 DEF MessageInv
    <3>2. oq'[s][k] # h
      <4>1. CASE s = t
        BY <1>0, <1>2, <1>5, <4>1 DEF MessageInv
      <4>2. CASE s # t
        BY <1>0, <1>2, <3>1, <4>2 DEF MessageInv
      <4>3. QED BY <4>1, <4>2
    <3>3. QED BY <1>1, <3>1, <3>2
  <2>4. ASSUME NEW s \in tiles, NEW k \in DOMAIN oq'[s], NEW l \in DOMAIN oq'[s], oq'[s][k] = oq'[s][l]
        PROVE  k = l
    <3>1. CASE s = t
      <4>1. k + 1 = l + 1
        BY <1>0, <1>5, <2>4, <3>1 DEF MessageInv
      <4>2. k \in Int /\ l \in Int
        BY <1>2, <1>4, <3>1
      <4>3. QED BY <4>1, <4>2
    <3>2. CASE s # t
      BY <1>0, <1>5, <2>4, <3>2 DEF MessageInv
    <3>3. QED BY <3>1, <3>2
  <2>5. QED BY <2>1, <2>2, <2>3, <2>4 DEF MessageInv
<1>9. TypeOK'
  BY <1>0, <1>1, <1>2, <1>3 DEF TypeOK
<1>10. ProgressInv' /\ DataInv'
  BY <1>7 DEF ProgressInv, DataInv
<1>11. SentInv'
  <2>1. SUFFICES ASSUME NEW u \in tiles, NEW q \in Rounds, NEW i \in others(u, q), Has(u, q, i)'
                 PROVE  Sent(Peer(u, q, i), q, dim(u, q))'
    BY DEF SentInv
  <2>2. Sent(Peer(u, q, i), q, dim(u, q))
    BY <1>0, <1>b, <2>1 DEF SentInv, others
  <2>3. Peer(u, q, i) \in tiles /\ dim(u, q) \in places
    BY Peers DEF others
  <2>4. QED BY <1>a, <2>2, <2>3
<1>12. PaceInv'
  BY <1>0, <1>1, <1>7 DEF PaceInv
<1>13. QED BY <1>8, <1>9, <1>10, <1>11, <1>12 DEF FFTInv

-----------------------------------------------------------------------------
(* An element that is underway stands where it was sent from: its tile is  *)
(* at most one round on, and has received nothing there.                   *)
LEMMA UnreadElements == FFTInv => UnreadStands
<1> SUFFICES ASSUME FFTInv, NEW m \in Underway
             PROVE  LET place == dim(m.to, m.round)
                    IN /\ data[array(m.round)][m.from][place] = <<m.round, m.from, place>>
                       /\ m.data = <<m.round, m.from, place>>
  BY DEF UnreadStands
<1>0. TypeOK /\ DataInv /\ MessageInv /\ PaceInv
  BY DEF FFTInv
<1>1. /\ m \in Messages /\ m.from \in tiles /\ m.to \in tiles /\ m.round \in Rounds
      /\ dim(m.to, m.round) \in places /\ m.round \in 0 .. 3
  BY <1>0, MessagesUnderway, Sizes DEF Rounds
<1>2. m.data = <<m.round, m.from, dim(m.to, m.round)>>
  BY <1>1 DEF Messages
<1>3. round[m.from] \in 0 .. LAST_ROUND /\ round[m.to] \in 0 .. LAST_ROUND /\ LAST_ROUND \in 1 .. 3
  BY <1>0, <1>1, Sizes DEF TypeOK
<1>4. ~(round[m.to] > m.round) /\ (round[m.from] > m.round \/ round[m.from] = m.round)
  BY <1>0 DEF MessageInv, Has, Sent
<1>5. Holds(m.from)
  BY <1>0, <1>1 DEF DataInv
<1>6. CASE round[m.from] = m.round
  BY <1>1, <1>2, <1>5, <1>6 DEF Holds
<1>7. CASE round[m.from] > m.round
  <2>1. round[m.to] >= round[m.from] - 1
    BY <1>0, <1>1 DEF PaceInv
  <2>2. round[m.from] = m.round + 1 /\ round[m.to] < round[m.from] /\ round[m.from] > 0
    BY <1>1, <1>3, <1>4, <1>7, <2>1
  <2>3. Got(m.from) = {}
    <3>1. ~(round[m.to] >= round[m.from])
      BY <1>3, <2>2
    <3>2. QED BY <1>0, <1>1, <2>2, <3>1 DEF PaceInv
  <2>4. ~Full(m.from)
    BY <1>1, <1>3, <2>3, OthersExist DEF Full
  <2>5. target(round[m.from]) = array(m.round) /\ round[m.from] - 1 = m.round
    BY <1>1, <2>2, Arrays
  <2>6. QED BY <1>1, <1>2, <1>5, <2>2, <2>3, <2>4, <2>5 DEF Holds
<1>8. QED BY <1>4, <1>6, <1>7

(* Messages between the same tiles in the same round are the same.         *)
LEMMA SameMessage ==
  ASSUME NEW m \in Messages, NEW w \in Messages, w.to = m.to, w.round = m.round, w.dim = m.dim
  PROVE  w = m
<1>1. w.from = m.from
  BY DEF Messages
<1>2. w.data = m.data
  BY <1>1 DEF Messages
<1>3. QED BY <1>1, <1>2 DEF Messages

(* T3 receives the element it is after.                                    *)
LEMMA T3Inv ==
  ASSUME FFTInv, NEW t \in tiles, T3(t)
  PROVE  FFTInv'
<1>0. TypeOK /\ ProgressInv /\ DataInv /\ MessageInv /\ SentInv /\ PaceInv /\ UnreadStands
  BY UnreadElements DEF FFTInv
<1> DEFINE Line(q, d, element) ==
             LET line == [data[target(q)][t] EXCEPT ![d] = element]
             IN IF Complete(received[t] + 1)
                THEN [line EXCEPT ![dim(t, q)] = data[array(q)][t][dim(t, q)]] ELSE line
<1>1. PICK m \in net :
        /\ m.to = t /\ net' = net \ {m} /\ round' = round /\ oq' = oq
        /\ LET element == IF SEND_DATA THEN m.data
                          ELSE data[array(round[t])][Peer(t, round[t], m.dim)][dim(t, round[t])]
           IN data' = [data EXCEPT ![target(round[t])][t] = Line(round[t], m.dim, element)]
        /\ received' = [received EXCEPT ![t] = IF Complete(received[t] + 1) THEN 0 ELSE @ + 1]
        /\ iq0' = [iq0 EXCEPT ![t] = IF Complete(received[t] + 1) /\ @ = <<>> THEN <<0>> ELSE @]
        /\ restart' = [restart EXCEPT ![t] = @ \/ (Complete(received[t] + 1) /\ iq0[t] # <<>>)]
  BY DEF T3
<1>2. m \in Underway
  BY DEF Underway
<1>3. /\ m \in Messages /\ m.from \in tiles /\ m.round \in Rounds /\ m.round \in 1 .. 2
      /\ m.dim \in others(t, m.round) /\ m.dim \in places /\ m.dim # dim(t, m.round)
      /\ m.from = Peer(t, m.round, m.dim) /\ dim(t, m.round) \in places
  BY <1>0, <1>1, <1>2, MessagesUnderway, Peers DEF others
<1>4. \A u \in tiles : round[u] >= m.round
  BY <1>0 DEF MessageInv, Paced
<1>5. round[t] = m.round /\ m.dim \notin Got(t)
  <2>1. ~Has(t, m.round, m.dim)
    BY <1>0, <1>1, <1>2 DEF MessageInv
  <2>2. round[t] \in Nat /\ m.round \in Nat
    BY <1>0, <1>3 DEF TypeOK
  <2>3. QED BY <1>4, <2>1, <2>2 DEF Has
<1>6. PICK r \in Rounds : r = m.round
  BY <1>3
<1>7. /\ round[t] = r /\ r \in 1 .. 2 /\ r > 0 /\ r # 0 /\ r # LAST_ROUND /\ dim(t, r) \in places
      /\ array(r) \in 0 .. 1 /\ target(r) \in 0 .. 1 /\ array(r) # target(r) /\ m.dim \in others(t, r)
      /\ m.dim \in places /\ m.dim # dim(t, r)
  BY <1>3, <1>5, <1>6, Arrays, Sizes DEF Rounds
<1>8. ~Full(t) /\ iq0[t] # <<0>> /\ ~restart[t] /\ received[t] = Cardinality(Got(t))
  <2>1. ~Full(t)
    BY <1>5, <1>7 DEF Full
  <2>2. QED BY <1>0, <1>7, <2>1 DEF ProgressInv, Progress
<1>9. data' = [data EXCEPT ![target(r)][t] = Line(r, m.dim, Element(r, t, m.dim))]
  <2>1. m.data = Element(r, t, m.dim)
    BY <1>1, <1>3, <1>6 DEF Messages, Element
  <2>2. data[array(r)][Peer(t, r, m.dim)][dim(t, r)] = Element(r, t, m.dim)
    BY <1>0, <1>1, <1>2, <1>3, <1>6 DEF UnreadStands, Element
  <2> HIDE DEF Line
  <2>3. QED BY <1>1, <1>7, <2>1, <2>2
<1>10. Line(r, m.dim, Element(r, t, m.dim)) =
         [i \in places |-> IF i = m.dim \/ (Complete(received[t] + 1) /\ i = dim(t, r))
                           THEN Element(r, t, i) ELSE data[target(r)][t][i]]
  <2>1. data[target(r)][t] \in [places -> Elements]
    BY <1>0, <1>7 DEF TypeOK
  <2>2. data[array(r)][t][dim(t, r)] = Element(r, t, dim(t, r))
    BY <1>0, <1>7, Peers DEF DataInv, Holds, Element
  <2>3. QED BY <1>7, <2>1, <2>2
<1>11. /\ data' \in [0 .. 1 -> [tiles -> [places -> Elements]]]
       /\ data'[array(r)][t] = data[array(r)][t]
       /\ \A i \in places : data'[target(r)][t][i] =
            IF i = m.dim \/ (Complete(received[t] + 1) /\ i = dim(t, r))
            THEN Element(r, t, i) ELSE data[target(r)][t][i]
       /\ \A u \in tiles \ {t} : \A b \in 0 .. 1 : data'[b][u] = data[b][u]
  <2>1. \A i \in places : Element(r, t, i) \in Elements
    <3>1. r \in 0 .. LAST_ROUND
      BY <1>7, Sizes DEF Rounds
    <3>2. QED BY <1>7, <3>1, Peers DEF Elements, Element
  <2> DEFINE new == [i \in places |-> IF i = m.dim \/ (Complete(received[t] + 1) /\ i = dim(t, r))
                                      THEN Element(r, t, i) ELSE data[target(r)][t][i]]
  <2>2. data' = [data EXCEPT ![target(r)][t] = new]
    BY <1>9, <1>10
  <2>3. new \in [places -> Elements]
    BY <1>0, <1>7, <2>1 DEF TypeOK
  <2>4. \A i \in places : new[i] = IF i = m.dim \/ (Complete(received[t] + 1) /\ i = dim(t, r))
                                   THEN Element(r, t, i) ELSE data[target(r)][t][i]
    OBVIOUS
  <2> HIDE DEF new
  <2>5. data'[target(r)][t] = new
    BY <1>0, <1>7, <2>2 DEF TypeOK
  <2>6. QED BY <1>0, <1>7, <2>2, <2>3, <2>4, <2>5 DEF TypeOK
<1> HIDE DEF Line
<1>12. Got(t)' = Got(t) \cup {m.dim} /\ m.dim \notin Got(t)
  BY <1>1, <1>5, <1>7, <1>11 DEF Got, others
<1>13. /\ Full(t)' <=> Complete(received[t] + 1)
       /\ ~Complete(received[t] + 1) => Cardinality(Got(t)') = received[t] + 1
  <2>1. IsFiniteSet(others(t, r)) /\ Cardinality(others(t, r)) = GRID_X - 1
    BY <1>7, OthersExist
  <2>2. Got(t) \subseteq others(t, r) /\ Got(t)' \subseteq others(t, r)
    BY <1>7, <1>12 DEF Got
  <2>3. Cardinality(Got(t)') = Cardinality(Got(t)) + 1
    BY <1>12, <2>1, <2>2, FS_Subset, FS_AddElement
  <2>4. Got(t)' = others(t, r) <=> Cardinality(Got(t)') = GRID_X - 1
    BY <2>1, <2>2, FS_Subset
  <2>5. Full(t)' <=> Got(t)' = others(t, r)
    BY <1>1, <1>7 DEF Full
  <2>6. QED BY <1>8, <2>3, <2>4, <2>5 DEF Complete
<1>14. \A u \in tiles \ {t} : /\ Got(u)' = Got(u) /\ Holds(u)' /\ Progress(u)'
                               /\ \A q, i : Has(u, q, i)' <=> Has(u, q, i)
  <2>1. \A u \in tiles \ {t} : iq0'[u] = iq0[u] /\ received'[u] = received[u] /\ restart'[u] = restart[u]
    BY <1>0, <1>1 DEF TypeOK
  <2>2. QED BY <1>0, <1>1, <1>11, <2>1, Unmoved DEF DataInv, ProgressInv, TypeOK
<1>15. /\ iq0'[t] = IF Complete(received[t] + 1) /\ iq0[t] = <<>> THEN <<0>> ELSE iq0[t]
       /\ restart'[t] = (Complete(received[t] + 1) /\ iq0[t] # <<>>)
       /\ received'[t] = IF Complete(received[t] + 1) THEN 0 ELSE received[t] + 1
       /\ iq0' \in [tiles -> {<<>>} \cup {<<i>> : i \in places}] /\ restart' \in [tiles -> BOOLEAN]
       /\ received' \in [tiles -> Nat]
       /\ \A s \in tiles \ {t} : iq0'[s] = iq0[s]
  <2>1. <<0>> \in {<<i>> : i \in places}
    BY Sizes DEF places
  <2>2. QED BY <1>0, <1>1, <1>8, <2>1 DEF TypeOK
<1>a. \A s \in tiles, q \in Rounds, i \in places : Sent(s, q, i) => Sent(s, q, i)'
  <2>1. \A s \in tiles : Next_idx(s)' = Next_idx(s)
    BY <1>15 DEF Next_idx
  <2>2. QED BY <1>1, <2>1 DEF Sent
<1>b. \A u \in tiles, q \in Rounds, i \in places :
        Has(u, q, i)' => Has(u, q, i) \/ (u = t /\ q = r /\ i = m.dim)
  <2>1. SUFFICES ASSUME NEW u \in tiles, NEW q \in Rounds, NEW i \in places, Has(u, q, i)', ~Has(u, q, i)
                 PROVE  u = t /\ q = r /\ i = m.dim
    OBVIOUS
  <2>2. u = t
    BY <1>14, <2>1
  <2>3. QED BY <1>1, <1>7, <1>12, <2>1, <2>2 DEF Has
<1>16. MessageInv'
  <2>1. Underway' \subseteq Underway /\ m \notin Underway'
    BY <1>0, <1>1 DEF Underway, MessageInv, TypeOK
  <2>2. ASSUME NEW w \in Underway'
        PROVE  Sent(w.from, w.round, dim(w.to, w.round))' /\ ~Has(w.to, w.round, w.dim)'
    <3>1. w \in Underway /\ w # m
      BY <2>1
    <3>2. /\ w \in Messages /\ w.from \in tiles /\ w.to \in tiles /\ w.round \in Rounds
          /\ dim(w.to, w.round) \in places /\ w.dim \in places
      BY <1>0, <3>1, MessagesUnderway DEF others
    <3>3. Sent(w.from, w.round, dim(w.to, w.round)) /\ ~Has(w.to, w.round, w.dim)
      BY <1>0, <3>1 DEF MessageInv
    <3>4. ~(w.to = t /\ w.round = r /\ w.dim = m.dim)
      BY <1>1, <1>3, <1>6, <3>1, <3>2, SameMessage
    <3>5. QED BY <1>a, <1>b, <3>2, <3>3, <3>4
  <2>3. \A w \in net' : Paced(w)'
    BY <1>0, <1>1 DEF MessageInv, Paced
  <2>4. QED BY <1>0, <1>1, <2>2, <2>3 DEF MessageInv
<1>17. TypeOK'
  BY <1>0, <1>1, <1>11, <1>15 DEF TypeOK
<1>18. ProgressInv'
  <2>1. round'[t] > 0 /\ round'[t] # 0 /\ round'[t] # LAST_ROUND /\ round'[t] = round[t]
    BY <1>1, <1>7
  <2>2. received'[t] = IF Full(t)' THEN 0 ELSE Cardinality(Got(t)')
    BY <1>13, <1>15
  <2>3. Full(t)' <=> iq0'[t] = <<0>> \/ restart'[t]
    BY <1>8, <1>13, <1>15
  <2>4. iq0'[t] \in {<<>>, <<0>>} => ~restart'[t]
    BY <1>8, <1>15
  <2>5. iq0'[t] \notin {<<>>, <<0>>} => iq0'[t][1] # dim(t, round'[t])
    BY <1>0, <1>15, <2>1 DEF ProgressInv, Progress
  <2>6. Progress(t)'
    BY <2>1, <2>2, <2>3, <2>4, <2>5 DEF Progress
  <2>7. QED BY <1>14, <2>6 DEF ProgressInv
<1>19. DataInv'
  <2>1. \A i \in places : data'[array(r)][t][i] = <<r, t, i>>
    <3>1. Holds(t)
      BY <1>0 DEF DataInv
    <3>2. QED BY <1>7, <1>11, <3>1 DEF Holds
  <2>2. \A i \in places : data[target(r)][t][i] = IF i \in Got(t) THEN Element(r, t, i) ELSE <<r - 1, t, i>>
    BY <1>0, <1>7, <1>8 DEF DataInv, Holds
  <2>3. ASSUME NEW i \in places
        PROVE  data'[target(r)][t][i] =
                 IF i \in Got(t)' \/ Full(t)' THEN Element(r, t, i) ELSE <<r - 1, t, i>>
    <3>1. CASE Full(t)'
      <4>1. i \in Got(t)' \/ i = dim(t, r)
        BY <1>1, <1>7, <3>1 DEF Full, others
      <4>2. i \in Got(t) \/ i = m.dim \/ i = dim(t, r)
        BY <1>12, <4>1
      <4>3. QED BY <1>11, <1>13, <2>2, <3>1, <4>2
    <3>2. CASE ~Full(t)'
      BY <1>11, <1>12, <1>13, <2>2, <3>2
    <3>3. QED BY <3>1, <3>2
  <2>4. round'[t] = r
    BY <1>1, <1>7
  <2>5. Holds(t)'
    BY <2>1, <2>3, <2>4 DEF Holds
  <2>6. QED BY <1>14, <2>5 DEF DataInv
<1>20. SentInv'
  <2>1. SUFFICES ASSUME NEW u \in tiles, NEW q \in Rounds, NEW i \in others(u, q), Has(u, q, i)'
                 PROVE  Sent(Peer(u, q, i), q, dim(u, q))'
    BY DEF SentInv
  <2>2. Sent(Peer(u, q, i), q, dim(u, q))
    <3>1. CASE Has(u, q, i)
      BY <1>0, <3>1 DEF SentInv
    <3>2. CASE u = t /\ q = r /\ i = m.dim
      BY <1>0, <1>1, <1>2, <1>3, <1>6, <3>2 DEF MessageInv
    <3>3. QED BY <1>b, <2>1, <3>1, <3>2 DEF others
  <2>3. Peer(u, q, i) \in tiles /\ dim(u, q) \in places
    BY Peers DEF others
  <2>4. QED BY <1>a, <2>2, <2>3
<1>21. PaceInv'
  <2>1. \A u \in tiles : round[u] >= round[t]
    BY <1>4, <1>5
  <2>2. QED BY <1>0, <1>1, <1>14, <2>1 DEF PaceInv
<1>22. QED BY <1>16, <1>17, <1>18, <1>19, <1>20, <1>21 DEF FFTInv

-----------------------------------------------------------------------------
(* The invariant holds throughout: for any size of the grid, any number of *)
(* rounds, queues of any size, and data that is sent or fetched.           *)
LEMMA StepInv == FFTInv /\ [Next]_vars => FFTInv'
<1> SUFFICES ASSUME FFTInv, [Next]_vars PROVE FFTInv'
  OBVIOUS
<1>1. CASE UNCHANGED vars
  <2>1. /\ \A t : Got(t)' = Got(t) /\ (Full(t)' <=> Full(t))
        /\ Underway' = Underway /\ \A m : Paced(m)' <=> Paced(m)
    BY <1>1 DEF vars, Got, Full, Underway, Paced
  <2>2. \A t : \A r, i : (Has(t, r, i)' <=> Has(t, r, i)) /\ (Sent(t, r, i)' <=> Sent(t, r, i))
    BY <1>1, <2>1 DEF vars, Has, Sent, Next_idx
  <2>3. TypeOK' /\ ProgressInv' /\ DataInv' /\ PaceInv'
    BY <1>1, <2>1 DEF vars, FFTInv, TypeOK, ProgressInv, Progress, DataInv, Holds, PaceInv
  <2>4. MessageInv' /\ SentInv'
    BY <1>1, <2>1, <2>2 DEF vars, FFTInv, MessageInv, SentInv
  <2>5. QED BY <2>3, <2>4 DEF FFTInv
<1>2. ASSUME NEW t \in tiles, T1Begin(t) \/ T1Resume(t) \/ T3(t) \/ Inject(t)
      PROVE  FFTInv'
  BY <1>2, T1BeginInv, T1ResumeInv, T3Inv, InjectInv
<1>3. QED BY <1>1, <1>2 DEF Next

(* The invariant holds of every behaviour.                                 *)
THEOREM FFTInvariance == Spec => []FFTInv
<1>1. QED BY InitInv, StepInv, PTL DEF Spec

(* A message arrives in the round it was sent in (apps/fft.h:244).         *)
THEOREM RoundsNeverMix == Spec => []RoundsAgree
<1>1. FFTInv => RoundsAgree
  <2>1. SUFFICES ASSUME FFTInv, NEW m \in net
                 PROVE  round[m.to] = m.round /\ m.from = Peer(m.to, round[m.to], m.dim)
    BY DEF RoundsAgree
  <2>2. m \in Underway /\ TypeOK /\ MessageInv
    BY <2>1 DEF Underway, FFTInv
  <2>3. m.to \in tiles /\ m.round \in Nat /\ m.from = Peer(m.to, m.round, m.dim)
    BY <2>2, MessagesUnderway DEF Rounds
  <2>4. round[m.to] \in Nat /\ round[m.to] >= m.round /\ ~(round[m.to] > m.round)
    BY <2>2, <2>3 DEF TypeOK, MessageInv, Paced, Has
  <2>5. QED BY <2>3, <2>4
<1>2. QED BY <1>1, FFTInvariance, PTL

(* What T3 fetches is still what was computed in the round of the message, *)
(* although the tile it is fetched from may have gone on (apps/fft.h:274). *)
THEOREM UnreadStaysThere == Spec => []UnreadStands
<1>1. QED BY UnreadElements, FFTInvariance, PTL

(* Every computation after the first begins on the line transposed: T1 is  *)
(* told to go on when its last element came, and not before                *)
(* (apps/fft.h:287).                                                       *)
THEOREM TransposesRight == Spec => RightTransposes
<1>1. FFTInv /\ [Next]_vars => [BeginsRight]_vars
  <2>1. SUFFICES ASSUME FFTInv, Next, NEW t \in tiles, round[t] > 0, round'[t] # round[t]
                 PROVE  \A i \in DOMAIN data[array(round'[t])][t] :
                          data[array(round'[t])][t][i] = Element(round[t], t, i)
    <3>1. FFTInv => DOMAIN round = tiles
      BY DEF FFTInv, TypeOK
    <3>2. QED BY <3>1 DEF BeginsRight, Element
  <2>0. TypeOK /\ ProgressInv /\ DataInv
    BY <2>1 DEF FFTInv
  <2>2. T1Begin(t)
    <3>1. ASSUME NEW u \in tiles, T1Begin(u), u # t PROVE FALSE
      BY <2>0, <2>1, <3>1 DEF T1Begin, TypeOK
    <3>2. UNCHANGED round \/ \E u \in tiles : T1Begin(u)
      BY <2>1 DEF Next, T1Resume, T3, Inject, vars
    <3>3. QED BY <2>1, <3>1, <3>2
  <2>3. iq0[t] = <<0>>
    <3>1. PICK i \in places : iq0[t] = <<i>>
      BY <2>0, <2>2 DEF T1Begin, runnable, TypeOK
    <3>2. i = 0
      BY <2>2, <3>1 DEF T1Begin
    <3>3. QED BY <3>1, <3>2
  <2>4. round[t] \in 0 .. 3 /\ round'[t] = round[t] + 1
    BY <2>0, <2>2, Sizes DEF TypeOK, T1Begin
  <2>5. array(round'[t]) = target(round[t]) /\ target(round[t]) \in 0 .. 1
    BY <2>4, Arrays
  <2>6. DOMAIN data[array(round'[t])][t] = places
    BY <2>0, <2>5 DEF TypeOK
  <2>7. Full(t)
    BY <2>0, <2>1, <2>3 DEF ProgressInv, Progress
  <2>8. QED BY <2>0, <2>1, <2>5, <2>6, <2>7 DEF DataInv, Holds
<1>2. QED BY <1>1, FFTInvariance, PTL DEF Spec, RightTransposes
=============================================================================
