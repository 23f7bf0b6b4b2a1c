--------------------------------- MODULE FFT ---------------------------------
(***************************************************************************)
(* The two-dimensional FFT (apps/fft.h): every tile keeps one line of the  *)
(* matrix and transforms it, the tiles of a row exchange their elements,   *)
(* transform again, those of a column exchange theirs, and transform for   *)
(* the third time.  T1 computes and sends, T3 receives; they hand the next *)
(* round to each other through the queue of T1 or a flag.                  *)
(*                                                                         *)
(* An element is its history: <<r, t, i>> is what the r-th computation of  *)
(* tile t left at place i.  T3 needs no room for an answer, so its queue   *)
(* is part of the network here, which keeps no order.                      *)
(***************************************************************************)
EXTENDS Integers, Sequences, FiniteSetsExt

CONSTANTS
  GRID_X,       \* tiles of a row, and of a column
  LINES,        \* the rows that are modelled: all, or one of them
  LAST_ROUND,   \* the computation after which a tile stops (3 in the code)
  SEND_DATA,    \* whether messages carry the element or T3 fetches it
  oq_size       \* oq_sizes[2]

ASSUME FFTAssumption ==
  /\ GRID_X \in Nat \ {0, 1} /\ LINES \subseteq 0 .. GRID_X - 1
  /\ LAST_ROUND \in 1 .. 3 /\ SEND_DATA \in BOOLEAN /\ oq_size \in Nat
  /\ LAST_ROUND = 3 => LINES = 0 .. GRID_X - 1

places == 0 .. GRID_X - 1
tiles == places \X LINES
num_task_params == IF SEND_DATA THEN 4 ELSE 2

VARIABLES
  iq0,        \* iq0[t]: the queue of T1
  received,   \* global_params[0]: the elements that came in this round
  round,      \* global_params[1]
  restart,    \* global_params[2]: T1 is to begin a round when it has sent all
  data,       \* data[0] is fft_array, data[1] is fft_trans
  oq,         \* oq[t]: the output queue to T3
  net         \* the messages between there and T3

vars == <<iq0, received, round, restart, data, oq, net>>

(* The array that round r computes in and sends from; its other one        *)
(* receives.                                                               *)
array(r) == (r + 1) % 2
(* The place of tile t in its line, and the tile at place i of that line.  *)
dim(t, r) == IF r % 2 = 1 THEN t[1] ELSE t[2]
Peer(t, r, i) == IF r = 1 THEN <<i, t[2]>> ELSE <<t[1], i>>

(* task_init()                                                             *)
Init ==
  /\ iq0 = [t \in tiles |-> <<0>>]
  /\ received = [t \in tiles |-> 0]
  /\ round = [t \in tiles |-> 0]
  /\ restart = [t \in tiles |-> FALSE]
  /\ data = [b \in 0 .. 1 |-> [t \in tiles |-> [i \in places |-> <<0, t, i>>]]]
  /\ oq = [t \in tiles |-> <<>>]
  /\ net = {}
-----------------------------------------------------------------------------
(* T1.                                                                     *)

oq_room(t) == oq_size - num_task_params * Len(oq[t])
runnable(t) == iq0[t] # <<>> /\ oq_room(t) > 8

(* fft_1d(), in place.                                                     *)
Transformed(t, r) == [data EXCEPT ![array(r)][t] = [i \in places |-> <<r, t, i>>]]

(* The elements of idx .. WaveEnd - 1 go to the tiles at these places: one *)
(* wave to those before the tile, then one to those behind it.             *)
WaveEnd(t, r, idx) == LET to == IF idx < dim(t, r) THEN dim(t, r) ELSE GRID_X
                      IN Min({to, idx + oq_room(t) \div num_task_params})

(* Fault: the second wave begins at the tile itself.                       *)
NextIdxSelf(t, r, end) == end
NextIdx(t, r, end) == IF end = dim(t, r) THEN end + 1 ELSE end

(* Fault: T1 does not look at the flag.                                    *)
GoOnUnflagged(t, next) == IF next < GRID_X THEN <<next>> ELSE <<>>
GoOn(t, next) == IF next < GRID_X THEN <<next>> ELSE IF restart[t] THEN <<0>> ELSE <<>>

SendWave(t, r, idx) ==
  LET end == WaveEnd(t, r, idx)
      next == NextIdx(t, r, end)
      message(i) == [from |-> t, to |-> Peer(t, r, i), dim |-> dim(t, r),
                     data |-> data'[array(r)][t][i], round |-> r]
  IN /\ oq' = [oq EXCEPT ![t] = @ \o [i \in 1 .. end - idx |-> message(idx + i - 1)]]
     /\ iq0' = [iq0 EXCEPT ![t] = Tail(@) \o GoOn(t, next)]
     /\ restart' = [restart EXCEPT ![t] = @ /\ next < GRID_X]

T1Begin(t) ==
  LET r == round[t] + 1
  IN /\ runnable(t) /\ Head(iq0[t]) = 0
     /\ round' = [round EXCEPT ![t] = r]
     /\ data' = Transformed(t, r)
     /\ \/ /\ r = LAST_ROUND
           /\ iq0' = [iq0 EXCEPT ![t] = Tail(@)]
           /\ UNCHANGED <<oq, restart>>
        \/ /\ r # LAST_ROUND
           /\ SendWave(t, r, IF dim(t, r) = 0 THEN 1 ELSE 0)
     /\ UNCHANGED <<received, net>>

T1Resume(t) ==
  /\ runnable(t) /\ Head(iq0[t]) # 0
  /\ UNCHANGED data
  /\ SendWave(t, round[t], Head(iq0[t]))
  /\ UNCHANGED <<received, round, net>>
-----------------------------------------------------------------------------
(* T3 does not know which round a message is of: it takes its own.         *)

(* Fault: one element too few.                                             *)
CompleteEarly(n) == n = GRID_X - 2
Complete(n) == n = GRID_X - 1

(* Fault: elements are put in the array they are fetched from.             *)
targetSame(r) == array(r)
target(r) == 1 - array(r)

T3(t) ==
  \E m \in net :
    LET r == round[t]
        element == IF SEND_DATA THEN m.data ELSE data[array(r)][Peer(t, r, m.dim)][dim(t, r)]
        complete == Complete(received[t] + 1)
        line == [data[target(r)][t] EXCEPT ![m.dim] = element]
        own == data[array(r)][t][dim(t, r)]
    IN /\ m.to = t
       /\ net' = net \ {m}
       /\ data' = [data EXCEPT ![target(r)][t] =
                      IF complete THEN [line EXCEPT ![dim(t, r)] = own] ELSE line]
       /\ received' = [received EXCEPT ![t] = IF complete THEN 0 ELSE @ + 1]
       /\ iq0' = [iq0 EXCEPT ![t] = IF complete /\ @ = <<>> THEN <<0>> ELSE @]
       /\ restart' = [restart EXCEPT ![t] = @ \/ (complete /\ iq0[t] # <<>>)]
       /\ UNCHANGED <<round, oq>>

(* What the code takes from its timing, and does not wait for: the first   *)
(* message of a round leaves a tile after a computation of more than 60    *)
(* cycles per element, and by then every tile has all elements of the      *)
(* round before and has begun this one.                                    *)
Paced(m) == \A t \in tiles : round[t] >= m.round

Inject(t) ==
  /\ oq[t] # <<>> /\ Paced(Head(oq[t]))
  /\ net' = net \cup {Head(oq[t])}
  /\ oq' = [oq EXCEPT ![t] = Tail(@)]
  /\ UNCHANGED <<iq0, received, round, restart, data>>

Finished == /\ net = {}
            /\ \A t \in tiles : iq0[t] = <<>> /\ oq[t] = <<>> /\ round[t] = LAST_ROUND

Next == \/ \E t \in tiles : T1Begin(t) \/ T1Resume(t) \/ T3(t) \/ Inject(t)
        \/ Finished /\ UNCHANGED vars

Spec == Init /\ [][Next]_vars
-----------------------------------------------------------------------------
(* A message arrives in the round it was sent in: T3, which takes its      *)
(* own, writes the element to the right place (apps/fft.h:244).            *)
RoundsAgree == \A m \in net : round[m.to] = m.round /\ m.from = Peer(m.to, round[m.to], m.dim)

(* Until T3 has it, the element stands where T1 sent it from: T3 may fetch *)
(* it there, and its assertion on the data that came with the message      *)
(* holds (apps/fft.h:274).                                                 *)
Underway == net \cup UNION {{oq[t][i] : i \in DOMAIN oq[t]} : t \in DOMAIN oq}
UnreadStands == \A m \in Underway :
                  LET place == dim(m.to, m.round)
                  IN /\ data[array(m.round)][m.from][place] = <<m.round, m.from, place>>
                     /\ m.data = <<m.round, m.from, place>>

(* A computation begins on the transposition of what the line's tiles      *)
(* computed before: each element the one of this round, none missing       *)
(* (apps/fft.h:287).                                                       *)
BeginsRight ==
  \A t \in DOMAIN round :
    round[t] > 0 /\ round'[t] # round[t] =>
      \A i \in DOMAIN data[array(round'[t])][t] :
        data[array(round'[t])][t][i] = <<round[t], Peer(t, round[t], i), dim(t, round[t])>>
RightTransposes == [][BeginsRight]_vars
=============================================================================
