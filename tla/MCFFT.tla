-------------------------------- MODULE MCFFT --------------------------------
(***************************************************************************)
(* The three rounds on a grid of 2x2 tiles (the values in the .cfg file),  *)
(* and the first exchange in a row of four, where a wave does not fit in   *)
(* the output queue; the rows of a grid have nothing to do with each other *)
(* until it is over.  And the computation of one line of 2 to 16 numbers.  *)
(***************************************************************************)
EXTENDS FFT, FFTLine, TLC

VARIABLE conf

Row == INSTANCE FFT WITH GRID_X <- 4, LINES <- {0}, LAST_ROUND <- 2, SEND_DATA <- TRUE, oq_size <- 9

all == <<vars, lineVars, conf>>

(* 3 generates the integers modulo 17.  A transform that is right for the  *)
(* lines with a single 1 is right for their sums.                          *)
Roots17 == 2 :> 16 @@ 4 :> 13 @@ 8 :> 9 @@ 16 :> 3
SomeLines == UNION {{[k \in 0 .. n - 1 |-> IF k = one THEN 1 ELSE 0] : one \in 0 .. n - 1}
                      \cup {[k \in 0 .. n - 1 |-> (k * k + 3) % 17]} : n \in {2, 4, 8, 16}}

none == "none"
NoLine == doing = none /\ input = none /\ line = none /\ m = none /\ i = none /\ j = none
(* A grid without tiles.                                                   *)
NoTiles == /\ iq0 = <<>> /\ received = <<>> /\ round = <<>> /\ restart = <<>> /\ data = <<>>
           /\ oq = <<>> /\ net = {}

InitAny ==
  \/ conf = "grid" /\ Init /\ NoLine
  \/ conf = "row" /\ Row!Init /\ NoLine
  \/ conf = "line" /\ InitLine /\ NoTiles

TileTask(t) ==
  /\ UNCHANGED <<lineVars, conf>>
  /\ \/ conf = "grid" /\ t \in tiles /\ (T1Begin(t) \/ T1Resume(t))
     \/ conf = "row" /\ t \in Row!tiles /\ (Row!T1Begin(t) \/ Row!T1Resume(t))

Receive(t) ==
  /\ UNCHANGED <<lineVars, conf>>
  /\ \/ conf = "grid" /\ t \in tiles /\ T3(t)
     \/ conf = "row" /\ t \in Row!tiles /\ Row!T3(t)

Leave(t) ==
  /\ UNCHANGED <<lineVars, conf>>
  /\ \/ conf = "grid" /\ t \in tiles /\ Inject(t)
     \/ conf = "row" /\ t \in Row!tiles /\ Row!Inject(t)

Compute == conf = "line" /\ NextLine /\ UNCHANGED <<vars, conf>>

FinishedAny ==
  \/ conf = "grid" /\ Finished
  \/ conf = "row" /\ Row!Finished
  \/ conf = "line" /\ LineDone

tilesAny == tiles \cup Row!tiles

Step == Compute \/ \E t \in tilesAny : TileTask(t) \/ Receive(t) \/ Leave(t)
NextAny == Step \/ (FinishedAny /\ UNCHANGED all)

(* The simulator goes on as long as any tile or the network has work.      *)
FairSpecAny == InitAny /\ [][NextAny]_all /\ WF_all(Step)
-----------------------------------------------------------------------------
(* RoundsAgree, UnreadStands and RightTransposes of FFT speak of the tiles *)
(* there are, and so of both configurations.                               *)

(* The computation of a line is the discrete Fourier transform (LineIsDFT).*)
LinesAreDFT == conf = "line" => LineIsDFT

(* The last element of a round may come before or after a tile has sent    *)
(* its own: either way the tile begins the next round, and all of them     *)
(* finish.                                                                 *)
AllTransform == <>[]FinishedAny
=============================================================================
