------------------------------- MODULE FFTLine -------------------------------
(***************************************************************************)
(* The transform of one line, in place (fft_1d() and bit_reversal(),       *)
(* apps/fft.h).  Complex numbers are those of a field that has the roots   *)
(* of unity a line needs and in which sums are exact, the integers modulo  *)
(* P: rounding is left out.  Indices are those of the code's floats, two   *)
(* to a number; numbers move as a whole.                                   *)
(***************************************************************************)
EXTENDS Integers

CONSTANTS
  P,        \* a prime
  root,     \* root[k] = root[2 * k]^2, a k-th root of unity, is exp(-2 pi i / k)
  Lines     \* the lines, functions on 0 .. N - 1

VARIABLES doing, input, line, m, i, j

lineVars == <<doing, input, line, m, i, j>>

size(f) == CHOOSE n \in 1 .. 2^10 : DOMAIN f = 0 .. n - 1
N == size(input)

power[b \in 0 .. P - 1, e \in Nat] == IF e = 0 THEN 1 ELSE (b * power[b, e - 1]) % P

InitLine ==
  /\ input \in Lines /\ line = input
  /\ doing = "bit_reversal" /\ m = 2 /\ i = 0 /\ j = 0

(* j is i with its bits reversed: one more, carried from the highest bit.  *)
carried[bit \in Nat, k \in Nat] ==
  IF bit >= 2 /\ k >= bit THEN carried[bit \div 2, k - bit] ELSE k + bit

bit_reversal ==
  LET a == i \div 2   b == j \div 2
  IN /\ doing = "bit_reversal"
     /\ line' = IF j > i THEN [line EXCEPT ![a] = line[b], ![b] = line[a]] ELSE line
     /\ IF i + 2 < 2 * N THEN i' = i + 2 /\ j' = carried[N, j] /\ UNCHANGED doing
                         ELSE i' = 0 /\ j' = 0 /\ doing' = "fft_1d"
     /\ UNCHANGED <<input, m>>

(* Fault: the second takes the first when it has changed.                  *)
butterfly_in_place(first, second) == <<first + second, (first + second) - second>>
butterfly(first, second) == <<first + second, first - second>>

(* One pass of the innermost of the three loops.                           *)
fft_1d ==
  LET mh == m \div 2
      both == butterfly(line[j], line[j + mh] * power[root[m], j - i])
  IN /\ doing = "fft_1d" /\ m <= N
     /\ line' = [line EXCEPT ![j] = both[1] % P, ![j + mh] = both[2] % P]
     /\ IF j + 1 < i + mh THEN j' = j + 1 /\ UNCHANGED <<i, m>>
        ELSE IF i + m < N THEN i' = i + m /\ j' = i + m /\ UNCHANGED m
        ELSE i' = 0 /\ j' = 0 /\ m' = 2 * m
     /\ UNCHANGED <<doing, input>>

LineDone == doing = "fft_1d" /\ m > N

NextLine == bit_reversal \/ fft_1d
-----------------------------------------------------------------------------
(* The sums of the definition of the discrete Fourier transform.           *)
DFT(f) ==
  LET n == size(f)
      sum[k \in 0 .. n - 1, last \in -1 .. n - 1] ==
        IF last = -1 THEN 0 ELSE (sum[k, last - 1] + f[last] * power[root[n], k * last]) % P
  IN [k \in 0 .. n - 1 |-> sum[k, n - 1]]

(* The line has been transformed, although it was reordered and computed   *)
(* in place in log2(N) stages (what doall/fft.py computes).                *)
LineIsDFT == LineDone => line = DFT(input)
=============================================================================
