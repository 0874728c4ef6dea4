---------------------------- MODULE Distribution ----------------------------
(***************************************************************************)
(* update_distribution of source.c: the running mean and variance a source *)
(* sends with every sample, kept in a ring of the last samples, a running  *)
(* sum and a running sum of squares.                                       *)
(*                                                                         *)
(* Samples and sums are integers.  The mote's compiler has a double of 32  *)
(* bits, so that a sum of squares above Exact (2^24) loses its low bits;   *)
(* the sum itself stays below 2^16 and is exact.  Quotients are fractions, *)
(* not rounded.                                                            *)
(***************************************************************************)
EXTENDS Integers, Sequences, Functions

CONSTANTS
  WindowSize,   (* WINDOW_SIZE: 100 in the code                             *)
  Samples,      (* the values a sample takes                                *)
  Exact,        (* integers up to here are exact in a double                *)
  MaxInexact    (* bound: the updates that round the sum of squares         *)

ASSUME DistributionAssumption ==
  /\ WindowSize \in Nat \ {0}
  /\ Samples \subseteq Int
  /\ Exact \in Nat \ {0}
  /\ MaxInexact \in 0 .. Exact
  \* beyond Exact a double still holds every even number, up to 2 * Exact; a sum
  \* of squares from 300 to 500 stays below that, even with 8 million roundings
  /\ \A x \in Samples : WindowSize * x * x + MaxInexact <= 2 * Exact

Slots == 0 .. WindowSize - 1

VARIABLES
  samples,      (* the ring of samples, zeros at first                      *)
  sample_num,   (* the slot of the next sample                              *)
  window_full,  (* every slot has been written                              *)
  sum,          (* sum_samples                                              *)
  sum_squared,  (* sum_squared_samples                                      *)
  mean,         (* the fraction num / den                                   *)
  variance,     (* the fraction num / den                                   *)
  recent,       (* history: the last WindowSize samples, the newest last    *)
  inexact       (* history: how many updates have rounded sum_squared       *)

vars == <<samples, sample_num, window_full, sum, sum_squared, mean, variance, recent, inexact>>

Fraction == [num : Int, den : Nat \ {0}]

Init ==
  /\ samples     = [i \in Slots |-> 0]
  /\ sample_num  = 0
  /\ window_full = FALSE
  /\ sum         = 0
  /\ sum_squared = 0
  /\ mean        = [num |-> 0, den |-> 1]
  /\ variance    = [num |-> 0, den |-> 1]
  /\ recent      = <<>>
  /\ inexact     = 0

\* The double nearest to an integer of at most 2 * Exact: an odd number above
\* Exact lies between two doubles and goes to the one that is a multiple of 4.
Rounded(x) ==
  IF x <= Exact \/ x % 2 = 0 THEN x
  ELSE IF x % 4 = 1 THEN x - 1 ELSE x + 1

\* Not the code: the slot that was just written is taken to be the oldest.
NextSlotStuck == sample_num

\* The slot after the one being written: the oldest sample in a full ring.
NextSlot == IF sample_num + 1 = WindowSize THEN 0 ELSE sample_num + 1

\* Not the code: the count of samples is one behind.
CountOneLess == IF window_full THEN WindowSize
                ELSE IF sample_num = 0 THEN 1 ELSE sample_num

\* What the sums are divided by.
Count == IF window_full THEN WindowSize ELSE sample_num + 1

\* Not the code: the index leaves the ring.
NextIndexUnwrapped == sample_num + 1

NextIndex == (sample_num + 1) % WindowSize

\* update_distribution, called with a new sample.  The sample is stored first,
\* so that with one slot it is its own oldest sample.
Update(x) ==
  LET ring    == [samples EXCEPT ![sample_num] = x]
      oldest  == ring[NextSlot]
      squares == sum_squared + (x * x - oldest * oldest)
  IN  /\ samples'     = ring
      /\ sum'         = sum + x - oldest
      /\ sum_squared' = Rounded(squares)
      /\ mean'        = [num |-> sum', den |-> Count]
      /\ variance'    = [num |-> sum_squared' * Count - sum' * sum', den |-> Count * Count]
      /\ window_full' = (window_full \/ sample_num = WindowSize - 1)
      /\ sample_num'  = NextIndex
      /\ recent'      = IF Len(recent) < WindowSize
                        THEN Append(recent, x)
                        ELSE Append(Tail(recent), x)
      /\ inexact'     = IF sum_squared' = squares THEN inexact ELSE inexact + 1
      /\ inexact' <= MaxInexact

Next == \E x \in Samples : Update(x)

Spec == Init /\ [][Next]_vars

(***************************************************************************)
(* Correctness.                                                            *)
(***************************************************************************)

\* The ring, its index and its results keep their types.
TypeOK ==
  /\ samples \in [Slots -> Samples \cup {0}]
  /\ sample_num \in Slots
  /\ window_full \in BOOLEAN
  /\ sum \in Int
  /\ sum_squared \in Int
  /\ mean \in Fraction
  /\ variance \in Fraction
  /\ recent \in Seq(Samples) /\ Len(recent) <= WindowSize
  /\ inexact \in 0 .. MaxInexact

\* The samples that count: the last WindowSize - 1 ones.  When a sample comes,
\* the slot after it is already subtracted, so a full ring misses its oldest.
Counted ==
  IF Len(recent) < WindowSize THEN recent ELSE Tail(recent)

Squares(s) == [i \in DOMAIN s |-> s[i] * s[i]]

\* The running sum never drifts: however often the ring has gone round, it is
\* the sum of the samples that count.
SumIsRecent == sum = SumFunction(Counted)

\* The running sum of squares keeps every rounding error, as samples from 300
\* to 500 cause them (source.c:50), but drifts no faster: it is off by one for
\* each update that rounded at most, and exact until the first one.
SquaresWithinRounding ==
  sum_squared - SumFunction(Squares(Counted)) \in (-inexact) .. inexact

\* The variance sent falls below zero by rounding only, and by no more than the
\* number of roundings over the count of samples.  The aggregator
\* divides by any variance other than zero (aggregator.c:38).
VarianceAboveRounding == variance.num >= -(inexact * mean.den)

\* Before the ring has gone round once, the mean is that of all the samples.
MeanOfFirstSamples ==
  recent # <<>> /\ Len(recent) < WindowSize
    => mean.num * Len(recent) = SumFunction(recent) * mean.den
=============================================================================
