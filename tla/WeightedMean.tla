---------------------------- MODULE WeightedMean ----------------------------
(***************************************************************************)
(* The value of an aggregated message: construct_distribution_array and    *)
(* aggregate_data of aggregator.c, over the message_array that the storing *)
(* loop fills slot by slot.                                                *)
(*                                                                         *)
(* The result is the mean of the samples, each weighted with one over its  *)
(* variance; a variance of zero weighs one.  Variances are multiples of    *)
(* 1 / Unit, and everything is computed in fractions, without rounding.    *)
(***************************************************************************)
EXTENDS Integers, Functions

CONSTANTS
  NumNodes,     (* NUM_NODES                                                *)
  Samples,      (* the values a sample takes                                *)
  Variances,    (* the values a variance takes, in units of 1 / Unit        *)
  Unit          (* how many units make a variance of one                    *)

ASSUME WeightedMeanAssumption ==
  /\ NumNodes \in Nat \ {0}
  /\ Samples \subseteq Int
  /\ Variances \subseteq Nat
  /\ Unit \in Nat \ {0}

Slots == 0 .. NumNodes - 1

VARIABLES
  message_array   (* [slot]: sample and variance of the stored message        *)

\* The static array starts as zeros.
Init == message_array = [i \in Slots |-> [sample |-> 0, variance |-> 0]]

\* The storing loop.
Store(i) ==
  \E x \in Samples, v \in Variances :
    message_array' = [message_array EXCEPT ![i] = [sample |-> x, variance |-> v]]

Next == \E i \in Slots : Store(i)

Spec == Init /\ [][Next]_message_array

(***************************************************************************)
(* The computation.  A weight is a fraction with the denominator           *)
(* CommonMultiple, given by its numerator.                                 *)
(***************************************************************************)
samples   == [i \in Slots |-> message_array[i].sample]
variances == [i \in Slots |-> message_array[i].variance]

CommonMultiple ==
  FoldFunction(LAMBDA v, product : IF v = 0 THEN product ELSE v * product, 1, variances)

\* Not the code: the weight is the variance, not one over it.
WeightInverted(v) == IF v = 0 THEN CommonMultiple * Unit ELSE v * CommonMultiple

Weight(v) == IF v = 0 THEN CommonMultiple ELSE (CommonMultiple \div v) * Unit

\* Not the code: the weights are left out of the sum of the samples.
WeightedSumUnweighted == SumFunction(samples)

WeightedSum == SumFunction([i \in Slots |-> Weight(variances[i]) * samples[i]])
SumWeights  == SumFunction([i \in Slots |-> Weight(variances[i])])

\* aggregate_data: the fraction of the two sums.  The zero it returns for weights
\* that add up to zero is left out: BetweenSamples says they never do.
AggregateData == [num |-> WeightedSum, den |-> SumWeights]

(***************************************************************************)
(* Correctness.                                                            *)
(***************************************************************************)

\* The weights never add up to zero, so that the zero aggregate_data returns then
\* is never sent, and the value lies between the least and the greatest sample:
\* whatever the variances, it is a mean of the samples.
BetweenSamples ==
  /\ AggregateData.den > 0
  /\ \E i \in Slots : samples[i] * AggregateData.den <= AggregateData.num
  /\ \E i \in Slots : samples[i] * AggregateData.den >= AggregateData.num

\* The report, section 3.5: "samples with a higher uncertainty will count less".
\* The most uncertain sample never has more than an equal share of the value,
\* provided its variance is at least that of a weight of one.
UncertainCountsLess ==
  \A i \in Slots :
    (variances[i] >= Unit /\ \A j \in Slots : variances[j] <= variances[i])
      => NumNodes * Weight(variances[i]) <= SumWeights
=============================================================================
