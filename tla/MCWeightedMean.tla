-------------------------- MODULE MCWeightedMean --------------------------
(***************************************************************************)
(* A small instance of WeightedMean: a low and a high sample; variances of *)
(* zero, below one, one, and a large one as a malfunctioning source has.   *)
(***************************************************************************)
EXTENDS WeightedMean

MCSamples   == {-1, 4}
MCVariances == {0, 1, 2, 9}
=============================================================================
