--------------------------- MODULE MCDistribution ---------------------------
(***************************************************************************)
(* A small instance of Distribution.                                       *)
(***************************************************************************)
EXTENDS Distribution

MCSamples == {-1, 0, 4, 5}
=============================================================================
