------------------------------- MODULE MCCsma -------------------------------
(***************************************************************************)
(* Small instances of Csma.                                                *)
(***************************************************************************)
EXTENDS Csma

CONSTANT MaxId (* bound: packets for the next hop *)

Bounded == next <= MaxId + 1

\* No packet blocks its queue, however busy the channel is.
HeadLeaves ==
  \A n \in 1 .. MaxId : n \in Ids(queue[Receiver]) ~> n \notin Ids(queue[Receiver])
=============================================================================
