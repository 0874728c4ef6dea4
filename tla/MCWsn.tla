------------------------------- MODULE MCWsn -------------------------------
(***************************************************************************)
(* Small instances of Wsn: the chain 3 -> 2 -> 1 of the code, with two     *)
(* sources per aggregator.                                                 *)
(***************************************************************************)
EXTENDS Wsn, Functions

MCRoot == 1

MCNodeMap ==
  [n \in Aggregators |->
     [i \in Slots |-> CASE n = 2 -> 4 + i [] n = 3 -> 7 + i [] OTHER -> 0]]

\* server_ipaddr of source.c, forward_ipaddr of aggregator.c.
MCNextHop ==
  [k \in Senders |-> CASE k \in {3, 4, 5, 6} -> 2 [] k = 2 -> 1 [] OTHER -> 3]

MCMsgIds == 0 .. IdMod - 1

\* Bound: packets on their way in the whole network.
Traffic == FoldFunction(LAMBDA link, n : Len(link) + n, 0, links) <= 3
=============================================================================
