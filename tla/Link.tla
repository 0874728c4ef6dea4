-------------------------------- MODULE Link --------------------------------
(***************************************************************************)
(* What the link layer promises for the unicast packets one mote hands it  *)
(* for another: the ones that arrive do so in the order they were handed   *)
(* over.  Any of them may be lost, and the oldest one that is still on its *)
(* way may arrive and yet stay on its way, to arrive again.                *)
(*                                                                         *)
(* Packets are numbered as they are accepted, so that the set of those on  *)
(* their way is also their order.                                          *)
(***************************************************************************)
EXTENDS Integers

VARIABLES
  next,         (* the number of the next packet                            *)
  onWay,        (* the packets on their way                                 *)
  got,          (* the packet that arrived last, 0 before the first         *)
  repeated      (* some packet has arrived more than once                   *)

linkVars == <<next, onWay, got, repeated>>

Init ==
  /\ next = 1
  /\ onWay = {}
  /\ got = 0
  /\ repeated = FALSE

Put ==
  /\ next' = next + 1
  /\ onWay' = onWay \cup {next}
  /\ UNCHANGED <<got, repeated>>

\* The oldest packet arrives, and may stay; others may be lost with it.
Get(n) ==
  /\ n \in onWay
  /\ \A m \in onWay : n <= m
  /\ got' = n
  /\ repeated' = (repeated \/ n = got)
  /\ onWay' \in SUBSET onWay
  /\ UNCHANGED next

\* The sender gives up a packet, or the receiver loses what it has not read.
Lose(S) ==
  /\ S \subseteq onWay
  /\ onWay' = onWay \ S
  /\ UNCHANGED <<next, got, repeated>>

Next ==
  \/ Put
  \/ \E n \in onWay : Get(n)
  \/ \E S \in SUBSET onWay : Lose(S)

Spec == Init /\ [][Next]_linkVars
=============================================================================
