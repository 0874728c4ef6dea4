---------------------------- MODULE MCAggregator ----------------------------
(***************************************************************************)
(* Small instances of Aggregator: mote 2 with its sources 4, 5, 6 as in    *)
(* the code, the root 1, which has no node map, and one aggregated message *)
(* of mote 3 to relay.                                                     *)
(***************************************************************************)
EXTENDS Aggregator

MCRoot == 1

\* node_map of udp_server_process (an aggregator other than 2 and 3 keeps the
\* zeros of the static array).
MCNodeMap ==
  [n \in Aggregators |->
     [i \in Slots |-> CASE n = 2 -> 4 + i [] n = 3 -> 7 + i [] OTHER -> 0]]

\* A message of mote 3 that lists nothing: to a relay it is only a payload.
MCRelayed ==
  { [node_id |-> 3, sample |-> [i \in Slots |-> ZeroMessage], missed_samples |-> 0,
     msg_ids_in_msg |-> [i \in Slots |-> 0], node_ids_in_msg |-> [i \in Slots |-> 0]] }
=============================================================================
