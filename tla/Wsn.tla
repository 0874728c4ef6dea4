-------------------------------- MODULE Wsn --------------------------------
(***************************************************************************)
(* The network of the project: sources send their samples to an            *)
(* aggregator, aggregators send what they aggregate and what they relay to *)
(* the next hop, and the root prints what it gets.                         *)
(*                                                                         *)
(* Each link is what module Link promises and module Csma is shown to      *)
(* implement: it keeps the order, any packet may be lost (that the mote    *)
(* had no buffer for it or that the radio gave it up is the same to the    *)
(* next hop), and the oldest packet may arrive more than once.             *)
(***************************************************************************)
EXTENDS Aggregator

CONSTANTS
  Sources,      (* node ids of the motes that run source.c                  *)
  Live,         (* the sources that stay active, for the liveness           *)
  NextHop,      (* the mote that every other mote sends to                  *)
  IdMod,        (* msg_id is an unsigned long: 2^32 in the code             *)
  Capacity      (* bound: packets on their way on one link                  *)

Senders == Sources \cup Collectors

\* The senders whose packets may pass through another one: the least set that
\* has it and, with a mote, all that send to that mote.
Upstream ==
  [k \in Senders |->
     { n \in Senders :
         \A S \in SUBSET Senders :
           k \in S /\ (\A m \in Senders : NextHop[m] \in S => m \in S) => n \in S }]

ASSUME WsnAssumption ==
  /\ Sources \subseteq Nat
  /\ Sources \cap Aggregators = {}
  /\ Live \subseteq Sources
  /\ NextHop \in [Senders -> Aggregators]
  /\ IdMod \in Nat \ {0}
  /\ Capacity \in Nat \ {0, 1}
  /\ MsgIds = 0 .. IdMod - 1
  \* a source sends to the aggregator that has it in its node map
  /\ \A s \in Sources : NextHop[s] \in Collectors /\ s \in SourceNodes(NextHop[s])
  \* the hops are a tree with the root at its end: no packet comes back
  /\ \A k \in Senders : NextHop[k] \notin Upstream[k]

VARIABLES
  msg_id,       (* [source]: the number of its next message                 *)
  links,        (* [sender]: the packets on their way to its next hop       *)
  named         (* history [source]: the message the root last saw named    *)

wsnVars == <<vars, msg_id, links, named>>

WsnInit ==
  /\ Init
  /\ msg_id = [s \in Sources |-> 1 % IdMod]
  /\ links  = [k \in Senders |-> <<>>]
  /\ named  = [s \in Sources |-> 0]

\* The bound: a mote handles a packet only while its link can take the two
\* packets the callback sends at most.
HasRoom(n) == n # Root => Len(links[n]) + 2 <= Capacity

\* Not the code: msg_id is not static, and the protothread may find its first
\* value again after it has waited.
SendForgetful(s) ==
  /\ Len(links[s]) < Capacity
  /\ links'  = [links EXCEPT ![s] =
                  Append(@, SourcePacket([node_id |-> s, msg_id |-> msg_id[s]]))]
  /\ \E i \in {1, msg_id[s] + 1} : msg_id' = [msg_id EXCEPT ![s] = i % IdMod]
  /\ UNCHANGED <<vars, named>>

\* An active source whose timer has expired sends its next message.
Send(s) ==
  /\ Len(links[s]) < Capacity
  /\ links'  = [links EXCEPT ![s] =
                  Append(@, SourcePacket([node_id |-> s, msg_id |-> msg_id[s]]))]
  /\ msg_id' = [msg_id EXCEPT ![s] = (@ + 1) % IdMod]
  /\ UNCHANGED <<vars, named>>

\* What the root prints of an aggregated message: one number per source named.
NamedAfter(pkt) ==
  [s \in Sources |->
     IF pkt.len = "message_agg_t" /\ \E i \in Slots : pkt.body.node_ids_in_msg[i] = s
     THEN pkt.body.msg_ids_in_msg[CHOOSE i \in Slots : pkt.body.node_ids_in_msg[i] = s]
     ELSE named[s]]

\* The oldest packet of a link reaches the next hop, which sends what its
\* callback makes of it; the root prints it instead.  If again, the packet
\* stays on its way.
Reach(k, again) ==
  LET n    == NextHop[k]
      rest == IF again THEN links ELSE [links EXCEPT ![k] = Tail(@)]
  IN  /\ links[k] # <<>>
      /\ HasRoom(n)
      /\ Receive(n, Head(links[k]))
      /\ IF n = Root
         THEN links' = rest /\ named' = NamedAfter(Head(links[k]))
         ELSE links' = [rest EXCEPT ![n] = @ \o sent'[n]] /\ UNCHANGED named
      /\ UNCHANGED msg_id

Arrive(k) == Reach(k, FALSE)

ArriveAndStay(k) == Reach(k, TRUE)

\* The oldest packet of a link is lost.
Lose(k) ==
  /\ links[k] # <<>>
  /\ HasRoom(NextHop[k])
  /\ links' = [links EXCEPT ![k] = Tail(@)]
  /\ UNCHANGED <<vars, msg_id, named>>

Expire(n) == TimerExpires(n) /\ UNCHANGED <<msg_id, links, named>>

WsnNext ==
  \/ \E s \in Sources : Send(s)
  \/ \E k \in Senders : Arrive(k) \/ ArriveAndStay(k) \/ Lose(k)
  \/ \E n \in Aggregators : Expire(n)

WsnSpec == WsnInit /\ [][WsnNext]_wsnVars

\* The mote whose packet is the next to arrive on a link.
Originator(k) == IF links[k] = <<>> THEN {} ELSE {Head(links[k]).body.node_id}

\* Whose packets a link carries: the sender's own and those of the aggregators
\* before it.
Carried(k) == {k} \cup (Upstream[k] \cap Collectors)

(***************************************************************************)
(* Fairness: a source that stays active sends every 4 to 6 seconds, timers *)
(* expire, and losses do not pick one mote's packets: if a mote's packets  *)
(* come by on a link again and again, some of them arrive.  Nothing is     *)
(* assumed of the other sources.                                           *)
(***************************************************************************)
WsnFairness ==
  /\ \A s \in Live : WF_wsnVars(Send(s))
  /\ \A n \in { NextHop[s] : s \in Live } : WF_wsnVars(Expire(n))
  /\ \A k \in Live \cup Collectors : \A n \in Carried(k) : 
       SF_wsnVars(Originator(k) = {n} /\ Arrive(k))

WsnFairSpec == WsnSpec /\ WsnFairness

(***************************************************************************)
(* Correctness.                                                            *)
(***************************************************************************)

\* The packets on the links: a source only sends its own messages, and an
\* aggregator its own aggregates and those of the aggregators before it.
WsnTypeOK ==
  /\ TypeOK
  /\ msg_id \in [Sources -> 0 .. IdMod - 1]
  /\ links \in [Senders -> Seq(Packet)]
  /\ \A k \in Senders : /\ Len(links[k]) <= Capacity
                         /\ \A i \in DOMAIN links[k] :
                              links[k][i].body.node_id \in Carried(k)
  /\ named \in [Sources -> 0 .. IdMod - 1]

\* Before message numbers come back to 0 (in the code after 2^32 messages).
NoWrap == \A s \in Sources : msg_id[s] # 0

\* The messages the root sees named of a source never go back, although a late
\* round may name a message of an earlier round again: neither losses nor
\* repetitions nor the relay nor the slots that keep old messages bring an older
\* one after a newer.
NamesGoForward ==
  [][\A s \in Sources : named'[s] >= named[s]]_wsnVars

\* An aggregator with a source that stays active keeps telling the root, even
\* if its other sources are silent and whatever else the relays carry: its
\* aggregates arrive at the root again and again.
Tells(n) == \E k \in Senders : NextHop[k] = Root /\ Originator(k) = {n} /\ Arrive(k)

DataFlows ==
  \A n \in { NextHop[s] : s \in Live } : []<><<Tells(n)>>_wsnVars
=============================================================================
