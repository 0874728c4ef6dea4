----------------------------- MODULE Aggregator -----------------------------
(***************************************************************************)
(* The aggregator firmware, mini_project/data_aggregation/aggregator.c, as *)
(* it runs on every aggregator mote of a network.                          *)
(*                                                                         *)
(* An aggregator collects one message per source node into a round, and    *)
(* sends one aggregated message when the round is complete or when a       *)
(* packet arrives after the round's timer has expired.  Everything happens *)
(* in udp_rx_callback: udp_server_process itself ends as soon as it has    *)
(* registered the callback, so the timer's event finds no process to       *)
(* handle it and the timer only matters as a flag the next packet reads.   *)
(*                                                                         *)
(* The module is open: any packet a neighbour may send can arrive at any   *)
(* time, which covers packets lost, repeated and reordered on the way.     *)
(* Module Wsn closes it with the sources and the links.                    *)
(*                                                                         *)
(* A definition whose comment starts with "Not the code" is a variant of   *)
(* the definition that follows it, with a mistake the code could have had; *)
(* the README says which property tells the two apart.                     *)
(***************************************************************************)
EXTENDS Integers, Sequences, FiniteSets

CONSTANTS
  Aggregators,  (* node ids of the motes that run aggregator.c              *)
  Root,         (* the node id that prints instead of sending: 1 in the code *)
  NumNodes,     (* NUM_NODES: source nodes per aggregator                   *)
  NodeMap,      (* node_map of every aggregator: slot -> source node id     *)
  MsgIds,       (* the msg_id values that arrive                            *)
  MissedMod,    (* messages_missed counts modulo this: 2^16 in the code     *)
  Relayed       (* aggregated messages that other aggregators send here     *)

Slots == 0 .. NumNodes - 1

\* The aggregators that send; the root ignores the messages of sources.
Collectors == Aggregators \ {Root}

(***************************************************************************)
(* message_t, without the sample, the mean and the variance: a message is  *)
(* known by its node and its number.  The static message_array starts as   *)
(* zeros.                                                                  *)
(***************************************************************************)
Message == [node_id : Nat, msg_id : Nat]

ZeroMessage == [node_id |-> 0, msg_id |-> 0]

(***************************************************************************)
(* message_agg_t.  The weighted mean itself is abstracted to the messages  *)
(* it is computed from, by slot (module WeightedMean has the arithmetic).  *)
(***************************************************************************)
AggMessage ==
  [node_id : Nat, sample : [Slots -> Message], missed_samples : Nat,
   msg_ids_in_msg : [Slots -> Nat], node_ids_in_msg : [Slots -> Nat]]

(***************************************************************************)
(* A packet is a buffer and its length.  The two message types have        *)
(* different sizes, so the length tells them apart.                        *)
(***************************************************************************)
SourcePacket(m) == [len |-> "message_t", body |-> m]
AggPacket(a)    == [len |-> "message_agg_t", body |-> a]

Packet == [len : {"message_t"}, body : Message]
            \cup [len : {"message_agg_t"}, body : AggMessage]

Silence == [len |-> "none", body |-> ZeroMessage]  \* nothing received yet

ASSUME AggregatorAssumption ==
  /\ Aggregators \subseteq Nat
  /\ NumNodes \in Nat \ {0}
  /\ MissedMod \in Nat \ {0}
  /\ MsgIds \subseteq Nat
  /\ Relayed \subseteq AggMessage
  /\ NodeMap \in [Aggregators -> [Slots -> Nat]]
  \* the literals of udp_server_process name three different sources
  /\ \A n \in Aggregators \ {Root} : \A i, j \in Slots :
        /\ NodeMap[n][i] # 0
        /\ NodeMap[n][i] = NodeMap[n][j] => i = j

VARIABLES
  message_array,    (* [n][slot]: the message stored for the slot            *)
  nodes_recieved,   (* [n][slot]: the slot's node was heard in this round    *)
  messages_missed,  (* [n]: messages of nodes already heard in this round    *)
  message_count,    (* [n]: messages stored in this round                    *)
  expired,          (* [n]: etimer_expired(&aggr_timer)                      *)
  databuffer,       (* [n]: the packet simple-udp last gave to the callback  *)
  sent              (* [n]: what the last call of the callback sent, in order *)

round == <<message_array, nodes_recieved, messages_missed, message_count>>
vars  == <<message_array, nodes_recieved, messages_missed, message_count,
           expired, databuffer, sent>>

Init ==
  /\ message_array   = [n \in Aggregators |-> [i \in Slots |-> ZeroMessage]]
  /\ nodes_recieved  = [n \in Aggregators |-> [i \in Slots |-> FALSE]]
  /\ messages_missed = [n \in Aggregators |-> 0]
  /\ message_count   = [n \in Aggregators |-> 0]
  \* aggr_timer is static: its process pointer is NULL, that is, "expired"
  /\ expired         = [n \in Aggregators |-> TRUE]
  /\ databuffer      = [n \in Aggregators |-> Silence]
  /\ sent            = [n \in Aggregators |-> <<>>]

(***************************************************************************)
(* The callback, part by part.  Each operator is evaluated in the state in *)
(* which the callback starts.                                              *)
(***************************************************************************)

\* Not the code: every packet starts the timer anew.
TimedOutRestarted(n) == FALSE

\* The timer as the test at the end sees it: a packet that finds no message
\* in the round has just started the timer.
TimedOut(n) == message_count[n] # 0 /\ expired[n]

\* The slots whose node sent the packet: the condition of the storing loop.
Matching(n, pkt) ==
  { i \in Slots : /\ pkt.len = "message_t"
                  /\ n # Root
                  /\ NodeMap[n][i] = pkt.body.node_id }

Stored(n, pkt)  == { i \in Matching(n, pkt) : ~ nodes_recieved[n][i] }
Dropped(n, pkt) == { i \in Matching(n, pkt) : nodes_recieved[n][i] }

\* Not the code: a later message of the same node replaces the stored one.
ArrayAfterReplacing(n, pkt) ==
  [i \in Slots |-> IF i \in Matching(n, pkt) THEN pkt.body ELSE message_array[n][i]]

\* Not the code: messages are stored in the order of their arrival.
ArrayAfterByCount(n, pkt) ==
  [i \in Slots |-> IF Stored(n, pkt) # {} /\ i = message_count[n]
                   THEN pkt.body ELSE message_array[n][i]]

ArrayAfter(n, pkt) ==
  [i \in Slots |-> IF i \in Stored(n, pkt) THEN pkt.body ELSE message_array[n][i]]

CountAfter(n, pkt)  == message_count[n] + Cardinality(Stored(n, pkt))
MissedAfter(n, pkt) == (messages_missed[n] + Cardinality(Dropped(n, pkt))) % MissedMod

\* Not the code: the round is only complete with one message more.
DueOneLater(n, pkt) == CountAfter(n, pkt) = NumNodes + 1 \/ TimedOut(n)

\* The condition under which this call aggregates.
Due(n, pkt) == CountAfter(n, pkt) = NumNodes \/ TimedOut(n)

\* An aggregated message is passed on as it is (the root prints it).
Forwarded(n, pkt) == IF pkt.len = "message_agg_t" THEN <<pkt>> ELSE <<>>

\* The message a due call builds.  The first CountAfter slots are listed,
\* whichever slots were filled, and every slot contributes to the sample.
Aggregate(n, pkt) ==
  LET array  == ArrayAfter(n, pkt)
      listed == { i \in Slots : i < CountAfter(n, pkt) }
  IN  [node_id         |-> n,
       sample          |-> array,
       missed_samples  |-> MissedAfter(n, pkt),
       msg_ids_in_msg  |-> [i \in Slots |-> IF i \in listed THEN array[i].msg_id ELSE 0],
       node_ids_in_msg |-> [i \in Slots |-> IF i \in listed THEN array[i].node_id ELSE 0]]

Emitted(n, pkt) == IF n # Root THEN <<AggPacket(Aggregate(n, pkt))>> ELSE <<>>

\* A call that leaves the round open.  The timer runs: it has just been
\* started, or it had not expired.
Accumulate(n, pkt) ==
  /\ ~ Due(n, pkt)
  /\ nodes_recieved'  = [nodes_recieved EXCEPT ![n] =
                           [i \in Slots |-> @[i] \/ i \in Stored(n, pkt)]]
  /\ messages_missed' = [messages_missed EXCEPT ![n] = MissedAfter(n, pkt)]
  /\ message_count'   = [message_count EXCEPT ![n] = CountAfter(n, pkt)]
  /\ expired'         = [expired EXCEPT ![n] = FALSE]
  /\ sent'            = [sent EXCEPT ![n] = Forwarded(n, pkt)]

\* Not the code: the flags of the round are not cleared.
CloseRoundKeepingFlags(n, pkt) ==
  /\ Due(n, pkt)
  /\ nodes_recieved'  = [nodes_recieved EXCEPT ![n] =
                           [i \in Slots |-> @[i] \/ i \in Stored(n, pkt)]]
  /\ messages_missed' = [messages_missed EXCEPT ![n] = 0]
  /\ message_count'   = [message_count EXCEPT ![n] = 0]
  /\ expired'         = [expired EXCEPT ![n] = FALSE]
  /\ sent'            = [sent EXCEPT ![n] = Forwarded(n, pkt) \o Emitted(n, pkt)]

\* A call that sends the aggregate, forgets the round and restarts the timer.
CloseRound(n, pkt) ==
  /\ Due(n, pkt)
  /\ nodes_recieved'  = [nodes_recieved EXCEPT ![n] = [i \in Slots |-> FALSE]]
  /\ messages_missed' = [messages_missed EXCEPT ![n] = 0]
  /\ message_count'   = [message_count EXCEPT ![n] = 0]
  /\ expired'         = [expired EXCEPT ![n] = FALSE]
  /\ sent'            = [sent EXCEPT ![n] = Forwarded(n, pkt) \o Emitted(n, pkt)]

\* simple_udp_process copies the packet and calls udp_rx_callback.
Receive(n, pkt) ==
  /\ databuffer'    = [databuffer EXCEPT ![n] = pkt]
  /\ message_array' = [message_array EXCEPT ![n] = ArrayAfter(n, pkt)]
  /\ Accumulate(n, pkt) \/ CloseRound(n, pkt)

\* etimer_process takes the timer off its list and clears the process pointer.
\* The event it posts goes to udp_server_process, which has ended.
TimerExpires(n) ==
  /\ ~ expired[n]
  /\ expired' = [expired EXCEPT ![n] = TRUE]
  /\ UNCHANGED <<round, databuffer, sent>>

\* The nodes that send their messages to this aggregator.
SourceNodes(n) == IF n = Root THEN {} ELSE { NodeMap[n][i] : i \in Slots }

\* What neighbours send: each source to its own aggregator, aggregators to
\* the next hop, which is never the way back.
Incoming(n) ==
  { SourcePacket(m) : m \in [node_id : SourceNodes(n), msg_id : MsgIds] }
    \cup { AggPacket(a) : a \in { a \in Relayed : a.node_id # n } }

Deliver(n) == \E pkt \in Incoming(n) : Receive(n, pkt)

Next == \E n \in Aggregators : Deliver(n) \/ TimerExpires(n)

Spec == Init /\ [][Next]_vars

(***************************************************************************)
(* Fairness.  A running timer expires: the clock interrupt polls           *)
(* etimer_process at every tick from then on.  Nothing is assumed of the   *)
(* neighbours here; module Wsn has them.                                   *)
(***************************************************************************)
TimerFairness == \A n \in Aggregators : WF_vars(TimerExpires(n))

TimerFairSpec == Spec /\ TimerFairness

(***************************************************************************)
(* Correctness.                                                            *)
(***************************************************************************)

\* The slots heard in the open round.
Heard(n) == { i \in Slots : nodes_recieved[n][i] }

\* Every variable of aggregator.c keeps its type; between two calls a round
\* is never complete, and no call sends more than two packets.
TypeOK ==
  /\ message_array   \in [Aggregators -> [Slots -> Message]]
  /\ nodes_recieved  \in [Aggregators -> [Slots -> BOOLEAN]]
  /\ messages_missed \in [Aggregators -> 0 .. MissedMod - 1]
  /\ message_count   \in [Aggregators -> 0 .. NumNodes - 1]
  /\ expired         \in [Aggregators -> BOOLEAN]
  /\ databuffer      \in [Aggregators -> Packet \cup {Silence}]
  /\ sent            \in [Aggregators -> Seq(Packet)]
  /\ \A n \in Aggregators : Len(sent[n]) <= 2

\* message_count counts the flags: the loop that stores, the test that closes
\* and the loop that resets agree on which nodes were heard.
CountIsHeard ==
  \A n \in Aggregators : message_count[n] = Cardinality(Heard(n))

\* A slot only ever holds messages of the node that node_map gives it (or
\* nothing yet), and a heard slot holds one.
SlotsHoldOwnNode ==
  \A n \in Collectors, i \in Slots :
    \/ message_array[n][i].node_id = NodeMap[n][i]
    \/ message_array[n][i] = ZeroMessage /\ i \notin Heard(n)

\* What the last packet made this aggregator send of its own: the messages its
\* value uses, those it names, and the missed count.
Listed(a) ==
  { [node_id |-> a.node_ids_in_msg[i], msg_id |-> a.msg_ids_in_msg[i]] : i \in Slots }
    \ {ZeroMessage}

Own(n) == { pkt.body : pkt \in { sent[n][i] : i \in { j \in DOMAIN sent[n] :
                                         sent[n][j].body.node_id = n } } }

ReportOf(a) ==
  [used |-> { a.sample[i] : i \in Slots }, listed |-> Listed(a),
   missed |-> a.missed_samples]

Taken(n) == { message_array[n][i] : i \in Heard(n) }

R == INSTANCE Rounds WITH
       SourcesOf <- [n \in Collectors |-> SourceNodes(n)],
       taken     <- [n \in Collectors |-> Taken(n)],
       missed    <- [n \in Collectors |-> messages_missed[n]],
       late      <- [n \in Collectors |-> TimedOut(n)],
       report    <- [n \in Collectors |-> { ReportOf(a) : a \in Own(n) }]

\* Every call of udp_rx_callback is a step of the abstract rounds: a message
\* is taken once, every round ends with one report that uses all it took and
\* carries its missed count, and a report without a 0 among its node ids names
\* exactly the messages of its round.
ImplementsRounds == R!Spec

(***************************************************************************)
(* What comments and documents say of the code, and the code does not do.  *)
(***************************************************************************)

\* The report, section 3.5: "Once this timeout expires, the aggregator
\* processes the data it has received so far."
TimeoutFlushes ==
  \A n \in Collectors : TimedOut(n) ~> message_count[n] = 0

\* metrics_calculation.py:78: "Check if the message was received by the
\* aggregator by matching the message ID and node ID".  For that check every
\* message of the round that a report ends must be named in the report.
ReceivedIsListed ==
  [][\A n \in Collectors :
       message_count[n] # 0 /\ message_count'[n] = 0
         => \A a \in Own(n)' : Taken(n) \subseteq Listed(a)]_vars

\* The report, section 5.1: the timeout "ensures that data still flows, albeit
\* with reduced completeness"; section 3.5: it "processes the data it has
\* received so far".  Then no other data enters the value.
OnlyReceivedIsUsed ==
  [][\A n \in Collectors :
       message_count[n] # 0 /\ message_count'[n] = 0
         => \A a \in Own(n)' : ReportOf(a).used
              \subseteq Taken(n) \cup {databuffer'[n].body, ZeroMessage}]_vars
=============================================================================
