-------------------------- MODULE AggregatorProofs --------------------------
(***************************************************************************)
(* Theorems about Aggregator, for every number of sources per aggregator,  *)
(* every node map that names them once, and every set of packets.          *)
(*                                                                         *)
(* The inductive invariant is the conjunction of the three invariants the  *)
(* runs check: the flags and the counter need each other (the counter is   *)
(* below NumNodes only because it counts flags that are not all set), and  *)
(* the refinement needs to know whose messages the slots hold.             *)
(***************************************************************************)
EXTENDS Aggregator, FiniteSetTheorems, SequenceTheorems, TLAPS

IInv == TypeOK /\ CountIsHeard /\ SlotsHoldOwnNode

(***************************************************************************)
(* The slots.                                                              *)
(***************************************************************************)

\* There are NumNodes slots, and so at most that many are heard.
LEMMA SlotsFinite ==
  /\ IsFiniteSet(Slots)
  /\ Cardinality(Slots) = NumNodes
  /\ \A S \in SUBSET Slots :
       /\ IsFiniteSet(S)
       /\ Cardinality(S) \in 0 .. NumNodes
       /\ Cardinality(S) = NumNodes <=> S = Slots
<1>1. NumNodes \in Nat \ {0}
  BY AggregatorAssumption
<1>2. IsFiniteSet(Slots) /\ Cardinality(Slots) = NumNodes
  BY <1>1, FS_Interval DEF Slots
<1>3. ASSUME NEW S \in SUBSET Slots
      PROVE  /\ IsFiniteSet(S)
             /\ Cardinality(S) \in 0 .. NumNodes
             /\ Cardinality(S) = NumNodes <=> S = Slots
  <2>1. IsFiniteSet(S) /\ Cardinality(S) <= NumNodes
    BY <1>2, FS_Subset
  <2>2. Cardinality(S) \in Nat
    BY <2>1, FS_CardinalityType
  <2>3. Cardinality(S) = NumNodes => S = Slots
    BY <1>2, FS_Subset
  <2> QED
    BY <1>1, <1>2, <2>1, <2>2, <2>3
<1> QED
  BY <1>2, <1>3

\* The packets that the rounds are made for: a source's message comes from a node
\* of the map, and an aggregated message from another aggregator.
Expected(n) ==
  { pkt \in Packet :
      \/ /\ pkt.len = "message_t"
         /\ pkt.body \in [node_id : SourceNodes(n), msg_id : MsgIds]
      \/ pkt.len = "message_agg_t" /\ pkt.body.node_id # n }

LEMMA ExpectedIsPacket ==
  ASSUME NEW n \in Aggregators, NEW pkt \in Expected(n)
  PROVE  /\ pkt \in Packet
         /\ \/ pkt.len = "message_t" /\ n # Root
            \/ pkt.len = "message_agg_t" /\ pkt.body.node_id # n
BY DEF Expected, SourceNodes

\* Everything that is delivered is such a packet.
LEMMA IncomingIsExpected ==
  ASSUME NEW n \in Aggregators, NEW pkt \in Incoming(n)
  PROVE  pkt \in Expected(n)
<1> USE AggregatorAssumption
<1>1. CASE \E m \in [node_id : SourceNodes(n), msg_id : MsgIds] : pkt = SourcePacket(m)
  <2>1. PICK m \in [node_id : SourceNodes(n), msg_id : MsgIds] : pkt = SourcePacket(m)
    BY <1>1
  <2>2. n # Root /\ SourceNodes(n) \subseteq Nat
    BY <2>1 DEF SourceNodes
  <2>3. m \in Message
    BY <2>1, <2>2 DEF Message
  <2> QED
    BY <2>1, <2>2, <2>3 DEF SourcePacket, Packet, Expected
<1>2. CASE \E a \in Relayed : a.node_id # n /\ pkt = AggPacket(a)
  BY <1>2 DEF AggPacket, Packet, Expected
<1> QED
  BY <1>1, <1>2 DEF Incoming

\* node_map names a node once, so that a packet matches at most one slot.
LEMMA OneSlotMatches ==
  ASSUME NEW n \in Aggregators, NEW pkt,
         NEW i \in Matching(n, pkt), NEW j \in Matching(n, pkt)
  PROVE  i = j
  BY AggregatorAssumption DEF Matching

\* A packet stores nothing or fills one slot that was not heard.
LEMMA StoredOnce ==
  ASSUME NEW n \in Aggregators, NEW pkt
  PROVE  /\ Stored(n, pkt) \subseteq Slots
         /\ Stored(n, pkt) \cap Heard(n) = {}
         /\ \/ Stored(n, pkt) = {}
            \/ \E i \in Slots \ Heard(n) : Stored(n, pkt) = {i}
<1>1. Stored(n, pkt) \subseteq Slots /\ Stored(n, pkt) \cap Heard(n) = {}
  BY DEF Stored, Matching, Heard
<1>2. ASSUME NEW i \in Stored(n, pkt), NEW j \in Stored(n, pkt)
      PROVE  i = j
  BY <1>2, OneSlotMatches DEF Stored
<1> QED
  BY <1>1, <1>2

\* The counter after the storing loop counts the flags after it.
LEMMA CountAfterIsHeard ==
  ASSUME NEW n \in Aggregators, NEW pkt, TypeOK, CountIsHeard
  PROVE  /\ CountAfter(n, pkt) = Cardinality(Heard(n) \cup Stored(n, pkt))
         /\ CountAfter(n, pkt) \in 0 .. NumNodes
         /\ CountAfter(n, pkt) = NumNodes <=> Heard(n) \cup Stored(n, pkt) = Slots
<1>1. Heard(n) \subseteq Slots /\ IsFiniteSet(Heard(n))
  BY SlotsFinite DEF Heard
<1>2. message_count[n] = Cardinality(Heard(n)) /\ message_count[n] \in Nat
  BY AggregatorAssumption DEF CountIsHeard, TypeOK
<1>3. CountAfter(n, pkt) = Cardinality(Heard(n) \cup Stored(n, pkt))
  <2>1. CASE Stored(n, pkt) = {}
    BY <1>2, <2>1, FS_EmptySet DEF CountAfter
  <2>2. CASE \E i \in Slots \ Heard(n) : Stored(n, pkt) = {i}
    <3>1. PICK i \in Slots \ Heard(n) : Stored(n, pkt) = {i}
      BY <2>2
    <3>2. Cardinality(Heard(n) \cup {i}) = Cardinality(Heard(n)) + 1
      BY <1>1, <3>1, FS_AddElement
    <3> QED
      BY <1>2, <3>1, <3>2, FS_Singleton DEF CountAfter
  <2> QED
    BY <2>1, <2>2, StoredOnce
<1>4. Heard(n) \cup Stored(n, pkt) \subseteq Slots
  BY <1>1, StoredOnce
<1> QED
  BY <1>3, <1>4, SlotsFinite

(***************************************************************************)
(* Types of what a call computes.                                          *)
(***************************************************************************)

\* The array after the storing loop holds messages, each in the slot of its
\* node, and the slots heard before are as they were.
LEMMA ArrayAfterType ==
  ASSUME NEW n \in Aggregators, NEW pkt \in Packet, TypeOK
  PROVE  /\ ArrayAfter(n, pkt) \in [Slots -> Message]
         /\ \A i \in Slots : i \notin Stored(n, pkt) =>
              ArrayAfter(n, pkt)[i] = message_array[n][i]
         /\ \A i \in Stored(n, pkt) :
              /\ ArrayAfter(n, pkt)[i] = pkt.body
              /\ ArrayAfter(n, pkt)[i].node_id = NodeMap[n][i]
<1>1. message_array[n] \in [Slots -> Message]
  BY DEF TypeOK
<1>2. \A i \in Stored(n, pkt) :
         i \in Slots /\ pkt.body \in Message /\ pkt.body.node_id = NodeMap[n][i]
  BY DEF Stored, Matching, Packet
<1> QED
  BY <1>1, <1>2 DEF ArrayAfter

\* The missed count stays within its width.
LEMMA MissedAfterType ==
  ASSUME NEW n \in Aggregators, NEW pkt, TypeOK
  PROVE  MissedAfter(n, pkt) \in 0 .. MissedMod - 1
<1>1. Dropped(n, pkt) \subseteq Slots
  BY DEF Dropped, Matching
<1>2. Cardinality(Dropped(n, pkt)) \in Nat
  BY <1>1, SlotsFinite, AggregatorAssumption
<1>3. messages_missed[n] \in Nat /\ MissedMod \in Nat \ {0}
  BY AggregatorAssumption DEF TypeOK
<1> QED
  BY <1>2, <1>3 DEF MissedAfter

\* What a call sends are packets, two at most: one passed on, one of its own.
LEMMA EmissionType ==
  ASSUME NEW n \in Aggregators, NEW pkt \in Packet, TypeOK
  PROVE  /\ Aggregate(n, pkt) \in AggMessage
         /\ Forwarded(n, pkt) \in Seq(Packet)
         /\ Emitted(n, pkt) \in Seq(Packet)
         /\ Forwarded(n, pkt) \o Emitted(n, pkt) \in Seq(Packet)
         /\ Len(Forwarded(n, pkt)) <= 2
         /\ Len(Forwarded(n, pkt) \o Emitted(n, pkt)) <= 2
<1>1. Aggregate(n, pkt) \in AggMessage
  <2>1. \A i \in Slots : ArrayAfter(n, pkt)[i].msg_id \in Nat
                         /\ ArrayAfter(n, pkt)[i].node_id \in Nat
    BY ArrayAfterType DEF Message
  <2>2. MissedAfter(n, pkt) \in Nat
    BY MissedAfterType, AggregatorAssumption
  <2>3. n \in Nat
    BY AggregatorAssumption
  <2> QED
    BY <2>1, <2>2, <2>3, ArrayAfterType DEF Aggregate, AggMessage
<1>2. Forwarded(n, pkt) \in Seq(Packet)
  BY DEF Forwarded
<1>3. AggPacket(Aggregate(n, pkt)) \in Packet
  BY <1>1 DEF AggPacket, Packet
<1>4. Emitted(n, pkt) \in Seq(Packet)
  BY <1>3 DEF Emitted
<1>5. /\ Forwarded(n, pkt) = <<>> \/ \E p \in Packet : Forwarded(n, pkt) = <<p>>
      /\ Emitted(n, pkt) = <<>> \/ \E p \in Packet : Emitted(n, pkt) = <<p>>
  BY <1>3 DEF Forwarded, Emitted
<1> DEFINE f == Forwarded(n, pkt)
           e == Emitted(n, pkt)
<1>6. Len(f) \in 0 .. 1 /\ Len(e) \in 0 .. 1
  BY <1>5
<1>7. Len(f \o e) = Len(f) + Len(e)
  <2> HIDE DEF f, e
  <2> QED
    BY <1>2, <1>4, ConcatProperties DEF f, e
<1>8. Len(Forwarded(n, pkt)) <= 2 /\ Len(Forwarded(n, pkt) \o Emitted(n, pkt)) <= 2
  <2> DEFINE lf == Len(f)
             le == Len(e)
             both == Len(f \o e)
  <2>1. lf \in 0 .. 1 /\ le \in 0 .. 1 /\ both = lf + le
    BY <1>6, <1>7
  <2> HIDE DEF lf, le, both
  <2>2. lf <= 2 /\ both <= 2
    BY <2>1
  <2> QED
    BY <2>2 DEF lf, both
<1> QED
  BY <1>1, <1>2, <1>4, <1>8, ConcatProperties

(***************************************************************************)
(* The invariant.                                                          *)
(***************************************************************************)

LEMMA InitIInv == Init => IInv
<1> SUFFICES ASSUME Init PROVE IInv
  OBVIOUS
<1> USE AggregatorAssumption
<1>1. TypeOK
  <2>1. ZeroMessage \in Message
    BY DEF ZeroMessage, Message
  <2> QED
    BY <2>1 DEF Init, TypeOK
<1>2. CountIsHeard
  <2>1. \A n \in Aggregators : Heard(n) = {}
    BY DEF Init, Heard
  <2> QED
    BY <2>1, FS_EmptySet DEF Init, CountIsHeard
<1>3. SlotsHoldOwnNode
  BY DEF Init, SlotsHoldOwnNode, Heard, Collectors, ZeroMessage
<1> QED
  BY <1>1, <1>2, <1>3 DEF IInv

\* Storing a packet keeps every slot to its node.
LEMMA SlotsAfterReceive ==
  ASSUME NEW n \in Aggregators, NEW pkt \in Packet, TypeOK, SlotsHoldOwnNode,
         message_array' = [message_array EXCEPT ![n] = ArrayAfter(n, pkt)],
         Heard(n)' \subseteq Heard(n) \cup Stored(n, pkt),
         \A k \in Aggregators \ {n} : Heard(k)' = Heard(k)
  PROVE  SlotsHoldOwnNode'
<1> SUFFICES ASSUME NEW k \in Collectors, NEW i \in Slots
             PROVE  \/ message_array'[k][i].node_id = NodeMap[k][i]
                    \/ message_array'[k][i] = ZeroMessage /\ i \notin Heard(k)'
  BY DEF SlotsHoldOwnNode
<1>1. k \in Aggregators
  BY DEF Collectors
<1>2. message_array'[k] = IF k = n THEN ArrayAfter(n, pkt) ELSE message_array[k]
  BY <1>1 DEF TypeOK
<1>3. CASE k = n /\ i \in Stored(n, pkt)
  BY <1>2, <1>3, ArrayAfterType
<1>4. CASE k = n /\ i \notin Stored(n, pkt)
  BY <1>2, <1>4, ArrayAfterType DEF SlotsHoldOwnNode
<1>5. CASE k # n
  BY <1>1, <1>2, <1>5 DEF SlotsHoldOwnNode
<1> QED
  BY <1>3, <1>4, <1>5

LEMMA ReceiveIInv ==
  ASSUME IInv, NEW n \in Aggregators, NEW pkt \in Packet, Receive(n, pkt)
  PROVE  IInv'
<1> USE DEF IInv
<1>p. pkt \in Packet
  OBVIOUS
<1>a. message_array' = [message_array EXCEPT ![n] = ArrayAfter(n, pkt)]
  BY DEF Receive
<1>t. TypeOK
  OBVIOUS
<1>1. CASE Accumulate(n, pkt)
  <2>1. Heard(n)' = Heard(n) \cup Stored(n, pkt)
    BY <1>1, <1>t, StoredOnce DEF Accumulate, Heard, TypeOK
  <2>2. \A k \in Aggregators \ {n} : Heard(k)' = Heard(k)
    BY <1>1, <1>t DEF Accumulate, Heard, TypeOK
  <2>3. TypeOK'
    <3>1. CountAfter(n, pkt) \in 0 .. NumNodes - 1
      <4>1. CountAfter(n, pkt) # NumNodes
        BY <1>1 DEF Accumulate, Due
      <4>2. CountAfter(n, pkt) \in 0 .. NumNodes
        BY CountAfterIsHeard
      <4> QED
        BY <4>1, <4>2, AggregatorAssumption
    <3>2. sent' = [sent EXCEPT ![n] = Forwarded(n, pkt)]
      BY <1>1 DEF Accumulate
    <3>3. sent' \in [Aggregators -> Seq(Packet)] /\ \A k \in Aggregators : Len(sent'[k]) <= 2
      BY <1>p, <1>t, <3>2, EmissionType DEF TypeOK
    <3> QED
      BY <1>1, <1>p, <1>t, <3>1, <3>3, ArrayAfterType, MissedAfterType
      DEF Accumulate, Receive, TypeOK
  <2>4. CountIsHeard'
    BY <1>1, <1>t, <2>1, <2>2, CountAfterIsHeard DEF Accumulate, CountIsHeard, TypeOK
  <2>5. SlotsHoldOwnNode'
    BY <1>a, <1>p, <2>1, <2>2, SlotsAfterReceive
  <2> QED
    BY <2>3, <2>4, <2>5
<1>2. CASE CloseRound(n, pkt)
  <2>1. Heard(n)' = {}
    BY <1>2, <1>t DEF CloseRound, Heard, TypeOK
  <2>2. \A k \in Aggregators \ {n} : Heard(k)' = Heard(k)
    BY <1>2, <1>t DEF CloseRound, Heard, TypeOK
  <2>3. TypeOK'
    <3>1. 0 \in 0 .. NumNodes - 1 /\ 0 \in 0 .. MissedMod - 1
      BY AggregatorAssumption
    <3>2. /\ message_array' \in [Aggregators -> [Slots -> Message]]
          /\ databuffer' \in [Aggregators -> Packet \cup {Silence}]
      BY <1>p, <1>t, ArrayAfterType DEF Receive, TypeOK
    <3>3. sent' = [sent EXCEPT ![n] = Forwarded(n, pkt) \o Emitted(n, pkt)]
      BY <1>2 DEF CloseRound
    <3>4. sent' \in [Aggregators -> Seq(Packet)] /\ \A k \in Aggregators : Len(sent'[k]) <= 2
      BY <1>p, <1>t, <3>3, EmissionType DEF TypeOK
    <3> QED
      BY <1>2, <1>t, <3>1, <3>2, <3>4 DEF CloseRound, TypeOK
  <2>4. CountIsHeard'
    BY <1>2, <1>t, <2>1, <2>2, FS_EmptySet DEF CloseRound, CountIsHeard, TypeOK
  <2>5. SlotsHoldOwnNode'
    BY <1>a, <1>p, <2>1, <2>2, SlotsAfterReceive
  <2> QED
    BY <2>3, <2>4, <2>5
<1> QED
  BY <1>1, <1>2 DEF Receive

LEMMA TimerExpiresIInv ==
  ASSUME IInv, NEW n \in Aggregators, TimerExpires(n)
  PROVE  IInv'
  BY DEF IInv, TimerExpires, round, TypeOK, CountIsHeard, SlotsHoldOwnNode, Heard

LEMMA StepIInv == IInv /\ [Next]_vars => IInv'
<1> SUFFICES ASSUME IInv, [Next]_vars PROVE IInv'
  OBVIOUS
<1>1. CASE \E n \in Aggregators : Deliver(n)
  BY <1>1, ReceiveIInv, IncomingIsExpected DEF Deliver, Expected
<1>2. CASE \E n \in Aggregators : TimerExpires(n)
  BY <1>2, TimerExpiresIInv
<1>3. CASE UNCHANGED vars
  BY <1>3 DEF IInv, vars, TypeOK, CountIsHeard, SlotsHoldOwnNode, Heard
<1> QED
  BY <1>1, <1>2, <1>3 DEF Next

\* The state of the callback keeps its types: in particular a complete round
\* never survives the call that completed it.
THEOREM TypeCorrect == Spec => []TypeOK
<1>1. IInv => TypeOK
  BY DEF IInv
<1> QED
  BY <1>1, InitIInv, StepIInv, PTL DEF Spec

\* message_count always is the number of set flags.
THEOREM CountCorrect == Spec => []CountIsHeard
<1>1. IInv => CountIsHeard
  BY DEF IInv
<1> QED
  BY <1>1, InitIInv, StepIInv, PTL DEF Spec

\* A slot only ever holds messages of its own node.
THEOREM SlotsCorrect == Spec => []SlotsHoldOwnNode
<1>1. IInv => SlotsHoldOwnNode
  BY DEF IInv
<1> QED
  BY <1>1, InitIInv, StepIInv, PTL DEF Spec

(***************************************************************************)
(* The refinement: a call of udp_rx_callback is one step of the rounds.    *)
(***************************************************************************)

\* The round after the storing loop, before it is closed: its slots, its
\* messages.
HeardAfter(n, pkt) == Heard(n) \cup Stored(n, pkt)

TakenAfter(n, pkt) == { ArrayAfter(n, pkt)[i] : i \in HeardAfter(n, pkt) }

\* A slot holds a message of its node or nothing; a heard one holds a message.
LEMMA HoldsAfter ==
  ASSUME IInv, NEW n \in Collectors, NEW pkt \in Packet, NEW i \in Slots
  PROVE  /\ ArrayAfter(n, pkt)[i] \in Message
         /\ \/ ArrayAfter(n, pkt)[i].node_id = NodeMap[n][i]
            \/ ArrayAfter(n, pkt)[i] = ZeroMessage /\ i \notin HeardAfter(n, pkt)
<1>1. n \in Aggregators
  BY DEF Collectors
<1>2. CASE i \in Stored(n, pkt)
  BY <1>1, <1>2, ArrayAfterType DEF IInv
<1>3. CASE i \notin Stored(n, pkt)
  BY <1>1, <1>3, ArrayAfterType DEF IInv, SlotsHoldOwnNode, HeardAfter
<1> QED
  BY <1>2, <1>3

\* The messages of the round after the storing loop are those of before and the
\* packet's, if it was stored.
LEMMA TakenAfterStored ==
  ASSUME IInv, NEW n \in Collectors, NEW pkt \in Packet
  PROVE  TakenAfter(n, pkt) = Taken(n) \cup { pkt.body : i \in Stored(n, pkt) }
<1>1. n \in Aggregators /\ TypeOK
  BY DEF Collectors, IInv
<1>2. \A i \in Heard(n) : ArrayAfter(n, pkt)[i] = message_array[n][i]
  BY <1>1, ArrayAfterType, StoredOnce DEF Heard
<1>3. \A i \in Stored(n, pkt) : ArrayAfter(n, pkt)[i] = pkt.body
  BY <1>1, ArrayAfterType
<1> QED
  BY <1>2, <1>3 DEF TakenAfter, HeardAfter, Taken

\* The sources heard in the round are those of its slots; they are all sources
\* exactly when the counter has reached NumNodes.
LEMMA SendersAfter ==
  ASSUME IInv, NEW n \in Collectors, NEW pkt \in Packet
  PROVE  /\ R!Senders(TakenAfter(n, pkt)) = { NodeMap[n][i] : i \in HeardAfter(n, pkt) }
         /\ R!Senders(TakenAfter(n, pkt)) = SourceNodes(n)
              <=> CountAfter(n, pkt) = NumNodes
         /\ CountAfter(n, pkt) = NumNodes <=> HeardAfter(n, pkt) = Slots
<1>1. n \in Aggregators \ {Root} /\ HeardAfter(n, pkt) \subseteq Slots
  BY StoredOnce DEF Collectors, HeardAfter, Heard
<1>2. \A i \in HeardAfter(n, pkt) : ArrayAfter(n, pkt)[i].node_id = NodeMap[n][i]
  BY <1>1, HoldsAfter
<1>3. R!Senders(TakenAfter(n, pkt)) = { NodeMap[n][i] : i \in HeardAfter(n, pkt) }
  BY <1>2 DEF R!Senders, TakenAfter
<1>4. CountAfter(n, pkt) = NumNodes <=> HeardAfter(n, pkt) = Slots
  BY <1>1, CountAfterIsHeard DEF IInv, HeardAfter
<1>5. SourceNodes(n) = { NodeMap[n][i] : i \in Slots }
  BY <1>1 DEF SourceNodes
<1>6. \A i, j \in Slots : NodeMap[n][i] = NodeMap[n][j] => i = j
  BY <1>1, AggregatorAssumption
<1>7. SourceNodes(n) = { NodeMap[n][i] : i \in HeardAfter(n, pkt) }
        => HeardAfter(n, pkt) = Slots
  BY <1>1, <1>5, <1>6
<1> QED
  BY <1>3, <1>4, <1>5, <1>7

\* A call is due exactly when the abstract round is over.
LEMMA DueIsOver ==
  ASSUME IInv, NEW n \in Collectors, NEW pkt \in Packet
  PROVE  Due(n, pkt) <=> R!Over(n, TakenAfter(n, pkt))
  BY SendersAfter DEF Due, R!Over

\* The aggregate of a due call keeps every promise the rounds make of a report.
LEMMA ReportKeepsPromise ==
  ASSUME IInv, NEW n \in Collectors, NEW pkt \in Packet
  PROVE  LET r  == ReportOf(Aggregate(n, pkt))
             ms == TakenAfter(n, pkt)
         IN  /\ r.missed = MissedAfter(n, pkt)
             /\ ms \subseteq r.used
             /\ R!Senders(r.listed) \subseteq SourceNodes(n)
             /\ R!Senders(r.listed) = SourceNodes(n) <=> R!Senders(ms) = SourceNodes(n)
             /\ R!Senders(ms) = SourceNodes(n) => r.used = ms /\ r.listed = ms
<1> DEFINE array == ArrayAfter(n, pkt)
           r     == ReportOf(Aggregate(n, pkt))
           ms    == TakenAfter(n, pkt)
           first == { i \in Slots : i < CountAfter(n, pkt) }
<1>1. n \in Aggregators \ {Root} /\ HeardAfter(n, pkt) \subseteq Slots
  BY StoredOnce DEF Collectors, HeardAfter, Heard
<1>2. SourceNodes(n) = { NodeMap[n][i] : i \in Slots }
  BY <1>1 DEF SourceNodes
<1>3. \A i \in Slots : NodeMap[n][i] # 0
  BY <1>1, AggregatorAssumption
<1>4. r.missed = MissedAfter(n, pkt)
  BY DEF ReportOf, Aggregate
<1>5. r.used = { array[i] : i \in Slots }
  BY DEF ReportOf, Aggregate
<1>6. r.listed = { array[i] : i \in first } \ {ZeroMessage}
  <2>1. \A i \in first : [node_id |-> array[i].node_id, msg_id |-> array[i].msg_id] = array[i]
    BY HoldsAfter DEF Message
  <2>2. r.listed = { IF i \in first THEN array[i] ELSE ZeroMessage : i \in Slots }
                     \ {ZeroMessage}
    BY <2>1 DEF ReportOf, Listed, Aggregate, ZeroMessage
  <2> QED
    BY <2>2
<1>7. \A m \in r.listed : \E i \in first : m = array[i] /\ m.node_id = NodeMap[n][i]
  BY <1>6, HoldsAfter
<1>8. R!Senders(r.listed) \subseteq SourceNodes(n)
  BY <1>2, <1>7 DEF R!Senders
<1>9. R!Senders(r.listed) = SourceNodes(n) => CountAfter(n, pkt) = NumNodes
  <2> SUFFICES ASSUME R!Senders(r.listed) = SourceNodes(n)
               PROVE  CountAfter(n, pkt) = NumNodes
    OBVIOUS
  <2>1. NumNodes - 1 \in Slots
    BY AggregatorAssumption DEF Slots
  <2>2. PICK i \in first : NodeMap[n][NumNodes - 1] = NodeMap[n][i]
    BY <1>2, <1>7, <2>1 DEF R!Senders
  <2>3. i = NumNodes - 1
    BY <1>1, <2>1, <2>2, AggregatorAssumption
  <2>4. CountAfter(n, pkt) \in 0 .. NumNodes
    BY <1>1, CountAfterIsHeard DEF IInv
  <2> QED
    BY <2>2, <2>3, <2>4, AggregatorAssumption
<1>10. CountAfter(n, pkt) = NumNodes
         => r.used = ms /\ r.listed = ms /\ R!Senders(r.listed) = SourceNodes(n)
  <2> SUFFICES ASSUME CountAfter(n, pkt) = NumNodes
               PROVE  r.used = ms /\ r.listed = ms /\ R!Senders(ms) = SourceNodes(n)
    OBVIOUS
  <2>1. HeardAfter(n, pkt) = Slots /\ R!Senders(ms) = SourceNodes(n)
    BY SendersAfter
  <2>2. first = Slots
    BY AggregatorAssumption DEF Slots
  <2>3. \A i \in Slots : array[i] # ZeroMessage
    BY <1>3, <2>1, HoldsAfter DEF ZeroMessage
  <2> QED
    BY <1>5, <1>6, <2>1, <2>2, <2>3 DEF TakenAfter
<1>11. ms \subseteq r.used
  BY <1>1, <1>5 DEF TakenAfter
<1> QED
  BY <1>4, <1>8, <1>9, <1>10, <1>11, SendersAfter

\* Two sequences of one element make a sequence of two.
LEMMA Pairing == \A x, y : <<x>> \o <<y>> = <<x, y>>
<1> TAKE x, y
<1> DEFINE T == {x, y}
<1>1. <<x>> \in Seq(T) /\ <<y>> \in Seq(T) /\ <<x, y>> \in Seq(T)
  OBVIOUS
<1>2. Len(<<x>> \o <<y>>) = 2 /\ <<x>> \o <<y>> \in Seq(T)
  BY <1>1
<1>3. \A i \in 1 .. 2 : (<<x>> \o <<y>>)[i] = <<x, y>>[i]
  BY <1>1
<1> QED
  BY <1>1, <1>2, <1>3, SeqEqual

\* What a call sends of its own: nothing, or the aggregate.  A relayed message
\* is another aggregator's.
LEMMA OwnAfter ==
  ASSUME IInv, NEW n \in Collectors, NEW pkt \in Expected(n)
  PROVE  /\ Accumulate(n, pkt) => Own(n)' = {}
         /\ CloseRound(n, pkt) => Own(n)' = {Aggregate(n, pkt)}
<1>1. n \in Aggregators /\ n # Root /\ sent \in [Aggregators -> Seq(Packet)]
  BY DEF Collectors, IInv, TypeOK
<1>2. \/ Forwarded(n, pkt) = <<>>
      \/ Forwarded(n, pkt) = <<pkt>> /\ pkt.body.node_id # n
  BY <1>1, ExpectedIsPacket DEF Forwarded
<1>3. ASSUME Accumulate(n, pkt) PROVE Own(n)' = {}
  <2>1. sent'[n] = Forwarded(n, pkt)
    BY <1>1, <1>3 DEF Accumulate
  <2> QED
    BY <1>2, <2>1 DEF Own
<1>4. ASSUME CloseRound(n, pkt) PROVE Own(n)' = {Aggregate(n, pkt)}
  <2> DEFINE own == AggPacket(Aggregate(n, pkt))
  <2>1. own.body = Aggregate(n, pkt) /\ own.body.node_id = n
    BY DEF AggPacket, Aggregate
  <2>2. sent'[n] = Forwarded(n, pkt) \o <<own>>
    BY <1>1, <1>4 DEF CloseRound, Emitted
  <2>3. Own(n)' = { p.body : p \in { sent'[n][j] : j \in { k \in DOMAIN sent'[n] :
                                        sent'[n][k].body.node_id = n } } }
    BY DEF Own
  <2> HIDE DEF own
  <2>4. CASE Forwarded(n, pkt) = <<>>
    <3>1. sent'[n] = <<own>>
      BY <2>2, <2>4
    <3> QED
      BY <2>1, <2>3, <3>1
  <2>5. CASE Forwarded(n, pkt) = <<pkt>> /\ pkt.body.node_id # n
    <3>1. sent'[n] = <<pkt, own>>
      BY <2>2, <2>5, Pairing
    <3> QED
      BY <2>1, <2>3, <2>5, <3>1
  <2> QED
    BY <1>2, <2>4, <2>5
<1> QED
  BY <1>3, <1>4

\* A call on one aggregator leaves the rounds of the others alone.
LEMMA OthersUnchanged ==
  ASSUME IInv, NEW n \in Aggregators, NEW pkt \in Expected(n), Receive(n, pkt),
         NEW k \in Collectors, k # n
  PROVE  /\ Taken(k)' = Taken(k)
         /\ messages_missed'[k] = messages_missed[k]
         /\ TimedOut(k)' = TimedOut(k)
         /\ Own(k)' = Own(k)
<1>1. /\ message_array'[k] = message_array[k]
      /\ nodes_recieved'[k] = nodes_recieved[k]
      /\ messages_missed'[k] = messages_missed[k]
      /\ message_count'[k] = message_count[k]
      /\ expired'[k] = expired[k]
      /\ sent'[k] = sent[k]
  BY DEF Receive, Accumulate, CloseRound, IInv, TypeOK, Collectors
<1> QED
  BY <1>1 DEF Taken, Heard, TimedOut, Own

\* The call as a step of the rounds, given the round it leaves behind.
LEMMA CallSettles ==
  ASSUME IInv, NEW n \in Collectors, NEW pkt \in Expected(n), Receive(n, pkt)
  PROVE  R!Settle(n, TakenAfter(n, pkt), MissedAfter(n, pkt))
<1> DEFINE ms == TakenAfter(n, pkt)
<1>1. n \in Aggregators /\ pkt \in Packet /\ TypeOK
  BY ExpectedIsPacket DEF Collectors, IInv
<1>2. \A k \in Collectors \ {n} :
        /\ Taken(k)' = Taken(k)
        /\ messages_missed'[k] = messages_missed[k]
        /\ TimedOut(k)' = TimedOut(k)
        /\ Own(k)' = Own(k)
  BY <1>1, OthersUnchanged
<1>3. message_array'[n] = ArrayAfter(n, pkt)
  BY <1>1 DEF Receive, TypeOK
<1>4. CASE Accumulate(n, pkt)
  <2>1. ~ R!Over(n, ms)
    BY <1>1, <1>4, DueIsOver DEF Accumulate
  <2>2. Taken(n)' = ms
    <3>1. Heard(n)' = HeardAfter(n, pkt)
      BY <1>1, <1>4, StoredOnce DEF Accumulate, Heard, HeardAfter, TypeOK
    <3> QED
      BY <1>3, <3>1 DEF Taken, TakenAfter
  <2>3. messages_missed'[n] = MissedAfter(n, pkt)
    BY <1>1, <1>4 DEF Accumulate, TypeOK
  <2>4. TimedOut(n)' = TimedOut(n)
    <3>1. TimedOut(n) = FALSE
      BY <1>4 DEF Accumulate, Due, TimedOut
    <3>2. expired'[n] = FALSE
      BY <1>1, <1>4 DEF Accumulate, TypeOK
    <3> QED
      BY <3>1, <3>2 DEF TimedOut
  <2>5. { ReportOf(a) : a \in Own(n)' } = {}
    BY <1>4, OwnAfter
  <2>6. R!Continue(n, ms, MissedAfter(n, pkt))
    BY <1>2, <2>1, <2>2, <2>3, <2>4, <2>5 DEF R!Continue
  <2> QED
    BY <2>6 DEF R!Settle
<1>5. CASE CloseRound(n, pkt)
  <2>1. R!Over(n, ms)
    BY <1>1, <1>5, DueIsOver DEF CloseRound
  <2>2. Taken(n)' = {}
    BY <1>1, <1>5 DEF CloseRound, Taken, Heard, TypeOK
  <2>3. messages_missed'[n] = 0
    BY <1>1, <1>5 DEF CloseRound, TypeOK
  <2>4. TimedOut(n)' = FALSE
    BY <1>1, <1>5 DEF CloseRound, TimedOut, TypeOK
  <2>5. { ReportOf(a) : a \in Own(n)' } = {ReportOf(Aggregate(n, pkt))}
    BY <1>5, OwnAfter
  <2>6. R!Finish(n, ms, MissedAfter(n, pkt))
    BY <1>1, <1>2, <2>1, <2>2, <2>3, <2>4, <2>5, ReportKeepsPromise DEF R!Finish
  <2> QED
    BY <2>6 DEF R!Settle
<1> QED
  BY <1>4, <1>5 DEF Receive

\* A source's packet matches one slot of its aggregator: it is stored there,
\* or dropped and counted.
LEMMA SourcePacketMatches ==
  ASSUME IInv, NEW n \in Collectors, NEW pkt \in Expected(n), pkt.len = "message_t"
  PROVE  /\ pkt.body \in [node_id : SourceNodes(n), msg_id : MsgIds]
         /\ \E i \in Slots :
              /\ NodeMap[n][i] = pkt.body.node_id
              /\ \/ i \in Heard(n) /\ Stored(n, pkt) = {} /\ Dropped(n, pkt) = {i}
                 \/ i \notin Heard(n) /\ Stored(n, pkt) = {i} /\ Dropped(n, pkt) = {}
<1>1. n \in Aggregators \ {Root}
  BY DEF Collectors
<1>2. pkt.body \in [node_id : SourceNodes(n), msg_id : MsgIds]
  BY DEF Expected
<1>3. PICK i \in Slots : NodeMap[n][i] = pkt.body.node_id
  BY <1>1, <1>2 DEF SourceNodes
<1>4. i \in Matching(n, pkt)
  BY <1>1, <1>3 DEF Matching
<1>5. Matching(n, pkt) = {i}
  BY <1>1, <1>4, OneSlotMatches
<1> QED
  BY <1>2, <1>3, <1>5 DEF Stored, Dropped, Heard

\* A call on a collector is the arrival of a new message, of a repeated one or
\* of something else.
LEMMA CallRefines ==
  ASSUME IInv, NEW n \in Collectors, NEW pkt \in Expected(n), Receive(n, pkt)
  PROVE  R!Take(n) \/ R!Miss(n) \/ R!Pass(n)
<1>1. pkt \in Packet /\ n \in Aggregators
  BY ExpectedIsPacket DEF Collectors
<1>2. messages_missed[n] \in 0 .. MissedMod - 1 /\ MissedMod \in Nat \ {0}
  BY <1>1, AggregatorAssumption DEF IInv, TypeOK
<1>3. R!Senders(Taken(n)) = { NodeMap[n][i] : i \in Heard(n) }
  <2>1. \A i \in Heard(n) : message_array[n][i].node_id = NodeMap[n][i]
    BY DEF IInv, SlotsHoldOwnNode, Heard
  <2> QED
    BY <2>1 DEF R!Senders, Taken
<1>4. \A i, j \in Slots : NodeMap[n][i] = NodeMap[n][j] => i = j
  BY AggregatorAssumption DEF Collectors
<1>5. CASE pkt.len = "message_t"
  <2>1. PICK i \in Slots :
          /\ NodeMap[n][i] = pkt.body.node_id
          /\ \/ i \in Heard(n) /\ Stored(n, pkt) = {} /\ Dropped(n, pkt) = {i}
             \/ i \notin Heard(n) /\ Stored(n, pkt) = {i} /\ Dropped(n, pkt) = {}
    BY <1>5, SourcePacketMatches
  <2>2. CASE i \in Heard(n) /\ Stored(n, pkt) = {} /\ Dropped(n, pkt) = {i}
    <3>1. TakenAfter(n, pkt) = Taken(n)
      BY <1>1, <2>2, TakenAfterStored
    <3>2. MissedAfter(n, pkt) = (messages_missed[n] + 1) % MissedMod
      BY <2>2, FS_Singleton DEF MissedAfter
    <3>3. R!Senders(Taken(n)) # {}
      BY <1>3, <2>2
    <3>4. R!Miss(n)
      BY <3>1, <3>2, <3>3, CallSettles DEF R!Miss
    <3> QED
      BY <3>4
  <2>3. CASE i \notin Heard(n) /\ Stored(n, pkt) = {i} /\ Dropped(n, pkt) = {}
    <3>1. TakenAfter(n, pkt) = Taken(n) \cup {pkt.body}
      BY <1>1, <2>3, TakenAfterStored
    <3>2. MissedAfter(n, pkt) = messages_missed[n]
      BY <1>2, <2>3, FS_EmptySet DEF MissedAfter
    <3>3. pkt.body.node_id \in SourceNodes(n) \ R!Senders(Taken(n))
      BY <1>3, <1>4, <1>5, <2>1, <2>3, SourcePacketMatches DEF Heard
    <3>4. /\ pkt.body.msg_id \in MsgIds
          /\ pkt.body = [node_id |-> pkt.body.node_id, msg_id |-> pkt.body.msg_id]
      BY <1>5, SourcePacketMatches
    <3>5. R!Settle(n, Taken(n) \cup {pkt.body}, messages_missed[n])
      BY <3>1, <3>2, CallSettles
    <3>6. R!Take(n)
      BY <3>3, <3>4, <3>5 DEF R!Take
    <3> QED
      BY <3>6
  <2> QED
    BY <2>1, <2>2, <2>3
<1>6. CASE pkt.len = "message_agg_t"
  <2>1. Stored(n, pkt) = {} /\ Dropped(n, pkt) = {}
    BY <1>6 DEF Stored, Dropped, Matching
  <2>2. TakenAfter(n, pkt) = Taken(n)
    BY <1>1, <2>1, TakenAfterStored
  <2>3. MissedAfter(n, pkt) = messages_missed[n]
    BY <1>2, <2>1, FS_EmptySet DEF MissedAfter
  <2>4. R!Pass(n)
    BY <2>2, <2>3, CallSettles DEF R!Pass
  <2> QED
    BY <2>4
<1> QED
  BY <1>1, <1>5, <1>6, ExpectedIsPacket

\* The timer of an open round makes it late; otherwise nothing shows.
LEMMA TimerRefines ==
  ASSUME IInv, NEW n \in Aggregators, TimerExpires(n)
  PROVE  [R!Next]_(R!vars)
<1>1. /\ \A k \in Collectors : Taken(k)' = Taken(k) /\ Own(k)' = Own(k)
      /\ UNCHANGED <<messages_missed, message_count>>
  BY DEF TimerExpires, round, Taken, Heard, Own
<1>2. \A k \in Collectors : k # n => TimedOut(k)' = TimedOut(k)
  BY DEF TimerExpires, round, TimedOut, Collectors, IInv, TypeOK
<1>3. CASE n \in Collectors /\ message_count[n] # 0
  <2>1. TimedOut(n)' = TRUE
    BY <1>3 DEF TimerExpires, round, TimedOut, IInv, TypeOK
  <2>2. Taken(n) # {}
    <3>1. Heard(n) # {}
      BY <1>3, FS_EmptySet DEF IInv, CountIsHeard
    <3> QED
      BY <3>1 DEF Taken
  <2>3. R!RunLate(n)
    BY <1>1, <1>2, <1>3, <2>1, <2>2 DEF R!RunLate
  <2> QED
    BY <1>3, <2>3 DEF R!Next
<1>4. CASE ~ (n \in Collectors /\ message_count[n] # 0)
  <2>1. \A k \in Collectors : TimedOut(k)' = TimedOut(k)
    BY <1>1, <1>2, <1>4 DEF TimedOut
  <2> QED
    BY <1>1, <2>1 DEF R!vars
<1> QED
  BY <1>3, <1>4

\* A packet at the root shows in no round.
LEMMA RootRefines ==
  ASSUME IInv, NEW n \in Aggregators, n \notin Collectors,
         NEW pkt \in Expected(n), Receive(n, pkt)
  PROVE  UNCHANGED R!vars
<1>1. \A k \in Collectors :
        /\ Taken(k)' = Taken(k)
        /\ messages_missed'[k] = messages_missed[k]
        /\ TimedOut(k)' = TimedOut(k)
        /\ Own(k)' = Own(k)
  BY OthersUnchanged
<1> QED
  BY <1>1 DEF R!vars

LEMMA InitRefines == Init => R!Init
<1> SUFFICES ASSUME Init PROVE R!Init
  OBVIOUS
<1>1. \A n \in Collectors : /\ Taken(n) = {}
                            /\ messages_missed[n] = 0
                            /\ TimedOut(n) = FALSE
                            /\ Own(n) = {}
  BY DEF Init, Taken, Heard, TimedOut, Own, Collectors
<1> QED
  BY <1>1 DEF R!Init

LEMMA StepRefines == IInv /\ [Next]_vars => [R!Next]_(R!vars)
<1> SUFFICES ASSUME IInv, [Next]_vars PROVE [R!Next]_(R!vars)
  OBVIOUS
<1>1. ASSUME NEW n \in Aggregators, Deliver(n) PROVE [R!Next]_(R!vars)
  <2>1. PICK pkt \in Expected(n) : Receive(n, pkt)
    BY <1>1, IncomingIsExpected DEF Deliver
  <2>2. CASE n \in Collectors
    BY <2>1, <2>2, CallRefines DEF R!Next
  <2>3. CASE n \notin Collectors
    BY <2>1, <2>3, RootRefines
  <2> QED
    BY <2>2, <2>3
<1>2. ASSUME NEW n \in Aggregators, TimerExpires(n) PROVE [R!Next]_(R!vars)
  BY <1>2, TimerRefines
<1>3. CASE UNCHANGED vars
  BY <1>3 DEF vars, R!vars, Taken, Heard, TimedOut, Own
<1> QED
  BY <1>1, <1>2, <1>3 DEF Next

\* What the aggregator promises: every call of udp_rx_callback, for every
\* number of sources and in every order of packets and timeouts, is a step of
\* the abstract rounds.
THEOREM AggregatorImplementsRounds == Spec => ImplementsRounds
<1>1. Spec => []IInv
  BY InitIInv, StepIInv, PTL DEF Spec
<1> QED
  BY <1>1, InitRefines, StepRefines, PTL DEF Spec, ImplementsRounds, R!Spec
=============================================================================
