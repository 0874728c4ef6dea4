----------------------------- MODULE WsnProofs ------------------------------
(***************************************************************************)
(* Theorems about Wsn, for every tree of motes, number of sources and      *)
(* slots, and capacity of the links: the aggregators keep their promise in *)
(* the network, and what the root sees named of a source never goes back.  *)
(***************************************************************************)
EXTENDS Wsn, AggregatorProofs

(***************************************************************************)
(* The tree.                                                               *)
(***************************************************************************)

\* A sender's own packets pass through it.
LEMMA UpstreamSelf ==
  ASSUME NEW k \in Senders
  PROVE  k \in Upstream[k] /\ Upstream[k] \subseteq Senders
BY DEF Upstream

\* Nothing else passes through it than what its definition asks for.
LEMMA UpstreamLeast ==
  ASSUME NEW k \in Senders, NEW S \in SUBSET Senders, k \in S,
         \A m \in Senders : NextHop[m] \in S => m \in S
  PROVE  Upstream[k] \subseteq S
BY DEF Upstream

\* What passes through a mote passes through its next hop.
LEMMA UpstreamClosed ==
  ASSUME NEW k \in Senders, NEW m \in Senders, NextHop[m] \in Upstream[k]
  PROVE  m \in Upstream[k]
<1> SUFFICES ASSUME NEW S \in SUBSET Senders, k \in S,
                    \A j \in Senders : NextHop[j] \in S => j \in S
             PROVE  m \in S
  BY DEF Upstream
<1>1. NextHop[m] \in S
  BY DEF Upstream
<1> QED
  BY <1>1

\* What passes through a mote is its own or passes to it over another one.
LEMMA UpstreamOver ==
  ASSUME NEW k \in Senders, NEW n \in Upstream[k], n # k
  PROVE  NextHop[n] \in Upstream[k]
<1> DEFINE S == {k} \cup { m \in Senders : NextHop[m] \in Upstream[k] }
<1>1. S \in SUBSET Senders /\ k \in S
  OBVIOUS
<1>2. ASSUME NEW m \in Senders, NextHop[m] \in S
      PROVE  m \in S
  <2>1. NextHop[m] \in Upstream[k]
    BY <1>2, UpstreamSelf, UpstreamClosed
  <2> QED
    BY <2>1
<1>3. Upstream[k] \subseteq S
  <2> HIDE DEF S
  <2> QED
    BY <1>1, <1>2, UpstreamLeast
<1> QED
  BY <1>3

LEMMA UpstreamTransitive ==
  ASSUME NEW k \in Senders, NEW l \in Upstream[k]
  PROVE  l \in Senders /\ Upstream[l] \subseteq Upstream[k]
<1>1. l \in Senders /\ Upstream[k] \in SUBSET Senders
  BY UpstreamSelf
<1>2. \A m \in Senders : NextHop[m] \in Upstream[k] => m \in Upstream[k]
  BY UpstreamClosed
<1> QED
  BY <1>1, <1>2, UpstreamLeast

\* No packet comes back.
LEMMA UpstreamOrder ==
  ASSUME NEW k \in Senders, NEW l \in Senders, k \in Upstream[l], l \in Upstream[k]
  PROVE  k = l
<1> SUFFICES ASSUME k # l PROVE FALSE
  OBVIOUS
<1>1. NextHop[k] \in Upstream[l]
  BY UpstreamOver
<1>2. NextHop[k] \in Upstream[k]
  BY <1>1, UpstreamTransitive
<1> QED
  BY <1>2, WsnAssumption

\* Two motes that the same packets pass through are on one path.
LEMMA UpstreamLinear ==
  ASSUME NEW k \in Senders, NEW l \in Senders, NEW s \in Upstream[k], s \in Upstream[l]
  PROVE  k \in Upstream[l] \/ l \in Upstream[k]
<1> SUFFICES ASSUME k \notin Upstream[l], l \notin Upstream[k] PROVE FALSE
  OBVIOUS
<1> DEFINE S == Upstream[l] \ Upstream[k]
<1>1. S \in SUBSET Senders /\ l \in S
  BY UpstreamSelf
<1>2. ASSUME NEW m \in Senders, NextHop[m] \in S
      PROVE  m \in S
  <2>1. m \in Upstream[l]
    BY <1>2, UpstreamClosed
  <2>2. m # k
    BY <2>1
  <2>3. m \notin Upstream[k]
    BY <1>2, <2>2, UpstreamOver
  <2> QED
    BY <2>1, <2>3
<1>3. Upstream[l] \subseteq S
  <2> HIDE DEF S
  <2> QED
    BY <1>1, <1>2, UpstreamLeast
<1> QED
  BY <1>3

\* Nobody sends to a source.
LEMMA UpstreamOfSource ==
  ASSUME NEW s \in Sources
  PROVE  s \in Senders /\ Upstream[s] = {s}
<1>1. s \in Senders /\ {s} \in SUBSET Senders
  BY DEF Senders
<1>2. \A m \in Senders : NextHop[m] # s
  BY WsnAssumption
<1>3. Upstream[s] \subseteq {s}
  BY <1>1, <1>2, UpstreamLeast
<1> QED
  BY <1>1, <1>3, UpstreamSelf

(***************************************************************************)
(* The path of a source's messages.  Going from the source to the root,    *)
(* the numbers that the packets on the links name of it only get smaller,  *)
(* with the number in its slot between those of its own packets and those  *)
(* of aggregates, and within a link they get larger.                       *)
(***************************************************************************)

\* The numbers that a packet names of a source.
Named(pkt, s) ==
  { v \in Nat :
      \/ /\ pkt.len = "message_t"
         /\ pkt.body.node_id = s
         /\ pkt.body.msg_id = v
      \/ /\ pkt.len = "message_agg_t"
         /\ \E i \in Slots : /\ pkt.body.node_ids_in_msg[i] = s
                             /\ pkt.body.msg_ids_in_msg[i] = v }

\* last is the number the root has seen, slot the one in the source's slot, and
\* new the source's next one.
Ordered(s, L, last, slot, new) ==
  /\ last <= slot /\ slot < new
  /\ \A k \in Senders : \A i \in DOMAIN L[k] : \A v \in Named(L[k][i], s) :
       /\ s \in Upstream[k]
       /\ last <= v /\ v < new
       /\ IF k = s THEN slot <= v ELSE v <= slot
  /\ \A k \in Senders : \A i, j \in DOMAIN L[k] : i <= j =>
       \A v \in Named(L[k][i], s), w \in Named(L[k][j], s) : v <= w
  /\ \A k, l \in Senders : k \in Upstream[l] /\ k # l =>
       \A i \in DOMAIN L[k], j \in DOMAIN L[l] :
         \A v \in Named(L[k][i], s), w \in Named(L[l][j], s) : w <= v

\* A packet may join a link if what it names is no older than what is on the
\* link and beyond, and no newer than what is before it.
Joins(s, L, last, slot, new, n, pkt) ==
  \A v \in Named(pkt, s) :
    /\ s \in Upstream[n]
    /\ last <= v /\ v < new
    /\ IF n = s THEN slot <= v ELSE v <= slot
    /\ \A w \in Named(pkt, s) : v = w
    /\ \A l \in Senders : \A j \in DOMAIN L[l] : \A w \in Named(L[l][j], s) :
         /\ n \in Upstream[l] => w <= v
         /\ l \in Upstream[n] /\ l # n => v <= w

LEMMA JoiningKeepsOrder ==
  ASSUME NEW s, NEW L \in [Senders -> Seq(Packet)], NEW n \in Senders, NEW pkt \in Packet,
         NEW last \in Nat, NEW slot \in Nat, NEW new \in Nat,
         Ordered(s, L, last, slot, new), Joins(s, L, last, slot, new, n, pkt)
  PROVE  Ordered(s, [L EXCEPT ![n] = Append(@, pkt)], last, slot, new)
<1> DEFINE M == [L EXCEPT ![n] = Append(@, pkt)]
<1>1. /\ \A k \in Senders : k # n => M[k] = L[k]
      /\ M[n] = Append(L[n], pkt)
      /\ L[n] \in Seq(Packet)
  OBVIOUS
<1>2. /\ DOMAIN M[n] = 1 .. Len(L[n]) + 1
      /\ DOMAIN L[n] = 1 .. Len(L[n])
      /\ Len(L[n]) \in Nat
      /\ \A i \in DOMAIN L[n] : M[n][i] = L[n][i]
      /\ M[n][Len(L[n]) + 1] = pkt
  BY <1>1
<1>3. \A k \in Senders : \A i \in DOMAIN M[k] :
        \/ i \in DOMAIN L[k] /\ M[k][i] = L[k][i]
        \/ k = n /\ i = Len(L[n]) + 1 /\ M[k][i] = pkt
  BY <1>1, <1>2
<1> HIDE DEF M
<1>4. n \in Upstream[n]
  BY UpstreamSelf
<1>5. ASSUME NEW k \in Senders, NEW i \in DOMAIN M[k], NEW v \in Named(M[k][i], s)
      PROVE  /\ s \in Upstream[k]
             /\ last <= v /\ v < new
             /\ IF k = s THEN slot <= v ELSE v <= slot
  BY <1>3, <1>5 DEF Ordered, Joins
<1>6. ASSUME NEW k \in Senders, NEW i \in DOMAIN M[k], NEW j \in DOMAIN M[k], i <= j,
             NEW v \in Named(M[k][i], s), NEW w \in Named(M[k][j], s)
      PROVE  v <= w
  <2>1. CASE j \in DOMAIN L[k] /\ M[k][j] = L[k][j]
    <3>1. i \in DOMAIN L[k] /\ M[k][i] = L[k][i]
      BY <1>2, <1>3, <1>6, <2>1
    <3> QED
      BY <1>6, <2>1, <3>1 DEF Ordered
  <2>2. CASE k = n /\ j = Len(L[n]) + 1 /\ M[k][j] = pkt
    <3>1. CASE i \in DOMAIN L[n] /\ M[n][i] = L[n][i]
      BY <1>4, <1>6, <2>2, <3>1 DEF Joins
    <3>2. CASE M[n][i] = pkt
      <4>1. v = w /\ v \in Nat
        BY <1>6, <2>2, <3>2 DEF Joins, Named
      <4> QED
        BY <4>1
    <3> QED
      BY <1>3, <2>2, <3>1, <3>2
  <2> QED
    BY <1>3, <2>1, <2>2
<1>7. ASSUME NEW k \in Senders, NEW l \in Senders, k \in Upstream[l], k # l,
             NEW i \in DOMAIN M[k], NEW j \in DOMAIN M[l],
             NEW v \in Named(M[k][i], s), NEW w \in Named(M[l][j], s)
      PROVE  w <= v
  <2>1. CASE /\ i \in DOMAIN L[k] /\ M[k][i] = L[k][i]
             /\ j \in DOMAIN L[l] /\ M[l][j] = L[l][j]
    BY <1>7, <2>1 DEF Ordered
  <2>2. CASE /\ i \in DOMAIN L[k] /\ M[k][i] = L[k][i]
             /\ l = n /\ M[l][j] = pkt
    BY <1>7, <2>2 DEF Joins
  <2>3. CASE /\ k = n /\ M[k][i] = pkt
             /\ j \in DOMAIN L[l] /\ M[l][j] = L[l][j]
    BY <1>7, <2>3 DEF Joins
  <2> QED
    BY <1>3, <1>7, <2>1, <2>2, <2>3
<1>8. last <= slot /\ slot < new
  BY DEF Ordered
<1> QED
  BY <1>5, <1>6, <1>7, <1>8 DEF Ordered, M

\* A packet that leaves its link leaves the others in their order.
LEMMA LeavingKeepsOrder ==
  ASSUME NEW s, NEW L \in [Senders -> Seq(Packet)], NEW n \in Senders, L[n] # <<>>,
         NEW last \in Nat, NEW slot \in Nat, NEW new \in Nat,
         Ordered(s, L, last, slot, new)
  PROVE  Ordered(s, [L EXCEPT ![n] = Tail(@)], last, slot, new)
<1> DEFINE M == [L EXCEPT ![n] = Tail(@)]
           d(k) == IF k = n THEN 1 ELSE 0
<1>1. /\ \A k \in Senders : k # n => M[k] = L[k]
      /\ M[n] = Tail(L[n])
      /\ \A k \in Senders : L[k] \in Seq(Packet)
  OBVIOUS
<1>2. \A i \in DOMAIN Tail(L[n]) : i \in Nat /\ i + 1 \in DOMAIN L[n] /\ Tail(L[n])[i] = L[n][i + 1]
  BY <1>1
<1>3. \A k \in Senders : \A i \in DOMAIN M[k] :
        i \in Nat /\ i + d(k) \in DOMAIN L[k] /\ M[k][i] = L[k][i + d(k)]
  BY <1>1, <1>2
<1> HIDE DEF M
<1>4. ASSUME NEW k \in Senders, NEW i \in DOMAIN M[k], NEW v \in Named(M[k][i], s)
      PROVE  /\ s \in Upstream[k]
             /\ last <= v /\ v < new
             /\ IF k = s THEN slot <= v ELSE v <= slot
  BY <1>3, <1>4 DEF Ordered
<1>5. ASSUME NEW k \in Senders, NEW i \in DOMAIN M[k], NEW j \in DOMAIN M[k], i <= j,
             NEW v \in Named(M[k][i], s), NEW w \in Named(M[k][j], s)
      PROVE  v <= w
  <2>1. i + d(k) <= j + d(k)
    BY <1>3, <1>5
  <2> QED
    BY <1>3, <1>5, <2>1 DEF Ordered
<1>6. ASSUME NEW k \in Senders, NEW l \in Senders, k \in Upstream[l], k # l,
             NEW i \in DOMAIN M[k], NEW j \in DOMAIN M[l],
             NEW v \in Named(M[k][i], s), NEW w \in Named(M[l][j], s)
      PROVE  w <= v
  BY <1>3, <1>6 DEF Ordered
<1>7. last <= slot /\ slot < new
  BY DEF Ordered
<1> QED
  BY <1>4, <1>5, <1>6, <1>7 DEF Ordered, M

\* A source's slot may take a number no newer than what is still on its link.
LEMMA FillingKeepsOrder ==
  ASSUME NEW s \in Senders, NEW L \in [Senders -> Seq(Packet)],
         NEW last \in Nat, NEW slot \in Nat, NEW new \in Nat, NEW more \in Nat,
         Ordered(s, L, last, slot, new), slot <= more, more < new,
         \A i \in DOMAIN L[s] : \A v \in Named(L[s][i], s) : more <= v
  PROVE  Ordered(s, L, last, more, new)
<1>1. ASSUME NEW k \in Senders, NEW i \in DOMAIN L[k], NEW v \in Named(L[k][i], s)
      PROVE  IF k = s THEN more <= v ELSE v <= more
  <2>1. k # s => v <= slot
    BY <1>1 DEF Ordered
  <2>2. v \in Nat
    BY DEF Named
  <2> QED
    BY <2>1, <2>2
<1> QED
  BY <1>1 DEF Ordered

\* The root may see a number no newer than what is on the links.
LEMMA SeeingKeepsOrder ==
  ASSUME NEW s, NEW L \in [Senders -> Seq(Packet)],
         NEW last \in Nat, NEW slot \in Nat, NEW new \in Nat, NEW more \in Nat,
         Ordered(s, L, last, slot, new), more <= slot,
         \A k \in Senders : \A i \in DOMAIN L[k] : \A v \in Named(L[k][i], s) : more <= v
  PROVE  Ordered(s, L, more, slot, new)
BY DEF Ordered

(***************************************************************************)
(* Types: who sends what, and what the slots hold.                         *)
(***************************************************************************)

Rides(pkt, k) ==
  /\ pkt.len = "message_t" <=> k \in Sources
  /\ k \in Sources => pkt.body.node_id = k /\ pkt.body.msg_id \in MsgIds
  /\ k \notin Sources => /\ pkt.body.node_id \in Carried(k)
                        /\ \A i \in Slots : pkt.body.msg_ids_in_msg[i] \in MsgIds

LinksTyped(L) ==
  /\ L \in [Senders -> Seq(Packet)]
  /\ \A k \in Senders : \A i \in DOMAIN L[k] : Rides(L[k][i], k)

\* Only a source's own aggregator ever stores its messages.
SlotsTyped ==
  \A n \in Aggregators : \A i \in Slots :
    /\ message_array[n][i].msg_id \in MsgIds
    /\ message_array[n][i].node_id \in Sources => NextHop[message_array[n][i].node_id] = n

WInv ==
  /\ IInv
  /\ LinksTyped(links)
  /\ \A k \in Senders : Len(links[k]) <= Capacity
  /\ SlotsTyped
  /\ msg_id \in [Sources -> MsgIds]
  /\ named \in [Sources -> MsgIds]

LEMMA MsgIdsAreNumbers == MsgIds \subseteq Nat /\ 0 \in MsgIds
BY WsnAssumption

LEMMA JoiningKeepsTypes ==
  ASSUME NEW L, LinksTyped(L), NEW n \in Senders, NEW pkt \in Packet, Rides(pkt, n)
  PROVE  LinksTyped([L EXCEPT ![n] = Append(@, pkt)])
<1> DEFINE M == [L EXCEPT ![n] = Append(@, pkt)]
<1>1. L \in [Senders -> Seq(Packet)]
  BY DEF LinksTyped
<1>2. /\ M \in [Senders -> Seq(Packet)]
      /\ \A k \in Senders : k # n => M[k] = L[k]
      /\ M[n] = Append(L[n], pkt)
      /\ L[n] \in Seq(Packet)
  BY <1>1
<1>3. \A i \in DOMAIN M[n] : \/ i \in DOMAIN L[n] /\ M[n][i] = L[n][i]
                             \/ M[n][i] = pkt
  BY <1>2
<1> HIDE DEF M
<1> QED
  BY <1>2, <1>3 DEF LinksTyped, M

LEMMA LeavingKeepsTypes ==
  ASSUME NEW L, LinksTyped(L), NEW n \in Senders, L[n] # <<>>
  PROVE  LinksTyped([L EXCEPT ![n] = Tail(@)])
<1> DEFINE M == [L EXCEPT ![n] = Tail(@)]
<1>1. L \in [Senders -> Seq(Packet)]
  BY DEF LinksTyped
<1>2. /\ M \in [Senders -> Seq(Packet)]
      /\ \A k \in Senders : k # n => M[k] = L[k]
      /\ M[n] = Tail(L[n])
      /\ L[n] \in Seq(Packet)
  BY <1>1
<1>3. \A i \in DOMAIN M[n] : i + 1 \in DOMAIN L[n] /\ M[n][i] = L[n][i + 1]
  BY <1>2
<1> HIDE DEF M
<1> QED
  BY <1>2, <1>3 DEF LinksTyped, M

(***************************************************************************)
(* A packet reaches a mote.                                                *)
(***************************************************************************)

\* What the call at n makes of its packet: what it passes on, and what it may
\* send of its own.
Passed(L, n, pkt) ==
  IF pkt.len = "message_agg_t" THEN [L EXCEPT ![n] = Append(@, pkt)] ELSE L

OwnPacket(n, pkt) == AggPacket(Aggregate(n, pkt))

Sent(L, n, pkt) == [L EXCEPT ![n] = Append(@, OwnPacket(n, pkt))]

\* The packet that arrives, and where.
LEMMA Arriving ==
  ASSUME WInv, NEW k \in Senders, links[k] # <<>>
  PROVE  /\ NextHop[k] \in Aggregators
         /\ Head(links[k]) \in Packet
         /\ 1 \in DOMAIN links[k]
         /\ Head(links[k]) = links[k][1]
         /\ Rides(Head(links[k]), k)
         /\ k # NextHop[k]
         /\ NextHop[k] # Root => /\ NextHop[k] \in Collectors
                                 /\ NextHop[k] \in Senders
                                 /\ k \in Upstream[NextHop[k]]
<1>1. links \in [Senders -> Seq(Packet)]
  BY DEF WInv, LinksTyped
<1>2. links[k] \in Seq(Packet) /\ links[k] # <<>>
  BY <1>1
<1>3. 1 \in DOMAIN links[k] /\ Head(links[k]) = links[k][1] /\ Head(links[k]) \in Packet
  BY <1>2
<1>4. NextHop[k] \in Aggregators
  BY WsnAssumption
<1>5. k # NextHop[k]
  BY UpstreamSelf, WsnAssumption
<1>6. ASSUME NextHop[k] # Root
      PROVE  NextHop[k] \in Collectors /\ NextHop[k] \in Senders
  BY <1>4, <1>6 DEF Collectors, Senders
<1>7. ASSUME NextHop[k] # Root
      PROVE  k \in Upstream[NextHop[k]]
  BY <1>6, <1>7, UpstreamSelf, UpstreamClosed
<1>8. Rides(Head(links[k]), k)
  BY <1>3 DEF WInv, LinksTyped
<1> QED
  BY <1>3, <1>4, <1>5, <1>6, <1>7, <1>8

\* The links after a call of an aggregator: the packet is passed on or not, an
\* aggregate follows or not, and the packet leaves its link or not.
LEMMA ReachLinks ==
  ASSUME WInv, NEW k \in Senders, NEW again \in BOOLEAN, Reach(k, again), NextHop[k] # Root
  PROVE  LET n  == NextHop[k]
             p  == Head(links[k])
             L1 == Passed(links, n, p)
         IN  \E L2 \in {L1, Sent(L1, n, p)} :
               links' \in {L2, [L2 EXCEPT ![k] = Tail(@)]}
<1> DEFINE n == NextHop[k]
           p == Head(links[k])
           L1 == Passed(links, n, p)
           q == OwnPacket(n, p)
           rest == IF again THEN links ELSE [links EXCEPT ![k] = Tail(@)]
<1>1. /\ n \in Aggregators /\ n # Root /\ n \in Senders /\ k # n
      /\ links \in [Senders -> Seq(Packet)]
      /\ p \in Packet
  BY Arriving DEF Reach, WInv, LinksTyped
<1>2. links' = [rest EXCEPT ![n] = @ \o sent'[n]] /\ Receive(n, p)
  BY DEF Reach
<1>3. TypeOK
  BY DEF WInv, IInv
<1>4. /\ rest \in [Senders -> Seq(Packet)]
      /\ rest[n] = links[n]
  <2>1. links[k] \in Seq(Packet) /\ links[k] # <<>>
    BY <1>1 DEF Reach
  <2>2. Tail(links[k]) \in Seq(Packet)
    BY <2>1
  <2> QED
    BY <1>1, <2>2
<1>5. q \in Packet
  BY <1>1, <1>3, EmissionType DEF OwnPacket, AggPacket, Packet
<1>6. sent'[n] = Forwarded(n, p) \/ sent'[n] = Forwarded(n, p) \o <<q>>
  BY <1>1, <1>2, <1>3 DEF Receive, Accumulate, CloseRound, Emitted, TypeOK, OwnPacket
<1> HIDE DEF q, p, n
<1>7. \A s \in Seq(Packet) : /\ s \o <<>> = s
                             /\ s \o <<p>> = Append(s, p)
                             /\ s \o <<q>> = Append(s, q)
                             /\ s \o <<p, q>> = Append(Append(s, p), q)
  <2> SUFFICES ASSUME NEW s \in Seq(Packet)
               PROVE  /\ s \o <<>> = s
                      /\ s \o <<p>> = Append(s, p)
                      /\ s \o <<q>> = Append(s, q)
                      /\ s \o <<p, q>> = Append(Append(s, p), q)
    OBVIOUS
  <2>1. s \o <<>> = s
    BY ConcatEmptySeq
  <2>2. \A x \in Packet : <<x>> \in Seq(Packet) /\ Append(s, x) \in Seq(Packet)
    OBVIOUS
  <2>3. \A x \in Packet : \A t \in Seq(Packet) : t \o <<x>> = Append(t, x)
    <3> SUFFICES ASSUME NEW x \in Packet, NEW t \in Seq(Packet) PROVE t \o <<x>> = Append(t, x)
      OBVIOUS
    <3>1. /\ t \o <<x>> \in Seq(Packet) /\ Append(t, x) \in Seq(Packet)
          /\ Len(t \o <<x>>) = Len(t) + 1 /\ Len(Append(t, x)) = Len(t) + 1
          /\ Len(t) \in Nat
      OBVIOUS
    <3>2. \A i \in 1 .. Len(t) + 1 : (t \o <<x>>)[i] = Append(t, x)[i]
      OBVIOUS
    <3> QED
      BY <3>1, <3>2, SeqEqual
  <2>4. s \o <<p, q>> = (s \o <<p>>) \o <<q>>
    <3>1. <<p>> \o <<q>> = <<p, q>>
      BY Pairing
    <3>2. <<p>> \in Seq(Packet) /\ <<q>> \in Seq(Packet)
      BY <1>1, <1>5, <2>2
    <3>3. s \o (<<p>> \o <<q>>) = (s \o <<p>>) \o <<q>>
      <4> DEFINE t == <<p>>
                 u == <<q>>
      <4>1. t \in Seq(Packet) /\ u \in Seq(Packet)
        BY <3>2
      <4> HIDE DEF t, u
      <4>2. (s \o t) \o u = s \o (t \o u)
        BY <4>1, ConcatAssociative
      <4> QED
        BY <4>2 DEF t, u
    <3> QED
      BY <3>1, <3>3, Zenon
  <2>5. s \o <<p>> = Append(s, p) /\ Append(s, p) \in Seq(Packet)
    BY <1>1, <2>2, <2>3
  <2> QED
    BY <1>1, <1>5, <2>1, <2>3, <2>4, <2>5
<1>8. \/ Forwarded(n, p) = <<p>> /\ p.len = "message_agg_t"
      \/ Forwarded(n, p) = <<>> /\ p.len # "message_agg_t"
  BY DEF Forwarded
<1>9. <<>> \o <<q>> = <<q>> /\ <<p>> \o <<q>> = <<p, q>>
  <2>1. <<q>> \in Seq(Packet)
    BY <1>5
  <2> QED
    BY <2>1, Pairing, ConcatEmptySeq
<1>10. links[n] \in Seq(Packet)
  BY <1>1
<1>11. \E L2 \in {L1, Sent(L1, n, p)} : L2 \in [Senders -> Seq(Packet)] /\ links' = [rest EXCEPT ![n] = L2[n]] /\ \A j \in Senders \ {n} : L2[j] = links[j]
  <2>1. CASE Forwarded(n, p) = <<p>> /\ p.len = "message_agg_t"
    <3>1. L1 = [links EXCEPT ![n] = Append(@, p)]
      BY <2>1 DEF Passed
    <3>2. L1 \in [Senders -> Seq(Packet)] /\ L1[n] = links[n] \o <<p>> /\ \A j \in Senders \ {n} : L1[j] = links[j]
      BY <1>1, <1>7, <1>10, <3>1
    <3>3. CASE sent'[n] = Forwarded(n, p)
      BY <1>2, <1>4, <2>1, <3>2, <3>3
    <3>4. CASE sent'[n] = Forwarded(n, p) \o <<q>>
      <4>1. sent'[n] = <<p, q>>
        BY <1>9, <2>1, <3>4
      <4>2. /\ Sent(L1, n, p) \in [Senders -> Seq(Packet)]
            /\ Sent(L1, n, p)[n] = links[n] \o <<p, q>>
            /\ \A j \in Senders \ {n} : Sent(L1, n, p)[j] = links[j]
        BY <1>1, <1>5, <1>7, <1>10, <3>2 DEF Sent, q
      <4> QED
        BY <1>2, <1>4, <4>1, <4>2
    <3> QED
      BY <1>6, <3>3, <3>4
  <2>2. CASE Forwarded(n, p) = <<>> /\ p.len # "message_agg_t"
    <3>1. L1 = links
      BY <2>2 DEF Passed
    <3>3. CASE sent'[n] = Forwarded(n, p)
      BY <1>1, <1>2, <1>4, <1>7, <1>10, <2>2, <3>1, <3>3
    <3>4. CASE sent'[n] = Forwarded(n, p) \o <<q>>
      <4>1. sent'[n] = <<q>>
        BY <1>9, <2>2, <3>4
      <4>2. /\ Sent(L1, n, p) \in [Senders -> Seq(Packet)]
            /\ Sent(L1, n, p)[n] = links[n] \o <<q>>
            /\ \A j \in Senders \ {n} : Sent(L1, n, p)[j] = links[j]
        BY <1>1, <1>5, <1>7, <1>10, <3>1 DEF Sent, q
      <4> QED
        BY <1>2, <1>4, <4>1, <4>2
    <3> QED
      BY <1>6, <3>3, <3>4
  <2> QED
    BY <1>8, <2>1, <2>2
<1>12. PICK L2 \in {L1, Sent(L1, n, p)} :
         /\ L2 \in [Senders -> Seq(Packet)]
         /\ links' = [rest EXCEPT ![n] = L2[n]]
         /\ \A j \in Senders \ {n} : L2[j] = links[j]
  BY <1>11
<1>13. links' \in {L2, [L2 EXCEPT ![k] = Tail(@)]}
  <2>1. CASE again
    <3>1. links' = [j \in Senders |-> L2[j]]
      BY <1>1, <1>12, <2>1
    <3> QED
      BY <1>12, <3>1
  <2>2. CASE ~ again
    <3>1. rest = [links EXCEPT ![k] = Tail(@)]
      BY <2>2
    <3>2. links' = [j \in Senders |-> IF j = k THEN Tail(L2[k]) ELSE L2[j]]
      BY <1>1, <1>4, <1>12, <3>1
    <3>3. [L2 EXCEPT ![k] = Tail(@)] = [j \in Senders |-> IF j = k THEN Tail(L2[k]) ELSE L2[j]]
      BY <1>12
    <3> QED
      BY <3>2, <3>3
  <2> QED
    BY <2>1, <2>2
<1> QED
  BY <1>12, <1>13 DEF n, p

\* What the packets that a call sends are.
LEMMA SentRides ==
  ASSUME WInv, NEW k \in Senders, NEW again \in BOOLEAN, Reach(k, again), NextHop[k] # Root
  PROVE  LET n == NextHop[k]
             p == Head(links[k])
         IN  /\ OwnPacket(n, p) \in Packet /\ Rides(OwnPacket(n, p), n)
             /\ p.len = "message_agg_t" => Rides(p, n)
<1> DEFINE n == NextHop[k]
           p == Head(links[k])
           a == Aggregate(n, p)
<1>1. /\ n \in Aggregators /\ n \in Collectors /\ n \in Senders
      /\ p \in Packet /\ Rides(p, k)
      /\ k \in Upstream[n]
  BY Arriving DEF Reach
<1>2. n \notin Sources
  BY <1>1, WsnAssumption
<1>3. TypeOK
  BY DEF WInv, IInv
<1>4. a \in AggMessage
  BY <1>1, <1>3, EmissionType
<1>5. \A i \in Slots : a.msg_ids_in_msg[i] \in MsgIds
  <2> SUFFICES ASSUME NEW i \in Slots PROVE a.msg_ids_in_msg[i] \in MsgIds
    OBVIOUS
  <2>1. ArrayAfter(n, p)[i].msg_id \in MsgIds
    <3>1. CASE i \in Stored(n, p)
      <4>1. p.len = "message_t" /\ ArrayAfter(n, p)[i] = p.body
        BY <1>1, <1>3, <3>1, ArrayAfterType DEF Stored, Matching
      <4> QED
        BY <1>1, <4>1 DEF Rides
    <3>2. CASE i \notin Stored(n, p)
      <4>1. ArrayAfter(n, p)[i] = message_array[n][i]
        BY <1>1, <1>3, <3>2, ArrayAfterType
      <4> QED
        BY <1>1, <4>1 DEF WInv, SlotsTyped
    <3> QED
      BY <3>1, <3>2
  <2> QED
    BY <2>1, MsgIdsAreNumbers DEF Aggregate
<1>6. OwnPacket(n, p) \in Packet
  BY <1>4 DEF OwnPacket, AggPacket, Packet
<1>7. Rides(OwnPacket(n, p), n)
  <2>1. /\ OwnPacket(n, p).len = "message_agg_t"
        /\ OwnPacket(n, p).body = a
        /\ a.node_id = n
    BY DEF OwnPacket, AggPacket, Aggregate
  <2>2. n \in Carried(n)
    BY DEF Carried
  <2> HIDE DEF a, n, p
  <2> QED
    BY <1>2, <1>5, <2>1, <2>2 DEF Rides
<1>8. ASSUME p.len = "message_agg_t"
      PROVE  Rides(p, n)
  <2>1. k \notin Sources
    BY <1>1, <1>8 DEF Rides
  <2>2. p.body.node_id \in Carried(k)
    BY <1>1, <2>1 DEF Rides
  <2>3. k \in Collectors
    BY <2>1 DEF Senders
  <2>4. Upstream[k] \subseteq Upstream[n]
    BY <1>1, UpstreamTransitive
  <2>5. p.body.node_id \in Carried(n)
    BY <1>1, <2>2, <2>3, <2>4 DEF Carried
  <2> QED
    BY <1>1, <1>2, <1>8, <2>1, <2>5 DEF Rides
<1> QED
  BY <1>6, <1>7, <1>8

\* The slots after a call hold messages of the sources that send here.
LEMMA ReceiveKeepsSlots ==
  ASSUME WInv, NEW k \in Senders, NEW again \in BOOLEAN, Reach(k, again)
  PROVE  SlotsTyped'
<1> DEFINE n == NextHop[k]
           p == Head(links[k])
<1>1. n \in Aggregators /\ p \in Packet /\ Rides(p, k)
  BY Arriving DEF Reach
<1>2. TypeOK
  BY DEF WInv, IInv
<1>3. message_array' = [message_array EXCEPT ![n] = ArrayAfter(n, p)]
  BY DEF Reach, Receive
<1> SUFFICES ASSUME NEW m \in Aggregators, NEW i \in Slots
             PROVE  /\ message_array'[m][i].msg_id \in MsgIds
                    /\ message_array'[m][i].node_id \in Sources
                          => NextHop[message_array'[m][i].node_id] = m
  BY DEF SlotsTyped
<1>4. CASE m = n /\ i \in Stored(n, p)
  <2>1. message_array'[m][i] = p.body /\ p.len = "message_t"
    BY <1>1, <1>2, <1>3, <1>4, ArrayAfterType DEF Stored, Matching, TypeOK
  <2>2. p.body.node_id = k /\ p.body.msg_id \in MsgIds
    BY <1>1, <2>1 DEF Rides
  <2> QED
    BY <1>4, <2>1, <2>2
<1>5. CASE m # n \/ i \notin Stored(n, p)
  <2>1. message_array'[m] = IF m = n THEN ArrayAfter(n, p) ELSE message_array[m]
    BY <1>1, <1>2, <1>3 DEF TypeOK
  <2>2. m = n => ArrayAfter(n, p)[i] = message_array[m][i]
    BY <1>1, <1>2, <1>5, ArrayAfterType
  <2>3. message_array'[m][i] = message_array[m][i]
    BY <2>1, <2>2
  <2> QED
    BY <2>3 DEF WInv, SlotsTyped
<1> QED
  BY <1>4, <1>5

\* What the root sees named are message numbers.
LEMMA SeenAreMsgIds ==
  ASSUME WInv, NEW k \in Senders, NEW again \in BOOLEAN, Reach(k, again), NextHop[k] = Root
  PROVE  named' \in [Sources -> MsgIds]
<1> DEFINE p == Head(links[k])
<1>1. p \in Packet /\ Rides(p, k)
  BY Arriving DEF Reach
<1>2. named' = NamedAfter(p)
  BY DEF Reach
<1>3. ASSUME NEW s \in Sources
      PROVE  NamedAfter(p)[s] \in MsgIds
  <2>1. CASE p.len = "message_agg_t" /\ \E i \in Slots : p.body.node_ids_in_msg[i] = s
    <3> DEFINE i == CHOOSE i \in Slots : p.body.node_ids_in_msg[i] = s
    <3>1. i \in Slots
      BY <2>1
    <3>2. k \notin Sources
      BY <1>1, <2>1 DEF Rides
    <3>3. NamedAfter(p)[s] = p.body.msg_ids_in_msg[i]
      BY <2>1 DEF NamedAfter
    <3> HIDE DEF i
    <3> QED
      BY <1>1, <3>1, <3>2, <3>3 DEF Rides
  <2>2. CASE ~ (p.len = "message_agg_t" /\ \E i \in Slots : p.body.node_ids_in_msg[i] = s)
    BY <2>2 DEF NamedAfter, WInv
  <2> QED
    BY <2>1, <2>2
<1> QED
  BY <1>2, <1>3 DEF NamedAfter

\* A link never holds more than its capacity.
LEMMA ReachKeepsCapacity ==
  ASSUME WInv, NEW k \in Senders, NEW again \in BOOLEAN, Reach(k, again)
  PROVE  \A j \in Senders : Len(links'[j]) <= Capacity
<1> DEFINE n == NextHop[k]
           p == Head(links[k])
           rest == IF again THEN links ELSE [links EXCEPT ![k] = Tail(@)]
<1>1. /\ n \in Aggregators /\ p \in Packet
      /\ n # Root => n \in Senders /\ k # n
  BY Arriving DEF Reach
<1>2. TypeOK /\ Capacity \in Nat
  BY WsnAssumption DEF WInv, IInv
<1>3. links \in [Senders -> Seq(Packet)] /\ links[k] # <<>>
  BY DEF WInv, LinksTyped, Reach
<1>4. /\ rest \in [Senders -> Seq(Packet)]
      /\ \A j \in Senders : Len(rest[j]) <= Capacity
      /\ n # Root => rest[n] = links[n]
  <2>1. Tail(links[k]) \in Seq(Packet) /\ Len(Tail(links[k])) <= Len(links[k]) /\ Len(links[k]) \in Nat
    BY <1>3
  <2>2. \A j \in Senders : Len(links[j]) <= Capacity /\ Len(links[j]) \in Nat
    BY <1>3 DEF WInv
  <2>3. Len(Tail(links[k])) <= Capacity
    BY <1>2, <2>1, <2>2, LenProperties
  <2>4. CASE again
    BY <1>3, <2>2, <2>4
  <2>5. CASE ~ again
    BY <1>1, <1>3, <2>1, <2>2, <2>3, <2>5
  <2> QED
    BY <2>4, <2>5
<1>5. CASE n = Root
  BY <1>4, <1>5 DEF Reach
<1>6. CASE n # Root
  <2>1. links' = [rest EXCEPT ![n] = @ \o sent'[n]]
    BY <1>6 DEF Reach
  <2>2. Len(links[n]) + 2 <= Capacity
    BY <1>6 DEF Reach, HasRoom
  <2>3. sent'[n] \in Seq(Packet) /\ Len(sent'[n]) <= 2
    <3>1. sent'[n] = Forwarded(n, p) \/ sent'[n] = Forwarded(n, p) \o Emitted(n, p)
      BY <1>1, <1>2 DEF Reach, Receive, Accumulate, CloseRound, TypeOK
    <3>2. /\ Forwarded(n, p) \in Seq(Packet) /\ Len(Forwarded(n, p)) <= 2
          /\ Forwarded(n, p) \o Emitted(n, p) \in Seq(Packet)
          /\ Len(Forwarded(n, p) \o Emitted(n, p)) <= 2
      BY <1>1, <1>2, EmissionType
    <3> QED
      BY <3>1, <3>2, Zenon
  <2>4. Len(links[n] \o sent'[n]) = Len(links[n]) + Len(sent'[n]) /\ Len(links[n]) \in Nat /\ Len(sent'[n]) \in Nat
    BY <1>1, <1>3, <1>6, <2>3, ConcatProperties, LenProperties
  <2>5. Len(links[n] \o sent'[n]) <= Capacity
    <3> DEFINE x == Len(links[n] \o sent'[n])
               y == Len(links[n])
               z == Len(sent'[n])
    <3>1. x = y + z /\ y \in Nat /\ z \in Nat /\ y + 2 <= Capacity /\ z <= 2 /\ Capacity \in Nat
      BY <1>2, <2>2, <2>3, <2>4, Zenon
    <3>2. x <= Capacity
      <4> HIDE DEF x, y, z
      <4> QED
        BY <3>1
    <3> QED
      BY <3>2
  <2> QED
    BY <1>1, <1>4, <1>6, <2>1, <2>5
<1> QED
  BY <1>5, <1>6

LEMMA ReachWInv ==
  ASSUME WInv, NEW k \in Senders, NEW again \in BOOLEAN, Reach(k, again)
  PROVE  WInv'
<1> DEFINE n == NextHop[k]
           p == Head(links[k])
<1>1. n \in Aggregators /\ p \in Packet /\ links[k] # <<>> /\ Receive(n, p)
  BY Arriving DEF Reach
<1>2. IInv'
  BY <1>1, ReceiveIInv DEF WInv
<1>3. LinksTyped(links')
  <2>1. CASE n = Root
    BY <1>1, <2>1, LeavingKeepsTypes DEF Reach, WInv
  <2>2. CASE n # Root
    <3> DEFINE L1 == Passed(links, n, p)
    <3>1. n \in Senders /\ k # n
      BY <1>1, <2>2, Arriving
    <3>2. LinksTyped(links)
      BY DEF WInv
    <3>3. LinksTyped(L1) /\ L1[k] = links[k]
      BY <1>1, <2>2, <3>1, <3>2, JoiningKeepsTypes, SentRides DEF Passed, LinksTyped
    <3>4. LinksTyped(Sent(L1, n, p)) /\ Sent(L1, n, p)[k] = links[k]
      BY <1>1, <2>2, <3>1, <3>3, JoiningKeepsTypes, SentRides DEF Sent, LinksTyped
    <3>5. PICK L2 \in {L1, Sent(L1, n, p)} : links' \in {L2, [L2 EXCEPT ![k] = Tail(@)]}
      BY <2>2, ReachLinks
    <3>6. LinksTyped(L2) /\ L2[k] # <<>>
      BY <1>1, <3>3, <3>4
    <3> QED
      BY <3>5, <3>6, LeavingKeepsTypes
  <2> QED
    BY <2>1, <2>2
<1>4. \A j \in Senders : Len(links'[j]) <= Capacity
  BY ReachKeepsCapacity
<1>5. SlotsTyped'
  BY ReceiveKeepsSlots
<1>6. msg_id' \in [Sources -> MsgIds]
  BY DEF Reach, WInv
<1>7. named' \in [Sources -> MsgIds]
  BY SeenAreMsgIds DEF Reach, WInv
<1> QED
  BY <1>2, <1>3, <1>4, <1>5, <1>6, <1>7 DEF WInv, LinksTyped, SlotsTyped, Rides

(***************************************************************************)
(* The other steps.                                                        *)
(***************************************************************************)

\* Message numbers come back to 0 after IdMod - 1 and count up before that.
LEMMA NextMsgId ==
  ASSUME NEW x \in MsgIds
  PROVE  /\ (x + 1) % IdMod \in MsgIds
         /\ (x + 1) % IdMod # 0 => (x + 1) % IdMod = x + 1
<1>1. IdMod \in Nat \ {0} /\ MsgIds = 0 .. IdMod - 1
  BY WsnAssumption
<1>2. CASE x + 1 = IdMod
  <2>1. IdMod % IdMod = 0
    BY <1>1
  <2> QED
    BY <1>1, <1>2, <2>1
<1>3. CASE x + 1 # IdMod
  <2>1. x + 1 \in 0 .. IdMod - 1
    BY <1>1, <1>3
  <2>2. (x + 1) % IdMod = x + 1
    BY <1>1, <2>1
  <2> QED
    BY <1>1, <2>1, <2>2
<1> QED
  BY <1>2, <1>3

\* The packet that a source sends.
LEMMA SendingRides ==
  ASSUME WInv, NEW s \in Sources
  PROVE  LET pkt == SourcePacket([node_id |-> s, msg_id |-> msg_id[s]])
         IN  /\ pkt \in Packet /\ Rides(pkt, s)
             /\ pkt.len = "message_t" /\ pkt.body.node_id = s /\ pkt.body.msg_id = msg_id[s]
<1>1. s \in Nat /\ msg_id[s] \in MsgIds /\ msg_id[s] \in Nat
  BY WsnAssumption, MsgIdsAreNumbers DEF WInv
<1> QED
  BY <1>1 DEF SourcePacket, Packet, Message, Rides

LEMMA SendWInv ==
  ASSUME WInv, NEW s \in Sources, Send(s)
  PROVE  WInv'
<1> DEFINE pkt == SourcePacket([node_id |-> s, msg_id |-> msg_id[s]])
<1>1. s \in Senders /\ pkt \in Packet /\ Rides(pkt, s)
  BY SendingRides DEF Senders
<1>2. links' = [links EXCEPT ![s] = Append(@, pkt)] /\ links \in [Senders -> Seq(Packet)]
  BY DEF Send, WInv, LinksTyped
<1> HIDE DEF pkt
<1>3. LinksTyped(links')
  BY <1>1, <1>2, JoiningKeepsTypes DEF WInv
<1>4. ASSUME NEW j \in Senders
      PROVE  Len(links'[j]) <= Capacity
  <2>1. CASE j = s
    <3>1. Len(links'[j]) = Len(links[s]) + 1 /\ Len(links[s]) \in Nat
      BY <1>1, <1>2, <2>1
    <3> QED
      BY <3>1, WsnAssumption DEF Send
  <2>2. CASE j # s
    BY <1>2, <2>2 DEF WInv
  <2> QED
    BY <2>1, <2>2
<1>5. msg_id' \in [Sources -> MsgIds]
  <2>1. (msg_id[s] + 1) % IdMod \in MsgIds
    BY NextMsgId DEF WInv
  <2> QED
    BY <2>1 DEF Send, WInv
<1>6. IInv'
  BY DEF Send, WInv, IInv, vars, TypeOK, CountIsHeard, SlotsHoldOwnNode, Heard
<1>7. SlotsTyped' /\ named' \in [Sources -> MsgIds]
  BY DEF Send, WInv, SlotsTyped, vars
<1> QED
  BY <1>3, <1>4, <1>5, <1>6, <1>7 DEF WInv, LinksTyped, Rides

LEMMA LoseWInv ==
  ASSUME WInv, NEW k \in Senders, Lose(k)
  PROVE  WInv'
<1>1. links' = [links EXCEPT ![k] = Tail(@)] /\ links[k] # <<>> /\ links \in [Senders -> Seq(Packet)]
  BY DEF Lose, WInv, LinksTyped
<1>2. LinksTyped(links')
  BY <1>1, LeavingKeepsTypes DEF WInv
<1>3. ASSUME NEW j \in Senders
      PROVE  Len(links'[j]) <= Capacity
  <2>1. Len(links[j]) <= Capacity /\ Len(links[j]) \in Nat /\ Capacity \in Nat
    BY <1>1, WsnAssumption DEF WInv
  <2>2. j = k => links'[j] = Tail(links[k]) /\ Len(Tail(links[k])) = Len(links[k]) - 1
    BY <1>1
  <2>3. j # k => links'[j] = links[j]
    BY <1>1
  <2> DEFINE x == Len(links[j])
             y == Len(Tail(links[k]))
  <2>4. x \in Nat /\ x <= Capacity /\ (j = k => y = x - 1)
    BY <2>1, <2>2, Zenon
  <2>5. j = k => y <= Capacity
    <3> HIDE DEF x, y
    <3> QED
      BY <2>1, <2>4
  <2> QED
    BY <2>1, <2>2, <2>3, <2>5, Zenon
<1>4. IInv'
  BY DEF Lose, WInv, IInv, vars, TypeOK, CountIsHeard, SlotsHoldOwnNode, Heard
<1>5. /\ SlotsTyped'
      /\ msg_id' \in [Sources -> MsgIds]
      /\ named' \in [Sources -> MsgIds]
  BY DEF Lose, WInv, SlotsTyped, vars
<1> QED
  BY <1>2, <1>3, <1>4, <1>5 DEF WInv, LinksTyped, Rides

LEMMA ExpireWInv ==
  ASSUME WInv, NEW n \in Aggregators, Expire(n)
  PROVE  WInv'
<1>1. IInv'
  BY TimerExpiresIInv DEF Expire, WInv
<1>2. SlotsTyped'
  BY DEF Expire, TimerExpires, round, WInv, SlotsTyped
<1> QED
  BY <1>1, <1>2 DEF Expire, WInv, LinksTyped, Rides

LEMMA InitWInv == WsnInit => WInv
<1> SUFFICES ASSUME WsnInit PROVE WInv
  OBVIOUS
<1>1. IInv
  BY InitIInv DEF WsnInit
<1>2. LinksTyped(links) /\ \A k \in Senders : Len(links[k]) <= Capacity
  BY WsnAssumption DEF WsnInit, LinksTyped
<1>3. SlotsTyped
  <2> SUFFICES ASSUME NEW n \in Aggregators, NEW i \in Slots
               PROVE  /\ message_array[n][i].msg_id \in MsgIds
                      /\ message_array[n][i].node_id \notin Sources
    BY DEF SlotsTyped
  <2>1. message_array[n][i] = ZeroMessage
    BY DEF WsnInit, Init
  <2>2. 0 \notin Sources
    <3> SUFFICES ASSUME 0 \in Sources PROVE FALSE
      OBVIOUS
    <3>1. NextHop[0] \in Aggregators \ {Root} /\ 0 \in SourceNodes(NextHop[0])
      BY WsnAssumption DEF Collectors
    <3>2. PICK j \in Slots : NodeMap[NextHop[0]][j] = 0
      BY <3>1 DEF SourceNodes
    <3> QED
      BY <3>1, <3>2, AggregatorAssumption
  <2> QED
    BY <2>1, <2>2, MsgIdsAreNumbers DEF ZeroMessage
<1>4. msg_id \in [Sources -> MsgIds] /\ named \in [Sources -> MsgIds]
  <2>1. 1 % IdMod \in MsgIds
    BY NextMsgId, MsgIdsAreNumbers
  <2> QED
    BY <2>1, MsgIdsAreNumbers DEF WsnInit
<1> QED
  BY <1>1, <1>2, <1>3, <1>4 DEF WInv

LEMMA StepWInv == WInv /\ [WsnNext]_wsnVars => WInv'
<1> SUFFICES ASSUME WInv, [WsnNext]_wsnVars PROVE WInv'
  OBVIOUS
<1>1. ASSUME NEW s \in Sources, Send(s) PROVE WInv'
  BY <1>1, SendWInv
<1>2. ASSUME NEW k \in Senders, Arrive(k) \/ ArriveAndStay(k) PROVE WInv'
  <2>1. \E again \in BOOLEAN : Reach(k, again)
    BY <1>2 DEF Arrive, ArriveAndStay
  <2> QED
    BY <2>1, ReachWInv
<1>3. ASSUME NEW k \in Senders, Lose(k) PROVE WInv'
  BY <1>3, LoseWInv
<1>4. ASSUME NEW n \in Aggregators, Expire(n) PROVE WInv'
  BY <1>4, ExpireWInv
<1>5. CASE UNCHANGED wsnVars
  BY <1>5 DEF wsnVars, vars, WInv, IInv, TypeOK, CountIsHeard, SlotsHoldOwnNode, Heard,
              LinksTyped, SlotsTyped, Rides
<1> QED
  BY <1>1, <1>2, <1>3, <1>4, <1>5 DEF WsnNext

\* The packets on the links and the state of every mote keep their types, the
\* links their bound, and every link only carries what passes through its sender.
THEOREM WsnTypesHold == WsnSpec => []WsnTypeOK
<1>1. WInv => WsnTypeOK
  <2> SUFFICES ASSUME WInv PROVE WsnTypeOK
    OBVIOUS
  <2>1. ASSUME NEW k \in Senders, NEW i \in DOMAIN links[k]
        PROVE  links[k][i].body.node_id \in Carried(k)
    <3>1. Rides(links[k][i], k)
      BY <2>1 DEF WInv, LinksTyped
    <3>2. k \in Carried(k)
      BY DEF Carried
    <3> QED
      BY <3>1, <3>2 DEF Rides
  <2> QED
    BY <2>1, WsnAssumption DEF WInv, IInv, WsnTypeOK, LinksTyped
<1>2. WsnSpec => []WInv
  BY InitWInv, StepWInv, PTL DEF WsnSpec
<1> QED
  BY <1>1, <1>2, PTL

\* What the rounds expect of the packets that come in is what the network sends:
\* a source's messages go to the aggregator that has it in its map, and no
\* aggregate comes back to where it was made.
LEMMA ArrivingIsExpected ==
  ASSUME WInv, NEW k \in Senders, links[k] # <<>>
  PROVE  Head(links[k]) \in Expected(NextHop[k])
<1> DEFINE n == NextHop[k]
           p == Head(links[k])
<1>1. p \in Packet /\ Rides(p, k)
  BY Arriving
<1>2. CASE k \in Sources
  <2>1. p.len = "message_t" /\ p.body.node_id = k /\ p.body.msg_id \in MsgIds
    BY <1>1, <1>2 DEF Rides
  <2>2. p.body \in [node_id : Nat, msg_id : Nat]
    BY <1>1, <2>1 DEF Packet, Message
  <2>3. p.body \in [node_id : SourceNodes(n), msg_id : MsgIds]
    BY <1>2, <2>1, <2>2, WsnAssumption
  <2> QED
    BY <1>1, <2>1, <2>3 DEF Expected
<1>3. CASE k \notin Sources
  <2>1. p.len = "message_agg_t" /\ p.body.node_id \in Carried(k)
    BY <1>1, <1>3 DEF Rides, Packet
  <2>2. p.body.node_id \in Upstream[k]
    BY <2>1, UpstreamSelf DEF Carried
  <2>3. p.body.node_id # n
    BY <2>2, WsnAssumption
  <2> QED
    BY <1>1, <2>1, <2>3 DEF Expected
<1> QED
  BY <1>2, <1>3

\* In the network, too, every call of every aggregator is a step of the abstract
\* rounds, whatever the links lose and repeat and the aggregators relay.
THEOREM WsnImplementsRounds == WsnSpec => ImplementsRounds
<1>1. WsnInit => R!Init
  BY InitRefines DEF WsnInit
<1>2. WInv /\ [WsnNext]_wsnVars => [R!Next]_(R!vars)
  <2> SUFFICES ASSUME WInv, [WsnNext]_wsnVars PROVE [R!Next]_(R!vars)
    OBVIOUS
  <2>1. IInv
    BY DEF WInv
  <2>2. UNCHANGED vars => UNCHANGED R!vars
    BY DEF vars, R!vars, Taken, Heard, TimedOut, Own
  <2>3. ASSUME NEW k \in Senders, NEW again \in BOOLEAN, Reach(k, again)
        PROVE  [R!Next]_(R!vars)
    <3> DEFINE n == NextHop[k]
               p == Head(links[k])
    <3>1. n \in Aggregators /\ p \in Expected(n) /\ Receive(n, p)
      BY <2>3, Arriving, ArrivingIsExpected DEF Reach
    <3> HIDE DEF n, p
    <3>2. CASE n \in Collectors
      BY <2>1, <3>1, <3>2, CallRefines DEF R!Next
    <3>3. CASE n \notin Collectors
      BY <2>1, <3>1, <3>3, RootRefines
    <3> QED
      BY <3>2, <3>3
  <2>4. ASSUME NEW n \in Aggregators, Expire(n) PROVE [R!Next]_(R!vars)
    BY <2>1, <2>4, TimerRefines DEF Expire
  <2>5. ASSUME NEW s \in Sources, Send(s) PROVE UNCHANGED vars
    BY <2>5 DEF Send
  <2>6. ASSUME NEW k \in Senders, Lose(k) PROVE UNCHANGED vars
    BY <2>6 DEF Lose
  <2>7. CASE UNCHANGED wsnVars
    BY <2>2, <2>7 DEF wsnVars
  <2> QED
    BY <2>2, <2>3, <2>4, <2>5, <2>6, <2>7 DEF WsnNext, Arrive, ArriveAndStay
<1>3. WsnSpec => []WInv
  BY InitWInv, StepWInv, PTL DEF WsnSpec
<1> QED
  BY <1>1, <1>2, <1>3, PTL DEF WsnSpec, ImplementsRounds, R!Spec

(***************************************************************************)
(* The order of a source's messages.                                       *)
(***************************************************************************)

\* The slot of a source at its aggregator, and the message number in it.
SlotOf(s) == CHOOSE i \in Slots : NodeMap[NextHop[s]][i] = s

InSlot(s) == message_array[NextHop[s]][SlotOf(s)].msg_id

PInv == \A s \in Sources : Ordered(s, links, named[s], InSlot(s), msg_id[s])

LEMMA SlotOfSource ==
  ASSUME NEW s \in Sources
  PROVE  /\ s # 0 /\ s \in Senders /\ s \notin Aggregators
         /\ NextHop[s] \in Collectors /\ NextHop[s] \in Aggregators
         /\ SlotOf(s) \in Slots
         /\ \A i \in Slots : NodeMap[NextHop[s]][i] = s <=> i = SlotOf(s)
<1>1. /\ NextHop[s] \in Aggregators \ {Root} /\ s \in SourceNodes(NextHop[s])
      /\ s \in Senders /\ s \notin Aggregators
  BY WsnAssumption DEF Collectors, Senders
<1>2. PICK j \in Slots : NodeMap[NextHop[s]][j] = s
  BY <1>1 DEF SourceNodes
<1>3. SlotOf(s) \in Slots /\ NodeMap[NextHop[s]][SlotOf(s)] = s
  BY <1>2 DEF SlotOf
<1> QED
  BY <1>1, <1>3, AggregatorAssumption DEF Collectors

LEMMA PathNumbers ==
  ASSUME WInv, NEW s \in Sources
  PROVE  /\ links \in [Senders -> Seq(Packet)]
         /\ named[s] \in Nat /\ InSlot(s) \in Nat /\ msg_id[s] \in Nat
<1>1. InSlot(s) \in MsgIds
  BY SlotOfSource DEF WInv, SlotsTyped, InSlot
<1> QED
  BY <1>1, MsgIdsAreNumbers DEF WInv, LinksTyped

\* An aggregate names a source only of its own aggregator, with what is in the
\* source's slot.
LEMMA AggregateNamesSlot ==
  ASSUME WInv, NEW k \in Senders, NEW again \in BOOLEAN, Reach(k, again), NextHop[k] # Root,
         NEW s \in Sources, NEW v \in Named(OwnPacket(NextHop[k], Head(links[k])), s)
  PROVE  NextHop[s] = NextHop[k] /\ v = InSlot(s)'
<1> DEFINE n == NextHop[k]
           p == Head(links[k])
           a == Aggregate(n, p)
           array == ArrayAfter(n, p)
<1>1. n \in Aggregators /\ n \in Collectors /\ p \in Packet
  BY Arriving DEF Reach
<1>2. WInv'
  BY ReachWInv
<1>3. message_array'[n] = array
  BY <1>1 DEF Reach, Receive, WInv, IInv, TypeOK
<1>4. PICK i \in Slots : a.node_ids_in_msg[i] = s /\ a.msg_ids_in_msg[i] = v
  BY DEF Named, OwnPacket, AggPacket
<1>5. array[i].node_id = s /\ array[i].msg_id = v
  BY <1>4, SlotOfSource DEF Aggregate
<1>6. NextHop[s] = n
  BY <1>1, <1>2, <1>3, <1>5 DEF WInv, SlotsTyped
<1>7. NodeMap[n][i] = s
  <2>1. array[i].node_id = NodeMap[n][i] \/ array[i] = ZeroMessage
    BY <1>1, <1>2, <1>3 DEF WInv, IInv, SlotsHoldOwnNode
  <2> QED
    BY <1>5, <2>1, SlotOfSource DEF ZeroMessage
<1>8. i = SlotOf(s)
  BY <1>6, <1>7, SlotOfSource
<1> QED
  BY <1>3, <1>5, <1>6, <1>8 DEF InSlot

\* A call leaves a source's slot, or fills it with the packet it got from it.
LEMMA SlotStep ==
  ASSUME WInv, NEW k \in Senders, NEW again \in BOOLEAN, Reach(k, again), NEW s \in Sources
  PROVE  \/ InSlot(s)' = InSlot(s)
         \/ /\ k = s
            /\ Head(links[k]).len = "message_t"
            /\ Head(links[k]).body.node_id = s
            /\ Head(links[k]).body.msg_id = InSlot(s)'
<1> DEFINE n == NextHop[k]
           p == Head(links[k])
           i == SlotOf(s)
<1>1. n \in Aggregators /\ p \in Packet /\ Rides(p, k)
  BY Arriving DEF Reach
<1>2. i \in Slots /\ NextHop[s] \in Aggregators /\ NodeMap[NextHop[s]][i] = s
  BY SlotOfSource
<1>3. TypeOK /\ message_array' = [message_array EXCEPT ![n] = ArrayAfter(n, p)]
  BY DEF Reach, Receive, WInv, IInv
<1>4. InSlot(s)' = message_array'[NextHop[s]][i].msg_id
  BY DEF InSlot, SlotOf
<1>5. CASE NextHop[s] # n
  BY <1>1, <1>2, <1>3, <1>4, <1>5 DEF InSlot, TypeOK
<1>6. CASE NextHop[s] = n /\ i \notin Stored(n, p)
  <2>1. message_array'[n] = ArrayAfter(n, p)
    BY <1>1, <1>3 DEF TypeOK
  <2>2. ArrayAfter(n, p)[i] = message_array[n][i]
    BY <1>1, <1>2, <1>3, <1>6, ArrayAfterType
  <2> QED
    BY <1>4, <1>6, <2>1, <2>2 DEF InSlot
<1>7. CASE NextHop[s] = n /\ i \in Stored(n, p)
  <2>1. p.len = "message_t" /\ p.body.node_id = s
    BY <1>2, <1>7 DEF Stored, Matching
  <2>2. k = s
    BY <1>1, <2>1 DEF Rides
  <2>3. message_array'[n] = ArrayAfter(n, p)
    BY <1>1, <1>3 DEF TypeOK
  <2>4. ArrayAfter(n, p)[i] = p.body
    BY <1>1, <1>3, <1>7, ArrayAfterType
  <2> QED
    BY <1>4, <1>7, <2>1, <2>2, <2>3, <2>4
<1> QED
  BY <1>5, <1>6, <1>7

\* What the packet that arrives from a source names.
LEMMA SlotKeepsOrder ==
  ASSUME WInv, PInv, NEW k \in Senders, NEW again \in BOOLEAN, Reach(k, again),
         NEW s \in Sources, InSlot(s)' \in Nat
  PROVE  Ordered(s, links, named[s], InSlot(s)', msg_id[s])
<1> DEFINE more == InSlot(s)'
<1>1. /\ links \in [Senders -> Seq(Packet)]
      /\ named[s] \in Nat /\ InSlot(s) \in Nat /\ msg_id[s] \in Nat
      /\ Ordered(s, links, named[s], InSlot(s), msg_id[s])
  BY PathNumbers DEF PInv
<1>2. CASE more = InSlot(s)
  BY <1>1, <1>2
<1>3. CASE /\ k = s
           /\ Head(links[k]).len = "message_t"
           /\ Head(links[k]).body.node_id = s
           /\ Head(links[k]).body.msg_id = more
  <2>1. 1 \in DOMAIN links[s] /\ Head(links[s]) = links[s][1]
    BY <1>3, Arriving DEF Reach
  <2>2. more \in Named(links[s][1], s)
    BY <1>3, <2>1 DEF Named
  <2>3. InSlot(s) <= more /\ more < msg_id[s]
    BY <1>1, <1>3, <2>1, <2>2 DEF Ordered
  <2>4. \A i \in DOMAIN links[s] : 1 <= i
    BY <1>1, <1>3
  <2>5. \A i \in DOMAIN links[s] : \A v \in Named(links[s][i], s) : more <= v
    BY <1>1, <1>3, <2>1, <2>2, <2>4 DEF Ordered
  <2>6. more \in Nat /\ s \in Senders
    BY <1>3
  <2> HIDE DEF more
  <2>7. Ordered(s, links, named[s], more, msg_id[s])
    BY <1>1, <2>3, <2>5, <2>6, FillingKeepsOrder
  <2> QED
    BY <2>7 DEF more
<1> QED
  BY <1>2, <1>3, SlotStep

\* An aggregated message may be passed on to the next link.
LEMMA ForwardingJoins ==
  ASSUME NEW s \in Sources, NEW L \in [Senders -> Seq(Packet)], NEW k \in Senders,
         NextHop[k] \in Senders, 1 \in DOMAIN L[k], k \notin Sources,
         NEW last \in Nat, NEW slot \in Nat, NEW new \in Nat,
         Ordered(s, L, last, slot, new)
  PROVE  Joins(s, L, last, slot, new, NextHop[k], L[k][1])
<1> DEFINE n == NextHop[k]
           p == L[k][1]
<1>1. k \in Upstream[n] /\ n \in Aggregators /\ n \notin Sources
  BY UpstreamSelf, UpstreamClosed, WsnAssumption
<1>2. \A l \in Senders : \A j \in DOMAIN L[l] : 1 <= j
  OBVIOUS
<1>a. k # n /\ n \notin Upstream[k]
  BY <1>1, UpstreamSelf, WsnAssumption
<1> SUFFICES ASSUME NEW v \in Named(p, s)
             PROVE  /\ s \in Upstream[n]
                    /\ last <= v /\ v < new
                    /\ IF n = s THEN slot <= v ELSE v <= slot
                    /\ \A w \in Named(p, s) : v = w
                    /\ \A l \in Senders : \A j \in DOMAIN L[l] : \A w \in Named(L[l][j], s) :
                         /\ n \in Upstream[l] => w <= v
                         /\ l \in Upstream[n] /\ l # n => v <= w
  BY DEF Joins
<1>3. s \in Upstream[k] /\ last <= v /\ v < new /\ v <= slot
  BY DEF Ordered
<1>4. s \in Upstream[n]
  BY <1>1, <1>3, UpstreamTransitive
<1>5. ASSUME NEW w \in Named(p, s) PROVE v = w
  <2>1. v <= w /\ w <= v
    BY <1>5 DEF Ordered
  <2>2. v \in Nat /\ w \in Nat
    BY <1>5 DEF Named
  <2> QED
    BY <2>1, <2>2
<1>6. ASSUME NEW l \in Senders, NEW j \in DOMAIN L[l], NEW w \in Named(L[l][j], s),
             n \in Upstream[l]
      PROVE  w <= v
  <2>1. k \in Upstream[l] /\ k # l
    BY <1>1, <1>a, <1>6, UpstreamTransitive
  <2> QED
    BY <1>6, <2>1 DEF Ordered
<1>7. ASSUME NEW l \in Senders, NEW j \in DOMAIN L[l], NEW w \in Named(L[l][j], s),
             l \in Upstream[n], l # n
      PROVE  v <= w
  <2>1. s \in Upstream[l]
    BY <1>7 DEF Ordered
  <2>2. CASE k = l
    BY <1>2, <1>7, <2>2 DEF Ordered
  <2>3. CASE k # l /\ l \in Upstream[k]
    BY <1>7, <2>3 DEF Ordered
  <2>4. CASE k # l /\ k \in Upstream[l]
    <3>1. n \in Upstream[l]
      BY <2>4, UpstreamOver
    <3> QED
      BY <1>7, <3>1, UpstreamOrder
  <2> QED
    BY <1>3, <2>1, <2>2, <2>3, <2>4, UpstreamLinear
<1> QED
  BY <1>1, <1>3, <1>4, <1>5, <1>6, <1>7

\* A packet that names of a source what is in its slot may be sent by the
\* source's aggregator.
LEMMA EmittingJoins ==
  ASSUME NEW s \in Sources, NEW L \in [Senders -> Seq(Packet)], NextHop[s] \in Senders,
         NEW last \in Nat, NEW slot \in Nat, NEW new \in Nat,
         Ordered(s, L, last, slot, new),
         NEW pkt, \A v \in Named(pkt, s) : v = slot
  PROVE  Joins(s, L, last, slot, new, NextHop[s], pkt)
<1> DEFINE n == NextHop[s]
<1>1. s \in Senders /\ Upstream[s] = {s} /\ s # n /\ s \in Upstream[n] /\ n \in Upstream[n]
  BY UpstreamOfSource, UpstreamSelf, UpstreamClosed, SlotOfSource
<1>2. last <= slot /\ slot < new
  BY DEF Ordered
<1>3. ASSUME NEW l \in Senders, NEW j \in DOMAIN L[l], NEW w \in Named(L[l][j], s)
      PROVE  /\ n \in Upstream[l] => w <= slot
             /\ l \in Upstream[n] /\ l # n => slot <= w
  <2>1. s \in Upstream[l] /\ IF l = s THEN slot <= w ELSE w <= slot
    BY <1>3 DEF Ordered
  <2>2. n \in Upstream[l] => l # s
    BY <1>1
  <2>3. ASSUME l \in Upstream[n], l # n
        PROVE  l = s
    <3> SUFFICES ASSUME l # s PROVE FALSE
      OBVIOUS
    <3>1. n \in Upstream[l]
      BY <2>1, UpstreamOver
    <3> QED
      BY <2>3, <3>1, UpstreamOrder
  <2> QED
    BY <2>1, <2>2, <2>3
<1> QED
  BY <1>1, <1>2, <1>3 DEF Joins

(***************************************************************************)
(* Every step keeps the order.                                             *)
(***************************************************************************)

\* An aggregator handles a packet.
LEMMA CollectorKeepsOrder ==
  ASSUME WInv, PInv, NEW k \in Senders, NEW again \in BOOLEAN, Reach(k, again),
         NextHop[k] # Root, NEW s \in Sources
  PROVE  Ordered(s, links', named[s], InSlot(s)', msg_id[s])
<1> DEFINE n == NextHop[k]
           p == Head(links[k])
           q == OwnPacket(n, p)
           slot == InSlot(s)'
           L1 == Passed(links, n, p)
           Good(L) == /\ L \in [Senders -> Seq(Packet)]
                      /\ L[k] # <<>>
                      /\ Ordered(s, L, named[s], slot, msg_id[s])
<1>1. /\ n \in Aggregators /\ n \in Collectors /\ n \in Senders /\ k # n
      /\ p \in Packet /\ p = links[k][1] /\ 1 \in DOMAIN links[k]
      /\ Rides(p, k) /\ links[k] # <<>>
  BY Arriving DEF Reach
<1>2. /\ links \in [Senders -> Seq(Packet)]
      /\ named[s] \in Nat /\ msg_id[s] \in Nat
  BY PathNumbers
<1>3. slot \in Nat
  <2>1. SlotsTyped'
    BY ReceiveKeepsSlots
  <2>2. message_array'[NextHop[s]][SlotOf(s)].msg_id \in MsgIds
    BY <2>1, SlotOfSource DEF SlotsTyped
  <2>3. slot = message_array'[NextHop[s]][SlotOf(s)].msg_id
    BY DEF InSlot, SlotOf
  <2> QED
    BY <2>2, <2>3, MsgIdsAreNumbers
<1>4. Ordered(s, links, named[s], slot, msg_id[s])
  BY <1>3, SlotKeepsOrder
<1>5. q \in Packet /\ \A v \in Named(q, s) : NextHop[s] = n /\ v = slot
  BY SentRides, AggregateNamesSlot
<1> HIDE DEF slot, q
<1>6. Good(L1)
  <2>1. CASE p.len # "message_agg_t"
    BY <1>1, <1>2, <1>4, <2>1 DEF Passed
  <2>2. CASE p.len = "message_agg_t"
    <3>1. L1 = [links EXCEPT ![n] = Append(@, p)]
      BY <2>2 DEF Passed
    <3>2. k \notin Sources
      BY <1>1, <2>2 DEF Rides
    <3>3. Joins(s, links, named[s], slot, msg_id[s], n, p)
      BY <1>1, <1>2, <1>3, <1>4, <3>2, ForwardingJoins
    <3> HIDE DEF L1, n, p
    <3>4. Ordered(s, [links EXCEPT ![n] = Append(@, p)], named[s], slot, msg_id[s])
      BY <1>1, <1>2, <1>3, <1>4, <3>3, JoiningKeepsOrder
    <3>5. L1 \in [Senders -> Seq(Packet)] /\ L1[k] = links[k]
      BY <1>1, <1>2, <3>1
    <3> QED
      BY <1>1, <3>1, <3>4, <3>5
  <2> QED
    BY <2>1, <2>2
<1> HIDE DEF L1
<1>7. Good(Sent(L1, n, p))
  <2>1. Sent(L1, n, p) = [L1 EXCEPT ![n] = Append(@, q)]
    BY DEF Sent, q
  <2>2. Joins(s, L1, named[s], slot, msg_id[s], n, q)
    <3>1. CASE NextHop[s] = n
      BY <1>1, <1>2, <1>3, <1>5, <1>6, <3>1, EmittingJoins
    <3>2. CASE NextHop[s] # n
      BY <1>5, <3>2 DEF Joins
    <3> QED
      BY <3>1, <3>2
  <2> HIDE DEF n, p
  <2>3. Ordered(s, [L1 EXCEPT ![n] = Append(@, q)], named[s], slot, msg_id[s])
    BY <1>1, <1>2, <1>3, <1>5, <1>6, <2>2, JoiningKeepsOrder
  <2>4. Sent(L1, n, p) \in [Senders -> Seq(Packet)] /\ Sent(L1, n, p)[k] = L1[k]
    BY <1>1, <1>5, <1>6, <2>1
  <2> QED
    BY <1>6, <2>1, <2>3, <2>4
<1>8. PICK L2 \in {L1, Sent(L1, n, p)} : links' \in {L2, [L2 EXCEPT ![k] = Tail(@)]}
  BY ReachLinks DEF L1
<1>9. Good(L2)
  BY <1>6, <1>7, <1>8
<1>10. Ordered(s, [L2 EXCEPT ![k] = Tail(@)], named[s], slot, msg_id[s])
  BY <1>2, <1>3, <1>9, LeavingKeepsOrder
<1> QED
  BY <1>8, <1>9, <1>10 DEF slot

\* The root sees a packet: of every source it names, it names a message that is
\* no older than what the root has seen and no newer than what is on the way.
LEMMA RootKeepsOrder ==
  ASSUME WInv, PInv, NEW k \in Senders, NEW again \in BOOLEAN, Reach(k, again),
         NextHop[k] = Root, NEW s \in Sources
  PROVE  /\ Ordered(s, links', named'[s], InSlot(s)', msg_id[s])
         /\ named'[s] >= named[s]
<1> DEFINE p == Head(links[k])
           more == named'[s]
<1>1. /\ p = links[k][1] /\ 1 \in DOMAIN links[k] /\ links[k] # <<>>
      /\ Rides(p, k) /\ Root \in Aggregators
  BY Arriving DEF Reach
<1>2. /\ links \in [Senders -> Seq(Packet)]
      /\ named[s] \in Nat /\ InSlot(s) \in Nat /\ msg_id[s] \in Nat
      /\ Ordered(s, links, named[s], InSlot(s), msg_id[s])
  BY PathNumbers DEF PInv
<1>3. InSlot(s)' = InSlot(s)
  BY SlotStep, SlotOfSource DEF Collectors
<1>4. more \in Nat
  BY SeenAreMsgIds, MsgIdsAreNumbers
<1>5. Root \notin Senders
  BY <1>1, WsnAssumption DEF Senders, Collectors
<1>6. /\ named[s] <= more /\ more <= InSlot(s)
      /\ \A l \in Senders : \A j \in DOMAIN links[l] : \A w \in Named(links[l][j], s) : more <= w
  <2>1. CASE more = named[s]
    BY <1>2, <2>1 DEF Ordered
  <2>2. CASE p.len = "message_agg_t" /\ \E i \in Slots : p.body.node_ids_in_msg[i] = s
    <3> DEFINE i == CHOOSE i \in Slots : p.body.node_ids_in_msg[i] = s
    <3>1. i \in Slots /\ p.body.node_ids_in_msg[i] = s
      BY <2>2
    <3>2. more = p.body.msg_ids_in_msg[i]
      BY <2>2 DEF Reach, NamedAfter
    <3> HIDE DEF i, more
    <3>3. more \in Named(links[k][1], s)
      BY <1>1, <1>4, <2>2, <3>1, <3>2 DEF Named
    <3>4. k # s
      BY <1>1, <2>2 DEF Rides
    <3>5. s \in Upstream[k] /\ named[s] <= more /\ more <= InSlot(s)
      BY <1>1, <1>2, <3>3, <3>4 DEF Ordered
    <3>6. ASSUME NEW l \in Senders, NEW j \in DOMAIN links[l], NEW w \in Named(links[l][j], s)
          PROVE  more <= w
      <4>1. s \in Upstream[l] /\ 1 <= j
        BY <1>2, <3>6 DEF Ordered
      <4>2. CASE k = l
        BY <1>1, <1>2, <3>3, <3>6, <4>1, <4>2 DEF Ordered
      <4>3. CASE k # l /\ l \in Upstream[k]
        BY <1>1, <1>2, <3>3, <3>6, <4>3 DEF Ordered
      <4>4. CASE k # l /\ k \in Upstream[l]
        <5>1. Root \in Upstream[l]
          BY <4>4, UpstreamOver
        <5> QED
          BY <1>5, <5>1, UpstreamSelf
      <4> QED
        BY <3>5, <4>1, <4>2, <4>3, <4>4, UpstreamLinear
    <3> QED
      BY <3>5, <3>6
  <2>3. CASE ~ (p.len = "message_agg_t" /\ \E i \in Slots : p.body.node_ids_in_msg[i] = s)
    <3>1. more = named[s]
      BY <2>3 DEF Reach, NamedAfter
    <3> QED
      BY <2>1, <3>1
  <2> QED
    BY <2>2, <2>3
<1> HIDE DEF more
<1>7. Ordered(s, links, more, InSlot(s), msg_id[s])
  BY <1>2, <1>4, <1>6, SeeingKeepsOrder
<1>8. Ordered(s, [links EXCEPT ![k] = Tail(@)], more, InSlot(s), msg_id[s])
  BY <1>1, <1>2, <1>4, <1>7, LeavingKeepsOrder
<1>9. links' \in {links, [links EXCEPT ![k] = Tail(@)]}
  BY DEF Reach
<1>10. Ordered(s, links', more, InSlot(s), msg_id[s]) /\ more >= named[s]
  BY <1>2, <1>4, <1>6, <1>7, <1>8, <1>9
<1> QED
  BY <1>3, <1>10 DEF more

\* A source sends its next message.
LEMMA SendKeepsOrder ==
  ASSUME WInv, PInv, NEW k \in Sources, Send(k), msg_id'[k] # 0, NEW s \in Sources
  PROVE  Ordered(s, links', named[s], InSlot(s), msg_id'[s])
<1> DEFINE pkt == SourcePacket([node_id |-> k, msg_id |-> msg_id[k]])
           new == IF s = k THEN msg_id[s] + 1 ELSE msg_id[s]
<1>1. /\ links \in [Senders -> Seq(Packet)]
      /\ named[s] \in Nat /\ InSlot(s) \in Nat /\ msg_id[s] \in Nat
      /\ Ordered(s, links, named[s], InSlot(s), msg_id[s])
  BY PathNumbers DEF PInv
<1>2. /\ k \in Senders /\ pkt \in Packet
      /\ pkt.len = "message_t" /\ pkt.body.node_id = k /\ pkt.body.msg_id = msg_id[k]
  BY SendingRides, SlotOfSource
<1>3. links' = [links EXCEPT ![k] = Append(@, pkt)]
  BY DEF Send
<1>4. msg_id'[s] = new
  <2>1. (msg_id[k] + 1) % IdMod # 0 => (msg_id[k] + 1) % IdMod = msg_id[k] + 1
    BY NextMsgId DEF WInv
  <2> QED
    BY <2>1 DEF Send, WInv
<1>5. new \in Nat /\ msg_id[s] <= new
  BY <1>1
<1> HIDE DEF pkt
<1>6. Ordered(s, links, named[s], InSlot(s), new)
  <2> HIDE DEF new
  <2>1. \A v \in Nat : v < msg_id[s] => v < new
    BY <1>1, <1>5
  <2>2. \A l \in Senders : \A i \in DOMAIN links[l] : \A v \in Named(links[l][i], s) : v \in Nat
    BY DEF Named
  <2> QED
    BY <1>1, <2>1, <2>2 DEF Ordered
<1>7. Joins(s, links, named[s], InSlot(s), new, k, pkt)
  <2>1. CASE s # k
    BY <1>2, <2>1 DEF Joins, Named
  <2>2. CASE s = k
    <3>1. Named(pkt, s) \subseteq {msg_id[s]}
      BY <1>2, <2>2 DEF Named
    <3>2. s \in Upstream[s] /\ Upstream[s] = {s}
      BY UpstreamOfSource
    <3>3. named[s] <= msg_id[s] /\ msg_id[s] < new /\ InSlot(s) <= msg_id[s]
      <4>1. named[s] <= InSlot(s) /\ InSlot(s) < msg_id[s]
        BY <1>1 DEF Ordered
      <4> QED
        BY <1>1, <2>2, <4>1
    <3>4. \A l \in Senders : \A i \in DOMAIN links[l] : \A w \in Named(links[l][i], s) :
            w <= msg_id[s]
      <4>1. \A l \in Senders : \A i \in DOMAIN links[l] : \A w \in Named(links[l][i], s) :
              w \in Nat /\ w < msg_id[s]
        BY <1>1 DEF Ordered, Named
      <4> QED
        BY <1>1, <4>1
    <3> HIDE DEF new
    <3> QED
      BY <2>2, <3>1, <3>2, <3>3, <3>4 DEF Joins
  <2> QED
    BY <2>1, <2>2
<1> HIDE DEF new
<1> QED
  BY <1>1, <1>2, <1>3, <1>4, <1>5, <1>6, <1>7, JoiningKeepsOrder

\* A step either leaves what the root has seen named, or it shows it a newer one.
LEMMA StepKeepsOrder ==
  ASSUME WInv, PInv, NoWrap', [WsnNext]_wsnVars
  PROVE  PInv' /\ [\A s \in Sources : named'[s] >= named[s]]_wsnVars
<1> SUFFICES ASSUME NEW s \in Sources
             PROVE  /\ Ordered(s, links', named'[s], InSlot(s)', msg_id'[s])
                    /\ named'[s] >= named[s]
  <2>1. PInv' <=> \A s \in Sources : Ordered(s, links', named'[s], InSlot(s)', msg_id'[s])
    BY DEF PInv, InSlot, SlotOf
  <2> QED
    BY <2>1
<1>1. /\ Ordered(s, links, named[s], InSlot(s), msg_id[s])
      /\ links \in [Senders -> Seq(Packet)]
      /\ named[s] \in Nat /\ InSlot(s) \in Nat /\ msg_id[s] \in Nat
  BY PathNumbers DEF PInv
<1>2. UNCHANGED message_array => InSlot(s)' = InSlot(s)
  BY DEF InSlot, SlotOf
<1>3. ASSUME NEW k \in Sources, Send(k)
      PROVE  /\ Ordered(s, links', named'[s], InSlot(s)', msg_id'[s])
             /\ named'[s] >= named[s]
  <2>1. Ordered(s, links', named[s], InSlot(s), msg_id'[s])
    BY <1>3, SendKeepsOrder DEF NoWrap
  <2> QED
    BY <1>1, <1>2, <1>3, <2>1 DEF Send, vars
<1>4. ASSUME NEW k \in Senders, NEW again \in BOOLEAN, Reach(k, again)
      PROVE  /\ Ordered(s, links', named'[s], InSlot(s)', msg_id'[s])
             /\ named'[s] >= named[s]
  <2>1. msg_id' = msg_id
    BY <1>4 DEF Reach
  <2>2. CASE NextHop[k] = Root
    BY <1>4, <2>1, <2>2, RootKeepsOrder
  <2>3. CASE NextHop[k] # Root
    <3>1. named' = named
      BY <1>4, <2>3 DEF Reach
    <3>2. Ordered(s, links', named[s], InSlot(s)', msg_id[s])
      BY <1>4, <2>3, CollectorKeepsOrder
    <3> QED
      BY <1>1, <2>1, <3>1, <3>2
  <2> QED
    BY <2>2, <2>3
<1>5. ASSUME NEW k \in Senders, Lose(k)
      PROVE  /\ Ordered(s, links', named'[s], InSlot(s)', msg_id'[s])
             /\ named'[s] >= named[s]
  <2>1. Ordered(s, [links EXCEPT ![k] = Tail(@)], named[s], InSlot(s), msg_id[s])
    BY <1>1, <1>5, LeavingKeepsOrder DEF Lose
  <2> QED
    BY <1>1, <1>2, <1>5, <2>1 DEF Lose, vars
<1>6. ASSUME NEW n \in Aggregators, Expire(n)
      PROVE  /\ Ordered(s, links', named'[s], InSlot(s)', msg_id'[s])
             /\ named'[s] >= named[s]
  BY <1>1, <1>2, <1>6 DEF Expire, TimerExpires, round
<1>7. CASE UNCHANGED wsnVars
  BY <1>1, <1>2, <1>7 DEF wsnVars, vars
<1> QED
  BY <1>3, <1>4, <1>5, <1>6, <1>7 DEF WsnNext, Arrive, ArriveAndStay

LEMMA InitOrder == WsnInit /\ NoWrap => PInv
<1> SUFFICES ASSUME WsnInit, NoWrap, NEW s \in Sources
             PROVE  Ordered(s, links, named[s], InSlot(s), msg_id[s])
  BY DEF PInv
<1>1. named[s] = 0 /\ InSlot(s) = 0
  BY SlotOfSource DEF WsnInit, Init, InSlot, ZeroMessage
<1>2. msg_id[s] \in Nat /\ msg_id[s] # 0
  <2>1. msg_id[s] \in Nat
    BY InitWInv, PathNumbers
  <2> QED
    BY <2>1 DEF NoWrap
<1>3. \A k \in Senders : links[k] = <<>>
  BY DEF WsnInit
<1> QED
  BY <1>1, <1>2, <1>3 DEF Ordered

\* The messages the root sees named of a source never go back, in every tree of
\* motes, until a source's message number comes back to 0: neither losses nor
\* repetitions nor the relay nor the slots that keep old messages bring an older
\* one after a newer.
THEOREM NamesGoForwardHolds == WsnSpec /\ []NoWrap => NamesGoForward
<1>1. WsnInit /\ NoWrap => WInv /\ PInv
  BY InitWInv, InitOrder
<1>2. (WInv /\ PInv) /\ NoWrap' /\ [WsnNext]_wsnVars => (WInv /\ PInv)'
  BY StepWInv, StepKeepsOrder
<1>3. (WInv /\ PInv) /\ NoWrap' /\ [WsnNext]_wsnVars
        => [\A s \in Sources : named'[s] >= named[s]]_wsnVars
  BY StepKeepsOrder
<1> QED
  BY <1>1, <1>2, <1>3, PTL DEF WsnSpec, NamesGoForward
=============================================================================
