----------------------------- MODULE CsmaProofs -----------------------------
(***************************************************************************)
(* Theorems about Csma, for every number of addresses, neighbors, packets, *)
(* retransmissions and sequence numbers: the entries of neighbor_list are  *)
(* those in use, and the link layer implements Link.                       *)
(***************************************************************************)
EXTENDS Csma, FiniteSetTheorems, SequenceTheorems, TLAPS

\* The variables that the proofs speak of have their types.
Typed ==
  /\ queue \in [Addresses -> Seq(Frame)]
  /\ fifo \in Seq(Frame)
  /\ mac_dsn \in 0 .. DsnMod - 1
  /\ next \in Nat \ {0}
  /\ got \in Nat
  /\ repeated \in BOOLEAN
  /\ neighbors \subseteq Addresses
  /\ timer \subseteq Addresses
  /\ IsFiniteSet(neighbors)

(***************************************************************************)
(* Sequences of frames.                                                    *)
(***************************************************************************)

\* The packets among frames are numbers.
LEMMA IdsType ==
  ASSUME NEW s \in Seq(Frame)
  PROVE  Ids(s) \subseteq Nat \ {0}
<1>1. \A i \in DOMAIN s : s[i] \in Frame
  OBVIOUS
<1> QED
  BY <1>1 DEF Ids, Frame

\* A frame put at the end of a queue adds its packet to the queue's.
LEMMA AppendIds ==
  ASSUME NEW s \in Seq(Frame), NEW f \in Frame
  PROVE  /\ Append(s, f) \in Seq(Frame)
         /\ Append(s, f) # <<>>
         /\ Ids(Append(s, f)) = Ids(s) \cup ({f.id} \ {0})
         /\ Len(Append(s, f)) = Len(s) + 1
         /\ \A i \in DOMAIN s : Append(s, f)[i] = s[i]
         /\ Append(s, f)[Len(s) + 1] = f
         /\ DOMAIN s = 1 .. Len(s)
         /\ DOMAIN Append(s, f) = 1 .. Len(s) + 1
<1>1. /\ Append(s, f) \in Seq(Frame)
      /\ Append(s, f) # <<>>
      /\ Len(Append(s, f)) = Len(s) + 1
      /\ Len(s) \in Nat
      /\ DOMAIN s = 1 .. Len(s)
      /\ DOMAIN Append(s, f) = 1 .. Len(s) + 1
  OBVIOUS
<1>2. /\ \A i \in DOMAIN s : Append(s, f)[i] = s[i]
      /\ Append(s, f)[Len(s) + 1] = f
  BY <1>1
<1>3. { Append(s, f)[i].id : i \in DOMAIN Append(s, f) } = { s[i].id : i \in DOMAIN s } \cup {f.id}
  BY <1>1, <1>2
<1> QED
  BY <1>1, <1>2, <1>3 DEF Ids

\* Taking the first frame off a queue keeps the others in their order.
LEMMA TailIds ==
  ASSUME NEW s \in Seq(Frame), s # <<>>
  PROVE  /\ Tail(s) \in Seq(Frame)
         /\ Head(s) \in Frame
         /\ Head(s) = s[1]
         /\ 1 \in DOMAIN s
         /\ DOMAIN s = 1 .. Len(s)
         /\ Len(s) \in Nat
         /\ \A i \in DOMAIN Tail(s) : i + 1 \in DOMAIN s /\ Tail(s)[i] = s[i + 1]
         /\ DOMAIN Tail(s) \subseteq Nat
         /\ Ids(Tail(s)) \subseteq Ids(s)
<1>1. /\ Tail(s) \in Seq(Frame)
      /\ Head(s) \in Frame
      /\ Head(s) = s[1]
      /\ Len(s) \in Nat \ {0}
      /\ DOMAIN s = 1 .. Len(s)
      /\ 1 \in DOMAIN s
      /\ DOMAIN Tail(s) = 1 .. Len(s) - 1
  OBVIOUS
<1>2. \A i \in DOMAIN Tail(s) : i + 1 \in DOMAIN s /\ Tail(s)[i] = s[i + 1]
  BY <1>1
<1>3. Ids(Tail(s)) \subseteq Ids(s)
  BY <1>2 DEF Ids
<1> QED
  BY <1>1, <1>2, <1>3

(***************************************************************************)
(* The neighbor entries.                                                   *)
(***************************************************************************)

NInv == Typed /\ NeighborsInUse

\* A frame for an address with the next number is a frame.
LEMMA NewFrameType ==
  ASSUME Typed, NEW a \in Addresses
  PROVE  NewFrame(a) \in Frame
BY DEF Typed, NewFrame, Frame

\* csma_output_packet keeps the entries in use.
LEMMA OutputKeepsNeighbors ==
  ASSUME NInv, NEW a \in Addresses, Output(a)
  PROVE  NInv'
<1> USE CsmaAssumption
<1>0. /\ IsFiniteSet(neighbors \cup {a})
      /\ Cardinality(neighbors) \in Nat
      /\ Cardinality(neighbors \cup {a}) =
           IF a \in neighbors THEN Cardinality(neighbors) ELSE Cardinality(neighbors) + 1
  <2>1. IsFiniteSet(neighbors)
    BY DEF NInv, Typed
  <2> QED
    BY <2>1, FS_AddElement, FS_CardinalityType
<1>1. CASE Enqueue(a)
  <2>1. /\ queue' = [queue EXCEPT ![a] = Append(@, NewFrame(a))]
        /\ Append(queue[a], NewFrame(a)) \in Seq(Frame)
        /\ Append(queue[a], NewFrame(a)) # <<>>
    BY <1>1, AppendIds, NewFrameType DEF NInv, Typed, Enqueue, ListAdd
  <2>2. Typed'
    <3>1. IsFiniteSet(neighbors')
      <4>1. neighbors' = neighbors \cup {a}
        BY <1>1 DEF Enqueue
      <4> QED
        BY <1>0, <4>1, Zenon
    <3>2. next' \in Nat \ {0} /\ mac_dsn' \in 0 .. DsnMod - 1
      BY <1>1 DEF NInv, Typed, Enqueue, Output
    <3> QED
      BY <1>1, <2>1, <3>1, <3>2 DEF NInv, Typed, Enqueue, Output, receiver
  <2>3. neighbors' = { b \in Addresses : queue'[b] # <<>> }
    BY <1>1, <2>1 DEF NInv, Typed, NeighborsInUse, Enqueue
  <2>4. timer' = neighbors'
    BY <1>1 DEF NInv, Typed, NeighborsInUse, Enqueue
  <2>5. Cardinality(neighbors') <= MaxNeighbors
    BY <1>0, <1>1 DEF NInv, NeighborsInUse, Enqueue, CanQueue
  <2> QED
    BY <2>2, <2>3, <2>4, <2>5 DEF NInv, NeighborsInUse
<1>2. CASE Refuse(a)
  <2>1. neighbors' = neighbors
    BY <1>2 DEF NInv, Typed, NeighborsInUse, Refuse
  <2>2. mac_dsn' \in 0 .. DsnMod - 1
    BY DEF NInv, Typed, Output
  <2> QED
    BY <1>2, <2>1, <2>2 DEF NInv, Typed, NeighborsInUse, Refuse, Output, receiver
<1> QED
  BY <1>1, <1>2 DEF Output

\* What a transmission may make of the queues: nothing, or it frees the head.
LEMMA TransmitFrees ==
  ASSUME NEW a \in Addresses, Transmit(a)
  PROVE  FreePacket(a) \/ UNCHANGED <<neighbors, queue, timer, free>>
BY DEF Transmit, ChannelBusy, TransmitFails, FrameSent, NoAck, Collision, Retry

\* What it may make of the receiver's radio: nothing, or it adds the head.
LEMMA TransmitHeard ==
  ASSUME NEW a \in Addresses, Transmit(a)
  PROVE  \/ UNCHANGED fifo
         \/ /\ Head(queue[a]).to \in {Receiver, Broadcast}
            /\ fifo' = Append(fifo, Head(queue[a]))
BY DEF Transmit, ChannelBusy, TransmitFails, FrameSent, Heard, NotHeard

\* A transmission keeps the entries in use.
LEMMA TransmitKeepsNeighbors ==
  ASSUME NInv, NEW a \in Addresses, Transmit(a)
  PROVE  NInv'
<1>1. a \in neighbors /\ queue[a] \in Seq(Frame) /\ queue[a] # <<>>
  BY DEF NInv, Typed, NeighborsInUse, Transmit
<1>2. Head(queue[a]) \in Frame /\ Tail(queue[a]) \in Seq(Frame)
  BY <1>1, TailIds
<1>3. fifo' \in Seq(Frame)
  <2>1. fifo \in Seq(Frame)
    BY DEF NInv, Typed
  <2>2. Append(fifo, Head(queue[a])) \in Seq(Frame)
    BY <1>2, <2>1, AppendIds
  <2> QED
    BY <2>1, <2>2, TransmitHeard
<1>4. UNCHANGED <<next, got, repeated, mac_dsn>>
  BY DEF Transmit, receiver
<1>5. CASE UNCHANGED <<neighbors, queue, timer, free>>
  BY <1>3, <1>4, <1>5 DEF NInv, Typed, NeighborsInUse
<1>6. CASE FreePacket(a)
  <2>1. queue' = [queue EXCEPT ![a] = Tail(@)]
    BY <1>6 DEF FreePacket
  <2>2. CASE Tail(queue[a]) = <<>>
    <3>1. neighbors' = neighbors \ {a} /\ timer' = timer \ {a}
      BY <1>6, <2>2 DEF FreePacket
    <3>2. IsFiniteSet(neighbors') /\ Cardinality(neighbors') <= MaxNeighbors
      <4>1. IsFiniteSet(neighbors)
        BY DEF NInv, Typed
      <4>2. /\ IsFiniteSet(neighbors \ {a})
            /\ Cardinality(neighbors) \in Nat
            /\ Cardinality(neighbors \ {a}) = Cardinality(neighbors) - 1
        BY <1>1, <4>1, FS_RemoveElement, FS_CardinalityType
      <4>3. IsFiniteSet(neighbors')
        BY <3>1, <4>2, Zenon
      <4> QED
        BY <3>1, <4>2, <4>3, CsmaAssumption DEF NInv, NeighborsInUse
    <3> QED
      BY <1>2, <1>3, <1>4, <2>1, <2>2, <3>1, <3>2 DEF NInv, Typed, NeighborsInUse
  <2>3. CASE Tail(queue[a]) # <<>>
    <3>1. UNCHANGED <<neighbors, timer>>
      BY <1>6, <2>3 DEF FreePacket
    <3> QED
      BY <1>1, <1>2, <1>3, <1>4, <2>1, <2>3, <3>1 DEF NInv, Typed, NeighborsInUse
  <2> QED
    BY <2>2, <2>3
<1> QED
  BY <1>5, <1>6, TransmitFrees

\* A read takes the head of the radio's frames.
LEMMA ReadType ==
  ASSUME Typed, Read \/ ReadAsAck
  PROVE  /\ fifo \in Seq(Frame) /\ fifo # <<>>
         /\ Head(fifo) \in Frame
         /\ Tail(fifo) \in Seq(Frame)
         /\ fifo' \in {Tail(fifo), <<>>}
         /\ fifo' \in Seq(Frame)
         /\ UNCHANGED <<sender, mac_dsn, next>>
         /\ got' \in Nat /\ repeated' \in BOOLEAN
<1>1. fifo \in Seq(Frame) /\ fifo # <<>> /\ fifo' \in {Tail(fifo), <<>>}
  BY DEF Typed, Read, ReadAsAck
<1>2. Head(fifo) \in Frame /\ Tail(fifo) \in Seq(Frame) /\ <<>> \in Seq(Frame)
  BY <1>1, TailIds
<1>3. got' \in Nat
  BY <1>2 DEF Typed, Frame, Read, ReadAsAck, Take, receiver
<1>4. repeated' \in BOOLEAN
  BY DEF Typed, Read, ReadAsAck, Take, receiver
<1> QED
  BY <1>1, <1>2, <1>3, <1>4 DEF Read, ReadAsAck

\* Every step keeps the entries in use.
LEMMA NeighborsStep == NInv /\ [Next]_vars => NInv'
<1> SUFFICES ASSUME NInv, [Next]_vars PROVE NInv'
  OBVIOUS
<1>1. ASSUME NEW a \in Addresses, Output(a) PROVE NInv'
  BY <1>1, OutputKeepsNeighbors
<1>2. ASSUME NEW a \in Addresses, Transmit(a) PROVE NInv'
  BY <1>2, TransmitKeepsNeighbors
<1>3. CASE Read \/ ReadAsAck
  BY <1>3, ReadType DEF NInv, Typed, NeighborsInUse, sender
<1>4. CASE UNCHANGED vars
  BY <1>4 DEF NInv, Typed, NeighborsInUse, vars, sender, receiver
<1> QED
  BY <1>1, <1>2, <1>3, <1>4 DEF Next

LEMMA NeighborsInit == Init => NInv
<1> SUFFICES ASSUME Init PROVE NInv
  OBVIOUS
<1>1. IsFiniteSet(neighbors) /\ Cardinality(neighbors) = 0
  BY FS_EmptySet DEF Init
<1>2. queue \in [Addresses -> Seq(Frame)] /\ fifo \in Seq(Frame)
  BY DEF Init
<1>3. Typed
  <2>1. /\ mac_dsn \in 0 .. DsnMod - 1
        /\ next \in Nat \ {0} /\ got \in Nat
        /\ neighbors \subseteq Addresses /\ timer \subseteq Addresses
    BY DEF Init
  <2>2. repeated \in BOOLEAN
    BY Zenon DEF Init
  <2> QED
    BY <1>1, <1>2, <2>1, <2>2 DEF Typed
<1>4. neighbors = { a \in Addresses : queue[a] # <<>> }
  BY DEF Init
<1> QED
  BY <1>1, <1>3, <1>4, CsmaAssumption DEF Init, NInv, NeighborsInUse

\* The neighbor entries are those of the addresses with packets, each waiting
\* for its timer, and never more than there are.
THEOREM NeighborsInUseHolds == Spec => []NeighborsInUse
<1>1. NInv => NeighborsInUse
  BY DEF NInv
<1> QED
  BY <1>1, NeighborsInit, NeighborsStep, PTL DEF Spec

(***************************************************************************)
(* Csma implements Link.                                                   *)
(***************************************************************************)

\* Packets leave the sender's queue in the order of their numbers and are
\* found in that order in the receiver's radio, once or more.
Ordered ==
  /\ \A a \in Addresses : \A i \in DOMAIN queue[a] :
       /\ queue[a][i].to = a
       /\ queue[a][i].id # 0 <=> a = Receiver
  /\ \A i \in DOMAIN fifo :
       /\ fifo[i].to \in {Receiver, Broadcast}
       /\ fifo[i].id # 0 <=> fifo[i].to = Receiver
  /\ \A i, j \in DOMAIN queue[Receiver] :
       i < j => queue[Receiver][i].id < queue[Receiver][j].id
  /\ \A i, j \in DOMAIN fifo :
       i < j /\ fifo[i].id # 0 /\ fifo[j].id # 0 => fifo[i].id <= fifo[j].id
  /\ \A m \in Ids(fifo), n \in Ids(queue[Receiver]) : m <= n
  /\ \A n \in OnWay : got <= n /\ n < next
  /\ got < next

OInv == NInv /\ Ordered

\* A packet that is queued gets the number of the link's next packet.
LEMMA OutputImplementsLink ==
  ASSUME OInv, NEW a \in Addresses, Output(a)
  PROVE  Ordered' /\ [link!Next]_link!linkVars
<1> DEFINE f == NewFrame(a)
           q == queue[a]
<1>1. /\ UNCHANGED <<fifo, got, repeated>>
      /\ Receiver \in Addresses
      /\ queue \in [Addresses -> Seq(Frame)]
      /\ next \in Nat \ {0} /\ got \in Nat
      /\ f \in Frame /\ f.to = a /\ f.id = IF a = Receiver THEN next ELSE 0
  BY CsmaAssumption, NewFrameType DEF OInv, NInv, Typed, Output, receiver, NewFrame
<1>2. CASE Enqueue(a)
  <2>1. /\ queue' = [queue EXCEPT ![a] = Append(q, f)]
        /\ next' = IF a = Receiver THEN next + 1 ELSE next
    BY <1>2 DEF Enqueue, ListAdd
  <2>2. queue'[a] = Append(q, f) /\ \A b \in Addresses \ {a} : queue'[b] = queue[b]
    BY <1>1, <2>1
  <2>3. /\ Ids(queue'[a]) = Ids(q) \cup ({f.id} \ {0})
        /\ Len(q) \in Nat
        /\ DOMAIN q = 1 .. Len(q)
        /\ DOMAIN queue'[a] = 1 .. Len(q) + 1
        /\ \A i \in DOMAIN q : queue'[a][i] = q[i]
        /\ queue'[a][Len(q) + 1] = f
    <3>1. q \in Seq(Frame)
      BY <1>1
    <3>2. Len(q) \in Nat
      BY <3>1
    <3> HIDE DEF f, q
    <3> QED
      BY <1>1, <2>2, <3>1, <3>2, AppendIds
  <2> HIDE DEF f, q
  <2>4. CASE a = Receiver
    <3>1. Ids(queue[Receiver]') = Ids(queue[Receiver]) \cup {next} /\ next' = next + 1
      BY <1>1, <2>1, <2>3, <2>4 DEF q
    <3>2. OnWay' = OnWay \cup {next}
      BY <1>1, <3>1 DEF OnWay, Ids
    <3>3. link!Put
      BY <1>1, <3>1, <3>2 DEF link!Put
    <3>4. \A i \in DOMAIN q : q[i].id < next /\ q[i].id # 0
      BY <1>1, <2>4 DEF OInv, Ordered, OnWay, Ids, q
    <3>5. /\ \A b \in Addresses : \A i \in DOMAIN queue'[b] :
               /\ queue'[b][i].to = b
               /\ queue'[b][i].id # 0 <=> b = Receiver
      <4>1. ASSUME NEW i \in DOMAIN queue'[a]
            PROVE  queue'[a][i].to = a /\ queue'[a][i].id # 0
        <5>1. CASE i = Len(q) + 1
          BY <1>1, <2>3, <2>4, <5>1
        <5>2. CASE i \in DOMAIN q
          BY <2>3, <2>4, <5>2 DEF OInv, Ordered, q
        <5> QED
          BY <2>3, <5>1, <5>2
      <4> QED
        BY <2>2, <2>4, <4>1 DEF OInv, Ordered
    <3>6. \A i, j \in DOMAIN queue'[Receiver] :
             i < j => queue'[Receiver][i].id < queue'[Receiver][j].id
      BY <1>1, <2>3, <2>4, <3>4 DEF OInv, Ordered, q
    <3>7. \A m \in Ids(fifo) : m < next
      BY DEF OInv, Ordered, OnWay
    <3>8. \A m \in Ids(fifo)', n \in Ids(queue[Receiver])' : m <= n
      <4>1. Ids(fifo)' = Ids(fifo)
        BY <1>1 DEF Ids
      <4>2. Ids(fifo) \subseteq Nat
        BY IdsType DEF OInv, NInv, Typed
      <4> QED
        BY <1>1, <3>1, <3>7, <4>1, <4>2 DEF OInv, Ordered
    <3>9. OnWay \subseteq Nat /\ Ids(fifo) \subseteq Nat
      BY <1>1, IdsType DEF OInv, NInv, Typed, OnWay
    <3>10. (\A n \in OnWay' : got' <= n /\ n < next') /\ got' < next'
      <4>1. (\A n \in OnWay : got <= n /\ n < next) /\ got < next
        BY DEF OInv, Ordered
      <4>2. \A n \in OnWay \cup {next} : got <= n /\ n < next + 1
        BY <1>1, <3>9, <4>1
      <4> QED
        BY <1>1, <3>1, <3>2, <4>1, <4>2
    <3>11. Ordered'
      BY <1>1, <3>5, <3>6, <3>8, <3>10 DEF OInv, Ordered
    <3> QED
      BY <3>3, <3>11 DEF link!Next
  <2>5. CASE a # Receiver
    <3>1. queue'[Receiver] = queue[Receiver] /\ next' = next
      BY <1>1, <2>1, <2>2, <2>5
    <3>2. OnWay' = OnWay
      BY <1>1, <3>1 DEF OnWay, Ids
    <3>3. \A b \in Addresses : \A i \in DOMAIN queue'[b] :
             /\ queue'[b][i].to = b
             /\ queue'[b][i].id # 0 <=> b = Receiver
      <4>1. ASSUME NEW i \in DOMAIN queue'[a]
            PROVE  queue'[a][i].to = a /\ queue'[a][i].id = 0
        <5>1. CASE i = Len(q) + 1
          BY <1>1, <2>3, <2>5, <5>1
        <5>2. CASE i \in DOMAIN q
          BY <2>3, <2>5, <5>2 DEF OInv, Ordered, q
        <5> QED
          BY <2>3, <5>1, <5>2
      <4> QED
        BY <2>2, <2>5, <4>1 DEF OInv, Ordered
    <3>4. Ordered'
      BY <1>1, <3>1, <3>2, <3>3 DEF OInv, Ordered, Ids
    <3> QED
      BY <1>1, <3>1, <3>2, <3>4 DEF link!linkVars
  <2> QED
    BY <2>4, <2>5
<1>3. CASE Refuse(a)
  <2>1. UNCHANGED <<queue, fifo, got, next, repeated>>
    BY <1>1, <1>3 DEF Refuse
  <2> QED
    BY <2>1 DEF OInv, Ordered, OnWay, Ids, link!linkVars
<1> QED
  BY <1>2, <1>3 DEF Output

\* A transmission, whatever comes of it, takes no packet from its place: at
\* most the link loses the one that is given up.
LEMMA TransmitImplementsLink ==
  ASSUME OInv, NEW a \in Addresses, Transmit(a)
  PROVE  Ordered' /\ [link!Next]_link!linkVars
<1> DEFINE f == Head(queue[a])
           r == queue[Receiver]
<1>1. /\ a \in neighbors /\ queue[a] \in Seq(Frame) /\ queue[a] # <<>>
      /\ Receiver \in Addresses /\ Broadcast # Receiver
      /\ r \in Seq(Frame) /\ fifo \in Seq(Frame)
      /\ queue \in [Addresses -> Seq(Frame)]
      /\ UNCHANGED <<next, got, repeated>>
  BY CsmaAssumption DEF OInv, NInv, Typed, NeighborsInUse, Transmit, receiver
<1>2. /\ f \in Frame /\ f = queue[a][1] /\ f.to = a
      /\ f.id # 0 <=> a = Receiver
      /\ a = Receiver => f.id \in Ids(r) /\ \A n \in Ids(r) : f.id <= n
  <2>1. f \in Frame /\ f = queue[a][1] /\ 1 \in DOMAIN queue[a]
    BY <1>1, TailIds
  <2>2. f.to = a /\ (f.id # 0 <=> a = Receiver)
    BY <2>1 DEF OInv, Ordered
  <2>3. ASSUME a = Receiver
        PROVE  f.id \in Ids(r) /\ \A n \in Ids(r) : f.id <= n
    <3>1. DOMAIN r = 1 .. Len(r) /\ Len(r) \in Nat
      BY <1>1
    <3>2. \A i \in DOMAIN r : 1 < i => f.id < r[i].id
      BY <2>1, <2>3 DEF OInv, Ordered
    <3>3. \A i \in DOMAIN r : f.id \in Nat /\ r[i].id \in Nat
      <4>1. \A i \in DOMAIN r : r[i] \in Frame
        BY <1>1
      <4> QED
        BY <2>1, <4>1 DEF Frame
    <3>4. \A i \in DOMAIN r : f.id <= r[i].id
      BY <2>1, <2>3, <3>1, <3>2, <3>3
    <3> QED
      BY <2>1, <2>2, <2>3, <3>4 DEF Ids
  <2> QED
    BY <2>1, <2>2, <2>3
<1> HIDE DEF f
\* The sender's queues.
<1>3. /\ \A b \in Addresses : \A i \in DOMAIN queue'[b] :
           /\ queue'[b][i].to = b
           /\ queue'[b][i].id # 0 <=> b = Receiver
      /\ \A i, j \in DOMAIN queue'[Receiver] :
           i < j => queue'[Receiver][i].id < queue'[Receiver][j].id
      /\ Ids(queue[Receiver])' \subseteq Ids(r)
  <2>1. CASE UNCHANGED queue
    BY <2>1 DEF OInv, Ordered, Ids
  <2>2. CASE FreePacket(a)
    <3>1. queue'[a] = Tail(queue[a]) /\ \A b \in Addresses \ {a} : queue'[b] = queue[b]
      BY <1>1, <2>2 DEF FreePacket
    <3>2. /\ \A i \in DOMAIN queue'[a] : i + 1 \in DOMAIN queue[a] /\ queue'[a][i] = queue[a][i + 1]
          /\ DOMAIN queue'[a] \subseteq Nat
          /\ Ids(queue'[a]) \subseteq Ids(queue[a])
      BY <1>1, <3>1, TailIds
    <3>3. \A b \in Addresses : \A i \in DOMAIN queue'[b] :
             /\ queue'[b][i].to = b
             /\ queue'[b][i].id # 0 <=> b = Receiver
      <4>1. ASSUME NEW i \in DOMAIN queue'[a]
            PROVE  queue'[a][i].to = a /\ (queue'[a][i].id # 0 <=> a = Receiver)
        BY <3>2, <4>1 DEF OInv, Ordered
      <4>2. ASSUME NEW b \in Addresses, NEW i \in DOMAIN queue'[b]
            PROVE  queue'[b][i].to = b /\ (queue'[b][i].id # 0 <=> b = Receiver)
        <5>1. CASE b = a
          BY <4>1, <4>2, <5>1
        <5>2. CASE b # a
          BY <3>1, <4>2, <5>2 DEF OInv, Ordered
        <5> QED
          BY <5>1, <5>2
      <4> QED
        BY <4>2
    <3>4. \A i, j \in DOMAIN queue'[Receiver] :
             i < j => queue'[Receiver][i].id < queue'[Receiver][j].id
      <4>1. CASE a = Receiver
        <5>1. SUFFICES ASSUME NEW i \in DOMAIN queue'[a], NEW j \in DOMAIN queue'[a], i < j
                       PROVE  queue'[a][i].id < queue'[a][j].id
          BY <4>1
        <5>2. i + 1 < j + 1
          BY <3>2, <5>1
        <5> QED
          BY <3>2, <4>1, <5>2 DEF OInv, Ordered
      <4>2. CASE a # Receiver
        BY <1>1, <3>1, <4>2 DEF OInv, Ordered
      <4> QED
        BY <4>1, <4>2
    <3>5. Ids(queue[Receiver])' \subseteq Ids(r)
      <4>1. CASE a = Receiver
        BY <3>2, <4>1
      <4>2. CASE a # Receiver
        BY <1>1, <3>1, <4>2
      <4> QED
        BY <4>1, <4>2
    <3> QED
      BY <3>3, <3>4, <3>5
  <2> QED
    BY <2>1, <2>2, TransmitFrees
\* The receiver's radio.
<1>4. /\ \A i \in DOMAIN fifo' :
           /\ fifo'[i].to \in {Receiver, Broadcast}
           /\ fifo'[i].id # 0 <=> fifo'[i].to = Receiver
      /\ \A i, j \in DOMAIN fifo' :
           i < j /\ fifo'[i].id # 0 /\ fifo'[j].id # 0 => fifo'[i].id <= fifo'[j].id
      /\ Ids(fifo)' \subseteq Ids(fifo) \cup ({f.id} \ {0})
  <2>1. CASE UNCHANGED fifo
    BY <2>1 DEF OInv, Ordered, Ids
  <2>2. CASE f.to \in {Receiver, Broadcast} /\ fifo' = Append(fifo, f)
    <3>1. /\ Ids(fifo') = Ids(fifo) \cup ({f.id} \ {0})
          /\ DOMAIN fifo = 1 .. Len(fifo)
          /\ DOMAIN fifo' = 1 .. Len(fifo) + 1
          /\ \A i \in DOMAIN fifo : fifo'[i] = fifo[i]
          /\ fifo'[Len(fifo) + 1] = f
          /\ Len(fifo) \in Nat
      <4>1. Len(fifo) \in Nat
        BY <1>1
      <4> QED
        BY <1>1, <1>2, <2>2, <4>1, AppendIds
    <3>2. \A i \in DOMAIN fifo : fifo[i].id # 0 /\ f.id # 0 => fifo[i].id <= f.id
      BY <1>2 DEF OInv, Ordered, Ids
    <3>3. f.id \in Nat
      BY <1>2 DEF Frame
    <3>4. ASSUME NEW i \in DOMAIN fifo'
          PROVE  /\ fifo'[i].to \in {Receiver, Broadcast}
                 /\ fifo'[i].id # 0 <=> fifo'[i].to = Receiver
      <4>1. CASE i = Len(fifo) + 1
        BY <1>2, <2>2, <3>1, <4>1
      <4>2. CASE i \in DOMAIN fifo
        BY <3>1, <4>2 DEF OInv, Ordered
      <4> QED
        BY <3>1, <4>1, <4>2
    <3>5. ASSUME NEW i \in DOMAIN fifo', NEW j \in DOMAIN fifo',
                 i < j, fifo'[i].id # 0, fifo'[j].id # 0
          PROVE  fifo'[i].id <= fifo'[j].id
      <4>1. i \in DOMAIN fifo
        BY <3>1, <3>5
      <4>2. CASE j = Len(fifo) + 1
        BY <3>1, <3>2, <3>5, <4>1, <4>2
      <4>3. CASE j \in DOMAIN fifo
        BY <3>1, <3>5, <4>1, <4>3 DEF OInv, Ordered
      <4> QED
        BY <3>1, <4>2, <4>3
    <3> QED
      BY <3>1, <3>4, <3>5
  <2> QED
    BY <2>1, <2>2, TransmitHeard DEF f
<1>5. \A m \in Ids(fifo)', n \in Ids(queue[Receiver])' : m <= n
  BY <1>2, <1>3, <1>4 DEF OInv, Ordered
<1>6. OnWay' \subseteq OnWay
  BY <1>2, <1>3, <1>4 DEF OnWay
<1>7. Ordered'
  BY <1>1, <1>3, <1>4, <1>5, <1>6 DEF OInv, Ordered
<1>8. link!Lose(OnWay \ OnWay')
  BY <1>1, <1>6 DEF link!Lose
<1> QED
  BY <1>7, <1>8 DEF link!Next

\* Reading a frame is its arrival, or the loss of what the filter, the flush
\* or a wait for an acknowledgement drops.
LEMMA ReadImplementsLink ==
  ASSUME OInv, Read \/ ReadAsAck
  PROVE  Ordered' /\ [link!Next]_link!linkVars
<1> DEFINE f == Head(fifo)
<1>1. /\ fifo \in Seq(Frame) /\ fifo # <<>>
      /\ f \in Frame
      /\ fifo' \in {Tail(fifo), <<>>}
      /\ UNCHANGED <<queue, next>>
      /\ queue[Receiver] \in Seq(Frame)
  BY ReadType, CsmaAssumption DEF OInv, NInv, Typed, sender
<1>2. /\ f = fifo[1] /\ 1 \in DOMAIN fifo
      /\ DOMAIN fifo = 1 .. Len(fifo) /\ Len(fifo) \in Nat
  BY <1>1, TailIds
<1>3. /\ \A i \in DOMAIN fifo' : i \in Nat /\ i + 1 \in DOMAIN fifo /\ fifo'[i] = fifo[i + 1]
      /\ Ids(fifo)' \subseteq Ids(fifo)
  <2>1. CASE fifo' = Tail(fifo)
    BY <1>1, <2>1, TailIds
  <2>2. CASE fifo' = <<>>
    BY <2>2 DEF Ids
  <2> QED
    BY <1>1, <2>1, <2>2
<1>4. /\ \A i \in DOMAIN fifo' :
           /\ fifo'[i].to \in {Receiver, Broadcast}
           /\ fifo'[i].id # 0 <=> fifo'[i].to = Receiver
      /\ \A i, j \in DOMAIN fifo' :
           i < j /\ fifo'[i].id # 0 /\ fifo'[j].id # 0 => fifo'[i].id <= fifo'[j].id
  <2>1. \A i \in DOMAIN fifo' :
          /\ fifo'[i].to \in {Receiver, Broadcast}
          /\ fifo'[i].id # 0 <=> fifo'[i].to = Receiver
    BY <1>3 DEF OInv, Ordered
  <2>2. ASSUME NEW i \in DOMAIN fifo', NEW j \in DOMAIN fifo',
               i < j, fifo'[i].id # 0, fifo'[j].id # 0
        PROVE  fifo'[i].id <= fifo'[j].id
    <3>1. i + 1 < j + 1
      BY <1>3, <2>2
    <3> QED
      BY <1>3, <2>2, <3>1 DEF OInv, Ordered
  <2> QED
    BY <2>1, <2>2
<1>5. OnWay' \subseteq OnWay /\ Ids(queue[Receiver])' = Ids(queue[Receiver])
  BY <1>1, <1>3 DEF OnWay, Ids
<1>6. CASE UNCHANGED <<got, repeated>>
  <2>1. Ordered'
    BY <1>1, <1>3, <1>4, <1>5, <1>6 DEF OInv, Ordered
  <2>2. link!Lose(OnWay \ OnWay')
    BY <1>1, <1>5, <1>6 DEF link!Lose
  <2> QED
    BY <2>1, <2>2 DEF link!Next
<1>7. CASE f.to = Receiver /\ Take(f)
  <2>1. got' = f.id /\ repeated' = (repeated \/ f.id = got)
    BY <1>7 DEF Take
  <2>2. f.id # 0 /\ f.id \in Ids(fifo) /\ f.id \in OnWay
    BY <1>2, <1>7 DEF OInv, Ordered, Ids, OnWay
  <2>3. \A n \in OnWay : f.id <= n
    <3>1. ASSUME NEW i \in DOMAIN fifo, fifo[i].id # 0
          PROVE  f.id <= fifo[i].id
      <4>1. f.id \in Nat
        BY <1>1 DEF Frame
      <4>2. i = 1 \/ 1 < i
        BY <1>2
      <4> QED
        BY <1>2, <2>2, <3>1, <4>1, <4>2 DEF OInv, Ordered
    <3>2. \A n \in Ids(fifo) : f.id <= n
      BY <3>1 DEF Ids
    <3> QED
      BY <2>2, <3>2 DEF OInv, Ordered, OnWay
  <2>4. link!Get(f.id)
    BY <1>1, <1>5, <2>1, <2>2, <2>3 DEF link!Get
  <2>5. (\A n \in OnWay' : got' <= n /\ n < next') /\ got' < next'
    BY <1>1, <1>5, <2>1, <2>2, <2>3 DEF OInv, Ordered
  <2>6. Ordered'
    BY <1>1, <1>3, <1>4, <1>5, <2>5 DEF OInv, Ordered
  <2> QED
    BY <2>2, <2>4, <2>6 DEF link!Next
<1>8. CASE f.to # Receiver /\ Take(f)
  <2>1. got' = got /\ repeated' = repeated
    BY <1>8 DEF Take, OInv, NInv, Typed
  <2>2. Ordered'
    BY <1>1, <1>3, <1>4, <1>5, <2>1 DEF OInv, Ordered
  <2>3. link!Lose(OnWay \ OnWay')
    BY <1>1, <1>5, <2>1 DEF link!Lose
  <2> QED
    BY <2>2, <2>3 DEF link!Next
<1> QED
  BY <1>6, <1>7, <1>8 DEF Read, ReadAsAck, receiver

LEMMA LinkInit == Init => OInv /\ link!Init
<1> SUFFICES ASSUME Init PROVE Ordered /\ link!Init
  BY NeighborsInit DEF OInv
<1>1. queue[Receiver] = <<>> /\ fifo = <<>> /\ next = 1 /\ got = 0 /\ repeated = FALSE
  BY CsmaAssumption DEF Init
<1>2. Ids(queue[Receiver]) = {} /\ Ids(fifo) = {} /\ OnWay = {}
  BY <1>1 DEF Ids, OnWay
<1>3. \A a \in Addresses : DOMAIN queue[a] = {}
  BY DEF Init
<1> QED
  BY <1>1, <1>2, <1>3 DEF Ordered, link!Init

LEMMA LinkStep == OInv /\ [Next]_vars => OInv' /\ [link!Next]_link!linkVars
<1> SUFFICES ASSUME OInv, [Next]_vars PROVE Ordered' /\ [link!Next]_link!linkVars
  BY NeighborsStep DEF OInv
<1>1. ASSUME NEW a \in Addresses, Output(a) PROVE Ordered' /\ [link!Next]_link!linkVars
  BY <1>1, OutputImplementsLink
<1>2. ASSUME NEW a \in Addresses, Transmit(a) PROVE Ordered' /\ [link!Next]_link!linkVars
  BY <1>2, TransmitImplementsLink
<1>3. CASE Read \/ ReadAsAck
  BY <1>3, ReadImplementsLink
<1>4. CASE UNCHANGED vars
  <2>1. UNCHANGED <<queue, fifo, next, got, repeated>>
    BY <1>4 DEF vars, sender, receiver
  <2> QED
    BY <2>1 DEF OInv, Ordered, OnWay, Ids, link!linkVars
<1> QED
  BY <1>1, <1>2, <1>3, <1>4 DEF Next

\* To the next hop the link layer is a Link: retransmissions, frames given up
\* or flushed, a full queue and the reuse of sequence numbers lose and repeat
\* packets, but never let an older one arrive after a newer one.
THEOREM CsmaImplementsLink == Spec => ImplementsLink
<1> QED
  BY LinkInit, LinkStep, PTL DEF Spec, ImplementsLink, link!Spec

\* The order, said of the link layer itself: what the next hop takes of a
\* sender's packets has numbers that never go back.
THEOREM PacketsInOrder == Spec => [][got' >= got]_vars
<1>1. OInv /\ [Next]_vars => [got' >= got]_vars
  <2> SUFFICES ASSUME OInv, [Next]_vars PROVE got' >= got
    BY DEF vars
  <2>1. [link!Next]_link!linkVars
    BY LinkStep
  <2>2. (\A n \in OnWay : got <= n) /\ got \in Nat
    BY DEF OInv, NInv, Typed, Ordered
  <2> QED
    BY <2>1, <2>2 DEF link!Next, link!Put, link!Get, link!Lose, link!linkVars
<1> QED
  BY <1>1, LinkInit, LinkStep, PTL DEF Spec

(***************************************************************************)
(* Packets that arrive again.                                              *)
(***************************************************************************)

FramesOf(s) == { s[i] : i \in DOMAIN s }

\* The frames that carry packets for the next hop.
InFlight == { f \in FramesOf(queue[Receiver]) \cup FramesOf(fifo) : f.id # 0 }

\* All frames of a packet have its sequence number; unless a broadcast came
\* between, it is the one that the receiver remembers of the last packet.
Numbered ==
  /\ \A f, g \in InFlight : f.id = g.id => f.seqno = g.seqno
  /\ ~ mixed /\ got # 0 => \A f \in InFlight : f.id = got => f.seqno = seqno

RInv == OInv /\ Numbered

LEMMA FramesOfAppend ==
  ASSUME NEW s \in Seq(Frame), NEW f \in Frame
  PROVE  FramesOf(Append(s, f)) = FramesOf(s) \cup {f}
BY AppendIds, DOMAIN Append(s, f) = DOMAIN s \cup {Len(s) + 1} DEF FramesOf

LEMMA FramesOfTail ==
  ASSUME NEW s \in Seq(Frame), s # <<>>
  PROVE  FramesOf(Tail(s)) \subseteq FramesOf(s) /\ Head(s) \in FramesOf(s)
BY TailIds DEF FramesOf

\* A packet is numbered once, when it is queued.
LEMMA InFlightStep ==
  ASSUME OInv, Next
  PROVE  \/ InFlight' \subseteq InFlight
         \/ /\ InFlight' = InFlight \cup {NewFrame(Receiver)}
            /\ UNCHANGED receiver
<1>1. /\ queue \in [Addresses -> Seq(Frame)] /\ fifo \in Seq(Frame)
      /\ Receiver \in Addresses
  BY CsmaAssumption DEF OInv, NInv, Typed
<1>2. ASSUME NEW a \in Addresses, Output(a), Enqueue(a)
      PROVE  \/ InFlight' \subseteq InFlight
             \/ InFlight' = InFlight \cup {NewFrame(Receiver)} /\ UNCHANGED receiver
  <2>1. queue' = [queue EXCEPT ![a] = Append(@, NewFrame(a))]
    BY <1>2 DEF Enqueue, ListAdd
  <2>2. UNCHANGED <<fifo, receiver>>
    BY <1>2 DEF Output
  <2>3. CASE a = Receiver
    <3>1. NewFrame(a) \in Frame /\ NewFrame(a).id # 0
      BY <2>3, NewFrameType DEF OInv, NInv, Typed, NewFrame
    <3>2. queue'[Receiver] = Append(queue[Receiver], NewFrame(a))
      BY <1>1, <2>1, <2>3
    <3>3. FramesOf(queue[Receiver])' = FramesOf(queue[Receiver]) \cup {NewFrame(a)}
      <4>1. FramesOf(queue'[Receiver]) = FramesOf(queue[Receiver]) \cup {NewFrame(a)}
        BY <1>1, <3>1, <3>2, FramesOfAppend
      <4> QED
        BY <4>1 DEF FramesOf
    <3>4. FramesOf(fifo)' = FramesOf(fifo)
      BY <2>2 DEF FramesOf
    <3> QED
      BY <2>2, <2>3, <3>1, <3>3, <3>4 DEF InFlight
  <2>4. CASE a # Receiver
    <3>1. queue'[Receiver] = queue[Receiver]
      BY <1>1, <2>1, <2>4
    <3> QED
      BY <2>2, <3>1 DEF InFlight, FramesOf
  <2> QED
    BY <2>3, <2>4
<1>3. ASSUME NEW a \in Addresses, Output(a), Refuse(a)
      PROVE  InFlight' \subseteq InFlight
  BY <1>3 DEF Output, Refuse, InFlight, FramesOf
<1>4. ASSUME NEW a \in Addresses, Transmit(a)
      PROVE  InFlight' \subseteq InFlight
  <2>1. queue[a] \in Seq(Frame) /\ queue[a] # <<>>
    BY <1>1, <1>4 DEF OInv, NInv, NeighborsInUse, Transmit
  <2>2. /\ Head(queue[a]) \in Frame
        /\ Head(queue[a]) \in FramesOf(queue[a])
        /\ Head(queue[a]).id # 0 => a = Receiver
    BY <2>1, TailIds, FramesOfTail DEF OInv, Ordered
  <2>3. FramesOf(queue[Receiver])' \subseteq FramesOf(queue[Receiver])
    <3>1. CASE UNCHANGED queue
      BY <3>1 DEF FramesOf
    <3>2. CASE FreePacket(a)
      <4>1. CASE a = Receiver
        <5>1. queue'[Receiver] = Tail(queue[Receiver])
          BY <1>1, <3>2, <4>1 DEF FreePacket
        <5>2. FramesOf(queue'[Receiver]) \subseteq FramesOf(queue[Receiver])
          BY <2>1, <4>1, <5>1, FramesOfTail
        <5> QED
          BY <5>2 DEF FramesOf
      <4>2. CASE a # Receiver
        <5>1. queue'[Receiver] = queue[Receiver]
          BY <1>1, <3>2, <4>2 DEF FreePacket
        <5> QED
          BY <5>1 DEF FramesOf
      <4> QED
        BY <4>1, <4>2
    <3> QED
      BY <1>4, <3>1, <3>2, TransmitFrees
  <2>4. FramesOf(fifo)' \subseteq FramesOf(fifo) \cup {Head(queue[a])}
    <3>1. CASE UNCHANGED fifo
      BY <3>1 DEF FramesOf
    <3>2. CASE fifo' = Append(fifo, Head(queue[a]))
      <4>1. FramesOf(fifo') = FramesOf(fifo) \cup {Head(queue[a])}
        BY <1>1, <2>2, <3>2, FramesOfAppend
      <4> QED
        BY <4>1 DEF FramesOf
    <3> QED
      BY <1>4, <3>1, <3>2, TransmitHeard
  <2> QED
    BY <2>2, <2>3, <2>4 DEF InFlight
<1>5. CASE Read \/ ReadAsAck
  <2>1. fifo # <<>> /\ fifo' \in {Tail(fifo), <<>>} /\ UNCHANGED queue
    BY <1>5, ReadType DEF OInv, NInv, sender
  <2>2. FramesOf(Tail(fifo)) \subseteq FramesOf(fifo)
    BY <1>1, <2>1, FramesOfTail
  <2>3. FramesOf(fifo') \subseteq FramesOf(fifo)
    <3>1. FramesOf(<<>>) = {}
      BY DEF FramesOf
    <3> QED
      BY <2>1, <2>2, <3>1
  <2>4. FramesOf(fifo)' \subseteq FramesOf(fifo) /\ FramesOf(queue[Receiver])' = FramesOf(queue[Receiver])
    BY <2>1, <2>3 DEF FramesOf
  <2> QED
    BY <2>4 DEF InFlight
<1> QED
  BY <1>2, <1>3, <1>4, <1>5 DEF Next, Output

\* The frame that is read is one in flight, if it carries a packet.
LEMMA TakenInFlight ==
  ASSUME OInv, Read, Head(fifo).to = Receiver
  PROVE  Head(fifo) \in InFlight
<1>1. fifo \in Seq(Frame) /\ fifo # <<>>
  BY DEF OInv, NInv, Typed, Read
<1>2. Head(fifo) \in FramesOf(fifo) /\ Head(fifo) = fifo[1] /\ 1 \in DOMAIN fifo
  BY <1>1, TailIds, FramesOfTail
<1> QED
  BY <1>2 DEF OInv, Ordered, InFlight

LEMMA NumberedStep == RInv /\ [Next]_vars => RInv' /\ (repeated' => repeated \/ mixed)
<1> SUFFICES ASSUME RInv, [Next]_vars PROVE Numbered' /\ (repeated' => repeated \/ mixed)
  BY LinkStep DEF RInv
<1>1. CASE UNCHANGED vars
  BY <1>1 DEF RInv, Numbered, InFlight, FramesOf, vars, sender, receiver
<1>2. CASE Next
  <2>1. CASE InFlight' = InFlight \cup {NewFrame(Receiver)} /\ UNCHANGED receiver
    <3>1. NewFrame(Receiver).id = next
      BY DEF NewFrame
    <3>2. \A f \in InFlight : f.id < next
      BY DEF RInv, OInv, Ordered, OnWay, Ids, InFlight, FramesOf
    <3>3. got < next /\ next \in Nat /\ got \in Nat
      BY DEF RInv, OInv, NInv, Typed, Ordered
    <3>4. UNCHANGED <<seqno, got, repeated, mixed>>
      BY <2>1 DEF receiver
    <3>5. (\A f \in InFlight : f.id # next) /\ got # next
      BY <3>2, <3>3
    <3> QED
      BY <2>1, <3>1, <3>4, <3>5 DEF RInv, Numbered
  <2>2. CASE InFlight' \subseteq InFlight
    <3>1. CASE UNCHANGED receiver
      BY <2>2, <3>1 DEF RInv, Numbered, receiver
    <3>2. CASE Read /\ Head(fifo).seqno # seqno /\ Take(Head(fifo))
      <4>1. CASE Head(fifo).to = Receiver
        <5>1. Head(fifo) \in InFlight
          BY <3>2, <4>1, TakenInFlight DEF RInv
        <5>2. /\ seqno' = Head(fifo).seqno /\ got' = Head(fifo).id
              /\ repeated' = (repeated \/ Head(fifo).id = got)
          BY <3>2, <4>1 DEF Take
        <5>3. Head(fifo).id = got => mixed
          BY <3>2, <5>1 DEF RInv, Numbered, InFlight
        <5> QED
          BY <2>2, <5>1, <5>2, <5>3 DEF RInv, Numbered
      <4>2. CASE Head(fifo).to # Receiver
        <5>1. Head(fifo).to = Broadcast
          <6>1. fifo \in Seq(Frame) /\ fifo # <<>>
            BY <3>2 DEF RInv, OInv, NInv, Typed, Read
          <6> QED
            BY <4>2, <6>1, TailIds DEF RInv, OInv, Ordered
        <5>2. mixed' = TRUE /\ repeated' = (repeated \/ FALSE)
          BY <3>2, <4>2, <5>1, Zenon DEF Take
        <5> QED
          BY <2>2, <5>2 DEF RInv, Numbered
      <4> QED
        BY <4>1, <4>2
    <3> QED
      BY <1>2, <3>1, <3>2 DEF Next, Output, Transmit, Read, ReadAsAck
  <2> QED
    BY <1>2, <2>1, <2>2, InFlightStep DEF RInv
<1> QED
  BY <1>1, <1>2

LEMMA NumberedInit == Init => RInv
<1> SUFFICES ASSUME Init PROVE Numbered
  BY LinkInit DEF RInv
<1>1. queue[Receiver] = <<>> /\ fifo = <<>>
  BY CsmaAssumption DEF Init
<1>2. InFlight = {}
  BY <1>1 DEF InFlight, FramesOf
<1> QED
  BY <1>2 DEF Numbered

\* The filter of the code, which remembers one sequence number per sender,
\* stops every repeated packet but those that come right after a broadcast.
THEOREM RepeatsNeedBroadcastHolds == Spec => RepeatsNeedBroadcast
<1>1. RInv /\ [Next]_vars => [repeated' => repeated \/ mixed]_vars
  BY NumberedStep
<1> QED
  BY <1>1, NumberedInit, NumberedStep, PTL DEF Spec, RepeatsNeedBroadcast

(***************************************************************************)
(* The pools of packets, and the types of the whole state.                 *)
(***************************************************************************)

\* The variables that the proofs above do not speak of.
Counters ==
  /\ transmissions \in [Addresses -> 0 .. MaxTransmissions - 1]
  /\ collisions \in [Addresses -> 0 .. MaxBackoff]
  /\ seqno \in 0 .. DsnMod
  /\ mixed \in BOOLEAN
  /\ Len(fifo) <= FifoSize
  /\ free \in Nat

PInv ==
  /\ NInv
  /\ Counters
  /\ IsFiniteSet(Held)
  /\ BuffersInUse

\* What it is to be a place that holds a packet.
LEMMA HeldPlaces ==
  /\ \A x : x \in Held <=> \E b \in Addresses : \E i \in DOMAIN queue[b] : x = <<b, i>>
  /\ \A x : x \in Held' <=> \E b \in Addresses : \E i \in DOMAIN queue'[b] : x = <<b, i>>
BY DEF Held

\* A packet put at the end of a queue takes one place more.
LEMMA HeldByAppend ==
  ASSUME Typed, NEW a \in Addresses, NEW f \in Frame,
         queue' = [queue EXCEPT ![a] = Append(@, f)]
  PROVE  \E x : x \notin Held /\ Held' = Held \cup {x}
<1>1. queue[a] \in Seq(Frame)
  BY DEF Typed
<1>2. PICK n \in Nat : n = Len(queue[a])
  BY <1>1
<1>3. DOMAIN queue[a] = 1 .. n /\ DOMAIN queue'[a] = 1 .. n + 1
  <2>1. queue'[a] = Append(queue[a], f)
    BY DEF Typed
  <2> QED
    BY <1>1, <1>2, <2>1, AppendIds
<1>4. \A b \in Addresses \ {a} : queue'[b] = queue[b]
  BY DEF Typed
<1>5. <<a, n + 1>> \notin Held
  <2> SUFFICES ASSUME NEW b \in Addresses, NEW i \in DOMAIN queue[b], <<a, n + 1>> = <<b, i>>
               PROVE  FALSE
    BY HeldPlaces
  <2>1. b = a /\ i = n + 1
    OBVIOUS
  <2> QED
    BY <1>2, <1>3, <2>1
<1>6. ASSUME NEW x PROVE x \in Held' <=> x \in Held \/ x = <<a, n + 1>>
  <2>1. CASE x \in Held
    <3>1. PICK b \in Addresses : \E i \in DOMAIN queue[b] : x = <<b, i>>
      BY <2>1, HeldPlaces
    <3>2. PICK i \in DOMAIN queue[b] : x = <<b, i>>
      BY <3>1
    <3>3. i \in DOMAIN queue'[b]
      BY <1>2, <1>3, <1>4
    <3> QED
      BY <2>1, <3>2, <3>3, HeldPlaces
  <2>2. CASE x = <<a, n + 1>>
    <3>1. n + 1 \in DOMAIN queue'[a]
      BY <1>2, <1>3
    <3> QED
      BY <2>2, <3>1, HeldPlaces
  <2>3. ASSUME x \in Held' PROVE x \in Held \/ x = <<a, n + 1>>
    <3>1. PICK b \in Addresses : \E i \in DOMAIN queue'[b] : x = <<b, i>>
      BY <2>3, HeldPlaces
    <3>2. PICK i \in DOMAIN queue'[b] : x = <<b, i>>
      BY <3>1
    <3>3. i \in DOMAIN queue[b] \/ (b = a /\ i = n + 1)
      BY <1>2, <1>3, <1>4
    <3> QED
      BY <3>2, <3>3, HeldPlaces
  <2> QED
    BY <2>1, <2>2, <2>3
<1> QED
  <2>1. Held' = Held \cup {<<a, n + 1>>}
    BY <1>6
  <2> QED
    BY <1>5, <2>1

\* Taking the first packet off a queue gives up its last place.
LEMMA HeldByTail ==
  ASSUME Typed, NEW a \in Addresses, queue[a] # <<>>,
         queue' = [queue EXCEPT ![a] = Tail(@)]
  PROVE  \E x \in Held : Held' = Held \ {x}
<1>1. queue[a] \in Seq(Frame)
  BY DEF Typed
<1>2. PICK n \in Nat \ {0} : n = Len(queue[a])
  BY <1>1
<1>3. DOMAIN queue[a] = 1 .. n /\ DOMAIN queue'[a] = 1 .. n - 1
  <2>1. queue'[a] = Tail(queue[a])
    BY DEF Typed
  <2>2. Tail(queue[a]) \in Seq(Frame)
    BY <1>1, TailIds
  <2>3. Len(Tail(queue[a])) = n - 1
    BY <1>1, <1>2
  <2>4. DOMAIN Tail(queue[a]) = 1 .. Len(Tail(queue[a]))
    BY <2>2
  <2>5. DOMAIN queue'[a] = 1 .. n - 1
    BY <2>1, <2>3, <2>4, Zenon
  <2>6. DOMAIN queue[a] = 1 .. n
    BY <1>1, <1>2
  <2> QED
    BY <2>5, <2>6
<1>4. \A b \in Addresses \ {a} : queue'[b] = queue[b]
  BY DEF Typed
<1>5. <<a, n>> \in Held
  <2>1. n \in DOMAIN queue[a]
    BY <1>2, <1>3
  <2> QED
    BY <2>1, HeldPlaces
<1>6. ASSUME NEW x PROVE x \in Held' <=> x \in Held /\ x # <<a, n>>
  <2>1. ASSUME x \in Held, x # <<a, n>> PROVE x \in Held'
    <3>1. PICK b \in Addresses : \E i \in DOMAIN queue[b] : x = <<b, i>>
      BY <2>1, HeldPlaces
    <3>2. PICK i \in DOMAIN queue[b] : x = <<b, i>>
      BY <3>1
    <3>3. b # a \/ i # n
      BY <2>1, <3>2
    <3>4. i \in DOMAIN queue'[b]
      BY <1>2, <1>3, <1>4, <3>3
    <3> QED
      BY <3>2, <3>4, HeldPlaces
  <2>2. ASSUME x \in Held' PROVE x \in Held /\ x # <<a, n>>
    <3>1. PICK b \in Addresses : \E i \in DOMAIN queue'[b] : x = <<b, i>>
      BY <2>2, HeldPlaces
    <3>2. PICK i \in DOMAIN queue'[b] : x = <<b, i>>
      BY <3>1
    <3>3. i \in DOMAIN queue[b] /\ (b # a \/ i # n)
      BY <1>2, <1>3, <1>4
    <3> QED
      BY <3>2, <3>3, HeldPlaces
  <2> QED
    BY <2>1, <2>2
<1> QED
  <2>1. Held' = Held \ {<<a, n>>}
    BY <1>6
  <2> QED
    BY <1>5, <2>1

\* Where the queues stay as they are, so do their places.
LEMMA HeldByNone ==
  ASSUME UNCHANGED queue
  PROVE  Held' = Held
BY DEF Held

\* A frame may be sent once at least, on a channel found busy not yet.
LEMMA NoneYet == 0 \in 0 .. MaxTransmissions - 1 /\ 0 \in 0 .. MaxBackoff
BY CsmaAssumption

\* csma_output_packet takes an entry of the pool for the packet, or nothing.
LEMMA OutputKeepsPools ==
  ASSUME PInv, NEW a \in Addresses, Output(a)
  PROVE  PInv'
<1>1. NInv'
  BY OutputKeepsNeighbors DEF PInv
<1>2. UNCHANGED <<fifo, seqno, mixed>>
  BY DEF Output, receiver
<1>3. CASE Enqueue(a)
  <2>1. queue' = [queue EXCEPT ![a] = Append(@, NewFrame(a))] /\ free' = free - 1 /\ free > 0
    BY <1>3 DEF Enqueue, ListAdd, CanQueue
  <2>2. PICK x : x \notin Held /\ Held' = Held \cup {x}
    BY <2>1, NewFrameType, HeldByAppend DEF PInv, NInv
  <2>3. /\ IsFiniteSet(Held')
        /\ Cardinality(Held) \in Nat
        /\ Cardinality(Held') = Cardinality(Held) + 1
    <3>1. IsFiniteSet(Held)
      BY DEF PInv
    <3>2. /\ IsFiniteSet(Held \cup {x})
          /\ Cardinality(Held) \in Nat
          /\ Cardinality(Held \cup {x}) = Cardinality(Held) + 1
      BY <2>2, <3>1, FS_AddElement, FS_CardinalityType
    <3> QED
      BY <2>2, <3>2, Zenon
  <2>4. Counters'
    <3>1. /\ transmissions' = transmissions \/ transmissions' = [transmissions EXCEPT ![a] = 0]
          /\ collisions' = collisions \/ collisions' = [collisions EXCEPT ![a] = 0]
      BY <1>3 DEF Enqueue
    <3>2. /\ transmissions' \in [Addresses -> 0 .. MaxTransmissions - 1]
          /\ collisions' \in [Addresses -> 0 .. MaxBackoff]
      BY <3>1, NoneYet DEF PInv, Counters
    <3>3. free' \in Nat
      BY <2>1 DEF PInv, Counters
    <3> QED
      BY <1>2, <3>2, <3>3 DEF PInv, Counters
  <2>5. BuffersInUse'
    <3>1. free + Cardinality(Held) = MaxPackets /\ free \in Nat
      BY DEF PInv, BuffersInUse, Counters
    <3>2. free' + Cardinality(Held') = MaxPackets
      BY <2>1, <2>3, <3>1
    <3> QED
      BY <3>2 DEF BuffersInUse
  <2> QED
    BY <1>1, <2>3, <2>4, <2>5 DEF PInv
<1>4. CASE Refuse(a)
  <2>1. UNCHANGED <<queue, transmissions, collisions, free>>
    BY <1>4 DEF Refuse
  <2> QED
    BY <1>1, <1>2, <2>1, HeldByNone DEF PInv, Counters, BuffersInUse
<1> QED
  BY <1>3, <1>4 DEF Output

\* A frame that goes on has not been sent often enough to be given up.
LEMMA RetryCounts ==
  ASSUME Counters, NEW a \in Addresses, NEW t \in Nat, NEW c \in 0 .. MaxBackoff, Retry(a, t, c)
  PROVE  /\ transmissions' \in [Addresses -> 0 .. MaxTransmissions - 1]
         /\ collisions' \in [Addresses -> 0 .. MaxBackoff]
<1>1. CASE t >= MaxTransmissions
  <2>1. /\ transmissions' = [transmissions EXCEPT ![a] = 0]
        /\ collisions' = [collisions EXCEPT ![a] = 0]
    BY <1>1 DEF Retry, FreePacket
  <2> QED
    BY <2>1, NoneYet DEF Counters
<1>2. CASE ~ (t >= MaxTransmissions)
  <2>1. /\ transmissions' = [transmissions EXCEPT ![a] = t]
        /\ collisions' = [collisions EXCEPT ![a] = c]
    BY <1>2 DEF Retry
  <2>2. t \in 0 .. MaxTransmissions - 1
    BY <1>2, CsmaAssumption
  <2> QED
    BY <2>1, <2>2 DEF Counters
<1> QED
  BY <1>1, <1>2

LEMMA TransmitCounts ==
  ASSUME Counters, NEW a \in Addresses, Transmit(a)
  PROVE  /\ transmissions' \in [Addresses -> 0 .. MaxTransmissions - 1]
         /\ collisions' \in [Addresses -> 0 .. MaxBackoff]
<1>1. /\ transmissions[a] \in Nat /\ transmissions[a] + 1 \in Nat
      /\ collisions[a] \in 0 .. MaxBackoff /\ 0 \in 0 .. MaxBackoff
  BY CsmaAssumption DEF Counters
<1>2. CASE FreePacket(a)
  BY <1>2, CsmaAssumption DEF Counters, FreePacket
<1>3. CASE NoAck(a)
  BY <1>1, <1>3, RetryCounts DEF NoAck
<1>4. CASE Collision(a)
  <2>1. CASE collisions[a] + 1 > MaxBackoff
    BY <1>1, <1>4, <2>1, RetryCounts DEF Collision
  <2>2. CASE ~ (collisions[a] + 1 > MaxBackoff)
    <3>1. collisions[a] + 1 \in 0 .. MaxBackoff
      BY <1>1, <2>2, CsmaAssumption
    <3> QED
      BY <1>1, <1>4, <2>2, <3>1, RetryCounts DEF Collision
  <2> QED
    BY <2>1, <2>2
<1> QED
  BY <1>2, <1>3, <1>4 DEF Transmit, ChannelBusy, TransmitFails, FrameSent

\* The radio does not take more frames than fit into it.
LEMMA TransmitFits ==
  ASSUME Typed, Counters, NEW a \in Addresses, Transmit(a)
  PROVE  Len(fifo') <= FifoSize
<1>1. CASE UNCHANGED fifo
  BY <1>1 DEF Counters
<1>2. CASE Len(fifo) < FifoSize /\ \E f : fifo' = Append(fifo, f)
  <2>1. fifo \in Seq(Frame)
    BY DEF Typed
  <2>2. PICK n \in Nat : n = Len(fifo)
    BY <2>1
  <2>3. PICK f : fifo' = Append(fifo, f)
    BY <1>2
  <2>4. Len(fifo') = n + 1
    BY <2>1, <2>2, <2>3
  <2> QED
    BY <1>2, <2>2, <2>4, CsmaAssumption
<1> QED
  BY <1>1, <1>2 DEF Transmit, ChannelBusy, TransmitFails, FrameSent, Heard, NotHeard

\* A frame that leaves its queue gives its entry back, one that does not
\* keeps it.
LEMMA TransmitKeepsPools ==
  ASSUME PInv, NEW a \in Addresses, Transmit(a)
  PROVE  PInv'
<1>1. NInv'
  BY TransmitKeepsNeighbors DEF PInv
<1>2. UNCHANGED <<seqno, mixed>> /\ Len(fifo') <= FifoSize
  BY TransmitFits DEF PInv, NInv, Transmit, receiver
<1>3. /\ transmissions' \in [Addresses -> 0 .. MaxTransmissions - 1]
      /\ collisions' \in [Addresses -> 0 .. MaxBackoff]
  BY TransmitCounts DEF PInv
<1>4. free + Cardinality(Held) = MaxPackets /\ free \in Nat /\ IsFiniteSet(Held)
  BY DEF PInv, BuffersInUse, Counters
<1>5. CASE FreePacket(a)
  <2>1. queue' = [queue EXCEPT ![a] = Tail(@)] /\ free' = free + 1
    BY <1>5 DEF FreePacket
  <2>2. queue[a] # <<>>
    BY DEF PInv, NInv, NeighborsInUse, Transmit
  <2>3. PICK x \in Held : Held' = Held \ {x}
    BY <2>1, <2>2, HeldByTail DEF PInv, NInv
  <2>4. /\ IsFiniteSet(Held')
        /\ Cardinality(Held) \in Nat
        /\ Cardinality(Held') = Cardinality(Held) - 1
    <3>1. /\ IsFiniteSet(Held \ {x})
          /\ Cardinality(Held) \in Nat
          /\ Cardinality(Held \ {x}) = Cardinality(Held) - 1
      BY <1>4, <2>3, FS_RemoveElement, FS_CardinalityType
    <3> QED
      BY <2>3, <3>1, Zenon
  <2>5. BuffersInUse'
    <3>1. free' + Cardinality(Held') = MaxPackets
      BY <1>4, <2>1, <2>4
    <3> QED
      BY <3>1 DEF BuffersInUse
  <2>6. Counters'
    BY <1>2, <1>3, <1>4, <2>1 DEF PInv, Counters
  <2> QED
    BY <1>1, <2>4, <2>5, <2>6 DEF PInv
<1>6. CASE UNCHANGED <<neighbors, queue, timer, free>>
  <2>1. Held' = Held
    BY <1>6, HeldByNone
  <2>2. Counters'
    BY <1>2, <1>3, <1>6 DEF PInv, Counters
  <2> QED
    BY <1>1, <1>6, <2>1, <2>2 DEF PInv, BuffersInUse
<1> QED
  BY <1>5, <1>6, TransmitFrees

\* A read leaves the sender alone.
LEMMA ReadKeepsPools ==
  ASSUME PInv, Read \/ ReadAsAck
  PROVE  PInv'
<1>1. NInv'
  BY NeighborsStep DEF PInv, Next
<1>2. /\ fifo \in Seq(Frame) /\ fifo # <<>> /\ Head(fifo) \in Frame
      /\ fifo' \in {Tail(fifo), <<>>}
      /\ UNCHANGED <<queue, transmissions, collisions, free>>
  BY ReadType DEF PInv, NInv, sender
<1>3. Len(fifo') <= FifoSize
  <2>1. PICK n \in Nat : n = Len(fifo)
    BY <1>2
  <2>2. Len(Tail(fifo)) = n - 1 /\ Len(<<>>) = 0
    BY <1>2, <2>1
  <2> QED
    BY <1>2, <2>1, <2>2, CsmaAssumption DEF PInv, Counters
<1>4. seqno' \in 0 .. DsnMod
  <2>1. Head(fifo).seqno \in 0 .. DsnMod
    BY <1>2, CsmaAssumption DEF Frame
  <2> QED
    BY <2>1 DEF PInv, Counters, Read, ReadAsAck, Take, receiver
<1>5. mixed' \in BOOLEAN
  BY Zenon DEF PInv, Counters, Read, ReadAsAck, Take, receiver
<1> QED
  BY <1>1, <1>2, <1>3, <1>4, <1>5, HeldByNone DEF PInv, Counters, BuffersInUse

LEMMA PoolsStep == PInv /\ [Next]_vars => PInv'
<1> SUFFICES ASSUME PInv, [Next]_vars PROVE PInv'
  OBVIOUS
<1>1. ASSUME NEW a \in Addresses, Output(a) PROVE PInv'
  BY <1>1, OutputKeepsPools
<1>2. ASSUME NEW a \in Addresses, Transmit(a) PROVE PInv'
  BY <1>2, TransmitKeepsPools
<1>3. CASE Read \/ ReadAsAck
  BY <1>3, ReadKeepsPools
<1>4. CASE UNCHANGED vars
  <2>1. NInv'
    BY NeighborsStep DEF PInv
  <2>2. UNCHANGED <<queue, transmissions, collisions, free, fifo, seqno, mixed>>
    BY <1>4 DEF vars, sender, receiver
  <2> QED
    BY <2>1, <2>2, HeldByNone DEF PInv, Counters, BuffersInUse
<1> QED
  BY <1>1, <1>2, <1>3, <1>4 DEF Next

LEMMA PoolsInit == Init => PInv
<1> SUFFICES ASSUME Init PROVE PInv
  OBVIOUS
<1>1. Counters
  <2>1. mixed \in BOOLEAN
    BY Zenon DEF Init
  <2> QED
    BY <2>1, CsmaAssumption DEF Init, Counters, NoSeqno
<1>2. Held = {}
  BY DEF Init, Held
<1>3. IsFiniteSet(Held) /\ Cardinality(Held) = 0
  BY <1>2, FS_EmptySet
<1>4. BuffersInUse
  BY <1>3, CsmaAssumption DEF Init, BuffersInUse
<1> QED
  BY <1>1, <1>3, <1>4, NeighborsInit DEF PInv

\* Every entry of the pools that is not free holds a packet of some queue:
\* csma_output_packet, packet_sent and free_packet between them leak none.
THEOREM BuffersInUseHolds == Spec => []BuffersInUse
<1>1. PInv => BuffersInUse
  BY DEF PInv
<1> QED
  BY <1>1, PoolsInit, PoolsStep, PTL DEF Spec

\* The state of sender and receiver keeps its types: the pools do not
\* underflow, no frame is sent or backed off more often than it may be, the
\* radio's memory does not overflow.
THEOREM TypeOKHolds == Spec => []TypeOK
<1>1. PInv => TypeOK
  <2> SUFFICES ASSUME PInv PROVE TypeOK
    OBVIOUS
  <2>1. free \in 0 .. MaxPackets
    <3>1. free \in Nat /\ free + Cardinality(Held) = MaxPackets /\ Cardinality(Held) \in Nat
      BY FS_CardinalityType DEF PInv, Counters, BuffersInUse
    <3> QED
      BY <3>1, CsmaAssumption
  <2> QED
    BY <2>1 DEF PInv, NInv, Typed, Counters, TypeOK
<1> QED
  BY <1>1, PoolsInit, PoolsStep, PTL DEF Spec
=============================================================================
