-------------------------------- MODULE Csma --------------------------------
(***************************************************************************)
(* The link layer from one mote to its next hop: the sender's queues and   *)
(* retransmissions (csma-output.c), its sequence numbers and the filter    *)
(* that the receiver puts repeated frames through (mac-sequence.c,         *)
(* csma.c), and the receiver's radio, which acknowledges a frame when it   *)
(* arrives and keeps it until cc2420_process reads it.                     *)
(*                                                                         *)
(* A frame is lost on the air or not, and its sender sees an               *)
(* acknowledgement or not: the one does not follow from the other, for an  *)
(* acknowledgement may be lost as well, and any with the same sequence     *)
(* number is taken for the right one.                                      *)
(***************************************************************************)
EXTENDS Integers, Sequences, FiniteSets

CONSTANTS
  Addresses,        (* link addresses the mote sends to                     *)
  Receiver,         (* the next hop                                         *)
  Broadcast,        (* linkaddr_null                                        *)
  MaxNeighbors,     (* CSMA_MAX_NEIGHBOR_QUEUES: 2 in the code              *)
  MaxPackets,       (* MAX_QUEUED_PACKETS: 8 in the code                    *)
  MaxTransmissions, (* CSMA_MAX_FRAME_RETRIES + 1: 8 in the code            *)
  MaxBackoff,       (* CSMA_MAX_BACKOFF: 5 in the code                      *)
  DsnMod,           (* mac_dsn is an uint8_t: 256 in the code               *)
  FifoSize          (* frames that fit into the radio's 128 bytes           *)

ASSUME CsmaAssumption ==
  /\ Receiver \in Addresses /\ Broadcast \in Addresses /\ Receiver # Broadcast
  /\ MaxNeighbors \in Nat \ {0}
  /\ MaxPackets \in Nat \ {0}
  /\ MaxTransmissions \in Nat \ {0}
  /\ MaxBackoff \in Nat
  /\ DsnMod \in Nat \ {0, 1}
  /\ FifoSize \in Nat \ {0}

VARIABLES
  neighbors,     (* addresses with an entry in neighbor_list                *)
  queue,         (* [address]: packet_queue of the neighbor                 *)
  transmissions, (* [address]: of the frame at the head of the queue        *)
  collisions,    (* [address]: since the last transmission                  *)
  timer,         (* addresses whose transmit_timer runs                     *)
  free,          (* free entries of packet_memb, metadata_memb and queuebuf *)
  mac_dsn,       (* the next sequence number                                *)
  fifo,          (* frames received and acknowledged, but not yet read      *)
  seqno,         (* the receiver's received_seqnos entry of the sender      *)
  next,          (* history: the number of the next packet for Receiver     *)
  got,           (* history: the packet taken last by the network layer     *)
  repeated,      (* history: some packet was taken more than once           *)
  mixed          (* history: the sender's last frame taken was a broadcast  *)

sender   == <<neighbors, queue, transmissions, collisions, timer, free>>
receiver == <<seqno, got, repeated, mixed>>
vars     == <<sender, mac_dsn, fifo, receiver, next>>

NoSeqno == DsnMod

\* Packets for the next hop carry their number, all others 0.
Frame == [to : Addresses, seqno : 0 .. DsnMod - 1, id : Nat]

Init ==
  /\ neighbors = {}
  /\ queue = [a \in Addresses |-> <<>>]
  /\ transmissions = [a \in Addresses |-> 0]
  /\ collisions = [a \in Addresses |-> 0]
  /\ timer = {}
  /\ free = MaxPackets
  /\ mac_dsn \in 0 .. DsnMod - 1
  /\ fifo = <<>>
  /\ seqno = NoSeqno
  /\ next = 1
  /\ got = 0
  /\ repeated = FALSE
  /\ mixed = FALSE

(***************************************************************************)
(* csma_output_packet.                                                     *)
(***************************************************************************)

\* Not the code: the list is pushed to at its head.
ListPush(list, item) == <<item>> \o list

ListAdd(list, item) == Append(list, item)

NewFrame(a) ==
  [to |-> a, seqno |-> mac_dsn, id |-> IF a = Receiver THEN next ELSE 0]

\* Not the code: the pool is taken to be as large as all queues together.
CanQueueUnpooled(a) ==
  /\ a \in neighbors \/ Cardinality(neighbors) < MaxNeighbors
  /\ Len(queue[a]) < MaxPackets

\* There is a neighbor entry to find or to allocate, and a packet to allocate.
CanQueue(a) ==
  /\ a \in neighbors \/ Cardinality(neighbors) < MaxNeighbors
  /\ Len(queue[a]) < MaxPackets
  /\ free > 0

Enqueue(a) ==
  /\ CanQueue(a)
  /\ neighbors' = neighbors \cup {a}
  /\ IF a \in neighbors
     THEN UNCHANGED <<transmissions, collisions>>
     ELSE /\ transmissions' = [transmissions EXCEPT ![a] = 0]
          /\ collisions' = [collisions EXCEPT ![a] = 0]
  /\ queue' = [queue EXCEPT ![a] = ListAdd(@, NewFrame(a))]
  /\ timer' = IF queue[a] = <<>> THEN timer \cup {a} ELSE timer
  /\ free' = free - 1
  /\ next' = IF a = Receiver THEN next + 1 ELSE next

\* Not the code: the entry allocated for a packet that cannot be queued stays.
RefuseKeepingNeighbor(a) ==
  /\ ~ CanQueue(a)
  /\ neighbors' = IF Cardinality(neighbors) < MaxNeighbors THEN neighbors \cup {a} ELSE neighbors
  /\ UNCHANGED <<queue, transmissions, collisions, timer, free, next>>

\* A neighbor entry that was allocated for the packet is freed again.
Refuse(a) ==
  /\ ~ CanQueue(a)
  /\ neighbors' = IF queue[a] = <<>> THEN neighbors \ {a} ELSE neighbors
  /\ UNCHANGED <<queue, transmissions, collisions, timer, free, next>>

Output(a) ==
  /\ mac_dsn' = (mac_dsn + 1) % DsnMod
  /\ Enqueue(a) \/ Refuse(a)
  /\ UNCHANGED <<fifo, receiver>>

(***************************************************************************)
(* transmit_from_queue, called by the neighbor's timer: the radio's part,  *)
(* and what packet_sent makes of its result.                               *)
(***************************************************************************)

NotHeard == UNCHANGED fifo

Heard(f) ==
  \/ NotHeard
  \/ /\ f.to \in {Receiver, Broadcast}
     /\ Len(fifo) < FifoSize
     /\ fifo' = Append(fifo, f)

\* Not the code: the packet's queuebuf is not given back to its pool.
FreePacketLeaking(a) ==
  /\ queue' = [queue EXCEPT ![a] = Tail(@)]
  /\ transmissions' = [transmissions EXCEPT ![a] = 0]
  /\ collisions' = [collisions EXCEPT ![a] = 0]
  /\ IF Tail(queue[a]) = <<>>
     THEN timer' = timer \ {a} /\ neighbors' = neighbors \ {a}
     ELSE UNCHANGED <<timer, neighbors>>
  /\ UNCHANGED free

\* tx_done and free_packet: on to the next packet, or free the neighbor.
FreePacket(a) ==
  /\ queue' = [queue EXCEPT ![a] = Tail(@)]
  /\ free' = free + 1
  /\ transmissions' = [transmissions EXCEPT ![a] = 0]
  /\ collisions' = [collisions EXCEPT ![a] = 0]
  /\ IF Tail(queue[a]) = <<>>
     THEN timer' = timer \ {a} /\ neighbors' = neighbors \ {a}
     ELSE UNCHANGED <<timer, neighbors>>

\* Another transmission of the same frame (rexmit), unless it had enough.
Retry(a, t, c) ==
  IF t >= MaxTransmissions
  THEN FreePacket(a)
  ELSE /\ transmissions' = [transmissions EXCEPT ![a] = t]
       /\ collisions' = [collisions EXCEPT ![a] = c]
       /\ UNCHANGED <<neighbors, queue, timer, free>>

\* Not the code: a frame that meets a busy channel is not counted as sent.
CollisionUncounted(a) ==
  Retry(a, transmissions[a], IF collisions[a] < MaxBackoff THEN collisions[a] + 1 ELSE 0)

Collision(a) ==
  IF collisions[a] + 1 > MaxBackoff
  THEN Retry(a, transmissions[a] + 1, 0)
  ELSE Retry(a, transmissions[a], collisions[a] + 1)

NoAck(a) == Retry(a, transmissions[a] + 1, 0)

\* The channel is busy, or the radio has a frame that must be read first.
ChannelBusy(a) == Collision(a) /\ NotHeard

\* The frame has no room for its headers, or is too long for the radio.
TransmitFails(a) == FreePacket(a) /\ NotHeard

\* The frame is sent; what is read after a unicast frame is its
\* acknowledgement, another frame, which is taken for a collision, or nothing.
FrameSent(a) ==
  /\ Heard(Head(queue[a]))
  /\ \/ FreePacket(a)
     \/ a # Broadcast /\ (NoAck(a) \/ Collision(a))

Transmit(a) ==
  /\ a \in timer
  /\ ChannelBusy(a) \/ TransmitFails(a) \/ FrameSent(a)
  /\ UNCHANGED <<mac_dsn, receiver, next>>

(***************************************************************************)
(* The receiver.                                                           *)
(***************************************************************************)

\* Not the code: the sequence number is not registered.
TakeUnregistered(f) ==
  /\ UNCHANGED seqno
  /\ mixed' = (f.to = Broadcast)
  /\ got' = IF f.to = Receiver THEN f.id ELSE got
  /\ repeated' = (repeated \/ (f.to = Receiver /\ f.id = got))

\* mac_sequence_register_seqno and NETSTACK_NETWORK.input: one entry per
\* sender, whatever the address of the frame.
Take(f) ==
  /\ seqno' = f.seqno
  /\ mixed' = (f.to = Broadcast)
  /\ got' = IF f.to = Receiver THEN f.id ELSE got
  /\ repeated' = (repeated \/ (f.to = Receiver /\ f.id = got))

\* cc2420_process reads a frame and calls input_packet.  If the radio has
\* overflowed meanwhile, all others are flushed.
Read ==
  /\ fifo # <<>>
  /\ fifo' \in {Tail(fifo), <<>>}
  /\ IF Head(fifo).seqno = seqno THEN UNCHANGED receiver ELSE Take(Head(fifo))
  /\ UNCHANGED <<sender, mac_dsn, next>>

\* The receiver, itself a sender, reads a frame while it expects an
\* acknowledgement and drops it.
ReadAsAck ==
  /\ fifo # <<>>
  /\ fifo' = Tail(fifo)
  /\ UNCHANGED <<sender, mac_dsn, receiver, next>>

Next ==
  \/ \E a \in Addresses : Output(a) \/ Transmit(a)
  \/ Read \/ ReadAsAck

Spec == Init /\ [][Next]_vars

(***************************************************************************)
(* Fairness: a timer that runs expires, and ctimer calls the function it   *)
(* was set with.  Nothing is assumed of the channel.                       *)
(***************************************************************************)
FairSpec == Spec /\ \A a \in Addresses : WF_vars(Transmit(a))

(***************************************************************************)
(* Correctness.                                                            *)
(***************************************************************************)

TypeOK ==
  /\ neighbors \subseteq Addresses
  /\ queue \in [Addresses -> Seq(Frame)]
  /\ transmissions \in [Addresses -> 0 .. MaxTransmissions - 1]
  /\ collisions \in [Addresses -> 0 .. MaxBackoff]
  /\ timer \subseteq Addresses
  /\ free \in 0 .. MaxPackets
  /\ mac_dsn \in 0 .. DsnMod - 1
  /\ fifo \in Seq(Frame) /\ Len(fifo) <= FifoSize
  /\ seqno \in 0 .. DsnMod
  /\ next \in Nat /\ got \in Nat
  /\ repeated \in BOOLEAN /\ mixed \in BOOLEAN

\* The packets for the next hop among some frames.
Ids(frames) == { frames[i].id : i \in DOMAIN frames } \ {0}

OnWay == Ids(queue[Receiver]) \cup Ids(fifo)

link == INSTANCE Link WITH onWay <- OnWay

\* To the next hop the link layer is a Link: retransmissions, frames given up
\* or flushed, a full queue and the reuse of sequence numbers lose and repeat
\* packets, but never let an older one arrive after a newer one.
ImplementsLink == link!Spec

\* A neighbor entry, of which there are only two, is held by exactly those
\* addresses that have packets, each of which waits for a timer that runs.
NeighborsInUse ==
  /\ neighbors = { a \in Addresses : queue[a] # <<>> }
  /\ timer = neighbors
  /\ Cardinality(neighbors) <= MaxNeighbors

\* The places of all queues that hold a packet.
Held == UNION { {a} \X DOMAIN queue[a] : a \in Addresses }

\* The pools are shared by all destinations and never leak: every entry that
\* is not free holds a packet of some queue, whichever way frames leave.
BuffersInUse == free + Cardinality(Held) = MaxPackets

\* A packet arrives again only right after a broadcast of the same sender: the
\* filter stands all other interleavings of retransmissions, lost
\* acknowledgements, late reads and sequence numbers that come back.  (After a
\* broadcast a repetition does get through: the entry of the sender holds the
\* broadcast's number, and "the last few" of mac-sequence.c:94 are one.)
RepeatsNeedBroadcast == [][repeated' => repeated \/ mixed]_vars
=============================================================================
