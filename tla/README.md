# A TLA+ verification of the WSN mini project

The repository holds a wireless sensor network for Contiki-NG on Sky motes:
source motes sample a distribution and send their samples to aggregator motes,
which combine them by inverse-variance weighting and pass the result along a
chain to a root that prints it. Python scripts collect the printed lines from
the Cooja simulator, draw them and compute metrics. Almost all of the 3064
files are the vendored Contiki-NG; the project's own firmware is under
`src/contiki-ng/mini_project/data_aggregation/`.

Below, `aggregator.c`, `source.c` and `message.c` are the files of that
directory, *the report* is `src/report/WSN_Mini_Project.pdf`, and other files
are named by their last component; `PROJECT.json` has all paths and lines.

## The system

| Component | State | Operations | Interacts with |
|---|---|---|---|
| Aggregator (`aggregator.c`) | `message_array`, `node_map`, `nodes_recieved`, `messages_missed`, `message_count`, `aggr_timer` | `udp_rx_callback`, start-up | called by simple-udp; sends by simple-udp; its timer is run by etimer |
| Source (`source.c`) | mode (`btn_count`, `active`, `min`, `max`), `msg_id`, `periodic_timer`, the window of samples and its sums | the protothread `udp_client_process`, `update_distribution` | events from etimer and sensors; sends by simple-udp |
| Messages (`message.c`) | none | two message types, printing | shared by both firmwares; what is printed reaches the scripts through the simulator |
| simple-udp | `databuffer`, the connection | copy a packet, call the callback in the client's context | uIP below, the firmware above |
| etimer | `timerlist`, `next_expiration`, the process pointer of each timer | set, reset, poll, process exit | polled by the clock interrupt; posts events |
| Process kernel (`process.c`) | event ring, `poll_requested`, process list and states | post, poll, run, start, exit | everything |
| Sensors and button | the changed flag, the debounce timer | interrupt, poll, broadcast | posts `sensors_event` to the source |
| Clock and sleep | `count`, the CPU's mode | tick interrupt, idle | polls etimer |
| CSMA and radio (`csma-output.c`, `csma.c`, `mac-sequence.c`, `cc2420.c`) | `neighbor_list` with a packet queue, transmissions, collisions and timer each; three pools; `mac_dsn`; `received_seqnos`; the radio's memory | queue or refuse, transmit, repeat, give up, filter, read | uIP above, the radio below |
| uIP and RPL | routes, neighbors | route, send, receive | CSMA below, simple-udp above; its multicasts are the broadcasts of CSMA |
| Log collection and live view (`SerialSocketServer.java`, the Python scripts) | sockets, files of lines, read positions, two dictionaries of series | add the time, collect chunks, read, parse, draw | the motes' printed lines |
| Metrics | none (batch) | match source lines to aggregator lines | the finished logs |

### What is hard, and what makes each part correct

* **Aggregator.** A round is a set of flags, a count, an array and a timer that
  must agree. The process has ended when packets arrive, so the timer is never
  handled as an event: it is a flag the next packet reads. Messages come in any
  order, repeated, or not at all; slots keep what earlier rounds stored. Correct
  is that a message is taken once, that each round ends with one aggregate that
  uses all it took, and that the missed count is the round's.
* **Source.** After *any* event the thread asks whether the timer has expired.
  Button events therefore race timer events, the queue they share is bounded,
  and a press may be lost. Correct is that messages keep their distance, that an
  active source goes on sending (also after a silence during which the timer's
  event went unused), that the mode follows the presses and the button never
  dies.
* **Distribution.** A ring with an incremental sum and sum of squares, the latter
  rounded beyond 2^24, where a malfunctioning source is. Correct is that the sum
  never drifts from the ring, and the sum of squares by its roundings only.
* **Network.** Losses on every link, a relay that mixes its own aggregates with
  those it passes on. Correct is that the root's picture of a source never goes
  back and that data keeps flowing.
* **etimer, process kernel, sensors, clock.** Interrupts against the main loop;
  polls, of which each has two flags; a bounded queue; a clock that wraps; a
  `next_expiration` that passes over timers that are already due. Correct is that
  no poll is forgotten, that the mote does not sleep over work, that a timer's
  event is posted once its time has come and not before, and that the button
  never dies.
* **CSMA.** Frames are repeated until acknowledged; acknowledgements are lost, or
  belong to another frame; the radio acknowledges what is never read. Two
  neighbor entries and one pool serve every destination. Correct is that order is
  kept, that the only repetitions are those the filter cannot see, that pool
  entries are not leaked and that no frame blocks a queue.
* **Log pipeline.** Two programs share files without locking; a chunk, and a
  batch, may end within a line; a batch is abandoned at its first bad line, which
  may leave a series without points behind, over which the plot fails. Correct is
  that what is read is read once and in order, that a cut costs one line, and that
  only a cut line can end the view.
* **Metrics.** A batch over finished logs; correct only if aggregates name what
  was received (see the findings).

## Modules

| Module | What it is |
|---|---|
| `Rounds` | abstract: what a collector promises |
| `Aggregator` | `aggregator.c` on any number of motes, open to every packet a neighbour may send |
| `MCAggregator` | its instance: the node map of the code, a relayed message |
| `AggregatorProofs` | theorems about `Aggregator`, among them that it implements `Rounds` |
| `WeightedMean`, `MCWeightedMean` | `construct_distribution_array` and `aggregate_data` |
| `WeightedMeanProofs` | theorems about `WeightedMean`, resting on lemmas about folds over slots |
| `Source` | `source.c` with its timer, its button and the event queue |
| `SourceProofs` | theorems about `Source` |
| `Distribution`, `MCDistribution` | `update_distribution` |
| `DistributionProofs` | theorems about `Distribution`, resting on lemmas about sums of sequences |
| `Link` | abstract: what the link layer promises the packets from one mote to the next |
| `Csma`, `MCCsma` | the link layer of a sender and its receiver |
| `CsmaProofs` | theorems about `Csma`, among them that it implements `Link` |
| `Process` | the kernel and the main loop, extended by |
| `Etimer` | event timers and the clock interrupt, extended by |
| `Mote`, `MCMote` | a mote: kernel, timers, button and a firmware that sets timers as it likes |
| `MoteProofs` | theorems about `Mote`: its polls, its sleep, its list of timers; then its clock: types, timers on time |
| `LogPipeline`, `MCLogPipeline` | the collector, the files and the live view |
| `LogPipelineProofs` | theorems about `LogPipeline` |
| `Wsn`, `MCWsn` | the network: `Aggregator` extended with sources and links |
| `WsnProofs` | theorems about `Wsn`, among them that its aggregators implement `Rounds` |

### Aggregator

One action, `Receive`, is the whole of `udp_rx_callback`. It is written in the
order of the code: the timer starts if the round is empty (`TimedOut` is the
timer as the test at the end will see it), a source's message is stored or
counted as missed (`Stored`, `Dropped`, `ArrayAfter`, `CountAfter`,
`MissedAfter`), an aggregated message is passed on (`Forwarded`), and if the
round is complete or late (`Due`) the aggregate is built (`Aggregate`), sent and
the round forgotten (`CloseRound`); otherwise the round stays open
(`Accumulate`). `TimerExpires` is the step of `etimer_process` that clears the
timer's process pointer. Start-up is in `Init`: packets are only received once
the callback is registered, after the node map is set.

Messages are a node and a number. The weighted mean is abstracted to the slots'
messages it is computed from, which is what the properties ask about. The two
packet sizes are two tags. `databuffer` and `sent` are what simple-udp last
handed over and what the last call sent. A definition marked "Not the code" is a
variant with a plausible mistake, used to show that a property notices it (see
below).

`Rounds` speaks of sets of messages, and knows neither slots nor timers. The
refinement maps `taken` to the messages in the heard slots, `late` to an expired
timer of an open round and `report` to what the last call sent of its own. It
promises no more than the code keeps: a late round's report may use and name
messages of earlier rounds (see the findings).

### Source

`HandleTimer` and `HandleButton` are one iteration of the thread's loop for the
two events, each with the branches on `btn_count` and the sending at the end;
`HandleButton` includes the rest of the broadcast, in which `sensors_process`
clears the button's flag. `Press` is the interrupt, `PostButton` is
`sensors_process` woken by its poll, `TimerExpires` is `etimer_process`, `Tick`
the clock. A press that finds the flag up changes nothing and is not a step, so that no
property notices such a lost press: the code promises nothing of it.
The debounce timer is left out, so that presses may come at any time. `since`
is a history variable.

### Distribution and WeightedMean

Samples and sums are integers, and quotients are kept as fractions. The only
rounding modelled is that of the sum of squares above 2^24, where the compiler's
32-bit `double` has no odd integers (`Rounded`). `recent` and `inexact` are history
variables: the last samples as the report means them, and how many updates have
rounded, which the bound `MaxInexact` ends. `DistributionAssumption` keeps the sum
where a double loses one bit only; the code's samples do, those of a malfunctioning
source, from 300 to 500, included. The roundings of the quotients are not modelled. `WeightedMean` keeps weights as
integers over a common denominator.

### Wsn

`Wsn` extends `Aggregator` by the sources' message numbers and one FIFO queue per
sender. A source's timing is not repeated here: `Source` has it. A link behaves
as `Link` allows, which `Csma` is shown to implement: its oldest packet arrives
(`Arrive`), arrives and stays, to arrive again (`ArriveAndStay`), or is lost
(`Lose`); that a packet was never queued for lack of a buffer cannot be told apart
by the next hop. `Reach` is the receiving mote's whole callback, what it sends
included. `named` records what the root prints. Restarts of a mote, which would
reset its numbers, are not modelled.

`NextHop` may be any tree of motes with the root at its end; `WsnAssumption` says
so by `Upstream`, the senders whose packets may pass through a mote. The runs take
the chain 3, 2, 1 that the addresses of the code make.

### Link and Csma

`Csma` is the link from one mote to its next hop. `Output` is
`csma_output_packet`: a sequence number is used up, then the packet is queued
(`Enqueue`) or refused (`Refuse`), with the neighbor entry given back. `Transmit`
is `transmit_from_queue` called by a neighbor's timer: the channel is busy
(`ChannelBusy`), the radio refuses the frame (`TransmitFails`), or the frame is on
the air (`FrameSent`) and an acknowledgement, something else or nothing is read;
`packet_sent`, `tx_done` and `free_packet` follow in the same step. Whether the
receiver hears the frame is independent of what the sender reads, since an
acknowledgement may be lost and any with the same number is taken for the right
one. `Read` is `cc2420_process` with `input_packet` of csma.c, `Take` what the
filter lets through, `ReadAsAck` the read of a frame by a receiver that is itself
waiting for an acknowledgement. Backoff delays are left to the order of steps.
`packet_memb`, `metadata_memb` and `queuebuf` have the same size and are taken
and given back together, so one number stands for the three. The age after which
`mac_sequence_is_duplicate` forgets a number is not modelled, because all
repetitions of a frame fall well within it; neither is the eviction of senders,
of which no mote has sixteen.

In `Link` packets are numbered in the order they are handed over. The refinement
maps `onWay` to the packets in the sender's queue and in the receiver's radio.

### Process, Etimer and Mote

The three modules are one specification: each extends the one before it. The
main loop (`process_run`, `do_poll`, `do_event`, `platform_idle`) is split
wherever an interrupt may come: between entering `do_poll` and looking at each
process, between two processes of a broadcast, between finding no work and going
to sleep. A process runs from `called` to `Return`, `etimer_process` one timer of
its list at a time, `sensors_process` one test of its loop at a time. `Tick` and
`Press` may come between any two steps.

`update_time` and the tick's comparison are steps by themselves: a tick that
falls into the few instructions of `update_time` can delay the poll by one tick,
which the model does not show. `clock_time` is modulo `Wrap` (2^32 in the code);
`left` is the distance to the expiry that the numbers stand for, and the
properties are about it. The module takes processes as started, and the firmware
as a process that sets or resets any timer, or none, whenever it is called;
`Source` and `Aggregator` say what it does with them.

### LogPipeline

A line is two fragments, a head and a tail, as the only thing that matters of
its text is where it may be cut. `PrintFragment` is the mote's and the simulator's
side: message.c prints the line, and `SerialSocketServer.java` puts ", time: " with
the simulation's time before the `#` that ends it, so that the lines of sources and
aggregators alike can be parsed. `Collect` is one receive with the append that
follows it.

The viewer works in frames. `pending` holds the files that a frame has yet to read;
`GetSize` and `Read` are the two halves of `MoteDataReceiver.read`, between which
the collector may append, and `Draw` ends the frame. `Parsed` is what `parse_data`
makes of a batch: its complete lines, in any case, and possibly a point of the head
it ends with, of which `whole` says whether it is the line's. If only the end of
the line is missing the point is right, if the cut falls behind the last comma that
was read its time is another number, and otherwise the head raises an exception, or
is passed over because not even its kind can be told. The rest of such a line, at
the beginning of the next batch, is always passed over. `Begun` is the difference
between the two kinds of lines: a source's series is created before the time is
parsed (data_processing.py:21-25), and so may begin with a head that raises, an
aggregator's together with its first point (lines 36-38). `listed` are the motes
with a series. Drawing fails over a series without points; whether the animation
goes on after that is up to matplotlib's window system, so `Draw` does either, and
`stopped` says that it has not.

## Runs

| Run | Instance | What it shows |
|---|---|---|
| `aggregator_safety` | the root and mote 2 with 3 sources, 2 message numbers, the missed count modulo 3 | types; the count agrees with the flags; slots hold their own node's messages; `Rounds` is implemented |
| `weighted_mean_value` | 3 slots, 2 samples, variances 0, 1/2, 1 and 9/2 | the weights never add up to zero and the value lies between the samples; the most uncertain sample has no more than its share |
| `distribution_exact` | a ring of 4, samples -1, 0, 4 and 5, integers exact to 52, up to 4 roundings | the sum equals that of the samples that count, the sum of squares but for its roundings; the variance is negative by no more than them; the first means are right |
| `source_sends` | interval 2 ticks, jitter 2, queue of 2, numbers modulo 3 | spacing, liveness of sending, the mode, liveness of the button |
| `csma_link` | the next hop, another neighbor and the broadcast address; 2 neighbor entries, 2 packets, 2 transmissions, 1 backoff, 2 sequence numbers, a radio of 2 frames | the pools, `Link` is implemented, repetitions come only after a broadcast, no frame blocks its queue |
| `mote_timers` | 2 timers of 1 and 2 ticks, a queue of one event, a clock that wraps after 6 ticks | no poll and no timer forgotten, no sleep over work, timers on time, the button lives |
| `log_view` | a source and the root, 2 lines each, chunks of a line and a half | points once and in order; only cut lines are lost, and only they end the view; all gets read |
| `wsn_order` | sources 7 and 8, mote 3, the relay 2, the root; links of 3 packets, 3 on the way at a time, message numbers to 3, the last of which is not followed further | what the root sees named of a source never goes back |
| `wsn_flow` | motes 2 and 3 with one live source each (the other slot silent), links of 3 | aggregates of both keep arriving at the root |

The bounds. In `aggregator_safety` two numbers suffice to tell a later message
from the stored one, one relayed message stands for all since a relay never
looks inside, and three slots are those of the code; nothing else in it is
bounded, the rounds go on for ever. `Distribution`'s ring goes round without
end; four slots give a first and last slot and two between, and the samples
include a negative one, zero and different squares. `Exact` is 52, scaled to them as
2^24 is to samples of 300 to 500: three large samples exceed it, with odd
sums that are rounded up and others that are rounded down, and samples after them
bring the sum back into the exact range with the errors in it. A run of four
roundings shows errors that add up and errors that cancel. `Source` needs a queue that
can be full (2 places for 2 kinds of events) and a jitter that makes two waits
differ. In `Wsn` a mote takes a packet from a link only while its own link has
room for the two packets it may send (`HasRoom`): the bound slows motes down but
drops nothing. `wsn_order` has the constraints `NoWrap`, which stops when a
source's number comes back to 0 (in the code after 2^32 messages), and `Traffic`, at
most three packets on all links. With numbers modulo 4 two messages of each source
are followed to the root, an older and a newer one; the step that sends the third is
checked and not followed. `NamesGoForwardHolds` is about any number. `wsn_flow` needs
no different numbers (`IdMod` is 1).

`csma_link` makes everything as scarce as it can be: three destinations for two
entries and two packets, so that both kinds of refusal happen; with one
retransmission and one backoff every path through `collision` and `noack` is
taken; with two sequence numbers they come back after every other packet, whereas
the code has 256. `Bounded` stops after two packets for the next hop, broadcasts
and other packets go on; `CsmaProofs` has no such bound. In `mote_timers` a queue
of one event is full whenever anything is posted, a clock of 6 ticks wraps again
and again, and `Slack` and `Forget` bound how long a timer that runs, or one that
has run out, may be overdue: both allow more than one interval. `EtimerAssumption`
keeps them at or below half the clock's range because the code itself misjudges a
timer that is overdue by more (timer.c:127 computes with differences modulo the
range), which is 2^31 ticks, or 194 days, on a mote. In `log_view` two
lines suffice for a batch that begins with the rest of a line and ends within the
next, and for one that ends within a line after a whole one; `LogPipelineProofs` has
no bound on lines.

### What each property tells apart

| Property | A mistake that breaks it |
|---|---|
| `Aggregator!TypeOK` | a complete round stays open: `DueOneLater` |
| `CountIsHeard` | the flags survive the round: `CloseRoundKeepingFlags` |
| `SlotsHoldOwnNode` | messages stored by order of arrival: `ArrayAfterByCount` |
| `ImplementsRounds` | a later message replaces a taken one: `ArrayAfterReplacing` |
| `BetweenSamples` | unweighted sum: `WeightedSumUnweighted` |
| `UncertainCountsLess` | weight not inverted: `WeightInverted` |
| `Distribution!TypeOK` | the index leaves the ring: `NextIndexUnwrapped` |
| `SumIsRecent`, `SquaresWithinRounding` | the newest slot taken for the oldest: `NextSlotStuck` |
| `VarianceAboveRounding`, `MeanOfFirstSamples` | the count one behind: `CountOneLess` |
| `Source!TypeOK` | a post to a full queue: `PostButtonUnbounded` |
| `ButtonCycle` | back to normal with the wrong range: `RecoverWithRange` |
| `SendsSpaced` | sending without asking the timer: `ReadyUntimed` |
| `ActiveSends` | sending only on the timer's own event: `ReadyOnTimerEvent` |
| `PressAnswered` | the flag stays up: `HandleButtonKeepingFlag` |
| `Csma!TypeOK` | the pool taken to be as large as all queues: `CanQueueUnpooled` |
| `BuffersInUse` | a packet's buffer is not given back: `FreePacketLeaking` |
| `NeighborsInUse` | the entry of a refused packet stays: `RefuseKeepingNeighbor` |
| `ImplementsLink` | the queue as a stack: `ListPush` |
| `RepeatsNeedBroadcast` | the sequence number is not registered: `TakeUnregistered` |
| `HeadLeaves` | a collision never counts as a transmission: `CollisionUncounted` |
| `Mote!TypeOK` | a post to a full queue: `PostUnbounded` |
| `NoPollForgotten` | `poll_requested` cleared after the polls: `PollDoneClearing` |
| `SleepsWithoutWork` | no second look before sleeping: `SleepUnchecked` |
| `ListHoldsSet` | a running timer is put on the list again: `add_timerTwice` |
| `DueIsWatched` | no poll after adding a timer: `add_timerUnpolled` |
| `PostedWhenDue` | the tick under way counts as passed: `timer_expiredEarly` |
| `DueIsPosted` | no new poll after a refused post: `PostTimerOnce` |
| `ButtonLives` | a dropped press keeps its flag: `DropButtonKeepingFlag` |
| `LogPipeline!TypeOK`, `PrintedIsRead` | the file is overwritten, not appended to: `CollectOverwriting` |
| `PointsInOrder` | the position is set to the size seen before the read: `ReadToSize` |
| `StopsOnlyByCut` | an aggregator's series begins before its time is parsed: `BegunAnywhere` |
| `LostOnlyByCut` | a batch that does not parse to its end is dropped: `ParsedAllOrNothing` |
| `WsnTypeOK` | as `TypeOK` |
| `NamesGoForward` | a message number that the protothread forgets: `SendForgetful` |
| `DataFlows` | the timer starts anew with every packet: `TimedOutRestarted` |

### Fairness

* `Source`: weak fairness of the tick, of `etimer_process` for a due timer (the
  tick interrupt polls it at every tick from then on, and a refused post asks for
  another poll), of `sensors_process` once polled, and of the main loop's taking
  of events. Nobody has to press the button.
* `Wsn`: live sources send again and again (that is `ActiveSends`), the timers of
  their collectors expire, and losses do not pick out one mote: if packets of a
  mote are at the head of a link again and again, some of them arrive (strong
  fairness). The radio of `src/simulation_files/` loses none; without the
  assumption nothing could be promised. Nothing is assumed of other sources.
* `aggregator_flush` assumes only that running timers expire.
* `Csma`: a neighbor's timer that runs expires and its function is called. Nothing
  is assumed of the channel.
* `Mote`: the CPU runs unless it sleeps, and the clock ticks. That is the
  justification of what `Source` assumes of `etimer_process` and
  `sensors_process`. Nobody has to press the button. `DueIsPosted` asks that the
  button be left alone at some time: with a queue of one event, TLC finds that a
  button pressed for ever takes the place before every try of a timer. In the
  code the queue has 32 places.
* `LogPipeline`: the collector goes round its sockets (weak fairness of `Collect`
  for each mote), and the viewer, once started, goes on with its frames (weak
  fairness of `View`, the steps of a frame taken together; that a frame reads every
  file is in `pending`, not in the fairness). No mote has to print.

## Findings

Each is a run whose property TLC refutes.

* `aggregator_flush` (`TimeoutFlushes`): the report says the aggregator processes
  its data when the timeout expires. It does so at the next packet; if no more
  packets come, never.
* `aggregator_stale` (`OnlyReceivedIsUsed`): a late round's value also weighs in
  what earlier rounds left in the slots that were not filled.
* `aggregator_listing` (`ReceivedIsListed`): a late round lists the first slots,
  as many as it has messages. With a gap, a received message is not named, so the
  metrics take it for lost and may take an old one for received again.

Other places disagree without a run of their own, being plain from the text or
from a property's comment:

* aggregator.c:30 says "weighted sum of the means", and it is of the samples;
  aggregator.c:89 says "overrides the old message", and the old one is kept, as
  the report says; source.c:43 says "update the distribution parameters every 100
  samples", and it does so with every one.
* source.c:47 subtracts the slot after the one it has written, so that a full ring
  sums one sample less than the window it divides by. `distribution_exact` checks
  the sums against the samples that do count.
* source.c:50 keeps the sum of squares in a 32-bit `double`: beyond 2^24, which a
  malfunctioning source reaches, odd integers are rounded, and the error stays in the
  sum when the source is back to normal. `SquaresWithinRounding` and
  `VarianceAboveRounding` say how far that goes: one for each update that rounded,
  which over the count of samples may make a small variance negative.
* mac-sequence.c:94 compares "with the last few ones we saw", and there is one per
  sender (mac-sequence.c:129): after a broadcast, a repetition of the unicast frame
  before it gets through. Hence the premise of `RepeatsNeedBroadcast`, and the
  repetitions in `Link` and `Wsn`.
* visualization.py:29 says "Update box plot with new data", for each frame. If a
  batch ends within the first line of a source, after its sample and before its time,
  the source has a series without points (data_processing.py:21-25), for which
  visualization.py:22 raises an exception: that frame and all that follow fail, until
  a line of the source is parsed. `StopsOnlyByCut` says that nothing else ends the
  view.
* main.py:15 lists the files once: a mote whose first line comes later is never
  shown. cooja_data_collector.py:31 spins on a socket that was closed.

## Proofs

The theorems hold for every value of the constants that satisfies the named
assumptions of the modules: any number of motes and slots, any message numbers
and bounds, any tree of motes. `AggregatorAssumption` assumes that a collector's node
map names different nodes, none of them 0, which the literals of the code do.

* `TypeCorrect`, `CountCorrect` and `SlotsCorrect` (Aggregator). The invariant
  `IInv` is the conjunction of `TypeOK`, `CountIsHeard` and `SlotsHoldOwnNode`. It
  is needed whole: that the count stays below `NumNodes` rests on the count being
  the number of flags, and a message is stored in one slot only because the node
  map is injective. Each packet falls into one of three cases: no slot matches,
  the slot is free, the slot is heard.
* `AggregatorImplementsRounds`. The three cases map to `Pass`, `Take` and `Miss`;
  in each, `Accumulate` maps to `Continue` and `CloseRound` to `Finish`. The test
  `message_count = NumNodes` is the abstract "every source was heard" by
  `CountIsHeard` and a lemma that a subset of the slots as large as all of them is
  all of them. `TimerExpires` maps to `RunLate` or, with no round open, to a
  stutter; steps of the root stutter.
* `NeighborsInUseHolds` (Csma). Inductive together with the types of the variables
  that occur in it.
* `BuffersInUseHolds` and `TypeOKHolds` (Csma). `PInv` adds to it that `free` and
  the number of places held in the queues make up the pool. A packet that is queued
  takes one place more (`HeldByAppend`), one that is freed gives up the last
  (`HeldByTail`), and nothing else touches a queue. That `free` never falls below
  zero is the guard of `Enqueue`; that it never exceeds the pool is this invariant.
* `CsmaImplementsLink`. The invariant `Ordered` is the order of the path: what is
  in the radio is no newer than what is in the queue, both are sorted by number,
  and what was taken last is no newer than either. `Output` maps to `Put` or a
  stutter, `Transmit` to `Lose` or a stutter, `Read` to `Get` or `Lose`.
  `PacketsInOrder` follows from it.
* `RepeatsNeedBroadcastHolds`. Sequence numbers come back, so that being numbered
  differently is no argument; `Numbered` says instead that all frames of one packet
  share a number, which is the one the receiver remembers unless a broadcast came
  between. A packet is then filtered until another is taken, and by the order of
  the path none of it is left by then.
* `NoPollForgottenHolds`, `SleepsWithoutWorkHolds`, `ListHoldsSetHolds` (Mote), for
  any list of processes that has the three the model speaks of, any queue, set
  of timers and clock. The second rests on the first: with nothing requested and
  no `do_poll` under way, there is nobody left to be polled.
* `PostedWhenDueHolds`, `DueIsWatchedHolds` and `TypeOKHolds` (Mote), for any even
  width of the clock. `TimerInv` says what the clock's numbers stand for: `InTime`,
  that start and interval of a timer and the distance `left` agree modulo the range;
  `NearestInv`, that `next_expiration` is the expiry of a timer on the list, and of
  the nearest of those that are not overdue; `ScanInv`, that `etimer_process` is
  within its list. From these `timer_expired` tells the truth (`ExpiredWhenDue`), a
  tick that makes a timer due finds it with `TickPolls` (`TickFindsDue`), and
  `update_time` finds the nearest timer among wrapped distances (`UpdatedNearest`).
  `DueIsWatched` is part of what each step keeps; it is not inductive without
  `NearestInv`, because only the nearest timer is compared at a tick.
* `TypeOKHolds`, `PointsInOrderHolds`, `LostOnlyByCutHolds` and `StopsOnlyByCutHolds`
  (LogPipeline), for any motes of either kind, any lines and chunks. `MoteInv` says
  that file and socket together are the fragments printed, in their order (`Stream`),
  that the points are those of lines behind the read position and rise by line
  (`Points`), and that each line behind it is shown or cut (`Shown`). `PointsFollow`
  is the one about a batch: its points are of lines that no earlier batch has shown,
  for a line that was cut at the end of one batch has no head in the next. `FrameInv`
  adds the frames: a mote whose series has no points is a source of which something
  was read (`SeriesAfterRead`), and after a failed `Draw` there is one. By `Shown`
  each line that was read of it was then cut.
* `TypeOKHolds`, `SumIsRecentHolds` and `MeanOfFirstSamplesHolds` (Distribution), for
  every window. `Ring` says which slot holds which of the last samples. It follows
  that what an update subtracts is the sample that ceases to count, or a zero that
  was there before the ring had gone round (`OldestSample`), with windows of one
  slot included. That the sums follow needs that a sum grows by what is appended and
  shrinks by what is taken off (`SumOfAppend`, `SumOfTail`). `SumFunction` is a fold
  over a set of indices in no particular order; `FoldsExists` and `AnyOrder` show
  that it is well defined and that the order does not matter, each by taking the
  smallest set that would be an exception (`SmallestSet`), which stands for the
  induction theorems the prover cannot use.
* `SquaresWithinRoundingHolds` and `VarianceAboveRoundingHolds` (Distribution), for
  every window, without further premise: `DistributionAssumption` holds of 100 slots,
  2^24 and samples up to 500 with 8 million roundings, which is more than a year of
  samples. An update moves the sum of squares as it moves that of the samples that
  count, and rounding moves it by one at most, since below twice 2^24 the doubles are
  the even numbers (`SquaresKept`). The variance is negative by the roundings only,
  because the square of a sum is at most the sum of the squares times their number
  (`SquareOfSum`), and the count the code divides by is never less than that number.
* `BetweenSamplesHolds` and `UncertainCountsLessHolds` (WeightedMean), for any number
  of slots, any samples and any variances that are not negative. By
  `VarianceAboveRoundingHolds` a source sends no other as long as nothing was rounded
  in it; what a negative one does to the weights is not modelled. The invariant is only the
  types of the array; the theorems are about what is computed from it. The common
  multiple is positive and no smaller than any variance (`MultipleBounds`), so each
  weight is positive (`WeightsPositive`); sums compare as their parts do
  (`SumsCompare`), so the weighted sum lies between the least and the greatest sample
  times the sum of the weights, which is at least their number (`SumAtLeast`). A
  weight falls as its variance rises (`WeightsFall`), from a variance of one on: below
  it a variance of zero, which weighs one, is the exception. The product and the sums
  are folds like those of `Distribution`, and `FoldsExist` is proved for any step.
* `TypeCorrect`, `ButtonCorrect` and `SpacingCorrect` (Source). Spacing needs
  `TimerCovers`: while the timer runs or has just run out, the ticks left and the
  ticks since the last message together are at least the interval.
* `WsnTypesHold` and `WsnImplementsRounds` (Wsn), for any tree of motes. `WInv` adds
  to `IInv` what rides on each link (`Rides`: a source's link has its own messages,
  an aggregator's link aggregates of its own and of those upstream) and that a slot
  is only filled with messages of a source that sends to its mote. So every packet
  that arrives is one of those the rounds expect (`ArrivingIsExpected`): what the
  open `Aggregator` assumes of its neighbours is what the network does, and the
  lemmas of `AggregatorProofs` carry over.
* `NamesGoForwardHolds`, for any tree, with the premise that no message number has
  come back to 0. The invariant is `Ordered`, for one source at a time: going from
  the source to the root, the numbers that packets name of it only get smaller, the
  number in the source's slot lies between those of its own packets and those of
  aggregates, and within a link they get larger. A packet may join a link if it
  fits between what is before and what is behind it (`Joins`); that a forwarded
  packet and an aggregate do is where the tree is needed (`UpstreamLinear`: two
  motes that a source's messages pass through are on one path). Losses and arrivals
  only take from the order.

Every invariant that a passing run checks is a theorem. Only model-checked is liveness
(`ActiveSends`, `PressAnswered`, `DataFlows`, `HeadLeaves`, `DueIsPosted`,
`ButtonLives`, `PrintedIsRead`), since the prover has no rule for fairness.

## What is not modelled

* Of the kernel: synchronous posts, the start and the exit of processes, and with
  it the part of etimer that cleans up after an exited process. The only process
  that ends is the aggregator's, before its timer is ever set.
* Of etimer: `etimer_stop`, `etimer_adjust` and `etimer_restart`, which the firmware
  does not call.
* Of the link layer: backoff times, the energy and the switching of the radio,
  link-layer security (which the build leaves off).
* uIP and RPL: the firmware sends to fixed addresses, and the simulations place
  every mote within reach of its next hop. A packet that is lost for want of a
  route is a `Lose`.
* The digits of printed numbers, the figures, and the metrics, which are batch
  computations without state.
* Restarts of a mote, which the simulations do not have. The topologies of the
  second and third simulation have no run; the theorems about `Wsn` hold of any tree.
* The rest of Contiki-NG. It is by far the largest part of the repository (other
  radios, platforms, protocols, a file system with its code pages) and no part of
  the program: the models cover the project's own code and those parts of the
  system it runs through, which are a small share of all lines.

## Plan

What could follow, in this order.

1. `Timing`: sources with an interval of 4 to 6 seconds and a timeout of 5: when is
   a round late although every source is active? The report asks that the timeout
   be no shorter than the interval.
2. Processes that exit, in `Process` and `Etimer`.
3. Metrics as operators over the history of `Wsn`: completeness against what
   was really received.
4. Proofs: `Source` as a refinement of `Mote`.
