---------------------------- MODULE LogPipeline ----------------------------
(***************************************************************************)
(* What a mote prints on its way to the live view.  The simulator sends    *)
(* each mote's output through a socket, with the simulation's time put     *)
(* before the '#' that ends a line; cooja_data_collector.py appends what   *)
(* it receives to a file; for each frame of the plot, MoteDataReceiver     *)
(* reads what each file has gained, parse_data turns the lines of such a   *)
(* batch into points, and the series of points are drawn.                  *)
(*                                                                         *)
(* Collector and viewer are two programs that only share the files, and a  *)
(* chunk or a batch may end anywhere: the text is modelled as fragments,   *)
(* two for a line.  Fragment 2 * l - 1 is the head of line l, fragment     *)
(* 2 * l its tail with the end of the line.                                *)
(***************************************************************************)
EXTENDS Integers, SequencesExt

CONSTANTS
  Motes,
  Prints,      (* [mote]: the kind of line it prints: "source" for          *)
               (* print_message, "aggregator" for print_message_agg         *)
  ChunkSize,   (* recv(1024), in fragments                                  *)
  MaxLines     (* bound: the lines that a mote prints                       *)

ASSUME LogPipelineAssumption ==
  /\ Prints \in [Motes -> {"source", "aggregator"}]
  /\ ChunkSize \in Nat \ {0}
  /\ MaxLines \in Nat

VARIABLES
  printed,     (* [mote]: how many fragments it has printed                 *)
  socket,      (* [mote]: the fragments sent and not yet received           *)
  file,        (* [mote]: the fragments in its file                         *)
  viewing,     (* main.py has listed the files                              *)
  receivers,   (* the motes whose files it found                            *)
  pending,     (* those that update_box_plot has yet to read in its loop    *)
  stopped,     (* its exception has ended the animation                     *)
  size,        (* [mote]: current_size, or Unknown between two reads        *)
  last_position,
  listed,      (* the motes with a series in data or aggregated_data        *)
  records,     (* [mote]: the series, the points appended for the mote      *)
  cut          (* history [mote]: the lines that a batch ended within       *)

collected == <<printed, socket, file>>
shown     == <<last_position, listed, records, cut>>
viewed    == <<viewing, receivers, pending, stopped, size, shown>>
vars      == <<collected, viewed>>

Unknown == -1

Line(k) == (k + 1) \div 2
IsTail(k) == k % 2 = 0

Init ==
  /\ printed = [m \in Motes |-> 0]
  /\ socket = [m \in Motes |-> <<>>]
  /\ file = [m \in Motes |-> <<>>]
  /\ viewing = FALSE
  /\ receivers = {} /\ pending = {} /\ stopped = FALSE
  /\ size = [m \in Motes |-> Unknown]
  /\ last_position = [m \in Motes |-> 0]
  /\ listed = {}
  /\ records = [m \in Motes |-> <<>>]
  /\ cut = [m \in Motes |-> {}]

(***************************************************************************)
(* The simulator and the collector.                                        *)
(***************************************************************************)

PrintFragment(m) ==
  /\ printed[m] < 2 * MaxLines
  /\ printed' = [printed EXCEPT ![m] = @ + 1]
  /\ socket' = [socket EXCEPT ![m] = Append(@, printed'[m])]
  /\ UNCHANGED <<file, viewed>>

\* Not the code: the file is opened for writing, not for appending.
CollectOverwriting(m) ==
  /\ socket[m] # <<>>
  /\ LET n == Min({Len(socket[m]), ChunkSize})
     IN  /\ file' = [file EXCEPT ![m] = SubSeq(socket[m], 1, n)]
         /\ socket' = [socket EXCEPT ![m] = SubSeq(@, n + 1, Len(@))]
  /\ UNCHANGED <<printed, viewed>>

\* A socket without data is passed over.
Collect(m) ==
  /\ socket[m] # <<>>
  /\ LET n == Min({Len(socket[m]), ChunkSize})
     IN  /\ file' = [file EXCEPT ![m] = @ \o SubSeq(socket[m], 1, n)]
         /\ socket' = [socket EXCEPT ![m] = SubSeq(@, n + 1, Len(@))]
  /\ UNCHANGED <<printed, viewed>>

(***************************************************************************)
(* The viewer.                                                             *)
(***************************************************************************)

\* The files are listed once: a file that is created later is never read.
StartViewing ==
  /\ ~ viewing
  /\ viewing' = TRUE
  /\ receivers' = { m \in Motes : file[m] # <<>> }
  /\ pending' = receivers'
  /\ UNCHANGED <<collected, stopped, size, shown>>

GetSize(m) ==
  /\ m \in pending /\ \A r \in Motes : size[r] = Unknown
  /\ size' = [size EXCEPT ![m] = Len(file[m])]
  /\ UNCHANGED <<collected, viewing, receivers, pending, stopped, shown>>

EndsCut(batch) == ~ IsTail(Last(batch))

\* The lines that are in the batch from their first to their last character: a
\* tail at its head is the rest of a line that a batch ended within.
Complete(batch) ==
  LET rest == IF IsTail(Head(batch)) THEN 1 ELSE 0
  IN  [ i \in 1 .. (Len(batch) - rest) \div 2 |->
          [line |-> Line(batch[rest + 2 * i]), whole |-> TRUE] ]

\* Not the code: nothing is kept of a batch that does not parse to its end.
ParsedAllOrNothing(m, batch) == { IF EndsCut(batch) THEN <<>> ELSE Complete(batch) }

\* parse_data stops at the first line that raises an exception, and only a head
\* at the end may raise one: the rest of a line whose head was in the batch before
\* begins with neither "source" nor "aggregator" and is passed over.  A head at the
\* end is passed over, or raises, or is taken for a line: for the right one if
\* only the end of the line is missing, otherwise for one whose time is what its
\* last number happens to be.
Parsed(m, batch) ==
  { Complete(batch) } \cup
  ( IF EndsCut(batch)
    THEN { Append(Complete(batch), [line |-> Line(Last(batch)), whole |-> w]) : w \in BOOLEAN }
    ELSE {} )

\* Not the code: an aggregator's series, too, begins before its time is parsed.
BegunAnywhere(m, batch) == IF EndsCut(batch) THEN SUBSET {m} ELSE { {} }

\* The series of a source begins before the time of its line is parsed, and so may
\* begin with a head that raises; that of an aggregator begins with its point.
Begun(m, batch) ==
  IF EndsCut(batch) /\ Prints[m] = "source" THEN SUBSET {m} ELSE { {} }

\* The read of m's file that leaves the position at end.
ReadUpTo(m, end) ==
  /\ size[m] # Unknown
  /\ LET batch == SubSeq(file[m], last_position[m] + 1, Len(file[m]))
     IN  IF size[m] > last_position[m] /\ batch # <<>>
         THEN /\ \E new \in Parsed(m, batch), begun \in Begun(m, batch) :
                   /\ records' = [records EXCEPT ![m] = @ \o new]
                   /\ listed' = listed \cup begun \cup (IF new = <<>> THEN {} ELSE {m})
              /\ cut' = [cut EXCEPT ![m] = IF EndsCut(batch) THEN @ \cup {Line(Last(batch))} ELSE @]
              /\ last_position' = [last_position EXCEPT ![m] = end]
         ELSE UNCHANGED shown
  /\ size' = [size EXCEPT ![m] = Unknown]
  /\ pending' = pending \ {m}
  /\ UNCHANGED <<collected, viewing, receivers, stopped>>

\* Not the code: the next batch begins where the file ended when it was looked
\* at, not where the reading ended.
ReadToSize(m) == ReadUpTo(m, size[m])

\* The file is read to its end, which may have moved since its size was taken.
Read(m) == ReadUpTo(m, Len(file[m]))

\* A series without points raises an exception in the drawing.  Whether the
\* animation's timer survives that is a matter of the window system.
Draw ==
  /\ viewing /\ pending = {} /\ ~ stopped
  /\ \/ UNCHANGED stopped
     \/ (\E m \in listed : records[m] = <<>>) /\ stopped' = TRUE
  /\ pending' = IF stopped' THEN {} ELSE receivers
  /\ UNCHANGED <<collected, viewing, receivers, size, shown>>

View == Draw \/ \E m \in Motes : GetSize(m) \/ Read(m)

Next ==
  \/ \E m \in Motes : PrintFragment(m) \/ Collect(m)
  \/ StartViewing
  \/ View

Spec == Init /\ [][Next]_vars

(***************************************************************************)
(* Fairness: the collector goes round its sockets, and the viewer, once it  *)
(* is started, goes on with its frames.  No mote has to print.             *)
(***************************************************************************)
FairSpec ==
  /\ Spec
  /\ \A m \in Motes : WF_vars(Collect(m))
  /\ WF_vars(View)

(***************************************************************************)
(* Correctness.                                                            *)
(***************************************************************************)

Fragments == 1 .. 2 * MaxLines

TypeOK ==
  /\ printed \in [Motes -> 0 .. 2 * MaxLines]
  /\ socket \in [Motes -> Seq(Fragments)]
  /\ file \in [Motes -> Seq(Fragments)]
  /\ viewing \in BOOLEAN /\ receivers \subseteq Motes
  /\ pending \subseteq receivers /\ stopped \in BOOLEAN
  /\ size \in [Motes -> Nat \cup {Unknown}]
  /\ last_position \in [Motes -> Nat]
  /\ \A m \in Motes : last_position[m] <= Len(file[m]) /\ size[m] <= Len(file[m])
  /\ listed \subseteq receivers
  /\ records \in [Motes -> Seq([line : 1 .. MaxLines, whole : BOOLEAN])]
  /\ cut \in [Motes -> SUBSET (1 .. MaxLines)]

\* The points of a mote are in the order of its lines, one for a line at most:
\* no batch reads again what another one has read, whatever the collector
\* appends between the look at the file's size and the reading, and the two
\* halves of a line do not both give a point.
PointsInOrder ==
  \A m \in Motes : \A i, j \in DOMAIN records[m] :
    i < j => records[m][i].line < records[m][j].line

\* A line that was read is shown, a source's as an aggregator's, unless a batch
\* ended within it: the exception that a cut line raises (data_processing.py)
\* costs that line and no other.
LostOnlyByCut ==
  \A m \in receivers : \A k \in 1 .. last_position[m] :
    LET l == Line(file[m][k])
    IN  IsTail(file[m][k]) =>
          l \in cut[m] \/ [line |-> l, whole |-> TRUE] \in Range(records[m])

\* The live view ends only over a source of which nothing but cut lines was read
\* so far: a line of it that was read whole, or any line of an aggregator, never
\* ends it (parse_data with update_box_plot).
StopsOnlyByCut ==
  stopped => \E m \in receivers :
    /\ Prints[m] = "source" /\ last_position[m] > 0
    /\ \A k \in 1 .. last_position[m] : Line(file[m][k]) \in cut[m]

\* All that a mote has printed gets read, in its order, if the mote has a file
\* when the viewer starts, and again whenever it has printed more, unless an
\* exception ends the viewer's animation.
PrintedIsRead ==
  \A m \in Motes :
    m \in receivers
      ~> \/ stopped
         \/ last_position[m] = printed[m] /\ file[m] = [ k \in 1 .. printed[m] |-> k ]
=============================================================================
