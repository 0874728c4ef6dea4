------------------------- MODULE LogPipelineProofs -------------------------
(***************************************************************************)
(* Theorems about LogPipeline, for every set of motes, size of a chunk and *)
(* number of lines: the points of a mote are in the order of its lines, a  *)
(* line that was read is shown unless a batch ended within it, and only    *)
(* cut lines of a source can end the live view.                            *)
(***************************************************************************)
EXTENDS LogPipeline, SequenceTheorems, TLAPS

(***************************************************************************)
(* The invariant, mote by mote.                                            *)
(***************************************************************************)

Point == [line : 1 .. MaxLines, whole : BOOLEAN]

PipelineTypes ==
  /\ printed \in [Motes -> 0 .. 2 * MaxLines]
  /\ socket \in [Motes -> Seq(Nat)]
  /\ file \in [Motes -> Seq(Nat)]
  /\ viewing \in BOOLEAN /\ receivers \subseteq Motes
  /\ size \in [Motes -> Nat \cup {Unknown}]
  /\ last_position \in [Motes -> Nat]
  /\ records \in [Motes -> Seq(Point)]
  /\ cut \in [Motes -> SUBSET (1 .. MaxLines)]

\* A file f and a socket s hold the first n fragments, in their order.
Holds(f, s, n) ==
  /\ Len(f) + Len(s) = n
  /\ \A k \in 1 .. Len(f) : f[k] = k
  /\ \A k \in 1 .. Len(s) : s[k] = Len(f) + k

\* The file and the socket hold what was printed.
Stream(m) == Holds(file[m], socket[m], printed[m])

\* The viewer is behind the file, and where it stopped within a line it knows.
Position(m) ==
  /\ last_position[m] <= Len(file[m]) /\ size[m] <= Len(file[m])
  /\ ~ IsTail(last_position[m]) => Line(last_position[m]) \in cut[m]

\* The points are in the order of their lines, and those are behind the viewer.
Points(m) ==
  /\ \A i \in DOMAIN records[m] : records[m][i].line <= Line(last_position[m])
  /\ \A i, j \in DOMAIN records[m] : i < j => records[m][i].line < records[m][j].line

\* A line that was read whole is among the points, or a batch ended within it.
Shown(m) ==
  \A l \in 1 .. MaxLines :
    2 * l <= last_position[m] =>
      l \in cut[m] \/ [line |-> l, whole |-> TRUE] \in Range(records[m])

MoteInv(m) == Stream(m) /\ Position(m) /\ Points(m) /\ Shown(m)

PipelineInv == PipelineTypes /\ \A m \in Motes : MoteInv(m)

\* The frames: a file is looked at and read in its turn, the animation ends only
\* over a series without points, and such a series is a source's.
FrameInv ==
  /\ pending \subseteq receivers /\ stopped \in BOOLEAN /\ listed \subseteq receivers
  /\ ~ viewing => receivers = {}
  /\ \A m \in Motes : size[m] # Unknown => m \in pending
  /\ stopped => pending = {} /\ \E m \in listed : records[m] = <<>>
  /\ \A m \in listed : records[m] = <<>> => Prints[m] = "source" /\ last_position[m] > 0

(***************************************************************************)
(* Lines and batches.                                                      *)
(***************************************************************************)

\* A fragment is the head or the tail of its line.
LEMMA HeadOrTail ==
  ASSUME NEW k \in Nat
  PROVE  /\ Line(k) \in Nat
         /\ k = IF IsTail(k) THEN 2 * Line(k) ELSE 2 * Line(k) - 1
BY DEF Line, IsTail

\* Heads and tails take turns.
LEMMA TakingTurns ==
  ASSUME NEW k \in Nat
  PROVE  IsTail(k + 1) <=> ~ IsTail(k)
BY DEF IsTail

\* The two fragments of a line.
LEMMA FragmentsOfLine ==
  ASSUME NEW l \in Nat
  PROVE  /\ IsTail(2 * l) /\ Line(2 * l) = l
         /\ l > 0 => ~ IsTail(2 * l - 1) /\ Line(2 * l - 1) = l
BY DEF Line, IsTail

\* Half of a difference of numbers of which one is even.
LEMMA Halves ==
  ASSUME NEW p \in Nat, NEW n \in Nat \ {0}, NEW r \in {0, 1}, NEW a \in Nat, NEW b \in Nat,
         p + r = 2 * a, p + n = 2 * b \/ p + n = 2 * b + 1
  PROVE  (n - r) \div 2 = b - a /\ a <= b
<1>1. n - r \in Nat /\ b - a \in Int
  OBVIOUS
<1>2. n - r = 2 * (b - a) \/ n - r = 2 * (b - a) + 1
  OBVIOUS
<1> QED
  BY <1>1, <1>2

\* A batch that begins after fragment p and has n fragments gives the lines after
\* that of p, one after the other: all up to the line in which it ends, and that
\* one if it has its tail.
LEMMA CompleteLines ==
  ASSUME NEW p \in Nat, NEW n \in Nat \ {0}, NEW batch \in Seq(Nat),
         Len(batch) = n, \A k \in 1 .. n : batch[k] = p + k
  PROVE  \E l, b, e \in Nat :
           /\ l = Line(p) /\ e = Line(p + n) /\ l <= b
           /\ p = IF IsTail(p) THEN 2 * l ELSE 2 * l - 1
           /\ EndsCut(batch) <=> ~ IsTail(p + n)
           /\ p + n = IF EndsCut(batch) THEN 2 * b + 1 ELSE 2 * b
           /\ e = IF EndsCut(batch) THEN b + 1 ELSE b
           /\ Last(batch) = p + n
           /\ Complete(batch) = [ i \in 1 .. b - l |-> [line |-> l + i, whole |-> TRUE] ]
<1> DEFINE rest == IF IsTail(Head(batch)) THEN 1 ELSE 0
           last == Line(IF EndsCut(batch) THEN p + n - 1 ELSE p + n)
<1>1. Head(batch) = p + 1 /\ Last(batch) = p + n
  BY DEF Last
<1>2. EndsCut(batch) <=> ~ IsTail(p + n)
  BY <1>1 DEF EndsCut
<1>3. rest = IF IsTail(p) THEN 0 ELSE 1
  BY <1>1, TakingTurns
<1>4. Line(p) \in Nat /\ p = IF IsTail(p) THEN 2 * Line(p) ELSE 2 * Line(p) - 1
  BY HeadOrTail
<1>5. p + rest = 2 * Line(p) /\ rest \in {0, 1}
  BY <1>3, <1>4
<1>6. last \in Nat /\ p + n = IF EndsCut(batch) THEN 2 * last + 1 ELSE 2 * last
  <2>1. CASE IsTail(p + n)
    <3>1. p + n \in Nat
      OBVIOUS
    <3> QED
      BY <1>2, <2>1, <3>1, HeadOrTail
  <2>2. CASE ~ IsTail(p + n)
    <3>1. p + n - 1 \in Nat /\ p + n = (p + n - 1) + 1
      OBVIOUS
    <3>2. IsTail(p + n - 1)
      BY <2>2, <3>1, TakingTurns
    <3>3. p + n - 1 = 2 * Line(p + n - 1) /\ Line(p + n - 1) \in Nat
      BY <3>1, <3>2, HeadOrTail
    <3> QED
      BY <1>2, <2>2, <3>3
  <2> QED
    BY <2>1, <2>2
<1>7. PICK l \in Nat, b \in Nat, r \in {0, 1} : l = Line(p) /\ b = last /\ r = rest
  BY <1>4, <1>5, <1>6
<1> HIDE DEF last, rest
<1>8. p + r = 2 * l /\ (p + n = 2 * b \/ p + n = 2 * b + 1)
  BY <1>5, <1>6, <1>7
<1>9. (n - r) \div 2 = b - l /\ l <= b
  BY <1>8, Halves
<1>10. ASSUME NEW i \in 1 .. b - l
       PROVE  Line(batch[r + 2 * i]) = l + i
  <2>1. r + 2 * i \in 1 .. n /\ p + (r + 2 * i) = 2 * (l + i) /\ l + i \in Nat
    BY <1>8
  <2>2. batch[r + 2 * i] = 2 * (l + i)
    BY <2>1
  <2> QED
    BY <2>1, <2>2, FragmentsOfLine
<1>11. Complete(batch) = [ i \in 1 .. (n - r) \div 2 |->
                             [line |-> Line(batch[r + 2 * i]), whole |-> TRUE] ]
  BY <1>7 DEF Complete, rest
<1>12. Complete(batch) = [ i \in 1 .. b - l |-> [line |-> l + i, whole |-> TRUE] ]
  BY <1>9, <1>10, <1>11
<1>13. Line(p + n) = IF EndsCut(batch) THEN b + 1 ELSE b
  <2>1. CASE EndsCut(batch)
    <3>1. b + 1 \in Nat /\ b + 1 > 0 /\ p + n = 2 * (b + 1) - 1
      BY <1>6, <1>7, <2>1
    <3> QED
      BY <2>1, <3>1, FragmentsOfLine
  <2>2. CASE ~ EndsCut(batch)
    BY <1>6, <1>7, <2>2, FragmentsOfLine
  <2> QED
    BY <2>1, <2>2
<1>14. PICK e \in Nat : e = Line(p + n)
  BY <1>13
<1> QED
  BY <1>1, <1>2, <1>4, <1>6, <1>7, <1>9, <1>12, <1>13, <1>14

\* The points for a batch that ends with fragment q and begins after fragment p
\* are for consecutive lines after that of p, up to the line in which the batch
\* ends, and the whole lines are all there.
PointsOf(p, q, new) ==
  /\ new \in Seq(Point)
  /\ \A i \in DOMAIN new : new[i].line = Line(p) + i
  /\ Line(p) + Len(new) <= Line(q) /\ Line(p) <= Line(q)
  /\ \A l \in 1 .. MaxLines :
       2 * l > p + 1 /\ 2 * l <= q =>
         \E i \in DOMAIN new : new[i] = [line |-> l, whole |-> TRUE]

\* What parse_data makes of a batch.
LEMMA ParsedLines ==
  ASSUME NEW m \in Motes, NEW p \in Nat, NEW n \in Nat \ {0}, NEW batch \in Seq(Nat),
         Len(batch) = n, \A k \in 1 .. n : batch[k] = p + k, p + n <= 2 * MaxLines,
         NEW new \in Parsed(m, batch)
  PROVE  PointsOf(p, p + n, new)
<1>1. PICK l \in Nat, b \in Nat, e \in Nat :
        /\ l = Line(p) /\ e = Line(p + n) /\ l <= b
        /\ p = IF IsTail(p) THEN 2 * l ELSE 2 * l - 1
        /\ EndsCut(batch) <=> ~ IsTail(p + n)
        /\ p + n = IF EndsCut(batch) THEN 2 * b + 1 ELSE 2 * b
        /\ e = IF EndsCut(batch) THEN b + 1 ELSE b
        /\ Last(batch) = p + n
        /\ Complete(batch) = [ i \in 1 .. b - l |-> [line |-> l + i, whole |-> TRUE] ]
  BY CompleteLines
<1>2. MaxLines \in Nat /\ b <= MaxLines /\ (EndsCut(batch) => b + 1 <= MaxLines)
  <2>1. MaxLines \in Nat
    BY LogPipelineAssumption
  <2>2. CASE EndsCut(batch)
    BY <1>1, <2>1, <2>2
  <2>3. CASE ~ EndsCut(batch)
    BY <1>1, <2>1, <2>3
  <2> QED
    BY <2>1, <2>2, <2>3
<1> DEFINE C == [ i \in 1 .. b - l |-> [line |-> l + i, whole |-> TRUE] ]
<1>3. /\ b - l \in Nat /\ C \in Seq(Point) /\ Len(C) = b - l /\ DOMAIN C = 1 .. b - l
      /\ \A i \in 1 .. b - l : C[i] = [line |-> l + i, whole |-> TRUE]
  <2>1. b - l \in Nat
    BY <1>1
  <2>2. ASSUME NEW i \in 1 .. b - l
        PROVE  [line |-> l + i, whole |-> TRUE] \in Point
    <3>1. l + i \in 1 .. MaxLines
      BY <1>2, <2>1
    <3> QED
      BY <3>1 DEF Point
  <2> QED
    BY <2>1, <2>2
<1> HIDE DEF C
<1>4. \/ new = C
      \/ EndsCut(batch) /\ \E w \in BOOLEAN : new = Append(C, [line |-> b + 1, whole |-> w])
  <2>1. CASE EndsCut(batch)
    <3>1. Complete(batch) = C /\ Line(Last(batch)) = b + 1
      BY <1>1, <2>1 DEF C
    <3>2. Parsed(m, batch) =
            { C } \cup { Append(C, [line |-> b + 1, whole |-> w]) : w \in BOOLEAN }
      BY <2>1, <3>1 DEF Parsed
    <3> QED
      BY <2>1, <3>2
  <2>2. CASE ~ EndsCut(batch)
    BY <1>1, <2>2 DEF Parsed, C
  <2> QED
    BY <2>1, <2>2
<1>5. ASSUME NEW k \in 1 .. MaxLines, 2 * k > p + 1, 2 * k <= p + n
      PROVE  k - l \in 1 .. b - l
  <2>1. k > l
    <3>1. p = 2 * l \/ p = 2 * l - 1
      BY <1>1
    <3> QED
      BY <1>2, <1>5, <3>1
  <2>2. k <= b
    <3>1. p + n = 2 * b \/ p + n = 2 * b + 1
      BY <1>1
    <3> QED
      BY <1>2, <1>5, <3>1
  <2> QED
    BY <1>2, <2>1, <2>2
<1>7. CASE new = C
  <2>1. \A i \in DOMAIN new : new[i].line = l + i
    BY <1>3, <1>7
  <2>2. \A k \in 1 .. MaxLines : 2 * k > p + 1 /\ 2 * k <= p + n =>
          \E i \in DOMAIN new : new[i] = [line |-> k, whole |-> TRUE]
    <3>1. SUFFICES ASSUME NEW k \in 1 .. MaxLines, 2 * k > p + 1, 2 * k <= p + n
                   PROVE  \E i \in DOMAIN new : new[i] = [line |-> k, whole |-> TRUE]
      OBVIOUS
    <3>2. k - l \in DOMAIN new /\ l + (k - l) = k
      BY <1>3, <1>5, <1>7, <3>1
    <3>3. new[k - l] = [line |-> k, whole |-> TRUE]
      BY <1>3, <1>7, <3>2
    <3> QED
      BY <3>2, <3>3
  <2>3. l + Len(new) <= e /\ l <= e
    BY <1>1, <1>3, <1>7
  <2> QED
    BY <1>1, <1>3, <1>7, <2>1, <2>2, <2>3 DEF PointsOf
<1>8. ASSUME EndsCut(batch), NEW w \in BOOLEAN, new = Append(C, [line |-> b + 1, whole |-> w])
      PROVE  PointsOf(p, p + n, new)
  <2>1. b + 1 \in 1 .. MaxLines
    BY <1>1, <1>2, <1>8
  <2>2. PICK x \in Point : x.line = b + 1 /\ new = Append(C, x)
    <3>1. [line |-> b + 1, whole |-> w] \in Point
      BY <2>1 DEF Point
    <3> QED
      BY <1>8, <3>1
  <2>3. /\ new \in Seq(Point) /\ Len(new) = b - l + 1 /\ DOMAIN new = 1 .. b - l + 1
        /\ \A i \in 1 .. b - l : new[i] = C[i]
        /\ new[b - l + 1] = x
    <3>1. C \in Seq(Point) /\ x \in Point /\ new = Append(C, x)
      BY <1>3, <2>2
    <3>2. /\ new \in Seq(Point) /\ Len(new) = Len(C) + 1
          /\ \A i \in 1 .. Len(C) : new[i] = C[i]
          /\ new[Len(C) + 1] = x
      BY <3>1, AppendProperties
    <3>3. DOMAIN new = 1 .. Len(new)
      BY <3>2, LenProperties
    <3>4. Len(C) = b - l
      BY <1>3
    <3> QED
      BY <3>2, <3>3, <3>4
  <2>4. ASSUME NEW i \in DOMAIN new
        PROVE  new[i].line = l + i
    <3>1. CASE i = b - l + 1
      BY <1>1, <2>2, <2>3, <3>1
    <3>2. CASE i # b - l + 1
      <4>1. i \in 1 .. b - l
        BY <1>3, <2>3, <3>2
      <4> QED
        BY <1>3, <2>3, <4>1
    <3> QED
      BY <3>1, <3>2
  <2>5. \A k \in 1 .. MaxLines : 2 * k > p + 1 /\ 2 * k <= p + n =>
          \E i \in DOMAIN new : new[i] = [line |-> k, whole |-> TRUE]
    <3>1. SUFFICES ASSUME NEW k \in 1 .. MaxLines, 2 * k > p + 1, 2 * k <= p + n
                   PROVE  \E i \in DOMAIN new : new[i] = [line |-> k, whole |-> TRUE]
      OBVIOUS
    <3>2. k - l \in 1 .. b - l /\ k - l \in DOMAIN new /\ l + (k - l) = k
      BY <1>5, <2>3, <3>1
    <3>3. new[k - l] = [line |-> k, whole |-> TRUE]
      BY <1>3, <2>3, <3>2
    <3> QED
      BY <3>2, <3>3
  <2>6. l + Len(new) <= e /\ l <= e
    <3>1. e = b + 1 /\ l <= b
      BY <1>1, <1>8
    <3> QED
      BY <2>3, <3>1
  <2> QED
    BY <1>1, <2>3, <2>4, <2>5, <2>6 DEF PointsOf
<1> QED
  BY <1>4, <1>7, <1>8

(***************************************************************************)
(* The steps.                                                              *)
(***************************************************************************)

\* What a sequence becomes when another one follows it.
LEMMA Joined ==
  ASSUME NEW S, NEW f \in Seq(S), NEW h \in Seq(S)
  PROVE  /\ f \o h \in Seq(S) /\ Len(f \o h) = Len(f) + Len(h)
         /\ \A k \in 1 .. Len(f) : (f \o h)[k] = f[k]
         /\ \A k \in Len(f) + 1 .. Len(f) + Len(h) : (f \o h)[k] = h[k - Len(f)]
<1>0. PICK x \in Nat, c \in Nat : Len(f) = x /\ Len(h) = c
  OBVIOUS
<1> DEFINE g == f \o h
<1>1. /\ g \in Seq(S)
      /\ Len(g) = x + c
      /\ \A k \in 1 .. x + c : g[k] = IF k <= x THEN f[k] ELSE h[k - x]
  BY <1>0, ConcatProperties
<1> HIDE DEF g
<1>2. /\ \A k \in 1 .. x : g[k] = f[k]
      /\ \A k \in x + 1 .. x + c : g[k] = h[k - x]
  <2>1. ASSUME NEW k \in 1 .. x
        PROVE  g[k] = f[k]
    <3>1. k \in 1 .. x + c /\ k <= x
      OBVIOUS
    <3> QED
      BY <1>1, <3>1
  <2>2. ASSUME NEW k \in x + 1 .. x + c
        PROVE  g[k] = h[k - x]
    <3>1. k \in 1 .. x + c /\ ~ (k <= x)
      OBVIOUS
    <3> QED
      BY <1>1, <3>1
  <2> QED
    BY <2>1, <2>2
<1> QED
  BY <1>0, <1>1, <1>2 DEF g

\* What is left of a sequence without its first elements.
LEMMA Remaining ==
  ASSUME NEW S, NEW s \in Seq(S), NEW y \in Nat, Len(s) = y, NEW c \in 0 .. y
  PROVE  /\ SubSeq(s, c + 1, y) \in Seq(S) /\ Len(SubSeq(s, c + 1, y)) = y - c
         /\ \A k \in 1 .. y - c : SubSeq(s, c + 1, y)[k] = s[c + k]
<1> DEFINE r == SubSeq(s, c + 1, y)
<1>1. \A i \in c + 1 .. y : s[i] \in S
  OBVIOUS
<1>2. /\ r \in Seq(S)
      /\ Len(r) = IF c + 1 <= y THEN y - (c + 1) + 1 ELSE 0
      /\ \A k \in 1 .. y - (c + 1) + 1 : r[k] = s[c + 1 + k - 1]
  BY <1>1, SubSeqProperties
<1> HIDE DEF r
<1>3. Len(r) = y - c /\ \A k \in 1 .. y - c : r[k] = s[c + k]
  BY <1>2
<1> QED
  BY <1>2, <1>3 DEF r

\* A sequence is one of what its elements are.
LEMMA Retyped ==
  ASSUME NEW S, NEW s \in Seq(S), NEW T, \A k \in 1 .. Len(s) : s[k] \in T
  PROVE  s \in Seq(T)
<1>1. SubSeq(s, 1, Len(s)) \in Seq(T)
  BY SubSeqProperties
<1> QED
  BY <1>1, SubSeqFull

\* A fragment that is printed follows those in the socket.
LEMMA HoldsPrinted ==
  ASSUME NEW f \in Seq(Nat), NEW s \in Seq(Nat), NEW n \in Nat, Holds(f, s, n)
  PROVE  Holds(f, Append(s, n + 1), n + 1)
<1>1. PICK x \in Nat, y \in Nat : x = Len(f) /\ y = Len(s)
  OBVIOUS
<1> DEFINE new == Append(s, n + 1)
<1>2. /\ Len(new) = y + 1 /\ new[y + 1] = n + 1
      /\ \A k \in 1 .. y : new[k] = s[k]
  BY <1>1
<1>3. /\ x + y = n
      /\ \A k \in 1 .. y : s[k] = x + k
      /\ \A k \in 1 .. x : f[k] = k
  BY <1>1 DEF Holds
<1> HIDE DEF new
<1>4. ASSUME NEW k \in 1 .. y + 1
      PROVE  new[k] = x + k
  <2>1. CASE k = y + 1
    <3>1. n + 1 = x + k
      BY <1>3, <2>1
    <3> QED
      BY <1>2, <2>1, <3>1
  <2>2. CASE k # y + 1
    <3>1. k \in 1 .. y
      BY <2>2
    <3> QED
      BY <1>2, <1>3, <3>1
  <2> QED
    BY <2>1, <2>2
<1>5. Holds(f, new, n + 1)
  BY <1>1, <1>2, <1>3, <1>4 DEF Holds
<1> QED
  BY <1>5 DEF new

\* What the collector takes from the socket follows what is in the file.
LEMMA HoldsCollected ==
  ASSUME NEW f \in Seq(Nat), NEW s \in Seq(Nat), NEW n \in Nat, Holds(f, s, n),
         NEW c \in 1 .. Len(s)
  PROVE  LET g == f \o SubSeq(s, 1, c)
             r == SubSeq(s, c + 1, Len(s))
         IN  g \in Seq(Nat) /\ r \in Seq(Nat) /\ Len(g) = Len(f) + c /\ Holds(g, r, n)
<1>1. PICK x \in Nat, y \in Nat : x = Len(f) /\ y = Len(s)
  OBVIOUS
<1> DEFINE chunk == SubSeq(s, 1, c)
           g     == f \o chunk
           r     == SubSeq(s, c + 1, Len(s))
<1>2. c \in Nat /\ c \in 1 .. y
  BY <1>1
<1>3. /\ chunk \in Seq(Nat) /\ Len(chunk) = c /\ \A k \in 1 .. c : chunk[k] = s[k]
      /\ r \in Seq(Nat) /\ Len(r) = y - c /\ \A k \in 1 .. y - c : r[k] = s[c + k]
  <2>1. r = SubSeq(s, c + 1, y) /\ c \in 0 .. y
    BY <1>1, <1>2
  <2>2. chunk \in Seq(Nat) /\ Len(chunk) = c /\ \A k \in 1 .. c : chunk[k] = s[k]
    BY <1>1, <1>2
  <2> QED
    BY <1>1, <2>1, <2>2, Remaining
<1> HIDE DEF chunk, r
<1>4. /\ g \in Seq(Nat) /\ Len(g) = x + c
      /\ \A k \in 1 .. x : g[k] = f[k]
      /\ \A k \in x + 1 .. x + c : g[k] = chunk[k - x]
  <2>1. f \in Seq(Nat) /\ Len(f) = x /\ x \in Nat /\ chunk \in Seq(Nat) /\ Len(chunk) = c /\ c \in Nat
    BY <1>1, <1>2, <1>3
  <2>2. /\ g \in Seq(Nat) /\ Len(g) = Len(f) + Len(chunk)
        /\ \A k \in 1 .. Len(f) : g[k] = f[k]
        /\ \A k \in Len(f) + 1 .. Len(f) + Len(chunk) : g[k] = chunk[k - Len(f)]
    BY <1>3, Joined
  <2> QED
    BY <2>1, <2>2
<1> HIDE DEF g
<1>5. /\ x + y = n
      /\ \A k \in 1 .. y : s[k] = x + k
      /\ \A k \in 1 .. x : f[k] = k
  BY <1>1 DEF Holds
<1>6. ASSUME NEW k \in 1 .. x + c
      PROVE  g[k] = k
  <2>1. CASE k \in 1 .. x
    BY <1>4, <1>5, <2>1
  <2>2. CASE k \notin 1 .. x
    <3>1. k \in x + 1 .. x + c /\ k - x \in 1 .. c /\ k - x \in 1 .. y /\ x + (k - x) = k
      BY <1>2, <2>2
    <3> QED
      BY <1>3, <1>4, <1>5, <3>1
  <2> QED
    BY <2>1, <2>2
<1>7. ASSUME NEW k \in 1 .. y - c
      PROVE  r[k] = x + c + k
  <2>1. c + k \in 1 .. y
    BY <1>2
  <2>2. r[k] = x + (c + k)
    BY <1>3, <1>5, <2>1
  <2> QED
    BY <1>2, <2>2
<1>8. Holds(g, r, n)
  <2>1. Len(g) + Len(r) = n
    BY <1>2, <1>3, <1>4, <1>5
  <2> QED
    BY <1>3, <1>4, <1>6, <1>7, <2>1 DEF Holds
<1> QED
  BY <1>1, <1>3, <1>4, <1>8 DEF g, r, chunk

\* A step does nothing to a mote that it leaves alone.
LEMMA UntouchedMote ==
  ASSUME NEW m \in Motes, MoteInv(m),
         printed'[m] = printed[m], socket'[m] = socket[m], file'[m] = file[m],
         size'[m] = size[m], last_position'[m] = last_position[m],
         records'[m] = records[m], cut'[m] = cut[m]
  PROVE  MoteInv(m)'
BY DEF MoteInv, Stream, Position, Points, Shown

\* Printing.
LEMMA PrintKeeps ==
  ASSUME PipelineInv, NEW m \in Motes, PrintFragment(m)
  PROVE  PipelineInv'
<1>1. /\ printed[m] < 2 * MaxLines
      /\ printed' = [printed EXCEPT ![m] = printed[m] + 1]
      /\ socket' = [socket EXCEPT ![m] = Append(socket[m], printed'[m])]
      /\ file' = file /\ viewing' = viewing /\ receivers' = receivers /\ size' = size
      /\ last_position' = last_position /\ records' = records /\ cut' = cut
  BY DEF PrintFragment, viewed, shown
<1>2. /\ printed[m] \in 0 .. 2 * MaxLines /\ socket[m] \in Seq(Nat) /\ file[m] \in Seq(Nat)
      /\ printed'[m] = printed[m] + 1
      /\ socket'[m] = Append(socket[m], printed[m] + 1)
  BY <1>1 DEF PipelineInv, PipelineTypes
<1>3. PipelineTypes'
  <2>1. printed[m] + 1 \in 0 .. 2 * MaxLines /\ socket'[m] \in Seq(Nat)
    BY <1>1, <1>2, LogPipelineAssumption
  <2> QED
    BY <1>1, <1>2, <2>1 DEF PipelineInv, PipelineTypes
<1>4. MoteInv(m)'
  <2>1. Holds(file[m], socket[m], printed[m]) /\ printed[m] \in Nat
    BY <1>2, LogPipelineAssumption DEF PipelineInv, MoteInv, Stream
  <2>2. Stream(m)'
    BY <1>1, <1>2, <2>1, HoldsPrinted DEF Stream
  <2> QED
    BY <1>1, <2>2 DEF PipelineInv, MoteInv, Position, Points, Shown
<1>5. \A o \in Motes \ {m} : MoteInv(o)'
  <2>1. \A o \in Motes \ {m} : printed'[o] = printed[o] /\ socket'[o] = socket[o]
    BY <1>1 DEF PipelineInv, PipelineTypes
  <2> QED
    BY <1>1, <2>1, UntouchedMote DEF PipelineInv
<1> QED
  BY <1>3, <1>4, <1>5 DEF PipelineInv

\* Collecting.
LEMMA CollectKeeps ==
  ASSUME PipelineInv, NEW m \in Motes, Collect(m)
  PROVE  PipelineInv'
<1>1. PICK n \in 1 .. Len(socket[m]) :
        /\ file' = [file EXCEPT ![m] = file[m] \o SubSeq(socket[m], 1, n)]
        /\ socket' = [socket EXCEPT ![m] = SubSeq(socket[m], n + 1, Len(socket[m]))]
  <2> DEFINE n == Min({Len(socket[m]), ChunkSize})
  <2>1. socket[m] \in Seq(Nat) /\ socket[m] # <<>> /\ ChunkSize \in Nat \ {0}
    BY LogPipelineAssumption DEF Collect, PipelineInv, PipelineTypes
  <2>2. Len(socket[m]) \in Nat \ {0}
    BY <2>1
  <2>3. n \in 1 .. Len(socket[m])
    <3>1. \E x \in {Len(socket[m]), ChunkSize} : \A y \in {Len(socket[m]), ChunkSize} : x <= y
      BY <2>1, <2>2
    <3>2. n \in {Len(socket[m]), ChunkSize} /\ n <= Len(socket[m])
      BY <3>1 DEF Min
    <3> QED
      BY <2>1, <2>2, <3>2
  <2> QED
    BY <2>3 DEF Collect
<1>2. UNCHANGED <<printed, viewing, receivers, size, last_position, records, cut>>
  BY DEF Collect, viewed, shown
<1>3. /\ socket[m] \in Seq(Nat) /\ file[m] \in Seq(Nat) /\ printed[m] \in Nat
      /\ Holds(file[m], socket[m], printed[m])
  BY LogPipelineAssumption DEF PipelineInv, PipelineTypes, MoteInv, Stream
<1> DEFINE g == file[m] \o SubSeq(socket[m], 1, n)
           r == SubSeq(socket[m], n + 1, Len(socket[m]))
<1>4. g \in Seq(Nat) /\ r \in Seq(Nat) /\ Len(g) = Len(file[m]) + n /\ Holds(g, r, printed[m])
  BY <1>3, HoldsCollected
<1>5. file' = [file EXCEPT ![m] = g] /\ socket' = [socket EXCEPT ![m] = r]
  BY <1>1
<1> HIDE DEF g, r
<1>6. file'[m] = g /\ socket'[m] = r
  BY <1>5 DEF PipelineInv, PipelineTypes
<1>7. PipelineTypes'
  BY <1>2, <1>4, <1>5 DEF PipelineInv, PipelineTypes
<1>8. MoteInv(m)'
  <2>1. Stream(m)'
    BY <1>2, <1>4, <1>6 DEF Stream
  <2>2. Position(m)'
    <3>1. PICK x \in Nat : x = Len(file[m])
      BY <1>3
    <3>2. /\ last_position[m] \in Nat /\ last_position[m] <= x
          /\ size[m] \in Int /\ size[m] <= x
      BY <3>1 DEF PipelineInv, PipelineTypes, MoteInv, Position, Unknown
    <3>3. Len(file'[m]) = x + n /\ n \in Nat
      BY <1>3, <1>4, <1>6, <3>1
    <3>4. last_position[m] <= Len(file'[m]) /\ size[m] <= Len(file'[m])
      BY <3>2, <3>3
    <3> QED
      BY <1>2, <3>4 DEF PipelineInv, MoteInv, Position
  <2> QED
    BY <1>2, <2>1, <2>2 DEF PipelineInv, MoteInv, Points, Shown
<1>9. \A o \in Motes \ {m} : MoteInv(o)'
  <2>1. \A o \in Motes \ {m} : file'[o] = file[o] /\ socket'[o] = socket[o]
    BY <1>1 DEF PipelineInv, PipelineTypes
  <2> QED
    BY <1>2, <2>1, UntouchedMote DEF PipelineInv
<1> QED
  BY <1>7, <1>8, <1>9 DEF PipelineInv

\* Points for consecutive lines after l follow those for lines up to l.
LEMMA PointsFollow ==
  ASSUME NEW old \in Seq(Point), NEW new \in Seq(Point), NEW l \in Nat, NEW e \in Nat,
         \A i \in DOMAIN old : old[i].line <= l,
         \A i, j \in DOMAIN old : i < j => old[i].line < old[j].line,
         \A i \in DOMAIN new : new[i].line = l + i,
         l + Len(new) <= e, l <= e
  PROVE  LET all == old \o new
         IN  /\ all \in Seq(Point)
             /\ \A i \in DOMAIN all : all[i].line <= e
             /\ \A i, j \in DOMAIN all : i < j => all[i].line < all[j].line
             /\ Range(all) = Range(old) \cup Range(new)
<1> DEFINE all == old \o new
<1>1. PICK x \in Nat, c \in Nat : Len(old) = x /\ Len(new) = c
  OBVIOUS
<1>2. DOMAIN old = 1 .. x /\ DOMAIN new = 1 .. c /\ MaxLines \in Nat
  BY <1>1, LogPipelineAssumption
<1>3. /\ all \in Seq(Point) /\ Len(all) = Len(old) + Len(new)
      /\ \A k \in 1 .. Len(old) : all[k] = old[k]
      /\ \A k \in Len(old) + 1 .. Len(old) + Len(new) : all[k] = new[k - Len(old)]
  BY Joined
<1> HIDE DEF all
<1>4. /\ DOMAIN all = 1 .. x + c
      /\ \A k \in 1 .. x : all[k] = old[k]
      /\ \A k \in x + 1 .. x + c : all[k] = new[k - x]
  BY <1>1, <1>3
<1>5. ASSUME NEW k \in 1 .. x
      PROVE  all[k].line \in Nat /\ all[k].line <= l
  <2>1. k \in DOMAIN old /\ all[k] = old[k] /\ old[k] \in Point
    BY <1>2, <1>4
  <2>2. old[k].line \in 1 .. MaxLines
    BY <2>1 DEF Point
  <2> QED
    BY <1>2, <2>1, <2>2
<1>6. ASSUME NEW k \in x + 1 .. x + c
      PROVE  k - x \in 1 .. c /\ all[k].line = l + (k - x)
  <2>1. k - x \in 1 .. c
    OBVIOUS
  <2> QED
    BY <1>2, <1>4, <2>1
<1>7. ASSUME NEW i \in DOMAIN all
      PROVE  all[i].line <= e
  <2>1. CASE i \in 1 .. x
    BY <1>5, <2>1
  <2>2. CASE i \notin 1 .. x
    <3>1. i \in x + 1 .. x + c
      BY <1>4, <2>2
    <3> QED
      BY <1>1, <1>6, <3>1
  <2> QED
    BY <2>1, <2>2
<1>8. ASSUME NEW i \in DOMAIN all, NEW j \in DOMAIN all, i < j
      PROVE  all[i].line < all[j].line
  <2>1. i \in 1 .. x + c /\ j \in 1 .. x + c
    BY <1>4
  <2>2. CASE j <= x
    <3>1. i \in 1 .. x /\ j \in 1 .. x
      BY <1>8, <2>1, <2>2
    <3> QED
      BY <1>2, <1>4, <1>8, <3>1
  <2>3. CASE i <= x /\ j > x
    <3>1. i \in 1 .. x /\ j \in x + 1 .. x + c
      BY <2>1, <2>3
    <3> QED
      BY <1>5, <1>6, <3>1
  <2>4. CASE i > x
    <3>1. i \in x + 1 .. x + c /\ j \in x + 1 .. x + c
      BY <1>8, <2>1, <2>4
    <3> QED
      BY <1>6, <1>8, <3>1
  <2> QED
    BY <2>1, <2>2, <2>3, <2>4
<1>9. Range(all) = Range(old) \cup Range(new)
  <2>1. ASSUME NEW i \in 1 .. c
        PROVE  i + x \in DOMAIN all /\ all[i + x] = new[i]
    <3>1. i + x \in x + 1 .. x + c /\ (i + x) - x = i
      OBVIOUS
    <3> QED
      BY <1>4, <3>1
  <2>2. ASSUME NEW i \in 1 .. x
        PROVE  i \in DOMAIN all /\ all[i] = old[i]
    BY <1>4
  <2>3. ASSUME NEW i \in DOMAIN all
        PROVE  \/ \E k \in 1 .. x : all[i] = old[k]
               \/ \E k \in 1 .. c : all[i] = new[k]
    <3>1. CASE i \in 1 .. x
      BY <1>4, <3>1
    <3>2. CASE i \notin 1 .. x
      <4>1. i \in x + 1 .. x + c
        BY <1>4, <3>2
      <4> QED
        BY <1>4, <1>6, <4>1
    <3> QED
      BY <3>1, <3>2
  <2>4. Range(all) \subseteq Range(old) \cup Range(new)
    BY <1>2, <2>3 DEF Range
  <2>5. Range(old) \subseteq Range(all)
    BY <1>2, <2>2 DEF Range
  <2>6. Range(new) \subseteq Range(all)
    BY <1>2, <2>1 DEF Range
  <2> QED
    BY <2>4, <2>5, <2>6
<1> QED
  BY <1>3, <1>7, <1>8, <1>9 DEF all

\* What is read of a file are the fragments that follow the read position.
LEMMA BatchOfFile ==
  ASSUME PipelineInv, NEW m \in Motes,
         SubSeq(file[m], last_position[m] + 1, Len(file[m])) # <<>>
  PROVE  LET p     == last_position[m]
             y     == Len(file[m])
             batch == SubSeq(file[m], p + 1, y)
         IN  \E n \in Nat :
               /\ n # 0 /\ p + n = y
               /\ batch \in Seq(Nat) /\ Len(batch) = n /\ \A k \in 1 .. n : batch[k] = p + k
               /\ y <= 2 * MaxLines /\ MaxLines \in Nat
<1> DEFINE p     == last_position[m]
           y     == Len(file[m])
           batch == SubSeq(file[m], p + 1, y)
<1>1. /\ p \in Nat /\ file[m] \in Seq(Nat) /\ y \in Nat /\ p <= y
      /\ Holds(file[m], socket[m], printed[m])
  BY DEF PipelineInv, PipelineTypes, MoteInv, Position, Stream
<1>2. PICK n \in Nat : n = y - p
  BY <1>1
<1>3. /\ batch \in Seq(Nat) /\ Len(batch) = y - p
      /\ \A k \in 1 .. y - p : batch[k] = file[m][p + k]
  <2>1. p \in 0 .. y
    BY <1>1
  <2> QED
    BY <1>1, <2>1, Remaining
<1>4. batch # <<>>
  OBVIOUS
<1> HIDE DEF batch
<1>5. n # 0 /\ p + n = y
  BY <1>1, <1>2, <1>3, <1>4
<1>6. ASSUME NEW k \in 1 .. n
      PROVE  batch[k] = p + k
  <2>1. p + k \in 1 .. y
    BY <1>1, <1>5
  <2>2. file[m][p + k] = p + k
    BY <1>1, <2>1 DEF Holds
  <2> QED
    BY <1>2, <1>3, <2>2
<1>7. y <= 2 * MaxLines /\ MaxLines \in Nat
  <2>1. PICK q \in Nat : q = Len(socket[m])
    BY DEF PipelineInv, PipelineTypes
  <2>2. y + q = printed[m] /\ printed[m] \in 0 .. 2 * MaxLines
    BY <1>1, <2>1 DEF PipelineInv, PipelineTypes, Holds
  <2> HIDE DEF y
  <2> QED
    BY <1>1, <2>1, <2>2, LogPipelineAssumption
<1> QED
  BY <1>2, <1>3, <1>5, <1>6, <1>7 DEF batch

\* Reading what the file has gained.
LEMMA ReadKeeps ==
  ASSUME PipelineInv, NEW m \in Motes, Read(m)
  PROVE  PipelineInv'
<1> DEFINE p     == last_position[m]
           y     == Len(file[m])
           batch == SubSeq(file[m], p + 1, y)
<1>1. /\ size' = [size EXCEPT ![m] = Unknown]
      /\ UNCHANGED <<printed, socket, file, viewing, receivers>>
  BY DEF Read, ReadUpTo, collected
<1>2. /\ p \in Nat /\ file[m] \in Seq(Nat) /\ y \in Nat /\ p <= y
      /\ Stream(m) /\ Position(m) /\ Points(m) /\ Shown(m)
  BY DEF PipelineInv, PipelineTypes, MoteInv, Position
<1>3. Unknown <= y
  BY <1>2 DEF Unknown
<1>4. size' \in [Motes -> Nat \cup {Unknown}] /\ size'[m] = Unknown
  BY <1>1 DEF PipelineInv, PipelineTypes
<1>5. CASE ~ (size[m] > p /\ batch # <<>>)
  <2>1. UNCHANGED <<records, cut, last_position>>
    BY <1>5 DEF Read, ReadUpTo, shown
  <2>2. PipelineTypes'
    BY <1>1, <1>4, <2>1 DEF PipelineInv, PipelineTypes
  <2>3. Stream(m)' /\ Position(m)' /\ Points(m)' /\ Shown(m)'
    BY <1>1, <1>2, <1>3, <1>4, <2>1 DEF Stream, Position, Points, Shown
  <2>4. \A o \in Motes \ {m} : MoteInv(o)'
    <3>1. \A o \in Motes \ {m} : size'[o] = size[o]
      BY <1>1 DEF PipelineInv, PipelineTypes
    <3> QED
      BY <1>1, <2>1, <3>1, UntouchedMote DEF PipelineInv
  <2> QED
    BY <2>2, <2>3, <2>4 DEF PipelineInv, MoteInv
<1>6. CASE size[m] > p /\ batch # <<>>
  <2>1. PICK new \in Parsed(m, batch) :
          /\ records' = [records EXCEPT ![m] = records[m] \o new]
          /\ cut' = [cut EXCEPT ![m] = IF EndsCut(batch) THEN cut[m] \cup {Line(Last(batch))}
                                       ELSE cut[m]]
          /\ last_position' = [last_position EXCEPT ![m] = y]
    BY <1>6 DEF Read, ReadUpTo
  <2>2. PICK n \in Nat : n # 0 /\ p + n = y
        /\ batch \in Seq(Nat) /\ Len(batch) = n /\ \A k \in 1 .. n : batch[k] = p + k
        /\ y <= 2 * MaxLines /\ MaxLines \in Nat
    BY <1>6, BatchOfFile
  <2>3. /\ batch \in Seq(Nat) /\ Len(batch) = n /\ n # 0 /\ p + n = y
        /\ \A k \in 1 .. n : batch[k] = p + k
    BY <2>2
  <2>4. y <= 2 * MaxLines /\ MaxLines \in Nat
    BY <2>2
  <2> HIDE DEF batch, p, y
  <2>5. n \in Nat \ {0} /\ p + n <= 2 * MaxLines
    BY <2>3, <2>4
  <2>6. PICK l \in Nat, e \in Nat : l = Line(p) /\ e = Line(y)
    BY <1>2, HeadOrTail
  <2>7. /\ new \in Seq(Point)
        /\ \A i \in DOMAIN new : new[i].line = l + i
        /\ l + Len(new) <= e /\ l <= e
        /\ \A k \in 1 .. MaxLines :
             2 * k > p + 1 /\ 2 * k <= y =>
               \E i \in DOMAIN new : new[i] = [line |-> k, whole |-> TRUE]
    <3>1. PointsOf(p, p + n, new)
      BY <1>2, <2>1, <2>3, <2>5, ParsedLines
    <3>2. PointsOf(p, y, new)
      BY <2>3, <3>1
    <3> QED
      BY <2>6, <3>2 DEF PointsOf
  <2>8. /\ records[m] \in Seq(Point)
        /\ \A i \in DOMAIN records[m] : records[m][i].line <= l
        /\ \A i, j \in DOMAIN records[m] : i < j => records[m][i].line < records[m][j].line
    BY <1>2, <2>6 DEF PipelineInv, PipelineTypes, Points, p
  <2> DEFINE all == records[m] \o new
  <2>9. /\ all \in Seq(Point)
        /\ \A i \in DOMAIN all : all[i].line <= e
        /\ \A i, j \in DOMAIN all : i < j => all[i].line < all[j].line
        /\ Range(all) = Range(records[m]) \cup Range(new)
    BY <2>6, <2>7, <2>8, PointsFollow
  <2> HIDE DEF all
  <2>10. /\ records'[m] = all /\ last_position'[m] = y /\ last_position'[m] \in Nat
         /\ records' \in [Motes -> Seq(Point)] /\ last_position' \in [Motes -> Nat]
         /\ \A o \in Motes \ {m} : records'[o] = records[o] /\ last_position'[o] = last_position[o]
    BY <1>2, <2>1, <2>9 DEF PipelineInv, PipelineTypes, all
  <2>11. /\ cut[m] \subseteq cut'[m] /\ cut' \in [Motes -> SUBSET (1 .. MaxLines)]
         /\ ~ IsTail(y) => e \in cut'[m]
         /\ \A o \in Motes \ {m} : cut'[o] = cut[o]
    <3>1. Last(batch) = y
      <4>1. n \in 1 .. n
        BY <2>5
      <4> QED
        BY <2>3, <4>1 DEF Last
    <3>2. EndsCut(batch) <=> ~ IsTail(y)
      BY <3>1 DEF EndsCut
    <3>3. ~ IsTail(y) => e \in 1 .. MaxLines
      <4>1. ~ IsTail(y) => y = 2 * e - 1
        BY <1>2, <2>6, HeadOrTail
      <4> QED
        BY <1>2, <2>4, <2>6, <4>1
    <3> QED
      BY <2>1, <2>6, <3>1, <3>2, <3>3 DEF PipelineInv, PipelineTypes
  <2>12. PipelineTypes'
    BY <1>1, <1>4, <2>10, <2>11 DEF PipelineInv, PipelineTypes
  <2>13. Position(m)'
    BY <1>1, <1>2, <1>3, <1>4, <2>6, <2>10, <2>11 DEF Position, y
  <2>14. Points(m)'
    BY <2>6, <2>9, <2>10 DEF Points
  <2>15. Shown(m)'
    <3>1. SUFFICES ASSUME NEW k \in 1 .. MaxLines, 2 * k <= y
                   PROVE  k \in cut'[m] \/ [line |-> k, whole |-> TRUE] \in Range(all)
      BY <2>10 DEF Shown
    <3>2. CASE 2 * k <= p
      <4>1. k \in cut[m] \/ [line |-> k, whole |-> TRUE] \in Range(records[m])
        BY <1>2, <3>1, <3>2 DEF Shown, p
      <4> QED
        BY <2>9, <2>11, <4>1
    <3>3. CASE 2 * k = p + 1
      <4>1. p = 2 * k - 1 /\ k \in Nat /\ k > 0
        BY <1>2, <2>4, <3>3
      <4>2. ~ IsTail(p) /\ Line(p) = k
        BY <4>1, FragmentsOfLine
      <4>3. k \in cut[m]
        BY <1>2, <4>2 DEF Position, p
      <4> QED
        BY <2>11, <4>3
    <3>4. CASE 2 * k > p + 1
      BY <2>7, <2>9, <3>1, <3>4 DEF Range
    <3> QED
      BY <1>2, <2>4, <3>2, <3>3, <3>4
  <2>16. MoteInv(m)'
    BY <1>1, <1>2, <2>13, <2>14, <2>15 DEF MoteInv, Stream
  <2>17. \A o \in Motes \ {m} : MoteInv(o)'
    <3>1. \A o \in Motes \ {m} : size'[o] = size[o]
      BY <1>1 DEF PipelineInv, PipelineTypes
    <3> QED
      BY <1>1, <2>10, <2>11, <3>1, UntouchedMote DEF PipelineInv
  <2> QED
    BY <2>12, <2>16, <2>17 DEF PipelineInv
<1> QED
  BY <1>5, <1>6

\* No step breaks the invariant.
LEMMA StepKeepsPipeline ==
  ASSUME PipelineInv, [Next]_vars
  PROVE  PipelineInv'
<1>1. ASSUME NEW m \in Motes, PrintFragment(m)
      PROVE  PipelineInv'
  BY <1>1, PrintKeeps
<1>2. ASSUME NEW m \in Motes, Collect(m)
      PROVE  PipelineInv'
  BY <1>2, CollectKeeps
<1>3. ASSUME NEW m \in Motes, Read(m)
      PROVE  PipelineInv'
  BY <1>3, ReadKeeps
<1>4. ASSUME NEW m \in Motes, GetSize(m)
      PROVE  PipelineInv'
  <2>1. /\ size' = [size EXCEPT ![m] = Len(file[m])]
        /\ UNCHANGED <<printed, socket, file, viewing, receivers, last_position, records, cut>>
    BY <1>4 DEF GetSize, collected, shown
  <2>2. PICK y \in Nat : y = Len(file[m])
    BY DEF PipelineInv, PipelineTypes
  <2>3. /\ size'[m] = y /\ size' \in [Motes -> Nat \cup {Unknown}]
        /\ \A o \in Motes \ {m} : size'[o] = size[o]
    BY <2>1, <2>2 DEF PipelineInv, PipelineTypes
  <2>4. PipelineTypes'
    BY <2>1, <2>3 DEF PipelineInv, PipelineTypes
  <2>5. MoteInv(m)'
    BY <2>1, <2>2, <2>3 DEF PipelineInv, MoteInv, Stream, Position, Points, Shown
  <2>6. \A o \in Motes \ {m} : MoteInv(o)'
    BY <2>1, <2>3, UntouchedMote DEF PipelineInv
  <2> QED
    BY <2>4, <2>5, <2>6 DEF PipelineInv
<1>5. CASE StartViewing
  <2>1. UNCHANGED <<printed, socket, file, size, last_position, records, cut>>
    BY <1>5 DEF StartViewing, collected, shown
  <2>2. PipelineTypes'
    BY <1>5, <2>1 DEF StartViewing, PipelineInv, PipelineTypes
  <2> QED
    BY <2>1, <2>2, UntouchedMote DEF PipelineInv
<1>6. CASE Draw
  BY <1>6, UntouchedMote DEF Draw, collected, shown, PipelineInv, PipelineTypes
<1>7. CASE UNCHANGED vars
  BY <1>7, UntouchedMote DEF vars, collected, viewed, shown, PipelineInv, PipelineTypes
<1> QED
  BY <1>1, <1>2, <1>3, <1>4, <1>5, <1>6, <1>7 DEF Next, View

\* What a batch gives is shown in a series of its mote; a series that is without
\* points after it was so before, or has begun with a cut line of a source.
LEMMA SeriesAfterRead ==
  ASSUME PipelineInv, NEW m \in Motes, Read(m)
  PROVE  /\ listed \subseteq listed' /\ listed' \subseteq listed \cup {m}
         /\ \A o \in Motes \ {m} : records'[o] = records[o] /\ last_position'[o] = last_position[o]
         /\ last_position'[m] >= last_position[m]
         /\ records'[m] = <<>> => records[m] = <<>>
         /\ m \in listed' \ listed /\ records'[m] = <<>> =>
              Prints[m] = "source" /\ last_position'[m] > 0
<1> DEFINE batch == SubSeq(file[m], last_position[m] + 1, Len(file[m]))
<1>1. /\ last_position \in [Motes -> Nat] /\ records \in [Motes -> Seq(Point)]
      /\ last_position[m] \in Nat /\ records[m] \in Seq(Point)
      /\ file[m] \in Seq(Nat) /\ last_position[m] <= Len(file[m])
  BY DEF PipelineInv, PipelineTypes, MoteInv, Position
<1>2. CASE UNCHANGED shown
  BY <1>1, <1>2 DEF shown
<1>3. CASE ~ UNCHANGED shown
  <2>1. PICK new \in Parsed(m, batch), begun \in Begun(m, batch) :
          /\ records' = [records EXCEPT ![m] = records[m] \o new]
          /\ listed' = listed \cup begun \cup (IF new = <<>> THEN {} ELSE {m})
          /\ last_position' = [last_position EXCEPT ![m] = Len(file[m])]
          /\ size[m] > last_position[m] /\ batch # <<>>
    BY <1>3 DEF Read, ReadUpTo
  <2>2. /\ records'[m] = records[m] \o new /\ last_position'[m] = Len(file[m])
        /\ \A o \in Motes \ {m} : records'[o] = records[o] /\ last_position'[o] = last_position[o]
    BY <1>1, <2>1
  <2>3. begun \subseteq {m} /\ (begun # {} => Prints[m] = "source")
    BY <2>1 DEF Begun
  <2>4. Len(file[m]) > 0
    <3>1. size[m] <= Len(file[m]) /\ size[m] \in Nat \cup {Unknown} /\ Len(file[m]) \in Nat
      BY <1>1 DEF PipelineInv, PipelineTypes, MoteInv, Position
    <3> QED
      BY <1>1, <2>1, <3>1 DEF Unknown
  <2>5. new \in Seq(Point)
    <3>1. PICK n \in Nat :
            /\ n # 0 /\ last_position[m] + n = Len(file[m]) /\ Len(file[m]) <= 2 * MaxLines
            /\ batch \in Seq(Nat) /\ Len(batch) = n
            /\ \A k \in 1 .. n : batch[k] = last_position[m] + k
      BY <2>1, BatchOfFile
    <3> HIDE DEF batch
    <3>2. n \in Nat \ {0} /\ last_position[m] + n <= 2 * MaxLines
      BY <3>1
    <3>3. PointsOf(last_position[m], last_position[m] + n, new)
      BY <1>1, <2>1, <3>1, <3>2, ParsedLines
    <3> QED
      BY <3>3 DEF PointsOf
  <2>6. records'[m] = <<>> => records[m] = <<>> /\ new = <<>>
    <3>1. PICK x \in Nat, c \in Nat : x = Len(records[m]) /\ c = Len(new)
      BY <1>1, <2>5
    <3>2. Len(records[m] \o new) = x + c
      BY <1>1, <2>5, <3>1, Joined
    <3> QED
      BY <1>1, <2>2, <2>5, <3>1, <3>2
  <2> QED
    BY <1>1, <2>1, <2>2, <2>3, <2>4, <2>6
<1> QED
  BY <1>2, <1>3

\* No step breaks the frames.
LEMMA StepKeepsFrames ==
  ASSUME PipelineInv, FrameInv, [Next]_vars
  PROVE  FrameInv'
<1>1. ASSUME NEW m \in Motes, PrintFragment(m) \/ Collect(m)
      PROVE  FrameInv'
  BY <1>1 DEF PrintFragment, Collect, viewed, shown, FrameInv
<1>2. CASE StartViewing
  <2>1. receivers = {} /\ pending = {} /\ listed = {} /\ ~ stopped
    BY <1>2 DEF StartViewing, FrameInv
  <2> QED
    BY <1>2, <2>1 DEF StartViewing, shown, FrameInv
<1>3. ASSUME NEW m \in Motes, GetSize(m)
      PROVE  FrameInv'
  <2>1. /\ m \in pending /\ \A o \in Motes \ {m} : size'[o] = size[o]
        /\ UNCHANGED <<viewing, receivers, pending, stopped, last_position, listed, records>>
    BY <1>3 DEF GetSize, shown, PipelineInv, PipelineTypes
  <2> QED
    BY <2>1 DEF FrameInv
<1>4. ASSUME NEW m \in Motes, Read(m)
      PROVE  FrameInv'
  <2>1. /\ size[m] # Unknown /\ pending' = pending \ {m}
        /\ size' = [size EXCEPT ![m] = Unknown]
        /\ UNCHANGED <<viewing, receivers, stopped>>
    BY <1>4 DEF Read, ReadUpTo
  <2>2. m \in pending /\ m \in receivers /\ ~ stopped /\ viewing
    BY <2>1 DEF FrameInv
  <2>3. size'[m] = Unknown /\ \A o \in Motes \ {m} : size'[o] = size[o]
    BY <2>1 DEF PipelineInv, PipelineTypes
  <2>4. \A o \in Motes : size'[o] # Unknown => o \in pending'
    BY <2>1, <2>3 DEF FrameInv
  <2>5. ASSUME NEW o \in listed', records'[o] = <<>>
        PROVE  Prints[o] = "source" /\ last_position'[o] > 0
    <3>1. o \in Motes /\ (o \in listed \/ o = m)
      BY <1>4, <2>2, SeriesAfterRead DEF FrameInv, PipelineInv, PipelineTypes
    <3>2. CASE o # m
      BY <1>4, <2>5, <3>1, <3>2, SeriesAfterRead DEF FrameInv
    <3>3. CASE o = m /\ o \notin listed
      BY <1>4, <2>5, <3>3, SeriesAfterRead
    <3>4. CASE o = m /\ o \in listed
      <4>1. Prints[m] = "source" /\ last_position[m] > 0
        BY <1>4, <2>5, <3>4, SeriesAfterRead DEF FrameInv
      <4>2. last_position[m] \in Nat /\ last_position'[m] >= last_position[m]
        BY <1>4, SeriesAfterRead DEF PipelineInv, PipelineTypes
      <4>3. last_position'[m] \in Nat
        BY <1>4, ReadKeeps DEF PipelineInv, PipelineTypes
      <4> QED
        BY <3>4, <4>1, <4>2, <4>3
    <3> QED
      BY <3>1, <3>2, <3>3, <3>4
  <2>6. listed' \subseteq receivers
    BY <1>4, <2>2, SeriesAfterRead DEF FrameInv
  <2> QED
    BY <2>1, <2>2, <2>4, <2>5, <2>6 DEF FrameInv
<1>5. CASE Draw
  <2>1. /\ UNCHANGED <<viewing, receivers, size, last_position, listed, records>>
        /\ viewing /\ pending' = IF stopped' THEN {} ELSE receivers
        /\ stopped' = stopped \/ (stopped' = TRUE /\ \E m \in listed : records[m] = <<>>)
        /\ ~ stopped /\ pending = {}
    BY <1>5 DEF Draw, shown
  <2>2. \A m \in Motes : size[m] = Unknown
    BY <2>1 DEF FrameInv
  <2>3. stopped' \in BOOLEAN /\ pending' \subseteq receivers
    BY <2>1 DEF FrameInv
  <2>4. stopped' => pending' = {} /\ \E m \in listed : records[m] = <<>>
    BY <2>1
  <2> QED
    BY <2>1, <2>2, <2>3, <2>4 DEF FrameInv
<1>6. CASE UNCHANGED vars
  BY <1>6 DEF vars, viewed, shown, FrameInv
<1> QED
  BY <1>1, <1>2, <1>3, <1>4, <1>5, <1>6 DEF Next, View

\* At first nothing is printed.
LEMMA InitPipeline ==
  ASSUME Init
  PROVE  PipelineInv
<1>1. MaxLines \in Nat
  BY LogPipelineAssumption
<1>2. PipelineTypes
  <2>1. 0 \in 0 .. 2 * MaxLines /\ <<>> \in Seq(Nat) /\ <<>> \in Seq(Point) /\ 0 \in Nat
    BY <1>1
  <2>2. printed \in [Motes -> 0 .. 2 * MaxLines] /\ last_position \in [Motes -> Nat]
    BY <2>1 DEF Init
  <2>3. /\ socket \in [Motes -> Seq(Nat)] /\ file \in [Motes -> Seq(Nat)]
        /\ records \in [Motes -> Seq(Point)]
    BY <2>1 DEF Init
  <2> QED
    BY <2>2, <2>3 DEF Init, PipelineTypes
<1>3. ASSUME NEW m \in Motes
      PROVE  MoteInv(m)
  <2>1. /\ printed[m] = 0 /\ socket[m] = <<>> /\ file[m] = <<>> /\ size[m] = Unknown
        /\ last_position[m] = 0 /\ records[m] = <<>> /\ cut[m] = {}
    BY DEF Init
  <2>2. Stream(m)
    BY <2>1 DEF Stream, Holds
  <2>3. Position(m)
    <3>1. IsTail(0)
      BY DEF IsTail
    <3> QED
      BY <2>1, <3>1 DEF Position, Unknown
  <2>4. Points(m)
    BY <2>1 DEF Points
  <2>5. Shown(m)
    <3>1. \A l \in 1 .. MaxLines : ~ (2 * l <= 0)
      BY <1>1
    <3> QED
      BY <2>1, <3>1 DEF Shown
  <2> QED
    BY <2>2, <2>3, <2>4, <2>5 DEF MoteInv
<1> QED
  BY <1>2, <1>3 DEF PipelineInv

\* The invariants hold in every state.
LEMMA PipelineInvHolds == Spec => [](PipelineInv /\ FrameInv)
<1>1. Init => PipelineInv /\ FrameInv
  <2>1. Init => FrameInv
    BY DEF Init, FrameInv
  <2> QED
    BY <2>1, InitPipeline
<1>2. PipelineInv /\ FrameInv /\ [Next]_vars => (PipelineInv /\ FrameInv)'
  BY StepKeepsPipeline, StepKeepsFrames
<1> QED
  BY <1>1, <1>2, PTL DEF Spec

(***************************************************************************)
(* The theorems.                                                           *)
(***************************************************************************)

\* The variables keep their types: the reader never looks beyond the end of its
\* file, and what it parses are lines that were printed (MoteDataReceiver.read).
THEOREM TypeOKHolds == Spec => []TypeOK
<1>1. PipelineInv /\ FrameInv => TypeOK
  <2>1. SUFFICES ASSUME PipelineInv, FrameInv
                 PROVE  TypeOK
    OBVIOUS
  <2>2. ASSUME NEW m \in Motes
        PROVE  socket[m] \in Seq(Fragments) /\ file[m] \in Seq(Fragments)
    <3>1. /\ socket[m] \in Seq(Nat) /\ file[m] \in Seq(Nat)
          /\ printed[m] \in 0 .. 2 * MaxLines /\ Holds(file[m], socket[m], printed[m])
      BY <2>1 DEF PipelineInv, PipelineTypes, MoteInv, Stream
    <3>2. PICK x \in Nat, y \in Nat : x = Len(file[m]) /\ y = Len(socket[m])
      BY <3>1
    <3>3. /\ x + y <= 2 * MaxLines
          /\ \A k \in 1 .. x : file[m][k] = k
          /\ \A k \in 1 .. y : socket[m][k] = x + k
      <4>1. x + y = printed[m]
        BY <3>1, <3>2 DEF Holds
      <4>2. x + y <= 2 * MaxLines
        BY <3>1, <4>1, LogPipelineAssumption
      <4> QED
        BY <3>1, <3>2, <4>2 DEF Holds
    <3>4. /\ \A k \in 1 .. x : k \in Fragments
          /\ \A k \in 1 .. y : x + k \in Fragments
      BY <3>3, LogPipelineAssumption DEF Fragments
    <3>5. /\ \A k \in 1 .. x : file[m][k] \in Fragments
          /\ \A k \in 1 .. y : socket[m][k] \in Fragments
      BY <3>3, <3>4
    <3> QED
      BY <3>1, <3>2, <3>5, Retyped
  <2>3. /\ socket \in [Motes -> Seq(Fragments)]
        /\ file \in [Motes -> Seq(Fragments)]
    BY <2>1, <2>2 DEF PipelineInv, PipelineTypes
  <2>4. \A m \in Motes : last_position[m] <= Len(file[m]) /\ size[m] <= Len(file[m])
    BY <2>1 DEF PipelineInv, MoteInv, Position
  <2> QED
    BY <2>1, <2>3, <2>4 DEF PipelineInv, PipelineTypes, FrameInv, Point, TypeOK
<1> QED
  BY <1>1, PipelineInvHolds, PTL

\* The points of a mote are in the order of its lines, one for a line at most,
\* wherever chunks and batches end and whatever is appended between the look at
\* the size of the file and the reading (MoteDataReceiver.read;
\* parse_data, data_processing.py).
THEOREM PointsInOrderHolds == Spec => []PointsInOrder
<1>1. PipelineInv => PointsInOrder
  BY DEF PipelineInv, MoteInv, Points, PointsInOrder
<1> QED
  BY <1>1, PipelineInvHolds, PTL

\* A line that was read, a source's or an aggregator's, is shown unless a batch
\* ended within it: the exception that stops parse_data (data_processing.py) costs
\* the line that was cut and no other.
THEOREM LostOnlyByCutHolds == Spec => []LostOnlyByCut
<1>1. PipelineInv => LostOnlyByCut
  <2>1. SUFFICES ASSUME PipelineInv, NEW m \in receivers,
                        NEW k \in 1 .. last_position[m], IsTail(file[m][k])
                 PROVE  LET l == Line(file[m][k])
                        IN  l \in cut[m] \/ [line |-> l, whole |-> TRUE] \in Range(records[m])
    BY DEF LostOnlyByCut
  <2>2. m \in Motes
    BY <2>1 DEF PipelineInv, PipelineTypes
  <2>3. PICK x \in Nat, p \in Nat : x = Len(file[m]) /\ p = last_position[m] /\ p <= x
    BY <2>1, <2>2 DEF PipelineInv, PipelineTypes, MoteInv, Position
  <2>4. k \in 1 .. x /\ k \in Nat /\ k <= p /\ k > 0
    BY <2>1, <2>3
  <2>5. file[m][k] = k
    BY <2>1, <2>2, <2>3, <2>4 DEF PipelineInv, MoteInv, Stream, Holds
  <2>6. PICK l \in Nat : l = Line(k) /\ k = 2 * l
    BY <2>1, <2>4, <2>5, HeadOrTail
  <2>7. l \in 1 .. MaxLines
    <3>1. PICK y \in Nat : y = Len(socket[m])
      BY <2>1, <2>2 DEF PipelineInv, PipelineTypes
    <3>2. x + y = printed[m] /\ printed[m] \in 0 .. 2 * MaxLines
      BY <2>1, <2>2, <2>3, <3>1 DEF PipelineInv, PipelineTypes, MoteInv, Stream, Holds
    <3> QED
      BY <2>4, <2>6, <3>2, LogPipelineAssumption
  <2>8. Shown(m)
    BY <2>1, <2>2 DEF PipelineInv, MoteInv
  <2>9. l \in cut[m] \/ [line |-> l, whole |-> TRUE] \in Range(records[m])
    BY <2>1, <2>3, <2>4, <2>6, <2>7, <2>8 DEF Shown
  <2> QED
    BY <2>5, <2>6, <2>9
<1> QED
  BY <1>1, PipelineInvHolds, PTL

\* The live view ends only over a source of which nothing but cut lines was read:
\* no line that was read whole, and no line of an aggregator, ends it (parse_data
\* of data_processing.py with update_box_plot of visualization.py).
THEOREM StopsOnlyByCutHolds == Spec => []StopsOnlyByCut
<1>1. PipelineInv /\ FrameInv => StopsOnlyByCut
  <2>1. SUFFICES ASSUME PipelineInv, FrameInv, stopped
                 PROVE  \E m \in receivers :
                          /\ Prints[m] = "source" /\ last_position[m] > 0
                          /\ \A k \in 1 .. last_position[m] : Line(file[m][k]) \in cut[m]
    BY DEF StopsOnlyByCut
  <2>2. PICK m \in listed : records[m] = <<>>
    BY <2>1 DEF FrameInv
  <2>3. m \in receivers /\ m \in Motes /\ Prints[m] = "source" /\ last_position[m] > 0
    BY <2>1, <2>2 DEF FrameInv, PipelineInv, PipelineTypes
  <2>4. PICK x \in Nat, p \in Nat, y \in Nat :
          x = Len(file[m]) /\ p = last_position[m] /\ p <= x /\ y = Len(socket[m])
    BY <2>1, <2>3 DEF PipelineInv, PipelineTypes, MoteInv, Position
  <2>5. x <= 2 * MaxLines /\ MaxLines \in Nat
    <3>1. x + y = printed[m] /\ printed[m] \in 0 .. 2 * MaxLines
      BY <2>1, <2>3, <2>4 DEF PipelineInv, PipelineTypes, MoteInv, Stream, Holds
    <3> QED
      BY <3>1, LogPipelineAssumption
  <2>6. ASSUME NEW k \in 1 .. p
        PROVE  Line(file[m][k]) \in cut[m]
    <3>1. k \in 1 .. x /\ k \in Nat /\ k > 0 /\ k <= p
      BY <2>4
    <3>2. file[m][k] = k
      BY <2>1, <2>3, <2>4, <3>1 DEF PipelineInv, MoteInv, Stream, Holds
    <3>3. PICK l \in Nat : l = Line(k) /\ k = IF IsTail(k) THEN 2 * l ELSE 2 * l - 1
      BY <3>1, HeadOrTail
    <3>4. CASE 2 * l <= p
      <4>1. l \in 1 .. MaxLines
        <5>1. k = 2 * l \/ k = 2 * l - 1
          BY <3>3
        <5>2. l > 0 /\ 2 * l <= 2 * MaxLines
          BY <2>4, <2>5, <3>1, <3>4, <5>1
        <5> QED
          BY <2>5, <5>2
      <4>2. l \in cut[m] \/ [line |-> l, whole |-> TRUE] \in Range(records[m])
        BY <2>1, <2>3, <2>4, <3>4, <4>1 DEF PipelineInv, MoteInv, Shown
      <4>3. Range(records[m]) = {}
        BY <2>2 DEF Range
      <4> QED
        BY <3>2, <3>3, <4>2, <4>3
    <3>5. CASE ~ (2 * l <= p)
      <4>1. k = p /\ ~ IsTail(p)
        BY <2>4, <3>1, <3>3, <3>5
      <4>2. Line(p) \in cut[m]
        BY <2>1, <2>3, <2>4, <4>1 DEF PipelineInv, MoteInv, Position
      <4> QED
        BY <3>2, <4>1, <4>2
    <3> QED
      BY <3>4, <3>5
  <2> QED
    BY <2>3, <2>4, <2>6
<1> QED
  BY <1>1, PipelineInvHolds, PTL
=============================================================================
