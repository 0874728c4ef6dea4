------------------------ MODULE DistributionProofs ------------------------
(***************************************************************************)
(* Theorems about Distribution, for every size of the window and all       *)
(* samples: the running sum never drifts, the sum of squares drifts by no  *)
(* more than the number of its roundings, and the variance is negative by  *)
(* no more than that number over the count of samples.                     *)
(***************************************************************************)
EXTENDS Distribution, FiniteSetTheorems, SequenceTheorems, WellFoundedInduction, TLAPS

(***************************************************************************)
(* Sums.                                                                   *)
(***************************************************************************)

\* The function from sets of indices to sums that SumFunction recurs along.
Folds(it, fun, S) ==
  it = [T \in SUBSET S |->
         IF T = {} THEN 0
         ELSE fun[CHOOSE x \in T : TRUE] + it[T \ {CHOOSE x \in T : TRUE}]]

\* A set of numbers that is not empty has a least one.
LEMMA LeastNumber ==
  ASSUME NEW N \in SUBSET Nat, N # {}
  PROVE  \E x \in N : \A y \in N : x <= y
<1> DEFINE R == OpToRel(<, Nat)
<1>1. IsWellFoundedOn(R, Nat)
  BY NatLessThanWellFounded
<1>2. \A x, y \in Nat : <<x, y>> \in R <=> x < y
  BY DEF OpToRel
<1> HIDE DEF R
<1>3. PICK x \in N : \A y \in N : ~ (<<y, x>> \in R)
  BY <1>1, WFMin
<1>4. ASSUME NEW y \in N
      PROVE  x <= y
  <2>1. x \in Nat /\ y \in Nat
    OBVIOUS
  <2>2. ~ (y < x)
    BY <1>2, <1>3, <2>1
  <2> QED
    BY <2>1, <2>2
<1> QED
  BY <1>4

\* Among subsets of a finite set there is one that is in no way smaller.
LEMMA SmallestSet ==
  ASSUME NEW S, IsFiniteSet(S), NEW Bad \in SUBSET (SUBSET S), Bad # {}
  PROVE  \E T \in Bad : \A x \in T : T \ {x} \notin Bad
<1> DEFINE N == { n \in Nat : \E T \in Bad : Cardinality(T) = n }
<1>1. \A T \in SUBSET S : IsFiniteSet(T) /\ Cardinality(T) \in Nat
  BY FS_Subset, FS_CardinalityType
<1>2. N # {} /\ N \in SUBSET Nat
  BY <1>1
<1>3. PICK n \in N : \A m \in N : n <= m
  BY <1>2, LeastNumber
<1>4. PICK T \in Bad : Cardinality(T) = n
  BY <1>3
<1>5. ASSUME NEW x \in T, T \ {x} \in Bad
      PROVE  FALSE
  <2>1. Cardinality(T \ {x}) = Cardinality(T) - 1
    BY <1>1, FS_RemoveElement
  <2>2. Cardinality(T \ {x}) \in N
    BY <1>1, <1>5
  <2>3. n <= Cardinality(T \ {x}) /\ n \in Nat
    BY <1>2, <1>3, <2>2
  <2> QED
    BY <1>4, <2>1, <2>3
<1> QED
  BY <1>5

\* There is such a function: it is built for ever larger sets.
LEMMA FoldsExists ==
  ASSUME NEW S, IsFiniteSet(S), NEW fun
  PROVE  \E it : Folds(it, fun, S)
<1> DEFINE c(T) == CHOOSE x \in T : TRUE
           Holds(it, T) == it[T] = IF T = {} THEN 0 ELSE fun[c(T)] + it[T \ {c(T)}]
           Upto(it, n) == /\ it = [T \in SUBSET S |-> it[T]]
                          /\ \A T \in SUBSET S : Cardinality(T) <= n => Holds(it, T)
           N == { n \in Nat : ~ \E it : Upto(it, n) }
<1>1. \A T \in SUBSET S : IsFiniteSet(T) /\ Cardinality(T) \in Nat /\ (Cardinality(T) = 0 <=> T = {})
  BY FS_Subset, FS_CardinalityType, FS_EmptySet
<1>2. \A T \in SUBSET S : T # {} => /\ c(T) \in T
                                   /\ T \ {c(T)} \in SUBSET S
                                   /\ Cardinality(T \ {c(T)}) = Cardinality(T) - 1
  BY <1>1, FS_RemoveElement
<1> HIDE DEF c
<1>3. ASSUME N # {} PROVE FALSE
  <2>1. PICK n \in N : \A m \in N : n <= m
    <3>1. N \in SUBSET Nat
      OBVIOUS
    <3> HIDE DEF N
    <3> QED
      BY <1>3, <3>1, LeastNumber
  <2> n \in Nat
    OBVIOUS
  <2>2. CASE n = 0
    <3>1. DEFINE it == [T \in SUBSET S |-> 0]
    <3>2. Upto(it, 0)
      BY <1>1
    <3> QED
      BY <2>1, <2>2, <3>2
  <2>3. CASE n # 0
    <3>1. PICK m \in Nat : m = n - 1
      BY <2>3
    <3>2. m \notin N
      <4>1. ~ (n <= m)
        BY <3>1
      <4> HIDE DEF N
      <4> QED
        BY <2>1, <4>1
    <3>3. PICK h : Upto(h, m)
      BY <3>2
    <3> DEFINE it == [T \in SUBSET S |->
                       IF Cardinality(T) < n THEN h[T]
                       ELSE IF T = {} THEN 0 ELSE fun[c(T)] + h[T \ {c(T)}]]
    <3>4. \A T \in SUBSET S : Cardinality(T) < n => it[T] = h[T] /\ Holds(h, T)
      <4>1. \A T \in SUBSET S : Cardinality(T) < n => Cardinality(T) <= m
        BY <1>1, <3>1
      <4> QED
        BY <3>3, <4>1
    <3>5. ASSUME NEW T \in SUBSET S, Cardinality(T) <= n
          PROVE  Holds(it, T)
      <4>1. CASE T = {}
        <5>1. Cardinality(T) < n
          BY <1>1, <2>3, <4>1
        <5> QED
          BY <3>4, <4>1, <5>1
      <4>2. CASE T # {}
        <5>1. /\ T \ {c(T)} \in SUBSET S
              /\ Cardinality(T \ {c(T)}) < n
          BY <1>1, <1>2, <3>5, <4>2
        <5>2. it[T \ {c(T)}] = h[T \ {c(T)}]
          BY <3>4, <5>1
        <5>3. it[T] = fun[c(T)] + h[T \ {c(T)}]
          <6>1. CASE Cardinality(T) < n
            BY <3>4, <4>2, <6>1
          <6>2. CASE ~ (Cardinality(T) < n)
            BY <4>2, <6>2
          <6> QED
            BY <6>1, <6>2
        <5> HIDE DEF it
        <5> QED
          BY <4>2, <5>2, <5>3
      <4> QED
        BY <4>1, <4>2
    <3>6. Upto(it, n)
      BY <3>5
    <3> QED
      BY <2>1, <3>6
  <2> QED
    BY <2>2, <2>3
<1>4. PICK it : Upto(it, Cardinality(S))
  BY <1>1, <1>3
<1>5. \A T \in SUBSET S : Cardinality(T) <= Cardinality(S)
  BY FS_Subset
<1>6. it = [T \in SUBSET S |-> IF T = {} THEN 0 ELSE fun[c(T)] + it[T \ {c(T)}]]
  BY <1>4, <1>5
<1> QED
  BY <1>6 DEF Folds, c

\* SumFunction is what such a function makes of all indices.
LEMMA SumFolds ==
  ASSUME NEW S, IsFiniteSet(S), NEW fun
  PROVE  \E it : Folds(it, fun, S) /\ SumFunctionOnSet(fun, S) = it[S]
<1> DEFINE h == CHOOSE it : Folds(it, fun, S)
<1>1. Folds(h, fun, S)
  BY FoldsExists
<1>2. SumFunctionOnSet(fun, S) = h[S]
  BY DEF SumFunctionOnSet, FoldFunctionOnSet, MapThenFoldSet, Folds
<1> QED
  BY <1>1, <1>2

\* Sums of numbers are numbers.
LEMMA SumsAreNumbers ==
  ASSUME NEW S, IsFiniteSet(S), NEW fun, \A x \in S : fun[x] \in Int,
         NEW it, Folds(it, fun, S)
  PROVE  \A T \in SUBSET S : it[T] \in Int
<1> DEFINE Bad == { T \in SUBSET S : it[T] \notin Int }
<1>1. ASSUME Bad # {} PROVE FALSE
  <2>1. PICK T \in Bad : \A x \in T : T \ {x} \notin Bad
    BY <1>1, SmallestSet
  <2>2. PICK x : x = CHOOSE y \in T : TRUE
    OBVIOUS
  <2>3. T # {}
    BY <2>1 DEF Folds
  <2>4. x \in T /\ it[T] = fun[x] + it[T \ {x}]
    BY <2>2, <2>3 DEF Folds
  <2>5. it[T \ {x}] \in Int
    BY <2>1, <2>4
  <2> QED
    BY <2>4, <2>5
<1> QED
  BY <1>1

\* The order in which the indices are added does not matter.
LEMMA AnyOrder ==
  ASSUME NEW S, IsFiniteSet(S), NEW fun, \A x \in S : fun[x] \in Int,
         NEW it, Folds(it, fun, S),
         NEW U \in SUBSET S, NEW z \in U
  PROVE  it[U] = fun[z] + it[U \ {z}]
<1> DEFINE Bad == { T \in SUBSET S : \E y \in T : it[T] # fun[y] + it[T \ {y}] }
<1>1. ASSUME Bad # {} PROVE FALSE
  <2>1. PICK T \in Bad : \A x \in T : T \ {x} \notin Bad
    BY <1>1, SmallestSet
  <2>2. PICK y \in T : it[T] # fun[y] + it[T \ {y}]
    BY <2>1
  <2>3. PICK x : x = CHOOSE v \in T : TRUE
    OBVIOUS
  <2>4. x \in T /\ it[T] = fun[x] + it[T \ {x}]
    BY <2>2, <2>3 DEF Folds
  <2>5. x # y
    BY <2>2, <2>4
  <2>6. it[T \ {x}] = fun[y] + it[(T \ {x}) \ {y}]
    BY <2>1, <2>4, <2>5
  <2>7. it[T \ {y}] = fun[x] + it[(T \ {y}) \ {x}]
    BY <2>1, <2>4, <2>5
  <2>8. (T \ {x}) \ {y} = (T \ {y}) \ {x}
    OBVIOUS
  <2>9. PICK r \in Int : r = it[(T \ {x}) \ {y}]
    BY SumsAreNumbers
  <2>10. PICK u \in Int, v \in Int : u = fun[x] /\ v = fun[y]
    BY <2>2, <2>4
  <2>11. it[T \ {x}] = v + r /\ it[T \ {y}] = u + r
    BY <2>6, <2>7, <2>8, <2>9, <2>10
  <2> QED
    BY <2>2, <2>4, <2>10, <2>11
<1> QED
  BY <1>1

\* The sums of the first numbers of a sequence.
Parts(p, s) ==
  /\ p \in [0 .. Len(s) -> Int]
  /\ p[0] = 0
  /\ \A i \in 1 .. Len(s) : p[i] = p[i - 1] + s[i]

\* Every sequence of numbers has them, and the last one is its sum.
LEMMA PartsExist ==
  ASSUME NEW s \in Seq(Int)
  PROVE  \E p : Parts(p, s) /\ SumFunction(s) = p[Len(s)]
<1>1. PICK n \in Nat : n = Len(s)
  OBVIOUS
<1> DEFINE S == 1 .. n
<1>2. DOMAIN s = S /\ IsFiniteSet(S) /\ \A x \in S : s[x] \in Int
  BY <1>1, FS_Interval
<1> HIDE DEF S
<1>3. PICK it : Folds(it, s, S) /\ SumFunctionOnSet(s, S) = it[S]
  BY <1>2, SumFolds
<1>4. \A T \in SUBSET S : \A y \in T : it[T] = s[y] + it[T \ {y}]
  <2>1. IsFiniteSet(S) /\ (\A x \in S : s[x] \in Int) /\ Folds(it, s, S)
    BY <1>2, <1>3
  <2>2. ASSUME NEW T \in SUBSET S, NEW y \in T
        PROVE  it[T] = s[y] + it[T \ {y}]
    BY <2>1, AnyOrder
  <2> QED
    BY <2>2
<1>5. \A T \in SUBSET S : it[T] \in Int
  BY <1>2, <1>3, SumsAreNumbers
<1> DEFINE p == [k \in 0 .. n |-> it[1 .. k]]
<1>6. p \in [0 .. n -> Int]
  <2>1. \A k \in 0 .. n : 1 .. k \in SUBSET S
    BY DEF S
  <2> QED
    BY <1>5, <2>1
<1>7. p[0] = 0
  BY <1>3, 1 .. 0 = {} DEF Folds
<1>8. ASSUME NEW i \in 1 .. n PROVE p[i] = p[i - 1] + s[i]
  <2>1. /\ (1 .. i) \ {i} = 1 .. i - 1 /\ i \in 1 .. i
        /\ 1 .. i \in SUBSET S /\ 1 .. i - 1 \in SUBSET S
        /\ i \in 0 .. n /\ i - 1 \in 0 .. n /\ i \in S
    BY DEF S
  <2>2. it[1 .. i] = s[i] + it[1 .. i - 1]
    BY <1>4, <2>1
  <2>3. it[1 .. i - 1] \in Int /\ s[i] \in Int
    BY <1>2, <1>5, <2>1
  <2>4. p[i] = it[1 .. i] /\ p[i - 1] = it[1 .. i - 1]
    BY <2>1
  <2> QED
    BY <2>2, <2>3, <2>4
<1>9. SumFunction(s) = p[n]
  <2>1. p[n] = it[S]
    BY DEF S
  <2> QED
    BY <1>2, <1>3, <2>1 DEF SumFunction
<1> HIDE DEF p
<1>10. Parts(p, s)
  BY <1>1, <1>6, <1>7, <1>8 DEF Parts
<1> QED
  BY <1>1, <1>9, <1>10

\* There is but one way to add the numbers up.
LEMMA PartsAgree ==
  ASSUME NEW s \in Seq(Int), NEW p, NEW q, Parts(p, s), Parts(q, s)
  PROVE  p = q
<1>1. PICK n \in Nat : n = Len(s)
  OBVIOUS
<1>2. /\ p \in [0 .. n -> Int] /\ q \in [0 .. n -> Int]
      /\ p[0] = 0 /\ q[0] = 0
      /\ \A i \in 1 .. n : p[i] = p[i - 1] + s[i] /\ q[i] = q[i - 1] + s[i]
  BY <1>1 DEF Parts
<1> DEFINE N == { k \in 0 .. n : p[k] # q[k] }
<1>3. ASSUME N # {} PROVE FALSE
  <2>1. PICK k \in N : \A j \in N : k <= j
    <3>1. N \in SUBSET Nat
      OBVIOUS
    <3> HIDE DEF N
    <3> QED
      BY <1>3, <3>1, LeastNumber
  <2>2. k \in 1 .. n
    BY <1>2, <2>1
  <2>3. p[k - 1] = q[k - 1]
    <3>1. k - 1 \notin N
      <4>1. k \in Int /\ ~ (k <= k - 1)
        BY <2>2
      <4> HIDE DEF N
      <4> QED
        BY <2>1, <4>1
    <3> QED
      BY <2>2, <3>1
  <2> QED
    BY <1>2, <2>1, <2>2, <2>3
<1>4. \A k \in 0 .. n : p[k] = q[k]
  BY <1>3
<1> HIDE DEF N
<1> QED
  BY <1>2, <1>4

\* The sum of a sequence is the last of its parts.
LEMMA SumOfParts ==
  ASSUME NEW s \in Seq(Int), NEW p, Parts(p, s)
  PROVE  SumFunction(s) = p[Len(s)]
BY PartsExist, PartsAgree

\* Nothing sums up to nothing.
LEMMA SumOfNothing == SumFunction(<<>>) = 0
<1> DEFINE p == [k \in 0 .. 0 |-> 0]
<1>1. <<>> \in Seq(Int) /\ Len(<<>>) = 0
  OBVIOUS
<1>2. p \in [0 .. 0 -> Int] /\ p[0] = 0
  OBVIOUS
<1> HIDE DEF p
<1>3. Parts(p, <<>>)
  BY <1>1, <1>2 DEF Parts
<1> QED
  BY <1>1, <1>2, <1>3, SumOfParts

\* A number put at the end of a sequence adds to its sum.
LEMMA SumOfAppend ==
  ASSUME NEW s \in Seq(Int), NEW x \in Int
  PROVE  /\ SumFunction(s) \in Int
         /\ SumFunction(Append(s, x)) = SumFunction(s) + x
<1>1. PICK n \in Nat : n = Len(s)
  OBVIOUS
<1>2. PICK p : Parts(p, s) /\ SumFunction(s) = p[Len(s)]
  BY PartsExist
<1>3. p \in [0 .. n -> Int] /\ p[0] = 0 /\ \A i \in 1 .. n : p[i] = p[i - 1] + s[i]
  BY <1>1, <1>2 DEF Parts
<1>4. /\ Append(s, x) \in Seq(Int) /\ Len(Append(s, x)) = n + 1
      /\ \A i \in 1 .. n : Append(s, x)[i] = s[i]
      /\ Append(s, x)[n + 1] = x
  BY <1>1
<1> DEFINE q == [k \in 0 .. n + 1 |-> IF k <= n THEN p[k] ELSE p[n] + x]
<1>5. q \in [0 .. n + 1 -> Int] /\ q[0] = 0 /\ q[n + 1] = p[n] + x
  BY <1>3
<1>6. ASSUME NEW i \in 1 .. n + 1
      PROVE  q[i] = q[i - 1] + Append(s, x)[i]
  <2>1. CASE i = n + 1
    <3>1. i - 1 = n /\ q[n] = p[n]
      BY <2>1
    <3> QED
      BY <1>4, <1>5, <2>1, <3>1
  <2>2. CASE i # n + 1
    <3>1. i \in 1 .. n /\ q[i] = p[i] /\ q[i - 1] = p[i - 1]
      BY <2>2
    <3> QED
      BY <1>3, <1>4, <3>1
  <2> QED
    BY <2>1, <2>2
<1> HIDE DEF q
<1>7. Parts(q, Append(s, x))
  BY <1>4, <1>5, <1>6 DEF Parts
<1>8. SumFunction(Append(s, x)) = q[n + 1]
  BY <1>4, <1>7, SumOfParts
<1> QED
  BY <1>1, <1>2, <1>3, <1>5, <1>8

\* The first number taken off a sequence is taken off its sum.
LEMMA SumOfTail ==
  ASSUME NEW s \in Seq(Int), s # <<>>
  PROVE  SumFunction(Tail(s)) = SumFunction(s) - s[1]
<1>1. PICK n \in Nat \ {0} : n = Len(s)
  OBVIOUS
<1>2. PICK p : Parts(p, s) /\ SumFunction(s) = p[Len(s)]
  BY PartsExist
<1>3. p \in [0 .. n -> Int] /\ p[0] = 0 /\ \A i \in 1 .. n : p[i] = p[i - 1] + s[i]
  BY <1>1, <1>2 DEF Parts
<1>4. /\ Tail(s) \in Seq(Int) /\ Len(Tail(s)) = n - 1
      /\ \A i \in 1 .. n - 1 : Tail(s)[i] = s[i + 1]
      /\ s[1] \in Int
  BY <1>1
<1> DEFINE q == [k \in 0 .. n - 1 |-> p[k + 1] - s[1]]
<1>5. q \in [0 .. n - 1 -> Int] /\ q[0] = 0 /\ q[n - 1] = p[n] - s[1]
  <2>1. p[1] = s[1]
    BY <1>3, <1>4
  <2> QED
    BY <1>3, <1>4, <2>1
<1>6. ASSUME NEW i \in 1 .. n - 1
      PROVE  q[i] = q[i - 1] + Tail(s)[i]
  <2>1. q[i] = p[i + 1] - s[1] /\ q[i - 1] = p[i] - s[1]
    OBVIOUS
  <2>2. /\ p[i + 1] = p[i] + s[i + 1] /\ p[i] \in Int
        /\ s[i + 1] \in Int /\ Tail(s)[i] = s[i + 1]
    <3>1. i + 1 \in 1 .. n /\ i \in 0 .. n /\ (i + 1) - 1 = i
      OBVIOUS
    <3> QED
      BY <1>1, <1>3, <1>4, <3>1
  <2> QED
    BY <1>4, <2>1, <2>2
<1> HIDE DEF q
<1>7. Parts(q, Tail(s))
  BY <1>4, <1>5, <1>6 DEF Parts
<1>8. SumFunction(Tail(s)) = q[n - 1]
  BY <1>4, <1>7, SumOfParts
<1> QED
  BY <1>1, <1>2, <1>5, <1>8

(***************************************************************************)
(* The ring.                                                               *)
(***************************************************************************)

\* The ring holds the last samples: the slot of the next sample is followed by
\* the oldest ones, or by zeros as long as there are none.
Ring ==
  /\ window_full <=> Len(recent) = WindowSize
  /\ ~ window_full => sample_num = Len(recent)
  /\ \A j \in Slots : j < sample_num => samples[j] = recent[Len(recent) - sample_num + j + 1]
  /\ \A j \in Slots : j >= sample_num =>
       samples[j] = IF window_full THEN recent[j - sample_num + 1] ELSE 0

\* The means of the first samples.
FirstMean ==
  recent # <<>> /\ Len(recent) < WindowSize => mean = [num |-> sum, den |-> Len(recent)]

RInv == TypeOK /\ Ring /\ SumIsRecent /\ FirstMean

\* What the ring's constants are.
LEMMA WindowNumbers ==
  /\ WindowSize \in Nat \ {0}
  /\ Samples \subseteq Int
  /\ Slots = 0 .. WindowSize - 1
BY DistributionAssumption DEF Slots

\* The samples that count are followed by the new one.
LEMMA RecentGrows ==
  ASSUME TypeOK, NEW x \in Samples, Update(x)
  PROVE  /\ Counted \in Seq(Samples)
         /\ Len(Counted) < WindowSize
         /\ recent' = Append(Counted, x)
         /\ recent' \in Seq(Samples)
         /\ recent' # <<>>
         /\ Len(recent') = Len(Counted) + 1
         /\ Len(recent') = IF Len(recent) < WindowSize THEN Len(recent) + 1 ELSE WindowSize
<1>1. recent \in Seq(Samples) /\ Len(recent) \in Nat /\ Len(recent) <= WindowSize
  BY DEF TypeOK
<1>2. recent' = Append(Counted, x)
  BY DEF Update, Counted
<1>3. Counted \in Seq(Samples) /\ Len(Counted) \in Nat /\ Len(Counted) < WindowSize
      /\ Len(Counted) = IF Len(recent) < WindowSize THEN Len(recent) ELSE WindowSize - 1
  <2>1. CASE Len(recent) < WindowSize
    BY <1>1, <2>1 DEF Counted
  <2>2. CASE ~ (Len(recent) < WindowSize)
    <3>1. recent # <<>> /\ Len(recent) = WindowSize
      BY <1>1, <2>2, WindowNumbers
    <3>2. Tail(recent) \in Seq(Samples) /\ Len(Tail(recent)) = WindowSize - 1
      BY <1>1, <3>1
    <3> QED
      BY <2>2, <3>2, WindowNumbers DEF Counted
  <2> QED
    BY <2>1, <2>2
<1>4. /\ Append(Counted, x) \in Seq(Samples)
      /\ Append(Counted, x) # <<>>
      /\ Len(Append(Counted, x)) = Len(Counted) + 1
  BY <1>3
<1> QED
  BY <1>1, <1>2, <1>3, <1>4, WindowNumbers

\* How the new sample and those before it are found among the last ones.
LEMMA RecentShifts ==
  ASSUME TypeOK, NEW x \in Samples, Update(x)
  PROVE  /\ recent'[Len(recent')] = x
         /\ Len(recent) < WindowSize => \A i \in 1 .. Len(recent) : recent'[i] = recent[i]
         /\ Len(recent) = WindowSize => \A i \in 1 .. WindowSize - 1 : recent'[i] = recent[i + 1]
<1>1. /\ Counted \in Seq(Samples) /\ Len(Counted) \in Nat
      /\ recent' = Append(Counted, x)
      /\ Len(recent') = Len(Counted) + 1
  BY RecentGrows
<1>2. recent'[Len(recent')] = x /\ \A i \in 1 .. Len(Counted) : recent'[i] = Counted[i]
  BY <1>1
<1>3. CASE Len(recent) < WindowSize
  BY <1>2, <1>3, WindowNumbers DEF Counted
<1>4. CASE ~ (Len(recent) < WindowSize)
  <2>1. recent \in Seq(Samples) /\ recent # <<>> /\ Len(recent) = WindowSize
    BY <1>4, WindowNumbers DEF TypeOK
  <2>2. Counted = Tail(recent)
    BY <1>4 DEF Counted
  <2>3. Len(Counted) = WindowSize - 1 /\ \A i \in 1 .. WindowSize - 1 : Counted[i] = recent[i + 1]
    BY <2>1, <2>2, WindowNumbers
  <2> QED
    BY <1>2, <1>4, <2>1, <2>3, WindowNumbers
<1> QED
  BY <1>3, <1>4

\* What update_distribution makes of the ring and its index.
LEMMA RingMoves ==
  ASSUME TypeOK, Ring, NEW x \in Samples, Update(x)
  PROVE  /\ sample_num \in 0 .. WindowSize - 1
         /\ sample_num' = IF sample_num = WindowSize - 1 THEN 0 ELSE sample_num + 1
         /\ window_full' <=> Len(recent') = WindowSize
         /\ samples'[sample_num] = x
         /\ \A j \in Slots : j # sample_num => samples'[j] = samples[j]
<1>1. sample_num \in 0 .. WindowSize - 1 /\ samples \in [Slots -> Samples \cup {0}]
  BY WindowNumbers DEF TypeOK
<1>2. sample_num' = IF sample_num = WindowSize - 1 THEN 0 ELSE sample_num + 1
  <2>1. PICK k \in 0 .. WindowSize - 1 : k = sample_num
    BY <1>1
  <2>2. CASE k = WindowSize - 1
    <3>1. k + 1 = WindowSize
      BY <2>2, WindowNumbers
    <3>2. WindowSize % WindowSize = 0
      BY WindowNumbers
    <3> QED
      BY <2>1, <2>2, <3>1, <3>2 DEF Update, NextIndex
  <2>3. CASE k # WindowSize - 1
    <3>1. (k + 1) % WindowSize = k + 1
      BY <2>3, WindowNumbers
    <3> QED
      BY <2>1, <2>3, <3>1 DEF Update, NextIndex
  <2> QED
    BY <2>1, <2>2, <2>3
<1>3. samples' = [samples EXCEPT ![sample_num] = x]
  BY DEF Update
<1>4. window_full' <=> Len(recent') = WindowSize
  <2>1. window_full' <=> window_full \/ sample_num = WindowSize - 1
    BY DEF Update
  <2>2. Len(recent) \in Nat /\ Len(recent) <= WindowSize
    BY DEF TypeOK
  <2>3. Len(recent') = IF Len(recent) < WindowSize THEN Len(recent) + 1 ELSE WindowSize
    BY RecentGrows
  <2>4. /\ window_full <=> Len(recent) = WindowSize
        /\ ~ window_full => sample_num = Len(recent)
    BY DEF Ring
  <2> QED
    BY <1>1, <2>1, <2>2, <2>3, <2>4, WindowNumbers
<1> QED
  BY <1>1, <1>2, <1>3, <1>4, WindowNumbers

LEMMA RingStep ==
  ASSUME TypeOK, Ring, NEW x \in Samples, Update(x)
  PROVE  Ring'
<1>1. PICK n \in Nat : n = Len(recent)
  BY DEF TypeOK
<1>2. PICK k \in 0 .. WindowSize - 1 : k = sample_num
  BY RingMoves
<1>3. /\ n <= WindowSize
      /\ window_full <=> n = WindowSize
      /\ n < WindowSize => k = n
  BY <1>1, <1>2 DEF TypeOK, Ring
<1>4. /\ \A j \in Slots : j < k => samples[j] = recent[n - k + j + 1]
      /\ \A j \in Slots : j >= k => samples[j] = IF n = WindowSize THEN recent[j - k + 1] ELSE 0
  BY <1>1, <1>2, <1>3 DEF Ring
<1>5. PICK m \in Nat : m = Len(recent') /\ m = IF n < WindowSize THEN n + 1 ELSE WindowSize
  BY <1>1, RecentGrows, WindowNumbers
<1>6. PICK l \in 0 .. WindowSize - 1 :
        l = sample_num' /\ l = IF k = WindowSize - 1 THEN 0 ELSE k + 1
  BY <1>2, RingMoves, WindowNumbers
<1>7. /\ samples'[k] = x
      /\ \A j \in Slots : j # k => samples'[j] = samples[j]
      /\ window_full' <=> m = WindowSize
  BY <1>2, <1>5, RingMoves
<1>8. /\ recent'[m] = x
      /\ n < WindowSize => \A i \in 1 .. n : recent'[i] = recent[i]
      /\ n = WindowSize => \A i \in 1 .. WindowSize - 1 : recent'[i] = recent[i + 1]
  BY <1>1, <1>5, RecentShifts
<1>9. m < WindowSize => l = m
  BY <1>3, <1>5, <1>6, WindowNumbers
<1>10. ASSUME NEW j \in Slots, j < l
       PROVE  samples'[j] = recent'[m - l + j + 1]
  <2>1. j \in 0 .. WindowSize - 1 /\ l = k + 1 /\ k < WindowSize - 1
    BY <1>6, <1>10, WindowNumbers
  <2>2. CASE j = k
    <3>1. m - l + j + 1 = m
      BY <1>5, <1>6, <2>1, <2>2
    <3> QED
      BY <1>7, <1>8, <2>2, <3>1
  <2>3. CASE j # k
    <3>1. samples'[j] = recent[n - k + j + 1] /\ j < k
      BY <1>4, <1>7, <1>10, <2>1, <2>3
    <3>2. CASE n < WindowSize
      <4>1. n - k + j + 1 = j + 1 /\ m - l + j + 1 = j + 1 /\ j + 1 \in 1 .. n
        BY <1>3, <1>5, <2>1, <3>1, <3>2
      <4> QED
        BY <1>8, <3>1, <3>2, <4>1
    <3>3. CASE n = WindowSize
      <4>1. PICK i \in 1 .. WindowSize - 1 : i = m - l + j + 1 /\ i + 1 = n - k + j + 1
        BY <1>5, <2>1, <3>1, <3>3, WindowNumbers
      <4> QED
        BY <1>8, <3>1, <3>3, <4>1
    <3> QED
      BY <1>3, <3>2, <3>3, WindowNumbers
  <2> QED
    BY <2>2, <2>3
<1>11. ASSUME NEW j \in Slots, j >= l
       PROVE  samples'[j] = IF window_full' THEN recent'[j - l + 1] ELSE 0
  <2>1. j \in 0 .. WindowSize - 1
    BY WindowNumbers
  <2>2. CASE m < WindowSize
    <3>1. j # k /\ j >= k /\ n # WindowSize
      BY <1>3, <1>5, <1>9, <1>11, <2>1, <2>2, WindowNumbers
    <3>2. samples'[j] = 0
      BY <1>4, <1>7, <3>1
    <3> QED
      BY <1>7, <2>2, <3>2, WindowNumbers
  <2>3. CASE m = WindowSize
    <3>1. CASE j = k
      <4>1. l = 0 /\ k = WindowSize - 1
        BY <1>6, <1>11, <3>1
      <4>2. j - l + 1 = m
        BY <2>3, <3>1, <4>1, WindowNumbers
      <4> QED
        BY <1>7, <1>8, <2>3, <3>1, <4>2
    <3>2. CASE j # k /\ n < WindowSize
      <4>1. k = n /\ n = WindowSize - 1 /\ l = 0 /\ j < k
        BY <1>3, <1>5, <1>6, <2>1, <2>3, <3>2, WindowNumbers
      <4>2. samples'[j] = recent[n - k + j + 1] /\ n - k + j + 1 = j + 1 /\ j + 1 \in 1 .. n /\ j - l + 1 = j + 1
        BY <1>4, <1>7, <2>1, <3>2, <4>1, WindowNumbers
      <4> QED
        BY <1>7, <1>8, <2>3, <3>2, <4>2
    <3>3. CASE j # k /\ n = WindowSize /\ l = 0
      <4>1. k = WindowSize - 1 /\ j < k
        BY <1>6, <2>1, <3>3, WindowNumbers
      <4>2. samples'[j] = recent[n - k + j + 1]
        BY <1>4, <1>7, <3>3, <4>1
      <4>3. PICK i \in 1 .. WindowSize - 1 : i = j - l + 1 /\ i + 1 = n - k + j + 1
        BY <2>1, <3>3, <4>1, WindowNumbers
      <4> QED
        BY <1>7, <1>8, <2>3, <3>3, <4>2, <4>3
    <3>4. CASE j # k /\ n = WindowSize /\ l # 0
      <4>1. l = k + 1 /\ j >= k + 1
        BY <1>6, <1>11, <3>4
      <4>2. samples'[j] = recent[j - k + 1]
        BY <1>4, <1>7, <2>1, <3>4, <4>1
      <4>3. PICK i \in 1 .. WindowSize - 1 : i = j - l + 1 /\ i + 1 = j - k + 1
        BY <2>1, <4>1, WindowNumbers
      <4> QED
        BY <1>7, <1>8, <2>3, <3>4, <4>2, <4>3
    <3> QED
      BY <1>3, <3>1, <3>2, <3>3, <3>4, WindowNumbers
  <2> QED
    BY <1>5, <1>3, <2>2, <2>3, WindowNumbers
<1>12. /\ window_full' <=> Len(recent') = WindowSize
       /\ ~ window_full' => sample_num' = Len(recent')
  BY <1>3, <1>5, <1>6, <1>7, <1>9, WindowNumbers
<1>13. Slots' = Slots
  BY DEF Slots
<1> QED
  BY <1>5, <1>6, <1>10, <1>11, <1>12, <1>13 DEF Ring

\* What is subtracted is the sample that no longer counts, or the zero of a
\* slot that has not been written yet.
LEMMA OldestSample ==
  ASSUME TypeOK, Ring, NEW x \in Samples, Update(x)
  PROVE  /\ NextSlot \in Slots
         /\ samples'[NextSlot] = IF Len(recent') < WindowSize THEN 0 ELSE recent'[1]
<1>1. sample_num \in 0 .. WindowSize - 1 /\ sample_num' = NextSlot /\ NextSlot \in Slots
  BY RingMoves, WindowNumbers DEF NextSlot
<1>2. Ring' /\ Slots' = Slots
  BY RingStep DEF Slots
<1>3. samples'[sample_num'] = IF window_full' THEN recent'[sample_num' - sample_num' + 1] ELSE 0
  BY <1>1, <1>2, WindowNumbers DEF Ring
<1>4. sample_num' - sample_num' + 1 = 1
  BY <1>1, WindowNumbers
<1>5. window_full' <=> ~ (Len(recent') < WindowSize)
  <2>1. Len(recent') = WindowSize \/ Len(recent') < WindowSize
    <3>1. Len(recent) \in Nat /\ Len(recent) <= WindowSize
      BY DEF TypeOK
    <3> QED
      BY <3>1, RecentGrows, WindowNumbers
  <2> QED
    BY <2>1, RingMoves, WindowNumbers
<1> QED
  BY <1>1, <1>3, <1>4, <1>5

(***************************************************************************)
(* Types.                                                                  *)
(***************************************************************************)

\* The double nearest to an integer of that size is an integer.
LEMMA RoundedType ==
  ASSUME NEW x \in Int
  PROVE  Rounded(x) \in Int /\ Rounded(x) - x \in -1 .. 1
BY DEF Rounded

\* The window never counts less than one sample.
LEMMA CountType ==
  ASSUME TypeOK
  PROVE  Count \in Nat \ {0}
BY WindowNumbers DEF TypeOK, Count

LEMMA TypeStep ==
  ASSUME TypeOK, Ring, NEW x \in Samples, Update(x)
  PROVE  TypeOK'
<1>1. Slots' = Slots /\ Fraction' = Fraction
  BY DEF Slots, Fraction
<1>2. samples' \in [Slots -> Samples \cup {0}]
  BY DEF TypeOK, Update
<1>3. sample_num' \in Slots /\ window_full' \in BOOLEAN
  <2>1. sample_num' \in Slots
    BY RingMoves, WindowNumbers
  <2>2. window_full' \in BOOLEAN
    BY DEF TypeOK, Update
  <2> QED
    BY <2>1, <2>2
<1>4. PICK old \in Int : old = samples'[NextSlot] /\ old = [samples EXCEPT ![sample_num] = x][NextSlot]
  <2>1. samples'[NextSlot] \in Int
    BY <1>2, OldestSample, WindowNumbers
  <2> QED
    BY <2>1 DEF Update
<1>5. PICK y \in Int : y = x
  BY WindowNumbers
<1>6. /\ sum' = sum + y - old
      /\ sum_squared' = Rounded(sum_squared + (y * y - old * old))
      /\ inexact' \in {inexact, inexact + 1} /\ inexact' <= MaxInexact
      /\ mean' = [num |-> sum', den |-> Count]
      /\ variance' = [num |-> sum_squared' * Count - sum' * sum', den |-> Count * Count]
  BY <1>4, <1>5 DEF Update
<1>7. sum' \in Int /\ sum_squared' \in Int
  <2>1. y * y \in Int /\ old * old \in Int /\ sum_squared \in Int /\ sum \in Int
    BY DEF TypeOK
  <2>2. sum_squared + (y * y - old * old) \in Int
    BY <2>1
  <2> QED
    BY <1>6, <2>1, <2>2, RoundedType
<1>8. mean' \in Fraction /\ variance' \in Fraction
  <2>1. PICK c \in Nat \ {0} : c = Count
    BY CountType
  <2>2. PICK a \in Int, b \in Int : a = sum' /\ b = sum_squared'
    BY <1>7
  <2>3. b * c - a * a \in Int /\ c * c \in Nat \ {0}
    OBVIOUS
  <2> QED
    BY <1>6, <2>1, <2>2, <2>3 DEF Fraction
<1>9. recent' \in Seq(Samples) /\ Len(recent') <= WindowSize
  <2>1. Len(recent) \in Nat /\ Len(recent) <= WindowSize
    BY DEF TypeOK
  <2> QED
    BY <2>1, RecentGrows, WindowNumbers
<1>10. inexact' \in 0 .. MaxInexact
  BY <1>6, DistributionAssumption DEF TypeOK
<1> QED
  BY <1>1, <1>2, <1>3, <1>7, <1>8, <1>9, <1>10 DEF TypeOK

(***************************************************************************)
(* The sum and the mean.                                                   *)
(***************************************************************************)

\* The samples that count after an update.
LEMMA CountedNext ==
  Counted' = IF Len(recent') < WindowSize THEN recent' ELSE Tail(recent')
BY DEF Counted

LEMMA SumStep ==
  ASSUME TypeOK, Ring, SumIsRecent, NEW x \in Samples, Update(x)
  PROVE  SumIsRecent'
<1>1. /\ Counted \in Seq(Int) /\ recent' = Append(Counted, x)
      /\ recent' \in Seq(Int) /\ recent' # <<>> /\ x \in Int
  BY RecentGrows, WindowNumbers, SeqMonotonic
<1>2. SumFunction(Counted) \in Int /\ SumFunction(recent') = SumFunction(Counted) + x
  BY <1>1, SumOfAppend
<1>3. sum' = sum + x - samples'[NextSlot]
  BY DEF Update
<1>4. sum = SumFunction(Counted)
  BY DEF SumIsRecent
<1>5. sum' = SumFunction(Counted')
  <2>1. CASE Len(recent') < WindowSize
    <3>1. samples'[NextSlot] = 0 /\ Counted' = recent'
      BY <2>1, OldestSample, CountedNext
    <3> QED
      BY <1>1, <1>2, <1>3, <1>4, <3>1
  <2>2. CASE ~ (Len(recent') < WindowSize)
    <3>1. samples'[NextSlot] = recent'[1] /\ Counted' = Tail(recent')
      BY <2>2, OldestSample, CountedNext
    <3>2. SumFunction(Tail(recent')) = SumFunction(recent') - recent'[1]
      BY <1>1, SumOfTail
    <3> QED
      BY <1>1, <1>2, <1>3, <1>4, <3>1, <3>2
  <2> QED
    BY <2>1, <2>2
<1> QED
  BY <1>5 DEF SumIsRecent

\* Until the ring is full, an update divides by the number of samples.
LEMMA MeanStep ==
  ASSUME TypeOK, Ring, NEW x \in Samples, Update(x)
  PROVE  FirstMean'
<1> SUFFICES ASSUME Len(recent') < WindowSize
             PROVE  mean' = [num |-> sum', den |-> Len(recent')]
  BY DEF FirstMean
<1>1. PICK n \in Nat : n = Len(recent) /\ n <= WindowSize
  BY DEF TypeOK
<1>2. n < WindowSize /\ Len(recent') = n + 1
  BY <1>1, RecentGrows, WindowNumbers
<1>3. Count = n + 1
  BY <1>1, <1>2, WindowNumbers DEF Ring, Count
<1> QED
  BY <1>2, <1>3 DEF Update

LEMMA InvInit == Init => RInv
<1> SUFFICES ASSUME Init PROVE RInv
  OBVIOUS
<1>1. TypeOK
  <2>1. window_full \in BOOLEAN
    BY Zenon DEF Init
  <2>2. mean \in Fraction /\ variance \in Fraction
    BY DEF Init, Fraction
  <2>3. recent \in Seq(Samples) /\ Len(recent) = 0
    BY DEF Init
  <2>4. samples \in [Slots -> Samples \cup {0}] /\ sample_num \in Slots /\ sum \in Int /\ sum_squared \in Int
    BY WindowNumbers DEF Init
  <2>5. inexact \in 0 .. MaxInexact
    BY DistributionAssumption DEF Init
  <2> QED
    BY <2>1, <2>2, <2>3, <2>4, <2>5, WindowNumbers DEF TypeOK
<1>2. Ring
  <2>1. Len(recent) = 0 /\ sample_num = 0 /\ ~ window_full
    BY DEF Init
  <2>2. \A j \in Slots : samples[j] = 0 /\ ~ (j < sample_num)
    BY <2>1, WindowNumbers DEF Init
  <2> QED
    BY <2>1, <2>2, WindowNumbers DEF Ring
<1>3. Counted = <<>> /\ sum = 0
  BY WindowNumbers DEF Init, Counted
<1>4. SumIsRecent
  BY <1>3, SumOfNothing DEF SumIsRecent
<1> QED
  BY <1>1, <1>2, <1>4 DEF RInv, FirstMean, Init

LEMMA InvStep == RInv /\ [Next]_vars => RInv'
<1> SUFFICES ASSUME RInv, [Next]_vars PROVE RInv'
  OBVIOUS
<1>1. ASSUME NEW x \in Samples, Update(x) PROVE RInv'
  BY <1>1, TypeStep, RingStep, SumStep, MeanStep DEF RInv
<1>2. CASE UNCHANGED vars
  BY <1>2 DEF RInv, TypeOK, Ring, SumIsRecent, FirstMean, Counted, Slots, Fraction, vars
<1> QED
  BY <1>1, <1>2 DEF Next

\* update_distribution keeps the index within the ring and its results
\* fractions, for every size of the window and all samples.
THEOREM TypeOKHolds == Spec => []TypeOK
<1>1. RInv => TypeOK
  BY DEF RInv
<1> QED
  BY <1>1, InvInit, InvStep, PTL DEF Spec

\* The running sum of update_distribution never drifts: however often the ring
\* has gone round, it is the sum of the last samples.
THEOREM SumIsRecentHolds == Spec => []SumIsRecent
<1>1. RInv => SumIsRecent
  BY DEF RInv
<1> QED
  BY <1>1, InvInit, InvStep, PTL DEF Spec

\* Before the ring has gone round once, the mean that update_distribution
\* computes is that of all the samples.
THEOREM MeanOfFirstSamplesHolds == Spec => []MeanOfFirstSamples
<1>1. RInv => MeanOfFirstSamples
  <2> SUFFICES ASSUME RInv, recent # <<>>, Len(recent) < WindowSize
               PROVE  mean.num * Len(recent) = SumFunction(recent) * mean.den
    BY DEF MeanOfFirstSamples
  <2>1. mean = [num |-> sum, den |-> Len(recent)]
    BY DEF RInv, FirstMean
  <2>2. sum = SumFunction(recent)
    BY DEF RInv, SumIsRecent, Counted
  <2> QED
    BY <2>1, <2>2
<1> QED
  BY <1>1, InvInit, InvStep, PTL DEF Spec

(***************************************************************************)
(* The sum of squares and the variance.                                    *)
(***************************************************************************)

\* A bound on a multiple bounds the number itself.
LEMMA Cancelled ==
  ASSUME NEW m \in Nat \ {0}, NEW a \in Int, NEW b \in Int, m * a <= m * b
  PROVE  a <= b
<1> SUFFICES ASSUME b < a PROVE FALSE
  OBVIOUS
<1>1. PICK d \in Nat : a = b + 1 + d
  <2>1. a - b - 1 \in Nat /\ a = b + 1 + (a - b - 1)
    OBVIOUS
  <2> QED
    BY <2>1
<1>2. m * a = m * b + m + m * d /\ m * d \in Nat
  BY <1>1
<1> QED
  BY <1>2

\* The squares of a sequence that grows or shrinks.
LEMMA SquaresSequence ==
  ASSUME NEW s \in Seq(Int)
  PROVE  /\ Squares(s) \in Seq(Int)
         /\ Len(Squares(s)) = Len(s)
         /\ \A i \in 1 .. Len(s) : Squares(s)[i] = s[i] * s[i]
<1>1. PICK n \in Nat : n = Len(s)
  OBVIOUS
<1>2. DOMAIN s = 1 .. n /\ \A i \in 1 .. n : s[i] \in Int
  BY <1>1
<1>3. Squares(s) = [i \in 1 .. n |-> s[i] * s[i]]
  BY <1>2 DEF Squares
<1>4. \A i \in 1 .. n : s[i] * s[i] \in Int
  <2> TAKE i \in 1 .. n
  <2>1. PICK y \in Int : y = s[i]
    BY <1>2
  <2> QED
    BY <2>1
<1>5. Squares(s) \in [1 .. n -> Int]
  BY <1>3, <1>4
<1>6. Squares(s) \in Seq(Int) /\ Len(Squares(s)) = n
  BY <1>5, SeqDef
<1> QED
  BY <1>1, <1>3, <1>6

LEMMA SquaresOfAppend ==
  ASSUME NEW s \in Seq(Int), NEW x \in Int
  PROVE  Squares(Append(s, x)) = Append(Squares(s), x * x)
<1>1. PICK n \in Nat : n = Len(s)
  OBVIOUS
<1>2. /\ Append(s, x) \in Seq(Int) /\ Len(Append(s, x)) = n + 1
      /\ \A i \in 1 .. n : Append(s, x)[i] = s[i]
      /\ Append(s, x)[n + 1] = x
  BY <1>1
<1>3. PICK q : /\ q = Squares(s) /\ q \in Seq(Int) /\ Len(q) = n
               /\ \A i \in 1 .. n : q[i] = s[i] * s[i]
  BY <1>1, SquaresSequence
<1>4. PICK t : /\ t = Squares(Append(s, x)) /\ t \in Seq(Int) /\ Len(t) = n + 1
               /\ \A i \in 1 .. n + 1 : t[i] = Append(s, x)[i] * Append(s, x)[i]
  <2>1. PICK r \in Seq(Int) : r = Append(s, x) /\ Len(r) = n + 1
    BY <1>2
  <2>2. /\ Squares(r) \in Seq(Int) /\ Len(Squares(r)) = n + 1
        /\ \A i \in 1 .. n + 1 : Squares(r)[i] = r[i] * r[i]
    BY <2>1, SquaresSequence
  <2> QED
    BY <2>1, <2>2
<1>5. PICK y \in Int : y = x * x
  OBVIOUS
<1>6. /\ Append(q, y) \in Seq(Int) /\ Len(Append(q, y)) = n + 1
      /\ \A i \in 1 .. n : Append(q, y)[i] = q[i]
      /\ Append(q, y)[n + 1] = y
  BY <1>3
<1>7. ASSUME NEW i \in 1 .. n + 1 PROVE t[i] = Append(q, y)[i]
  <2>1. CASE i = n + 1
    BY <1>2, <1>4, <1>5, <1>6, <2>1
  <2>2. CASE i # n + 1
    <3>1. i \in 1 .. n
      BY <2>2
    <3> QED
      BY <1>2, <1>3, <1>4, <1>6, <3>1
  <2> QED
    BY <2>1, <2>2
<1>8. t = Append(q, y)
  BY <1>4, <1>6, <1>7, SeqEqual
<1> QED
  BY <1>3, <1>4, <1>5, <1>8

LEMMA SquaresOfTail ==
  ASSUME NEW s \in Seq(Int), s # <<>>
  PROVE  Squares(Tail(s)) = Tail(Squares(s)) /\ Squares(s) # <<>>
<1>1. PICK n \in Nat \ {0} : n = Len(s)
  OBVIOUS
<1>2. /\ Tail(s) \in Seq(Int) /\ Len(Tail(s)) = n - 1
      /\ \A i \in 1 .. n - 1 : Tail(s)[i] = s[i + 1]
  BY <1>1
<1>3. PICK q : /\ q = Squares(s) /\ q \in Seq(Int) /\ Len(q) = n
               /\ \A i \in 1 .. n : q[i] = s[i] * s[i]
  BY <1>1, SquaresSequence
<1>4. PICK t : /\ t = Squares(Tail(s)) /\ t \in Seq(Int) /\ Len(t) = n - 1
               /\ \A i \in 1 .. n - 1 : t[i] = Tail(s)[i] * Tail(s)[i]
  <2>1. PICK r \in Seq(Int) : r = Tail(s) /\ Len(r) = n - 1
    BY <1>2
  <2>2. /\ Squares(r) \in Seq(Int) /\ Len(Squares(r)) = n - 1
        /\ \A i \in 1 .. n - 1 : Squares(r)[i] = r[i] * r[i]
    BY <2>1, SquaresSequence
  <2> QED
    BY <2>1, <2>2
<1>5. q # <<>>
  BY <1>3
<1>6. /\ Tail(q) \in Seq(Int) /\ Len(Tail(q)) = n - 1
      /\ \A i \in 1 .. n - 1 : Tail(q)[i] = q[i + 1]
  BY <1>3, <1>5
<1>7. ASSUME NEW i \in 1 .. n - 1 PROVE t[i] = Tail(q)[i]
  <2>1. i + 1 \in 1 .. n
    OBVIOUS
  <2> QED
    BY <1>2, <1>3, <1>4, <1>6, <2>1
<1>8. t = Tail(q)
  BY <1>4, <1>6, <1>7, SeqEqual
<1> QED
  BY <1>3, <1>4, <1>5, <1>8

\* A number more keeps the square of a sum below the sum of squares.
LEMMA OneMoreSquare ==
  ASSUME NEW l \in Nat, NEW a \in Int, NEW b \in Nat, NEW x \in Int, a * a <= l * b
  PROVE  (a + x) * (a + x) <= (l + 1) * (b + x * x)
<1> DEFINE t == b + l * (x * x) - 2 * (a * x)
<1>1. t \in Int
  OBVIOUS
<1>2. /\ (l + 1) * (b + x * x) = l * b + x * x + t + 2 * (a * x)
      /\ (a + x) * (a + x) = a * a + x * x + 2 * (a * x)
  OBVIOUS
<1>3. 0 <= t
  <2>1. CASE l = 0
    <3>1. a = 0
      <4>1. a * a <= 0
        BY <2>1
      <4> QED
        BY <4>1
    <3> QED
      BY <2>1, <3>1
  <2>2. CASE l # 0
    <3>1. l * t = (l * b - a * a) + (a - l * x) * (a - l * x)
      OBVIOUS
    <3>2. PICK d \in Int : d = a - l * x
      OBVIOUS
    <3>3. 0 <= d * d /\ d * d \in Int
      OBVIOUS
    <3>4. PICK c \in Nat : c = l * b - a * a
      OBVIOUS
    <3>5. l * t = c + d * d
      BY <3>1, <3>2, <3>4
    <3>6. l * 0 <= l * t
      BY <3>3, <3>5
    <3> HIDE DEF t
    <3> QED
      BY <1>1, <2>2, <3>6, Cancelled
  <2> QED
    BY <2>1, <2>2
<1> HIDE DEF t
<1>4. PICK u \in Int, v \in Int, w \in Int, z \in Int :
        u = a * a /\ v = l * b /\ w = x * x /\ z = 2 * (a * x)
  OBVIOUS
<1>5. u <= v
  BY <1>4
<1>6. u + w + z <= v + w + t + z
  BY <1>1, <1>3, <1>5
<1> QED
  BY <1>2, <1>4, <1>6, Zenon

\* The square of a sum is at most the sum of the squares times their number.
LEMMA SquareOfSum ==
  ASSUME NEW s \in Seq(Int)
  PROVE  /\ SumFunction(s) \in Int
         /\ SumFunction(Squares(s)) \in Nat
         /\ SumFunction(s) * SumFunction(s) <= Len(s) * SumFunction(Squares(s))
<1>1. PICK n \in Nat : n = Len(s)
  OBVIOUS
<1>2. /\ Squares(s) \in Seq(Int) /\ Len(Squares(s)) = n
      /\ \A i \in 1 .. n : Squares(s)[i] = s[i] * s[i] /\ s[i] \in Int
  BY <1>1, SquaresSequence
<1>3. PICK p : Parts(p, s) /\ SumFunction(s) = p[Len(s)]
  BY PartsExist
<1>4. PICK q : Parts(q, Squares(s)) /\ SumFunction(Squares(s)) = q[n]
  BY <1>2, PartsExist
<1>5. /\ p \in [0 .. n -> Int] /\ q \in [0 .. n -> Int]
      /\ p[0] = 0 /\ q[0] = 0
      /\ \A i \in 1 .. n : p[i] = p[i - 1] + s[i] /\ q[i] = q[i - 1] + s[i] * s[i]
  BY <1>1, <1>2, <1>3, <1>4 DEF Parts
<1> DEFINE N == { k \in 0 .. n : ~ (0 <= q[k] /\ p[k] * p[k] <= k * q[k]) }
<1>6. ASSUME N # {} PROVE FALSE
  <2>1. PICK k \in N : \A j \in N : k <= j
    <3>1. N \in SUBSET Nat
      OBVIOUS
    <3> HIDE DEF N
    <3> QED
      BY <1>6, <3>1, LeastNumber
  <2>2. CASE k = 0
    <3>1. 0 <= q[k] /\ p[k] * p[k] <= k * q[k]
      BY <1>5, <2>2
    <3> QED
      BY <2>1, <3>1
  <2>3. CASE k # 0
    <3>1. PICK l \in 0 .. n : l = k - 1 /\ k = l + 1 /\ k \in 1 .. n
      BY <2>1, <2>3
    <3>2. l \notin N
      <4>1. ~ (k <= l)
        BY <3>1
      <4> HIDE DEF N
      <4> QED
        BY <2>1, <4>1
    <3>3. PICK a \in Int, b \in Nat, x \in Int : a = p[l] /\ b = q[l] /\ x = s[k]
      <4>1. 0 <= q[l]
        BY <3>2
      <4>2. p[l] \in Int /\ q[l] \in Int /\ s[k] \in Int
        BY <1>2, <1>5, <3>1
      <4> QED
        BY <4>1, <4>2
    <3>4. a * a <= l * b
      BY <3>2, <3>3
    <3>5. p[k] = a + x /\ q[k] = b + x * x
      BY <1>5, <3>1, <3>3
    <3>6. (a + x) * (a + x) <= (l + 1) * (b + x * x)
      BY <3>1, <3>4, OneMoreSquare
    <3>7. 0 <= b + x * x
      OBVIOUS
    <3> QED
      BY <2>1, <3>1, <3>5, <3>6, <3>7
  <2> QED
    BY <2>2, <2>3
<1>7. 0 <= q[n] /\ p[n] * p[n] <= n * q[n]
  <2>1. n \notin N
    BY <1>6
  <2> QED
    BY <2>1
<1> QED
  BY <1>1, <1>3, <1>4, <1>5, <1>7

QInv == RInv /\ SquaresWithinRounding /\ VarianceAboveRounding

\* The samples that count are fewer than the window has slots.
LEMMA FewerThanSlots ==
  ASSUME NEW r \in Seq(Samples), Len(r) <= WindowSize,
         NEW c, c = IF Len(r) < WindowSize THEN r ELSE Tail(r)
  PROVE  /\ c \in Seq(Samples)
         /\ c \in Seq(Int)
         /\ Len(c) \in Nat
         /\ Len(c) <= WindowSize - 1
<1>1. PICK n \in Nat : n = Len(r) /\ n <= WindowSize
  OBVIOUS
<1>2. c \in Seq(Samples) /\ Len(c) = IF n < WindowSize THEN n ELSE WindowSize - 1
  <2>1. CASE n < WindowSize
    BY <1>1, <2>1
  <2>2. CASE ~ (n < WindowSize)
    <3>1. n = WindowSize /\ r # <<>> /\ c = Tail(r)
      BY <1>1, <2>2, WindowNumbers
    <3>2. Tail(r) \in Seq(Samples) /\ Len(Tail(r)) = n - 1
      <4>1. Tail(r) \in Seq(Samples) /\ Len(Tail(r)) = Len(r) - 1
        BY <3>1
      <4> QED
        BY <1>1, <4>1
    <3> QED
      BY <2>2, <3>1, <3>2
  <2> QED
    BY <2>1, <2>2
<1>3. c \in Seq(Int)
  BY <1>2, WindowNumbers, SeqMonotonic
<1> QED
  BY <1>1, <1>2, <1>3, WindowNumbers

\* An update rounds by one at most, and counts it.
LEMMA SquaresStep ==
  ASSUME TypeOK, Ring, SquaresWithinRounding, NEW x \in Samples, Update(x)
  PROVE  SquaresWithinRounding'
<1>1. PICK c \in Seq(Int), r \in Seq(Int) :
        /\ c = Counted /\ r = recent' /\ r = Append(c, x)
        /\ r # <<>> /\ x \in Int
  BY RecentGrows, WindowNumbers, SeqMonotonic
<1>2. PICK y \in Int : y = x * x
  BY <1>1
<1>3. /\ Squares(c) \in Seq(Int) /\ Squares(r) \in Seq(Int)
      /\ Squares(r) = Append(Squares(c), y)
  BY <1>1, <1>2, SquaresSequence, SquaresOfAppend
<1>4. /\ SumFunction(Squares(c)) \in Int
      /\ SumFunction(Squares(r)) = SumFunction(Squares(c)) + y
  BY <1>3, SumOfAppend
<1>5. PICK e \in Int, n \in Nat :
        sum_squared = SumFunction(Squares(c)) + e /\ n = inexact /\ e \in (-n) .. n
  <2>1. inexact \in Nat /\ sum_squared \in Int
    BY DEF TypeOK
  <2>2. PICK q \in Int : q = SumFunction(Squares(c))
    BY <1>4
  <2>3. sum_squared - q \in (-inexact) .. inexact
    BY <1>1, <2>2 DEF SquaresWithinRounding
  <2>4. sum_squared = q + (sum_squared - q) /\ sum_squared - q \in Int
    BY <2>1
  <2> QED
    BY <2>1, <2>2, <2>3, <2>4
<1> DEFINE squares == sum_squared + (x * x - samples'[NextSlot] * samples'[NextSlot])
<1>6. /\ sum_squared' = Rounded(squares)
      /\ inexact' = IF sum_squared' = squares THEN inexact ELSE inexact + 1
  BY DEF Update
<1>7. squares = SumFunction(Squares(Counted')) + e
  <2>1. CASE Len(recent') < WindowSize
    <3>1. samples'[NextSlot] = 0 /\ Counted' = r
      BY <1>1, <2>1, OldestSample, CountedNext
    <3> QED
      BY <1>1, <1>2, <1>4, <1>5, <3>1
  <2>2. CASE ~ (Len(recent') < WindowSize)
    <3>1. samples'[NextSlot] = r[1] /\ Counted' = Tail(r)
      BY <1>1, <2>2, OldestSample, CountedNext
    <3>2. Squares(Tail(r)) = Tail(Squares(r)) /\ Squares(r) # <<>>
      BY <1>1, SquaresOfTail
    <3>3. SumFunction(Tail(Squares(r))) = SumFunction(Squares(r)) - Squares(r)[1]
      BY <1>3, <3>2, SumOfTail
    <3>4. PICK o \in Int : o = r[1] * r[1] /\ Squares(r)[1] = o
      <4>1. 1 \in 1 .. Len(r) /\ r[1] \in Int
        BY <1>1
      <4>2. Squares(r)[1] = r[1] * r[1]
        BY <4>1, SquaresSequence
      <4> QED
        BY <4>1, <4>2
    <3>5. sum_squared + (y - o) = SumFunction(Squares(Tail(r))) + e
      <4>1. PICK a \in Int : a = SumFunction(Squares(c))
        BY <1>4
      <4>2. SumFunction(Squares(Tail(r))) = (a + y) - o
        BY <1>4, <3>2, <3>3, <3>4, <4>1
      <4> QED
        BY <1>5, <4>1, <4>2
    <3> QED
      BY <1>2, <3>1, <3>4, <3>5
  <2> QED
    BY <2>1, <2>2
<1>8. PICK q \in Int : q = SumFunction(Squares(Counted'))
  <2>1. recent' \in Seq(Samples) /\ Len(recent') <= WindowSize
    BY TypeStep DEF TypeOK
  <2>2. Counted' \in Seq(Int)
    BY <2>1, CountedNext, FewerThanSlots
  <2>3. SumFunction(Squares(Counted')) \in Int
    BY <2>2, SquareOfSum
  <2> QED
    BY <2>3
<1> HIDE DEF squares
<1>9. PICK d \in -1 .. 1 : Rounded(squares) = squares + d
  <2>1. squares \in Int
    BY <1>5, <1>7, <1>8
  <2>2. PICK z \in Int : z = Rounded(squares) /\ z - squares \in -1 .. 1
    BY <2>1, RoundedType
  <2>3. z = squares + (z - squares)
    BY <2>1, <2>2
  <2> QED
    BY <2>2, <2>3
<1>10. sum_squared' = q + e + d /\ inexact' = IF d = 0 THEN n ELSE n + 1
  <2>1. squares = q + e
    BY <1>7, <1>8
  <2> QED
    BY <1>5, <1>6, <1>8, <1>9, <2>1
<1>11. sum_squared' - q \in (-inexact') .. inexact'
  <2>1. (q + e + d) - q = e + d
    BY <1>5, <1>8, <1>9
  <2>2. CASE d = 0
    <3>1. e + d \in (-n) .. n
      BY <1>5, <2>2
    <3> QED
      BY <1>10, <2>1, <2>2, <3>1
  <2>3. CASE d # 0
    <3>1. e + d \in (-(n + 1)) .. (n + 1)
      BY <1>5, <1>9, <2>3
    <3> QED
      BY <1>10, <2>1, <2>3, <3>1
  <2> QED
    BY <2>2, <2>3
<1> QED
  BY <1>8, <1>11 DEF SquaresWithinRounding, Squares

\* The variance that is sent divides by no fewer samples than count, so that without
\* the rounding errors in the sum of squares it is not negative.
LEMMA VarianceStep ==
  ASSUME TypeOK, Ring, NEW x \in Samples, Update(x), SumIsRecent', SquaresWithinRounding'
  PROVE  VarianceAboveRounding'
<1>1. PICK c \in Seq(Int) : c = Counted' /\ Len(c) \in Nat /\ Len(c) <= Count
  <2>1. recent' \in Seq(Samples) /\ Len(recent') <= WindowSize
    BY TypeStep DEF TypeOK
  <2>2. /\ Counted' \in Seq(Int) /\ Len(Counted') \in Nat
        /\ Len(Counted') <= WindowSize - 1
    BY <2>1, CountedNext, FewerThanSlots
  <2>3. CASE window_full
    <3>1. Count = WindowSize
      BY <2>3 DEF Count
    <3> QED
      BY <2>2, <3>1, WindowNumbers
  <2>4. CASE ~ window_full
    <3>1. PICK n \in Nat : n = Len(recent) /\ n < WindowSize /\ Count = n + 1
      <4>1. Len(recent) \in Nat /\ Len(recent) <= WindowSize
        BY DEF TypeOK
      <4> QED
        BY <2>4, <4>1, WindowNumbers DEF Ring, Count
    <3>2. Len(recent') = n + 1
      BY <3>1, RecentGrows
    <3>3. CASE n + 1 < WindowSize
      BY <2>2, <3>1, <3>2, <3>3, CountedNext
    <3>4. CASE ~ (n + 1 < WindowSize)
      BY <2>2, <3>1, <3>4, WindowNumbers
    <3> QED
      BY <3>3, <3>4
  <2> QED
    BY <2>3, <2>4
<1>2. /\ sum' = SumFunction(c)
      /\ sum_squared' - SumFunction(Squares(c)) \in (-inexact') .. inexact'
      /\ variance'.num = sum_squared' * Count - sum' * sum' /\ mean'.den = Count
  <2>1. sum_squared' - SumFunction(Squares(Counted')) \in (-inexact') .. inexact'
    BY DEF SquaresWithinRounding, Squares
  <2>2. variance'.num = sum_squared' * Count - sum' * sum' /\ mean'.den = Count
    BY DEF Update
  <2> QED
    BY <1>1, <2>1, <2>2 DEF SumIsRecent
<1>3. PICK a \in Int, b \in Nat, n \in Nat, k \in Nat :
        /\ a = sum' /\ b = SumFunction(Squares(c)) /\ n = Len(c) /\ k = Count
        /\ n <= k /\ a * a <= n * b
  BY <1>1, <1>2, CountType, SquareOfSum
<1>4. PICK e \in Int, j \in Nat : sum_squared' = b + e /\ j = inexact' /\ 0 <= e + j
  <2>1. sum_squared' \in Int /\ inexact' \in Nat
    BY TypeStep DEF TypeOK
  <2>2. PICK z \in Int, i \in Nat : z = sum_squared' /\ i = inexact' /\ z - b \in (-i) .. i
    BY <1>2, <1>3, <2>1
  <2>3. z = b + (z - b) /\ z - b \in Int
    OBVIOUS
  <2>4. z - b \in (-i) .. i
    BY <2>2
  <2>5. 0 <= (z - b) + i
    BY <2>4
  <2> QED
    BY <2>2, <2>3, <2>5
<1>5. n * b <= b * k
  <2>1. PICK d \in Nat : k = n + d
    <3>1. k - n \in Nat /\ k = n + (k - n)
      BY <1>3
    <3> QED
      BY <3>1
  <2>2. b * k = n * b + b * d /\ b * d \in Nat /\ n * b \in Nat
    BY <2>1
  <2>3. PICK u \in Nat, v \in Nat : u = n * b /\ v = b * d
    BY <2>2
  <2>4. u <= u + v
    BY <2>3
  <2> QED
    BY <2>2, <2>3, <2>4, Zenon
<1>6. PICK u \in Int, v \in Int, w \in Int : u = a * a /\ v = n * b /\ w = b * k
  OBVIOUS
<1>7. u <= v /\ v <= w
  BY <1>3, <1>5, <1>6, Zenon
<1>8. PICK f \in Int, g \in Int : f = e * k /\ g = j * k /\ -g <= f
  <2>1. PICK d \in Nat : e = d - j
    <3>1. 0 <= e + j
      BY <1>4
    <3>2. e + j \in Nat /\ e = (e + j) - j
      BY <3>1
    <3> QED
      BY <3>2
  <2>2. e * k = d * k - j * k /\ d * k \in Nat /\ j * k \in Nat
    BY <2>1
  <2>3. PICK h \in Nat, g \in Nat : h = d * k /\ g = j * k /\ e * k = h - g
    BY <2>2
  <2>4. -g <= h - g /\ h - g \in Int
    BY <2>3
  <2> QED
    BY <2>3, <2>4
<1>9. (b + e) * k = w + f
  <2>1. (b + e) * k = b * k + e * k
    BY <1>3, <1>4
  <2> QED
    BY <1>6, <1>8, <2>1
<1>10. variance'.num = w + f - u
  <2>1. sum_squared' * Count = w + f
    BY <1>3, <1>4, <1>9, Zenon
  <2>2. sum' * sum' = u
    BY <1>3, <1>6, Zenon
  <2>3. variance'.num = sum_squared' * Count - sum' * sum'
    BY DEF Update
  <2> QED
    BY <2>1, <2>2, <2>3
<1>11. w + f - u >= -g
  BY <1>7, <1>8
<1>12. inexact' * mean'.den = g
  BY <1>2, <1>3, <1>4, <1>8, Zenon
<1> QED
  BY <1>10, <1>11, <1>12 DEF VarianceAboveRounding

LEMMA SquaresInit == Init => QInv
<1> SUFFICES ASSUME Init PROVE SquaresWithinRounding /\ VarianceAboveRounding
  BY InvInit DEF QInv
<1>1. Counted = <<>> /\ sum_squared = 0 /\ variance.num = 0 /\ inexact = 0 /\ mean.den = 1
  BY WindowNumbers DEF Init, Counted
<1>2. Squares(<<>>) = <<>>
  <2>1. <<>> \in Seq(Int) /\ Len(<<>>) = 0
    OBVIOUS
  <2>2. Squares(<<>>) \in Seq(Int) /\ Len(Squares(<<>>)) = 0
    BY <2>1, SquaresSequence
  <2> QED
    BY <2>2
<1> QED
  BY <1>1, <1>2, SumOfNothing DEF SquaresWithinRounding, VarianceAboveRounding

LEMMA SquaresKept == QInv /\ [Next]_vars => QInv'
<1> SUFFICES ASSUME QInv, [Next]_vars PROVE QInv'
  OBVIOUS
<1>1. RInv'
  BY InvStep DEF QInv
<1>2. ASSUME NEW x \in Samples, Update(x) PROVE QInv'
  <2>1. SquaresWithinRounding'
    BY <1>2, SquaresStep DEF QInv, RInv
  <2>2. VarianceAboveRounding'
    BY <1>1, <1>2, <2>1, VarianceStep DEF QInv, RInv
  <2> QED
    BY <1>1, <2>1, <2>2 DEF QInv
<1>3. CASE UNCHANGED vars
  <2>1. UNCHANGED <<recent, sum_squared, mean, variance, inexact>> /\ Counted' = Counted
    BY <1>3 DEF vars, Counted
  <2> QED
    BY <1>1, <2>1 DEF QInv, SquaresWithinRounding, VarianceAboveRounding, Squares
<1> QED
  BY <1>2, <1>3 DEF Next

\* For samples of any size up to where a double would lose more than one bit, the
\* range from 300 to 500 of a malfunctioning source included, the running sum of
\* squares of update_distribution is off by the number of its roundings at most.
THEOREM SquaresWithinRoundingHolds == Spec => []SquaresWithinRounding
<1>1. QInv => SquaresWithinRounding
  BY DEF QInv
<1> QED
  BY <1>1, SquaresInit, SquaresKept, PTL DEF Spec

\* The variance that update_distribution computes, with its window of one sample
\* less than it divides by, is negative by the roundings only: by no more than
\* their number over the count of samples.
THEOREM VarianceAboveRoundingHolds == Spec => []VarianceAboveRounding
<1>1. QInv => VarianceAboveRounding
  BY DEF QInv
<1> QED
  BY <1>1, SquaresInit, SquaresKept, PTL DEF Spec
=============================================================================
