------------------------ MODULE WeightedMeanProofs ------------------------
(***************************************************************************)
(* Theorems about WeightedMean, for every number of messages, all samples  *)
(* and all variances: the value lies between the samples, and the most     *)
(* uncertain sample has no more than an equal share of it.                 *)
(***************************************************************************)
EXTENDS WeightedMean, FiniteSetTheorems, WellFoundedInduction, TLAPS

(***************************************************************************)
(* Folds over the slots.                                                   *)
(***************************************************************************)

\* The slot that a fold takes from a set first.
Taken(T) == CHOOSE x \in T : TRUE

\* The function from sets of slots to results that a fold recurs along.
Folds(it, step, base) ==
  it = [T \in SUBSET Slots |->
         IF T = {} THEN base ELSE step[Taken(T)][it[T \ {Taken(T)}]]]

\* The slots are as many as the nodes.
LEMMA SlotsFinite ==
  /\ IsFiniteSet(Slots) /\ Cardinality(Slots) = NumNodes /\ Slots # {}
  /\ NumNodes \in Nat /\ NumNodes >= 1
<1>1. NumNodes \in Nat \ {0}
  BY WeightedMeanAssumption
<1>2. IsFiniteSet(0 .. NumNodes - 1) /\ Cardinality(0 .. NumNodes - 1) = NumNodes
  BY <1>1, FS_Interval
<1>3. 0 \in 0 .. NumNodes - 1
  BY <1>1
<1> QED
  BY <1>1, <1>2, <1>3 DEF Slots

\* A set of slots has a size, which falls by one with each slot taken.
LEMMA Sizes ==
  ASSUME NEW T \in SUBSET Slots
  PROVE  /\ Cardinality(T) \in Nat
         /\ Cardinality(T) = 0 <=> T = {}
         /\ \A x \in T : Cardinality(T \ {x}) = Cardinality(T) - 1
         /\ T # {} => Taken(T) \in T /\ T \ {Taken(T)} \in SUBSET Slots
         /\ Cardinality(T) <= Cardinality(Slots)
<1>1. IsFiniteSet(T) /\ Cardinality(T) <= Cardinality(Slots)
  BY SlotsFinite, FS_Subset
<1>2. Cardinality(T) \in Nat /\ (Cardinality(T) = 0 <=> T = {})
  BY <1>1, FS_CardinalityType, FS_EmptySet
<1>3. \A x \in T : Cardinality(T \ {x}) = Cardinality(T) - 1
  BY <1>1, FS_RemoveElement
<1>4. T # {} => Taken(T) \in T
  BY DEF Taken
<1> QED
  BY <1>1, <1>2, <1>3, <1>4

\* Among sets of slots there is one of which no strict subset is another one.
LEMMA SmallestSet ==
  ASSUME NEW Bad \in SUBSET (SUBSET Slots), Bad # {}
  PROVE  \E T \in Bad : \A x \in T : T \ {x} \notin Bad
<1>1. IsWellFoundedOn(StrictSubsetOrdering(Slots), FiniteSubsetsOf(Slots))
  BY FS_StrictSubsetOrderingWellFounded
<1>2. Bad \subseteq FiniteSubsetsOf(Slots)
  BY SlotsFinite, FS_Subset DEF FiniteSubsetsOf
<1>3. PICK T \in Bad : \A U \in Bad : ~ (<<U, T>> \in StrictSubsetOrdering(Slots))
  BY <1>1, <1>2, WFMin
<1>4. ASSUME NEW x \in T, T \ {x} \in Bad
      PROVE  FALSE
  <2>1. <<T \ {x}, T>> \in (SUBSET Slots) \X (SUBSET Slots) /\ T \ {x} \subseteq T /\ T \ {x} # T
    BY <1>4
  <2>2. <<T \ {x}, T>> \in StrictSubsetOrdering(Slots)
    BY <2>1 DEF StrictSubsetOrdering
  <2> QED
    BY <1>3, <1>4, <2>2
<1> QED
  BY <1>4

\* A set of numbers that is not empty has a least one.
LEMMA LeastNumber ==
  ASSUME NEW N \in SUBSET Nat, N # {}
  PROVE  \E x \in N : \A y \in N : x <= y
<1> DEFINE R == OpToRel(<, Nat)
<1>1. IsWellFoundedOn(R, Nat)
  BY NatLessThanWellFounded
<1>2. \A x, y \in Nat : <<x, y>> \in R <=> x < y
  BY DEF OpToRel
<1> HIDE DEF R
<1>3. PICK x \in N : \A y \in N : ~ (<<y, x>> \in R)
  BY <1>1, WFMin
<1>4. ASSUME NEW y \in N
      PROVE  x <= y
  <2>1. x \in Nat /\ y \in Nat
    OBVIOUS
  <2>2. ~ (y < x)
    BY <1>2, <1>3, <2>1
  <2> QED
    BY <2>1, <2>2
<1> QED
  BY <1>4

\* There is a function that a fold recurs along: it is built for ever larger sets.
LEMMA FoldsExist ==
  ASSUME NEW step, NEW base
  PROVE  \E it : Folds(it, step, base)
<1> DEFINE Value(it, T) == IF T = {} THEN base ELSE step[Taken(T)][it[T \ {Taken(T)}]]
           Upto(it, n) == /\ it = [T \in SUBSET Slots |-> it[T]]
                          /\ \A T \in SUBSET Slots : Cardinality(T) <= n => it[T] = Value(it, T)
           N == { n \in Nat : ~ \E it : Upto(it, n) }
<1>1. ASSUME N # {} PROVE FALSE
  <2>1. PICK n \in N : \A m \in N : n <= m
    <3>1. N \in SUBSET Nat
      OBVIOUS
    <3> HIDE DEF N
    <3> QED
      BY <1>1, <3>1, LeastNumber
  <2> n \in Nat
    OBVIOUS
  <2>2. CASE n = 0
    <3> DEFINE it == [T \in SUBSET Slots |-> base]
    <3>1. Upto(it, 0)
      BY Sizes
    <3> QED
      BY <2>1, <2>2, <3>1
  <2>3. CASE n # 0
    <3>1. PICK m \in Nat : m = n - 1
      BY <2>3
    <3>2. m \notin N
      <4>1. ~ (n <= m)
        BY <3>1
      <4> HIDE DEF N
      <4> QED
        BY <2>1, <4>1
    <3>3. PICK h : Upto(h, m)
      BY <3>2
    <3> DEFINE it == [T \in SUBSET Slots |-> IF Cardinality(T) < n THEN h[T] ELSE Value(h, T)]
    <3>4. \A T \in SUBSET Slots : Cardinality(T) < n => it[T] = h[T] /\ h[T] = Value(h, T)
      <4>1. \A T \in SUBSET Slots : Cardinality(T) < n => Cardinality(T) <= m
        BY <3>1, Sizes
      <4> QED
        BY <3>3, <4>1
    <3>5. ASSUME NEW T \in SUBSET Slots, Cardinality(T) <= n
          PROVE  it[T] = Value(it, T)
      <4>1. it[T] = Value(h, T)
        BY <3>4
      <4>2. CASE T = {}
        BY <4>1, <4>2
      <4>3. CASE T # {}
        <5>1. T \ {Taken(T)} \in SUBSET Slots /\ Cardinality(T \ {Taken(T)}) < n
          BY <3>5, <4>3, Sizes
        <5>2. it[T \ {Taken(T)}] = h[T \ {Taken(T)}]
          BY <3>4, <5>1
        <5> HIDE DEF it
        <5> QED
          BY <4>1, <5>2
      <4> QED
        BY <4>2, <4>3
    <3>6. Upto(it, n)
      BY <3>5
    <3> QED
      BY <2>1, <3>6
  <2> QED
    BY <2>2, <2>3
<1>2. PICK it : Upto(it, Cardinality(Slots))
  BY <1>1, SlotsFinite
<1>3. \A T \in SUBSET Slots : Cardinality(T) <= Cardinality(Slots)
  BY Sizes
<1>4. it = [T \in SUBSET Slots |-> Value(it, T)]
  BY <1>2, <1>3
<1> QED
  BY <1>4 DEF Folds

\* What a sum is made of: a set of slots has what its first slot adds to the rest.
SumParts(it, fun) ==
  /\ it \in [SUBSET Slots -> Int]
  /\ it[{}] = 0
  /\ \A T \in SUBSET Slots :
       T # {} => it[T] = fun[Taken(T)] + it[T \ {Taken(T)}]

\* A fold whose steps yield numbers yields numbers.
LEMMA FoldsType ==
  ASSUME NEW step \in [Slots -> [Int -> Int]], NEW base \in Int,
         NEW it, Folds(it, step, base)
  PROVE  it \in [SUBSET Slots -> Int]
<1> DEFINE Bad == { T \in SUBSET Slots : it[T] \notin Int }
<1>1. ASSUME Bad # {} PROVE FALSE
  <2>1. PICK T \in Bad : \A x \in T : T \ {x} \notin Bad
    BY <1>1, SmallestSet
  <2>2. T # {} /\ it[T] = step[Taken(T)][it[T \ {Taken(T)}]]
    BY <2>1 DEF Folds
  <2>3. Taken(T) \in T /\ it[T \ {Taken(T)}] \in Int
    BY <2>1, <2>2, Sizes
  <2> QED
    BY <2>1, <2>2, <2>3
<1>2. it = [T \in SUBSET Slots |-> it[T]]
  BY DEF Folds
<1> QED
  BY <1>1, <1>2

\* SumFunction is made of such parts.
LEMMA SumsFold ==
  ASSUME NEW fun \in [Slots -> Int]
  PROVE  \E it : SumParts(it, fun) /\ SumFunction(fun) = it[Slots]
<1> DEFINE step == [x \in Slots |-> [r \in Int |-> fun[x] + r]]
           Rec(it) == it = [T \in SUBSET Slots |->
                             IF T = {} THEN 0 ELSE fun[Taken(T)] + it[T \ {Taken(T)}]]
<1>1. PICK g : Folds(g, step, 0)
  BY FoldsExist
<1>2. g \in [SUBSET Slots -> Int]
  <2>1. step \in [Slots -> [Int -> Int]]
    OBVIOUS
  <2> HIDE DEF step
  <2>2. 0 \in Int
    OBVIOUS
  <2> QED
    BY <1>1, <2>1, <2>2, FoldsType
<1>3. \A T \in SUBSET Slots :
        T # {} => step[Taken(T)][g[T \ {Taken(T)}]] = fun[Taken(T)] + g[T \ {Taken(T)}]
  BY <1>2, Sizes
<1> HIDE DEF step
<1>4. Rec(g)
  BY <1>1, <1>3 DEF Folds
<1> DEFINE h == CHOOSE it : Rec(it)
<1>5. Rec(h)
  BY <1>4
<1>6. SumFunction(fun) = h[Slots]
  BY DEF SumFunction, SumFunctionOnSet, FoldFunctionOnSet, MapThenFoldSet, Taken
<1> HIDE DEF h
<1>7. /\ h[{}] = 0
      /\ \A T \in SUBSET Slots : T # {} => h[T] = fun[Taken(T)] + h[T \ {Taken(T)}]
  <2>1. \A T \in SUBSET Slots :
          h[T] = IF T = {} THEN 0 ELSE fun[Taken(T)] + h[T \ {Taken(T)}]
    BY <1>5
  <2> QED
    BY <2>1
<1> DEFINE Bad == { T \in SUBSET Slots : h[T] \notin Int }
<1>8. ASSUME Bad # {} PROVE FALSE
  <2>1. PICK T \in Bad : \A x \in T : T \ {x} \notin Bad
    BY <1>8, SmallestSet
  <2> T \in SUBSET Slots /\ h[T] \notin Int
    OBVIOUS
  <2>2. T # {}
    <3>1. ASSUME T = {} PROVE FALSE
      <4>1. h[T] = 0 /\ 0 \in Int
        BY <1>7, <3>1
      <4> QED
        BY <4>1
    <3> QED
      BY <3>1
  <2>3. h[T] = fun[Taken(T)] + h[T \ {Taken(T)}]
    BY <1>7, <2>2
  <2>4. Taken(T) \in T /\ h[T \ {Taken(T)}] \in Int
    BY <2>1, <2>2, Sizes
  <2> QED
    BY <2>3, <2>4
<1>9. SumParts(h, fun)
  BY <1>5, <1>7, <1>8 DEF SumParts
<1> QED
  BY <1>6, <1>9

\* A sum of numbers is a number.
LEMMA SumType ==
  ASSUME NEW fun \in [Slots -> Int]
  PROVE  SumFunction(fun) \in Int
<1>1. PICK it : SumParts(it, fun) /\ SumFunction(fun) = it[Slots]
  BY SumsFold
<1> QED
  BY <1>1 DEF SumParts

\* A sum is at least as many times as there are slots what each part is at least.
LEMMA SumAtLeast ==
  ASSUME NEW fun \in [Slots -> Int], NEW b \in Int, \A i \in Slots : fun[i] >= b
  PROVE  SumFunction(fun) >= NumNodes * b
<1>1. PICK it : SumParts(it, fun) /\ SumFunction(fun) = it[Slots]
  BY SumsFold
<1> DEFINE Bad == { T \in SUBSET Slots : ~ (it[T] >= Cardinality(T) * b) }
<1>2. ASSUME Bad # {} PROVE FALSE
  <2>1. PICK T \in Bad : \A x \in T : T \ {x} \notin Bad
    BY <1>2, SmallestSet
  <2> T \in SUBSET Slots /\ ~ (it[T] >= Cardinality(T) * b)
    OBVIOUS
  <2>2. T # {}
    <3>1. ASSUME T = {} PROVE FALSE
      <4>1. Cardinality(T) = 0 /\ it[T] = 0
        BY <1>1, <3>1, Sizes DEF SumParts
      <4> QED
        BY <4>1
    <3> QED
      BY <3>1
  <2> DEFINE U == T \ {Taken(T)}
  <2>3. Taken(T) \in T /\ U \in SUBSET Slots /\ it[T] = fun[Taken(T)] + it[U]
    BY <1>1, <2>2, Sizes DEF SumParts
  <2>4. it[U] >= Cardinality(U) * b
    BY <2>1, <2>3
  <2>5. PICK n \in Nat : n = Cardinality(T) /\ Cardinality(U) = n - 1
    BY <2>3, Sizes
  <2>6. PICK p \in Int, r \in Int : p = fun[Taken(T)] /\ r = it[U] /\ p >= b
    BY <1>1, <2>3 DEF SumParts
  <2>7. n * b = (n - 1) * b + b
    OBVIOUS
  <2>8. it[T] = p + r /\ r >= (n - 1) * b
    BY <2>3, <2>4, <2>5, <2>6
  <2>9. (n - 1) * b \in Int
    OBVIOUS
  <2>10. p + r >= n * b
    BY <2>6, <2>7, <2>8, <2>9
  <2> QED
    BY <2>5, <2>8, <2>10
<1>3. it[Slots] >= Cardinality(Slots) * b
  BY <1>2
<1> QED
  BY <1>1, <1>3, SlotsFinite

\* Sums compare as their parts do, each with its own factor.
LEMMA SumsCompare ==
  ASSUME NEW f \in [Slots -> Int], NEW g \in [Slots -> Int], NEW a \in Int, NEW b \in Int,
         \A i \in Slots : a * f[i] <= b * g[i]
  PROVE  a * SumFunction(f) <= b * SumFunction(g)
<1>1. PICK u : SumParts(u, f) /\ SumFunction(f) = u[Slots]
  BY SumsFold
<1>2. PICK v : SumParts(v, g) /\ SumFunction(g) = v[Slots]
  BY SumsFold
<1> DEFINE Bad == { T \in SUBSET Slots : ~ (a * u[T] <= b * v[T]) }
<1>3. ASSUME Bad # {} PROVE FALSE
  <2>1. PICK T \in Bad : \A x \in T : T \ {x} \notin Bad
    BY <1>3, SmallestSet
  <2> T \in SUBSET Slots /\ ~ (a * u[T] <= b * v[T])
    OBVIOUS
  <2>2. T # {}
    <3>1. ASSUME T = {} PROVE FALSE
      <4>1. u[T] = 0 /\ v[T] = 0
        BY <1>1, <1>2, <3>1 DEF SumParts
      <4> QED
        BY <4>1
    <3> QED
      BY <3>1
  <2> DEFINE U == T \ {Taken(T)}
  <2>3. /\ Taken(T) \in T /\ U \in SUBSET Slots
        /\ u[T] = f[Taken(T)] + u[U]
        /\ v[T] = g[Taken(T)] + v[U]
    BY <1>1, <1>2, <2>2, Sizes DEF SumParts
  <2>4. PICK p \in Int, r \in Int, q \in Int, s \in Int :
          /\ p = f[Taken(T)] /\ r = u[U] /\ q = g[Taken(T)] /\ s = v[U]
          /\ a * p <= b * q
    BY <1>1, <1>2, <2>3 DEF SumParts
  <2>5. a * r <= b * s
    BY <2>1, <2>3, <2>4
  <2>6. a * (p + r) = a * p + a * r /\ b * (q + s) = b * q + b * s
    OBVIOUS
  <2>7. a * p \in Int /\ a * r \in Int /\ b * q \in Int /\ b * s \in Int
    OBVIOUS
  <2>8. a * (p + r) <= b * (q + s)
    BY <2>4, <2>5, <2>6, <2>7
  <2> QED
    BY <2>3, <2>4, <2>8
<1> QED
  BY <1>1, <1>2, <1>3

(***************************************************************************)
(* The weights.                                                            *)
(***************************************************************************)

\* Samples and variances are numbers, and no variance is negative: each is a
\* value a message brought, or the zero the array starts with.
MInv ==
  message_array \in [Slots -> [sample : Int, variance : Nat]]

\* The two arrays are made of such numbers.
LEMMA ArraysType ==
  MInv => samples \in [Slots -> Int] /\ variances \in [Slots -> Nat]
BY DEF MInv, samples, variances

\* The common multiple is a product: a slot multiplies that of the others by its
\* variance, unless that is zero.
ProductParts(it) ==
  /\ it \in [SUBSET Slots -> Int]
  /\ it[{}] = 1
  /\ \A T \in SUBSET Slots :
       T # {} => it[T] = IF variances[Taken(T)] = 0 THEN it[T \ {Taken(T)}]
                         ELSE variances[Taken(T)] * it[T \ {Taken(T)}]

\* CommonMultiple is made of such parts.
LEMMA ProductFolds ==
  ASSUME MInv
  PROVE  \E it : ProductParts(it) /\ CommonMultiple = it[Slots]
<1>1. variances \in [Slots -> Nat] /\ DOMAIN variances = Slots
  BY ArraysType DEF variances
<1> DEFINE op(v, r) == IF v = 0 THEN r ELSE v * r
           step == [x \in Slots |-> [r \in Int |-> op(variances[x], r)]]
           Rec(it) == it = [T \in SUBSET Slots |->
                             IF T = {} THEN 1
                             ELSE op(variances[Taken(T)], it[T \ {Taken(T)}])]
<1>2. PICK g : Folds(g, step, 1)
  BY FoldsExist
<1>3. g \in [SUBSET Slots -> Int]
  <2>1. step \in [Slots -> [Int -> Int]]
    BY <1>1
  <2> HIDE DEF step
  <2>2. 1 \in Int
    OBVIOUS
  <2> QED
    BY <1>2, <2>1, <2>2, FoldsType
<1>4. \A T \in SUBSET Slots :
        T # {} => step[Taken(T)][g[T \ {Taken(T)}]] = op(variances[Taken(T)], g[T \ {Taken(T)}])
  BY <1>3, Sizes
<1> HIDE DEF step
<1>5. Rec(g)
  BY <1>2, <1>4 DEF Folds
<1> DEFINE h == CHOOSE it : Rec(it)
<1>6. Rec(h)
  BY <1>5
<1>7. CommonMultiple = h[Slots]
  BY <1>1 DEF CommonMultiple, FoldFunction, FoldFunctionOnSet, MapThenFoldSet, Taken
<1> HIDE DEF h
<1>8. /\ h[{}] = 1
      /\ \A T \in SUBSET Slots : T # {} => h[T] = op(variances[Taken(T)], h[T \ {Taken(T)}])
  <2>1. \A T \in SUBSET Slots :
          h[T] = IF T = {} THEN 1 ELSE op(variances[Taken(T)], h[T \ {Taken(T)}])
    BY <1>6
  <2> QED
    BY <2>1
<1> DEFINE Bad == { T \in SUBSET Slots : h[T] \notin Int }
<1>9. ASSUME Bad # {} PROVE FALSE
  <2>1. PICK T \in Bad : \A x \in T : T \ {x} \notin Bad
    BY <1>9, SmallestSet
  <2> T \in SUBSET Slots /\ h[T] \notin Int
    OBVIOUS
  <2>2. T # {}
    <3>1. ASSUME T = {} PROVE FALSE
      <4>1. h[T] = 1 /\ 1 \in Int
        BY <1>8, <3>1
      <4> QED
        BY <4>1
    <3> QED
      BY <3>1
  <2>3. h[T] = op(variances[Taken(T)], h[T \ {Taken(T)}])
    BY <1>8, <2>2
  <2>4. Taken(T) \in T /\ h[T \ {Taken(T)}] \in Int
    BY <2>1, <2>2, Sizes
  <2>5. variances[Taken(T)] \in Nat
    BY <1>1, <2>4
  <2> QED
    BY <2>3, <2>4, <2>5
<1>10. ProductParts(h)
  BY <1>6, <1>8, <1>9 DEF ProductParts
<1> QED
  BY <1>7, <1>10

\* The common multiple is positive, and no variance is larger.
LEMMA MultipleBounds ==
  ASSUME MInv
  PROVE  /\ CommonMultiple \in Nat /\ CommonMultiple >= 1
         /\ \A i \in Slots : variances[i] <= CommonMultiple
<1>1. variances \in [Slots -> Nat]
  BY ArraysType
<1>2. PICK it : ProductParts(it) /\ CommonMultiple = it[Slots]
  BY ProductFolds
<1> DEFINE Large(T) == it[T] >= 1 /\ \A i \in T : variances[i] <= it[T]
           Bad == { T \in SUBSET Slots : ~ Large(T) }
<1>3. ASSUME Bad # {} PROVE FALSE
  <2>1. PICK T \in Bad : \A x \in T : T \ {x} \notin Bad
    BY <1>3, SmallestSet
  <2> T \in SUBSET Slots /\ ~ Large(T)
    OBVIOUS
  <2>2. T # {}
    <3>1. ASSUME T = {} PROVE FALSE
      <4>1. it[T] = 1
        BY <1>2, <3>1 DEF ProductParts
      <4> QED
        BY <3>1, <4>1
    <3> QED
      BY <3>1
  <2> DEFINE U == T \ {Taken(T)}
  <2>3. Taken(T) \in T /\ U \in SUBSET Slots
    BY <2>2, Sizes
  <2>4. PICK v \in Nat, r \in Int : v = variances[Taken(T)] /\ r = it[U]
    BY <1>1, <1>2, <2>3 DEF ProductParts
  <2>5. r >= 1 /\ \A i \in U : variances[i] <= r
    BY <2>1, <2>3, <2>4
  <2>6. PICK p \in Int : p = it[T] /\ p = IF v = 0 THEN r ELSE v * r
    BY <1>2, <2>2, <2>4 DEF ProductParts
  <2>7. p >= r /\ p >= v
    <3>1. CASE v = 0
      BY <2>5, <2>6, <3>1
    <3>2. CASE v # 0
      <4>1. v * r >= r /\ v * r >= v
        BY <2>5, <3>2
      <4> QED
        BY <2>6, <3>2, <4>1
    <3> QED
      BY <3>1, <3>2
  <2>8. ASSUME NEW i \in T PROVE variances[i] <= p
    <3>1. CASE i = Taken(T)
      BY <2>4, <2>7, <3>1
    <3>2. CASE i # Taken(T)
      <4>1. variances[i] <= r /\ variances[i] \in Nat
        BY <1>1, <2>5, <3>2
      <4> QED
        BY <2>7, <4>1
    <3> QED
      BY <3>1, <3>2
  <2> QED
    BY <2>5, <2>6, <2>7, <2>8
<1>4. Large(Slots) /\ it[Slots] \in Int
  BY <1>2, <1>3 DEF ProductParts
<1> QED
  BY <1>2, <1>4

\* A quotient falls as its divisor rises, and is positive for a divisor no larger
\* than what is divided.
LEMMA Quotients ==
  ASSUME NEW c \in Nat, NEW v \in Nat \ {0}
  PROVE  /\ c \div v \in Nat
         /\ v <= c => c \div v >= 1
         /\ \A u \in Nat \ {0} : v <= u => c \div u <= c \div v
<1>1. \A w \in Nat \ {0} : c \div w \in Nat /\ w * (c \div w) <= c /\ c < w * (c \div w) + w
  <2> SUFFICES ASSUME NEW w \in Nat \ {0}
               PROVE  c \div w \in Nat /\ w * (c \div w) <= c /\ c < w * (c \div w) + w
    OBVIOUS
  <2>1. c \div w \in Int /\ c % w \in 0 .. w - 1 /\ c = w * (c \div w) + (c % w)
    OBVIOUS
  <2>2. PICK q \in Int, r \in 0 .. w - 1 : q = c \div w /\ c = w * q + r
    BY <2>1
  <2>3. q >= 0
    <3>1. ASSUME q <= -1 PROVE FALSE
      <4>1. w * q <= - w
        BY <3>1
      <4> QED
        BY <2>2, <4>1
    <3> QED
      BY <3>1
  <2> QED
    BY <2>2, <2>3
<1>2. PICK q \in Nat : q = c \div v /\ v * q <= c /\ c < v * q + v
  BY <1>1
<1>3. v <= c => q >= 1
  <2>1. q = 0 => v * q = 0
    OBVIOUS
  <2> QED
    BY <1>2, <2>1
<1>4. ASSUME NEW u \in Nat \ {0}, v <= u
      PROVE  c \div u <= q
  <2>1. PICK p \in Nat : p = c \div u /\ u * p <= c
    BY <1>1
  <2>2. ASSUME p >= q + 1 PROVE FALSE
    <3>1. v * p <= u * p
      BY <1>4
    <3>2. v * (q + 1) <= v * p
      BY <2>2
    <3>3. v * (q + 1) = v * q + v
      OBVIOUS
    <3>4. v * p \in Int /\ u * p \in Int /\ v * q \in Int /\ v * (q + 1) \in Int
      OBVIOUS
    <3> QED
      BY <1>2, <2>1, <3>1, <3>2, <3>3, <3>4
  <2> QED
    BY <2>1, <2>2
<1> QED
  BY <1>2, <1>3, <1>4

\* Every weight is a positive number.
LEMMA WeightsPositive ==
  ASSUME MInv
  PROVE  \A i \in Slots : Weight(variances[i]) \in Int /\ Weight(variances[i]) >= 1
<1> SUFFICES ASSUME NEW i \in Slots
             PROVE  Weight(variances[i]) \in Int /\ Weight(variances[i]) >= 1
  OBVIOUS
<1>1. PICK c \in Nat, v \in Nat : c = CommonMultiple /\ v = variances[i] /\ c >= 1 /\ v <= c
  BY MultipleBounds, ArraysType
<1>2. CASE v = 0
  BY <1>1, <1>2 DEF Weight
<1>3. CASE v # 0
  <2>1. PICK q \in Nat : q = c \div v /\ q >= 1
    BY <1>1, <1>3, Quotients
  <2>2. PICK n \in Nat : n = Unit /\ n >= 1
    BY WeightedMeanAssumption
  <2>3. q * n >= 1 /\ q * n \in Int
    BY <2>1, <2>2
  <2>4. Weight(v) = q * n
    BY <1>1, <1>3, <2>1, <2>2 DEF Weight
  <2> QED
    BY <1>1, <2>3, <2>4
<1> QED
  BY <1>2, <1>3

\* A variance of at least one, and at least another one, has no larger weight.
LEMMA WeightsFall ==
  ASSUME MInv, NEW i \in Slots, NEW j \in Slots,
         variances[i] >= Unit, variances[j] <= variances[i]
  PROVE  Weight(variances[j]) >= Weight(variances[i])
<1>1. PICK c \in Nat : c = CommonMultiple
  BY MultipleBounds
<1>2. PICK u \in Nat, v \in Nat : u = variances[i] /\ v = variances[j]
  BY ArraysType
<1>3. PICK n \in Nat : n = Unit /\ n >= 1
  BY WeightedMeanAssumption
<1>4. u >= n /\ v <= u /\ u # 0
  BY <1>2, <1>3
<1>5. PICK q \in Nat : q = c \div u
  BY <1>4, Quotients
<1>6. Weight(u) = q * n
  BY <1>1, <1>3, <1>4, <1>5 DEF Weight
<1>7. CASE v = 0
  <2>1. Weight(v) = c
    BY <1>1, <1>7 DEF Weight
  <2>2. q * n <= q * u
    BY <1>4
  <2>3. q * u <= c
    <3>1. c % u >= 0 /\ c % u \in Int /\ c = u * q + (c % u)
      BY <1>4, <1>5
    <3> QED
      BY <3>1
  <2> QED
    BY <1>2, <1>6, <2>1, <2>2, <2>3
<1>8. CASE v # 0
  <2>1. PICK p \in Nat : p = c \div v /\ q <= p
    BY <1>4, <1>5, <1>8, Quotients
  <2>2. Weight(v) = p * n
    BY <1>1, <1>3, <1>8, <2>1 DEF Weight
  <2>3. q * n <= p * n
    BY <2>1
  <2> QED
    BY <1>2, <1>6, <2>2, <2>3
<1> QED
  BY <1>7, <1>8

(***************************************************************************)
(* The value.                                                              *)
(***************************************************************************)

Weights         == [i \in Slots |-> Weight(variances[i])]
WeightedSamples == [i \in Slots |-> Weight(variances[i]) * samples[i]]

\* The sums are sums of numbers.
LEMMA WeightsType ==
  ASSUME MInv
  PROVE  /\ Weights \in [Slots -> Int] /\ WeightedSamples \in [Slots -> Int]
         /\ SumWeights = SumFunction(Weights) /\ SumWeights \in Int
         /\ WeightedSum = SumFunction(WeightedSamples) /\ WeightedSum \in Int
<1>1. \A i \in Slots : Weight(variances[i]) \in Int /\ samples[i] \in Int
  BY WeightsPositive, ArraysType
<1>2. Weights \in [Slots -> Int] /\ WeightedSamples \in [Slots -> Int]
  BY <1>1 DEF Weights, WeightedSamples
<1>3. SumWeights = SumFunction(Weights) /\ WeightedSum = SumFunction(WeightedSamples)
  BY DEF SumWeights, WeightedSum, Weights, WeightedSamples
<1> QED
  BY <1>2, <1>3, SumType

\* Among the samples there is a least one, and a greatest one.
LEMMA ExtremeSamples ==
  ASSUME MInv
  PROVE  /\ \E i \in Slots : \A j \in Slots : samples[i] <= samples[j]
         /\ \E i \in Slots : \A j \in Slots : samples[i] >= samples[j]
<1> DEFINE Some(T) == /\ \E i \in T : \A j \in T : samples[i] <= samples[j]
                      /\ \E i \in T : \A j \in T : samples[i] >= samples[j]
           Bad == { T \in SUBSET Slots : T # {} /\ ~ Some(T) }
<1>1. samples \in [Slots -> Int]
  BY ArraysType
<1>2. ASSUME Bad # {} PROVE FALSE
  <2>1. PICK T \in Bad : \A x \in T : T \ {x} \notin Bad
    BY <1>2, SmallestSet
  <2>2. PICK x \in T : TRUE
    OBVIOUS
  <2> DEFINE U == T \ {x}
  <2>3. CASE U = {}
    <3>1. T = {x} /\ samples[x] \in Int
      BY <1>1, <2>2, <2>3
    <3> QED
      BY <2>1, <3>1
  <2>4. CASE U # {}
    <3>1. U \in SUBSET Slots /\ U \notin Bad
      BY <2>1, <2>2
    <3>2. PICK lo \in U, hi \in U : \A j \in U : samples[lo] <= samples[j] /\ samples[hi] >= samples[j]
      BY <2>4, <3>1
    <3>3. \A j \in T : samples[j] \in Int
      BY <1>1
    <3>4. \E i \in T : \A j \in T : samples[i] <= samples[j]
      <4>1. CASE samples[lo] <= samples[x]
        BY <3>2, <4>1
      <4>2. CASE ~ (samples[lo] <= samples[x])
        BY <2>2, <3>2, <3>3, <4>2
      <4> QED
        BY <4>1, <4>2
    <3>5. \E i \in T : \A j \in T : samples[i] >= samples[j]
      <4>1. CASE samples[hi] >= samples[x]
        BY <3>2, <4>1
      <4>2. CASE ~ (samples[hi] >= samples[x])
        BY <2>2, <3>2, <3>3, <4>2
      <4> QED
        BY <4>1, <4>2
    <3> QED
      BY <2>1, <3>4, <3>5
  <2> QED
    BY <2>3, <2>4
<1>3. Some(Slots)
  BY <1>2, SlotsFinite
<1> QED
  BY <1>3

\* The value is a mean of the samples.
LEMMA MeanOfSamples == MInv => BetweenSamples
<1> SUFFICES ASSUME MInv PROVE BetweenSamples
  OBVIOUS
<1>1. SumWeights > 0
  <2>1. \A i \in Slots : Weights[i] >= 1
    BY WeightsPositive DEF Weights
  <2>2. SumFunction(Weights) >= NumNodes * 1
    BY <2>1, WeightsType, SumAtLeast
  <2> QED
    BY <2>2, WeightsType, SlotsFinite
<1>2. ASSUME NEW i \in Slots
      PROVE  /\ samples[i] \in Int
             /\ (\A j \in Slots : samples[i] <= samples[j]) => samples[i] * SumWeights <= WeightedSum
             /\ (\A j \in Slots : samples[i] >= samples[j]) => samples[i] * SumWeights >= WeightedSum
  <2>1. PICK m \in Int : m = samples[i]
    BY ArraysType
  <2>2. ASSUME NEW j \in Slots
        PROVE  /\ m <= samples[j] => m * Weights[j] <= 1 * WeightedSamples[j]
               /\ m >= samples[j] => 1 * WeightedSamples[j] <= m * Weights[j]
    <3>1. PICK w \in Int, x \in Int : /\ w = Weights[j] /\ w >= 1 /\ x = samples[j]
                                      /\ WeightedSamples[j] = w * x
      BY WeightsPositive, ArraysType DEF Weights, WeightedSamples
    <3>2. (m <= x => m * w <= w * x) /\ (m >= x => w * x <= m * w)
      BY <3>1
    <3>3. w * x \in Int /\ 1 * (w * x) = w * x
      OBVIOUS
    <3> QED
      BY <3>1, <3>2, <3>3
  <2>3. ASSUME \A j \in Slots : m <= samples[j]
        PROVE  m * SumFunction(Weights) <= 1 * SumFunction(WeightedSamples)
    <3>1. \A j \in Slots : m * Weights[j] <= 1 * WeightedSamples[j]
      BY <2>2, <2>3
    <3>2. 1 \in Int
      OBVIOUS
    <3> QED
      BY <3>1, <3>2, WeightsType, SumsCompare
  <2>4. ASSUME \A j \in Slots : m >= samples[j]
        PROVE  1 * SumFunction(WeightedSamples) <= m * SumFunction(Weights)
    <3>1. \A j \in Slots : 1 * WeightedSamples[j] <= m * Weights[j]
      BY <2>2, <2>4
    <3>2. 1 \in Int
      OBVIOUS
    <3> QED
      BY <3>1, <3>2, WeightsType, SumsCompare
  <2>5. PICK a \in Int, b \in Int : a = SumWeights /\ b = WeightedSum
    BY WeightsType
  <2>6. 1 * b = b /\ m * a \in Int
    OBVIOUS
  <2>7. (\A j \in Slots : m <= samples[j]) => m * a <= b
    BY <2>3, <2>5, <2>6, WeightsType
  <2>8. (\A j \in Slots : m >= samples[j]) => m * a >= b
    BY <2>4, <2>5, <2>6, WeightsType
  <2> QED
    BY <2>1, <2>5, <2>7, <2>8
<1>3. (\E i \in Slots : samples[i] * SumWeights <= WeightedSum)
  BY <1>2, ExtremeSamples
<1>4. (\E i \in Slots : samples[i] * SumWeights >= WeightedSum)
  BY <1>2, ExtremeSamples
<1> QED
  BY <1>1, <1>3, <1>4 DEF BetweenSamples, AggregateData

\* The most uncertain sample has the least weight, and no more than its share.
LEMMA LeastShare == MInv => UncertainCountsLess
<1> SUFFICES ASSUME MInv, NEW i \in Slots,
                    variances[i] >= Unit, \A j \in Slots : variances[j] <= variances[i]
             PROVE  NumNodes * Weight(variances[i]) <= SumWeights
  BY DEF UncertainCountsLess
<1>1. PICK b \in Int : b = Weight(variances[i])
  BY WeightsPositive
<1>2. \A j \in Slots : Weights[j] >= b
  BY <1>1, WeightsFall DEF Weights
<1>3. SumFunction(Weights) >= NumNodes * b
  BY <1>2, WeightsType, SumAtLeast
<1>4. NumNodes * b \in Int
  BY SlotsFinite
<1> QED
  BY <1>1, <1>3, <1>4, WeightsType

(***************************************************************************)
(* The theorems.                                                           *)
(***************************************************************************)

\* The array starts with zeros.
LEMMA InvInit == Init => MInv
BY DEF Init, MInv

\* A message brings a sample and a variance of those there are.
LEMMA InvStep == MInv /\ [Next]_message_array => MInv'
<1> SUFFICES ASSUME MInv, [Next]_message_array PROVE MInv'
  OBVIOUS
<1>1. CASE UNCHANGED message_array
  BY <1>1 DEF MInv
<1>2. ASSUME NEW i \in Slots, Store(i) PROVE MInv'
  <2>1. PICK x \in Samples, v \in Variances :
          message_array' = [message_array EXCEPT ![i] = [sample |-> x, variance |-> v]]
    BY <1>2 DEF Store
  <2>2. x \in Int /\ v \in Nat
    BY WeightedMeanAssumption
  <2> QED
    BY <2>1, <2>2 DEF MInv
<1> QED
  BY <1>1, <1>2 DEF Next

\* The value sent lies between the samples received, and the sum it is divided by
\* is never zero: aggregate_data, for every number of slots.
THEOREM BetweenSamplesHolds == Spec => []BetweenSamples
<1>1. Init => MInv
  BY InvInit
<1>2. MInv /\ [Next]_message_array => MInv'
  BY InvStep
<1>3. MInv => BetweenSamples
  BY MeanOfSamples
<1> QED
  BY <1>1, <1>2, <1>3, PTL DEF Spec

\* The most uncertain sample counts no more than its share: the weights of
\* aggregate_data, for variances from the weight of one on.
THEOREM UncertainCountsLessHolds == Spec => []UncertainCountsLess
<1>1. Init => MInv
  BY InvInit
<1>2. MInv /\ [Next]_message_array => MInv'
  BY InvStep
<1>3. MInv => UncertainCountsLess
  BY LeastShare
<1> QED
  BY <1>1, <1>2, <1>3, PTL DEF Spec

=============================================================================
