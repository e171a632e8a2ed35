----------------------------- MODULE OrderProofs -----------------------------
(***************************************************************************)
(* Finite sets of numbers: the largest one, and that they can be put in    *)
(* order.  The induction is over the naturals as a set: a set of naturals  *)
(* has a least element, so a smallest counterexample does.                 *)
(***************************************************************************)
EXTENDS Order, Sequences, FiniteSetsExt, TLAPS, FiniteSetTheorems, WellFoundedInduction

\* A set of naturals has a least element.
LEMMA Least ==
    ASSUME NEW T \in SUBSET Nat, T # {}
    PROVE  \E x \in T : \A y \in T : x <= y
  <1>1. PICK x \in T : \A y \in T : <<y, x>> \notin OpToRel(<, Nat)
    BY NatLessThanWellFounded, WFMin
  <1>2. \A y \in T : ~(y < x)
    BY <1>1 DEF OpToRel
  <1> QED BY <1>2

\* What Max chooses from a bounded set.
LEMMA Largest ==
    ASSUME NEW N \in Nat, NEW S \in SUBSET (0 .. N), S # {}
    PROVE  Max(S) \in S /\ \A y \in S : y <= Max(S)
  <1> DEFINE T == {N - x : x \in S}
  <1>1. T \in SUBSET Nat /\ T # {}
    <2>1. \A x \in S : N - x \in Nat
      OBVIOUS
    <2> QED BY <2>1
  <1>2. PICK t \in T : \A y \in T : t <= y
    BY <1>1, Least
  <1>3. PICK x \in S : t = N - x
    OBVIOUS
  <1>4. \A y \in S : x >= y
    BY <1>2, <1>3
  <1> QED BY <1>4 DEF Max

\* A set of numbers and its size.
LEMMA BoundedFinite ==
    ASSUME NEW N \in Nat, NEW S \in SUBSET (0 .. N)
    PROVE  IsFiniteSet(S) /\ Cardinality(S) \in Nat
  <1>1. IsFiniteSet(0 .. N)
    BY FS_Interval
  <1> QED BY <1>1, FS_Subset, FS_CardinalityType

\* f lists the numbers of S in their order.
Lists(f, S) ==
    /\ f \in [1 .. Cardinality(S) -> S]
    /\ \A i, j \in 1 .. Cardinality(S) : i < j => f[i] < f[j]

\* A bounded set of numbers can be put in order: the smallest one that cannot
\* be would have a largest number, and the others can.
LEMMA CanBeListed ==
    ASSUME NEW N \in Nat
    PROVE  \A S \in SUBSET (0 .. N) : \E f : Lists(f, S)
  <1> DEFINE Bad == {n \in Nat : \E S \in SUBSET (0 .. N) :
                                    Cardinality(S) = n /\ \A f : ~Lists(f, S)}
  <1>1. SUFFICES ASSUME Bad # {} PROVE FALSE
    BY BoundedFinite
  <1>2. PICK n \in Bad : \A m \in Bad : n <= m
    BY <1>1, Least
  <1>3. PICK S \in SUBSET (0 .. N) : Cardinality(S) = n /\ \A f : ~Lists(f, S)
    OBVIOUS
  <1>4. CASE S = {}
    <2>1. n = 0
      BY <1>3, <1>4, FS_EmptySet
    <2>2. Lists([i \in 1 .. 0 |-> 0], S)
      BY <1>3, <2>1 DEF Lists
    <2> QED BY <1>3, <2>2
  <1>5. CASE S # {}
    <2> DEFINE m == Max(S)
               R == S \ {m}
    <2>1. m \in S /\ \A y \in S : y <= m
      BY <1>5, Largest
    <2>2. R \in SUBSET (0 .. N) /\ IsFiniteSet(S)
      BY BoundedFinite
    <2>3. n \in Nat /\ Cardinality(R) = n - 1 /\ n - 1 \in Nat
      <3>1. n \in Nat /\ Cardinality(R) \in Nat
        BY <2>2, BoundedFinite
      <3>2. Cardinality(R) = Cardinality(S) - 1
        BY <2>1, <2>2, FS_RemoveElement
      <3> HIDE DEF R, Bad
      <3> QED BY <1>3, <3>1, <3>2
    <2>4. n - 1 \notin Bad
      BY <1>2, <2>3
    <2>5. PICK f : Lists(f, R)
      BY <2>2, <2>3, <2>4
    <2> HIDE DEF m, R, Bad
    <2> DEFINE g == [i \in 1 .. n |-> IF i = n THEN m ELSE f[i]]
    <2>6. \A i \in 1 .. (n - 1) : f[i] \in S /\ f[i] < m /\ f[i] \in Int
      <3>1. \A y \in R : y \in S /\ y < m /\ y \in Int
        BY <2>1 DEF R
      <3> QED BY <2>3, <2>5, <3>1 DEF Lists
    <2>7. Lists(g, S)
      <3>1. g \in [1 .. Cardinality(S) -> S]
        BY <1>3, <2>1, <2>3, <2>6
      <3>2. ASSUME NEW i \in 1 .. n, NEW j \in 1 .. n, i < j PROVE g[i] < g[j]
        <4>1. i \in 1 .. (n - 1) /\ g[i] = f[i]
          BY <2>3, <3>2
        <4>2. CASE j = n
          BY <2>6, <4>1, <4>2
        <4>3. CASE j # n
          <5>1. j \in 1 .. (n - 1) /\ g[j] = f[j]
            BY <2>3, <4>3
          <5> QED BY <2>3, <2>5, <3>2, <4>1, <5>1 DEF Lists
        <4> QED BY <4>2, <4>3
      <3> QED BY <1>3, <3>1, <3>2 DEF Lists
    <2> QED BY <1>3, <2>7
  <1> QED BY <1>4, <1>5

\* Ascending lists a bounded set in order.
LEMMA AscendingIsList ==
    ASSUME NEW N \in Nat, NEW S \in SUBSET (0 .. N)
    PROVE  Lists(Ascending(S), S)
  <1>1. \E g : Lists(g, S)
    BY CanBeListed
  <1> QED BY <1>1 DEF Lists, Ascending

\* Ascending lists every number of the set.
LEMMA AscendingReaches ==
    ASSUME NEW N \in Nat, NEW S \in SUBSET (0 .. N)
    PROVE  LET f == Ascending(S)
           IN  /\ f \in Seq(S) /\ Len(f) = Cardinality(S)
               /\ \A i \in 1 .. Len(f) : f[i] \in S
               /\ \A i, k \in 1 .. Len(f) : i < k => f[i] < f[k]
               /\ \A x \in S : \E i \in 1 .. Len(f) : f[i] = x
  <1> DEFINE f == Ascending(S)
             n == Cardinality(S)
  <1>1. Lists(f, S)
    BY AscendingIsList
  <1>2. n \in Nat /\ IsFiniteSet(S)
    BY BoundedFinite
  <1> HIDE DEF f
  <1>3. f \in Seq(S) /\ Len(f) = n
    <2>1. f \in [1 .. n -> S]
      BY <1>1 DEF Lists
    <2> HIDE DEF n
    <2> QED BY <1>2, <2>1
  <1>4. ASSUME NEW z \in S, \A i \in 1 .. n : f[i] # z PROVE FALSE
    <2> DEFINE R == S \ {z}
    <2>1. f \in [1 .. n -> R]
      BY <1>1, <1>4 DEF Lists
    <2>2. IsFiniteSet(R) /\ Cardinality(R) = n - 1
      BY <1>2, FS_RemoveElement
    <2>3. n # 0
      BY <1>2, FS_EmptySet
    <2>4. IsFiniteSet(1 .. n) /\ Cardinality(1 .. n) = n
      BY <1>2, <2>3, FS_Interval
    <2> HIDE DEF R, n
    <2>5. \E x, y \in 1 .. n : x # y /\ f[x] = f[y]
      BY <1>2, <2>1, <2>2, <2>3, <2>4, FS_PigeonHole
    <2>6. PICK x \in 1 .. n, y \in 1 .. n : x < y /\ f[x] = f[y]
      BY <1>2, <2>5
    <2>7. f[x] < f[y] /\ f[x] \in 0 .. N
      BY <1>1, <2>6 DEF Lists, n
    <2> QED BY <2>6, <2>7
  <1>5. /\ \A i \in 1 .. n : f[i] \in S
        /\ \A i, k \in 1 .. n : i < k => f[i] < f[k]
    BY <1>1 DEF Lists
  <1> QED BY <1>3, <1>4, <1>5 DEF f

\* If 0 is in the set, 0 comes first.
LEMMA AscendingLists ==
    ASSUME NEW N \in Nat, NEW S \in SUBSET (0 .. N), 0 \in S
    PROVE  LET f == Ascending(S)
           IN  /\ f \in Seq(0 .. N) /\ f # <<>> /\ f[1] = 0
               /\ \A i \in 1 .. Len(f) : f[i] \in S
               /\ \A i \in 1 .. (Len(f) - 1) : f[i] < f[i + 1]
  <1> DEFINE f == Ascending(S)
  <1>1. /\ f \in Seq(S)
        /\ \A i \in 1 .. Len(f) : f[i] \in S
        /\ \A i, k \in 1 .. Len(f) : i < k => f[i] < f[k]
        /\ \A x \in S : \E i \in 1 .. Len(f) : f[i] = x
    BY AscendingReaches
  <1> HIDE DEF f
  <1>2. Len(f) \in Nat /\ f \in Seq(0 .. N)
    <2>1. Len(f) \in Nat /\ f \in [1 .. Len(f) -> S]
      BY <1>1
    <2>2. f \in [1 .. Len(f) -> 0 .. N]
      BY <2>1
    <2> QED BY <2>1, <2>2
  <1>3. PICK i \in 1 .. Len(f) : f[i] = 0
    BY <1>1
  <1>4. f[1] = 0 /\ f # <<>>
    <2>1. 1 \in 1 .. Len(f) /\ (i = 1 \/ 1 < i)
      BY <1>2, <1>3
    <2>2. f[1] \in 0 .. N /\ (1 < i => f[1] < f[i])
      BY <1>1, <2>1
    <2>3. f[1] = 0
      BY <1>3, <2>1, <2>2
    <2>4. ASSUME f = <<>> PROVE FALSE
      <3>1. Len(f) = 0
        BY <2>4
      <3> QED BY <2>1, <3>1
    <2> QED BY <2>3, <2>4
  <1>5. \A j \in 1 .. (Len(f) - 1) : f[j] < f[j + 1]
    <2>1. \A j \in 1 .. (Len(f) - 1) : j \in 1 .. Len(f) /\ j + 1 \in 1 .. Len(f) /\ j < j + 1
      BY <1>2
    <2> QED BY <1>1, <2>1
  <1> QED BY <1>1, <1>2, <1>4, <1>5 DEF f
=============================================================================
