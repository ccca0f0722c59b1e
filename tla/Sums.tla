-------------------------------- MODULE Sums --------------------------------
(***************************************************************************)
(* Facts about sums over finite sets, as MapThenSumSet computes them: the  *)
(* exposure of an organisation (CreditRelease) and the units that left the *)
(* warehouse (Orders) are such sums.                                       *)
(*                                                                         *)
(* A sum of naturals counts marks: x contributes w[x] of them.  Counting   *)
(* needs no recursion, so the count is what is reasoned about, and the     *)
(* recursion that computes the sum is shown to reach it: the count solves  *)
(* its equation, and no other function does.                               *)
(***************************************************************************)
EXTENDS FiniteSetsExt, Integers, FiniteSetTheorems, WellFoundedInduction, TLAPS

SumOf(w, S) == MapThenSumSet(LAMBDA x : w[x], S)

Column(w, x) == {x} \X (1..w[x])
Marks(w, S)  == UNION {Column(w, x) : x \in S}

\* What the recursion says of the function from sets to their sums.
SolvesSums(g, w, S) ==
  g = [s \in SUBSET S |-> IF s = {} THEN 0
                          ELSE w[CHOOSE x \in s : TRUE] + g[s \ {CHOOSE x \in s : TRUE}]]

Solution(w, S) == CHOOSE g : SolvesSums(g, w, S)

-----------------------------------------------------------------------------
\* Of some subsets of a finite set, one contains no other.
LEMMA SmallestSubset ==
  ASSUME NEW S, IsFiniteSet(S), NEW B \in SUBSET (SUBSET S), B # {}
  PROVE  \E s \in B : \A t \in B : t \subseteq s => t = s
  <1>1. IsWellFoundedOn(StrictSubsetOrdering(S), SUBSET S)
    BY FS_StrictSubsetOrderingWellFounded, FS_FiniteSubsetsOfFinite
  <1>2. \E s \in B : \A t \in B : ~ (<<t, s>> \in StrictSubsetOrdering(S))
    BY <1>1, WFMin
  <1> QED BY <1>2 DEF StrictSubsetOrdering

LEMMA ColumnCount ==
  ASSUME NEW w, NEW x, w[x] \in Nat
  PROVE  IsFiniteSet(Column(w, x)) /\ Cardinality(Column(w, x)) = w[x]
  <1>1. IsFiniteSet({x}) /\ Cardinality({x}) = 1
    BY FS_Singleton
  <1>2. IsFiniteSet(1..w[x]) /\ Cardinality(1..w[x]) = w[x]
    BY FS_Interval
  <1>3. IsFiniteSet({x} \X (1..w[x])) /\ Cardinality({x} \X (1..w[x])) = 1 * w[x]
    BY <1>1, <1>2, FS_Product
  <1> QED BY <1>3 DEF Column

LEMMA MarksSplit ==
  ASSUME NEW w, NEW S, NEW x \in S
  PROVE  /\ Marks(w, S) = Marks(w, S \ {x}) \cup Column(w, x)
         /\ Marks(w, S \ {x}) \cap Column(w, x) = {}
  <1>1. \A y, z : y # z => Column(w, y) \cap Column(w, z) = {}
    BY DEF Column
  <1>2. Marks(w, S) = Marks(w, S \ {x}) \cup Column(w, x)
    BY DEF Marks
  <1>3. Marks(w, S \ {x}) \cap Column(w, x) = {}
    BY <1>1 DEF Marks
  <1> QED BY <1>2, <1>3

LEMMA MarksFinite ==
  ASSUME NEW w, NEW S, IsFiniteSet(S), \A x \in S : w[x] \in Nat
  PROVE  \A s \in SUBSET S : IsFiniteSet(Marks(w, s))
  <1> DEFINE B == {s \in SUBSET S : ~IsFiniteSet(Marks(w, s))}
  <1> SUFFICES ASSUME B # {} PROVE FALSE
    OBVIOUS
  <1>1. PICK s \in B : \A t \in B : t \subseteq s => t = s
    <2> HIDE DEF B
    <2>1. B \in SUBSET (SUBSET S)
      BY DEF B
    <2> QED BY <2>1, SmallestSubset
  <1>2. CASE s = {}
    <2>1. Marks(w, s) = {}
      BY <1>2 DEF Marks
    <2> QED BY <1>1, <2>1, FS_EmptySet
  <1>3. CASE s # {}
    <2>1. PICK x \in s : TRUE
      BY <1>3
    <2>2. s \ {x} \notin B /\ s \ {x} \in SUBSET S
      BY <1>1, <2>1
    <2>3. IsFiniteSet(Marks(w, s \ {x})) /\ IsFiniteSet(Column(w, x))
      BY <2>1, <2>2, ColumnCount
    <2>4. IsFiniteSet(Marks(w, s \ {x}) \cup Column(w, x))
      BY <2>3, FS_Union
    <2>5. IsFiniteSet(Marks(w, s))
      BY <2>1, <2>4, MarksSplit
    <2> QED BY <1>1, <2>5
  <1> QED BY <1>2, <1>3

LEMMA MarksCount ==
  ASSUME NEW w, NEW S, IsFiniteSet(S), \A x \in S : w[x] \in Nat, NEW s \in SUBSET S, NEW x \in s
  PROVE  Cardinality(Marks(w, s)) = w[x] + Cardinality(Marks(w, s \ {x}))
  <1>1. IsFiniteSet(Marks(w, s \ {x})) /\ IsFiniteSet(Column(w, x)) /\ Cardinality(Column(w, x)) = w[x]
    BY MarksFinite, ColumnCount
  <1>2. /\ Marks(w, s) = Marks(w, s \ {x}) \cup Column(w, x)
        /\ Marks(w, s \ {x}) \cap Column(w, x) = {}
    BY MarksSplit
  <1>3. Cardinality(Marks(w, s)) = Cardinality(Marks(w, s \ {x})) + w[x] - Cardinality({})
    BY <1>1, <1>2, FS_Union
  <1>4. Cardinality(Marks(w, s \ {x})) \in Nat /\ Cardinality({}) = 0
    BY <1>1, FS_CardinalityType, FS_EmptySet
  <1> QED BY <1>3, <1>4

\* Counting marks solves the recursion.
LEMMA CountingSolves ==
  ASSUME NEW w, NEW S, IsFiniteSet(S), \A x \in S : w[x] \in Nat
  PROVE  SolvesSums([s \in SUBSET S |-> Cardinality(Marks(w, s))], w, S)
  <1> DEFINE g == [s \in SUBSET S |-> Cardinality(Marks(w, s))]
             pick(s) == CHOOSE x \in s : TRUE
  <1>1. ASSUME NEW s \in SUBSET S
        PROVE  g[s] = IF s = {} THEN 0 ELSE w[pick(s)] + g[s \ {pick(s)}]
    <2>1. CASE s = {}
      <3>1. Marks(w, s) = {}
        BY <2>1 DEF Marks
      <3> QED BY <2>1, <3>1, FS_EmptySet
    <2>2. CASE s # {}
      <3>1. pick(s) \in s
        BY <2>2
      <3> HIDE DEF pick
      <3>2. Cardinality(Marks(w, s)) = w[pick(s)] + Cardinality(Marks(w, s \ {pick(s)}))
        BY <3>1, MarksCount
      <3>3. s \ {pick(s)} \in SUBSET S
        OBVIOUS
      <3> QED BY <2>2, <3>2, <3>3
    <2> QED BY <2>1, <2>2
  <1>2. g = [s \in SUBSET S |-> g[s]]
    OBVIOUS
  <1> HIDE DEF g
  <1>3. g = [s \in SUBSET S |-> IF s = {} THEN 0 ELSE w[pick(s)] + g[s \ {pick(s)}]]
    BY <1>1, <1>2
  <1>4. SolvesSums(g, w, S)
    BY <1>3 DEF SolvesSums
  <1> QED BY <1>4 DEF g

\* Nothing else does.
LEMMA OneSolution ==
  ASSUME NEW w, NEW S, IsFiniteSet(S), NEW g, NEW h, SolvesSums(g, w, S), SolvesSums(h, w, S)
  PROVE  \A s \in SUBSET S : g[s] = h[s]
  <1> DEFINE B == {s \in SUBSET S : g[s] # h[s]}
             pick(s) == CHOOSE x \in s : TRUE
  <1>1. \A s \in SUBSET S :
          /\ g[s] = IF s = {} THEN 0 ELSE w[pick(s)] + g[s \ {pick(s)}]
          /\ h[s] = IF s = {} THEN 0 ELSE w[pick(s)] + h[s \ {pick(s)}]
    BY DEF SolvesSums
  <1> SUFFICES ASSUME B # {} PROVE FALSE
    OBVIOUS
  <1>2. PICK s \in B : \A t \in B : t \subseteq s => t = s
    <2> HIDE DEF B
    <2>1. B \in SUBSET (SUBSET S)
      BY DEF B
    <2> QED BY <2>1, SmallestSubset
  <1>3. s \in SUBSET S /\ s # {}
    BY <1>1, <1>2
  <1>4. pick(s) \in s
    BY <1>3
  <1> HIDE DEF pick
  <1>5. s \ {pick(s)} \in SUBSET S /\ s \ {pick(s)} \notin B
    BY <1>2, <1>3, <1>4
  <1>6. g[s \ {pick(s)}] = h[s \ {pick(s)}]
    BY <1>5
  <1> QED BY <1>1, <1>2, <1>3, <1>6

\* The sum is the number of marks.
THEOREM SumCountsMarks ==
  ASSUME NEW w, NEW S, IsFiniteSet(S), \A x \in S : w[x] \in Nat
  PROVE  SumOf(w, S) = Cardinality(Marks(w, S))
  <1> DEFINE g == [s \in SUBSET S |-> Cardinality(Marks(w, s))]
  <1>1. SolvesSums(g, w, S)
    BY CountingSolves
  <1>2. g[S] = Cardinality(Marks(w, S))
    OBVIOUS
  <1> HIDE DEF g
  <1>3. SolvesSums(Solution(w, S), w, S)
    BY <1>1 DEF Solution
  <1>4. Solution(w, S)[S] = g[S]
    BY <1>1, <1>3, OneSolution
  <1>5. SumOf(w, S) = Solution(w, S)[S]
    BY DEF SumOf, MapThenSumSet, MapThenFoldSet, Solution, SolvesSums
  <1> QED BY <1>2, <1>4, <1>5

-----------------------------------------------------------------------------
(***************************************************************************)
(* What the proofs of the services use of a sum.                           *)
(***************************************************************************)
LEMMA SumType ==
  ASSUME NEW w, NEW S, IsFiniteSet(S), \A x \in S : w[x] \in Nat
  PROVE  SumOf(w, S) \in Nat
  BY SumCountsMarks, MarksFinite, FS_CardinalityType

LEMMA SumOfNothing == ASSUME NEW w PROVE SumOf(w, {}) = 0
  <1>1. Marks(w, {}) = {}
    BY DEF Marks
  <1> QED BY <1>1, SumCountsMarks, FS_EmptySet

\* One element more adds what it contributes.
LEMMA SumAdd ==
  ASSUME NEW w, NEW S, IsFiniteSet(S), NEW x, x \notin S, \A y \in S \cup {x} : w[y] \in Nat
  PROVE  SumOf(w, S \cup {x}) = SumOf(w, S) + w[x]
  <1> DEFINE T == S \cup {x}
  <1>1. IsFiniteSet(T) /\ x \in T /\ T \ {x} = S /\ T \in SUBSET T
    BY FS_AddElement
  <1>2. SumOf(w, T) = Cardinality(Marks(w, T)) /\ SumOf(w, S) = Cardinality(Marks(w, S))
    BY <1>1, SumCountsMarks
  <1> HIDE DEF T
  <1>3. \A y \in T : w[y] \in Nat
    BY DEF T
  <1>4. Cardinality(Marks(w, T)) = w[x] + Cardinality(Marks(w, T \ {x}))
    BY <1>1, <1>3, MarksCount
  <1>5. Cardinality(Marks(w, T)) = w[x] + Cardinality(Marks(w, S)) /\ w[x] \in Nat
    BY <1>1, <1>3, <1>4
  <1>6. Cardinality(Marks(w, S)) \in Nat
    BY <1>1, <1>3, MarksFinite, FS_CardinalityType
  <1>7. SumOf(w, T) = SumOf(w, S) + w[x]
    BY <1>2, <1>5, <1>6
  <1> QED BY <1>7 DEF T

\* Fewer elements do not add up to more.
LEMMA SumOfFewer ==
  ASSUME NEW w, NEW S, IsFiniteSet(S), NEW T \in SUBSET S, \A x \in S : w[x] \in Nat
  PROVE  SumOf(w, T) <= SumOf(w, S)
  <1>1. IsFiniteSet(T) /\ \A x \in T : w[x] \in Nat
    BY FS_Subset
  <1>2. SumOf(w, T) = Cardinality(Marks(w, T)) /\ SumOf(w, S) = Cardinality(Marks(w, S))
    BY <1>1, SumCountsMarks
  <1>3. Marks(w, T) \in SUBSET Marks(w, S)
    BY DEF Marks
  <1>4. IsFiniteSet(Marks(w, S))
    BY MarksFinite
  <1> QED BY <1>2, <1>3, <1>4, FS_Subset

\* A sum depends on what the elements contribute, and on nothing else.
LEMMA SumSame ==
  ASSUME NEW w, NEW v, NEW S, IsFiniteSet(S), \A x \in S : w[x] \in Nat /\ w[x] = v[x]
  PROVE  SumOf(w, S) = SumOf(v, S)
  <1>1. Marks(w, S) = Marks(v, S)
    <2>1. \A x \in S : Column(w, x) = Column(v, x)
      BY DEF Column
    <2> QED BY <2>1 DEF Marks
  <1> QED BY <1>1, SumCountsMarks

\* A function of sets to which each member adds what it contributes.
AddsUp(g, w, S) ==
  /\ g \in [SUBSET S -> Nat] /\ g[{}] = 0
  /\ \A s \in SUBSET S : \A x \in s : g[s] = w[x] + g[s \ {x}]

\* There is one such function, and it is the sum.
LEMMA SumSolves ==
  ASSUME NEW w, NEW S, IsFiniteSet(S), NEW g, AddsUp(g, w, S)
  PROVE  SumOf(w, S) = g[S]
  <1> USE DEF AddsUp
  <1> DEFINE pick(s) == CHOOSE x \in s : TRUE
  <1>1. ASSUME NEW s \in SUBSET S
        PROVE  g[s] = IF s = {} THEN 0 ELSE w[pick(s)] + g[s \ {pick(s)}]
    <2>1. CASE s = {}
      BY <2>1
    <2>2. CASE s # {}
      <3>1. pick(s) \in s
        BY <2>2
      <3> HIDE DEF pick
      <3> QED BY <2>2, <3>1
    <2> QED BY <2>1, <2>2
  <1>2. g = [s \in SUBSET S |-> g[s]]
    OBVIOUS
  <1>3. [s \in SUBSET S |-> g[s]] = [s \in SUBSET S |-> IF s = {} THEN 0 ELSE w[pick(s)] + g[s \ {pick(s)}]]
    BY <1>1, Zenon
  <1>4. SolvesSums(g, w, S)
    BY <1>2, <1>3, Zenon DEF SolvesSums
  <1>5. SolvesSums(Solution(w, S), w, S)
    BY <1>4 DEF Solution
  <1>6. Solution(w, S)[S] = g[S]
    BY <1>4, <1>5, OneSolution
  <1>7. SumOf(w, S) = Solution(w, S)[S]
    BY DEF SumOf, MapThenSumSet, MapThenFoldSet, Solution, SolvesSums
  <1> QED BY <1>6, <1>7

\* A member's part of a sum.
LEMMA SumTake ==
  ASSUME NEW w, NEW S, IsFiniteSet(S), \A x \in S : w[x] \in Nat, NEW s \in SUBSET S
  PROVE  SumOf(w, s) \in Nat /\ \A x \in s : SumOf(w, s) = w[x] + SumOf(w, s \ {x})
  <1>1. IsFiniteSet(s) /\ \A x \in s : w[x] \in Nat
    BY FS_Subset
  <1>2. ASSUME NEW x \in s PROVE SumOf(w, s) = w[x] + SumOf(w, s \ {x})
    <2>1. IsFiniteSet(s \ {x}) /\ s = (s \ {x}) \cup {x} /\ x \notin s \ {x}
      BY <1>1, FS_Subset
    <2>2. SumOf(w, s \ {x}) \in Nat
      BY <1>1, <2>1, SumType
    <2>3. SumOf(w, (s \ {x}) \cup {x}) = SumOf(w, s \ {x}) + w[x]
      BY <1>1, <2>1, SumAdd
    <2>4. SumOf(w, s) = SumOf(w, s \ {x}) + w[x]
      BY <2>1, <2>3, Zenon
    <2>5. w[x] \in Nat
      BY <1>1
    <2> QED BY <2>2, <2>4, <2>5
  <1> QED BY <1>1, <1>2, SumType

LEMMA SumPlus ==
  ASSUME NEW w, NEW v, NEW S, IsFiniteSet(S), \A x \in S : w[x] \in Nat /\ v[x] \in Nat
  PROVE  SumOf([x \in S |-> w[x] + v[x]], S) = SumOf(w, S) + SumOf(v, S)
  <1>u. PICK u : u = [x \in S |-> w[x] + v[x]]
    OBVIOUS
  <1>g. PICK g : g = [s \in SUBSET S |-> SumOf(w, s) + SumOf(v, s)]
    OBVIOUS
  <1>1. \A s \in SUBSET S : g[s] = SumOf(w, s) + SumOf(v, s) /\ SumOf(w, s) \in Nat /\ SumOf(v, s) \in Nat
    BY <1>g, SumTake
  <1>2. g \in [SUBSET S -> Nat] /\ g[{}] = 0
    <2>1. \A s \in SUBSET S : g[s] \in Nat
      BY <1>1
    <2>2. {} \in SUBSET S
      OBVIOUS
    <2>3. g[{}] = 0
      BY <1>1, <2>2, SumOfNothing
    <2> QED BY <1>g, <2>1, <2>3
  <1>3. ASSUME NEW s \in SUBSET S, NEW x \in s PROVE g[s] = u[x] + g[s \ {x}]
    <2>1. SumOf(w, s) = w[x] + SumOf(w, s \ {x}) /\ SumOf(v, s) = v[x] + SumOf(v, s \ {x})
      BY SumTake
    <2>2. u[x] = w[x] + v[x] /\ w[x] \in Nat /\ v[x] \in Nat /\ s \ {x} \in SUBSET S
      BY <1>u
    <2> QED BY <1>1, <2>1, <2>2
  <1>4. SumOf(u, S) = g[S]
    <2>1. \A s \in SUBSET S : \A x \in s : g[s] = u[x] + g[s \ {x}]
      BY <1>3
    <2>2. AddsUp(g, u, S)
      BY <1>2, <2>1 DEF AddsUp
    <2> QED BY <2>2, SumSolves
  <1>5. g[S] = SumOf(w, S) + SumOf(v, S)
    BY <1>1
  <1> QED BY <1>u, <1>4, <1>5, Zenon

LEMMA SumTimes ==
  ASSUME NEW w, NEW S, IsFiniteSet(S), \A x \in S : w[x] \in Nat, NEW n \in Nat
  PROVE  SumOf([x \in S |-> n * w[x]], S) = n * SumOf(w, S)
  <1>u. PICK u : u = [x \in S |-> n * w[x]]
    OBVIOUS
  <1>g. PICK g : g = [s \in SUBSET S |-> n * SumOf(w, s)]
    OBVIOUS
  <1>1. \A s \in SUBSET S : g[s] = n * SumOf(w, s) /\ SumOf(w, s) \in Nat
    BY <1>g, SumTake
  <1>0. \A a, b \in Nat : n * a \in Nat /\ n * (a + b) = n * a + n * b
    OBVIOUS
  <1>2. g \in [SUBSET S -> Nat] /\ g[{}] = 0
    <2>1. \A s \in SUBSET S : g[s] \in Nat
      BY <1>0, <1>1
    <2>2. {} \in SUBSET S /\ n * 0 = 0
      OBVIOUS
    <2>3. g[{}] = 0
      BY <1>1, <2>2, SumOfNothing
    <2> QED BY <1>g, <2>1, <2>3
  <1>3. ASSUME NEW s \in SUBSET S, NEW x \in s PROVE g[s] = u[x] + g[s \ {x}]
    <2>1. SumOf(w, s) = w[x] + SumOf(w, s \ {x}) 
      BY SumTake
    <2>2. u[x] = n * w[x] /\ w[x] \in Nat /\ s \ {x} \in SUBSET S
      BY <1>u
    <2> QED BY <1>0, <1>1, <2>1, <2>2
  <1>4. SumOf(u, S) = g[S]
    <2>1. \A s \in SUBSET S : \A x \in s : g[s] = u[x] + g[s \ {x}]
      BY <1>3
    <2>2. AddsUp(g, u, S)
      BY <1>2, <2>1 DEF AddsUp
    <2> QED BY <2>2, SumSolves
  <1>5. g[S] = n * SumOf(w, S)
    BY <1>1
  <1> QED BY <1>u, <1>4, <1>5, Zenon

LEMMA SumOfSame ==
  ASSUME NEW S, IsFiniteSet(S), NEW n \in Nat, NEW u, u = [x \in S |-> n]
  PROVE  SumOf(u, S) = n * Cardinality(S)
  <1>g. PICK g : g = [s \in SUBSET S |-> n * Cardinality(s)]
    OBVIOUS
  <1>0. \A a \in Nat : n * a \in Nat /\ n * (a + 1) = n + n * a
    OBVIOUS
  <1>1. ASSUME NEW s \in SUBSET S
        PROVE  /\ g[s] = n * Cardinality(s) /\ Cardinality(s) \in Nat
               /\ \A x \in s : Cardinality(s \ {x}) \in Nat /\ Cardinality(s) = Cardinality(s \ {x}) + 1
    <2>0. g[s] = n * Cardinality(s)
      BY <1>g
    <2>1. IsFiniteSet(s)
      BY FS_Subset
    <2>2. Cardinality(s) \in Nat
      BY <2>1, FS_CardinalityType
    <2>3. ASSUME NEW x \in s
          PROVE  Cardinality(s \ {x}) \in Nat /\ Cardinality(s) = Cardinality(s \ {x}) + 1
      <3>1. IsFiniteSet(s \ {x}) /\ Cardinality(s \ {x}) = Cardinality(s) - 1
        BY <2>1, FS_RemoveElement
      <3>2. Cardinality(s \ {x}) \in Nat
        BY <3>1, FS_CardinalityType
      <3> QED BY <2>2, <3>1, <3>2
    <2> QED BY <2>0, <2>2, <2>3
  <1>2. g \in [SUBSET S -> Nat] /\ g[{}] = 0
    <2>1. \A s \in SUBSET S : g[s] \in Nat
      BY <1>0, <1>1
    <2>2. {} \in SUBSET S /\ n * 0 = 0
      OBVIOUS
    <2>3. g[{}] = n * Cardinality({})
      BY <1>1, <2>2
    <2>4. g[{}] = 0
      BY <2>2, <2>3, FS_EmptySet
    <2> QED BY <1>g, <2>1, <2>4
  <1>3. ASSUME NEW s \in SUBSET S, NEW x \in s PROVE g[s] = u[x] + g[s \ {x}]
    <2>1. s \ {x} \in SUBSET S /\ u[x] = n
      OBVIOUS
    <2>2. g[s \ {x}] = n * Cardinality(s \ {x}) /\ g[s] = n * Cardinality(s)
      BY <1>1, <2>1
    <2>3. Cardinality(s \ {x}) \in Nat /\ Cardinality(s) = Cardinality(s \ {x}) + 1
      BY <1>1
    <2> QED BY <1>0, <2>1, <2>2, <2>3
  <1>4. SumOf(u, S) = g[S]
    <2>1. \A s \in SUBSET S : \A x \in s : g[s] = u[x] + g[s \ {x}]
      BY <1>3
    <2>2. AddsUp(g, u, S)
      BY <1>2, <2>1 DEF AddsUp
    <2> QED BY <2>2, SumSolves
  <1>5. g[S] = n * Cardinality(S)
    BY <1>1
  <1> QED BY <1>4, <1>5

\* Sums compare as their members do.
LEMMA SumAtMost ==
  ASSUME NEW w, NEW v, NEW S, IsFiniteSet(S),
         \A x \in S : w[x] \in Nat /\ v[x] \in Nat /\ w[x] <= v[x]
  PROVE  SumOf(w, S) <= SumOf(v, S)
  <1>d. PICK d : d = [x \in S |-> v[x] - w[x]]
    OBVIOUS
  <1>u. PICK u : u = [x \in S |-> w[x] + d[x]]
    OBVIOUS
  <1>1. \A x \in S : d[x] \in Nat /\ u[x] = v[x] /\ u[x] \in Nat
    BY <1>d, <1>u
  <1>2. SumOf(u, S) = SumOf(w, S) + SumOf(d, S)
    BY <1>1, <1>u, SumPlus
  <1>3. SumOf(u, S) = SumOf(v, S)
    BY <1>1, SumSame
  <1>4. SumOf(w, S) \in Nat /\ SumOf(d, S) \in Nat
    BY <1>1, SumType
  <1> QED BY <1>2, <1>3, <1>4
=============================================================================
