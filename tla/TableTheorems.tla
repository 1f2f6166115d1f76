---------------------------- MODULE TableTheorems ----------------------------
(***************************************************************************)
(* Facts about the operators of Tables, for every finite table.  They rest *)
(* on induction, over the numbers and over the subsets of a finite set,    *)
(* stated of sets instead of predicates.                                   *)
(***************************************************************************)
EXTENDS Tables, Sequences, FunctionTheorems, SequenceTheorems, FiniteSetTheorems, WellFoundedInduction, TLAPS

\* The least element of a set of natural numbers.
LEMMA Least == ASSUME NEW T, T \subseteq Nat, T # {} PROVE \E m \in T : \A n \in T : m <= n
  <1> DEFINE R == OpToRel(<, Nat)
  <1>1. IsWellFoundedOn(R, Nat)
    BY NatLessThanWellFounded
  <1>2. \A m, n \in Nat : n < m => <<n, m>> \in R
    BY DEF OpToRel
  <1> HIDE DEF R
  <1>3. PICK m \in T : \A n \in T : ~(<<n, m>> \in R)
    BY <1>1, WFMin
  <1>4. ASSUME NEW n \in T PROVE m <= n
    <2>1. ~(n < m)
      BY <1>2, <1>3, <1>4
    <2> QED
      BY <2>1
  <1> QED
    BY <1>3, <1>4

\* Induction: a set that holds 0, and with a number the next, holds them all.
LEMMA Induction ==
    ASSUME NEW S, 0 \in S, \A n \in Nat : n \in S => n + 1 \in S
    PROVE  \A n \in Nat : n \in S
  <1> SUFFICES ASSUME Nat \ S # {} PROVE FALSE
    OBVIOUS
  <1>1. PICK m \in Nat \ S : \A n \in Nat \ S : m <= n
    <2> Nat \ S \subseteq Nat
      OBVIOUS
    <2> QED
      BY Least
  <1>2. m # 0 /\ m - 1 \in Nat /\ m - 1 \in S
    BY <1>1
  <1> QED
    BY <1>1, <1>2

LEMMA MinFacts == ASSUME NEW T, T \subseteq Nat, T # {} PROVE Min(T) \in T /\ \A n \in T : Min(T) <= n
  <1>1. \E m \in T : \A n \in T : m <= n
    BY Least
  <1> QED
    BY <1>1, Zenon DEF Min

LEMMA MaxOfTwo == ASSUME NEW m \in Int, NEW n \in Int PROVE Max({m, n}) = IF m >= n THEN m ELSE n
  <1>1. \E x \in {m, n} : \A y \in {m, n} : x >= y
    OBVIOUS
  <1>2. Max({m, n}) \in {m, n} /\ \A y \in {m, n} : Max({m, n}) >= y
    BY <1>1, Zenon DEF Max
  <1> QED
    BY <1>2

-----------------------------------------------------------------------------
(* Finite sets, taken apart in the order of MapThenSumSet *)

Picked(s) == CHOOSE x \in s : TRUE
Unpicked(s) == s \ {Picked(s)}

LEMMA PickedFacts ==
    ASSUME NEW s, IsFiniteSet(s), s # {}
    PROVE  /\ Picked(s) \in s /\ Unpicked(s) \subseteq s /\ IsFiniteSet(Unpicked(s))
           /\ Cardinality(s) \in Nat /\ Cardinality(Unpicked(s)) \in Nat
           /\ Cardinality(s) = Cardinality(Unpicked(s)) + 1
  <1>1. Picked(s) \in s
    BY DEF Picked
  <1>2. IsFiniteSet(Unpicked(s)) /\ Cardinality(Unpicked(s)) = Cardinality(s) - 1
    BY <1>1, FS_RemoveElement DEF Unpicked
  <1>3. Cardinality(s) \in Nat /\ Cardinality(Unpicked(s)) \in Nat
    BY <1>2, FS_CardinalityType
  <1>4. Unpicked(s) \subseteq s
    BY DEF Unpicked
  <1> QED
    BY <1>1, <1>2, <1>3, <1>4

\* A family of sets that holds the empty one, and a set whenever it holds it without
\* the element picked, holds every subset.
LEMMA SubsetInduction ==
    ASSUME NEW S, IsFiniteSet(S), NEW Q, {} \in Q,
           \A s \in SUBSET S : s # {} /\ Unpicked(s) \in Q => s \in Q
    PROVE  \A s \in SUBSET S : s \in Q
  <1> DEFINE N == {n \in Nat : \A s \in SUBSET S : Cardinality(s) = n => s \in Q}
  <1>1. \A s \in SUBSET S : IsFiniteSet(s) /\ Cardinality(s) \in Nat
    BY FS_Subset, FS_CardinalityType
  <1>2. 0 \in N
    BY <1>1, FS_EmptySet
  <1>3. ASSUME NEW n \in Nat, n \in N PROVE n + 1 \in N
    <2> SUFFICES ASSUME NEW s \in SUBSET S, Cardinality(s) = n + 1 PROVE s \in Q
      OBVIOUS
    <2>1. s # {}
      BY <1>1, FS_EmptySet
    <2>2. Unpicked(s) \in SUBSET S /\ Cardinality(Unpicked(s)) = n
      BY <1>1, <2>1, PickedFacts
    <2> QED
      BY <1>3, <2>1, <2>2
  <1> HIDE DEF N
  <1>4. \A n \in Nat : n \in N
    BY <1>2, <1>3, Induction
  <1> QED
    BY <1>1, <1>4 DEF N

-----------------------------------------------------------------------------
(* Sums *)

\* The sums over the parts of a table, as MapThenSumSet computes them.
SumStep(f, g) == [s \in SUBSET DOMAIN f |-> IF s = {} THEN 0 ELSE f[Picked(s)] + g[Unpicked(s)]]
Sums(f) == CHOOSE g : g = SumStep(f, g)

LEMMA TotalIsSums == ASSUME NEW f PROVE Total(f) = Sums(f)[DOMAIN f]
  BY DEF Total, MapThenSumSet, MapThenFoldSet, Sums, SumStep, Picked, Unpicked

\* There are such sums: those of the sets of up to n elements, for every n.
LEMMA SumsExist ==
    ASSUME NEW f, IsFiniteSet(DOMAIN f)
    PROVE  Sums(f) = SumStep(f, Sums(f))
  <1> DEFINE D == DOMAIN f
             Up(n) == {s \in SUBSET D : Cardinality(s) <= n}
             Value(g, s) == IF s = {} THEN 0 ELSE f[Picked(s)] + g[Unpicked(s)]
             N == {n \in Nat : \E g : g = [s \in Up(n) |-> Value(g, s)]}
  <1>1. \A s \in SUBSET D : IsFiniteSet(s) /\ Cardinality(s) \in Nat
    BY FS_Subset, FS_CardinalityType
  <1>2. ASSUME NEW n \in Nat, NEW s \in Up(n + 1), s # {} PROVE Unpicked(s) \in Up(n)
    BY <1>1, <1>2, PickedFacts
  <1>3. 0 \in N
    <2> DEFINE g == [s \in Up(0) |-> 0]
    <2>1. \A s \in Up(0) : s = {}
      BY <1>1, FS_EmptySet
    <2>2. g = [s \in Up(0) |-> Value(g, s)]
      BY <2>1
    <2> HIDE DEF g
    <2> QED
      BY <2>2
  <1>4. ASSUME NEW n \in Nat, n \in N PROVE n + 1 \in N
    <2>1. PICK g : g = [s \in Up(n) |-> Value(g, s)]
      BY <1>4
    <2> DEFINE h == [s \in Up(n + 1) |-> Value(g, s)]
    <2>2. \A s \in Up(n) : s \in Up(n + 1)
      BY <1>1
    <2> HIDE DEF Value
    <2>3. \A s \in Up(n) : h[s] = g[s]
      <3> TAKE s \in Up(n)
      <3>1. g[s] = Value(g, s)
        BY <2>1
      <3>2. h[s] = Value(g, s)
        BY <2>2
      <3> QED
        BY <3>1, <3>2
    <2> HIDE DEF h
    <2>4. ASSUME NEW s \in Up(n + 1) PROVE Value(h, s) = Value(g, s)
      BY <1>2, <2>3, <2>4 DEF Value
    <2>5. h = [s \in Up(n + 1) |-> Value(h, s)]
      BY <2>4 DEF h
    <2> QED
      BY <2>5
  <1> HIDE DEF N
  <1>5. \A n \in Nat : n \in N
    BY <1>3, <1>4, Induction
  <1>6. Cardinality(D) \in Nat /\ Up(Cardinality(D)) = SUBSET D
    BY FS_Subset, FS_CardinalityType
  <1>7. PICK g : g = [s \in Up(Cardinality(D)) |-> Value(g, s)]
    BY <1>5, <1>6 DEF N
  <1>8. g = SumStep(f, g)
    BY <1>6, <1>7 DEF SumStep
  <1> QED
    BY <1>8 DEF Sums

LEMMA SumsEmpty == ASSUME NEW f, IsFiniteSet(DOMAIN f) PROVE Sums(f)[{}] = 0
  BY SumsExist DEF SumStep

LEMMA SumsUnpicked ==
    ASSUME NEW f, IsFiniteSet(DOMAIN f), NEW s \in SUBSET DOMAIN f, s # {}
    PROVE  Sums(f)[s] = f[Picked(s)] + Sums(f)[Unpicked(s)]
  BY SumsExist DEF SumStep

LEMMA SumsType ==
    ASSUME NEW D, IsFiniteSet(D), NEW f \in [D -> Int], NEW s \in SUBSET D
    PROVE  Sums(f)[s] \in Int
  <1> DEFINE Q == {u \in SUBSET D : Sums(f)[u] \in Int}
  <1>1. {} \in Q
    BY SumsEmpty
  <1>2. ASSUME NEW u \in SUBSET D, u # {}, Unpicked(u) \in Q PROVE u \in Q
    <2>1. Picked(u) \in D
      BY <1>2, FS_Subset, PickedFacts
    <2>2. Sums(f)[u] = f[Picked(u)] + Sums(f)[Unpicked(u)]
      BY <1>2, SumsUnpicked
    <2> QED
      BY <1>2, <2>1, <2>2
  <1> HIDE DEF Q
  <1>3. s \in Q
    BY <1>1, <1>2, SubsetInduction
  <1> QED
    BY <1>3 DEF Q

\* Tables of the same rows: where they agree so do the sums, and a row in which they
\* differ makes that difference.
LEMMA SumsDiffer ==
    ASSUME NEW D, IsFiniteSet(D), NEW f \in [D -> Int], NEW g \in [D -> Int],
           NEW x \in D, \A y \in D : y # x => g[y] = f[y], NEW s \in SUBSET D
    PROVE  Sums(g)[s] = Sums(f)[s] + (IF x \in s THEN g[x] - f[x] ELSE 0)
  <1> DEFINE Q == {u \in SUBSET D : Sums(g)[u] = Sums(f)[u] + (IF x \in u THEN g[x] - f[x] ELSE 0)}
  <1>1. {} \in Q
    BY SumsEmpty
  <1>2. ASSUME NEW u \in SUBSET D, u # {}, Unpicked(u) \in Q PROVE u \in Q
    <2>1. Picked(u) \in u /\ Picked(u) \in D /\ Picked(u) \notin Unpicked(u) /\ Unpicked(u) \in SUBSET D
          /\ \A y : y \in u <=> (y = Picked(u) \/ y \in Unpicked(u))
      BY <1>2, FS_Subset, PickedFacts DEF Unpicked
    <2>2. /\ Sums(f)[u] = f[Picked(u)] + Sums(f)[Unpicked(u)]
          /\ Sums(g)[u] = g[Picked(u)] + Sums(g)[Unpicked(u)]
      BY <1>2, SumsUnpicked
    <2>3. Sums(f)[Unpicked(u)] \in Int /\ Sums(g)[Unpicked(u)] \in Int
      BY <2>1, SumsType
    <2>4. f[Picked(u)] \in Int /\ g[Picked(u)] \in Int /\ f[x] \in Int /\ g[x] \in Int
      BY <2>1
    <2>5. Sums(g)[Unpicked(u)] = Sums(f)[Unpicked(u)] + (IF x \in Unpicked(u) THEN g[x] - f[x] ELSE 0)
      BY <1>2
    <2>6. CASE x = Picked(u)
      BY <2>1, <2>2, <2>3, <2>4, <2>5, <2>6
    <2>7. CASE x # Picked(u)
      <3>1. g[Picked(u)] = f[Picked(u)] /\ (x \in u <=> x \in Unpicked(u))
        BY <2>1, <2>7
      <3> QED
        BY <2>2, <2>3, <2>4, <2>5, <3>1
    <2> QED
      BY <2>6, <2>7
  <1> HIDE DEF Q
  <1>3. s \in Q
    BY <1>1, <1>2, SubsetInduction
  <1> QED
    BY <1>3 DEF Q

LEMMA TotalType == ASSUME NEW D, IsFiniteSet(D), NEW f \in [D -> Int] PROVE Total(f) \in Int
  BY TotalIsSums, SumsType

LEMMA TotalZero ==
    ASSUME NEW D, IsFiniteSet(D), NEW f \in [D -> {0}] PROVE Total(f) = 0
  <1>1. f \in [D -> Int] /\ DOMAIN f = D
    OBVIOUS
  <1>2. PICK Q : Q = {s \in SUBSET D : Sums(f)[s] = 0}
    OBVIOUS
  <1>3. {} \in Q
    BY <1>1, <1>2, SumsEmpty
  <1>4. ASSUME NEW s \in SUBSET D, s # {}, Unpicked(s) \in Q PROVE s \in Q
    <2>1. Picked(s) \in D
      BY <1>4, FS_Subset, PickedFacts
    <2>2. Sums(f)[s] = f[Picked(s)] + Sums(f)[Unpicked(s)]
      BY <1>1, <1>4, SumsUnpicked
    <2> QED
      BY <1>2, <1>4, <2>1, <2>2
  <1>5. \A s \in SUBSET D : s \in Q
    BY <1>3, <1>4, SubsetInduction
  <1> QED
    BY <1>1, <1>2, <1>5, TotalIsSums

\* What changing one row does to the sum.
LEMMA TotalChange ==
    ASSUME NEW D, IsFiniteSet(D), NEW f \in [D -> Int], NEW g \in [D -> Int],
           NEW x \in D, \A y \in D : y # x => g[y] = f[y]
    PROVE  Total(g) = Total(f) + g[x] - f[x]
  <1>1. Sums(g)[D] = Sums(f)[D] + (IF x \in D THEN g[x] - f[x] ELSE 0)
    BY SumsDiffer
  <1>2. Total(f) = Sums(f)[D] /\ Total(g) = Sums(g)[D] /\ Total(f) \in Int
    BY TotalIsSums, TotalType
  <1> QED
    BY <1>1, <1>2

\* The order in which the rows are taken does not matter.
LEMMA SumsAny ==
    ASSUME NEW D, IsFiniteSet(D), NEW f \in [D -> Int]
    PROVE  \A s \in SUBSET D : \A x \in s : Sums(f)[s] = f[x] + Sums(f)[s \ {x}]
  <1> DEFINE Any(s) == \A x \in s : Sums(f)[s] = f[x] + Sums(f)[s \ {x}]
             N == {n \in Nat : \A s \in SUBSET D : Cardinality(s) = n => Any(s)}
  <1>1. \A s \in SUBSET D : IsFiniteSet(s) /\ Cardinality(s) \in Nat /\ Sums(f)[s] \in Int
    BY FS_Subset, FS_CardinalityType, SumsType
  <1>2. 0 \in N
    BY <1>1, FS_EmptySet
  <1>3. ASSUME NEW n \in Nat, n \in N PROVE n + 1 \in N
    <2> SUFFICES ASSUME NEW s \in SUBSET D, Cardinality(s) = n + 1, NEW x \in s
                 PROVE  Sums(f)[s] = f[x] + Sums(f)[s \ {x}]
      OBVIOUS
    <2>1. s # {} /\ IsFiniteSet(s)
      BY <1>1
    <2>2. PICK p \in s : p = Picked(s) /\ Unpicked(s) = s \ {p}
      BY <2>1, PickedFacts DEF Unpicked
    <2>3. Sums(f)[s] = f[p] + Sums(f)[s \ {p}]
      BY <2>1, <2>2, SumsUnpicked
    <2>4. CASE x = p
      BY <2>3, <2>4
    <2>5. CASE x # p
      <3>1. ASSUME NEW y \in s PROVE s \ {y} \in SUBSET D /\ Cardinality(s \ {y}) = n
        <4>1. Cardinality(s \ {y}) = Cardinality(s) - 1
          BY <2>1, FS_RemoveElement
        <4> QED
          BY <4>1
      <3>2. Any(s \ {p}) /\ Any(s \ {x})
        BY <1>3, <3>1
      <3>3. /\ Sums(f)[s \ {p}] = f[x] + Sums(f)[(s \ {p}) \ {x}]
            /\ Sums(f)[s \ {x}] = f[p] + Sums(f)[(s \ {x}) \ {p}]
        BY <2>5, <3>2
      <3>4. (s \ {p}) \ {x} = (s \ {x}) \ {p} /\ (s \ {x}) \ {p} \in SUBSET D
        OBVIOUS
      <3>5. /\ f[p] \in Int /\ f[x] \in Int /\ Sums(f)[(s \ {x}) \ {p}] \in Int
        BY <1>1, <3>4
      <3>6. PICK r \in Int : r = Sums(f)[(s \ {x}) \ {p}] /\ r = Sums(f)[(s \ {p}) \ {x}]
        BY <3>4, <3>5
      <3>7. Sums(f)[s \ {p}] = f[x] + r /\ Sums(f)[s \ {x}] = f[p] + r
        BY <3>3, <3>6
      <3>8. Sums(f)[s] = f[p] + (f[x] + r)
        BY <2>3, <3>7
      <3> QED
        BY <3>5, <3>7, <3>8
    <2> QED
      BY <2>4, <2>5
  <1> HIDE DEF N
  <1>4. \A n \in Nat : n \in N
    BY <1>2, <1>3, Induction
  <1> QED
    BY <1>1, <1>4 DEF N

\* The sum over a part is that of the part alone.
LEMMA SumsOfPart ==
    ASSUME NEW D, IsFiniteSet(D), NEW f \in [D -> Int], NEW E \in SUBSET D
    PROVE  Sums(f)[E] = Total([x \in E |-> f[x]])
  <1>1. PICK h : h = [x \in E |-> f[x]]
    OBVIOUS
  <1>2. IsFiniteSet(E) /\ h \in [E -> Int] /\ DOMAIN h = E /\ DOMAIN f = D
    BY <1>1, FS_Subset
  <1>3. PICK Q : Q = {s \in SUBSET E : Sums(f)[s] = Sums(h)[s]}
    OBVIOUS
  <1>4. {} \in Q
    BY <1>2, <1>3, SumsEmpty
  <1>5. ASSUME NEW s \in SUBSET E, s # {}, Unpicked(s) \in Q PROVE s \in Q
    <2>1. Picked(s) \in E
      BY <1>2, <1>5, FS_Subset, PickedFacts
    <2>2. Sums(f)[s] = f[Picked(s)] + Sums(f)[Unpicked(s)]
      BY <1>2, <1>5, SumsUnpicked
    <2>3. Sums(h)[s] = h[Picked(s)] + Sums(h)[Unpicked(s)]
      BY <1>2, <1>5, SumsUnpicked
    <2> QED
      BY <1>1, <1>3, <1>5, <2>1, <2>2, <2>3
  <1>6. \A s \in SUBSET E : s \in Q
    BY <1>2, <1>4, <1>5, SubsetInduction
  <1>7. Sums(f)[E] = Sums(h)[E] /\ Total(h) = Sums(h)[E]
    BY <1>2, <1>3, <1>6, TotalIsSums
  <1> QED
    BY <1>1, <1>7

\* One more row.
LEMMA TotalAdd ==
    ASSUME NEW D, IsFiniteSet(D), NEW x, x \notin D, NEW f \in [D \cup {x} -> Int]
    PROVE  Total(f) = Total([y \in D |-> f[y]]) + f[x]
  <1>1. PICK E : E = D \cup {x} /\ IsFiniteSet(E) /\ E \ {x} = D /\ D \in SUBSET E /\ f \in [E -> Int]
    <2>1. IsFiniteSet(D \cup {x})
      BY FS_AddElement
    <2>2. (D \cup {x}) \ {x} = D /\ D \in SUBSET (D \cup {x})
      OBVIOUS
    <2> QED
      BY <2>1, <2>2
  <1>2. Total(f) = Sums(f)[E]
    <2>1. DOMAIN f = E
      BY <1>1
    <2> QED
      BY <2>1, TotalIsSums
  <1>3. Sums(f)[E] = f[x] + Sums(f)[E \ {x}]
    BY <1>1, SumsAny
  <1>4. Sums(f)[D] = Total([y \in D |-> f[y]])
    BY <1>1, SumsOfPart
  <1>5. Sums(f)[D] \in Int /\ f[x] \in Int
    BY <1>1, SumsType
  <1>6. Total(f) = f[x] + Sums(f)[D]
    BY <1>1, <1>2, <1>3
  <1> QED
    BY <1>4, <1>5, <1>6

\* Rows that are not negative have no negative sum.
LEMMA TotalNat == ASSUME NEW D, IsFiniteSet(D), NEW f \in [D -> Nat] PROVE Total(f) \in Nat
  <1>1. f \in [D -> Int] /\ DOMAIN f = D
    OBVIOUS
  <1>2. PICK Q : Q = {s \in SUBSET D : Sums(f)[s] \in Nat}
    OBVIOUS
  <1>3. {} \in Q
    BY <1>1, <1>2, SumsEmpty
  <1>4. ASSUME NEW s \in SUBSET D, s # {}, Unpicked(s) \in Q PROVE s \in Q
    <2>1. Picked(s) \in D
      BY <1>4, FS_Subset, PickedFacts
    <2>2. Sums(f)[s] = f[Picked(s)] + Sums(f)[Unpicked(s)]
      BY <1>1, <1>4, SumsUnpicked
    <2> QED
      BY <1>2, <1>4, <2>1, <2>2
  <1>5. \A s \in SUBSET D : s \in Q
    BY <1>3, <1>4, SubsetInduction
  <1> QED
    BY <1>1, <1>2, <1>5, TotalIsSums

\* Rows of nothing add nothing.
LEMMA TotalOfPart ==
    ASSUME NEW D, IsFiniteSet(D), NEW f \in [D -> Int], NEW E \in SUBSET D, \A x \in D : x \notin E => f[x] = 0
    PROVE  Total(f) = Total([x \in E |-> f[x]])
  <1>1. DOMAIN f = D
    OBVIOUS
  <1>2. PICK Q : Q = {s \in SUBSET D : Sums(f)[s] = Sums(f)[s \cap E]}
    OBVIOUS
  <1>3. {} \in Q
    <2>1. {} \cap E = {}
      OBVIOUS
    <2> QED
      BY <1>2, <2>1
  <1>4. ASSUME NEW s \in SUBSET D, s # {}, Unpicked(s) \in Q PROVE s \in Q
    <2>1. PICK p \in s : p = Picked(s) /\ Unpicked(s) = s \ {p}
      BY <1>4, FS_Subset, PickedFacts DEF Unpicked
    <2>2. Sums(f)[s] = f[p] + Sums(f)[(s \ {p}) \cap E]
      <3>1. Sums(f)[s] = f[p] + Sums(f)[s \ {p}]
        BY SumsAny
      <3>2. Sums(f)[s \ {p}] = Sums(f)[(s \ {p}) \cap E]
        BY <1>2, <1>4, <2>1
      <3> QED
        BY <3>1, <3>2
    <2>3. CASE p \in E
      <3>1. (s \cap E) \ {p} = (s \ {p}) \cap E /\ p \in s \cap E /\ s \cap E \in SUBSET D
        BY <2>3
      <3>2. Sums(f)[s \cap E] = f[p] + Sums(f)[(s \cap E) \ {p}]
        BY <3>1, SumsAny
      <3> QED
        BY <1>2, <2>2, <3>1, <3>2
    <2>4. CASE p \notin E
      <3>1. (s \ {p}) \cap E = s \cap E /\ s \cap E \in SUBSET D /\ f[p] = 0
        BY <2>4
      <3>2. Sums(f)[s \cap E] \in Int
        BY <3>1, SumsType
      <3> QED
        BY <1>2, <2>2, <3>1, <3>2
    <2> QED
      BY <2>3, <2>4
  <1>5. \A s \in SUBSET D : s \in Q
    BY <1>3, <1>4, SubsetInduction
  <1>6. Sums(f)[D] = Sums(f)[E]
    <2>1. D \cap E = E /\ D \in SUBSET D
      OBVIOUS
    <2> QED
      BY <1>2, <1>5, <2>1
  <1> QED
    BY <1>1, <1>6, SumsOfPart, TotalIsSums

\* Two tables, row by row.
LEMMA TotalPlus ==
    ASSUME NEW D, IsFiniteSet(D), NEW f \in [D -> Int], NEW g \in [D -> Int], NEW h \in [D -> Int],
           \A x \in D : h[x] = f[x] + g[x]
    PROVE  Total(h) = Total(f) + Total(g)
  <1>1. DOMAIN f = D /\ DOMAIN g = D /\ DOMAIN h = D
    OBVIOUS
  <1>2. PICK Q : Q = {s \in SUBSET D : Sums(h)[s] = Sums(f)[s] + Sums(g)[s]}
    OBVIOUS
  <1>3. {} \in Q
    BY <1>1, <1>2, SumsEmpty
  <1>4. ASSUME NEW s \in SUBSET D, s # {}, Unpicked(s) \in Q PROVE s \in Q
    <2>1. PICK p \in D, u \in SUBSET D : p = Picked(s) /\ u = Unpicked(s)
      BY <1>2, <1>4, FS_Subset, PickedFacts
    <2>2. /\ Sums(f)[s] = f[p] + Sums(f)[u] /\ Sums(g)[s] = g[p] + Sums(g)[u]
          /\ Sums(h)[s] = h[p] + Sums(h)[u] /\ Sums(h)[u] = Sums(f)[u] + Sums(g)[u]
      BY <1>1, <1>2, <1>4, <2>1, SumsUnpicked
    <2>3. /\ Sums(f)[u] \in Int /\ Sums(g)[u] \in Int /\ f[p] \in Int /\ g[p] \in Int
          /\ h[p] = f[p] + g[p]
      BY SumsType
    <2> QED
      BY <1>2, <2>2, <2>3
  <1>5. D \in Q
    BY <1>3, <1>4, SubsetInduction
  <1> QED
    BY <1>1, <1>2, <1>5, TotalIsSums

\* A table whose rows are no smaller has no smaller sum.
LEMMA TotalGrows ==
    ASSUME NEW D, IsFiniteSet(D), NEW f \in [D -> Int], NEW g \in [D -> Int], \A x \in D : f[x] <= g[x]
    PROVE  Total(f) <= Total(g)
  <1>1. PICK h : h = [x \in D |-> g[x] - f[x]]
    OBVIOUS
  <1>2. h \in [D -> Nat] /\ h \in [D -> Int] /\ \A x \in D : g[x] = f[x] + h[x]
    BY <1>1
  <1>3. Total(g) = Total(f) + Total(h)
    BY <1>2, TotalPlus
  <1>4. Total(h) \in Nat /\ Total(f) \in Int /\ Total(g) \in Int
    BY <1>2, TotalNat, TotalType
  <1> QED
    BY <1>3, <1>4

\* One row of something, or none.
OnlyAt(f, x, n) == \A y \in DOMAIN f : f[y] = IF y = x THEN n ELSE 0

LEMMA TotalOfOne ==
    ASSUME NEW D, IsFiniteSet(D), NEW f \in [D -> Int], NEW n \in Int, NEW x, OnlyAt(f, x, n)
    PROVE  Total(f) = IF x \in D THEN n ELSE 0
  <1>1. DOMAIN f = D /\ \A y \in D : f[y] = IF y = x THEN n ELSE 0
    BY DEF OnlyAt
  <1>2. PICK z : z = [y \in D |-> 0]
    OBVIOUS
  <1>3. f \in [D -> Int] /\ z \in [D -> Int] /\ z \in [D -> {0}] /\ Total(z) = 0
    BY <1>1, <1>2, TotalZero
  <1>4. CASE x \in D
    <2>1. f[x] = n /\ z[x] = 0 /\ \A y \in D : y # x => f[y] = z[y]
      BY <1>1, <1>2, <1>4
    <2>2. Total(f) = Total(z) + f[x] - z[x]
      BY <1>3, <1>4, <2>1, TotalChange
    <2>3. Total(f) = n
      BY <1>3, <2>1, <2>2
    <2> QED
      BY <1>1, <1>4, <2>3
  <1>5. CASE x \notin D
    <2>1. f = z
      BY <1>1, <1>2, <1>5
    <2> QED
      BY <1>1, <1>3, <1>5, <2>1
  <1> QED
    BY <1>4, <1>5

\* Rows of rows: their sums, by rows and by columns.
Column(g, x) == [t \in DOMAIN g |-> g[t][x]]
RowSums(g) == [t \in DOMAIN g |-> Total(g[t])]
ColumnSums(g, D, s) == [x \in D |-> Sums(Column(g, x))[s]]

LEMMA ColumnType ==
    ASSUME NEW D, NEW E, NEW g \in [E -> [D -> Int]], NEW x \in D
    PROVE  Column(g, x) \in [E -> Int]
  BY DEF Column

LEMMA ColumnSumsType ==
    ASSUME NEW D, NEW E, IsFiniteSet(E), NEW g \in [E -> [D -> Int]], NEW s \in SUBSET E
    PROVE  ColumnSums(g, D, s) \in [D -> Int]
  <1>1. ASSUME NEW x \in D PROVE Sums(Column(g, x))[s] \in Int
    <2>1. Column(g, x) \in [E -> Int]
      BY ColumnType
    <2> QED
      BY <2>1, SumsType
  <1> QED
    BY <1>1 DEF ColumnSums

LEMMA RowsAndColumns ==
    ASSUME NEW D, NEW E, IsFiniteSet(D), IsFiniteSet(E), NEW g \in [E -> [D -> Int]]
    PROVE  Total(RowSums(g)) = Total([x \in D |-> Total(Column(g, x))])
  <1>1. PICK r : r = RowSums(g)
    OBVIOUS
  <1>2. r \in [E -> Int] /\ DOMAIN r = E /\ \A t \in E : r[t] = Total(g[t])
    <2>1. ASSUME NEW t \in E PROVE Total(g[t]) \in Int
      BY TotalType
    <2> QED
      BY <1>1, <2>1 DEF RowSums
  <1>3. PICK Q : Q = {s \in SUBSET E : Sums(r)[s] = Total(ColumnSums(g, D, s))}
    OBVIOUS
  <1>4. {} \in Q
    <2>1. \A x \in D : ColumnSums(g, D, {})[x] = 0
      <3> SUFFICES ASSUME NEW x \in D PROVE Sums(Column(g, x))[{}] = 0
        BY DEF ColumnSums
      <3>1. Column(g, x) \in [E -> Int]
        BY ColumnType
      <3>2. DOMAIN Column(g, x) = E
        BY <3>1
      <3> QED
        BY <3>2, SumsEmpty
    <2>2. ColumnSums(g, D, {}) \in [D -> {0}]
      BY <2>1 DEF ColumnSums
    <2> QED
      BY <1>2, <1>3, <2>2, SumsEmpty, TotalZero
  <1>5. ASSUME NEW s \in SUBSET E, s # {}, Unpicked(s) \in Q PROVE s \in Q
    <2>1. PICK p \in E, u \in SUBSET E : p = Picked(s) /\ u = Unpicked(s)
      BY <1>3, <1>5, FS_Subset, PickedFacts
    <2>2. Sums(r)[s] = r[p] + Sums(r)[u]
      BY <1>2, <1>5, <2>1, SumsUnpicked
    <2>3. /\ ColumnSums(g, D, s) \in [D -> Int] /\ ColumnSums(g, D, u) \in [D -> Int]
          /\ g[p] \in [D -> Int]
      BY <1>5, ColumnSumsType
    <2>4. ASSUME NEW x \in D PROVE ColumnSums(g, D, s)[x] = g[p][x] + ColumnSums(g, D, u)[x]
      <3>1. PICK c \in [E -> Int] : c = Column(g, x)
        BY ColumnType
      <3>2. Sums(c)[s] = c[p] + Sums(c)[u]
        <4>1. DOMAIN c = E
          OBVIOUS
        <4> QED
          BY <1>5, <2>1, <4>1, SumsUnpicked
      <3>3. c[p] = g[p][x]
        BY <3>1 DEF Column
      <3> QED
        BY <3>1, <3>2, <3>3 DEF ColumnSums
    <2>5. Total(ColumnSums(g, D, s)) = Total(g[p]) + Total(ColumnSums(g, D, u))
      BY <2>3, <2>4, TotalPlus
    <2> QED
      BY <1>2, <1>3, <1>5, <2>1, <2>2, <2>5
  <1>6. E \in Q
    BY <1>3, <1>4, <1>5, SubsetInduction
  <1>7. ColumnSums(g, D, E) = [x \in D |-> Total(Column(g, x))]
    <2>1. ASSUME NEW x \in D PROVE Sums(Column(g, x))[E] = Total(Column(g, x))
      <3>1. Column(g, x) \in [E -> Int]
        BY ColumnType
      <3>2. DOMAIN Column(g, x) = E
        BY <3>1
      <3> QED
        BY <3>2, TotalIsSums
    <2> QED
      BY <2>1 DEF ColumnSums
  <1> QED
    BY <1>1, <1>2, <1>3, <1>6, <1>7, TotalIsSums

-----------------------------------------------------------------------------
(* Rows in the order of their ids *)

LEMMA PrecedesIsOrder ==
    ASSUME NEW i \in Nat, NEW j \in Nat, NEW k \in Nat, NEW asc \in BOOLEAN
    PROVE  /\ ~Precedes(i, i, asc) /\ (i # j => Precedes(i, j, asc) \/ Precedes(j, i, asc))
           /\ Precedes(i, j, asc) /\ Precedes(j, k, asc) => Precedes(i, k, asc)
           /\ ~(Precedes(i, j, asc) /\ Precedes(j, i, asc))
  BY DEF Precedes

LEMMA AscendingFacts ==
    /\ Ascending \in BOOLEAN /\ \A i, j : Precedes(i, j, Ascending) <=> i < j
  BY DEF Ascending, Precedes

LEMMA AheadIsFinite ==
    ASSUME NEW S, S \subseteq Nat, IsFiniteSet(S), NEW asc \in BOOLEAN, NEW i \in S
    PROVE  /\ IsFiniteSet(Ahead(S, i, asc)) /\ Cardinality(Ahead(S, i, asc)) \in Nat
           /\ Cardinality(S) \in Nat /\ Cardinality(Ahead(S, i, asc)) < Cardinality(S)
  <1>1. Ahead(S, i, asc) \in SUBSET S /\ i \notin Ahead(S, i, asc)
    BY PrecedesIsOrder DEF Ahead
  <1>2. IsFiniteSet(Ahead(S, i, asc)) /\ Cardinality(Ahead(S, i, asc)) <= Cardinality(S)
        /\ Cardinality(S) # Cardinality(Ahead(S, i, asc))
    BY <1>1, FS_Subset
  <1>3. Cardinality(Ahead(S, i, asc)) \in Nat /\ Cardinality(S) \in Nat
    BY <1>2, FS_CardinalityType
  <1> QED
    BY <1>2, <1>3

\* The later of two rows has more rows before it.
LEMMA AheadGrows ==
    ASSUME NEW S, S \subseteq Nat, IsFiniteSet(S), NEW asc \in BOOLEAN,
           NEW i \in S, NEW j \in S, Precedes(i, j, asc)
    PROVE  Cardinality(Ahead(S, i, asc)) < Cardinality(Ahead(S, j, asc))
  <1>1. ASSUME NEW k \in Ahead(S, i, asc) PROVE k \in Ahead(S, j, asc)
    BY PrecedesIsOrder DEF Ahead
  <1>2. i \in Ahead(S, j, asc) /\ i \notin Ahead(S, i, asc)
    BY PrecedesIsOrder DEF Ahead
  <1>3. /\ Cardinality(Ahead(S, i, asc)) <= Cardinality(Ahead(S, j, asc))
        /\ Cardinality(Ahead(S, j, asc)) # Cardinality(Ahead(S, i, asc))
    BY <1>1, <1>2, AheadIsFinite, FS_Subset
  <1>4. Cardinality(Ahead(S, i, asc)) \in Nat /\ Cardinality(Ahead(S, j, asc)) \in Nat
    BY AheadIsFinite
  <1> QED
    BY <1>3, <1>4

LEMMA SameRank ==
    ASSUME NEW S, S \subseteq Nat, IsFiniteSet(S), NEW asc \in BOOLEAN, NEW i \in S, NEW j \in S
    PROVE  /\ Cardinality(Ahead(S, i, asc)) = Cardinality(Ahead(S, j, asc)) => i = j
           /\ Cardinality(Ahead(S, i, asc)) < Cardinality(Ahead(S, j, asc)) => Precedes(i, j, asc)
  <1>1. i = j \/ Precedes(i, j, asc) \/ Precedes(j, i, asc)
    BY PrecedesIsOrder
  <1>2. /\ Precedes(i, j, asc) => Cardinality(Ahead(S, i, asc)) < Cardinality(Ahead(S, j, asc))
        /\ Precedes(j, i, asc) => Cardinality(Ahead(S, j, asc)) < Cardinality(Ahead(S, i, asc))
    BY AheadGrows
  <1>3. Cardinality(Ahead(S, i, asc)) \in Nat /\ Cardinality(Ahead(S, j, asc)) \in Nat
    BY AheadIsFinite
  <1> QED
    BY <1>1, <1>2, <1>3

\* Every rank is that of some row.
LEMMA EveryRank ==
    ASSUME NEW S, S \subseteq Nat, IsFiniteSet(S), NEW asc \in BOOLEAN, NEW n \in 1..Cardinality(S)
    PROVE  \E i \in S : Cardinality(Ahead(S, i, asc)) = n - 1
  <1> DEFINE T == 1..Cardinality(S)
             rank == [i \in S |-> Cardinality(Ahead(S, i, asc)) + 1]
  <1>1. Cardinality(S) \in Nat
    BY FS_CardinalityType
  <1>2. IsFiniteSet(T) /\ Cardinality(T) = Cardinality(S)
    BY <1>1, FS_Interval
  <1>3. \A i \in S : /\ Cardinality(Ahead(S, i, asc)) \in Nat
                   /\ Cardinality(Ahead(S, i, asc)) < Cardinality(S)
    BY AheadIsFinite
  <1>4. ASSUME NEW i \in S, NEW j \in S, rank[i] = rank[j] PROVE i = j
    <2>1. Cardinality(Ahead(S, i, asc)) = Cardinality(Ahead(S, j, asc))
      BY <1>3, <1>4
    <2> QED
      BY <2>1, SameRank
  <1>5. rank \in Injection(S, T)
    BY <1>1, <1>3, <1>4 DEF Injection, IsInjective
  <1> HIDE DEF rank, T
  <1>6. rank \in Surjection(S, T)
    BY <1>2, <1>5, FS_Injection
  <1>7. PICK i \in S : rank[i] = n
    BY <1>6 DEF Surjection, T
  <1>8. Cardinality(Ahead(S, i, asc)) + 1 = n
    BY <1>7 DEF rank
  <1> QED
    BY <1>3, <1>8

\* ORDER BY lists each row once, in the order.
LEMMA InOrderFacts ==
    ASSUME NEW S, S \subseteq Nat, IsFiniteSet(S), NEW asc \in BOOLEAN
    PROVE  /\ InOrder(S, asc) \in Seq(S) /\ Len(InOrder(S, asc)) = Cardinality(S)
           /\ \A i \in S : \E n \in 1..Cardinality(S) : InOrder(S, asc)[n] = i
           /\ \A m, n \in 1..Cardinality(S) :
                m < n => Precedes(InOrder(S, asc)[m], InOrder(S, asc)[n], asc)
  <1> DEFINE s == InOrder(S, asc)
             T == 1..Cardinality(S)
  <1>1. Cardinality(S) \in Nat
    BY FS_CardinalityType
  <1>2. \A n \in T : s[n] \in S /\ Cardinality(Ahead(S, s[n], asc)) = n - 1
    <2> TAKE n \in T
    <2>1. \E i \in S : Cardinality(Ahead(S, i, asc)) = n - 1
      BY EveryRank
    <2>2. s[n] = CHOOSE i \in S : Cardinality(Ahead(S, i, asc)) = n - 1
      BY DEF InOrder
    <2> QED
      BY <2>1, <2>2, Zenon
  <1>3. s \in [T -> S] /\ DOMAIN s = T
    <2>1. DOMAIN s = T /\ s = [n \in T |-> s[n]]
      BY DEF InOrder
    <2> HIDE DEF s
    <2> QED
      BY <1>2, <2>1
  <1> HIDE DEF s
  <1>4. s \in Seq(S) /\ Len(s) = Cardinality(S)
    BY <1>1, <1>3, SMT
  <1>5. ASSUME NEW i \in S PROVE \E n \in T : s[n] = i
    <2>1. PICK r \in Nat : r = Cardinality(Ahead(S, i, asc)) /\ r < Cardinality(S)
      BY AheadIsFinite
    <2>2. r + 1 \in T
      BY <1>1, <2>1
    <2>3. s[r + 1] \in S /\ Cardinality(Ahead(S, s[r + 1], asc)) = r
      BY <1>2, <2>2
    <2>4. s[r + 1] = i
      BY <2>1, <2>3, SameRank
    <2> QED
      BY <2>2, <2>4
  <1>6. ASSUME NEW m \in T, NEW n \in T, m < n PROVE Precedes(s[m], s[n], asc)
    <2>1. Cardinality(Ahead(S, s[m], asc)) < Cardinality(Ahead(S, s[n], asc))
      BY <1>1, <1>2, <1>6
    <2> QED
      BY <1>2, <2>1, SameRank
  <1> QED
    BY <1>4, <1>5, <1>6 DEF s

\* LIMIT takes the first rows, and all if there are fewer.
LEMMA FirstOfFacts ==
    ASSUME NEW S, S \subseteq Nat, IsFiniteSet(S), NEW asc \in BOOLEAN, NEW n \in Nat
    PROVE  /\ FirstOf(S, n, asc) \subseteq S /\ IsFiniteSet(FirstOf(S, n, asc))
           /\ \A i \in FirstOf(S, n, asc), j \in S : Precedes(j, i, asc) => j \in FirstOf(S, n, asc)
           /\ Cardinality(FirstOf(S, n, asc)) < n => FirstOf(S, n, asc) = S
  <1> DEFINE F == FirstOf(S, n, asc)
             Rank(i) == Cardinality(Ahead(S, i, asc))
  <1>1. F \in SUBSET S
    BY DEF FirstOf
  <1>2. IsFiniteSet(F) /\ Cardinality(F) \in Nat
    BY <1>1, FS_Subset, FS_CardinalityType
  <1>3. \A i \in S : Rank(i) \in Nat
    BY AheadIsFinite
  <1>4. ASSUME NEW i \in F, NEW j \in S, Precedes(j, i, asc) PROVE j \in F
    <2>1. i \in S /\ Rank(i) < n
      BY DEF FirstOf
    <2>2. Rank(j) < Rank(i)
      BY <1>4, <2>1, AheadGrows
    <2> QED
      BY <1>3, <2>1, <2>2 DEF FirstOf
  <1>5. ASSUME Cardinality(F) < n, F # S PROVE FALSE
    <2> DEFINE R == {Rank(i) : i \in S \ F}
    <2>1. R \subseteq Nat /\ R # {}
      BY <1>1, <1>3, <1>5
    <2>2. PICK r \in R : \A q \in R : r <= q
      BY <2>1, Least
    <2>3. PICK i \in S \ F : Rank(i) = r
      OBVIOUS
    <2>4. ASSUME NEW j \in Ahead(S, i, asc) PROVE j \in F
      <3>1. j \in S /\ Precedes(j, i, asc)
        BY DEF Ahead
      <3>2. Rank(j) < Rank(i)
        BY <3>1, AheadGrows
      <3> QED
        BY <1>3, <2>2, <2>3, <3>1, <3>2
    <2>5. Rank(i) <= Cardinality(F)
      BY <1>2, <2>4, FS_Subset
    <2> QED
      BY <1>2, <1>3, <1>5, <2>3, <2>5 DEF FirstOf
  <1> QED
    BY <1>1, <1>2, <1>4, <1>5

\* What a loop keeps of a slice.
LEMMA KeptFacts ==
    ASSUME NEW U, NEW s \in Seq(U), NEW P, P \subseteq DOMAIN s
    PROVE  /\ Kept(s, P) \in Seq(U) /\ (P # {} => Kept(s, P) # <<>>)
           /\ \A n \in 1..Len(Kept(s, P)) : \E i \in P : Kept(s, P)[n] = s[i]
           /\ IsInjective(s) => IsInjective(Kept(s, P))
  <1>1. PICK order : order = InOrder(P, Ascending)
    OBVIOUS
  <1>2. P \subseteq Nat /\ IsFiniteSet(P)
    <2>1. DOMAIN s = 1..Len(s) /\ Len(s) \in Nat
      OBVIOUS
    <2>2. IsFiniteSet(1..Len(s))
      BY <2>1, FS_Interval
    <2> QED
      BY <2>1, <2>2, FS_Subset
  <1>3. order \in Seq(P) /\ Len(order) = Cardinality(P)
    BY <1>1, <1>2, AscendingFacts, InOrderFacts
  <1>4. Kept(s, P) = [n \in 1..Len(order) |-> s[order[n]]]
    BY <1>1 DEF Kept
  <1>5. Len(order) \in Nat /\ \A n \in 1..Len(order) : order[n] \in P /\ s[order[n]] \in U
    BY <1>3
  <1>6. P # {} => Len(order) # 0
    BY <1>2, <1>3, FS_EmptySet
  <1>7. \A m, n \in 1..Len(order) : m < n => order[m] < order[n]
    <2>1. \A m, n \in 1..Cardinality(P) : m < n => Precedes(order[m], order[n], Ascending)
      BY <1>1, <1>2, AscendingFacts, InOrderFacts
    <2> QED
      BY <1>3, <2>1, AscendingFacts
  <1>8. ASSUME IsInjective(s), NEW m \in 1..Len(order), NEW n \in 1..Len(order), s[order[m]] = s[order[n]]
        PROVE  m = n
    <2>1. order[m] = order[n] /\ order[m] \in Nat
      BY <1>2, <1>5, <1>8 DEF IsInjective
    <2> QED
      BY <1>5, <1>7, <2>1
  <1>9. ASSUME IsInjective(s) PROVE IsInjective(Kept(s, P))
    <2>1. \A m, n \in 1..Len(order) : s[order[m]] = s[order[n]] => m = n
      BY <1>8, <1>9
    <2>2. PICK k : k = [n \in 1..Len(order) |-> s[order[n]]]
      OBVIOUS
    <2>3. \A m, n \in DOMAIN k : k[m] = k[n] => m = n
      BY <2>1, <2>2
    <2> QED
      BY <1>4, <2>2, <2>3 DEF IsInjective
  <1> QED
    BY <1>4, <1>5, <1>6, <1>9

-----------------------------------------------------------------------------
(* Listings: sequences of ids, each once and in order *)

Elements(s) == {s[n] : n \in 1..Len(s)}
Sorted(s, asc) ==
    s \in Seq(Nat) /\ \A m, n \in 1..Len(s) : m < n => Precedes(s[m], s[n], asc)

LEMMA NothingSorted == ASSUME NEW asc PROVE Sorted(<<>>, asc) /\ Elements(<<>>) = {}
  BY DEF Sorted, Elements

LEMMA SortedElements ==
    ASSUME NEW asc, NEW s, Sorted(s, asc)
    PROVE  s \in Seq(Nat) /\ Len(s) \in Nat /\ Elements(s) \subseteq Nat
  BY DEF Sorted, Elements

\* Two listings one after the other.
Succeeds(s, t, asc) == \A i \in Elements(s), j \in Elements(t) : Precedes(i, j, asc)

LEMMA SortedConcat ==
    ASSUME NEW asc, NEW s, NEW t, Sorted(s, asc), Sorted(t, asc), Succeeds(s, t, asc)
    PROVE  Sorted(s \o t, asc) /\ Elements(s \o t) = Elements(s) \cup Elements(t)
  <1> DEFINE u == s \o t
  <1>1. s \in Seq(Nat) /\ t \in Seq(Nat) /\ Len(s) \in Nat /\ Len(t) \in Nat
    BY SortedElements
  <1>2. /\ u \in Seq(Nat) /\ Len(u) = Len(s) + Len(t)
        /\ \A n \in 1..Len(u) : u[n] = IF n <= Len(s) THEN s[n] ELSE t[n - Len(s)]
    BY <1>1
  <1> HIDE DEF u
  <1>a. PICK a \in Nat, b \in Nat : a = Len(s) /\ b = Len(t) /\ Len(u) = a + b
    BY <1>1, <1>2
  <1>b. \A n \in 1..a : n \in 1..(a + b) /\ u[n] = s[n]
    BY <1>2, <1>a
  <1>c. \A n \in (a + 1)..(a + b) : n - a \in 1..b /\ u[n] = t[n - a]
    BY <1>2, <1>a
  <1>d. \A n \in 1..(a + b) : n \in 1..a \/ n \in (a + 1)..(a + b)
    OBVIOUS
  <1>3. ASSUME NEW m \in 1..(a + b), NEW n \in 1..(a + b), m < n PROVE Precedes(u[m], u[n], asc)
    <2>1. CASE m \in 1..a /\ n \in 1..a
      BY <1>3, <1>a, <1>b, <2>1 DEF Sorted
    <2>2. CASE m \in 1..a /\ n \in (a + 1)..(a + b)
      BY <1>a, <1>b, <1>c, <2>2 DEF Elements, Succeeds
    <2>3. CASE m \in (a + 1)..(a + b) /\ n \in (a + 1)..(a + b)
      <3>1. m - a < n - a
        BY <1>3
      <3> QED
        BY <1>a, <1>c, <2>3, <3>1 DEF Sorted
    <2>4. ~(m \in (a + 1)..(a + b) /\ n \in 1..a)
      BY <1>3
    <2> QED
      BY <1>d, <2>1, <2>2, <2>3, <2>4
  <1>4. ASSUME NEW i PROVE i \in Elements(u) <=> i \in Elements(s) \/ i \in Elements(t)
    <2>1. \A n \in 1..b : n + a \in (a + 1)..(a + b) /\ n + a \in 1..(a + b) /\ (n + a) - a = n
      OBVIOUS
    <2>2. \A n \in 1..b : u[n + a] = t[n]
      BY <1>c, <2>1
    <2>3. i \in Elements(u) => i \in Elements(s) \/ i \in Elements(t)
      BY <1>a, <1>b, <1>c, <1>d DEF Elements
    <2>4. i \in Elements(s) \/ i \in Elements(t) => i \in Elements(u)
      BY <1>a, <1>b, <2>1, <2>2 DEF Elements
    <2> QED
      BY <2>3, <2>4
  <1>5. Sorted(u, asc)
    BY <1>2, <1>3, <1>a DEF Sorted
  <1> QED
    BY <1>4, <1>5 DEF u

\* The last id of a listing, and the ones in front of it.
LEMMA SortedFront ==
    ASSUME NEW asc \in BOOLEAN, NEW s, Sorted(s, asc), Len(s) # 0
    PROVE  /\ Sorted(SubSeq(s, 1, Len(s) - 1), asc)
           /\ s[Len(s)] \in Elements(s)
           /\ Elements(SubSeq(s, 1, Len(s) - 1)) = Elements(s) \ {s[Len(s)]}
           /\ \A i \in Elements(s) : i = s[Len(s)] \/ Precedes(i, s[Len(s)], asc)
  <1> DEFINE u == SubSeq(s, 1, Len(s) - 1)
             N == Len(s)
  <1>1. s \in Seq(Nat) /\ N \in Nat \ {0}
    BY SortedElements
  <1>2. u \in Seq(Nat) /\ Len(u) = N - 1 /\ \A n \in 1..(N - 1) : u[n] = s[n]
    <2>1. N - 1 \in Nat /\ \A n \in 1..(N - 1) : s[n] \in Nat
      BY <1>1
    <2>2. /\ SubSeq(s, 1, N - 1) \in Seq(Nat)
          /\ Len(SubSeq(s, 1, N - 1)) = IF 1 <= N - 1 THEN (N - 1) - 1 + 1 ELSE 0
          /\ \A n \in 1..((N - 1) - 1 + 1) : SubSeq(s, 1, N - 1)[n] = s[1 + n - 1]
      BY <2>1, SubSeqProperties
    <2> HIDE DEF N
    <2>3. \A n \in 1..(N - 1) : n \in 1..((N - 1) - 1 + 1) /\ 1 + n - 1 = n
      BY <2>1
    <2>4. u = SubSeq(s, 1, N - 1)
      BY DEF N
    <2> HIDE DEF u
    <2>5. \A n \in 1..(N - 1) : u[n] = s[n]
      BY <2>2, <2>3, <2>4
    <2> QED
      BY <2>1, <2>2, <2>4, <2>5
  <1> HIDE DEF u
  <1>3. \A n \in 1..(N - 1) : n \in 1..N /\ n < N
    BY <1>1
  <1>4. N \in 1..N /\ \A n \in 1..N : n = N \/ n \in 1..(N - 1)
    BY <1>1
  <1> HIDE DEF N
  <1>5. ASSUME NEW m \in 1..Len(u), NEW n \in 1..Len(u), m < n PROVE Precedes(u[m], u[n], asc)
    <2>1. m \in 1..N /\ n \in 1..N /\ u[m] = s[m] /\ u[n] = s[n]
      BY <1>2, <1>3, <1>5
    <2> QED
      BY <1>5, <2>1 DEF Sorted, N
  <1>6. \A n \in 1..(N - 1) : Precedes(s[n], s[N], asc)
    BY <1>3, <1>4 DEF Sorted, N
  <1>7. \A n \in 1..(N - 1) : s[n] # s[N]
    <2>1. \A n \in 1..N : s[n] \in Nat
      BY <1>1 DEF N
    <2> QED
      BY <1>3, <1>4, <1>6, <2>1, PrecedesIsOrder
  <1>8. ASSUME NEW i PROVE i \in Elements(u) <=> i \in Elements(s) /\ i # s[N]
    BY <1>2, <1>3, <1>4, <1>7 DEF Elements, N
  <1>9. Sorted(u, asc)
    BY <1>2, <1>5 DEF Sorted
  <1>10. ASSUME NEW i \in Elements(s) PROVE i = s[N] \/ Precedes(i, s[N], asc)
    BY <1>4, <1>6 DEF Elements, N
  <1>11. s[N] \in Elements(s)
    BY <1>4 DEF Elements, N
  <1> QED
    BY <1>8, <1>9, <1>10, <1>11 DEF u, N

\* ORDER BY ... LIMIT n: the first rows of a table, all if there are fewer.
LEMMA PageFacts ==
    ASSUME NEW S, S \subseteq Nat, IsFiniteSet(S), NEW asc \in BOOLEAN, NEW n \in Nat,
           NEW page, page = InOrder(FirstOf(S, n, asc), asc)
    PROVE  /\ Sorted(page, asc) /\ Elements(page) \subseteq S
           /\ \A i \in Elements(page), j \in S : Precedes(j, i, asc) => j \in Elements(page)
           /\ Len(page) < n => Elements(page) = S
  <1> DEFINE F == FirstOf(S, n, asc)
  <1>1. /\ F \subseteq S /\ IsFiniteSet(F)
        /\ \A i \in F, j \in S : Precedes(j, i, asc) => j \in F
        /\ Cardinality(F) < n => F = S
    BY FirstOfFacts
  <1>2. page = InOrder(F, asc)
    OBVIOUS
  <1> HIDE DEF F
  <1>3. F \subseteq Nat
    BY <1>1
  <1>4. /\ page \in Seq(F) /\ Len(page) = Cardinality(F)
        /\ \A i \in F : \E m \in 1..Cardinality(F) : page[m] = i
        /\ \A k, m \in 1..Cardinality(F) : k < m => Precedes(page[k], page[m], asc)
    <2>1. /\ InOrder(F, asc) \in Seq(F) /\ Len(InOrder(F, asc)) = Cardinality(F)
          /\ \A i \in F : \E m \in 1..Cardinality(F) : InOrder(F, asc)[m] = i
          /\ \A k, m \in 1..Cardinality(F) : k < m => Precedes(InOrder(F, asc)[k], InOrder(F, asc)[m], asc)
      BY <1>1, <1>3, InOrderFacts
    <2> QED
      BY <1>2, <2>1
  <1>5. page \in Seq(Nat) /\ \A m \in 1..Len(page) : page[m] \in F
    <2>1. page \in Seq(F)
      BY <1>4
    <2>2. \A m \in 1..Len(page) : page[m] \in F
      BY <2>1
    <2>3. Len(page) \in Nat /\ DOMAIN page = 1..Len(page) /\ page = [m \in 1..Len(page) |-> page[m]]
      BY <2>1
    <2>4. page \in Seq(Nat)
      BY <1>3, <2>2, <2>3
    <2> QED
      BY <2>2, <2>4
  <1>6. Elements(page) = F
    BY <1>4, <1>5 DEF Elements
  <1>7. Sorted(page, asc)
    BY <1>4, <1>5 DEF Sorted
  <1> QED
    BY <1>1, <1>4, <1>6, <1>7

Fills(page, S, n, asc) ==
    /\ Sorted(page, asc) /\ Elements(page) \subseteq S
    /\ \A i \in Elements(page), j \in S : Precedes(j, i, asc) => j \in Elements(page)
    /\ Len(page) < n => Elements(page) = S

LEMMA PageFills ==
    ASSUME NEW S, S \subseteq Nat, IsFiniteSet(S), NEW asc, asc \in BOOLEAN, NEW n, n \in Nat
    PROVE  Fills(InOrder(FirstOf(S, n, asc), asc), S, n, asc)
  BY PageFacts DEF Fills

\* A part of S, up to a cursor that is in S, or to its end.
PageOf(S, asc, part, next) ==
    /\ Sorted(part, asc) /\ Elements(part) \subseteq S /\ next \in S \cup {0}
    /\ next # 0 => \A i \in Elements(part) : Precedes(i, next, asc)
    /\ \A i \in S : next = 0 \/ Precedes(i, next, asc) => i \in Elements(part)

\* What a listing of L has shown before the cursor it goes on from.
Shown(L, asc, begins, cursor, seen) ==
    /\ L \subseteq Nat /\ 0 \notin L /\ cursor \in Nat
    /\ Sorted(seen, asc) /\ Elements(seen) \subseteq L
    /\ \A i \in Elements(seen) : ~begins /\ Precedes(i, cursor, asc)

\* What it has shown with a part more, before the next cursor.
ShownMore(L, asc, begins, cursor, seen, part, next) ==
    /\ Sorted(seen \o part, asc) /\ Elements(seen \o part) \subseteq L /\ next \in Nat
    /\ next # 0 => \A i \in Elements(seen \o part) : Precedes(i, next, asc)
    /\ \A i \in L : next = 0 \/ Precedes(i, next, asc)
                      => i \in Elements(seen \o part) \/ (~begins /\ Precedes(i, cursor, asc))
    /\ Elements(seen) \subseteq Elements(seen \o part)

\* LIMIT n + 1, of which the last row is the cursor of the next page.
LEMMA CursorFacts ==
    ASSUME NEW S, S \subseteq Nat, 0 \notin S, IsFiniteSet(S), NEW asc \in BOOLEAN, NEW n \in Nat,
           NEW page, page = InOrder(FirstOf(S, n + 1, asc), asc),
           NEW part, part = IF Len(page) > n THEN SubSeq(page, 1, Len(page) - 1) ELSE page,
           NEW next, next = IF Len(page) > n THEN page[Len(page)] ELSE 0
    PROVE  PageOf(S, asc, part, next)
  <1>1. /\ Sorted(page, asc) /\ Elements(page) \subseteq S
        /\ \A i \in Elements(page), j \in S : Precedes(j, i, asc) => j \in Elements(page)
        /\ Len(page) < n + 1 => Elements(page) = S
    <2>1. PICK m \in Nat : m = n + 1
      OBVIOUS
    <2>2. page = InOrder(FirstOf(S, m, asc), asc)
      BY <2>1
    <2> QED
      BY <2>1, <2>2, PageFacts
  <1>2. Len(page) \in Nat
    BY <1>1, SortedElements
  <1>3. CASE Len(page) > n
    <2>1. Len(page) # 0 /\ next = page[Len(page)] /\ part = SubSeq(page, 1, Len(page) - 1)
      BY <1>2, <1>3
    <2>2. /\ Sorted(SubSeq(page, 1, Len(page) - 1), asc) /\ page[Len(page)] \in Elements(page)
          /\ Elements(SubSeq(page, 1, Len(page) - 1)) = Elements(page) \ {page[Len(page)]}
          /\ \A i \in Elements(page) : i = page[Len(page)] \/ Precedes(i, page[Len(page)], asc)
      BY <1>1, <2>1, SortedFront
    <2>3. /\ Sorted(part, asc) /\ next \in Elements(page) /\ Elements(part) = Elements(page) \ {next}
          /\ \A i \in Elements(page) : i = next \/ Precedes(i, next, asc)
      BY <2>1, <2>2, Zenon
    <2>4. next \in S /\ next # 0
      BY <1>1, <2>3
    <2>5. ASSUME NEW i \in S, next = 0 \/ Precedes(i, next, asc) PROVE i \in Elements(part)
      <3>1. Precedes(i, next, asc) /\ i # next
        BY <2>4, <2>5, PrecedesIsOrder
      <3> QED
        BY <1>1, <2>3, <3>1
    <2> QED
      BY <1>1, <2>3, <2>4, <2>5 DEF PageOf
  <1>4. CASE ~(Len(page) > n)
    BY <1>1, <1>2, <1>4 DEF PageOf
  <1> QED
    BY <1>3, <1>4

\* One page more of a listing of L: from a cursor on, or from the first row.  What was
\* shown stays sorted, and no row is left out before the next cursor.
LEMMA NextPage ==
    ASSUME NEW L, NEW asc \in BOOLEAN, NEW begins \in BOOLEAN, NEW cursor, NEW seen, NEW part, NEW next,
           Shown(L, asc, begins, cursor, seen),
           NEW S, S = {i \in L : begins \/ i = cursor \/ Precedes(cursor, i, asc)},
           PageOf(S, asc, part, next)
    PROVE  ShownMore(L, asc, begins, cursor, seen, part, next)
  <1>1. S \subseteq Nat /\ S \subseteq L /\ 0 \notin S /\ cursor \in Nat /\ L \subseteq Nat
    BY DEF Shown
  <1>2. \A i \in Elements(seen), j \in S : Precedes(i, j, asc)
    <2> TAKE i \in Elements(seen), j \in S
    <2>1. ~begins /\ Precedes(i, cursor, asc) /\ i \in Nat /\ j \in Nat
      BY <1>1 DEF Shown
    <2>2. j = cursor \/ Precedes(cursor, j, asc)
      BY <2>1
    <2> QED
      BY <1>1, <2>1, <2>2, PrecedesIsOrder
  <1>3. \A i \in L : i \notin S => ~begins /\ Precedes(i, cursor, asc)
    BY <1>1, PrecedesIsOrder
  <1>4. PageOf(S, asc, part, next)
    OBVIOUS
  <1>5. Sorted(seen \o part, asc) /\ Elements(seen \o part) = Elements(seen) \cup Elements(part)
    <2>1. Succeeds(seen, part, asc)
      BY <1>2, <1>4 DEF PageOf, Succeeds
    <2>2. Sorted(seen, asc) /\ Sorted(part, asc)
      BY <1>4 DEF PageOf, Shown
    <2> QED
      BY <2>1, <2>2, SortedConcat
  <1>6. ASSUME NEW i \in L, next = 0 \/ Precedes(i, next, asc)
        PROVE  i \in Elements(part) \/ (~begins /\ Precedes(i, cursor, asc))
    BY <1>3, <1>4, <1>6 DEF PageOf
  <1>7. next \in Nat /\ Elements(part) \subseteq L /\ Elements(seen) \subseteq L
    BY <1>1, <1>4 DEF PageOf, Shown
  <1>8. ASSUME next # 0, NEW i \in Elements(seen \o part) PROVE Precedes(i, next, asc)
    BY <1>2, <1>4, <1>5, <1>8 DEF PageOf
  <1> QED
    BY <1>5, <1>6, <1>7, <1>8 DEF ShownMore
-----------------------------------------------------------------------------
(* Listings that start each page at the least id left, of any kind *)

\* How far a listing is of the ids L up to the first ones that there were: listed are
\* those before the id at which the next page starts, or all of them.
UpTo(L, first, start, listed) ==
    /\ start \in Nat \ {0} /\ Sorted(listed, Ascending)
    /\ \A i \in Elements(listed) : i < start
    /\ \A i \in L : i <= first /\ i < start => i \in Elements(listed)
Through(L, first, listed) ==
    /\ Sorted(listed, Ascending)
    /\ \A i \in L : i <= first => i \in Elements(listed)

LEMMA NothingListed ==
    ASSUME NEW L, L \subseteq Nat \ {0}, NEW first PROVE UpTo(L, first, 1, <<>>)
  BY NothingSorted DEF UpTo

\* A page more, of the ids from the start on; the next starts at the first id of any
\* kind after it.
LEMMA ListedMore ==
    ASSUME NEW N \in Nat, NEW L, L \subseteq 1..N, NEW first \in Nat, first <= N,
           NEW start, NEW listed, UpTo(L, first, start, listed), NEW n \in Nat \ {0},
           NEW page, page = InOrder(FirstOf({i \in L : i >= start}, n, Ascending), Ascending),
           NEW rest, rest = {i \in 1..N : page # <<>> /\ i >= page[Len(page)] + 1}
    PROVE  /\ rest = {} => Through(L, first, listed \o page)
           /\ rest # {} => UpTo(L, first, Min(rest), listed \o page)
  <1>1. PICK S : S = {i \in L : i >= start}
    OBVIOUS
  <1>2. S \subseteq Nat /\ IsFiniteSet(S) /\ start \in Nat
    <2>1. IsFiniteSet(1..N)
      BY FS_Interval
    <2>2. S \subseteq 1..N
      BY <1>1
    <2>3. S \subseteq Nat
      BY <2>2
    <2>4. IsFiniteSet(S)
      BY <2>1, <2>2, FS_Subset
    <2> QED
      BY <2>3, <2>4 DEF UpTo
  <1>3. page = InOrder(FirstOf(S, n, Ascending), Ascending)
    BY <1>1
  <1>4. /\ Sorted(page, Ascending) /\ Elements(page) \subseteq S
        /\ \A i \in Elements(page), j \in S : Precedes(j, i, Ascending) => j \in Elements(page)
        /\ Len(page) < n => Elements(page) = S
    <2>1. Ascending \in BOOLEAN
      BY AscendingFacts
    <2>2. Fills(page, S, n, Ascending)
      BY <1>2, <1>3, <2>1, PageFills
    <2> QED
      BY <2>2 DEF Fills
  <1>5. PICK both : both = listed \o page
    OBVIOUS
  <1>6. Sorted(both, Ascending) /\ Elements(both) = Elements(listed) \cup Elements(page)
    <2>1. Sorted(listed, Ascending) /\ Elements(listed) \subseteq Nat
      BY SortedElements DEF UpTo
    <2>2. \A i \in Elements(listed), j \in Elements(page) : i < j
      BY <1>1, <1>2, <1>4, <2>1 DEF UpTo
    <2>3. Succeeds(listed, page, Ascending)
      BY <2>2, AscendingFacts DEF Succeeds
    <2> QED
      BY <1>4, <1>5, <2>1, <2>3, SortedConcat, ZenonT(40)
  <1>7. page \in Seq(Nat) /\ Len(page) \in Nat /\ (Len(page) = 0 <=> page = <<>>)
    <2>1. page \in Seq(Nat)
      BY <1>4 DEF Sorted
    <2> QED
      BY <2>1
  <1>8. CASE page = <<>>
    <2>1. Elements(page) = {} /\ Len(page) = 0
      BY <1>8, NothingSorted
    <2>a. rest = {}
      BY <1>8
    <2>b. S = {}
      BY <1>4, <2>1
    <2>2. rest = {} /\ S = {}
      BY <2>a, <2>b
    <2>3. \A i \in L : i < start
      BY <1>1, <1>2, <2>2
    <2>4. \A i \in L : i <= first => i \in Elements(both)
      BY <1>6, <2>3 DEF UpTo
    <2> QED
      BY <1>5, <1>6, <2>2, <2>4 DEF Through
  <1>9. CASE page # <<>>
    <2>1. PICK e : e = page[Len(page)]
      OBVIOUS
    <2>2. e \in Elements(page) /\ \A i \in Elements(page) : i = e \/ Precedes(i, e, Ascending)
      BY <1>4, <1>7, <1>9, <2>1, AscendingFacts, SortedFront
    <2>3. e \in S /\ e \in Nat /\ page[Len(page)] = e
      BY <1>2, <1>4, <2>1, <2>2
    <2>4. rest = {i \in 1..N : i >= e + 1}
      BY <1>9, <2>3
    <2>5. \A i \in Elements(page) : i \in Nat /\ i <= e
      BY <1>2, <1>4, <2>2, <2>3, AscendingFacts
    <2>6. \A i \in S : i <= e => i \in Elements(page)
      <3>1. \A i \in S : Precedes(i, e, Ascending) => i \in Elements(page)
        BY <1>4, <2>2
      <3> QED
        BY <1>2, <2>2, <2>3, <3>1, AscendingFacts
    <2>7. \A i \in Elements(both) : i \in Nat /\ i <= e
      <3>1. \A i \in Elements(listed) : i \in Nat /\ i < start
        BY SortedElements DEF UpTo
      <3>2. start <= e
        BY <1>1, <2>3
      <3> QED
        BY <1>2, <1>6, <2>3, <2>5, <3>1, <3>2
    <2>8. \A i \in L : i <= first /\ i <= e => i \in Elements(both)
      <3> SUFFICES ASSUME NEW i \in L, i <= first, i <= e PROVE i \in Elements(both)
        OBVIOUS
      <3>1. i < start => i \in Elements(listed)
        BY DEF UpTo
      <3>2. i >= start => i \in Elements(page)
        BY <1>1, <2>6
      <3> QED
        BY <1>2, <1>6, <3>1, <3>2
    <2>9. ASSUME rest = {} PROVE Through(L, first, both)
      <3>1. \A i \in L : i <= e
        BY <2>3, <2>4, <2>9
      <3> QED
        BY <1>6, <2>8, <3>1 DEF Through
    <2>10. ASSUME rest # {} PROVE UpTo(L, first, Min(rest), both)
      <3>1. rest \subseteq Nat
        BY <2>4
      <3>2. \E x \in rest : \A y \in rest : x <= y
        BY <2>10, <3>1, Least
      <3>3. Min(rest) \in rest /\ \A i \in rest : Min(rest) <= i
        BY <3>2, Zenon DEF Min
      <3>4. PICK m : m = Min(rest)
        OBVIOUS
      <3>5. m \in Nat \ {0} /\ m > e /\ \A i \in L : i < m => i <= e
        <4>1. m \in 1..N /\ m >= e + 1
          BY <2>4, <3>3, <3>4
        <4>2. \A i \in 1..N : i >= e + 1 => m <= i
          BY <2>4, <3>3, <3>4
        <4> QED
          BY <2>3, <4>1, <4>2
      <3>6. \A i \in Elements(both) : i < m
        BY <2>3, <2>7, <3>5
      <3>7. \A i \in L : i <= first /\ i < m => i \in Elements(both)
        BY <2>8, <3>5
      <3> QED
        BY <1>6, <3>4, <3>5, <3>6, <3>7 DEF UpTo
    <2> QED
      BY <1>5, <2>9, <2>10
  <1> QED
    BY <1>8, <1>9
=============================================================================
