------------------------------ MODULE SumTheorems ------------------------------
(***************************************************************************)
(* What a sum over a finite set returns, for SumFunctionOnSet of the       *)
(* community modules, which the budgets of the operation journal and of    *)
(* inference are stated with.  The induction over finite sets is by a      *)
(* minimal counterexample: the strict subset ordering is well-founded.  So *)
(* are the smallest and the largest numbers of a set.                      *)
(***************************************************************************)
EXTENDS Integers, FiniteSets, FiniteSetsExt, Functions, FiniteSetTheorems, TLAPS

\* The element a fold takes out first.
FirstOf(s) == CHOOSE x \in s : TRUE

\* g computes the sums of f over the subsets of S, one element at a time.
Sums(g, f, S) ==
  g = [s \in SUBSET S |-> IF s = {} THEN 0 ELSE f[FirstOf(s)] + g[s \ {FirstOf(s)}]]

LEMMA SumUnfolded ==
  ASSUME NEW f, NEW S
  PROVE  SumFunctionOnSet(f, S) = (CHOOSE g : Sums(g, f, S))[S]
BY DEF SumFunctionOnSet, FoldFunctionOnSet, MapThenFoldSet, Sums, FirstOf

\* A non-empty collection of finite sets has a smallest one.
LEMMA SmallestSet ==
  ASSUME NEW S, IsFiniteSet(S), NEW C \in SUBSET (SUBSET S), C # {}
  PROVE  \E T \in C : \A U \in C : U \subseteq T => U = T
<1>1. C \subseteq FiniteSubsetsOf(S)
  BY FS_FiniteSubsetsOfFinite
<1>2. \E T \in C : \A U \in C : ~ (<<U, T>> \in StrictSubsetOrdering(S))
  BY <1>1, FS_StrictSubsetOrderingWellFounded, WFMin
<1> QED
  BY <1>2 DEF StrictSubsetOrdering
------------------------------------------------------------------------------
LEMMA FirstOfIsIn ==
  ASSUME NEW s, s # {}
  PROVE  FirstOf(s) \in s
BY DEF FirstOf

LEMMA SumsAt ==
  ASSUME NEW g, NEW f, NEW S, Sums(g, f, S), NEW s \in SUBSET S
  PROVE  g[s] = IF s = {} THEN 0 ELSE f[FirstOf(s)] + g[s \ {FirstOf(s)}]
BY DEF Sums

\* Two functions that compute the sums of f agree where both are defined.
LEMMA SumsAgree ==
  ASSUME NEW f, NEW S, IsFiniteSet(S), NEW T, IsFiniteSet(T),
         NEW g, Sums(g, f, S), NEW h, Sums(h, f, T)
  PROVE  \A s \in SUBSET (S \cap T) : g[s] = h[s]
<1> DEFINE C == {s \in SUBSET (S \cap T) : g[s] # h[s]}
<1> SUFFICES ASSUME C # {} PROVE FALSE
  OBVIOUS
<1>1. IsFiniteSet(S \cap T) /\ C \in SUBSET (SUBSET (S \cap T))
  BY FS_Intersection
<1>2. PICK s \in C : \A u \in C : u \subseteq s => u = s
  <2> HIDE DEF C
  <2> QED BY <1>1, SmallestSet
<1>3. s \in SUBSET S /\ s \in SUBSET T /\ g[s] # h[s]
  OBVIOUS
<1>4. s # {}
  BY <1>3, SumsAt
<1> DEFINE u == s \ {FirstOf(s)}
<1>5. u \subseteq s /\ u # s
  BY <1>4, FirstOfIsIn
<1>6. g[u] = h[u]
  BY <1>2, <1>3, <1>5
<1>7. g[s] = f[FirstOf(s)] + g[u] /\ h[s] = f[FirstOf(s)] + h[u]
  BY <1>3, <1>4, SumsAt
<1> QED
  BY <1>3, <1>6, <1>7

\* For a finite set there is one: a smallest set without one would get it
\* from those of its subsets.
LEMMA SumsExist ==
  ASSUME NEW f, NEW S, IsFiniteSet(S)
  PROVE  \E g : Sums(g, f, S)
<1> DEFINE C == {T \in SUBSET S : ~ \E g : Sums(g, f, T)}
<1> SUFFICES ASSUME C # {} PROVE FALSE
  OBVIOUS
<1>1. C \in SUBSET (SUBSET S)
  OBVIOUS
<1>2. PICK T \in C : \A U \in C : U \subseteq T => U = T
  <2> HIDE DEF C
  <2> QED BY <1>1, SmallestSet
<1> HIDE DEF C
<1>3. T \in SUBSET S /\ ~ \E g : Sums(g, f, T)
  BY <1>2 DEF C
<1> DEFINE G(U) == CHOOSE g : Sums(g, f, U)
<1>4. \A U \in SUBSET T : U # T => Sums(G(U), f, U) /\ IsFiniteSet(U)
  <2> SUFFICES ASSUME NEW U \in SUBSET T, U # T PROVE Sums(G(U), f, U) /\ IsFiniteSet(U)
    OBVIOUS
  <2>1. U \in SUBSET S /\ U \notin C
    BY <1>2, <1>3
  <2>2. \E g : Sums(g, f, U)
    BY <2>1 DEF C
  <2>3. IsFiniteSet(U)
    BY <2>1, FS_Subset
  <2> QED
    BY <2>2, <2>3
<1> DEFINE Part(s) == IF s = {} THEN 0
                      ELSE f[FirstOf(s)] + G(s \ {FirstOf(s)})[s \ {FirstOf(s)}]
           g == [s \in SUBSET T |-> Part(s)]
<1>5. \A s \in SUBSET T : s # T => g[s] = G(s)[s]
  <2> SUFFICES ASSUME NEW s \in SUBSET T, s # T PROVE g[s] = G(s)[s]
    OBVIOUS
  <2>1. Sums(G(s), f, s) /\ IsFiniteSet(s)
    BY <1>4
  <2>2. CASE s = {}
    <3>1. G(s)[s] = 0
      BY <2>1, <2>2, SumsAt
    <3> QED
      BY <2>2, <3>1
  <2>3. CASE s # {}
    <3> DEFINE u == s \ {FirstOf(s)}
    <3>1. u \in SUBSET s /\ u \in SUBSET T /\ u # T
      BY <2>3
    <3>2. Sums(G(u), f, u) /\ IsFiniteSet(u)
      BY <1>4, <3>1
    <3>3. \A r \in SUBSET (s \cap u) : G(s)[r] = G(u)[r]
      <4> HIDE DEF G, u
      <4> QED BY <2>1, <3>2, SumsAgree
    <3>4. G(s)[u] = G(u)[u]
      BY <3>1, <3>3
    <3>5. G(s)[s] = f[FirstOf(s)] + G(s)[u]
      <4>1. s \in SUBSET s
        OBVIOUS
      <4> HIDE DEF G
      <4> QED BY <2>1, <2>3, <4>1, SumsAt
    <3> HIDE DEF G
    <3> QED
      BY <2>3, <3>4, <3>5
  <2> QED
    BY <2>2, <2>3
<1>6. \A s \in SUBSET T : g[s] = IF s = {} THEN 0 ELSE f[FirstOf(s)] + g[s \ {FirstOf(s)}]
  <2> SUFFICES ASSUME NEW s \in SUBSET T
               PROVE  g[s] = IF s = {} THEN 0 ELSE f[FirstOf(s)] + g[s \ {FirstOf(s)}]
    BY Zenon
  <2>0. CASE s = {}
    BY <2>0
  <2> SUFFICES ASSUME s # {} PROVE g[s] = f[FirstOf(s)] + g[s \ {FirstOf(s)}]
    BY <2>0
  <2> DEFINE u == s \ {FirstOf(s)}
  <2>1. u \in SUBSET T /\ u # T
    BY FirstOfIsIn
  <2>2. g[u] = G(u)[u]
    BY <1>5, <2>1
  <2> HIDE DEF G
  <2> QED
    BY <2>2
<1>7. Sums(g, f, T)
  <2> HIDE DEF Part, G
  <2> QED
    BY <1>6 DEF Sums
<1> QED
  BY <1>3, <1>7
------------------------------------------------------------------------------
\* The sum over a subset is what any computation over a larger set says.
LEMMA SumIsComputed ==
  ASSUME NEW f, NEW S, IsFiniteSet(S), NEW g, Sums(g, f, S), NEW T \in SUBSET S
  PROVE  SumFunctionOnSet(f, T) = g[T]
<1> DEFINE h == CHOOSE k : Sums(k, f, T)
<1>1. IsFiniteSet(T)
  BY FS_Subset
<1>2. Sums(h, f, T)
  BY <1>1, SumsExist, Zenon
<1>3. \A k : Sums(k, f, T) => \A s \in SUBSET (S \cap T) : g[s] = k[s]
  BY <1>1, SumsAgree
<1>4. h[T] = g[T]
  <2> HIDE DEF h
  <2> QED BY <1>2, <1>3
<1>5. SumFunctionOnSet(f, T) = h[T]
  BY SumUnfolded DEF h
<1> QED
  BY <1>4, <1>5

LEMMA SumOfNothing ==
  ASSUME NEW f
  PROVE  SumFunctionOnSet(f, {}) = 0
<1>1. IsFiniteSet({})
  BY FS_EmptySet
<1>2. PICK g : Sums(g, f, {})
  BY <1>1, SumsExist
<1>3. SumFunctionOnSet(f, {}) = g[{}]
  BY <1>1, <1>2, SumIsComputed
<1> QED
  BY <1>2, <1>3, SumsAt

LEMMA SumTakesFirst ==
  ASSUME NEW f, NEW S, IsFiniteSet(S), S # {}
  PROVE  SumFunctionOnSet(f, S) = f[FirstOf(S)] + SumFunctionOnSet(f, S \ {FirstOf(S)})
<1>1. PICK g : Sums(g, f, S)
  BY SumsExist
<1>2. \A T \in SUBSET S : SumFunctionOnSet(f, T) = g[T]
  BY <1>1, SumIsComputed
<1>3. g[S] = f[FirstOf(S)] + g[S \ {FirstOf(S)}]
  BY <1>1, SumsAt
<1>4. S \in SUBSET S /\ S \ {FirstOf(S)} \in SUBSET S
  OBVIOUS
<1> QED
  BY <1>2, <1>3, <1>4

\* Sums of natural numbers are natural numbers.
LEMMA SumType ==
  ASSUME NEW f, NEW S, IsFiniteSet(S), \A x \in S : f[x] \in Nat
  PROVE  SumFunctionOnSet(f, S) \in Nat
<1> DEFINE C == {T \in SUBSET S : SumFunctionOnSet(f, T) \notin Nat}
<1> SUFFICES ASSUME C # {} PROVE FALSE
  OBVIOUS
<1>1. C \in SUBSET (SUBSET S)
  OBVIOUS
<1>2. PICK T \in C : \A U \in C : U \subseteq T => U = T
  <2> HIDE DEF C
  <2> QED BY <1>1, SmallestSet
<1>3. IsFiniteSet(T) /\ T # {}
  <2>1. T # {}
    BY SumOfNothing
  <2> QED
    BY <2>1, FS_Subset
<1>4. FirstOf(T) \in T
  BY <1>3, FirstOfIsIn
<1>5. T \ {FirstOf(T)} \notin C
  BY <1>2, <1>4
<1>6. SumFunctionOnSet(f, T \ {FirstOf(T)}) \in Nat
  BY <1>5
<1> QED
  BY <1>3, <1>4, <1>6, SumTakesFirst

\* Only what f is on the set counts.
LEMMA SumSame ==
  ASSUME NEW f, NEW g, NEW S, IsFiniteSet(S), \A x \in S : f[x] = g[x]
  PROVE  SumFunctionOnSet(f, S) = SumFunctionOnSet(g, S)
<1> DEFINE C == {T \in SUBSET S : SumFunctionOnSet(f, T) # SumFunctionOnSet(g, T)}
<1> SUFFICES ASSUME C # {} PROVE FALSE
  OBVIOUS
<1>1. C \in SUBSET (SUBSET S)
  OBVIOUS
<1>2. PICK T \in C : \A U \in C : U \subseteq T => U = T
  <2> HIDE DEF C
  <2> QED BY <1>1, SmallestSet
<1>3. IsFiniteSet(T) /\ T # {}
  BY FS_Subset, SumOfNothing
<1>4. FirstOf(T) \in T
  BY <1>3, FirstOfIsIn
<1>5. T \ {FirstOf(T)} \notin C
  BY <1>2, <1>4
<1>6. SumFunctionOnSet(f, T \ {FirstOf(T)}) = SumFunctionOnSet(g, T \ {FirstOf(T)})
  BY <1>5
<1> QED
  BY <1>3, <1>4, <1>6, SumTakesFirst

\* Any element may be taken out: the order of the fold does not matter.
LEMMA SumTakesOut ==
  ASSUME NEW f, NEW S, IsFiniteSet(S), \A x \in S : f[x] \in Nat, NEW x \in S
  PROVE  SumFunctionOnSet(f, S) = f[x] + SumFunctionOnSet(f, S \ {x})
<1> DEFINE Rest(T, y) == SumFunctionOnSet(f, T \ {y})
           C == {T \in SUBSET S : \E y \in T : SumFunctionOnSet(f, T) # f[y] + Rest(T, y)}
<1> SUFFICES ASSUME C # {} PROVE FALSE
  OBVIOUS
<1>1. C \in SUBSET (SUBSET S)
  OBVIOUS
<1>2. PICK T \in C : \A U \in C : U \subseteq T => U = T
  <2> HIDE DEF C
  <2> QED BY <1>1, SmallestSet
<1>3. PICK y \in T : SumFunctionOnSet(f, T) # f[y] + Rest(T, y)
  OBVIOUS
<1> DEFINE p == FirstOf(T)
<1>4. T \in SUBSET S /\ IsFiniteSet(T) /\ p \in T
  BY <1>3, FS_Subset, FirstOfIsIn
<1>5. SumFunctionOnSet(f, T) = f[p] + Rest(T, p)
  BY <1>3, <1>4, SumTakesFirst
<1>6. y # p
  BY <1>3, <1>5
<1>7. T \ {p} \notin C /\ T \ {y} \notin C
  BY <1>2, <1>3, <1>4
<1>8. SumFunctionOnSet(f, T \ {p}) = f[y] + Rest(T \ {p}, y)
  BY <1>3, <1>4, <1>6, <1>7
<1>9. SumFunctionOnSet(f, T \ {y}) = f[p] + Rest(T \ {y}, p)
  BY <1>3, <1>4, <1>6, <1>7
<1>10. Rest(T \ {p}, y) = Rest(T \ {y}, p)
  <2>1. (T \ {p}) \ {y} = (T \ {y}) \ {p}
    OBVIOUS
  <2> QED
    BY <2>1
<1>11. Rest(T \ {y}, p) \in Nat /\ f[p] \in Nat /\ f[y] \in Nat
  <2>1. (T \ {y}) \ {p} \in SUBSET S
    BY <1>4
  <2>2. IsFiniteSet((T \ {y}) \ {p})
    BY <2>1, FS_Subset
  <2>3. Rest(T \ {y}, p) \in Nat
    BY <2>1, <2>2, SumType
  <2> QED
    BY <1>3, <1>4, <2>3
<1>12. Rest(T, p) = SumFunctionOnSet(f, T \ {p}) /\ Rest(T, y) = SumFunctionOnSet(f, T \ {y})
  OBVIOUS
<1> HIDE DEF Rest, C, p
<1> QED
  BY <1>3, <1>5, <1>8, <1>9, <1>10, <1>11, <1>12

\* A sum splits into the sums over a part and over the rest.
LEMMA SumSplits ==
  ASSUME NEW f, NEW S, IsFiniteSet(S), \A x \in S : f[x] \in Nat, NEW P \in SUBSET S
  PROVE  SumFunctionOnSet(f, S) = SumFunctionOnSet(f, P) + SumFunctionOnSet(f, S \ P)
<1> DEFINE Sum(T) == SumFunctionOnSet(f, T)
           C == {T \in SUBSET P : Sum(S) # Sum(T) + Sum(S \ T)}
<1>0. \A T \in SUBSET S : IsFiniteSet(T) /\ Sum(T) \in Nat
  BY FS_Subset, SumType
<1> SUFFICES ASSUME C # {} PROVE FALSE
  OBVIOUS
<1>1. C \in SUBSET (SUBSET S)
  OBVIOUS
<1>2. PICK T \in C : \A U \in C : U \subseteq T => U = T
  <2> HIDE DEF C
  <2> QED BY <1>1, SmallestSet
<1>3. T # {}
  <2>1. S \ {} = S
    OBVIOUS
  <2>2. Sum({}) = 0 /\ Sum(S) \in Nat
    BY <1>0, SumOfNothing
  <2>3. Sum(S) = Sum({}) + Sum(S \ {})
    BY <2>1, <2>2
  <2>4. Sum(S) # Sum(T) + Sum(S \ T)
    OBVIOUS
  <2> HIDE DEF Sum
  <2> QED
    BY <2>3, <2>4
<1> DEFINE p == FirstOf(T)
<1>4. p \in T /\ T \in SUBSET S /\ p \in S
  BY <1>3, FirstOfIsIn
<1> DEFINE U == T \ {p}
<1>5. U \notin C /\ U \in SUBSET P
  BY <1>2, <1>4
<1>6. Sum(S) = Sum(U) + Sum(S \ U)
  BY <1>5
<1>7. Sum(T) = f[p] + Sum(U)
  BY <1>0, <1>4, SumTakesOut
<1>8. Sum(S \ U) = f[p] + Sum(S \ T)
  <2>1. p \in S \ U /\ (S \ U) \ {p} = S \ T
    BY <1>4
  <2>2. IsFiniteSet(S \ U) /\ \A x \in S \ U : f[x] \in Nat
    BY <1>0
  <2>3. Sum(S \ U) = f[p] + Sum((S \ U) \ {p})
    BY <2>1, <2>2, SumTakesOut
  <2> QED
    BY <2>1, <2>3
<1>9. Sum(U) \in Nat /\ Sum(S \ T) \in Nat /\ f[p] \in Nat
  BY <1>0, <1>4
<1>10. Sum(S) # Sum(T) + Sum(S \ T)
  OBVIOUS
<1> HIDE DEF Sum, C, U, p
<1> QED
  BY <1>6, <1>7, <1>8, <1>9, <1>10

LEMMA SumOfPart ==
  ASSUME NEW f, NEW S, IsFiniteSet(S), \A x \in S : f[x] \in Nat, NEW P \in SUBSET S
  PROVE  /\ SumFunctionOnSet(f, P) \in Nat
         /\ SumFunctionOnSet(f, S) \in Nat
         /\ SumFunctionOnSet(f, P) <= SumFunctionOnSet(f, S)
<1>1. IsFiniteSet(P) /\ IsFiniteSet(S \ P)
  BY FS_Subset
<1>2. /\ SumFunctionOnSet(f, P) \in Nat
      /\ SumFunctionOnSet(f, S \ P) \in Nat
      /\ SumFunctionOnSet(f, S) \in Nat
  BY <1>1, SumType
<1> QED
  BY <1>2, SumSplits

\* One more element adds its value.
LEMMA SumAdds ==
  ASSUME NEW f, NEW g, NEW S, IsFiniteSet(S), NEW x, x \notin S,
         \A y \in S : g[y] \in Nat /\ f[y] = g[y], g[x] \in Nat
  PROVE  SumFunctionOnSet(g, S \cup {x}) = SumFunctionOnSet(f, S) + g[x]
<1>1. IsFiniteSet(S \cup {x}) /\ (S \cup {x}) \ {x} = S
  BY FS_AddElement
<1>2. \A y \in S \cup {x} : g[y] \in Nat
  OBVIOUS
<1>3. SumFunctionOnSet(g, S \cup {x}) = g[x] + SumFunctionOnSet(g, S)
  BY <1>1, <1>2, SumTakesOut
<1>4. SumFunctionOnSet(f, S) = SumFunctionOnSet(g, S) /\ SumFunctionOnSet(g, S) \in Nat
  BY SumSame, SumType
<1> QED
  BY <1>3, <1>4

\* A sum of numbers none of which exceeds m.
LEMMA SumIsBounded ==
  ASSUME NEW f, NEW S, IsFiniteSet(S), NEW m \in Nat, \A x \in S : f[x] \in 0..m
  PROVE  /\ SumFunctionOnSet(f, S) \in Nat
         /\ SumFunctionOnSet(f, S) <= Cardinality(S) * m
<1> DEFINE Sum(T) == SumFunctionOnSet(f, T)
           C == {T \in SUBSET S : ~ (Sum(T) <= Cardinality(T) * m)}
<1>0. \A T \in SUBSET S : IsFiniteSet(T) /\ Sum(T) \in Nat /\ Cardinality(T) \in Nat
  BY FS_Subset, SumType, FS_CardinalityType
<1> SUFFICES ASSUME C # {} PROVE FALSE
  BY <1>0
<1>1. C \in SUBSET (SUBSET S)
  OBVIOUS
<1>2. PICK T \in C : \A U \in C : U \subseteq T => U = T
  <2> HIDE DEF C
  <2> QED BY <1>1, SmallestSet
<1>3. T # {}
  BY SumOfNothing, FS_EmptySet
<1>4. PICK x : x \in T
  BY <1>3
<1>5. T \ {x} \in SUBSET S /\ T \ {x} \notin C
  BY <1>1, <1>2, <1>4
<1>6. Sum(T) = f[x] + Sum(T \ {x})
  BY <1>0, <1>4, SumTakesOut
<1>7. Cardinality(T \ {x}) = Cardinality(T) - 1
  BY <1>0, <1>4, FS_RemoveElement
<1>8. Sum(T \ {x}) <= (Cardinality(T) - 1) * m
  BY <1>5, <1>7
<1>9. (Cardinality(T) - 1) * m = Cardinality(T) * m - m
  BY <1>0
<1>10. Cardinality(T) * m \in Int
  BY <1>0
<1> HIDE DEF Sum
<1>11. Sum(T) <= Cardinality(T) * m
  <2> DEFINE k == Cardinality(T) * m
             l == (Cardinality(T) - 1) * m
  <2>1. f[x] \in 0..m /\ Sum(T \ {x}) \in Nat /\ l = k - m /\ k \in Int /\ Sum(T \ {x}) <= l
    BY <1>0, <1>4, <1>5, <1>8, <1>9, <1>10
  <2> HIDE DEF k, l
  <2>2. f[x] + Sum(T \ {x}) <= k
    BY <2>1
  <2> QED BY <1>6, <2>2 DEF k
<1> QED BY <1>2, <1>11

\* A non-empty finite set of numbers has a largest one.
LEMMA LargestNumber ==
  ASSUME NEW S, IsFiniteSet(S)
  PROVE  S \subseteq Nat /\ S # {} => \E m \in S : \A x \in S : m >= x
<1> DEFINE Topped(T) == T = {} \/ \E m \in T : \A x \in T : m >= x
           C == {T \in SUBSET S : ~ Topped(T)}
<1>0. C \in SUBSET (SUBSET S)
  OBVIOUS
<1>1. C # {} => \E T \in C : \A U \in C : U \subseteq T => U = T
  <2> HIDE DEF C
  <2> QED BY <1>0, SmallestSet
<1> SUFFICES ASSUME S \subseteq Nat, C # {} PROVE FALSE
  OBVIOUS
<1>2. PICK T \in C : \A U \in C : U \subseteq T => U = T
  BY <1>1
<1>3. PICK x : x \in T
  OBVIOUS
<1>4. T \ {x} \in SUBSET S /\ T \ {x} \notin C
  BY <1>1, <1>2, <1>3
<1>5. Topped(T \ {x}) /\ ~ Topped(T) /\ T \in SUBSET S
  BY <1>2, <1>4
<1> QED BY <1>3, <1>5
------------------------------------------------------------------------------
\* A non-empty set of numbers has a smallest one, which Min returns, and a
\* finite one a largest, which Max returns.
LEMMA LeastNumber ==
  ASSUME NEW n \in Nat, NEW I
  PROVE  I \subseteq 0..n /\ I # {} => \E m \in I : \A k \in I : m <= k
<1> DEFINE D == 0..n
           C == {T \in SUBSET D : \E m \in I : T = 0..m}
<1>0. C \in SUBSET (SUBSET D) /\ IsFiniteSet(D)
  BY FS_Interval
<1>1. C # {} => \E T \in C : \A U \in C : U \subseteq T => U = T
  <2> HIDE DEF C, D
  <2> QED BY <1>0, SmallestSet
<1> SUFFICES ASSUME I \subseteq 0..n, I # {} PROVE \E m \in I : \A k \in I : m <= k
  OBVIOUS
<1>2. \A k \in I : 0..k \in C
  OBVIOUS
<1>3. PICK T \in C : \A U \in C : U \subseteq T => U = T
  BY <1>1, <1>2
<1>4. PICK m \in I : T = 0..m
  OBVIOUS
<1>5. ASSUME NEW k \in I, k < m PROVE FALSE
  <2>1. 0..k \in C /\ 0..k \subseteq T /\ m \in T /\ m \notin 0..k
    BY <1>2, <1>4, <1>5
  <2> QED
    BY <1>3, <2>1
<1> QED
  BY <1>5

LEMMA MinIsLeast ==
  ASSUME NEW I \in SUBSET Nat, I # {}
  PROVE  Min(I) \in I /\ \A i \in I : Min(I) <= i
<1>1. PICK n \in I : TRUE
  OBVIOUS
<1>2. {k \in I : k <= n} \subseteq 0..n /\ {k \in I : k <= n} # {}
  <2>1. n \in Nat /\ n \in {k \in I : k <= n}
    BY <1>1
  <2>2. \A k \in {j \in I : j <= n} : k \in 0..n
    BY <2>1
  <2> QED BY <2>1, <2>2
<1>3. \E m \in {k \in I : k <= n} : \A k \in {k \in I : k <= n} : m <= k
  BY <1>1, <1>2, LeastNumber
<1>4. \E m \in I : \A k \in I : m <= k
  BY <1>1, <1>3
<1> QED
  BY <1>4 DEF Min

LEMMA MaxIsLargest ==
  ASSUME NEW I \in SUBSET Nat, I # {}, IsFiniteSet(I)
  PROVE  Max(I) \in I /\ \A i \in I : Max(I) >= i
<1>1. \E m \in I : \A i \in I : m >= i
  BY LargestNumber
<1> QED
  BY <1>1 DEF Max
==============================================================================
