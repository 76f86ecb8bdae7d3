---------------------------- MODULE TotalsProofs ----------------------------
(***************************************************************************)
(* What the totals of Totals.tla do, for every amount and every finite set.*)
(*                                                                         *)
(* The recursion that MapThenSumSet stands for is unfolded and shown to    *)
(* have a value by induction.  Induction is stated about sets and not      *)
(* about predicates, and comes from the well-foundedness of the naturals   *)
(* and of the finite subsets of a set.                                     *)
(***************************************************************************)
EXTENDS Totals, FiniteSetTheorems, WellFoundedInduction, TLAPS

-----------------------------------------------------------------------------
(* Induction                                                               *)

\* A family of subsets of a finite set that the empty set is in, and that is
\* closed under adding an element, is that of all of them.
LEMMA SubsetInduction ==
  ASSUME NEW S, IsFiniteSet(S), NEW P, {} \in P,
         \A T \in SUBSET S, x \in S : T \in P => T \cup {x} \in P
  PROVE  SUBSET S \subseteq P
<1> DEFINE Bad == (SUBSET S) \ P
<1> SUFFICES ASSUME Bad # {} PROVE FALSE
  OBVIOUS
<1>1. IsWellFoundedOn(StrictSubsetOrdering(S), SUBSET S)
  BY FS_StrictSubsetOrderingWellFounded, FS_FiniteSubsetsOfFinite
<1>2. PICK T \in Bad : \A U \in Bad : ~ (<<U, T>> \in StrictSubsetOrdering(S))
  <2> HIDE DEF Bad
  <2>1. Bad \subseteq SUBSET S
    BY DEF Bad
  <2> QED
    BY <1>1, <2>1, WFMin
<1>3. PICK x \in T : TRUE
  OBVIOUS
<1>4. T \ {x} \in P
  <2>1. <<T \ {x}, T>> \in StrictSubsetOrdering(S)
    BY <1>2, <1>3 DEF StrictSubsetOrdering
  <2>2. T \ {x} \in SUBSET S
    BY <1>2
  <2> QED
    BY <2>1, <2>2, <1>2
<1>5. (T \ {x}) \cup {x} = T
  BY <1>3
<1> QED
  BY <1>2, <1>3, <1>4, <1>5

\* A set of naturals has a least element.
LEMMA LeastNatural ==
  ASSUME NEW S \in SUBSET Nat, S # {}
  PROVE  \E n \in S : \A m \in S : n <= m
<1>1. PICK n \in S : \A m \in S : ~ (<<m, n>> \in OpToRel(<, Nat))
  BY NatLessThanWellFounded, WFMin
<1>2. ASSUME NEW m \in S PROVE n <= m
  <2>1. <<m, n>> \in Nat \X Nat /\ ~(<<m, n>> \in OpToRel(<, Nat))
    BY <1>1
  <2>2. ~(m < n)
    BY <2>1 DEF OpToRel
  <2> QED
    BY <2>2
<1> QED
  BY <1>2

\* A set that 0 is in, and the successor of each natural number in it, has all.
LEMMA NatSetInduction ==
  ASSUME NEW P, 0 \in P, \A n \in Nat : n \in P => n + 1 \in P
  PROVE  Nat \subseteq P
<1> DEFINE Bad == Nat \ P
<1> SUFFICES ASSUME Bad # {} PROVE FALSE
  OBVIOUS
<1>1. PICK n \in Bad : \A m \in Bad : n <= m
  <2>1. Bad \subseteq Nat
    OBVIOUS
  <2> HIDE DEF Bad
  <2> QED
    BY <2>1, LeastNatural
<1>2. \A m \in Bad : ~(m < n)
  BY <1>1
<1> QED
  <2>1. n # 0
    OBVIOUS
  <2>2. n - 1 \in Nat /\ n - 1 < n
    BY <2>1
  <2>3. n - 1 \in P
    BY <2>2, <1>2
  <2>4. (n - 1) + 1 = n
    OBVIOUS
  <2> QED
    BY <2>2, <2>3, <2>4

-----------------------------------------------------------------------------
(* Totals                                                                  *)

\* What MapThenSumSet unfolds to: at each set, an element and the rest.
Picked(s) == CHOOSE x \in s : TRUE
Unfolding(f, s, g) == IF s = {} THEN 0 ELSE f[Picked(s)] + g[s \ {Picked(s)}]
IsIteration(f, D, g) == g = [s \in D |-> Unfolding(f, s, g)]

LEMMA TotalUnfolds ==
  ASSUME NEW f, NEW S
  PROVE  TotalOf(f, S) = (CHOOSE g : IsIteration(f, SUBSET S, g))[S]
BY DEF TotalOf, MapThenSumSet, MapThenFoldSet, IsIteration, Unfolding, Picked

NoLarger(S, n) == {s \in SUBSET S : Cardinality(s) <= n}

LEMMA IterationExists ==
  ASSUME NEW f, NEW S, IsFiniteSet(S)
  PROVE  \E g : IsIteration(f, SUBSET S, g)
<1> DEFINE P == {n \in Nat : \E g : IsIteration(f, NoLarger(S, n), g)}
<1>0. \A s \in SUBSET S : IsFiniteSet(s) /\ Cardinality(s) \in Nat /\ Cardinality(s) <= Cardinality(S)
  BY FS_Subset, FS_CardinalityType
<1>e. \A s \in SUBSET S : s # {} => /\ Picked(s) \in s
                                    /\ Cardinality(s \ {Picked(s)}) = Cardinality(s) - 1
  BY <1>0, FS_RemoveElement DEF Picked
<1>z. \A s \in SUBSET S : Cardinality(s) = 0 <=> s = {}
  BY <1>0, FS_EmptySet
<1>1. 0 \in P
  <2> DEFINE g == [s \in NoLarger(S, 0) |-> 0]
  <2>1. \A s \in NoLarger(S, 0) : s = {}
    BY <1>0, <1>z DEF NoLarger
  <2>2. g = [s \in NoLarger(S, 0) |-> Unfolding(f, s, g)]
    BY <2>1 DEF Unfolding
  <2> QED
    BY <2>2 DEF IsIteration
<1>2. ASSUME NEW n \in Nat, n \in P PROVE n + 1 \in P
  <2>1. PICK g : IsIteration(f, NoLarger(S, n), g)
    BY <1>2
  <2> DEFINE h == [s \in NoLarger(S, n + 1) |-> Unfolding(f, s, g)]
  <2>2. ASSUME NEW s \in NoLarger(S, n + 1) PROVE Unfolding(f, s, h) = Unfolding(f, s, g)
    <3>1. CASE s = {}
      BY <3>1 DEF Unfolding
    <3>2. CASE s # {}
      <4> DEFINE u == s \ {Picked(s)}
      <4>1. u \in NoLarger(S, n) /\ u \in NoLarger(S, n + 1)
        BY <3>2, <1>e, <1>0 DEF NoLarger
      <4>2. h[u] = Unfolding(f, u, g)
        BY <4>1
      <4>3. g[u] = Unfolding(f, u, g)
        BY <4>1, <2>1 DEF IsIteration
      <4> QED
        BY <3>2, <4>2, <4>3 DEF Unfolding
    <3> QED
      BY <3>1, <3>2
  <2>3. h = [s \in NoLarger(S, n + 1) |-> Unfolding(f, s, h)]
    BY <2>2
  <2>4. IsIteration(f, NoLarger(S, n + 1), h)
    BY <2>3 DEF IsIteration
  <2> QED
    BY <2>4
<1>3. Cardinality(S) \in P
  <2> HIDE DEF P
  <2> QED BY <1>1, <1>2, NatSetInduction, FS_CardinalityType
<1>4. NoLarger(S, Cardinality(S)) = SUBSET S
  BY <1>0 DEF NoLarger
<1> QED
  BY <1>3, <1>4

\* Finite sets get smaller an element at a time.
LEMMA OneSmaller ==
  ASSUME NEW S, IsFiniteSet(S), NEW s \in SUBSET S, NEW x \in s
  PROVE  /\ IsFiniteSet(s) /\ Cardinality(s) \in Nat
         /\ Cardinality(s \ {x}) = Cardinality(s) - 1
         /\ Cardinality(s) > 0
<1>1. IsFiniteSet(s) /\ Cardinality(s) \in Nat
  BY FS_Subset, FS_CardinalityType
<1>2. Cardinality(s) # 0
  BY <1>1, FS_EmptySet
<1>3. Cardinality(s \ {x}) = Cardinality(s) - 1
  BY <1>1, FS_RemoveElement
<1> QED
  BY <1>1, <1>2, <1>3

\* The value of the recursion at a set does not depend on the set it began with.
LEMMA IterationIsTotal ==
  ASSUME NEW f, NEW S, IsFiniteSet(S), NEW B \in SUBSET S, NEW g, IsIteration(f, SUBSET S, g)
  PROVE  TotalOf(f, B) = g[B]
<1> DEFINE h == CHOOSE h : IsIteration(f, SUBSET B, h)
           P == {n \in Nat : \A s \in NoLarger(B, n) : g[s] = h[s]}
<1>0. IsFiniteSet(B)
  BY FS_Subset
<1>1. IsIteration(f, SUBSET B, h)
  BY <1>0, IterationExists
<1>2. TotalOf(f, B) = h[B]
  BY TotalUnfolds
<1> HIDE DEF h
<1>z. \A s \in SUBSET B : IsFiniteSet(s) /\ Cardinality(s) \in Nat /\ (Cardinality(s) = 0 <=> s = {})
  BY <1>0, FS_Subset, FS_CardinalityType, FS_EmptySet
<1>3. 0 \in P
  <2>1. \A s \in NoLarger(B, 0) : s = {}
    BY <1>z DEF NoLarger
  <2> QED
    BY <2>1, <1>1 DEF IsIteration, Unfolding
<1>4. ASSUME NEW n \in Nat, n \in P PROVE n + 1 \in P
  <2> SUFFICES ASSUME NEW s \in NoLarger(B, n + 1) PROVE g[s] = h[s]
    OBVIOUS
  <2>1. s \in SUBSET B /\ s \in SUBSET S /\ Cardinality(s) <= n + 1
    BY DEF NoLarger
  <2>2. g[s] = Unfolding(f, s, g) /\ h[s] = Unfolding(f, s, h)
    BY <2>1, <1>1 DEF IsIteration
  <2>3. CASE s = {}
    BY <2>2, <2>3 DEF Unfolding
  <2>4. CASE s # {}
    <3>1. Picked(s) \in s
      BY <2>4 DEF Picked
    <3>2. s \ {Picked(s)} \in NoLarger(B, n)
      BY <3>1, <2>1, <1>0, OneSmaller DEF NoLarger
    <3>3. g[s \ {Picked(s)}] = h[s \ {Picked(s)}]
      BY <3>2, <1>4
    <3> QED
      BY <2>2, <3>3 DEF Unfolding
  <2> QED
    BY <2>3, <2>4
<1>5. Cardinality(B) \in P
  <2> HIDE DEF P
  <2> QED BY <1>3, <1>4, NatSetInduction, <1>0, FS_CardinalityType
<1>6. B \in NoLarger(B, Cardinality(B))
  BY <1>z DEF NoLarger
<1> QED
  BY <1>2, <1>5, <1>6

LEMMA TotalRecursive ==
  ASSUME NEW f, NEW S, IsFiniteSet(S)
  PROVE  TotalOf(f, S) = IF S = {} THEN 0
                         ELSE f[Picked(S)] + TotalOf(f, S \ {Picked(S)})
<1>1. PICK g : IsIteration(f, SUBSET S, g)
  BY IterationExists
<1>2. \A B \in SUBSET S : TotalOf(f, B) = g[B]
  BY <1>1, IterationIsTotal
<1>3. g[S] = Unfolding(f, S, g)
  BY <1>1 DEF IsIteration
<1> QED
  BY <1>2, <1>3 DEF Unfolding

THEOREM TotalEmpty ==
  ASSUME NEW f
  PROVE  TotalOf(f, {}) = 0
BY TotalRecursive, FS_EmptySet

\* Totals of integers are integers, and any element may be taken out.
LEMMA TotalTaken ==
  ASSUME NEW S, IsFiniteSet(S), NEW f, \A x \in S : f[x] \in Int
  PROVE  /\ TotalOf(f, S) \in Int
         /\ \A x \in S : TotalOf(f, S) = f[x] + TotalOf(f, S \ {x})
<1> DEFINE Good(s) == /\ TotalOf(f, s) \in Int
                      /\ \A x \in s : TotalOf(f, s) = f[x] + TotalOf(f, s \ {x})
           P == {n \in Nat : \A s \in NoLarger(S, n) : Good(s)}
<1>z. \A s \in SUBSET S : IsFiniteSet(s) /\ Cardinality(s) \in Nat /\ (Cardinality(s) = 0 <=> s = {})
  BY FS_Subset, FS_CardinalityType, FS_EmptySet
<1>1. 0 \in P
  <2>1. \A s \in NoLarger(S, 0) : s = {}
    BY <1>z DEF NoLarger
  <2>2. TotalOf(f, {}) = 0
    BY TotalEmpty
  <2>3. Good({})
    BY <2>2
  <2> HIDE DEF Good
  <2> QED
    BY <2>1, <2>3
<1>2. ASSUME NEW n \in Nat, n \in P PROVE n + 1 \in P
  <2>0. \A s \in NoLarger(S, n) : Good(s)
    BY <1>2
  <2> HIDE DEF Good
  <2> SUFFICES ASSUME NEW s \in NoLarger(S, n + 1) PROVE Good(s)
    OBVIOUS
  <2>1. s \in SUBSET S /\ Cardinality(s) <= n + 1
    BY DEF NoLarger
  <2>2. CASE s = {}
    BY <2>2, TotalEmpty DEF Good
  <2>3. CASE s # {}
    <3> DEFINE c == Picked(s)
    <3>1. c \in s
      BY <2>3 DEF Picked
    <3>2. \A x \in s : s \ {x} \in NoLarger(S, n)
      BY <2>1, OneSmaller DEF NoLarger
    <3>3. TotalOf(f, s) = f[c] + TotalOf(f, s \ {c})
      BY <1>z, <2>1, <2>3, TotalRecursive
    <3> HIDE DEF c
    <3>4. \A x \in s : TotalOf(f, s \ {x}) \in Int /\ f[x] \in Int
      BY <3>2, <2>0, <2>1 DEF Good
    <3>5. ASSUME NEW x \in s PROVE TotalOf(f, s) = f[x] + TotalOf(f, s \ {x})
      <4>1. CASE x = c
        BY <4>1, <3>3
      <4>2. CASE x # c
        <5> DEFINE u == (s \ {c}) \ {x}
        <5>1. TotalOf(f, s \ {c}) = f[x] + TotalOf(f, u)
          BY <4>2, <3>1, <3>2, <2>0 DEF Good
        <5>2. u = (s \ {x}) \ {c}
          OBVIOUS
        <5>3. TotalOf(f, s \ {x}) = f[c] + TotalOf(f, u)
          BY <4>2, <5>2, <3>1, <3>2, <2>0 DEF Good
        <5>4. TotalOf(f, u) \in Int
          <6>1. u \in NoLarger(S, n)
            <7>1. IsFiniteSet(s \ {c}) /\ Cardinality(s \ {c}) \in Nat /\ x \in s \ {c}
              BY <1>z, <2>1, <4>2
            <7>2. Cardinality(u) = Cardinality(s \ {c}) - 1
              BY <7>1, FS_RemoveElement
            <7> QED
              BY <7>1, <7>2, <3>1, <3>2 DEF NoLarger
          <6> QED
            BY <6>1, <2>0 DEF Good
        <5> HIDE DEF u
        <5> QED
          BY <3>1, <3>3, <3>4, <5>1, <5>3, <5>4
      <4> QED
        BY <4>1, <4>2
    <3> QED
      BY <3>1, <3>3, <3>4, <3>5 DEF Good
  <2> QED
    BY <2>2, <2>3
<1>3. Cardinality(S) \in P
  <2> HIDE DEF P
  <2> QED BY <1>1, <1>2, NatSetInduction, FS_CardinalityType
<1>4. S \in NoLarger(S, Cardinality(S))
  BY <1>z DEF NoLarger
<1> QED
  BY <1>3, <1>4

\* One more element adds its amount.
THEOREM TotalAdd ==
  ASSUME NEW S, IsFiniteSet(S), NEW f, NEW x, x \notin S, \A y \in S \cup {x} : f[y] \in Int
  PROVE  TotalOf(f, S \cup {x}) = f[x] + TotalOf(f, S)
<1>1. IsFiniteSet(S \cup {x}) /\ (S \cup {x}) \ {x} = S
  BY FS_AddElement
<1> QED
  BY <1>1, TotalTaken

\* Only the amounts of the elements count.
THEOREM TotalSame ==
  ASSUME NEW S, IsFiniteSet(S), NEW f, NEW g, \A x \in S : f[x] \in Int /\ g[x] = f[x]
  PROVE  TotalOf(f, S) = TotalOf(g, S)
<1> DEFINE P == {T \in SUBSET S : TotalOf(f, T) = TotalOf(g, T)}
<1>1. {} \in P
  BY TotalEmpty
<1>2. ASSUME NEW T \in SUBSET S, NEW x \in S, T \in P PROVE T \cup {x} \in P
  <2>1. CASE x \in T
    <3>1. T \cup {x} = T
      BY <2>1
    <3> QED
      BY <3>1, <1>2
  <2>2. CASE x \notin T
    <3>1. IsFiniteSet(T)
      BY FS_Subset
    <3>2. \A y \in T \cup {x} : f[y] \in Int /\ g[y] \in Int
      OBVIOUS
    <3>3. /\ TotalOf(f, T \cup {x}) = f[x] + TotalOf(f, T)
          /\ TotalOf(g, T \cup {x}) = g[x] + TotalOf(g, T)
      BY <2>2, <3>1, <3>2, TotalAdd
    <3> QED
      BY <3>3, <1>2
  <2> QED
    BY <2>1, <2>2
<1>3. S \in P
  <2> HIDE DEF P
  <2> QED BY <1>1, <1>2, SubsetInduction
<1> QED
  BY <1>3

\* A total of two parts.
THEOREM TotalUnion ==
  ASSUME NEW S, IsFiniteSet(S), NEW T, IsFiniteSet(T), S \cap T = {},
         NEW f, \A x \in S \cup T : f[x] \in Int
  PROVE  TotalOf(f, S \cup T) = TotalOf(f, S) + TotalOf(f, T)
<1> DEFINE P == {U \in SUBSET T : TotalOf(f, S \cup U) = TotalOf(f, S) + TotalOf(f, U)}
<1>0. TotalOf(f, S) \in Int
  BY TotalTaken
<1>1. {} \in P
  <2>1. S \cup {} = S /\ TotalOf(f, {}) = 0
    BY TotalEmpty
  <2> QED
    BY <2>1, <1>0
<1>2. ASSUME NEW U \in SUBSET T, NEW x \in T, U \in P PROVE U \cup {x} \in P
  <2>1. CASE x \in U
    <3>1. U \cup {x} = U
      BY <2>1
    <3> QED
      BY <3>1, <1>2
  <2>2. CASE x \notin U
    <3>1. IsFiniteSet(U) /\ IsFiniteSet(S \cup U)
      BY FS_Subset, FS_Union
    <3>2. S \cup (U \cup {x}) = (S \cup U) \cup {x} /\ x \notin S \cup U
      BY <2>2
    <3>3. TotalOf(f, U \cup {x}) = f[x] + TotalOf(f, U)
      BY <2>2, <3>1, TotalAdd
    <3>4. TotalOf(f, (S \cup U) \cup {x}) = f[x] + TotalOf(f, S \cup U)
      BY <3>1, <3>2, TotalAdd
    <3>5. TotalOf(f, U) \in Int /\ f[x] \in Int
      BY <3>1, TotalTaken
    <3>6. TotalOf(f, S \cup U) = TotalOf(f, S) + TotalOf(f, U)
      BY <1>2
    <3>7. TotalOf(f, S \cup (U \cup {x})) = TotalOf(f, S) + TotalOf(f, U \cup {x})
      <4>1. TotalOf(f, S \cup (U \cup {x})) = f[x] + TotalOf(f, S \cup U)
        BY ONLY <3>2, <3>4, Zenon
      <4>2. \A a, b, c \in Int : a + (b + c) = b + (a + c)
        OBVIOUS
      <4>3. f[x] + (TotalOf(f, S) + TotalOf(f, U)) = TotalOf(f, S) + (f[x] + TotalOf(f, U))
        BY <4>2, <3>5, <1>0
      <4> QED
        BY ONLY <4>1, <4>3, <3>3, <3>6, Zenon
    <3> QED
      BY <3>7
  <2> QED
    BY <2>1, <2>2
<1>3. SUBSET T \subseteq P
  <2> HIDE DEF P
  <2> QED BY ONLY IsFiniteSet(T), <1>1, <1>2, SubsetInduction
<1> QED
  BY <1>3

\* A total of natural numbers is one.
THEOREM TotalNat ==
  ASSUME NEW S, IsFiniteSet(S), NEW f, \A x \in S : f[x] \in Nat
  PROVE  TotalOf(f, S) \in Nat
<1> DEFINE P == {T \in SUBSET S : TotalOf(f, T) \in Nat}
<1>1. {} \in P
  BY TotalEmpty
<1>2. ASSUME NEW T \in SUBSET S, NEW x \in S, T \in P PROVE T \cup {x} \in P
  <2>1. CASE x \in T
    <3>1. T \cup {x} = T
      BY <2>1
    <3> QED
      BY <3>1, <1>2
  <2>2. CASE x \notin T
    <3>1. IsFiniteSet(T) /\ \A y \in T \cup {x} : f[y] \in Int
      BY FS_Subset
    <3>2. TotalOf(f, T \cup {x}) = f[x] + TotalOf(f, T)
      BY <2>2, <3>1, TotalAdd
    <3>3. f[x] \in Nat /\ TotalOf(f, T) \in Nat
      BY <1>2
    <3> QED
      BY <3>2, <3>3
  <2> QED
    BY <2>1, <2>2
<1>3. S \in P
  <2> HIDE DEF P
  <2> QED BY <1>1, <1>2, SubsetInduction
<1> QED
  BY <1>3

\* Fewer natural numbers make no greater total.
THEOREM TotalSubset ==
  ASSUME NEW S, IsFiniteSet(S), NEW T \in SUBSET S, NEW f, \A x \in S : f[x] \in Nat
  PROVE  TotalOf(f, T) <= TotalOf(f, S)
<1>1. IsFiniteSet(T) /\ IsFiniteSet(S \ T) /\ T \cap (S \ T) = {} /\ T \cup (S \ T) = S
  BY FS_Subset
<1>2. TotalOf(f, S) = TotalOf(f, T) + TotalOf(f, S \ T)
  <2>1. \A x \in T \cup (S \ T) : f[x] \in Int
    OBVIOUS
  <2> QED
    BY <1>1, <2>1, TotalUnion
<1>3. TotalOf(f, T) \in Nat /\ TotalOf(f, S \ T) \in Nat
  BY <1>1, TotalNat
<1> QED
  BY <1>2, <1>3

\* A total does not depend on how its amounts are numbered.
THEOREM TotalMoved ==
  ASSUME NEW T, IsFiniteSet(T), NEW S, NEW g \in Bijection(T, S),
         NEW f, \A x \in S : f[x] \in Int,
         NEW U \in SUBSET T
  PROVE  TotalOf([t \in T |-> f[g[t]]], U) = TotalOf(f, {g[u] : u \in U})
<1> DEFINE h == [t \in T |-> f[g[t]]]
           P == {V \in SUBSET T : TotalOf(h, V) = TotalOf(f, {g[u] : u \in V})}
<1>0. /\ \A t \in T : g[t] \in S
      /\ \A a, b \in T : g[a] = g[b] => a = b
      /\ \A t \in T : h[t] = f[g[t]] /\ h[t] \in Int
  BY DEF Bijection, Injection, IsInjective
<1>1. {} \in P
  <2>1. {g[u] : u \in {}} = {}
    OBVIOUS
  <2> QED
    BY <2>1, TotalEmpty
<1>2. ASSUME NEW V \in SUBSET T, NEW x \in T, V \in P PROVE V \cup {x} \in P
  <2> DEFINE image == {g[u] : u \in V}
  <2>1. CASE x \in V
    <3>1. V \cup {x} = V
      BY <2>1
    <3> QED
      BY <3>1, <1>2
  <2>2. CASE x \notin V
    <3>1. IsFiniteSet(V) /\ IsFiniteSet(image)
      <4>1. IsFiniteSet(V)
        BY FS_Subset
      <4>2. [u \in V |-> g[u]] \in Bijection(V, image)
        BY <1>0 DEF Bijection, Injection, Surjection, IsInjective
      <4> HIDE DEF image
      <4>3. ExistsBijection(V, image)
        BY <4>2 DEF ExistsBijection
      <4> QED
        BY <4>1, <4>3, FS_Bijection
    <3>2. {g[u] : u \in V \cup {x}} = image \cup {g[x]} /\ g[x] \notin image
      BY <1>0, <2>2
    <3>3. image \subseteq S /\ g[x] \in S /\ h[x] = f[g[x]]
      BY <1>0
    <3>4. TotalOf(h, V \cup {x}) = h[x] + TotalOf(h, V)
      <4>1. \A y \in V \cup {x} : h[y] \in Int
        BY <1>0
      <4> HIDE DEF h
      <4> QED
        BY <2>2, <3>1, <4>1, TotalAdd
    <3>5. TotalOf(f, image \cup {g[x]}) = f[g[x]] + TotalOf(f, image)
      <4>1. \A y \in image \cup {g[x]} : f[y] \in Int
        BY <3>3
      <4> HIDE DEF image
      <4> QED
        BY <3>1, <3>2, <4>1, TotalAdd
    <3>6. TotalOf(h, V) = TotalOf(f, image)
      BY <1>2
    <3>7. TotalOf(h, V \cup {x}) = TotalOf(f, {g[u] : u \in V \cup {x}})
      BY ONLY <3>2, <3>3, <3>4, <3>5, <3>6, Zenon
    <3> QED
      BY <3>7
  <2> QED
    BY <2>1, <2>2
<1>3. SUBSET T \subseteq P
  <2> HIDE DEF P
  <2> QED BY ONLY IsFiniteSet(T), <1>1, <1>2, SubsetInduction
<1> QED
  BY <1>3

-----------------------------------------------------------------------------
(* Numbering                                                               *)

\* The k-th of a set of numbers.
Nth(K, k) == CHOOSE i \in K : Cardinality({j \in K : j <= i}) = k

\* Counting a set of numbers from below numbers it.
THEOREM Numbering ==
  ASSUME NEW n \in Nat, NEW K \in SUBSET (1 .. n)
  PROVE  /\ IsFiniteSet(K) /\ Cardinality(K) \in Nat
         /\ [k \in 1 .. Cardinality(K) |-> Nth(K, k)] \in Bijection(1 .. Cardinality(K), K)
<1> DEFINE UpTo(i) == {j \in K : j <= i}
           Rank == [i \in K |-> Cardinality(UpTo(i))]
           N == Cardinality(K)
<1>1. IsFiniteSet(K) /\ N \in Nat
  <2>1. IsFiniteSet(1 .. n)
    BY FS_Interval
  <2>2. IsFiniteSet(K)
    BY <2>1, FS_Subset
  <2> QED
    BY <2>2, FS_CardinalityType
<1>2. \A i \in K : /\ IsFiniteSet(UpTo(i)) /\ UpTo(i) \in SUBSET K /\ i \in UpTo(i)
                   /\ Rank[i] = Cardinality(UpTo(i))
  BY <1>1, FS_Subset
<1>3. ASSUME NEW i \in K PROVE Rank[i] \in 1 .. N
  <2>1. IsFiniteSet(UpTo(i)) /\ UpTo(i) \in SUBSET K /\ i \in UpTo(i) /\ Rank[i] = Cardinality(UpTo(i))
    BY <1>2
  <2> HIDE DEF UpTo, Rank
  <2>2. Cardinality(UpTo(i)) \in Nat /\ Cardinality(UpTo(i)) <= N
    BY <1>1, <2>1, FS_Subset, FS_CardinalityType
  <2>3. Cardinality(UpTo(i)) # 0
    BY <2>1, FS_EmptySet
  <2> QED
    BY <1>1, <2>1, <2>2, <2>3
<1>4. ASSUME NEW i \in K, NEW j \in K, i < j PROVE Rank[i] # Rank[j]
  <2>1. UpTo(i) \in SUBSET UpTo(j)
    <3>1. \A k \in K : k \in Int
      OBVIOUS
    <3>2. \A k \in K : k <= i => k <= j
      BY <1>4, <3>1
    <3> QED
      BY <3>2
  <2>2. UpTo(i) # UpTo(j)
    <3>1. j \in UpTo(j) /\ j \notin UpTo(i)
      BY <1>4
    <3> QED
      BY <3>1
  <2>3. IsFiniteSet(UpTo(j)) /\ Rank[i] = Cardinality(UpTo(i)) /\ Rank[j] = Cardinality(UpTo(j))
    BY <1>2
  <2> HIDE DEF UpTo, Rank
  <2> QED
    BY <2>1, <2>2, <2>3, FS_Subset
<1>5. \A i, j \in K : Rank[i] = Rank[j] => i = j
  <2> HIDE DEF Rank
  <2>1. \A i, j \in K : i < j \/ j < i \/ i = j
    OBVIOUS
  <2> QED
    BY <1>4, <2>1
<1>6. Rank \in Surjection(K, 1 .. N)
  <2>1. Rank \in [K -> 1 .. N]
    BY <1>3
  <2>2. Rank \in Injection(K, 1 .. N)
    BY <1>5, <2>1 DEF Injection, IsInjective
  <2>3. IsFiniteSet(1 .. N) /\ Cardinality(1 .. N) = N
    BY <1>1, FS_Interval
  <2> HIDE DEF Rank
  <2> QED
    BY <2>2, <2>3, FS_Injection
<1>7. \A k \in 1 .. N : Nth(K, k) \in K /\ Rank[Nth(K, k)] = k
  <2> SUFFICES ASSUME NEW k \in 1 .. N PROVE Nth(K, k) \in K /\ Rank[Nth(K, k)] = k
    OBVIOUS
  <2>1. \E i \in K : Cardinality(UpTo(i)) = k
    <3>1. \E i \in K : Rank[i] = k
      <4> HIDE DEF Rank
      <4> QED
        BY <1>6 DEF Surjection
    <3> QED
      BY <3>1, <1>2
  <2>2. Nth(K, k) \in K /\ Cardinality(UpTo(Nth(K, k))) = k
    BY <2>1 DEF Nth
  <2> QED
    BY <2>2
<1>8. \A i \in K : Nth(K, Rank[i]) = i
  <2> HIDE DEF Rank
  <2> QED
    BY <1>3, <1>5, <1>7
<1>9. [k \in 1 .. N |-> Nth(K, k)] \in Bijection(1 .. N, K)
  <2> HIDE DEF Rank
  <2> QED
    BY <1>3, <1>7, <1>8 DEF Bijection, Injection, Surjection, IsInjective
<1> QED
  BY <1>1, <1>9

\* The numbers from 1 on are numbered as they stand.
THEOREM NumberingAll ==
  ASSUME NEW n \in Nat, NEW k \in 1 .. n
  PROVE  Nth(1 .. n, k) = k
<1>1. \A i \in 1 .. n : Cardinality({j \in 1 .. n : j <= i}) = i
  <2> SUFFICES ASSUME NEW i \in 1 .. n PROVE Cardinality({j \in 1 .. n : j <= i}) = i
    OBVIOUS
  <2>1. {j \in 1 .. n : j <= i} = 1 .. i
    OBVIOUS
  <2>2. Cardinality(1 .. i) = i
    BY FS_Interval
  <2> QED
    BY <2>1, <2>2
<1> QED
  BY <1>1 DEF Nth
=============================================================================
