--------------------------- MODULE SetSumsProofs ---------------------------
(***************************************************************************)
(* The laws of SumOver, for any finite set and any function that is an     *)
(* integer on it.  A set-valued form of induction carries them: the sets   *)
(* that satisfy a law form a set G, a smallest set outside G would have    *)
(* all its smaller ones inside, and every set is reached that way.  The    *)
(* same argument over the naturals shows that the recursion of SumOver has *)
(* a solution.                                                             *)
(***************************************************************************)
EXTENDS SetSums, FiniteSets, FiniteSetTheorems, WellFoundedInduction, TLAPS

-----------------------------------------------------------------------------
(* Induction *)

\* A set of naturals has a least element.
LEMMA LeastNat ==
  ASSUME NEW T \in SUBSET Nat, T # {}
  PROVE  \E m \in T : \A k \in T : m <= k
<1> DEFINE R == OpToRel(<, Nat)
<1>1. IsWellFoundedOn(R, Nat)
  BY NatLessThanWellFounded
<1>2. \A k, m \in Nat : k < m => <<k, m>> \in R
  BY DEF OpToRel
<1> HIDE DEF R
<1>3. PICK m \in T : \A k \in T : ~(<<k, m>> \in R)
  <2>1. T \subseteq Nat  OBVIOUS
  <2> QED BY <1>1, <2>1, WFMin, Zenon
<1>4. \A k \in T : ~(k < m)
  BY <1>2, <1>3, Zenon
<1>5. \A k \in T : m <= k
  BY <1>4
<1> QED BY <1>5

\* Induction over the naturals, for a set of them.
LEMMA NatSetInduction ==
  ASSUME NEW G, \A n \in Nat : (n = 0 \/ (n - 1) \in G) => n \in G
  PROVE  Nat \subseteq G
<1> DEFINE B == Nat \ G
<1> SUFFICES ASSUME B # {} PROVE FALSE  OBVIOUS
<1>1. PICK m \in B : \A k \in B : m <= k  BY LeastNat
<1>2. m = 0 \/ m - 1 \in Nat  OBVIOUS
<1> QED BY <1>1, <1>2

\* Induction over the subsets of a finite set, for a set of them.
LEMMA SetInduction ==
  ASSUME NEW S, IsFiniteSet(S), NEW G,
         \A T \in SUBSET S : (\A x \in T : T \ {x} \in G) => T \in G
  PROVE  S \in G
<1> DEFINE B == {T \in SUBSET S : T \notin G}
           R == StrictSubsetOrdering(S)
<1> SUFFICES ASSUME S \notin G PROVE FALSE  OBVIOUS
<1>1. IsWellFoundedOn(R, SUBSET S)
  <2>1. IsWellFoundedOn(StrictSubsetOrdering(S), FiniteSubsetsOf(S))
    BY FS_StrictSubsetOrderingWellFounded, Zenon
  <2>2. FiniteSubsetsOf(S) = SUBSET S
    BY FS_FiniteSubsetsOfFinite, Zenon
  <2> QED BY <2>1, <2>2, Zenon
<1>2. \A T, U \in SUBSET S : U \subseteq T /\ U # T => <<U, T>> \in R
  BY DEF StrictSubsetOrdering
<1>3. S \in B /\ B \subseteq SUBSET S
  OBVIOUS
<1> HIDE DEF R, B
<1>4. PICK T \in B : \A U \in B : ~(<<U, T>> \in R)
  BY <1>1, <1>3, WFMin, Zenon
<1>5. ASSUME NEW x \in T PROVE T \ {x} \in G
  <2>1. T \in SUBSET S /\ T \ {x} \in SUBSET S /\ T \ {x} # T
    BY <1>4 DEF B
  <2>2. T \ {x} \notin B
    BY <1>2, <1>4, <2>1
  <2> QED BY <2>1, <2>2 DEF B
<1> QED BY <1>4, <1>5 DEF B

-----------------------------------------------------------------------------

\* The recursion behind SumOver over the subsets of S.
Table(f, S, g) ==
  g = [s \in SUBSET S |-> IF s = {} THEN 0 ELSE f[AnyOf(s)] + g[s \ {AnyOf(s)}]]

LEMMA SumDef == ASSUME NEW f, NEW S PROVE SumOver(f, S) = (CHOOSE g : Table(f, S, g))[S]
BY DEF SumOver, MapThenFoldSet, Table, AnyOf

LEMMA AnyOfIn == ASSUME NEW s, s # {} PROVE AnyOf(s) \in s
BY DEF AnyOf

\* The table of the sums up to size n.
Upto(f, S, g, n) ==
  /\ DOMAIN g = SUBSET S /\ g = [s \in SUBSET S |-> g[s]]
  /\ \A s \in SUBSET S : Cardinality(s) <= n =>
        g[s] = IF s = {} THEN 0 ELSE f[AnyOf(s)] + g[s \ {AnyOf(s)}]

\* The recursion has a solution: one exists up to any size of subset.
LEMMA TableExists ==
  ASSUME NEW f, NEW S, IsFiniteSet(S)
  PROVE  \E g : Table(f, S, g)
<1> DEFINE G == {n \in Nat : \E g : Upto(f, S, g, n)}
<1>0. \A s \in SUBSET S : Cardinality(s) \in Nat /\ IsFiniteSet(s)
  BY FS_Subset, FS_CardinalityType
<1>a. \A s \in SUBSET S : s # {} => s \ {AnyOf(s)} \in SUBSET S /\ Cardinality(s \ {AnyOf(s)}) = Cardinality(s) - 1
  BY <1>0, AnyOfIn, FS_RemoveElement
<1>1. Nat \subseteq G
  <2>1. ASSUME NEW n \in Nat, n = 0 \/ (n - 1) \in G PROVE n \in G
    <3>1. PICK h : DOMAIN h = SUBSET S /\ \A s \in SUBSET S : Cardinality(s) < n =>
                 h[s] = IF s = {} THEN 0 ELSE f[AnyOf(s)] + h[s \ {AnyOf(s)}]
      <4>1. CASE n = 0
        <5> DEFINE h == [s \in SUBSET S |-> 0]
        <5> DOMAIN h = SUBSET S /\ \A s \in SUBSET S : ~(Cardinality(s) < n)
          BY <4>1, <1>0
        <5> QED OBVIOUS
      <4>2. CASE n # 0
        <5>1. PICK h : Upto(f, S, h, n - 1)
          BY <2>1, <4>2
        <5>2. \A s \in SUBSET S : Cardinality(s) < n => Cardinality(s) <= n - 1
          BY <1>0
        <5> QED BY <5>1, <5>2 DEF Upto
      <4> QED BY <4>1, <4>2
    <3> DEFINE g == [s \in SUBSET S |-> IF Cardinality(s) < n THEN h[s]
                      ELSE IF s = {} THEN 0 ELSE f[AnyOf(s)] + h[s \ {AnyOf(s)}]]
    <3>2. ASSUME NEW s \in SUBSET S, Cardinality(s) <= n
          PROVE  g[s] = IF s = {} THEN 0 ELSE f[AnyOf(s)] + g[s \ {AnyOf(s)}]
      <4>1. g[s] = IF s = {} THEN 0 ELSE f[AnyOf(s)] + h[s \ {AnyOf(s)}]
        BY <3>1
      <4>2. s # {} => g[s \ {AnyOf(s)}] = h[s \ {AnyOf(s)}]
        <5> HAVE s # {}
        <5>1. s \ {AnyOf(s)} \in SUBSET S /\ Cardinality(s \ {AnyOf(s)}) < n
          BY <1>a, <1>0, <3>2
        <5> QED BY <5>1
      <4> HIDE DEF g
      <4> QED BY <4>1, <4>2
    <3>3. DOMAIN g = SUBSET S /\ g = [s \in SUBSET S |-> g[s]]
      OBVIOUS
    <3> HIDE DEF g
    <3>4. Upto(f, S, g, n)
      BY <3>2, <3>3 DEF Upto
    <3> QED BY <3>4
  <2> HIDE DEF G
  <2> QED BY <2>1, NatSetInduction
<1>2. PICK g : Upto(f, S, g, Cardinality(S))
  BY <1>0, <1>1
<1>3. \A s \in SUBSET S : Cardinality(s) <= Cardinality(S)
  BY FS_Subset
<1>4. g = [s \in SUBSET S |-> IF s = {} THEN 0 ELSE f[AnyOf(s)] + g[s \ {AnyOf(s)}]]
  BY <1>2, <1>3 DEF Upto
<1> QED BY <1>4 DEF Table

\* Its solutions over two sets agree on the smaller one.
LEMMA TableUnique ==
  ASSUME NEW f, NEW S, NEW T, IsFiniteSet(T), T \subseteq S, NEW g, NEW h,
         Table(f, S, g), Table(f, T, h)
  PROVE  g[T] = h[T]
<1> DEFINE G == {s \in SUBSET T : g[s] = h[s]}
<1>1. ASSUME NEW s \in SUBSET T, \A x \in s : s \ {x} \in G
      PROVE  s \in G
  <2>1. g[s] = (IF s = {} THEN 0 ELSE f[AnyOf(s)] + g[s \ {AnyOf(s)}])
    BY DEF Table
  <2>2. h[s] = (IF s = {} THEN 0 ELSE f[AnyOf(s)] + h[s \ {AnyOf(s)}])
    BY DEF Table
  <2>3. s # {} => g[s \ {AnyOf(s)}] = h[s \ {AnyOf(s)}]
    BY <1>1, AnyOfIn
  <2> QED BY <2>1, <2>2, <2>3
<1>2. T \in G
  <2> HIDE DEF G
  <2> QED BY <1>1, SetInduction
<1> QED BY <1>2

LEMMA SumEmpty ==
  ASSUME NEW f
  PROVE  SumOver(f, {}) = 0
<1>1. PICK g : Table(f, {}, g)
  BY TableExists, FS_EmptySet, Zenon
<1> DEFINE h == CHOOSE k : Table(f, {}, k)
<1>2. Table(f, {}, h)
  BY <1>1
<1> HIDE DEF h
<1>3. h[{}] = 0
  BY <1>2 DEF Table
<1> QED BY <1>3, SumDef DEF h

\* The sum takes off the element that the choice picks ...
LEMMA SumAny ==
  ASSUME NEW f, NEW S, IsFiniteSet(S), S # {}
  PROVE  SumOver(f, S) = f[AnyOf(S)] + SumOver(f, S \ {AnyOf(S)})
<1> DEFINE T == S \ {AnyOf(S)}
           g == CHOOSE k : Table(f, S, k)
           h == CHOOSE k : Table(f, T, k)
<1>0. IsFiniteSet(T)
  BY FS_RemoveElement
<1>1. Table(f, S, g) /\ Table(f, T, h)
  BY <1>0, TableExists, Zenon
<1>2. SumOver(f, S) = g[S] /\ SumOver(f, T) = h[T]
  BY SumDef, Zenon
<1> HIDE DEF g, h
<1>3. g[T] = h[T]
  <2>1. T \subseteq S  OBVIOUS
  <2> HIDE DEF T
  <2> QED BY <1>0, <1>1, <2>1, TableUnique
<1>4. g[S] = f[AnyOf(S)] + g[S \ {AnyOf(S)}]
  BY <1>1 DEF Table
<1> QED BY <1>2, <1>3, <1>4

LEMMA SumInt ==
  ASSUME NEW S, IsFiniteSet(S), NEW f, \A x \in S : f[x] \in Int
  PROVE  SumOver(f, S) \in Int
<1> DEFINE G == {T \in SUBSET S : SumOver(f, T) \in Int}
<1>1. ASSUME NEW T \in SUBSET S, \A x \in T : T \ {x} \in G
      PROVE  T \in G
  <2>1. CASE T = {}  BY <2>1, SumEmpty
  <2>2. CASE T # {}
    <3>1. SumOver(f, T) = f[AnyOf(T)] + SumOver(f, T \ {AnyOf(T)})
      BY <2>2, FS_Subset, SumAny
    <3>2. AnyOf(T) \in T  BY <2>2, AnyOfIn
    <3> QED BY <1>1, <3>1, <3>2
  <2> QED BY <2>1, <2>2
<1>2. S \in G
  <2> HIDE DEF G
  <2> QED BY <1>1, SetInduction
<1> QED BY <1>2

\* ... and so, integers being commutative, any element.
LEMMA SumRemove ==
  ASSUME NEW S, IsFiniteSet(S), NEW f, \A y \in S : f[y] \in Int, NEW x \in S
  PROVE  SumOver(f, S) = f[x] + SumOver(f, S \ {x})
<1> DEFINE G == {T \in SUBSET S : \A c \in T : SumOver(f, T) = f[c] + SumOver(f, T \ {c})}
<1>0. \A T \in SUBSET S : IsFiniteSet(T) /\ SumOver(f, T) \in Int
  <2> TAKE T \in SUBSET S
  <2>1. IsFiniteSet(T)  BY FS_Subset
  <2> QED BY <2>1, SumInt
<1>1. ASSUME NEW T \in SUBSET S, \A y \in T : T \ {y} \in G
      PROVE  T \in G
  <2> SUFFICES ASSUME NEW c \in T PROVE SumOver(f, T) = f[c] + SumOver(f, T \ {c})
    OBVIOUS
  <2> DEFINE p == AnyOf(T)
  <2>1. p \in T /\ SumOver(f, T) = f[p] + SumOver(f, T \ {p})
    BY <1>0, AnyOfIn, SumAny, Zenon
  <2> HIDE DEF p
  <2>2. CASE c = p
    BY <2>1, <2>2
  <2>3. CASE c # p
    <3> DEFINE V == (T \ {c}) \ {p}
    <3>1. V = (T \ {p}) \ {c}
      OBVIOUS
    <3>2. SumOver(f, T \ {p}) = f[c] + SumOver(f, V)
      BY <1>1, <2>1, <2>3, <3>1
    <3>3. SumOver(f, T \ {c}) = f[p] + SumOver(f, V)
      BY <1>1, <2>1, <2>3
    <3>4. f[c] \in Int /\ f[p] \in Int /\ SumOver(f, V) \in Int
      BY <1>0, <2>1
    <3> HIDE DEF G, V
    <3> QED BY <2>1, <3>2, <3>3, <3>4
  <2> QED BY <2>2, <2>3
<1>2. S \in G
  <2> HIDE DEF G
  <2> QED BY <1>1, SetInduction
<1> QED BY <1>2

LEMMA SumAdd ==
  ASSUME NEW S, IsFiniteSet(S), NEW f, NEW x, x \notin S,
         \A y \in S \cup {x} : f[y] \in Int
  PROVE  SumOver(f, S \cup {x}) = f[x] + SumOver(f, S)
<1>1. IsFiniteSet(S \cup {x})
  BY FS_AddElement
<1>2. SumOver(f, S \cup {x}) = f[x] + SumOver(f, (S \cup {x}) \ {x})
  BY <1>1, SumRemove
<1>3. (S \cup {x}) \ {x} = S
  OBVIOUS
<1> QED BY <1>2, <1>3

\* A sum splits over a subset and what it leaves out.
LEMMA SumDisjoint ==
  ASSUME NEW S, IsFiniteSet(S), NEW A \in SUBSET S, NEW f, \A y \in S : f[y] \in Int
  PROVE  SumOver(f, S) = SumOver(f, A) + SumOver(f, S \ A)
<1> DEFINE G == {T \in SUBSET S : SumOver(f, T) = SumOver(f, T \cap A) + SumOver(f, T \ A)}
<1>0. \A T \in SUBSET S : IsFiniteSet(T) /\ SumOver(f, T) \in Int
  <2> TAKE T \in SUBSET S
  <2>1. IsFiniteSet(T)  BY FS_Subset
  <2> QED BY <2>1, SumInt
<1>1. ASSUME NEW T \in SUBSET S, \A y \in T : T \ {y} \in G
      PROVE  T \in G
  <2>1. CASE T = {}
    BY <2>1, SumEmpty
  <2>2. CASE T # {}
    <3>1. PICK x \in T : TRUE  BY <2>2
    <3> DEFINE V == T \ {x}
    <3>2. SumOver(f, T) = f[x] + SumOver(f, V)
      BY <1>0, SumRemove
    <3>3. SumOver(f, V) = SumOver(f, V \cap A) + SumOver(f, V \ A)
      BY <1>1
    <3>4. f[x] \in Int /\ SumOver(f, V \cap A) \in Int /\ SumOver(f, V \ A) \in Int
      BY <1>0
    <3>5. CASE x \in A
      <4>1. V \ A = T \ A /\ V \cap A = (T \cap A) \ {x} /\ x \in T \cap A
        BY <3>5
      <4>2. SumOver(f, T \cap A) = f[x] + SumOver(f, V \cap A)
        BY <1>0, <4>1, SumRemove
      <4>3. SumOver(f, V \ A) = SumOver(f, T \ A)
        BY <4>1
      <4> HIDE DEF V
      <4>4. SumOver(f, T) = SumOver(f, T \cap A) + SumOver(f, T \ A)
        BY <3>2, <3>3, <3>4, <4>2, <4>3
      <4> QED BY <4>4
    <3>6. CASE x \notin A
      <4>1. V \cap A = T \cap A /\ V \ A = (T \ A) \ {x} /\ x \in T \ A
        BY <3>6
      <4>2. SumOver(f, T \ A) = f[x] + SumOver(f, V \ A)
        BY <1>0, <4>1, SumRemove
      <4>3. SumOver(f, V \cap A) = SumOver(f, T \cap A)
        BY <4>1
      <4> HIDE DEF V
      <4>4. SumOver(f, T) = SumOver(f, T \cap A) + SumOver(f, T \ A)
        BY <3>2, <3>3, <3>4, <4>2, <4>3
      <4> QED BY <4>4
    <3> QED BY <3>5, <3>6
  <2> QED BY <2>1, <2>2
<1>2. S \in G
  <2> HIDE DEF G
  <2> QED BY <1>1, SetInduction
<1>3. S \cap A = A  OBVIOUS
<1> QED BY <1>2, <1>3

LEMMA SumUnion ==
  ASSUME NEW A, NEW B, IsFiniteSet(A), IsFiniteSet(B), A \cap B = {},
         NEW f, \A y \in A \cup B : f[y] \in Int
  PROVE  SumOver(f, A \cup B) = SumOver(f, A) + SumOver(f, B)
<1>1. IsFiniteSet(A \cup B)
  BY FS_Union
<1>2. (A \cup B) \ A = B
  OBVIOUS
<1>3. SumOver(f, A \cup B) = SumOver(f, A) + SumOver(f, (A \cup B) \ A)
  BY <1>1, SumDisjoint
<1> QED BY <1>2, <1>3

\* Sums of functions add up, and compare, pointwise.
LEMMA SumPlus ==
  ASSUME NEW S, IsFiniteSet(S), NEW f, NEW g, NEW h,
         \A x \in S : f[x] \in Int /\ g[x] \in Int /\ h[x] = f[x] + g[x]
  PROVE  SumOver(h, S) = SumOver(f, S) + SumOver(g, S)
<1> DEFINE G == {T \in SUBSET S : SumOver(h, T) = SumOver(f, T) + SumOver(g, T)}
<1>0. \A T \in SUBSET S : IsFiniteSet(T) /\ SumOver(f, T) \in Int /\ SumOver(g, T) \in Int
  <2> TAKE T \in SUBSET S
  <2>1. IsFiniteSet(T)  BY FS_Subset
  <2> QED BY <2>1, SumInt
<1>1. ASSUME NEW T \in SUBSET S, \A y \in T : T \ {y} \in G
      PROVE  T \in G
  <2>1. CASE T = {}
    BY <2>1, SumEmpty
  <2>2. CASE T # {}
    <3>1. PICK x \in T : TRUE  BY <2>2
    <3> DEFINE V == T \ {x}
    <3>2. /\ SumOver(f, T) = f[x] + SumOver(f, V)
          /\ SumOver(g, T) = g[x] + SumOver(g, V)
          /\ SumOver(h, T) = h[x] + SumOver(h, V)
      <4>1. \A y \in T : f[y] \in Int /\ g[y] \in Int /\ h[y] \in Int
        OBVIOUS
      <4> QED BY <1>0, <4>1, SumRemove
    <3>3. SumOver(h, V) = SumOver(f, V) + SumOver(g, V) /\ h[x] = f[x] + g[x]
      BY <1>1
    <3>4. f[x] \in Int /\ g[x] \in Int /\ SumOver(f, V) \in Int /\ SumOver(g, V) \in Int
      BY <1>0
    <3> HIDE DEF V
    <3>5. SumOver(h, T) = SumOver(f, T) + SumOver(g, T)
      BY <3>2, <3>3, <3>4
    <3> QED BY <3>5
  <2> QED BY <2>1, <2>2
<1>2. S \in G
  <2> HIDE DEF G
  <2> QED BY <1>1, SetInduction
<1> QED BY <1>2

LEMMA SumLeq ==
  ASSUME NEW S, IsFiniteSet(S), NEW f, NEW g,
         \A x \in S : f[x] \in Int /\ g[x] \in Int /\ f[x] <= g[x]
  PROVE  SumOver(f, S) <= SumOver(g, S)
<1> DEFINE G == {T \in SUBSET S : SumOver(f, T) <= SumOver(g, T)}
<1>0. \A T \in SUBSET S : IsFiniteSet(T) /\ SumOver(f, T) \in Int /\ SumOver(g, T) \in Int
  <2> TAKE T \in SUBSET S
  <2>1. IsFiniteSet(T)  BY FS_Subset
  <2> QED BY <2>1, SumInt
<1>1. ASSUME NEW T \in SUBSET S, \A y \in T : T \ {y} \in G
      PROVE  T \in G
  <2>1. CASE T = {}
    BY <2>1, SumEmpty
  <2>2. CASE T # {}
    <3>1. PICK x \in T : TRUE  BY <2>2
    <3> DEFINE V == T \ {x}
    <3>2. /\ SumOver(f, T) = f[x] + SumOver(f, V)
          /\ SumOver(g, T) = g[x] + SumOver(g, V)
      BY <1>0, SumRemove
    <3>3. SumOver(f, V) <= SumOver(g, V) /\ f[x] <= g[x]
      BY <1>1
    <3>4. f[x] \in Int /\ g[x] \in Int /\ SumOver(f, V) \in Int /\ SumOver(g, V) \in Int
      BY <1>0
    <3> HIDE DEF V
    <3>5. SumOver(f, T) <= SumOver(g, T)
      BY <3>2, <3>3, <3>4
    <3> QED BY <3>5
  <2> QED BY <2>1, <2>2
<1>2. S \in G
  <2> HIDE DEF G
  <2> QED BY <1>1, SetInduction
<1> QED BY <1>2

LEMMA SumSame ==
  ASSUME NEW S, IsFiniteSet(S), NEW f, NEW g,
         \A x \in S : f[x] \in Int /\ f[x] = g[x]
  PROVE  SumOver(f, S) = SumOver(g, S)
<1>1. SumOver(f, S) <= SumOver(g, S) /\ SumOver(g, S) <= SumOver(f, S)
  BY SumLeq
<1>2. SumOver(f, S) \in Int /\ SumOver(g, S) \in Int
  BY SumInt
<1> QED BY <1>1, <1>2

LEMMA SumNat ==
  ASSUME NEW S, IsFiniteSet(S), NEW f, \A x \in S : f[x] \in Nat
  PROVE  SumOver(f, S) \in Nat
<1> DEFINE G == {T \in SUBSET S : SumOver(f, T) \in Nat}
<1>1. ASSUME NEW T \in SUBSET S, \A y \in T : T \ {y} \in G
      PROVE  T \in G
  <2>1. CASE T = {}
    BY <2>1, SumEmpty
  <2>2. CASE T # {}
    <3>1. PICK x \in T : TRUE  BY <2>2
    <3>2. SumOver(f, T) = f[x] + SumOver(f, T \ {x})
      <4>1. IsFiniteSet(T) /\ \A y \in T : f[y] \in Int
        BY FS_Subset
      <4> QED BY <4>1, SumRemove
    <3> QED BY <1>1, <3>2
  <2> QED BY <2>1, <2>2
<1>2. S \in G
  <2> HIDE DEF G
  <2> QED BY <1>1, SetInduction
<1> QED BY <1>2

\* Sums of naturals grow with the set.
LEMMA SumSubset ==
  ASSUME NEW S, IsFiniteSet(S), NEW f, \A x \in S : f[x] \in Nat, NEW A \in SUBSET S
  PROVE  SumOver(f, A) <= SumOver(f, S)
<1>1. IsFiniteSet(A) /\ IsFiniteSet(S \ A)
  BY FS_Subset
<1>2. SumOver(f, A) \in Nat /\ SumOver(f, S \ A) \in Nat
  BY <1>1, SumNat
<1>3. SumOver(f, S) = SumOver(f, A) + SumOver(f, S \ A)
  BY SumDisjoint
<1> QED BY <1>2, <1>3

\* Elements that count nothing can be left out.
LEMMA SumZeroes ==
  ASSUME NEW S, IsFiniteSet(S), NEW A \in SUBSET S, NEW f,
         \A x \in S : f[x] \in Int, \A x \in S \ A : f[x] = 0
  PROVE  SumOver(f, S) = SumOver(f, A)
<1> DEFINE B == S \ A
           G == {T \in SUBSET B : SumOver(f, T) = 0}
<1>1. IsFiniteSet(B) /\ IsFiniteSet(A)
  BY FS_Subset
<1>2. ASSUME NEW T \in SUBSET B, \A y \in T : T \ {y} \in G
      PROVE  T \in G
  <2>1. CASE T = {}
    BY <2>1, SumEmpty
  <2>2. CASE T # {}
    <3>1. PICK x \in T : TRUE
      BY <2>2
    <3>2. IsFiniteSet(T) /\ \A y \in T : f[y] \in Int
      BY FS_Subset
    <3>3. SumOver(f, T) = f[x] + SumOver(f, T \ {x})
      BY <3>2, SumRemove
    <3> QED BY <1>2, <3>3
  <2> QED BY <2>1, <2>2
<1>3. B \in G
  <2> HIDE DEF G, B
  <2> QED BY <1>1, <1>2, SetInduction
<1>4. SumOver(f, S) = SumOver(f, A) + SumOver(f, S \ A)
  BY SumDisjoint
<1>5. SumOver(f, A) \in Int
  BY <1>1, SumInt
<1> QED BY <1>3, <1>4, <1>5

\* What changes on a subset changes the sum by the sum of the changes.
LEMMA SumChange ==
  ASSUME NEW S, IsFiniteSet(S), NEW A \in SUBSET S, NEW f, NEW g, NEW d,
         \A x \in S : f[x] \in Int /\ g[x] \in Int,
         \A x \in S \ A : g[x] = f[x],
         \A x \in A : d[x] = g[x] - f[x]
  PROVE  SumOver(g, S) = SumOver(f, S) + SumOver(d, A)
<1>1. IsFiniteSet(A) /\ IsFiniteSet(S \ A)
  BY FS_Subset
<1>2. \A x \in A : f[x] \in Int /\ d[x] \in Int /\ g[x] = f[x] + d[x]
  OBVIOUS
<1>3. SumOver(g, A) = SumOver(f, A) + SumOver(d, A)
  BY <1>1, <1>2, SumPlus
<1>4. SumOver(f, S \ A) = SumOver(g, S \ A)
  BY <1>1, SumSame
<1>5. /\ SumOver(f, S) = SumOver(f, A) + SumOver(f, S \ A)
      /\ SumOver(g, S) = SumOver(g, A) + SumOver(g, S \ A)
  BY SumDisjoint
<1>6. SumOver(f, A) \in Int /\ SumOver(d, A) \in Int /\ SumOver(f, S \ A) \in Int
  BY <1>1, <1>2, SumInt
<1> QED BY <1>3, <1>4, <1>5, <1>6

\* An integer-valued function has a least value on a finite set.
LEMMA LeastValue ==
  ASSUME NEW S, IsFiniteSet(S), S # {}, NEW f, \A x \in S : f[x] \in Int
  PROVE  \E x \in S : \A y \in S : f[x] <= f[y]
<1> DEFINE G == {T \in SUBSET S : T # {} => \E x \in T : \A y \in T : f[x] <= f[y]}
<1>1. ASSUME NEW T \in SUBSET S, \A y \in T : T \ {y} \in G
      PROVE  T \in G
  <2>1. CASE \E z \in T : T \ {z} # {}
    <3>1. PICK z \in T : T \ {z} # {}
      BY <2>1
    <3>2. PICK x \in T \ {z} : \A y \in T \ {z} : f[x] <= f[y]
      BY <1>1, <3>1
    <3>3. f[x] \in Int /\ f[z] \in Int /\ \A y \in T : f[y] \in Int
      BY <3>1, <3>2
    <3>4. CASE f[x] <= f[z]
      BY <3>2, <3>4
    <3>5. CASE f[z] <= f[x]
      BY <3>1, <3>2, <3>3, <3>5
    <3> QED BY <3>3, <3>4, <3>5
  <2>2. CASE \A z \in T : T \ {z} = {}
    <3>1. \A y, z \in T : y = z
      BY <2>2
    <3> QED BY <3>1
  <2> QED BY <2>1, <2>2
<1>2. S \in G
  <2> HIDE DEF G
  <2> QED BY <1>1, SetInduction
<1> QED BY <1>2
=============================================================================
