--------------------------- MODULE GoWorkerProofs ---------------------------
(***************************************************************************)
(* Proofs about GoWorker, for any positions, any size of the cache, any    *)
(* committed turns and any number of prestiges and crashes.                *)
(*                                                                         *)
(* Each promise of the module is inductive only with what the others say   *)
(* of the messages under way.  Owed counts what a turn and the resets      *)
(* still await, message by message.  Order keeps the requests of a turn in *)
(* line (InOrder), its predictions before its verdict (Judging), and one   *)
(* evaluation at most in the name of the current commit (Owns).  Faithful  *)
(* is the mirror until a prestige: what the client credits the worker with *)
(* is held, or an eviction is on its way (Credits), and what the commit of *)
(* the expected turn waits for is held (Waits).  The steps of the worker   *)
(* are compared by what they say to the client.                            *)
(***************************************************************************)
EXTENDS GoWorker, SetSumsProofs, SequenceTheorems, TLAPS

-----------------------------------------------------------------------------
(* Sequences *)

LEMMA Indices ==
  ASSUME NEW T, NEW s \in Seq(T)
  PROVE  /\ Len(s) \in Nat /\ DOMAIN s = 1 .. Len(s)
         /\ \A i \in DOMAIN s : s[i] \in T
BY LenProperties, ElementOfSeq

LEMMA ToSetSays ==
  ASSUME NEW T, NEW s \in Seq(T)
  PROVE  /\ ToSet(s) \subseteq T
         /\ \A x : x \in ToSet(s) <=> \E i \in DOMAIN s : s[i] = x
BY Indices DEF ToSet

LEMMA Appended ==
  ASSUME NEW T, NEW s \in Seq(T), NEW e \in T
  PROVE  /\ Append(s, e) \in Seq(T) /\ Len(Append(s, e)) = Len(s) + 1
         /\ DOMAIN Append(s, e) = 1 .. Len(s) + 1
         /\ \A i \in 1 .. Len(s) : Append(s, e)[i] = s[i]
         /\ Append(s, e)[Len(s) + 1] = e
         /\ ToSet(Append(s, e)) = ToSet(s) \cup {e}
<1>1. /\ Append(s, e) \in Seq(T) /\ Len(Append(s, e)) = Len(s) + 1
      /\ \A i \in 1 .. Len(s) : Append(s, e)[i] = s[i]
      /\ Append(s, e)[Len(s) + 1] = e
  BY AppendProperties
<1>2. DOMAIN Append(s, e) = 1 .. Len(s) + 1 /\ DOMAIN s = 1 .. Len(s) /\ Len(s) \in Nat
  BY <1>1, Indices
<1>3. ToSet(Append(s, e)) = ToSet(s) \cup {e}
  BY <1>1, <1>2 DEF ToSet
<1> QED BY <1>1, <1>2, <1>3

LEMMA Taken ==
  ASSUME NEW T, NEW s \in Seq(T), s # <<>>
  PROVE  /\ Head(s) = s[1] /\ Head(s) \in T /\ 1 \in DOMAIN s
         /\ Tail(s) \in Seq(T) /\ Len(Tail(s)) = Len(s) - 1
         /\ DOMAIN Tail(s) = 1 .. Len(s) - 1
         /\ \A i \in 1 .. Len(s) - 1 : Tail(s)[i] = s[i + 1]
         /\ ToSet(Tail(s)) \subseteq ToSet(s)
<1>1. /\ Head(s) \in T /\ Tail(s) \in Seq(T) /\ Len(Tail(s)) = Len(s) - 1
      /\ \A i \in 1 .. Len(s) - 1 : Tail(s)[i] = s[i + 1]
  BY HeadTailProperties
<1>2. Len(s) \in Nat \ {0} /\ DOMAIN s = 1 .. Len(s) /\ DOMAIN Tail(s) = 1 .. Len(s) - 1
  BY <1>1, Indices, EmptySeq
<1>3. Head(s) = s[1]
  BY <1>2
<1>4. ToSet(Tail(s)) \subseteq ToSet(s)
  BY <1>1, <1>2 DEF ToSet
<1> QED BY <1>1, <1>2, <1>3, <1>4

LEMMA Joined ==
  ASSUME NEW T, NEW s \in Seq(T), NEW t \in Seq(T)
  PROVE  /\ s \o t \in Seq(T) /\ Len(s \o t) = Len(s) + Len(t)
         /\ DOMAIN (s \o t) = 1 .. Len(s) + Len(t)
         /\ \A i \in 1 .. Len(s) : (s \o t)[i] = s[i]
         /\ \A i \in 1 .. Len(t) : (s \o t)[Len(s) + i] = t[i]
         /\ ToSet(s \o t) = ToSet(s) \cup ToSet(t)
<1>1. /\ s \o t \in Seq(T) /\ Len(s \o t) = Len(s) + Len(t)
      /\ \A i \in 1 .. Len(s) + Len(t) : (s \o t)[i] = IF i <= Len(s) THEN s[i] ELSE t[i - Len(s)]
  BY ConcatProperties
<1>2. /\ Len(s) \in Nat /\ DOMAIN s = 1 .. Len(s)
      /\ Len(t) \in Nat /\ DOMAIN t = 1 .. Len(t)
      /\ DOMAIN (s \o t) = 1 .. Len(s) + Len(t)
  BY <1>1, Indices
<1>3. \A i \in 1 .. Len(s) : (s \o t)[i] = s[i]
  BY <1>1, <1>2
<1>4. \A i \in 1 .. Len(t) : (s \o t)[Len(s) + i] = t[i]
  BY <1>1, <1>2
<1>5. ToSet(s \o t) = ToSet(s) \cup ToSet(t)
  <2>1. \A i \in 1 .. Len(s) + Len(t) :
          \/ i \in 1 .. Len(s)
          \/ i - Len(s) \in 1 .. Len(t) /\ i = Len(s) + (i - Len(s))
    BY <1>2
  <2>2. ToSet(s \o t) \subseteq ToSet(s) \cup ToSet(t)
    BY <1>2, <1>3, <1>4, <2>1 DEF ToSet
  <2>3. ToSet(s) \subseteq ToSet(s \o t)
    BY <1>2, <1>3 DEF ToSet
  <2>4. ToSet(t) \subseteq ToSet(s \o t)
    <3>1. \A i \in 1 .. Len(t) : Len(s) + i \in 1 .. Len(s) + Len(t)
      BY <1>2
    <3> QED BY <1>2, <1>4, <3>1 DEF ToSet
  <2> QED BY <2>2, <2>3, <2>4
<1> QED BY <1>1, <1>2, <1>3, <1>4, <1>5

\* A sequence without repetition.
Distinct(s) == \A i, j \in DOMAIN s : s[i] = s[j] => i = j

\* Removal of an element from such a sequence.
LEMMA Removed ==
  ASSUME NEW T, NEW s \in Seq(T), Distinct(s), NEW p
  PROVE  /\ RemoveFirst(s, p) \in Seq(T) /\ Distinct(RemoveFirst(s, p))
         /\ ToSet(RemoveFirst(s, p)) = ToSet(s) \ {p}
         /\ Len(RemoveFirst(s, p)) = Len(s) - (IF p \in ToSet(s) THEN 1 ELSE 0)
<1> DEFINE r == RemoveFirst(s, p)
<1>0. Len(s) \in Nat /\ DOMAIN s = 1 .. Len(s) /\ \A i \in DOMAIN s : s[i] \in T
  BY Indices
<1>1. CASE p \notin ToSet(s)
  <2>1. r = s
    BY <1>0, <1>1 DEF RemoveFirst, ToSet
  <2> QED BY <1>0, <1>1, <2>1
<1>2. CASE p \in ToSet(s)
  <2>1. PICK k \in 1 .. Len(s) : s[k] = p
    BY <1>0, <1>2 DEF ToSet
  <2>2. {i \in 1 .. Len(s) : s[i] = p} = {k}
    BY <1>0, <2>1 DEF Distinct
  <2>3. Min({k}) = k
    BY <2>1 DEF Min
  <2>4. SelectInSeq(s, LAMBDA v : v = p) = k
    BY <2>2, <2>3 DEF SelectInSeq
  <2>5. r = SubSeq(s, 1, k - 1) \o SubSeq(s, k + 1, Len(s))
    BY <2>1, <2>4 DEF RemoveFirst, RemoveAt
  <2>6. /\ r \in Seq(T) /\ Len(r) = Len(s) - 1
        /\ \A j \in 1 .. Len(s) - 1 : r[j] = IF j < k THEN s[j] ELSE s[j + 1]
    <3> DEFINE a == SubSeq(s, 1, k - 1)
               b == SubSeq(s, k + 1, Len(s))
    <3>1. /\ a \in Seq(T) /\ Len(a) = k - 1
          /\ \A i \in 1 .. k - 1 : a[i] = s[i]
      BY <1>0, <2>1, SubSeqProperties
    <3>2. /\ b \in Seq(T) /\ Len(b) = Len(s) - k
          /\ \A i \in 1 .. Len(s) - k : b[i] = s[k + i]
      <4>1. /\ b \in Seq(T) /\ Len(b) = (IF k + 1 <= Len(s) THEN Len(s) - (k + 1) + 1 ELSE 0)
            /\ \A i \in 1 .. Len(s) - (k + 1) + 1 : b[i] = s[k + 1 + i - 1]
        BY <1>0, <2>1, SubSeqProperties
      <4> HIDE DEF b
      <4>2. Len(b) = Len(s) - k /\ Len(s) - (k + 1) + 1 = Len(s) - k
        <5>1. Len(s) \in Nat /\ k \in Nat /\ k <= Len(s)
          BY <1>0, <2>1
        <5>2. CASE k + 1 <= Len(s)
          BY <5>1, <5>2, <4>1
        <5>3. CASE ~(k + 1 <= Len(s))
          BY <5>1, <5>3, <4>1
        <5> QED BY <5>2, <5>3
      <4>3. \A i \in 1 .. Len(s) - k : k + 1 + i - 1 = k + i
        BY <1>0, <2>1
      <4> QED BY <4>1, <4>2, <4>3
    <3> HIDE DEF a, b
    <3>3. /\ a \o b \in Seq(T) /\ Len(a \o b) = Len(a) + Len(b)
          /\ \A i \in 1 .. Len(a) : (a \o b)[i] = a[i]
          /\ \A i \in 1 .. Len(b) : (a \o b)[Len(a) + i] = b[i]
      <4>1. a \in Seq(T) /\ b \in Seq(T)
        BY <3>1, <3>2
      <4> QED BY <4>1, Joined
    <3>4. ASSUME NEW j \in 1 .. Len(s) - 1
          PROVE  (a \o b)[j] = IF j < k THEN s[j] ELSE s[j + 1]
      <4>1. CASE j < k
        BY <1>0, <2>1, <3>1, <3>3, <4>1
      <4>2. CASE ~(j < k)
        <5>1. j - (k - 1) \in 1 .. Len(s) - k /\ j = (k - 1) + (j - (k - 1))
          BY <1>0, <2>1, <4>2
        <5>2. (a \o b)[j] = b[j - (k - 1)]
          BY <3>1, <3>2, <3>3, <5>1
        <5>3. b[j - (k - 1)] = s[k + (j - (k - 1))] /\ k + (j - (k - 1)) = j + 1
          BY <1>0, <2>1, <3>2, <5>1
        <5> QED BY <4>2, <5>2, <5>3
      <4> QED BY <4>1, <4>2
    <3>5. r = a \o b
      BY <2>5 DEF a, b
    <3>6. Len(a \o b) = Len(s) - 1
      BY <1>0, <2>1, <3>1, <3>2, <3>3
    <3> HIDE DEF r
    <3> QED BY <3>3, <3>4, <3>5, <3>6
  <2> HIDE DEF r
  <2>7. DOMAIN r = 1 .. Len(s) - 1
    BY <2>6, Indices
  <2> DEFINE from(j) == IF j < k THEN j ELSE j + 1
  <2> HIDE DEF r
  <2>11. ASSUME NEW j \in 1 .. Len(s) - 1
         PROVE  from(j) \in 1 .. Len(s) /\ from(j) # k /\ r[j] = s[from(j)]
    <3>1. CASE j < k
      BY <1>0, <2>1, <2>6, <3>1
    <3>2. CASE ~(j < k)
      <4>1. j + 1 \in 1 .. Len(s) /\ j + 1 # k
        BY <1>0, <2>1, <3>2
      <4>2. r[j] = s[j + 1]
        BY <2>6, <3>2
      <4> QED BY <3>2, <4>1, <4>2
    <3> QED BY <3>1, <3>2
  <2>12. ASSUME NEW i \in 1 .. Len(s) - 1, NEW j \in 1 .. Len(s) - 1, from(i) = from(j)
         PROVE  i = j
    <3>1. i \in Nat /\ j \in Nat /\ k \in Nat
      BY <1>0, <2>1
    <3> QED BY <2>12, <3>1
  <2>8. Distinct(r)
    <3> SUFFICES ASSUME NEW i \in 1 .. Len(s) - 1, NEW j \in 1 .. Len(s) - 1, r[i] = r[j]
                 PROVE  i = j
      BY <2>7 DEF Distinct
    <3> HIDE DEF from
    <3>1. from(i) = from(j)
      BY <1>0, <2>11 DEF Distinct
    <3> QED BY <2>12, <3>1
  <2>9. ToSet(r) = ToSet(s) \ {p}
    <3> HIDE DEF from
    <3>1. \A j \in 1 .. Len(s) - 1 : \E i \in 1 .. Len(s) : i # k /\ r[j] = s[i]
      BY <2>11
    <3>2. \A i \in 1 .. Len(s) : i # k => \E j \in 1 .. Len(s) - 1 : r[j] = s[i]
      <4> TAKE i \in 1 .. Len(s)
      <4> HAVE i # k
      <4>1. CASE i < k
        BY <1>0, <2>1, <2>6, <4>1
      <4>2. CASE i > k
        <5>1. i - 1 \in 1 .. Len(s) - 1 /\ ~(i - 1 < k) /\ (i - 1) + 1 = i
          BY <1>0, <2>1, <4>2
        <5> QED BY <2>6, <5>1
      <4> QED BY <1>0, <2>1, <4>1, <4>2
    <3>3. \A i \in 1 .. Len(s) : s[i] = p <=> i = k
      BY <1>0, <2>1 DEF Distinct
    <3>4. /\ \A x : x \in ToSet(r) <=> \E j \in 1 .. Len(s) - 1 : r[j] = x
          /\ \A x : x \in ToSet(s) <=> \E i \in 1 .. Len(s) : s[i] = x
      BY <1>0, <2>7 DEF ToSet
    <3>5. ASSUME NEW x PROVE x \in ToSet(r) <=> x \in ToSet(s) \ {p}
      <4>1. ASSUME x \in ToSet(r) PROVE x \in ToSet(s) \ {p}
        <5>1. PICK j \in 1 .. Len(s) - 1 : r[j] = x
          BY <3>4, <4>1
        <5>2. PICK i \in 1 .. Len(s) : i # k /\ r[j] = s[i]
          BY <3>1
        <5> QED BY <3>3, <3>4, <5>1, <5>2
      <4>2. ASSUME x \in ToSet(s) \ {p} PROVE x \in ToSet(r)
        <5>1. PICK i \in 1 .. Len(s) : s[i] = x
          BY <3>4, <4>2
        <5>2. i # k
          BY <3>3, <4>2, <5>1
        <5> QED BY <3>2, <3>4, <5>1, <5>2
      <4> QED BY <4>1, <4>2
    <3> QED BY <3>5
  <2> QED BY <1>2, <2>6, <2>8, <2>9 DEF r
<1> QED BY <1>1, <1>2

-----------------------------------------------------------------------------
(* Counting in sequences *)

At(s, S) == {i \in DOMAIN s : s[i] \in S}

LEMMA Counted ==
  ASSUME NEW T, NEW s \in Seq(T), NEW S
  PROVE  /\ IsFiniteSet(At(s, S)) /\ Count(s, S) = Cardinality(At(s, S))
         /\ Count(s, S) \in Nat
         /\ Count(s, S) = 0 <=> \A i \in DOMAIN s : s[i] \notin S
<1>1. DOMAIN s = 1 .. Len(s) /\ Len(s) \in Nat
  BY Indices
<1>2. IsFiniteSet(At(s, S))
  <2>1. IsFiniteSet(1 .. Len(s))
    BY <1>1, FS_Interval
  <2>2. At(s, S) \subseteq 1 .. Len(s)
    BY <1>1 DEF At
  <2> QED BY <2>1, <2>2, FS_Subset
<1> QED BY <1>2, FS_CardinalityType, FS_EmptySet DEF Count, At

LEMMA CountEmpty == ASSUME NEW S PROVE Count(<<>>, S) = 0
<1>1. <<>> \in Seq({}) /\ DOMAIN <<>> = {}
  BY EmptySeq
<1> QED BY <1>1, Counted

LEMMA CountSame ==
  ASSUME NEW s, NEW t, NEW S, DOMAIN s = DOMAIN t,
         \A i \in DOMAIN s : s[i] \in S <=> t[i] \in S
  PROVE  Count(s, S) = Count(t, S)
<1>1. {i \in DOMAIN s : s[i] \in S} = {i \in DOMAIN t : t[i] \in S}
  OBVIOUS
<1> QED BY <1>1 DEF Count

LEMMA CountMore ==
  ASSUME NEW T, NEW s \in Seq(T), NEW t, NEW S, DOMAIN t = DOMAIN s,
         NEW k \in DOMAIN s, s[k] \notin S, t[k] \in S,
         \A i \in DOMAIN s : i # k => (s[i] \in S <=> t[i] \in S)
  PROVE  Count(t, S) = Count(s, S) + 1
<1>1. At(t, S) = At(s, S) \cup {k} /\ k \notin At(s, S)
  BY DEF At
<1>2. IsFiniteSet(At(s, S)) /\ Count(s, S) = Cardinality(At(s, S))
  BY Counted
<1> QED BY <1>1, <1>2, FS_AddElement DEF Count, At

LEMMA CountAppend ==
  ASSUME NEW T, NEW s \in Seq(T), NEW e \in T, NEW S
  PROVE  Count(Append(s, e), S) = Count(s, S) + (IF e \in S THEN 1 ELSE 0)
<1>1. Len(s) \in Nat /\ DOMAIN s = 1 .. Len(s)
  BY Indices
<1>2. At(Append(s, e), S) = IF e \in S THEN At(s, S) \cup {Len(s) + 1} ELSE At(s, S)
  BY <1>1, Appended DEF At
<1>3. Len(s) + 1 \notin At(s, S)
  BY <1>1 DEF At
<1>4. IsFiniteSet(At(s, S)) /\ Count(s, S) = Cardinality(At(s, S)) /\ Count(s, S) \in Nat
  BY Counted
<1>5. Count(Append(s, e), S) = Cardinality(At(Append(s, e), S))
  BY DEF Count, At
<1>6. Cardinality(At(s, S) \cup {Len(s) + 1}) = Cardinality(At(s, S)) + 1
  BY <1>3, <1>4, FS_AddElement
<1>7. CASE e \in S
  BY <1>2, <1>4, <1>5, <1>6, <1>7
<1>8. CASE e \notin S
  BY <1>2, <1>4, <1>5, <1>8
<1> QED BY <1>7, <1>8

LEMMA CountTail ==
  ASSUME NEW T, NEW s \in Seq(T), s # <<>>, NEW S
  PROVE  Count(s, S) = Count(Tail(s), S) + (IF Head(s) \in S THEN 1 ELSE 0)
<1> DEFINE A == At(s, S) \ {1}
           B == At(Tail(s), S)
           f == [i \in B |-> i + 1]
<1>1. /\ Len(s) \in Nat \ {0} /\ DOMAIN s = 1 .. Len(s) /\ Head(s) = s[1]
      /\ DOMAIN Tail(s) = 1 .. Len(s) - 1 /\ \A i \in 1 .. Len(s) - 1 : Tail(s)[i] = s[i + 1]
  BY Indices, Taken, EmptySeq
<1>2. Tail(s) \in Seq(T)
  BY Taken
<1>3. IsFiniteSet(At(s, S)) /\ Count(s, S) = Cardinality(At(s, S)) /\ Count(s, S) \in Nat
  BY Counted
<1>4. IsFiniteSet(B) /\ Count(Tail(s), S) = Cardinality(B) /\ Count(Tail(s), S) \in Nat
  BY <1>2, Counted
<1>5. ExistsBijection(B, A)
  <2>1. f \in [B -> A]
    BY <1>1 DEF At
  <2>2. \A i, j \in B : f[i] = f[j] => i = j
    BY <1>1 DEF At
  <2>3. ASSUME NEW a \in A PROVE \E i \in B : f[i] = a
    <3>1. a - 1 \in 1 .. Len(s) - 1 /\ (a - 1) + 1 = a /\ s[a] \in S
      BY <1>1 DEF At
    <3>2. a - 1 \in B
      BY <1>1, <3>1 DEF At
    <3> QED BY <3>1, <3>2
  <2> QED BY <2>1, <2>2, <2>3 DEF ExistsBijection, Bijection, Injection, Surjection, IsInjective
<1>6. Cardinality(A) = Cardinality(B)
  BY <1>4, <1>5, FS_Bijection
<1>7. Cardinality(A) = IF 1 \in At(s, S) THEN Cardinality(At(s, S)) - 1 ELSE Cardinality(At(s, S))
  BY <1>3, FS_RemoveElement
<1>8. 1 \in At(s, S) <=> Head(s) \in S
  BY <1>1 DEF At
<1> QED BY <1>3, <1>4, <1>6, <1>7, <1>8

LEMMA CountJoined ==
  ASSUME NEW T, NEW s \in Seq(T), NEW t \in Seq(T), NEW S
  PROVE  Count(s \o t, S) = Count(s, S) + Count(t, S)
<1> DEFINE A == At(s, S)
           B == At(t, S)
           C == At(s \o t, S) \ A
           f == [i \in B |-> Len(s) + i]
<1>1. /\ Len(s) \in Nat /\ DOMAIN s = 1 .. Len(s) /\ Len(t) \in Nat /\ DOMAIN t = 1 .. Len(t)
      /\ DOMAIN (s \o t) = 1 .. Len(s) + Len(t) /\ s \o t \in Seq(T)
      /\ \A i \in 1 .. Len(s) : (s \o t)[i] = s[i]
      /\ \A i \in 1 .. Len(t) : (s \o t)[Len(s) + i] = t[i]
  BY Indices, Joined
<1>2. /\ IsFiniteSet(A) /\ Count(s, S) = Cardinality(A) /\ Count(s, S) \in Nat
      /\ IsFiniteSet(B) /\ Count(t, S) = Cardinality(B) /\ Count(t, S) \in Nat
      /\ IsFiniteSet(At(s \o t, S)) /\ Count(s \o t, S) = Cardinality(At(s \o t, S))
  BY <1>1, Counted
<1>3. A \subseteq At(s \o t, S)
  BY <1>1 DEF At
<1>4. \A c \in C : c - Len(s) \in B /\ c = Len(s) + (c - Len(s))
  <2> TAKE c \in C
  <2>1. c \in 1 .. Len(s) + Len(t) /\ (s \o t)[c] \in S /\ c \notin A
    BY <1>1 DEF At
  <2>2. c > Len(s)
    BY <1>1, <2>1 DEF At
  <2>3. c - Len(s) \in 1 .. Len(t) /\ c = Len(s) + (c - Len(s))
    BY <1>1, <2>1, <2>2
  <2> QED BY <1>1, <2>1, <2>3 DEF At
<1>5. ExistsBijection(B, C)
  <2>1. f \in [B -> C]
    <3>1. ASSUME NEW i \in B PROVE Len(s) + i \in C
      BY <1>1 DEF At
    <3> QED BY <3>1
  <2>2. \A i, j \in B : f[i] = f[j] => i = j
    BY <1>1 DEF At
  <2>3. \A c \in C : \E i \in B : f[i] = c
    BY <1>4
  <2> QED BY <2>1, <2>2, <2>3 DEF ExistsBijection, Bijection, Injection, Surjection, IsInjective
<1>6. Cardinality(C) = Cardinality(B) /\ IsFiniteSet(C)
  BY <1>2, <1>5, FS_Bijection
<1>7. At(s \o t, S) = A \cup C /\ A \cap C = {}
  BY <1>3
<1>8. Cardinality(A \cup C) = Cardinality(A) + Cardinality(C) - Cardinality(A \cap C)
  BY <1>2, <1>6, FS_Union
<1>9. Cardinality(A \cap C) = 0
  BY <1>7, FS_EmptySet
<1> HIDE DEF A, B, C, f
<1> QED BY <1>2, <1>6, <1>7, <1>8, <1>9

-----------------------------------------------------------------------------
(* The worker's few positions *)

LEMMA DistinctAppend ==
  ASSUME NEW T, NEW s \in Seq(T), NEW e \in T, Distinct(s), e \notin ToSet(s)
  PROVE  Distinct(Append(s, e))
<1>1. /\ Len(s) \in Nat /\ DOMAIN s = 1 .. Len(s) /\ DOMAIN Append(s, e) = 1 .. Len(s) + 1
      /\ \A i \in 1 .. Len(s) : Append(s, e)[i] = s[i]
      /\ Append(s, e)[Len(s) + 1] = e
  BY Indices, Appended
<1>2. \A i \in 1 .. Len(s) : s[i] # e
  BY <1>1, ToSetSays
<1>3. \A i \in 1 .. Len(s) + 1 : i \in 1 .. Len(s) \/ i = Len(s) + 1
  BY <1>1
<1> QED BY <1>1, <1>2, <1>3 DEF Distinct

LEMMA DistinctTail ==
  ASSUME NEW T, NEW s \in Seq(T), Distinct(s), s # <<>>
  PROVE  Distinct(Tail(s)) /\ ToSet(s) = ToSet(Tail(s)) \cup {Head(s)}
<1>1. /\ Len(s) \in Nat /\ DOMAIN s = 1 .. Len(s) /\ DOMAIN Tail(s) = 1 .. Len(s) - 1
      /\ \A i \in 1 .. Len(s) - 1 : Tail(s)[i] = s[i + 1]
      /\ Head(s) = s[1] /\ 1 \in DOMAIN s /\ Tail(s) \in Seq(T) /\ ToSet(Tail(s)) \subseteq ToSet(s)
  BY Indices, Taken
<1>2. Distinct(Tail(s))
  <2> SUFFICES ASSUME NEW i \in 1 .. Len(s) - 1, NEW j \in 1 .. Len(s) - 1, s[i + 1] = s[j + 1]
               PROVE  i = j
    BY <1>1 DEF Distinct
  <2>1. i + 1 \in DOMAIN s /\ j + 1 \in DOMAIN s
    BY <1>1
  <2>2. i + 1 = j + 1
    BY <2>1 DEF Distinct
  <2> QED BY <2>2
<1>3. ASSUME NEW i \in DOMAIN s PROVE s[i] \in ToSet(Tail(s)) \cup {Head(s)}
  <2>1. CASE i = 1
    BY <1>1, <2>1
  <2>2. CASE i # 1
    <3>1. i - 1 \in 1 .. Len(s) - 1 /\ (i - 1) + 1 = i
      BY <1>1, <2>2
    <3>2. Tail(s)[i - 1] = s[i]
      BY <1>1, <3>1
    <3>3. Tail(s)[i - 1] \in ToSet(Tail(s))
      BY <1>1, <3>1 DEF ToSet
    <3> QED BY <3>2, <3>3
  <2> QED BY <2>1, <2>2
<1>4. Head(s) \in ToSet(s)
  BY <1>1, ToSetSays
<1>5. \A x \in ToSet(s) : x \in ToSet(Tail(s)) \cup {Head(s)}
  BY <1>3, ToSetSays
<1> QED BY <1>1, <1>2, <1>4, <1>5

Asking ==
  {m \in OfType({"install", "evaluate", "commit", "confirm", "reset"}) :
     /\ m.type # "reset" => m.pos \in Positions
     /\ m.type \in {"commit", "confirm"} => m.turn \in Turns}
Telling ==
  {m \in OfType({"installed", "evaluated", "evicted", "predicted", "confirmed", "desynced", "error",
                 "reset", "refused"}) :
     /\ m.type \in {"installed", "evicted", "predicted", "confirmed"} => m.pos \in Positions
     /\ m.type \in {"predicted", "confirmed"} => m.turn \in Turns}
Waiting == {m \in Asking : m.type # "reset"}
Eviction == {m \in Telling : m.type = "evicted"}

Kept == [held : Seq(Positions), out : Seq(Eviction)]
Trim(s) == s \in Kept /\ Distinct(s.held) /\ Len(s.held) <= MaxPositions

\* What s held, r holds or tells that it was evicted.
Accounts(s, r) ==
  \A q \in ToSet(s.held) : q \in ToSet(r.held) \/ \E j \in DOMAIN r.out : r.out[j].pos = q

LEMMA PutLaw ==
  ASSUME NEW s, Trim(s), NEW p \in Positions
  PROVE  /\ Trim(Put(s, p)) /\ Accounts(s, Put(s, p)) /\ p \in ToSet(Put(s, p).held)
         /\ \A j \in DOMAIN s.out : j \in DOMAIN Put(s, p).out /\ Put(s, p).out[j] = s.out[j]
         /\ p \in ToSet(s.held) => ToSet(Put(s, p).held) = ToSet(s.held)
<1> DEFINE f == RemoveFirst(s.held, p)
           h == Append(f, p)
           r == Put(s, p)
<1>1. s.held \in Seq(Positions) /\ s.out \in Seq(Eviction) /\ Distinct(s.held) /\ Len(s.held) <= MaxPositions
  BY DEF Trim, Kept
<1>2. /\ f \in Seq(Positions) /\ Distinct(f) /\ ToSet(f) = ToSet(s.held) \ {p}
      /\ Len(f) = Len(s.held) - (IF p \in ToSet(s.held) THEN 1 ELSE 0)
  BY <1>1, Removed
<1>3. /\ h \in Seq(Positions) /\ Len(h) = Len(f) + 1 /\ DOMAIN h = 1 .. Len(f) + 1
      /\ h[Len(f) + 1] = p /\ ToSet(h) = ToSet(f) \cup {p} /\ Distinct(h)
  <2> HIDE DEF f
  <2>1. f \in Seq(Positions) /\ Distinct(f) /\ p \notin ToSet(f)
    BY <1>2
  <2>2. Distinct(h)
    BY <2>1, DistinctAppend
  <2> QED BY <2>1, <2>2, Appended
<1>4. Len(f) \in Nat /\ Len(s.held) \in Nat /\ MaxPositions \in Nat \ {0}
  BY <1>1, <1>2, Indices, GoAssumption
<1>5. r = IF Len(h) <= MaxPositions THEN [s EXCEPT !.held = h]
          ELSE [held |-> Tail(h), out |-> Append(s.out, Msg("evicted", Head(h), NoTurn))]
  BY DEF Put
<1> HIDE DEF f, h, r
<1>6. CASE Len(h) <= MaxPositions
  <2>1. r.held = h /\ r.out = s.out /\ r \in Kept
    BY <1>1, <1>3, <1>5, <1>6 DEF Trim, Kept
  <2> QED BY <1>2, <1>3, <1>6, <2>1 DEF Trim, Accounts, r
<1>7. CASE ~(Len(h) <= MaxPositions)
  <2> DEFINE m == Msg("evicted", Head(h), NoTurn)
  <2>1. p \notin ToSet(s.held) /\ Len(h) = MaxPositions + 1
    <3>1. CASE p \in ToSet(s.held)
      BY <1>1, <1>2, <1>3, <1>4, <1>7, <3>1
    <3>2. CASE p \notin ToSet(s.held)
      BY <1>1, <1>2, <1>3, <1>4, <1>7, <3>2
    <3> QED BY <3>1, <3>2
  <2>2. h # <<>>
    BY <1>3, <1>4, EmptySeq
  <2>3. /\ Tail(h) \in Seq(Positions) /\ Head(h) \in Positions /\ Len(Tail(h)) = MaxPositions
        /\ DOMAIN Tail(h) = 1 .. Len(h) - 1
        /\ \A i \in 1 .. Len(h) - 1 : Tail(h)[i] = h[i + 1]
    <3>1. Len(Tail(h)) = Len(h) - 1
      BY <1>3, <2>2, Taken
    <3>2. Len(h) - 1 = MaxPositions
      BY <1>4, <2>1
    <3> QED BY <1>3, <2>2, <3>1, <3>2, Taken
  <2>4. Distinct(Tail(h)) /\ ToSet(h) = ToSet(Tail(h)) \cup {Head(h)}
    BY <1>3, <2>2, DistinctTail
  <2>5. p \in ToSet(Tail(h))
    <3>1. Len(f) \in 1 .. Len(h) - 1
      BY <1>3, <1>4, <2>1
    <3>2. Tail(h)[Len(f)] = p
      BY <1>3, <2>3, <3>1
    <3> QED BY <2>3, <3>1, <3>2, ToSetSays
  <2>6. m \in Eviction /\ m.pos = Head(h)
    BY <2>3 DEF Msg, Eviction, Telling, OfType, Message, Types
  <2> HIDE DEF m
  <2>7. /\ Append(s.out, m) \in Seq(Eviction) /\ DOMAIN Append(s.out, m) = 1 .. Len(s.out) + 1
        /\ \A j \in 1 .. Len(s.out) : Append(s.out, m)[j] = s.out[j]
        /\ Append(s.out, m)[Len(s.out) + 1] = m
        /\ Len(s.out) \in Nat /\ DOMAIN s.out = 1 .. Len(s.out)
    BY <1>1, <2>6, Appended, Indices
  <2>8. r.held = Tail(h) /\ r.out = Append(s.out, m) /\ r \in Kept
    BY <1>5, <1>7, <2>3, <2>7 DEF Kept, m
  <2>9. \A j \in DOMAIN s.out : j \in DOMAIN r.out /\ r.out[j] = s.out[j]
    BY <2>7, <2>8
  <2>10. Accounts(s, r)
    <3>1. Len(s.out) + 1 \in DOMAIN r.out /\ r.out[Len(s.out) + 1].pos = Head(h)
      BY <2>6, <2>7, <2>8
    <3> QED BY <1>2, <1>3, <2>4, <2>8, <3>1 DEF Accounts
  <2>11. Trim(r)
    BY <1>4, <2>3, <2>4, <2>8 DEF Trim
  <2> QED BY <2>1, <2>5, <2>8, <2>9, <2>10, <2>11 DEF r
<1> QED BY <1>6, <1>7

\* The positions after each of ps was put.
Putting(ps, skip, z, f) ==
  f = [n \in 0 .. Len(ps) |-> IF n = 0 THEN z
                              ELSE IF ps[n] \in skip THEN f[n - 1] ELSE Put(f[n - 1], ps[n])]

LEMMA PutsDef ==
  ASSUME NEW ps, NEW skip
  PROVE  Puts(ps, skip) = (CHOOSE f : Putting(ps, skip, [held |-> held, out |-> <<>>], f))[Len(ps)]
BY DEF Puts, Putting

LEMMA PuttingExists ==
  ASSUME NEW ps, Len(ps) \in Nat, NEW skip, NEW z
  PROVE  \E f : Putting(ps, skip, z, f)
<1> DEFINE N == Len(ps)
           Step(f, n) == IF ps[n] \in skip THEN f[n - 1] ELSE Put(f[n - 1], ps[n])
           Filled(f, n) == /\ f = [k \in 0 .. N |-> f[k]]
                         /\ \A k \in 0 .. N : k <= n => f[k] = IF k = 0 THEN z ELSE Step(f, k)
           G == {n \in Nat : \E f : Filled(f, n)}
<1>1. Nat \subseteq G
  <2>1. ASSUME NEW n \in Nat, n = 0 \/ (n - 1) \in G PROVE n \in G
    <3>1. CASE n = 0
      <4> DEFINE g == [k \in 0 .. N |-> z]
      <4>1. Filled(g, n)
        BY <3>1
      <4> QED BY <4>1
    <3>2. CASE n # 0
      <4>1. PICK f : Filled(f, n - 1)
        BY <2>1, <3>2
      <4> DEFINE g == [k \in 0 .. N |-> IF k = n THEN Step(f, k) ELSE f[k]]
      <4>2. g = [k \in 0 .. N |-> g[k]]
        OBVIOUS
      <4>3. ASSUME NEW k \in 0 .. N, k <= n
            PROVE  g[k] = IF k = 0 THEN z ELSE Step(g, k)
        <5>1. CASE k = 0
          <6>1. k # n /\ 0 <= n - 1
            BY <3>2, <5>1
          <6>2. g[k] = f[k] /\ f[k] = z
            <7>1. f[k] = z
              BY <4>1, <5>1, <6>1
            <7> HIDE DEF Step
            <7> QED BY <6>1, <7>1
          <6> QED BY <5>1, <6>2
        <5>2. CASE k # 0
          <6>1. k - 1 \in 0 .. N /\ k - 1 # n /\ g[k - 1] = f[k - 1]
            BY <4>3, <5>2
          <6>2. g[k] = Step(f, k)
            BY <3>2, <4>1, <4>3, <5>2
          <6> QED BY <5>2, <6>1, <6>2
        <5> QED BY <5>1, <5>2
      <4> HIDE DEF g
      <4>4. Filled(g, n)
        BY <4>2, <4>3
      <4> QED BY <4>4
    <3> QED BY <3>1, <3>2
  <2> HIDE DEF G
  <2> QED BY <2>1, NatSetInduction
<1>2. PICK f : Filled(f, N)
  BY <1>1
<1>3. Putting(ps, skip, z, f)
  <2> DEFINE F == [k \in 0 .. N |-> IF k = 0 THEN z ELSE Step(f, k)]
  <2> HIDE DEF Step
  <2>1. /\ f = [k \in 0 .. N |-> f[k]]
        /\ \A k \in 0 .. N : f[k] = IF k = 0 THEN z ELSE Step(f, k)
    <3>1. \A k \in 0 .. N : k <= N
      OBVIOUS
    <3> QED BY <1>2, <3>1
  <2>2. f = F
    BY <2>1
  <2> QED BY <2>2 DEF Putting, Step
<1> QED BY <1>3

\* The positions put, one after the other: what was held is held or told to be
\* evicted, and the last one put is held.
LEMMA PutsLaw ==
  ASSUME NEW ps \in Seq(Positions), NEW skip, held \in Seq(Positions), Distinct(held), Len(held) <= MaxPositions
  PROVE  /\ Trim(Puts(ps, skip)) /\ Accounts([held |-> held, out |-> <<>>], Puts(ps, skip))
         /\ ps # <<>> /\ ps[Len(ps)] \notin skip => ps[Len(ps)] \in ToSet(Puts(ps, skip).held)
<1> DEFINE z == [held |-> held, out |-> <<>>]
           f == CHOOSE g : Putting(ps, skip, z, g)
           G == {n \in Nat : n <= Len(ps) =>
                   /\ Trim(f[n]) /\ Accounts(z, f[n])
                   /\ n # 0 /\ ps[n] \notin skip => ps[n] \in ToSet(f[n].held)}
<1>1. Len(ps) \in Nat /\ DOMAIN ps = 1 .. Len(ps) /\ \A i \in DOMAIN ps : ps[i] \in Positions
  BY Indices
<1>2. Putting(ps, skip, z, f)
  BY <1>1, PuttingExists
<1>3. Trim(z) /\ Accounts(z, z)
  BY DEF Trim, Kept, Accounts
<1> HIDE DEF f, z
<1>4. \A n \in 0 .. Len(ps) : f[n] = IF n = 0 THEN z
                               ELSE IF ps[n] \in skip THEN f[n - 1] ELSE Put(f[n - 1], ps[n])
  BY <1>2 DEF Putting
<1>5. Nat \subseteq G
  <2>1. ASSUME NEW n \in Nat, n = 0 \/ (n - 1) \in G PROVE n \in G
    <3>1. CASE n = 0
      BY <1>1, <1>3, <1>4, <3>1
    <3>2. CASE n # 0 /\ n <= Len(ps) /\ ps[n] \notin skip
      <4>1. Trim(f[n - 1]) /\ Accounts(z, f[n - 1]) /\ f[n] = Put(f[n - 1], ps[n]) /\ ps[n] \in Positions
        BY <1>1, <1>4, <2>1, <3>2
      <4> DEFINE a == f[n - 1]
                 b == f[n]
      <4> HIDE DEF a, b
      <4>2. /\ Trim(b) /\ Accounts(a, b) /\ ps[n] \in ToSet(b.held)
            /\ \A j \in DOMAIN a.out : j \in DOMAIN b.out /\ b.out[j] = a.out[j]
        BY <4>1, PutLaw DEF a, b
      <4>3. Accounts(z, b)
        BY <4>1, <4>2 DEF Accounts, a
      <4> QED BY <4>2, <4>3 DEF b
    <3>4. CASE n # 0 /\ n <= Len(ps) /\ ps[n] \in skip
      <4>1. Trim(f[n - 1]) /\ Accounts(z, f[n - 1]) /\ f[n] = f[n - 1]
        BY <1>1, <1>4, <2>1, <3>4
      <4> QED BY <3>4, <4>1
    <3>3. CASE ~(n <= Len(ps))
      BY <3>3
    <3> QED BY <3>1, <3>2, <3>3, <3>4
  <2> HIDE DEF G
  <2> QED BY <2>1, NatSetInduction
<1>6. Puts(ps, skip) = f[Len(ps)]
  BY PutsDef DEF f, z
<1>7. ps # <<>> => Len(ps) # 0
  BY EmptySeq
<1>8. Len(ps) \in G
  BY <1>1, <1>5
<1> QED BY <1>1, <1>6, <1>7, <1>8 DEF z

-----------------------------------------------------------------------------
(* What the invariant says of the worker *)

Stages == {"none", "source", "begin", "tasks", "engine"}

DriverOK ==
  /\ pc \in {"idle", "install", "planned", "evaluate", "ready", "turn"}
  /\ view \in Positions /\ parent \in Turns \cup {NoTurn}
  /\ last \in Turns \cup {NoTurn} /\ mine \in Turns \cup {NoTurn}
  /\ stale \in BOOLEAN /\ gone \in BOOLEAN
  /\ known \subseteq Positions
  /\ pushed \subseteq Turns \X Positions /\ pred \subseteq Turns \X Positions
  /\ asked \in Nat /\ failed \in BOOLEAN
  /\ resetsLeft \in 0 .. Resets /\ crashesLeft \in 0 .. Crashes
  /\ mine # NoTurn => pc = "turn"

WiresOK == req \in Seq(Asking) /\ rsp \in Seq(Telling) /\ late \in Seq(Waiting)

\* The worker keeps few positions, and evaluates each in one place.
StoreOK ==
  /\ held \in Seq(Positions) /\ Distinct(held) /\ Len(held) <= MaxPositions
  /\ evald \subseteq ToSet(held) /\ queue \in Seq(Item)
  /\ \A i \in DOMAIN queue : queue[i].live => queue[i].pos \in ToSet(held)
  /\ \A i, j \in DOMAIN queue :
       queue[i].live /\ queue[j].live /\ queue[i].pos = queue[j].pos => i = j

CommitOK ==
  /\ active = NoCommit \/ active \in Turns \X Positions
  /\ job \in [turn : Turns \cup {NoTurn}, stage : Stages, pos : Positions \cup {NoPos},
              tasks : SUBSET Positions, fresh : BOOLEAN]
  /\ job.stage = "none" => job.turn = NoTurn /\ ~job.fresh
  /\ job.stage # "none" => job.turn \in Turns /\ job.pos \in Positions

\* A reset is the last thing in the queue, and no commit outlives it.
ResetLast ==
  /\ resetting \in BOOLEAN
  /\ resetting => ~job.fresh /\ queue # <<>> /\ queue[Len(queue)].pos = NoPos
  /\ \A i \in DOMAIN queue : queue[i].pos = NoPos =>
       resetting /\ i = Len(queue) /\ ~queue[i].tick

WorkerOK == StoreOK /\ CommitOK /\ ResetLast

-----------------------------------------------------------------------------
(* Messages *)

LEMMA MsgIs ==
  ASSUME NEW a, NEW p, NEW t
  PROVE  Msg(a, p, t).type = a /\ Msg(a, p, t).pos = p /\ Msg(a, p, t).turn = t
BY DEF Msg

LEMMA AskingMsg ==
  ASSUME NEW p \in Positions
  PROVE  /\ \A t \in Turns \cup {NoTurn} : Msg("install", p, t) \in Asking
         /\ Msg("evaluate", p, NoTurn) \in Asking /\ Msg("reset", NoPos, NoTurn) \in Asking
         /\ \A t \in Turns : Msg("commit", p, t) \in Asking /\ Msg("confirm", p, t) \in Asking
BY DEF Msg, Asking, OfType, Message, Types

LEMMA TellingMsg ==
  ASSUME NEW t \in Turns \cup {NoTurn}
  PROVE  /\ \A p \in Positions : Msg("installed", p, NoTurn) \in Telling
         /\ \A p \in Positions \cup {NoPos} :
              Msg("error", p, NoTurn) \in Telling /\ Msg("evaluated", p, NoTurn) \in Telling
         /\ \A p \in Positions : t \in Turns =>
              Msg("predicted", p, t) \in Telling /\ Msg("confirmed", p, t) \in Telling
         /\ Msg("desynced", NoPos, t) \in Telling
         /\ Msg("reset", NoPos, NoTurn) \in Telling /\ Msg("refused", NoPos, NoTurn) \in Telling
BY DEF Msg, Telling, OfType, Message, Types

LEMMA MessageSays ==
  /\ \A m \in Asking : /\ m \in Message /\ (m.type # "reset" => m.pos \in Positions)
                       /\ m.turn \in Turns \cup {NoTurn}
                       /\ m.type \in {"commit", "confirm"} => m.turn \in Turns
                       /\ m.type \in {"install", "evaluate", "commit", "confirm", "reset"}
  /\ \A m \in Telling : /\ m \in Message /\ m.turn \in Turns \cup {NoTurn}
                        /\ m.type \in {"installed", "evicted", "predicted", "confirmed"} => m.pos \in Positions
                        /\ m.type \in {"predicted", "confirmed"} => m.turn \in Turns
                        /\ m.type \in {"installed", "evaluated", "evicted", "predicted", "confirmed",
                                       "desynced", "error", "reset", "refused"}
  /\ \A m \in Message : \A types : m \in OfType(types) <=> m.type \in types
BY DEF Asking, Telling, OfType, Message

LEMMA Singles ==
  ASSUME NEW T, NEW e \in T
  PROVE  /\ <<e>> \in Seq(T) /\ Len(<<e>>) = 1 /\ DOMAIN <<e>> = 1 .. 1 /\ <<e>>[1] = e
         /\ <<>> \in Seq(T) /\ Len(<<>>) = 0 /\ DOMAIN <<>> = {}
OBVIOUS

-----------------------------------------------------------------------------
(* What the worker does to its store *)

\* The tasks of the queue are the same, some of them no longer wanted.
SameTasks ==
  /\ DOMAIN queue' = DOMAIN queue
  /\ \A i \in DOMAIN queue : /\ queue'[i].pos = queue[i].pos /\ queue'[i].tick = queue[i].tick
                             /\ queue'[i].jobs = queue[i].jobs /\ (queue'[i].live => queue[i].live)

LEMMA ItemSays ==
  \A e \in Item : /\ e.pos \in Positions \cup {NoPos} /\ e.tick \in BOOLEAN
                  /\ e.jobs \in SUBSET Turns /\ e.live \in BOOLEAN
                  /\ \A b \in BOOLEAN, c \in BOOLEAN, J \in SUBSET Turns :
                       [pos |-> e.pos, tick |-> b, jobs |-> J, live |-> c] \in Item
BY DEF Item

LEMMA PutAllLaw ==
  ASSUME NEW ps \in Seq(Positions), NEW skip, NEW m \in Seq(Telling), StoreOK, rsp \in Seq(Telling), PutAll(ps, skip, m)
  PROVE  /\ StoreOK' /\ SameTasks
         /\ ps # <<>> /\ ps[Len(ps)] \notin skip => ps[Len(ps)] \in ToSet(held')
         /\ \E out \in Seq(Eviction) :
              /\ rsp' = rsp \o out \o m
              /\ \A q \in ToSet(held) : q \in ToSet(held') \/ \E j \in DOMAIN out : out[j].pos = q
<1> DEFINE s == Puts(ps, skip)
           lost == {x.pos : x \in ToSet(s.out)}
<1>1. /\ Trim(s) /\ Accounts([held |-> held, out |-> <<>>], s)
      /\ ps # <<>> /\ ps[Len(ps)] \notin skip => ps[Len(ps)] \in ToSet(s.held)
  BY PutsLaw DEF StoreOK
<1>2. /\ held' = s.held /\ rsp' = rsp \o s.out \o m
      /\ evald' = evald \ lost
      /\ queue' = [i \in DOMAIN queue |->
                     IF queue[i].pos \in lost THEN [queue[i] EXCEPT !.live = FALSE] ELSE queue[i]]
  BY DEF PutAll
<1> HIDE DEF s
<1>3. s.held \in Seq(Positions) /\ s.out \in Seq(Eviction) /\ Distinct(s.held) /\ Len(s.held) <= MaxPositions
  BY <1>1 DEF Trim, Kept
<1>4. \A q \in ToSet(held) : q \in ToSet(s.held) \/ \E j \in DOMAIN s.out : s.out[j].pos = q
  BY <1>1 DEF Accounts
<1>5. \A q \in ToSet(held) : q \in ToSet(s.held) \/ q \in lost
  BY <1>3, <1>4 DEF ToSet
<1> HIDE DEF lost
<1>6. queue \in Seq(Item) /\ DOMAIN queue = 1 .. Len(queue) /\ \A i \in DOMAIN queue : queue[i] \in Item
  BY Indices DEF StoreOK
<1>7. \A i \in DOMAIN queue :
        /\ queue'[i] \in Item /\ queue'[i].pos = queue[i].pos /\ queue'[i].tick = queue[i].tick
        /\ queue'[i].jobs = queue[i].jobs
        /\ queue'[i].live = (queue[i].live /\ queue[i].pos \notin lost)
  BY <1>2, <1>6 DEF Item
<1>8. queue' \in Seq(Item) /\ DOMAIN queue' = DOMAIN queue
  <2>1. DOMAIN queue' = 1 .. Len(queue) /\ queue' = [i \in 1 .. Len(queue) |-> queue'[i]]
    BY <1>2, <1>6
  <2>2. Len(queue) \in Nat
    BY <1>6, Indices
  <2>3. queue' \in [1 .. Len(queue) -> Item]
    BY <1>6, <1>7, <2>1
  <2>4. queue' \in Seq(Item)
    BY <2>2, <2>3, SeqDef
  <2> QED BY <1>6, <2>1, <2>4
<1>9. StoreOK'
  <2>1. evald' \subseteq ToSet(held')
    BY <1>2, <1>5 DEF StoreOK
  <2>2. \A i \in DOMAIN queue' : queue'[i].live => queue'[i].pos \in ToSet(held')
    BY <1>2, <1>5, <1>7, <1>8 DEF StoreOK
  <2>3. \A i, j \in DOMAIN queue' :
          queue'[i].live /\ queue'[j].live /\ queue'[i].pos = queue'[j].pos => i = j
    BY <1>7, <1>8 DEF StoreOK
  <2> QED BY <1>2, <1>3, <1>8, <2>1, <2>2, <2>3 DEF StoreOK
<1> QED BY <1>1, <1>2, <1>3, <1>4, <1>7, <1>8, <1>9 DEF SameTasks

\* An evaluation joins the one that runs, with another demand.
Joins(k, b, J) ==
  queue' = [queue EXCEPT ![k] = [queue[k] EXCEPT !.tick = queue[k].tick \/ b,
                                                 !.jobs = queue[k].jobs \cup J]]

LEMMA WantLaw ==
  ASSUME NEW p \in ToSet(held), NEW b \in BOOLEAN, NEW J \in SUBSET Turns, StoreOK, Want(p, b, J)
  PROVE  /\ StoreOK' /\ ToSet(held') = ToSet(held) /\ evald' = evald
         /\ p \in evald => queue' = queue
         /\ p \notin evald =>
              \/ \E k \in DOMAIN queue : queue[k].pos = p /\ queue[k].live /\ Joins(k, b, J)
              \/ queue' = Append(queue, [pos |-> p, tick |-> b, jobs |-> J, live |-> TRUE])
<1> DEFINE z == [held |-> held, out |-> <<>>]
           e == [pos |-> p, tick |-> b, jobs |-> J, live |-> TRUE]
<1>1. held \in Seq(Positions) /\ p \in Positions /\ Trim(z)
  BY ToSetSays DEF StoreOK, Trim, Kept
<1>2. Trim(Put(z, p)) /\ ToSet(Put(z, p).held) = ToSet(held)
  BY <1>1, PutLaw
<1>3. /\ held' \in Seq(Positions) /\ Distinct(held') /\ Len(held') <= MaxPositions
      /\ ToSet(held') = ToSet(held) /\ evald' = evald
  BY <1>2 DEF Want, Trim, Kept
<1>4. /\ queue \in Seq(Item) /\ Len(queue) \in Nat /\ DOMAIN queue = 1 .. Len(queue)
      /\ \A i \in DOMAIN queue : queue[i] \in Item
  BY Indices DEF StoreOK
<1>5. e \in Item
  BY <1>1 DEF Item
<1> HIDE DEF e
<1>6. CASE p \in evald
  <2>1. queue' = queue
    BY <1>6 DEF Want
  <2> QED BY <1>3, <1>6, <2>1 DEF StoreOK
<1>7. CASE p \notin evald /\ Running(p) # {}
  <2>1. PICK k \in DOMAIN queue : queue[k].pos = p /\ queue[k].live
    BY <1>7 DEF Running
  <2>2. Running(p) = {k}
    BY <2>1 DEF Running, StoreOK
  <2> DEFINE n == [queue[k] EXCEPT !.tick = queue[k].tick \/ b, !.jobs = queue[k].jobs \cup J]
  <2>3. n \in Item
    BY <1>4, <2>1 DEF Item
  <2>4. queue' = [i \in DOMAIN queue |-> IF i = k THEN n ELSE queue[i]]
    BY <1>7, <2>2 DEF Want
  <2>5. n.pos = p /\ n.live
    BY <1>4, <2>1 DEF Item
  <2>6. Joins(k, b, J)
    BY <2>4 DEF Joins
  <2> HIDE DEF n
  <2>7. queue' \in Seq(Item) /\ DOMAIN queue' = DOMAIN queue
    BY <1>4, <2>3, <2>4
  <2>8. StoreOK'
    BY <1>3, <2>1, <2>4, <2>5, <2>7 DEF StoreOK
  <2> QED BY <1>3, <1>7, <2>1, <2>6, <2>8
<1>8. CASE p \notin evald /\ Running(p) = {}
  <2>1. queue' = Append(queue, e)
    BY <1>8 DEF Want, e
  <2>2. /\ queue' \in Seq(Item) /\ DOMAIN queue' = 1 .. Len(queue) + 1
        /\ \A i \in 1 .. Len(queue) : queue'[i] = queue[i]
        /\ queue'[Len(queue) + 1] = e
    BY <1>4, <1>5, <2>1, Appended
  <2>3. \A i \in 1 .. Len(queue) + 1 : i \in 1 .. Len(queue) \/ i = Len(queue) + 1
    BY <1>4
  <2>4. \A i \in DOMAIN queue : ~(queue[i].live /\ queue[i].pos = p)
    BY <1>8 DEF Running
  <2>5. e.pos = p
    BY DEF e
  <2>6. StoreOK'
    BY <1>3, <1>4, <2>2, <2>3, <2>4, <2>5 DEF StoreOK
  <2> QED BY <1>3, <1>8, <2>1, <2>6 DEF e
<1> QED BY <1>6, <1>7, <1>8

-----------------------------------------------------------------------------
(* What the steps of the driver and the client keep of the types *)

Same == UNCHANGED <<worker, rsp>>

DriverStep ==
  \/ Install \/ Hold \/ Evaluate \/ DispatchPlain \/ Rehydrate
  \/ \E t \in Turns : DispatchCommit(t)
  \/ \E p \in Positions : Answered(p)
  \/ Reset /\ ~failed

LEMMA PairLaw ==
  ASSUME NEW S \in SUBSET (Turns \X Positions), NEW t, NEW p
  PROVE  Pruned(S, t, p) \subseteq S /\ Finished(S, t) \subseteq S
BY DEF Pruned, Finished

LEMMA DriverTyped ==
  ASSUME DriverOK, DriverStep
  PROVE  DriverOK' /\ Same /\ (req' = req \/ \E m \in Asking : req' = Append(req, m))
<1> USE DEF Same, worker, store, commits
<1>0. /\ \A t \in Turns \cup {NoTurn} : Msg("install", view, t) \in Asking
      /\ Msg("evaluate", view, NoTurn) \in Asking /\ Msg("reset", NoPos, NoTurn) \in Asking
      /\ \A p \in Positions, t \in Turns : Msg("commit", p, t) \in Asking /\ Msg("confirm", p, t) \in Asking
      /\ NoTurn \notin Turns
      /\ pushed \in SUBSET (Turns \X Positions) /\ pred \in SUBSET (Turns \X Positions)
  BY AskingMsg, GoAssumption DEF DriverOK
<1>1. CASE Install
  <2>1. pushed' \subseteq Turns \X Positions /\ pred' \subseteq Turns \X Positions
    <3>1. CASE view \in known \/ <<last, view>> \in pushed
      <4>1. pushed' = Finished(pushed, last) /\ pred' = Pruned(pred, last, view)
        BY <1>1, <3>1 DEF Install, AcceptParent
      <4> QED BY <1>0, <4>1, PairLaw
    <3>2. CASE ~(view \in known \/ <<last, view>> \in pushed)
      BY <1>1, <3>2 DEF Install, DriverOK
    <3> QED BY <3>1, <3>2
  <2>2. known' \subseteq Positions
    BY <1>1 DEF Install, DriverOK
  <2> QED BY <1>0, <1>1, <2>1, <2>2 DEF Install, DriverOK, faults
<1>2. CASE Hold
  BY <1>2 DEF Hold, DriverOK, Stage, client, faults
<1>3. CASE Evaluate
  BY <1>0, <1>3 DEF Evaluate, DriverOK, Stage, faults
<1>4. CASE DispatchPlain
  BY <1>4 DEF DispatchPlain, DriverOK, client, faults
<1>5. CASE Rehydrate
  BY <1>5 DEF Rehydrate, DriverOK, Stage, client, faults
<1>6. ASSUME NEW t \in Turns, DispatchCommit(t)
      PROVE  DriverOK' /\ Same /\ (req' = req \/ \E m \in Asking : req' = Append(req, m))
  <2>1. pushed' \subseteq Turns \X Positions /\ pred' \subseteq Turns \X Positions
    <3>1. pushed' = Finished(pushed, parent) /\ pred' = Finished(pred, parent)
      BY <1>6 DEF DispatchCommit, FinishParent
    <3> QED BY <1>0, <3>1, PairLaw
  <2> QED BY <1>0, <1>6, <2>1 DEF DispatchCommit, DriverOK, faults
<1>7. ASSUME NEW p \in Positions, Answered(p)
      PROVE  DriverOK' /\ Same /\ (req' = req \/ \E m \in Asking : req' = Append(req, m))
  BY <1>0, <1>7 DEF Answered, DriverOK, Stage, client, faults
<1>8. CASE Reset /\ ~failed
  <2>1. /\ req' = Append(req, Msg("reset", NoPos, NoTurn)) /\ Same
        /\ known' = {} /\ pushed' = {} /\ pred' = {} /\ asked' = asked + 1
        /\ mine' = NoTurn /\ last' = NoTurn /\ view' \in Positions
        /\ resetsLeft > 0 /\ resetsLeft' = resetsLeft - 1
        /\ failed' = failed /\ crashesLeft' = crashesLeft
    BY <1>8 DEF Reset, Forget
  <2>2. /\ pc' \in {"idle", pc} /\ parent' \in {parent, NoTurn}
        /\ stale' \in BOOLEAN /\ (gone' = gone \/ gone' = FALSE)
    <3>1. IF pc \in {"ready", "turn"} THEN Stage("idle")
          ELSE stale' = (pc # "idle") /\ UNCHANGED <<pc, parent, gone>>
      BY <1>8 DEF Reset
    <3>2. CASE pc \in {"ready", "turn"}
      BY <3>1, <3>2 DEF Stage
    <3>3. CASE ~(pc \in {"ready", "turn"})
      BY <3>1, <3>3
    <3> QED BY <3>2, <3>3
  <2>3. resetsLeft' \in 0 .. Resets
    BY <2>1, GoAssumption DEF DriverOK
  <2>4. gone' \in BOOLEAN /\ failed' \in BOOLEAN
    BY <2>1, <2>2 DEF DriverOK
  <2>5. asked' \in Nat /\ crashesLeft' \in 0 .. Crashes
    BY <2>1 DEF DriverOK
  <2>6. DriverOK'
    BY <2>1, <2>2, <2>3, <2>4, <2>5 DEF DriverOK
  <2> QED BY <1>0, <2>1, <2>6
<1> QED BY <1>1, <1>2, <1>3, <1>4, <1>5, <1>6, <1>7, <1>8 DEF DriverStep

\* The worker and the channels are those of a new client.
Anew ==
  /\ req' = <<>> /\ rsp' = <<>> /\ late' = <<>>
  /\ held' = <<>> /\ evald' = {} /\ queue' = <<>> /\ resetting' = FALSE
  /\ active' = NoCommit /\ job' = NoJob

LEMMA EmptyLaw ==
  ASSUME NEW T
  PROVE  /\ <<>> \in Seq(T) /\ Len(<<>>) = 0 /\ DOMAIN <<>> = {}
         /\ Distinct(<<>>) /\ ToSet(<<>>) = {}
BY DEF Distinct, ToSet

LEMMA AnewTyped ==
  ASSUME Anew
  PROVE  WiresOK' /\ WorkerOK'
<1>1. MaxPositions \in Nat
  BY GoAssumption
<1>2. NoJob \in [turn : Turns \cup {NoTurn}, stage : Stages, pos : Positions \cup {NoPos},
              tasks : SUBSET Positions, fresh : BOOLEAN]
      /\ NoJob.stage = "none" /\ NoJob.turn = NoTurn /\ ~NoJob.fresh
  BY DEF NoJob, Stages
<1>3. WiresOK'
  BY EmptyLaw DEF Anew, WiresOK
<1>4. StoreOK'
  BY <1>1, EmptyLaw DEF Anew, StoreOK
<1>5. CommitOK'
  BY <1>2 DEF Anew, CommitOK
<1>6. ResetLast'
  BY EmptyLaw DEF Anew, ResetLast
<1> QED BY <1>3, <1>4, <1>5, <1>6 DEF WorkerOK

\* The client is replaced, or crashed.
Replaced ==
  /\ \/ Reset /\ failed
     \/ rsp # <<>> /\ Head(rsp).type = "refused" /\ Replace(FALSE) /\ UNCHANGED <<view, last, mine, faults>>
     \/ Crash

LEMMA ReplacedTyped ==
  ASSUME DriverOK, Replaced
  PROVE  DriverOK' /\ Anew
<1> DEFINE Left == /\ Anew /\ known' = {} /\ pushed' = {} /\ pred' = {} /\ asked' = 0 /\ ~failed'
                   /\ failed' \in BOOLEAN /\ stale' \in BOOLEAN /\ gone' \in BOOLEAN
                   /\ pc' \in {"idle", pc} /\ parent' \in {NoTurn, parent}
<1>0. /\ Replace(TRUE) => Left
      /\ Replace(FALSE) => Left /\ (pc = "turn" => pc' = "turn")
  <2>1. ASSUME Replace(TRUE) PROVE Left
    BY <2>1 DEF Replace, Stage, Forget, Anew
  <2>2. ASSUME Replace(FALSE) PROVE Left /\ (pc = "turn" => pc' = "turn")
    <3>1. CASE pc \in {"idle", "install", "evaluate"}
      BY <2>2, <3>1 DEF Replace, Stage, Forget, Anew
    <3>2. CASE ~(pc \in {"idle", "install", "evaluate"})
      BY <2>2, <3>2 DEF Replace, Forget, Anew, DriverOK
    <3> QED BY <3>1, <3>2
  <2> QED BY <2>1, <2>2
<1>1. CASE Reset /\ failed
  <2>1. /\ Replace(TRUE) /\ mine' = NoTurn /\ last' = NoTurn /\ view' \in Positions
        /\ resetsLeft > 0 /\ resetsLeft' = resetsLeft - 1 /\ crashesLeft' = crashesLeft
    BY <1>1 DEF Reset
  <2>2. resetsLeft' \in 0 .. Resets
    BY <2>1, GoAssumption DEF DriverOK
  <2> QED BY <1>0, <2>1, <2>2 DEF DriverOK
<1>2. CASE rsp # <<>> /\ Head(rsp).type = "refused" /\ Replace(FALSE) /\ UNCHANGED <<view, last, mine, faults>>
  BY <1>0, <1>2 DEF DriverOK, faults
<1>3. CASE Crash
  <2>1. crashesLeft' \in 0 .. Crashes /\ UNCHANGED <<view, last, mine, resetsLeft>>
    BY <1>3, GoAssumption DEF Crash, DriverOK
  <2>2. CASE asked > 0
    <3>1. Replace(FALSE)
      BY <1>3, <2>2 DEF Crash
    <3> QED BY <1>0, <2>1, <3>1 DEF DriverOK
  <2>3. CASE ~(asked > 0)
    BY <1>3, <2>1, <2>3 DEF Crash, Stage, DriverOK, Anew
  <2> QED BY <2>2, <2>3
<1> QED BY <1>1, <1>2, <1>3 DEF Replaced

\* The client takes a message.
Got == rsp # <<>> /\ rsp' = Tail(rsp) /\ UNCHANGED <<faults, worker, req, view, last, mine>>

Received ==
  /\ Got
  /\ Installed \/ Evaluated \/ TurnError \/ Evicted \/ Predicted \/ Confirmed \/ Desynced \/ ResetDone

LEMMA ReceiveCases ==
  ASSUME Receive
  PROVE  Received \/ Replaced
BY DEF Receive, Received, Replaced, Got, Installed, Evaluated, TurnError, Evicted, Predicted, Confirmed,
       Desynced, ResetDone, Replied, driver, client

LEMMA ReceivedTyped ==
  ASSUME DriverOK, WiresOK, Received, Head(rsp).type = "reset" => asked > 0,
         Head(rsp).type \in {"installed", "evaluated", "error"} => pc \in {"install", "evaluate"}
  PROVE  DriverOK' /\ rsp' \in Seq(Telling)
<1> DEFINE m == Head(rsp)
<1>1. m \in Telling /\ rsp' \in Seq(Telling)
  BY Taken DEF WiresOK, Received, Got
<1>2. /\ m.turn \in Turns \cup {NoTurn}
      /\ m.type \in {"installed", "evicted", "predicted", "confirmed"} => m.pos \in Positions
      /\ m.type \in {"predicted", "confirmed"} => m.turn \in Turns
  BY <1>1, MessageSays
<1>3. /\ UNCHANGED <<faults, view, last, mine>>
      /\ pushed \in SUBSET (Turns \X Positions) /\ pred \in SUBSET (Turns \X Positions)
  BY DEF Received, Got, DriverOK
<1> USE DEF faults
<1>4. CASE Installed
  <2>1. pushed' = Finished(pushed, parent) /\ pred' = Finished(pred, parent)
    BY <1>4 DEF Installed, FinishParent
  <2>2. pushed' \subseteq Turns \X Positions /\ pred' \subseteq Turns \X Positions
    BY <1>3, <2>1, PairLaw
  <2>3. known' \subseteq Positions
    BY <1>2, <1>4 DEF Installed, Replied, DriverOK
  <2> QED BY <1>1, <1>3, <1>4, <2>2, <2>3 DEF Installed, Replied, Stage, DriverOK
<1>5. CASE Evaluated
  BY <1>1, <1>3, <1>5 DEF Evaluated, Replied, Stage, DriverOK
<1>6. CASE TurnError
  BY <1>1, <1>3, <1>6 DEF TurnError, Stage, client, DriverOK
<1>7. CASE Evicted
  BY <1>1, <1>3, <1>7 DEF Evicted, driver, DriverOK
<1>8. CASE Predicted
  BY <1>1, <1>2, <1>3, <1>8 DEF Predicted, driver, DriverOK
<1>9. CASE Confirmed
  <2>1. /\ pushed' \subseteq pushed \cup {<<m.turn, m.pos>>} /\ pred' \subseteq pred
    <3>1. CASE m.pos \in Over
      <4>1. pushed' = Finished(pushed, m.turn) /\ pred' = Finished(pred, m.turn)
        BY <1>9, <3>1 DEF Confirmed, FinishParent
      <4> QED BY <4>1 DEF Finished
    <3>2. CASE m.pos \notin Over
      <4>1. /\ pushed' = Pruned(pushed, m.turn, m.pos)
                          \cup (IF m.pos \in known THEN {} ELSE {<<m.turn, m.pos>>})
            /\ pred' = Pruned(pred, m.turn, m.pos)
        BY <1>9, <3>2 DEF Confirmed
      <4> QED BY <4>1 DEF Pruned
    <3> QED BY <3>1, <3>2
  <2>2. <<m.turn, m.pos>> \in Turns \X Positions
    BY <1>2, <1>9 DEF Confirmed
  <2> QED BY <1>1, <1>3, <1>9, <2>1, <2>2 DEF Confirmed, driver, DriverOK
<1>10. CASE Desynced
  BY <1>1, <1>3, <1>10 DEF Desynced, Forget, driver, DriverOK
<1>11. CASE ResetDone
  BY <1>1, <1>3, <1>11 DEF ResetDone, driver, DriverOK
<1> QED BY <1>1, <1>4, <1>5, <1>6, <1>7, <1>8, <1>9, <1>10, <1>11 DEF Received

-----------------------------------------------------------------------------
(* What the worker's steps keep of the types *)

\* A request is taken: one that waited, or the next to arrive.
Taking(m) ==
  \/ late # <<>> /\ ~resetting /\ m = Head(late) /\ late' = Tail(late) /\ req' = req
  \/ /\ req # <<>> /\ m = Head(req) /\ req' = Tail(req) /\ late' = late
     /\ late = <<>> \/ resetting
     /\ resetting => m.type = "reset"

\* A request has to wait for the reset.
Holding ==
  /\ req # <<>> /\ resetting /\ Head(req).type # "reset"
  /\ req' = Tail(req) /\ late' = Append(late, Head(req))
  /\ UNCHANGED <<rsp, store, commits, resetting>>

LEMMA HandleCases ==
  ASSUME Handle
  PROVE  UNCHANGED <<driver, client, faults>> /\ (Holding \/ \E m : Taking(m) /\ Do(m))
BY DEF Handle, Holding, Taking

LEMMA TakingTyped ==
  ASSUME WiresOK, NEW m, Taking(m)
  PROVE  /\ m \in Asking /\ req' \in Seq(Asking) /\ late' \in Seq(Waiting)
         /\ resetting => m.type = "reset"
<1>1. CASE late # <<>> /\ ~resetting /\ m = Head(late) /\ late' = Tail(late) /\ req' = req
  <2>1. m \in Waiting /\ late' \in Seq(Waiting)
    BY <1>1, Taken DEF WiresOK
  <2> QED BY <1>1, <2>1 DEF Waiting, WiresOK
<1>2. CASE /\ req # <<>> /\ m = Head(req) /\ req' = Tail(req) /\ late' = late
           /\ resetting => m.type = "reset"
  BY <1>2, Taken DEF WiresOK
<1> QED BY <1>1, <1>2 DEF Taking

LEMMA HoldingTyped ==
  ASSUME WiresOK, Holding
  PROVE  req' \in Seq(Asking) /\ late' \in Seq(Waiting)
<1>1. Head(req) \in Waiting /\ req' \in Seq(Asking)
  BY Taken DEF WiresOK, Holding, Waiting
<1> QED BY <1>1, Appended DEF WiresOK, Holding

\* Nothing of the queue is a reset.
NoReset == \A i \in DOMAIN queue : queue[i].pos # NoPos

LEMMA Unreset ==
  ASSUME ResetLast
  PROVE  /\ ~resetting => NoReset
         /\ NoReset' /\ resetting' = FALSE => ResetLast'
BY DEF ResetLast, NoReset

LEMMA SameTasksReset == ASSUME NoReset, SameTasks PROVE NoReset'
BY DEF NoReset, SameTasks

LEMMA WantReset ==
  ASSUME NEW p \in ToSet(held), NEW b \in BOOLEAN, NEW J \in SUBSET Turns, StoreOK, Want(p, b, J), NoReset
  PROVE  NoReset'
<1>1. p \in Positions /\ p # NoPos /\ queue \in Seq(Item) /\ DOMAIN queue = 1 .. Len(queue) /\ Len(queue) \in Nat
  BY ToSetSays, Indices, GoAssumption DEF StoreOK
<1>2. CASE queue' = queue
  BY <1>2 DEF NoReset
<1>3. ASSUME NEW k \in DOMAIN queue, Joins(k, b, J) PROVE NoReset'
  <2>1. queue[k] \in Item
    BY <1>1, Indices
  <2> QED BY <1>3, <2>1 DEF NoReset, Joins, Item
<1>4. CASE queue' = Append(queue, [pos |-> p, tick |-> b, jobs |-> J, live |-> TRUE])
  <2> DEFINE e == [pos |-> p, tick |-> b, jobs |-> J, live |-> TRUE]
  <2>1. e \in Item /\ e.pos = p
    BY <1>1 DEF Item
  <2> HIDE DEF e
  <2>2. /\ DOMAIN queue' = 1 .. Len(queue) + 1
        /\ \A i \in 1 .. Len(queue) : queue'[i] = queue[i]
        /\ queue'[Len(queue) + 1] = e
    BY <1>1, <1>4, <2>1, Appended DEF e
  <2>3. \A i \in 1 .. Len(queue) + 1 : i \in 1 .. Len(queue) \/ i = Len(queue) + 1
    BY <1>1
  <2> QED BY <1>1, <2>1, <2>2, <2>3 DEF NoReset
<1>5. \/ queue' = queue
      \/ \E k \in DOMAIN queue : Joins(k, b, J)
      \/ queue' = Append(queue, [pos |-> p, tick |-> b, jobs |-> J, live |-> TRUE])
  BY WantLaw
<1> QED BY <1>2, <1>3, <1>4, <1>5

LEMMA StoreSame ==
  ASSUME StoreOK, held' = held, evald' = evald, queue' \in Seq(Item), DOMAIN queue' = DOMAIN queue,
         \A i \in DOMAIN queue : queue'[i].pos = queue[i].pos /\ (queue'[i].live => queue[i].live)
  PROVE  StoreOK'
BY DEF StoreOK

LEMMA BumpLaw ==
  ASSUME CommitOK, job' = job \/ Bump, active' = active \/ active' = NoCommit
  PROVE  /\ CommitOK' /\ (job'.fresh => job.fresh) /\ job'.turn = job.turn /\ job'.stage = job.stage
         /\ Bump => ~job'.fresh
<1>1. CASE job' = job
  BY <1>1 DEF CommitOK, Bump
<1>2. CASE Bump
  <2>1. job' = [job EXCEPT !.fresh = FALSE]
    BY <1>2 DEF Bump
  <2> QED BY <2>1 DEF CommitOK
<1> QED BY <1>1, <1>2

LEMMA DoTyped ==
  ASSUME WiresOK, WorkerOK, NEW m \in Asking, resetting => m.type = "reset", Do(m)
  PROVE  rsp' \in Seq(Telling) /\ WorkerOK'
<1>0. /\ rsp \in Seq(Telling) /\ StoreOK /\ CommitOK /\ ResetLast /\ resetting \in BOOLEAN
      /\ m.turn \in Turns \cup {NoTurn}
      /\ m.type # "reset" => m.pos \in Positions
      /\ m.type \in {"commit", "confirm"} => m.turn \in Turns
      /\ queue \in Seq(Item) /\ Len(queue) \in Nat /\ DOMAIN queue = 1 .. Len(queue)
      /\ \A i \in DOMAIN queue : queue[i] \in Item
  BY MessageSays, Indices DEF WiresOK, WorkerOK, ResetLast, StoreOK
<1>1. ASSUME NEW e \in Telling, rsp' = Append(rsp, e) PROVE rsp' \in Seq(Telling)
  BY <1>0, <1>1, Appended
<1>2. ASSUME NEW ps \in Seq(Positions), NEW e \in Telling, PutAll(ps, {}, <<e>>), ~resetting
      PROVE  rsp' \in Seq(Telling) /\ StoreOK' /\ NoReset'
  <2>1. <<e>> \in Seq(Telling)
    BY Singles
  <2>2. PICK out \in Seq(Eviction) : StoreOK' /\ SameTasks /\ rsp' = rsp \o out \o <<e>>
    BY <1>0, <1>2, <2>1, PutAllLaw
  <2>3. out \in Seq(Telling)
    BY DEF Eviction
  <2>4. rsp' \in Seq(Telling)
    BY <1>0, <2>1, <2>2, <2>3, Joined
  <2> QED BY <1>0, <1>2, <2>2, <2>4, Unreset, SameTasksReset
<1>3. CASE DoInstall(m)
  <2>1. m.pos \in Positions /\ <<m.pos>> \in Seq(Positions) /\ Msg("installed", m.pos, NoTurn) \in Telling
    BY <1>0, <1>3, Singles, TellingMsg DEF DoInstall
  <2>2. ~resetting /\ resetting' = resetting
    BY <1>3 DEF DoInstall
  <2>3. rsp' \in Seq(Telling) /\ StoreOK' /\ NoReset'
    BY <1>2, <1>3, <2>1, <2>2 DEF DoInstall
  <2>4. CommitOK'
    BY <1>0, <1>3, BumpLaw DEF DoInstall, Take, commits
  <2> QED BY <1>0, <2>2, <2>3, <2>4, Unreset DEF WorkerOK
<1>4. CASE DoEvaluate(m)
  <2>1. ~resetting /\ resetting' = resetting /\ CommitOK' /\ NoReset
    BY <1>0, <1>4, Unreset DEF DoEvaluate, commits, CommitOK
  <2>2. Msg("error", m.pos, NoTurn) \in Telling /\ Msg("evaluated", m.pos, NoTurn) \in Telling
    BY <1>0, <1>4, TellingMsg DEF DoEvaluate
  <2>3. rsp' \in Seq(Telling)
    BY <1>0, <1>1, <1>4, <2>2 DEF DoEvaluate
  <2>4. StoreOK' /\ NoReset'
    <3>1. CASE m.pos \notin ToSet(held)
      BY <1>0, <1>4, <2>1, <3>1 DEF DoEvaluate, store, StoreOK, NoReset
    <3>2. CASE m.pos \in ToSet(held)
      <4>1. Want(m.pos, TRUE, {})
        BY <1>4, <3>2 DEF DoEvaluate
      <4>2. {} \in SUBSET Turns /\ TRUE \in BOOLEAN
        OBVIOUS
      <4>3. StoreOK'
        BY <1>0, <3>2, <4>1, <4>2, WantLaw
      <4>4. NoReset'
        BY <1>0, <2>1, <3>2, <4>1, <4>2, WantReset
      <4> QED BY <4>3, <4>4
    <3> QED BY <3>1, <3>2
  <2> QED BY <1>0, <2>1, <2>3, <2>4, Unreset DEF WorkerOK
<1>5. CASE DoCommit(m)
  <2>1. /\ ~resetting /\ resetting' = resetting /\ NoReset /\ m.turn \in Turns /\ m.pos \in Positions
        /\ held' = held /\ evald' = evald /\ active' = NoCommit
    BY <1>0, <1>5, Unreset DEF DoCommit
  <2>2. CASE m.pos \in ToSet(held) /\ (m.pos \in evald \/ Running(m.pos) # {})
    <3>1. /\ job' = [turn |-> m.turn, stage |-> IF m.pos \in evald THEN "begin" ELSE "source",
                     pos |-> m.pos, tasks |-> {}, fresh |-> TRUE]
          /\ queue' = [i \in DOMAIN queue |->
                         IF i \in Running(m.pos) /\ m.pos \notin evald
                           THEN [queue[i] EXCEPT !.jobs = @ \cup {m.turn}] ELSE queue[i]]
          /\ rsp' = rsp
      BY <1>5, <2>2 DEF DoCommit
    <3>2. CommitOK'
      BY <2>1, <3>1 DEF CommitOK, Stages
    <3>3. /\ DOMAIN queue' = DOMAIN queue
          /\ \A i \in DOMAIN queue : queue'[i] \in Item /\ queue'[i].pos = queue[i].pos
                                     /\ queue'[i].live = queue[i].live
      BY <1>0, <2>1, <3>1 DEF Item
    <3>4. queue' \in Seq(Item)
      BY <1>0, <3>1, <3>3
    <3>5. StoreOK' /\ NoReset'
      BY <1>0, <2>1, <3>3, <3>4, StoreSame DEF NoReset
    <3> QED BY <1>0, <2>1, <3>1, <3>2, <3>5, Unreset DEF WorkerOK
  <2>3. CASE ~(m.pos \in ToSet(held) /\ (m.pos \in evald \/ Running(m.pos) # {}))
    <3>1. job' = NoJob /\ rsp' = Append(rsp, Msg("desynced", NoPos, m.turn)) /\ queue' = queue
      BY <1>5, <2>3 DEF DoCommit
    <3>2. CommitOK'
      BY <2>1, <3>1 DEF CommitOK, Stages, NoJob
    <3>3. StoreOK' /\ NoReset'
      BY <1>0, <2>1, <3>1 DEF StoreOK, NoReset
    <3>4. rsp' \in Seq(Telling)
      BY <1>0, <1>1, <3>1, TellingMsg
    <3> QED BY <1>0, <2>1, <3>2, <3>3, <3>4, Unreset DEF WorkerOK
  <2> QED BY <2>2, <2>3
<1>6. CASE DoConfirm(m)
  <2>1. ~resetting /\ resetting' = resetting /\ NoReset /\ m.turn \in Turns /\ m.pos \in Positions
    BY <1>0, <1>6, Unreset DEF DoConfirm
  <2>2. CommitOK'
    BY <1>0, <1>6, BumpLaw DEF DoConfirm, Take
  <2>3. rsp' \in Seq(Telling) /\ StoreOK' /\ NoReset'
    <3>1. CASE PutAll(<<m.pos>>, {}, <<Msg("confirmed", m.pos, m.turn)>>)
      <4>1. <<m.pos>> \in Seq(Positions) /\ Msg("confirmed", m.pos, m.turn) \in Telling
        BY <2>1, Singles, TellingMsg
      <4> QED BY <1>2, <2>1, <3>1, <4>1
    <3>2. CASE rsp' = Append(rsp, Msg("desynced", NoPos, m.turn)) /\ UNCHANGED store
      <4>1. rsp' \in Seq(Telling)
        BY <1>0, <1>1, <3>2, TellingMsg
      <4> QED BY <1>0, <2>1, <3>2, <4>1 DEF store, StoreOK, NoReset
    <3> QED BY <1>6, <3>1, <3>2 DEF DoConfirm
  <2> QED BY <1>0, <2>1, <2>2, <2>3, Unreset DEF WorkerOK
<1>7. CASE DoReset(m)
  <2>1. CASE resetting
    <3>1. rsp' = Append(rsp, Msg("refused", NoPos, NoTurn))
          /\ UNCHANGED <<queue, resetting, job, held, evald, active>>
      BY <1>7, <2>1 DEF DoReset
    <3>2. rsp' \in Seq(Telling)
      BY <1>0, <1>1, <3>1, TellingMsg
    <3> QED BY <1>0, <3>1, <3>2 DEF WorkerOK, StoreOK, CommitOK, ResetLast
  <2>2. CASE ~resetting
    <3>1. /\ resetting' = TRUE /\ Bump /\ queue' = Append(queue, ResetItem)
          /\ UNCHANGED <<rsp, held, evald, active>> /\ NoReset
      BY <1>0, <1>7, <2>2, Unreset DEF DoReset
    <3>2. ResetItem \in Item /\ ResetItem.pos = NoPos /\ ~ResetItem.live /\ ~ResetItem.tick
      BY DEF ResetItem, Item
    <3>3. /\ queue' \in Seq(Item) /\ Len(queue') = Len(queue) + 1 /\ DOMAIN queue' = 1 .. Len(queue) + 1
          /\ \A i \in 1 .. Len(queue) : queue'[i] = queue[i]
          /\ queue'[Len(queue) + 1] = ResetItem
      BY <1>0, <3>1, <3>2, Appended
    <3>4. \A i \in 1 .. Len(queue) + 1 : i \in 1 .. Len(queue) \/ i = Len(queue) + 1
      BY <1>0
    <3>5. CommitOK' /\ ~job'.fresh
      BY <1>0, <3>1, BumpLaw
    <3>6. StoreOK'
      BY <1>0, <3>1, <3>2, <3>3, <3>4 DEF StoreOK
    <3>7. ResetLast'
      <4>1. queue' # <<>>
        BY <1>0, <3>3, EmptySeq
      <4> QED BY <1>0, <3>1, <3>2, <3>3, <3>4, <3>5, <4>1 DEF ResetLast, NoReset
    <3> QED BY <1>0, <3>1, <3>5, <3>6, <3>7 DEF WorkerOK
  <2> QED BY <1>0, <2>1, <2>2
<1> QED BY <1>3, <1>4, <1>5, <1>6, <1>7 DEF Do

EngineStep ==
  \/ EngineDone \/ EngineFails \/ EngineReset \/ JobBegins \/ JobEnds \/ Expire
  \/ \E p \in Positions : JobTask(p)

\* The first of the queue is done with.
LEMMA PoppedStore ==
  ASSUME StoreOK, queue # <<>>, queue' = Tail(queue), held' = held,
         evald' \subseteq evald \cup (IF Head(queue).live THEN {Head(queue).pos} ELSE {})
  PROVE  /\ StoreOK' /\ Head(queue) \in Item /\ Head(queue) = queue[1]
         /\ Len(queue) \in Nat /\ DOMAIN queue = 1 .. Len(queue)
         /\ DOMAIN queue' = 1 .. Len(queue) - 1 /\ Len(queue') = Len(queue) - 1
         /\ \A i \in DOMAIN queue' : queue'[i] = queue[i + 1] /\ i + 1 \in DOMAIN queue
<1>1. /\ queue \in Seq(Item) /\ Head(queue) = queue[1] /\ Head(queue) \in Item /\ 1 \in DOMAIN queue
      /\ queue' \in Seq(Item) /\ Len(queue') = Len(queue) - 1
      /\ Len(queue) \in Nat /\ DOMAIN queue = 1 .. Len(queue)
      /\ DOMAIN queue' = 1 .. Len(queue) - 1
      /\ \A i \in 1 .. Len(queue) - 1 : queue'[i] = queue[i + 1]
  BY Taken, Indices DEF StoreOK
<1>2. \A i \in 1 .. Len(queue) - 1 : i + 1 \in DOMAIN queue
  BY <1>1
<1>3. evald' \subseteq ToSet(held')
  BY <1>1 DEF StoreOK
<1>4. \A i, j \in DOMAIN queue' : i + 1 = j + 1 => i = j
  BY <1>1
<1>5. \A i \in DOMAIN queue' : queue'[i] = queue[i + 1] /\ i + 1 \in DOMAIN queue
  BY <1>1, <1>2
<1>6. \A i, j \in DOMAIN queue' : queue'[i].live /\ queue'[j].live /\ queue'[i].pos = queue'[j].pos => i = j
  <2> TAKE i, j \in DOMAIN queue'
  <2> HAVE queue'[i].live /\ queue'[j].live /\ queue'[i].pos = queue'[j].pos
  <2>1. i + 1 = j + 1
    BY <1>5 DEF StoreOK
  <2> QED BY <1>4, <2>1
<1>7. \A i \in DOMAIN queue' : queue'[i].live => queue'[i].pos \in ToSet(held')
  BY <1>5 DEF StoreOK
<1> QED BY <1>1, <1>3, <1>5, <1>6, <1>7 DEF StoreOK

LEMMA PoppedReset ==
  ASSUME StoreOK, ResetLast, queue # <<>>, queue' = Tail(queue), held' = held, Head(queue).pos # NoPos,
         evald' \subseteq evald \cup (IF Head(queue).live THEN {Head(queue).pos} ELSE {}),
         resetting' = resetting, job'.fresh => job.fresh
  PROVE  ResetLast'
<1>1. /\ Head(queue) = queue[1] /\ Len(queue) \in Nat /\ DOMAIN queue = 1 .. Len(queue)
      /\ DOMAIN queue' = 1 .. Len(queue) - 1 /\ Len(queue') = Len(queue) - 1
      /\ \A i \in DOMAIN queue' : queue'[i] = queue[i + 1] /\ i + 1 \in DOMAIN queue
  BY PoppedStore
<1>2. \A i \in DOMAIN queue' : queue'[i].pos = NoPos =>
        resetting' /\ i = Len(queue') /\ ~queue'[i].tick
  BY <1>1 DEF ResetLast
<1>3. ASSUME resetting' PROVE queue' # <<>> /\ queue'[Len(queue')].pos = NoPos
  <2>1. queue[Len(queue)].pos = NoPos /\ Len(queue) # 1
    BY <1>1, <1>3 DEF ResetLast
  <2>2. Len(queue) # 0
    BY EmptySeq DEF StoreOK
  <2>3. Len(queue') \in DOMAIN queue' /\ Len(queue') + 1 = Len(queue)
    BY <1>1, <2>1, <2>2
  <2> QED BY <1>1, <2>1, <2>3
<1> QED BY <1>2, <1>3 DEF ResetLast

LEMMA EngineTyped ==
  ASSUME WiresOK, WorkerOK, EngineStep
  PROVE  /\ UNCHANGED <<driver, client, req, late, faults>>
         /\ rsp' \in Seq(Telling) /\ WorkerOK'
<1>0. /\ rsp \in Seq(Telling) /\ StoreOK /\ CommitOK /\ ResetLast /\ resetting \in BOOLEAN
      /\ job.turn \in Turns \cup {NoTurn} /\ NoTurn \notin Turns
      /\ job.stage # "none" => job.turn \in Turns /\ job.pos \in Positions
  BY GoAssumption DEF WiresOK, WorkerOK, ResetLast, CommitOK
<1>1. ASSUME NEW e \in Telling, rsp' = Append(rsp, e) PROVE rsp' \in Seq(Telling)
  BY <1>0, <1>1, Appended
<1>2. ASSUME queue # <<>>, Head(queue).pos # NoPos
      PROVE  /\ Head(queue) \in Item /\ Head(queue).pos \in Positions /\ Head(queue).jobs \in SUBSET Turns
             /\ Msg("evaluated", Head(queue).pos, NoTurn) \in Telling
             /\ Msg("error", Head(queue).pos, NoTurn) \in Telling
             /\ Msg("desynced", NoPos, NoTurn) \in Telling
             /\ job.stage # "none" => Msg("predicted", Head(queue).pos, job.turn) \in Telling
  <2>1. Head(queue) \in Item
    BY <1>2, Taken DEF WorkerOK, StoreOK
  <2>2. Head(queue).pos \in Positions /\ Head(queue).jobs \in SUBSET Turns
    BY <1>2, <2>1 DEF Item
  <2> QED BY <1>0, <2>1, <2>2, TellingMsg
<1>3. CASE EngineDone
  <2> DEFINE e == Head(queue)
             reply == IF e.tick THEN <<Msg("evaluated", e.pos, NoTurn)>> ELSE <<>>
  <2>1. /\ queue # <<>> /\ e.pos # NoPos /\ queue' = Tail(queue) /\ held' = held
        /\ resetting' = resetting /\ active' = active
        /\ evald' = IF e.live THEN evald \cup {e.pos} ELSE evald
    BY <1>3 DEF EngineDone
  <2>2. e \in Item /\ e.pos \in Positions /\ e.jobs \in SUBSET Turns
    BY <1>2, <2>1
  <2>3. reply \in Seq(Telling) /\ Push(e) \in Seq(Telling)
    BY <1>2, <2>1, Singles DEF Push
  <2>4. rsp' \in {rsp \o reply \o Push(e), rsp \o Push(e) \o reply}
    BY <1>3 DEF EngineDone
  <2>5. rsp' \in Seq(Telling)
    <3> DEFINE push == Push(e)
    <3>1. reply \in Seq(Telling) /\ push \in Seq(Telling) /\ rsp' \in {rsp \o reply \o push, rsp \o push \o reply}
      BY <2>3, <2>4
    <3> HIDE DEF push, reply
    <3>2. rsp \o reply \in Seq(Telling) /\ rsp \o push \in Seq(Telling)
      BY <1>0, <3>1, Joined
    <3>3. rsp \o reply \o push \in Seq(Telling) /\ rsp \o push \o reply \in Seq(Telling)
      BY <3>1, <3>2, Joined
    <3> QED BY <3>1, <3>3
  <2>6. /\ job' = IF job.turn \notin e.jobs THEN job
                  ELSE IF job.stage = "source" THEN [job EXCEPT !.stage = "begin"]
                  ELSE NextTask(e.pos)
    BY <1>3 DEF EngineDone
  <2>7. job.turn \in e.jobs => job.stage # "none"
    BY <1>0, <2>2 DEF CommitOK
  <2> HIDE DEF e
  <2>8. CommitOK' /\ (job'.fresh => job.fresh)
    BY <1>0, <2>1, <2>6, <2>7 DEF CommitOK, NextTask, NoJob, Stages
  <2>9. StoreOK' /\ ResetLast'
    BY <1>0, <2>1, <2>8, PoppedStore, PoppedReset DEF e
  <2> QED BY <1>3, <2>5, <2>8, <2>9 DEF EngineDone, WorkerOK
<1>4. CASE EngineFails
  <2> DEFINE e == Head(queue)
             a == IF e.tick THEN <<Msg("error", e.pos, NoTurn)>> ELSE <<>>
             b == IF e.jobs # {} THEN <<Msg("desynced", NoPos, NoTurn)>> ELSE <<>>
  <2>1. /\ queue # <<>> /\ e.pos # NoPos /\ queue' = Tail(queue) /\ held' = held /\ evald' = evald
        /\ resetting' = resetting /\ rsp' = rsp \o a \o b
        /\ active' = (IF active[1] \in e.jobs THEN NoCommit ELSE active)
        /\ job' = IF job.turn \in e.jobs THEN NoJob ELSE job
    BY <1>4 DEF EngineFails
  <2>2. a \in Seq(Telling) /\ b \in Seq(Telling)
    BY <1>2, <2>1, Singles
  <2> HIDE DEF a, b, e
  <2>3. rsp' \in Seq(Telling)
    BY <1>0, <2>1, <2>2, Joined
  <2>4. CommitOK' /\ (job'.fresh => job.fresh)
    BY <1>0, <2>1 DEF CommitOK, NoJob, Stages
  <2>5. StoreOK' /\ ResetLast'
    BY <1>0, <2>1, <2>4, PoppedStore, PoppedReset DEF e
  <2> QED BY <1>4, <2>3, <2>4, <2>5 DEF EngineFails, WorkerOK
<1>5. CASE EngineReset
  <2>1. /\ queue # <<>> /\ Head(queue).pos = NoPos /\ queue' = Tail(queue)
        /\ held' = <<>> /\ evald' = {} /\ active' = NoCommit /\ resetting' = FALSE /\ job' = job
    BY <1>5 DEF EngineReset
  <2>2. queue \in Seq(Item) /\ Head(queue) = queue[1] /\ 1 \in DOMAIN queue /\ queue' \in Seq(Item)
        /\ DOMAIN queue' = 1 .. Len(queue) - 1
    BY <1>0, <2>1, Taken DEF StoreOK
  <2>3. Len(queue) = 1
    BY <1>0, <2>1, <2>2 DEF ResetLast
  <2>4. DOMAIN queue' = {}
    BY <2>2, <2>3
  <2>5. StoreOK'
    BY <2>1, <2>2, <2>4, EmptyLaw, GoAssumption DEF StoreOK
  <2>6. CommitOK'
    BY <1>0, <2>1 DEF CommitOK
  <2>7. ResetLast'
    BY <2>1, <2>4 DEF ResetLast
  <2>8. rsp' \in Seq(Telling)
    BY <1>0, <1>1, <1>5, TellingMsg DEF EngineReset
  <2> QED BY <1>5, <2>5, <2>6, <2>7, <2>8 DEF EngineReset, WorkerOK
<1>6. CASE JobBegins
  <2>1. CASE job.fresh
    <3>1. /\ active' = <<job.turn, job.pos>> /\ PutAll(Succ[job.pos], Positions \ Selected(job.pos), <<>>)
          /\ job' = [job EXCEPT !.stage = "tasks", !.tasks = Selected(job.pos)]
          /\ job.stage = "begin" /\ resetting' = resetting
      BY <1>6, <2>1 DEF JobBegins
    <3>2. Succ[job.pos] \in Seq(Positions) /\ ~resetting
      BY <1>0, <2>1, <3>1, GoAssumption DEF ResetLast
    <3>3. /\ StoreOK' /\ SameTasks
          /\ \E out \in Seq(Eviction) : rsp' = rsp \o out \o <<>>
      <4>1. <<>> \in Seq(Telling)
        BY EmptyLaw
      <4>2. \E out \in Seq(Eviction) :
              /\ rsp' = rsp \o out \o <<>>
              /\ \A q \in ToSet(held) : q \in ToSet(held') \/ \E j \in DOMAIN out : out[j].pos = q
        BY <1>0, <3>1, <3>2, <4>1, PutAllLaw
      <4>3. StoreOK' /\ SameTasks
        BY <1>0, <3>1, <3>2, <4>1, PutAllLaw
      <4> QED BY <4>2, <4>3
    <3>4. rsp' \in Seq(Telling)
      <4>1. PICK out \in Seq(Eviction) : rsp' = rsp \o out \o <<>>
        BY <3>3
      <4>2. out \in Seq(Telling) /\ <<>> \in Seq(Telling)
        BY EmptyLaw DEF Eviction
      <4> QED BY <1>0, <4>1, <4>2, Joined
    <3>5. CommitOK'
      <4>1. Selected(job.pos) \subseteq Positions
        <5>1. \A i \in DOMAIN Succ[job.pos] : Succ[job.pos][i] \in Positions
          BY <3>2
        <5> QED BY <5>1 DEF Selected
      <4> QED BY <1>0, <3>1, <4>1 DEF CommitOK, Stages
    <3>6. ResetLast'
      BY <1>0, <3>1, <3>2, <3>3, Unreset, SameTasksReset
    <3> QED BY <1>6, <3>3, <3>4, <3>5, <3>6 DEF JobBegins, WorkerOK
  <2>2. CASE ~job.fresh
    <3>1. job' = NoJob /\ UNCHANGED <<rsp, store, active, resetting>>
      BY <1>6, <2>2 DEF JobBegins
    <3>2. WorkerOK'
      BY <1>0, <3>1 DEF WorkerOK, store, StoreOK, CommitOK, ResetLast, NoJob, Stages
    <3> QED BY <1>0, <1>6, <3>1, <3>2 DEF JobBegins
  <2> QED BY <2>1, <2>2
<1>7. ASSUME NEW p \in Positions, JobTask(p)
      PROVE  /\ UNCHANGED <<driver, client, req, late, faults>>
             /\ rsp' \in Seq(Telling) /\ WorkerOK'
  <2>1. /\ job.stage = "tasks" /\ p \in job.tasks /\ job.fresh /\ resetting' = resetting /\ ~resetting
        /\ job.turn \in Turns
    BY <1>0, <1>7 DEF JobTask, ResetLast
  <2>2. Msg("desynced", NoPos, job.turn) \in Telling /\ Msg("predicted", p, job.turn) \in Telling
    BY <1>0, <2>1, TellingMsg
  <2>3. CASE p \notin ToSet(held)
    <3>1. /\ job' = NoJob /\ Take(job.turn) /\ UNCHANGED store
          /\ rsp' = Append(rsp, Msg("desynced", NoPos, job.turn))
      BY <1>7, <2>3 DEF JobTask
    <3>2. WorkerOK'
      BY <1>0, <2>1, <3>1 DEF WorkerOK, store, StoreOK, CommitOK, ResetLast, NoJob, Stages, Take
    <3> QED BY <1>1, <1>7, <2>2, <3>1, <3>2 DEF JobTask
  <2>4. CASE p \in ToSet(held)
    <3>1. /\ Want(p, FALSE, {job.turn}) /\ active' = active
          /\ IF p \in evald
               THEN job' = NextTask(p) /\ rsp' = Append(rsp, Msg("predicted", p, job.turn))
               ELSE job' = [job EXCEPT !.stage = "engine"] /\ UNCHANGED rsp
      BY <1>7, <2>4 DEF JobTask
    <3>2. {job.turn} \in SUBSET Turns /\ FALSE \in BOOLEAN
      BY <2>1
    <3>3. StoreOK'
      BY <1>0, <2>4, <3>1, <3>2, WantLaw
    <3>4. NoReset'
      BY <1>0, <2>1, <2>4, <3>1, <3>2, Unreset, WantReset
    <3>5. CommitOK'
      <4>1. job' = [job EXCEPT !.stage = "tasks", !.tasks = @ \ {p}] \/ job' = [job EXCEPT !.stage = "engine"]
        BY <2>1, <3>1 DEF NextTask
      <4>2. CASE job' = [job EXCEPT !.stage = "tasks", !.tasks = @ \ {p}]
        BY <1>0, <2>1, <3>1, <4>2 DEF CommitOK, Stages
      <4>3. CASE job' = [job EXCEPT !.stage = "engine"]
        BY <1>0, <2>1, <3>1, <4>3 DEF CommitOK, Stages
      <4> QED BY <4>1, <4>2, <4>3
    <3>6. rsp' \in Seq(Telling)
      BY <1>0, <1>1, <2>2, <3>1
    <3> QED BY <1>0, <1>7, <2>1, <3>3, <3>4, <3>5, <3>6, Unreset DEF JobTask, WorkerOK
  <2> QED BY <2>3, <2>4
<1>8. CASE JobEnds
  BY <1>0, <1>8 DEF JobEnds, WorkerOK, store, StoreOK, CommitOK, ResetLast, NoJob, Stages
<1>9. CASE Expire
  <2>1. /\ active' = NoCommit /\ (job' = job \/ Bump)
        /\ UNCHANGED <<rsp, store, resetting>>
    BY <1>9 DEF Expire, Bump
  <2>2. CommitOK' /\ (job'.fresh => job.fresh)
    BY <1>0, <2>1, BumpLaw
  <2> QED BY <1>0, <1>9, <2>1, <2>2 DEF Expire, WorkerOK, store, StoreOK, ResetLast
<1> QED BY <1>3, <1>4, <1>5, <1>6, <1>7, <1>8, <1>9 DEF EngineStep

-----------------------------------------------------------------------------
(* What is owed *)

Plan == OfType({"install", "evaluate"})
Answer == OfType({"installed", "evaluated", "error"})
Wipe == OfType({"reset"})
Wiped == OfType({"reset", "refused"})
Ticking == {e \in Item : e.tick}
Wiping == {e \in Item : e.pos = NoPos}

Owed ==
  /\ Count(req, Plan) + Count(late, Plan) + Count(rsp, Answer) + Count(queue, Ticking)
       = IF pc \in {"install", "evaluate"} THEN 1 ELSE 0
  /\ Count(req, Wipe) + Count(rsp, Wiped) + Count(queue, Wiping) = asked

LEMMA OwedSays ==
  ASSUME WiresOK, StoreOK
  PROVE  EveryRequestOwed <=> Owed
<1>1. req \in Seq(Message) /\ late \in Seq(Message)
  <2>1. Asking \subseteq Message /\ Waiting \subseteq Message
    BY DEF Asking, Waiting, OfType
  <2> QED BY <2>1 DEF WiresOK
<1>2. Count(req \o late, Plan) = Count(req, Plan) + Count(late, Plan)
  BY <1>1, CountJoined
<1> QED BY <1>2 DEF EveryRequestOwed, Owed, Plan, Answer, Wipe, Wiped, Ticking, Wiping

LEMMA CountsNat ==
  ASSUME WiresOK, StoreOK
  PROVE  /\ Count(req, Plan) \in Nat /\ Count(late, Plan) \in Nat /\ Count(rsp, Answer) \in Nat
         /\ Count(queue, Ticking) \in Nat
         /\ Count(req, Wipe) \in Nat /\ Count(rsp, Wiped) \in Nat /\ Count(queue, Wiping) \in Nat
BY Counted DEF WiresOK, StoreOK

LEMMA Kinds ==
  /\ \A m \in Asking : /\ m \in Plan <=> m.type \in {"install", "evaluate"}
                       /\ m \in Wipe <=> m.type = "reset"
  /\ \A m \in Telling : /\ m \in Answer <=> m.type \in {"installed", "evaluated", "error"}
                        /\ m \in Wiped <=> m.type \in {"reset", "refused"}
BY MessageSays DEF Plan, Wipe, Answer, Wiped

LEMMA DriverOwed ==
  ASSUME DriverOK, WiresOK, StoreOK, Owed, DriverStep
  PROVE  Owed'
<1>0. /\ Same /\ Count(req, Plan) \in Nat /\ Count(late, Plan) \in Nat /\ Count(rsp, Answer) \in Nat
      /\ Count(queue, Ticking) \in Nat
      /\ Count(req, Wipe) \in Nat /\ Count(rsp, Wiped) \in Nat /\ Count(queue, Wiping) \in Nat
  BY DriverTyped, CountsNat
<1>1. /\ rsp' = rsp /\ late' = late /\ queue' = queue
  BY <1>0 DEF Same, worker, store
<1>2. /\ Count(rsp', Answer) = Count(rsp, Answer) /\ Count(late', Plan) = Count(late, Plan)
      /\ Count(queue', Ticking) = Count(queue, Ticking)
      /\ Count(rsp', Wiped) = Count(rsp, Wiped) /\ Count(queue', Wiping) = Count(queue, Wiping)
  BY <1>1
<1>3. /\ \A t \in Turns \cup {NoTurn} : Msg("install", view, t) \in Asking
      /\ Msg("evaluate", view, NoTurn) \in Asking /\ Msg("reset", NoPos, NoTurn) \in Asking
      /\ \A p \in Positions, t \in Turns : Msg("commit", p, t) \in Asking /\ Msg("confirm", p, t) \in Asking
  BY AskingMsg DEF DriverOK
<1>4. ASSUME NEW m \in Asking, req' = Append(req, m)
      PROVE  /\ Count(req', Plan) = Count(req, Plan) + (IF m.type \in {"install", "evaluate"} THEN 1 ELSE 0)
             /\ Count(req', Wipe) = Count(req, Wipe) + (IF m.type = "reset" THEN 1 ELSE 0)
  <2>1. /\ Count(req', Plan) = Count(req, Plan) + (IF m \in Plan THEN 1 ELSE 0)
        /\ Count(req', Wipe) = Count(req, Wipe) + (IF m \in Wipe THEN 1 ELSE 0)
    BY <1>4, CountAppend DEF WiresOK
  <2> QED BY <2>1, Kinds
<1>5. CASE req' = req /\ asked' = asked /\ pc \notin {"install", "evaluate"} /\ pc' \notin {"install", "evaluate"}
  BY <1>0, <1>2, <1>5 DEF Owed
<1>6. ASSUME NEW m \in Asking, req' = Append(req, m), asked' = asked, pc \notin {"install", "evaluate"},
             m.type \in {"install", "evaluate", "commit", "confirm"},
             m.type \in {"install", "evaluate"} <=> pc' \in {"install", "evaluate"}
      PROVE  Owed'
  <2>1. m.type # "reset"
    BY <1>6
  <2> QED BY <1>0, <1>2, <1>4, <1>6, <2>1 DEF Owed
<1>7. CASE Install
  <2>1. CASE req' = req
    <3>1. req # Append(req, Msg("install", view, last))
      <4>1. Msg("install", view, last) \in Asking
        BY <1>3 DEF DriverOK
      <4> QED BY <4>1, Appended, Indices DEF WiresOK
    <3> QED BY <1>5, <1>7, <2>1, <3>1 DEF Install
  <2>2. CASE req' # req
    <3>1. /\ req' = Append(req, Msg("install", view, last)) /\ pc = "idle" /\ pc' = "install" /\ asked' = asked
      BY <1>7, <2>2 DEF Install
    <3>2. Msg("install", view, last) \in Asking /\ Msg("install", view, last).type = "install"
      BY <1>3, MsgIs DEF DriverOK
    <3> QED BY <1>6, <3>1, <3>2
  <2> QED BY <2>1, <2>2
<1>8. CASE Hold
  BY <1>5, <1>8 DEF Hold, Stage, client
<1>9. CASE Evaluate
  <2>1. CASE req' = req
    <3>1. pc' # "evaluate" \/ req' = Append(req, Msg("evaluate", view, NoTurn))
      BY <1>9 DEF Evaluate, Stage
    <3>2. req # Append(req, Msg("evaluate", view, NoTurn))
      <4>1. Msg("evaluate", view, NoTurn) \in Asking
        BY <1>3
      <4> QED BY <4>1, Appended, Indices DEF WiresOK
    <3>3. pc = "planned" /\ pc' \in {"ready", "evaluate", "idle"} /\ asked' = asked
      BY <1>9 DEF Evaluate, Stage
    <3> QED BY <1>5, <2>1, <3>1, <3>2, <3>3
  <2>2. CASE req' # req
    <3>1. /\ req' = Append(req, Msg("evaluate", view, NoTurn)) /\ pc = "planned" /\ pc' = "evaluate"
          /\ asked' = asked
      BY <1>9, <2>2 DEF Evaluate, Stage
    <3>2. Msg("evaluate", view, NoTurn) \in Asking /\ Msg("evaluate", view, NoTurn).type = "evaluate"
      BY <1>3, MsgIs
    <3> QED BY <1>6, <3>1, <3>2
  <2> QED BY <2>1, <2>2
<1>10. CASE DispatchPlain
  BY <1>5, <1>10 DEF DispatchPlain, client
<1>11. CASE Rehydrate
  BY <1>5, <1>11 DEF Rehydrate, Stage, client
<1>12. ASSUME NEW t \in Turns, DispatchCommit(t) PROVE Owed'
  <2>1. pc = "ready" /\ pc' = "turn" /\ asked' = asked
        /\ (req' = req \/ req' = Append(req, Msg("commit", view, t)))
    BY <1>12 DEF DispatchCommit
  <2>2. Msg("commit", view, t) \in Asking /\ Msg("commit", view, t).type = "commit"
    BY <1>3, MsgIs DEF DriverOK
  <2> QED BY <1>5, <1>6, <2>1, <2>2
<1>13. ASSUME NEW p \in Positions, Answered(p) PROVE Owed'
  <2>1. pc = "turn" /\ pc' = "idle" /\ asked' = asked
        /\ (req' = req \/ (mine # NoTurn /\ req' = Append(req, Msg("confirm", p, mine))))
    BY <1>13 DEF Answered, Stage, client
  <2>2. mine # NoTurn => Msg("confirm", p, mine) \in Asking /\ Msg("confirm", p, mine).type = "confirm"
    BY <1>3, MsgIs DEF DriverOK
  <2> QED BY <1>5, <1>6, <2>1, <2>2
<1>14. CASE Reset /\ ~failed
  <2>1. /\ req' = Append(req, Msg("reset", NoPos, NoTurn)) /\ asked' = asked + 1
        /\ pc' \in {"install", "evaluate"} <=> pc \in {"install", "evaluate"}
    BY <1>14 DEF Reset, Stage
  <2>2. /\ Count(req', Plan) = Count(req, Plan)
        /\ Count(req', Wipe) = Count(req, Wipe) + 1
    BY <1>0, <1>3, <1>4, <2>1, MsgIs
  <2>3. asked \in Nat
    BY DEF DriverOK
  <2>4. Count(req', Plan) + Count(late', Plan) + Count(rsp', Answer) + Count(queue', Ticking)
          = IF pc' \in {"install", "evaluate"} THEN 1 ELSE 0
    BY <1>0, <1>2, <2>1, <2>2 DEF Owed
  <2>5. Count(req', Wipe) + Count(rsp', Wiped) + Count(queue', Wiping) = asked'
    <3>1. Count(req, Wipe) + Count(rsp, Wiped) + Count(queue, Wiping) = asked
      BY DEF Owed
    <3>2. /\ Count(req', Wipe) = Count(req, Wipe) + 1 /\ asked' = asked + 1
          /\ Count(rsp', Wiped) = Count(rsp, Wiped) /\ Count(queue', Wiping) = Count(queue, Wiping)
      BY <1>2, <2>1, <2>2
    <3>3. Count(req, Wipe) \in Nat /\ Count(rsp, Wiped) \in Nat /\ Count(queue, Wiping) \in Nat
      BY <1>0
    <3> QED BY <2>3, <3>1, <3>2, <3>3
  <2> QED BY <2>4, <2>5 DEF Owed
<1> QED BY <1>7, <1>8, <1>9, <1>10, <1>11, <1>12, <1>13, <1>14 DEF DriverStep

LEMMA ReplacedOwed ==
  ASSUME DriverOK, Replaced
  PROVE  Owed'
<1>1. Anew
  BY ReplacedTyped
<1>2. \A S : Count(<<>>, S) = 0
  BY CountEmpty
<1>3. pc' \notin {"install", "evaluate"} /\ asked' = 0
  <2>1. ASSUME Replace(TRUE) \/ Replace(FALSE) PROVE pc' \notin {"install", "evaluate"} /\ asked' = 0
    BY <2>1 DEF Replace, Stage
  <2>2. CASE Reset /\ failed
    BY <2>1, <2>2 DEF Reset
  <2>3. CASE Crash
    <3>1. CASE asked > 0
      BY <2>1, <2>3, <3>1 DEF Crash
    <3>2. CASE ~(asked > 0)
      BY <2>3, <3>2 DEF Crash, Stage, DriverOK
    <3> QED BY <3>1, <3>2
  <2> QED BY <2>1, <2>2, <2>3 DEF Replaced
<1> QED BY <1>1, <1>2, <1>3 DEF Anew, Owed

\* Who awaits what the client receives.
LEMMA Awaited ==
  ASSUME DriverOK, WiresOK, StoreOK, Owed, rsp # <<>>
  PROVE  /\ Head(rsp).type \in {"installed", "evaluated", "error"} =>
              /\ pc \in {"install", "evaluate"}
              /\ Count(req, Plan) = 0 /\ Count(late, Plan) = 0 /\ Count(queue, Ticking) = 0
         /\ Head(rsp).type \in {"reset", "refused"} => asked > 0
<1>1. /\ Count(req, Plan) \in Nat /\ Count(late, Plan) \in Nat /\ Count(rsp, Answer) \in Nat
      /\ Count(queue, Ticking) \in Nat
      /\ Count(req, Wipe) \in Nat /\ Count(rsp, Wiped) \in Nat /\ Count(queue, Wiping) \in Nat
  BY CountsNat
<1>2. Tail(rsp) \in Seq(Telling) /\ Head(rsp) \in Telling
  BY Taken DEF WiresOK
<1>3. /\ Count(rsp, Answer) = Count(Tail(rsp), Answer) + (IF Head(rsp) \in Answer THEN 1 ELSE 0)
      /\ Count(rsp, Wiped) = Count(Tail(rsp), Wiped) + (IF Head(rsp) \in Wiped THEN 1 ELSE 0)
      /\ Count(Tail(rsp), Answer) \in Nat /\ Count(Tail(rsp), Wiped) \in Nat
  BY <1>2, CountTail, Counted DEF WiresOK
<1>4. /\ Head(rsp) \in Answer <=> Head(rsp).type \in {"installed", "evaluated", "error"}
      /\ Head(rsp) \in Wiped <=> Head(rsp).type \in {"reset", "refused"}
  BY <1>2, Kinds
<1>5. ASSUME Head(rsp) \in Answer
      PROVE  /\ pc \in {"install", "evaluate"}
             /\ Count(req, Plan) = 0 /\ Count(late, Plan) = 0 /\ Count(queue, Ticking) = 0
  <2>1. Count(rsp, Answer) >= 1
    BY <1>1, <1>3, <1>5
  <2>2. Count(req, Plan) + Count(late, Plan) + Count(rsp, Answer) + Count(queue, Ticking)
          = IF pc \in {"install", "evaluate"} THEN 1 ELSE 0
    BY DEF Owed
  <2>3. pc \in {"install", "evaluate"}
    <3> SUFFICES ASSUME pc \notin {"install", "evaluate"} PROVE FALSE
      OBVIOUS
    <3>1. Count(req, Plan) + Count(late, Plan) + Count(rsp, Answer) + Count(queue, Ticking) = 0
      BY <2>2
    <3> QED BY <1>1, <2>1, <3>1
  <2>4. Count(req, Plan) + Count(late, Plan) + Count(rsp, Answer) + Count(queue, Ticking) = 1
    BY <2>2, <2>3
  <2> QED BY <1>1, <2>1, <2>3, <2>4
<1>6. ASSUME Head(rsp) \in Wiped PROVE asked > 0
  BY <1>1, <1>3, <1>6 DEF Owed, DriverOK
<1> QED BY <1>4, <1>5, <1>6

LEMMA ReceivedOwed ==
  ASSUME DriverOK, WiresOK, StoreOK, Owed, Received
  PROVE  Owed'
<1>1. /\ Count(req, Plan) \in Nat /\ Count(late, Plan) \in Nat /\ Count(rsp, Answer) \in Nat
      /\ Count(queue, Ticking) \in Nat
      /\ Count(req, Wipe) \in Nat /\ Count(rsp, Wiped) \in Nat /\ Count(queue, Wiping) \in Nat
      /\ asked \in Nat
  BY CountsNat DEF DriverOK
<1>2. /\ rsp # <<>> /\ rsp' = Tail(rsp) /\ req' = req /\ late' = late /\ queue' = queue
  <2>1. Got
    BY DEF Received
  <2> QED BY <2>1 DEF Got, worker, store
<1>3. Tail(rsp) \in Seq(Telling) /\ Head(rsp) \in Telling
  BY <1>2, Taken DEF WiresOK
<1>4. /\ Count(rsp, Answer) = Count(rsp', Answer) + (IF Head(rsp) \in Answer THEN 1 ELSE 0)
      /\ Count(rsp, Wiped) = Count(rsp', Wiped) + (IF Head(rsp) \in Wiped THEN 1 ELSE 0)
      /\ Count(rsp', Answer) \in Nat /\ Count(rsp', Wiped) \in Nat
  BY <1>2, <1>3, CountTail, Counted DEF WiresOK
<1>5. /\ Head(rsp) \in Answer <=> Head(rsp).type \in {"installed", "evaluated", "error"}
      /\ Head(rsp) \in Wiped <=> Head(rsp).type \in {"reset", "refused"}
  BY <1>3, Kinds
<1>6. /\ Count(req', Plan) = Count(req, Plan) /\ Count(late', Plan) = Count(late, Plan)
      /\ Count(queue', Ticking) = Count(queue, Ticking)
      /\ Count(req', Wipe) = Count(req, Wipe) /\ Count(queue', Wiping) = Count(queue, Wiping)
  BY <1>2
<1>7. CASE Installed \/ Evaluated \/ TurnError
  <2>1. /\ Head(rsp).type \in {"installed", "evaluated", "error"} /\ asked' = asked
        /\ pc' \notin {"install", "evaluate"}
    <3>1. CASE Installed
      BY <3>1 DEF Installed, Replied, Stage
    <3>2. CASE Evaluated
      BY <3>2 DEF Evaluated, Replied, Stage
    <3>3. CASE TurnError
      BY <3>3 DEF TurnError, Stage, client
    <3> QED BY <1>7, <3>1, <3>2, <3>3
  <2>2. Head(rsp) \in Answer /\ Head(rsp) \notin Wiped
    BY <1>5, <2>1
  <2>3. pc \in {"install", "evaluate"}
    BY <1>2, <2>1, Awaited
  <2> QED BY <1>1, <1>4, <1>6, <2>1, <2>2, <2>3 DEF Owed
<1>8. CASE Evicted \/ Predicted \/ Confirmed \/ Desynced
  <2>1. /\ Head(rsp).type \in {"evicted", "predicted", "confirmed", "desynced"} /\ asked' = asked /\ pc' = pc
    BY <1>8 DEF Evicted, Predicted, Confirmed, Desynced, driver
  <2>2. Head(rsp) \notin Answer /\ Head(rsp) \notin Wiped
    BY <1>5, <2>1
  <2> QED BY <1>1, <1>4, <1>6, <2>1, <2>2 DEF Owed
<1>9. CASE ResetDone
  <2>1. Head(rsp).type = "reset" /\ asked' = asked - 1 /\ pc' = pc
    BY <1>9 DEF ResetDone, driver
  <2>2. Head(rsp) \notin Answer /\ Head(rsp) \in Wiped
    BY <1>5, <2>1
  <2> QED BY <1>1, <1>4, <1>6, <2>1, <2>2 DEF Owed
<1> QED BY <1>7, <1>8, <1>9 DEF Received

\* What the tasks of the queue stand for is the same, or one more turn waits.
LEMMA SameTasksCounts ==
  ASSUME StoreOK, StoreOK', DOMAIN queue' = DOMAIN queue,
         \A i \in DOMAIN queue : queue'[i].pos = queue[i].pos /\ queue'[i].tick = queue[i].tick
  PROVE  /\ Count(queue', Ticking) = Count(queue, Ticking)
         /\ Count(queue', Wiping) = Count(queue, Wiping)
<1>1. \A i \in DOMAIN queue : queue[i] \in Item /\ queue'[i] \in Item
  <2>1. \A i \in DOMAIN queue : queue[i] \in Item
    BY Indices DEF StoreOK
  <2>2. \A i \in DOMAIN queue' : queue'[i] \in Item
    BY Indices DEF StoreOK
  <2> QED BY <2>1, <2>2
<1>2. \A i \in DOMAIN queue : /\ queue'[i] \in Ticking <=> queue[i] \in Ticking
                              /\ queue'[i] \in Wiping <=> queue[i] \in Wiping
  BY <1>1 DEF Ticking, Wiping
<1> QED BY <1>2, CountSame

LEMMA WantCounts ==
  ASSUME NEW p \in ToSet(held), NEW b \in BOOLEAN, NEW J \in SUBSET Turns, StoreOK, Want(p, b, J),
         b => Count(queue, Ticking) = 0
  PROVE  /\ Count(queue', Ticking) = Count(queue, Ticking) + (IF b /\ p \notin evald THEN 1 ELSE 0)
         /\ Count(queue', Wiping) = Count(queue, Wiping)
<1>0. /\ queue \in Seq(Item) /\ DOMAIN queue = 1 .. Len(queue) /\ \A i \in DOMAIN queue : queue[i] \in Item
      /\ p \in Positions /\ p # NoPos
      /\ Count(queue, Ticking) \in Nat /\ Count(queue, Wiping) \in Nat
  BY Indices, ToSetSays, Counted, GoAssumption DEF StoreOK
<1>1. CASE p \in evald
  <2>1. queue' = queue
    BY <1>1, WantLaw
  <2> QED BY <1>0, <1>1, <2>1
<1>2. ASSUME p \notin evald, NEW k \in DOMAIN queue, queue[k].pos = p, Joins(k, b, J)
      PROVE  /\ Count(queue', Ticking) = Count(queue, Ticking) + (IF b /\ p \notin evald THEN 1 ELSE 0)
             /\ Count(queue', Wiping) = Count(queue, Wiping)
  <2>1. /\ DOMAIN queue' = DOMAIN queue
        /\ \A i \in DOMAIN queue : i # k => queue'[i] = queue[i]
        /\ queue'[k] = [queue[k] EXCEPT !.tick = queue[k].tick \/ b, !.jobs = queue[k].jobs \cup J]
    BY <1>0, <1>2 DEF Joins
  <2>2. queue'[k] \in Item /\ queue'[k].pos = p /\ (queue'[k].tick <=> queue[k].tick \/ b)
    BY <1>0, <1>2, <2>1 DEF Item
  <2>3. Count(queue', Wiping) = Count(queue, Wiping)
    <3>1. \A i \in DOMAIN queue : queue[i] \in Wiping <=> queue'[i] \in Wiping
      BY <1>0, <1>2, <2>1, <2>2 DEF Wiping
    <3> QED BY <2>1, <3>1, CountSame
  <2>4. CASE b
    <3>1. \A i \in DOMAIN queue : queue[i] \notin Ticking
      BY <1>0, <1>2, <2>4, Counted
    <3>2. queue'[k] \in Ticking
      BY <2>2, <2>4 DEF Ticking
    <3>3. Count(queue', Ticking) = Count(queue, Ticking) + 1
      BY <1>0, <1>2, <2>1, <3>1, <3>2, CountMore
    <3> QED BY <1>2, <2>3, <2>4, <3>3
  <2>5. CASE ~b
    <3>1. \A i \in DOMAIN queue : queue[i] \in Ticking <=> queue'[i] \in Ticking
      BY <1>0, <1>2, <2>1, <2>2, <2>5 DEF Ticking
    <3>2. Count(queue', Ticking) = Count(queue, Ticking)
      BY <2>1, <3>1, CountSame
    <3> QED BY <1>0, <2>3, <2>5, <3>2
  <2> QED BY <2>4, <2>5
<1>3. CASE p \notin evald /\ queue' = Append(queue, [pos |-> p, tick |-> b, jobs |-> J, live |-> TRUE])
  <2> DEFINE e == [pos |-> p, tick |-> b, jobs |-> J, live |-> TRUE]
  <2>1. e \in Item /\ e \notin Wiping /\ (e \in Ticking <=> b)
    BY <1>0 DEF Item, Wiping, Ticking
  <2> HIDE DEF e
  <2>2. queue' = Append(queue, e)
    BY <1>3 DEF e
  <2>3. /\ Count(queue', Ticking) = Count(queue, Ticking) + (IF e \in Ticking THEN 1 ELSE 0)
        /\ Count(queue', Wiping) = Count(queue, Wiping) + (IF e \in Wiping THEN 1 ELSE 0)
    BY <1>0, <2>1, <2>2, CountAppend
  <2> QED BY <1>0, <1>3, <2>1, <2>3
<1> QED BY <1>1, <1>2, <1>3, WantLaw

\* Evictions are no answers.
LEMMA PutAllCounts ==
  ASSUME NEW ps \in Seq(Positions), NEW skip, NEW m \in Seq(Telling), StoreOK, rsp \in Seq(Telling),
         PutAll(ps, skip, m)
  PROVE  /\ Count(queue', Ticking) = Count(queue, Ticking) /\ Count(queue', Wiping) = Count(queue, Wiping)
         /\ Count(rsp', Answer) = Count(rsp, Answer) + Count(m, Answer)
         /\ Count(rsp', Wiped) = Count(rsp, Wiped) + Count(m, Wiped)
<1>1. StoreOK' /\ SameTasks
  BY PutAllLaw
<1>2. Count(queue', Ticking) = Count(queue, Ticking) /\ Count(queue', Wiping) = Count(queue, Wiping)
  BY <1>1, SameTasksCounts DEF SameTasks
<1>3. PICK out \in Seq(Eviction) : rsp' = rsp \o out \o m
  BY PutAllLaw
<1>4. out \in Seq(Telling) /\ \A i \in DOMAIN out : out[i] \in Eviction
  BY Indices DEF Eviction
<1>5. \A i \in DOMAIN out : out[i] \notin Answer /\ out[i] \notin Wiped
  BY <1>4, Kinds DEF Eviction
<1>6. Count(out, Answer) = 0 /\ Count(out, Wiped) = 0
  BY <1>4, <1>5, Counted
<1>7. rsp \o out \in Seq(Telling)
  BY <1>4, Joined
<1>8. \A S : Count(rsp \o out \o m, S) = Count(rsp, S) + Count(out, S) + Count(m, S)
  <2> TAKE S
  <2>1. Count((rsp \o out) \o m, S) = Count(rsp \o out, S) + Count(m, S)
    BY <1>7, CountJoined
  <2>2. Count(rsp \o out, S) = Count(rsp, S) + Count(out, S)
    BY <1>4, CountJoined
  <2> QED BY <2>1, <2>2
<1>9. Count(rsp, Answer) \in Nat /\ Count(rsp, Wiped) \in Nat
  BY Counted
<1> QED BY <1>2, <1>3, <1>6, <1>8, <1>9

LEMMA TakingCounts ==
  ASSUME WiresOK, NEW m, Taking(m)
  PROVE  /\ Count(req, Plan) + Count(late, Plan)
              = Count(req', Plan) + Count(late', Plan) + (IF m \in Plan THEN 1 ELSE 0)
         /\ Count(req, Wipe) = Count(req', Wipe) + (IF m \in Wipe THEN 1 ELSE 0)
         /\ Count(req', Plan) \in Nat /\ Count(late', Plan) \in Nat /\ Count(req', Wipe) \in Nat
<1>1. req' \in Seq(Asking) /\ late' \in Seq(Waiting) /\ m \in Asking
  BY TakingTyped
<1>2. /\ Count(req', Plan) \in Nat /\ Count(late', Plan) \in Nat /\ Count(req', Wipe) \in Nat
      /\ Count(req, Plan) \in Nat /\ Count(late, Plan) \in Nat /\ Count(req, Wipe) \in Nat
  BY <1>1, Counted DEF WiresOK
<1>3. CASE late # <<>> /\ m = Head(late) /\ late' = Tail(late) /\ req' = req
  <2>1. m \in Waiting /\ m \notin Wipe
    BY <1>1, <1>3, Taken, Kinds DEF WiresOK, Waiting
  <2>2. Count(late, Plan) = Count(late', Plan) + (IF m \in Plan THEN 1 ELSE 0)
    BY <1>3, CountTail DEF WiresOK
  <2>3. Count(req', Plan) = Count(req, Plan) /\ Count(req', Wipe) = Count(req, Wipe)
    BY <1>3
  <2> QED BY <1>2, <2>1, <2>2, <2>3
<1>4. CASE req # <<>> /\ m = Head(req) /\ req' = Tail(req) /\ late' = late
  <2>1. /\ Count(req, Plan) = Count(req', Plan) + (IF m \in Plan THEN 1 ELSE 0)
        /\ Count(req, Wipe) = Count(req', Wipe) + (IF m \in Wipe THEN 1 ELSE 0)
    BY <1>4, CountTail DEF WiresOK
  <2>2. Count(late', Plan) = Count(late, Plan)
    BY <1>4
  <2> QED BY <1>2, <2>1, <2>2
<1> QED BY <1>3, <1>4 DEF Taking

LEMMA HoldingOwed ==
  ASSUME WiresOK, StoreOK, Owed, Holding, UNCHANGED <<driver, client, faults>>
  PROVE  Owed'
<1>1. /\ req # <<>> /\ Head(req).type # "reset" /\ Head(req) \in Asking /\ Tail(req) \in Seq(Asking)
      /\ req' = Tail(req) /\ late' = Append(late, Head(req)) /\ rsp' = rsp /\ queue' = queue
  BY Taken DEF WiresOK, Holding, store
<1>2. Head(req) \in Waiting /\ Head(req) \notin Wipe
  BY <1>1, Kinds DEF Waiting
<1>3. /\ Count(req, Plan) = Count(req', Plan) + (IF Head(req) \in Plan THEN 1 ELSE 0)
      /\ Count(req, Wipe) = Count(req', Wipe) + (IF Head(req) \in Wipe THEN 1 ELSE 0)
      /\ Count(late', Plan) = Count(late, Plan) + (IF Head(req) \in Plan THEN 1 ELSE 0)
  BY <1>1, <1>2, CountTail, CountAppend DEF WiresOK
<1>4. /\ Count(req', Plan) \in Nat /\ Count(req', Wipe) \in Nat
      /\ Count(req, Plan) \in Nat /\ Count(late, Plan) \in Nat /\ Count(rsp, Answer) \in Nat
      /\ Count(queue, Ticking) \in Nat
      /\ Count(req, Wipe) \in Nat /\ Count(rsp, Wiped) \in Nat /\ Count(queue, Wiping) \in Nat
  BY <1>1, Counted, CountsNat
<1>5. /\ Count(rsp', Answer) = Count(rsp, Answer) /\ Count(queue', Ticking) = Count(queue, Ticking)
      /\ Count(rsp', Wiped) = Count(rsp, Wiped) /\ Count(queue', Wiping) = Count(queue, Wiping)
  BY <1>1
<1>6. pc' = pc /\ asked' = asked
  BY DEF driver, client
<1> QED BY <1>2, <1>3, <1>4, <1>5, <1>6 DEF Owed

\* What one message more is to the counts.
LEMMA ToldCounts ==
  ASSUME NEW s \in Seq(Telling), NEW e \in Telling
  PROVE  /\ e.type \in {"installed", "evaluated", "error"} =>
              /\ Count(Append(s, e), Answer) = Count(s, Answer) + 1
              /\ Count(Append(s, e), Wiped) = Count(s, Wiped)
              /\ Count(<<e>>, Answer) = 1 /\ Count(<<e>>, Wiped) = 0
         /\ e.type \in {"reset", "refused"} =>
              /\ Count(Append(s, e), Answer) = Count(s, Answer)
              /\ Count(Append(s, e), Wiped) = Count(s, Wiped) + 1
         /\ e.type \in {"predicted", "confirmed", "desynced"} =>
              /\ Count(Append(s, e), Answer) = Count(s, Answer)
              /\ Count(Append(s, e), Wiped) = Count(s, Wiped)
              /\ Count(<<e>>, Answer) = 0 /\ Count(<<e>>, Wiped) = 0
<1>1. /\ e \in Answer <=> e.type \in {"installed", "evaluated", "error"}
      /\ e \in Wiped <=> e.type \in {"reset", "refused"}
  BY Kinds
<1>2. <<>> \in Seq(Telling) /\ <<e>> = Append(<<>>, e)
  BY EmptyLaw
<1>3. ASSUME NEW S
      PROVE  /\ Count(Append(s, e), S) = Count(s, S) + (IF e \in S THEN 1 ELSE 0)
             /\ Count(<<e>>, S) = IF e \in S THEN 1 ELSE 0
  <2>1. Count(Append(s, e), S) = Count(s, S) + (IF e \in S THEN 1 ELSE 0)
    BY CountAppend
  <2>2. Count(<<e>>, S) = Count(<<>>, S) + (IF e \in S THEN 1 ELSE 0)
    BY <1>2, CountAppend
  <2>3. Count(<<>>, S) = 0
    BY CountEmpty
  <2> QED BY <2>1, <2>2, <2>3
<1>4. Count(s, Answer) \in Nat /\ Count(s, Wiped) \in Nat
  BY Counted
<1>5. /\ Count(Append(s, e), Answer) = Count(s, Answer) + (IF e \in Answer THEN 1 ELSE 0)
      /\ Count(<<e>>, Answer) = IF e \in Answer THEN 1 ELSE 0
      /\ Count(Append(s, e), Wiped) = Count(s, Wiped) + (IF e \in Wiped THEN 1 ELSE 0)
      /\ Count(<<e>>, Wiped) = IF e \in Wiped THEN 1 ELSE 0
  BY <1>3
<1> QED BY <1>1, <1>4, <1>5

\* An answer goes out, or what has to end before it waits in the queue.
LEMMA DoCounts ==
  ASSUME WiresOK, WorkerOK, NEW m \in Asking, resetting => m.type = "reset", Do(m),
         m \in Plan => Count(queue, Ticking) = 0
  PROVE  /\ Count(rsp', Answer) + Count(queue', Ticking)
              = Count(rsp, Answer) + Count(queue, Ticking) + (IF m \in Plan THEN 1 ELSE 0)
         /\ Count(rsp', Wiped) + Count(queue', Wiping)
              = Count(rsp, Wiped) + Count(queue, Wiping) + (IF m \in Wipe THEN 1 ELSE 0)
<1>0. /\ rsp \in Seq(Telling) /\ StoreOK /\ CommitOK /\ ResetLast /\ StoreOK'
      /\ m.turn \in Turns \cup {NoTurn}
      /\ m.type # "reset" => m.pos \in Positions
      /\ m.type \in {"commit", "confirm"} => m.turn \in Turns
      /\ m \in Plan <=> m.type \in {"install", "evaluate"}
      /\ m \in Wipe <=> m.type = "reset"
      /\ queue \in Seq(Item)
  BY MessageSays, Kinds, DoTyped DEF WiresOK, WorkerOK, StoreOK
<1>1. /\ Count(rsp, Answer) \in Nat /\ Count(queue, Ticking) \in Nat
      /\ Count(rsp, Wiped) \in Nat /\ Count(queue, Wiping) \in Nat
  BY <1>0, CountsNat
<1>2. ASSUME NEW e \in Telling
      PROVE  /\ e.type \in {"installed", "evaluated", "error"} =>
                  /\ Count(Append(rsp, e), Answer) = Count(rsp, Answer) + 1
                  /\ Count(Append(rsp, e), Wiped) = Count(rsp, Wiped)
                  /\ Count(<<e>>, Answer) = 1 /\ Count(<<e>>, Wiped) = 0
             /\ e.type \in {"reset", "refused"} =>
                  /\ Count(Append(rsp, e), Answer) = Count(rsp, Answer)
                  /\ Count(Append(rsp, e), Wiped) = Count(rsp, Wiped) + 1
             /\ e.type \in {"predicted", "confirmed", "desynced"} =>
                  /\ Count(Append(rsp, e), Answer) = Count(rsp, Answer)
                  /\ Count(Append(rsp, e), Wiped) = Count(rsp, Wiped)
                  /\ Count(<<e>>, Answer) = 0 /\ Count(<<e>>, Wiped) = 0
  BY <1>0, ToldCounts
<1>3. CASE DoInstall(m)
  <2> DEFINE e == Msg("installed", m.pos, NoTurn)
  <2>1. <<m.pos>> \in Seq(Positions) /\ e \in Telling /\ <<e>> \in Seq(Telling) /\ e.type = "installed"
        /\ m.type = "install"
    BY <1>0, <1>3, Singles, TellingMsg, MsgIs DEF DoInstall
  <2>2. PutAll(<<m.pos>>, {}, <<e>>)
    BY <1>3 DEF DoInstall
  <2> HIDE DEF e
  <2>3. /\ Count(queue', Ticking) = Count(queue, Ticking) /\ Count(queue', Wiping) = Count(queue, Wiping)
        /\ Count(rsp', Answer) = Count(rsp, Answer) + Count(<<e>>, Answer)
        /\ Count(rsp', Wiped) = Count(rsp, Wiped) + Count(<<e>>, Wiped)
    BY <1>0, <2>1, <2>2, PutAllCounts
  <2>4. Count(<<e>>, Answer) = 1 /\ Count(<<e>>, Wiped) = 0
    BY <1>2, <2>1
  <2> QED BY <1>0, <1>1, <2>1, <2>3, <2>4
<1>4. CASE DoEvaluate(m)
  <2>1. /\ Msg("error", m.pos, NoTurn) \in Telling /\ Msg("evaluated", m.pos, NoTurn) \in Telling
        /\ Msg("error", m.pos, NoTurn).type = "error" /\ Msg("evaluated", m.pos, NoTurn).type = "evaluated"
        /\ m.type = "evaluate"
    <3>1. m.type = "evaluate" /\ m.pos \in Positions \cup {NoPos} /\ NoTurn \in Turns \cup {NoTurn}
      BY <1>0, <1>4 DEF DoEvaluate
    <3> QED BY <3>1, TellingMsg, MsgIs
  <2>2. CASE m.pos \notin ToSet(held)
    <3>1. rsp' = Append(rsp, Msg("error", m.pos, NoTurn)) /\ queue' = queue
      BY <1>4, <2>2 DEF DoEvaluate, store
    <3>2. Count(rsp', Answer) = Count(rsp, Answer) + 1 /\ Count(rsp', Wiped) = Count(rsp, Wiped)
      BY <1>1, <1>2, <2>1, <3>1
    <3>3. Count(queue', Ticking) = Count(queue, Ticking) /\ Count(queue', Wiping) = Count(queue, Wiping)
      BY <3>1
    <3> QED BY <1>0, <1>1, <2>1, <3>2, <3>3
  <2>3. CASE m.pos \in ToSet(held)
    <3>1. /\ Want(m.pos, TRUE, {})
          /\ rsp' = IF m.pos \in evald THEN Append(rsp, Msg("evaluated", m.pos, NoTurn)) ELSE rsp
      BY <1>4, <2>3 DEF DoEvaluate
    <3>2. {} \in SUBSET Turns /\ TRUE \in BOOLEAN /\ Count(queue, Ticking) = 0
      BY <1>0, <2>1
    <3>3. /\ Count(queue', Ticking) = Count(queue, Ticking) + (IF m.pos \notin evald THEN 1 ELSE 0)
          /\ Count(queue', Wiping) = Count(queue, Wiping)
      BY <1>0, <2>3, <3>1, <3>2, WantCounts
    <3>4. CASE m.pos \in evald
      <4>1. Count(rsp', Answer) = Count(rsp, Answer) + 1 /\ Count(rsp', Wiped) = Count(rsp, Wiped)
        BY <1>1, <1>2, <2>1, <3>1, <3>4
      <4> QED BY <1>0, <1>1, <2>1, <3>3, <3>4, <4>1
    <3>5. CASE m.pos \notin evald
      <4>1. Count(rsp', Answer) = Count(rsp, Answer) /\ Count(rsp', Wiped) = Count(rsp, Wiped)
        BY <3>1, <3>5
      <4> QED BY <1>0, <1>1, <2>1, <3>3, <3>5, <4>1
    <3> QED BY <3>4, <3>5
  <2> QED BY <2>2, <2>3
<1>5. CASE DoCommit(m)
  <2> DEFINE e == Msg("desynced", NoPos, m.turn)
  <2>1. m.type = "commit" /\ e \in Telling /\ e.type = "desynced"
    BY <1>0, <1>5, TellingMsg, MsgIs DEF DoCommit
  <2>2. DOMAIN queue' = DOMAIN queue /\ (rsp' = rsp \/ rsp' = Append(rsp, e))
        /\ \A i \in DOMAIN queue : queue'[i].pos = queue[i].pos /\ queue'[i].tick = queue[i].tick
    <3>1. \A i \in DOMAIN queue : queue[i] \in Item
      BY <1>0, Indices
    <3>2. CASE m.pos \in ToSet(held) /\ (m.pos \in evald \/ Running(m.pos) # {})
      <4>1. /\ rsp' = rsp
            /\ queue' = [i \in DOMAIN queue |->
                           IF i \in Running(m.pos) /\ m.pos \notin evald
                             THEN [queue[i] EXCEPT !.jobs = @ \cup {m.turn}] ELSE queue[i]]
        BY <1>5, <3>2 DEF DoCommit
      <4> QED BY <3>1, <4>1 DEF Item
    <3>3. CASE ~(m.pos \in ToSet(held) /\ (m.pos \in evald \/ Running(m.pos) # {}))
      BY <1>5, <3>3 DEF DoCommit
    <3> QED BY <3>2, <3>3
  <2> HIDE DEF e
  <2>3. Count(queue', Ticking) = Count(queue, Ticking) /\ Count(queue', Wiping) = Count(queue, Wiping)
    BY <1>0, <2>2, SameTasksCounts
  <2>4. Count(rsp', Answer) = Count(rsp, Answer) /\ Count(rsp', Wiped) = Count(rsp, Wiped)
    BY <1>1, <1>2, <2>1, <2>2
  <2> QED BY <1>0, <1>1, <2>1, <2>3, <2>4
<1>6. CASE DoConfirm(m)
  <2> DEFINE e == Msg("desynced", NoPos, m.turn)
             c == Msg("confirmed", m.pos, m.turn)
  <2>1. m.type = "confirm" /\ e \in Telling /\ e.type = "desynced" /\ c \in Telling /\ c.type = "confirmed"
        /\ <<m.pos>> \in Seq(Positions) /\ <<c>> \in Seq(Telling)
    BY <1>0, <1>6, TellingMsg, MsgIs, Singles DEF DoConfirm
  <2>2. \/ PutAll(<<m.pos>>, {}, <<c>>)
        \/ rsp' = Append(rsp, e) /\ queue' = queue
    BY <1>6 DEF DoConfirm, store
  <2> HIDE DEF e, c
  <2>3. CASE PutAll(<<m.pos>>, {}, <<c>>)
    <3>1. /\ Count(queue', Ticking) = Count(queue, Ticking) /\ Count(queue', Wiping) = Count(queue, Wiping)
          /\ Count(rsp', Answer) = Count(rsp, Answer) + Count(<<c>>, Answer)
          /\ Count(rsp', Wiped) = Count(rsp, Wiped) + Count(<<c>>, Wiped)
      BY <1>0, <2>1, <2>3, PutAllCounts
    <3>2. Count(<<c>>, Answer) = 0 /\ Count(<<c>>, Wiped) = 0
      BY <1>2, <2>1
    <3> QED BY <1>0, <1>1, <2>1, <3>1, <3>2
  <2>4. CASE rsp' = Append(rsp, e) /\ queue' = queue
    <3>1. Count(rsp', Answer) = Count(rsp, Answer) /\ Count(rsp', Wiped) = Count(rsp, Wiped)
      BY <1>1, <1>2, <2>1, <2>4
    <3>2. Count(queue', Ticking) = Count(queue, Ticking) /\ Count(queue', Wiping) = Count(queue, Wiping)
      BY <2>4
    <3> QED BY <1>0, <1>1, <2>1, <3>1, <3>2
  <2> QED BY <2>2, <2>3, <2>4
<1>7. CASE DoReset(m)
  <2> DEFINE e == Msg("refused", NoPos, NoTurn)
  <2>1. m.type = "reset" /\ e \in Telling /\ e.type = "refused"
    BY <1>7, TellingMsg, MsgIs DEF DoReset
  <2>2. CASE resetting
    <3>1. rsp' = Append(rsp, e) /\ queue' = queue
      BY <1>7, <2>2 DEF DoReset
    <3> HIDE DEF e
    <3>2. Count(rsp', Answer) = Count(rsp, Answer) /\ Count(rsp', Wiped) = Count(rsp, Wiped) + 1
      BY <1>1, <1>2, <2>1, <3>1
    <3>3. Count(queue', Ticking) = Count(queue, Ticking) /\ Count(queue', Wiping) = Count(queue, Wiping)
      BY <3>1
    <3> QED BY <1>0, <1>1, <2>1, <3>2, <3>3
  <2>3. CASE ~resetting
    <3>1. rsp' = rsp /\ queue' = Append(queue, ResetItem)
      BY <1>7, <2>3 DEF DoReset
    <3>2. ResetItem \in Item /\ ResetItem \in Wiping /\ ResetItem \notin Ticking
      BY DEF ResetItem, Item, Wiping, Ticking
    <3>3. /\ Count(queue', Ticking) = Count(queue, Ticking)
          /\ Count(queue', Wiping) = Count(queue, Wiping) + 1
      BY <1>0, <1>1, <3>1, <3>2, CountAppend
    <3>4. Count(rsp', Answer) = Count(rsp, Answer) /\ Count(rsp', Wiped) = Count(rsp, Wiped)
      BY <3>1
    <3> QED BY <1>0, <1>1, <2>1, <3>3, <3>4
  <2> QED BY <2>2, <2>3
<1> QED BY <1>3, <1>4, <1>5, <1>6, <1>7 DEF Do

LEMMA HandleOwed ==
  ASSUME DriverOK, WiresOK, WorkerOK, Owed, Handle
  PROVE  Owed'
<1>0. StoreOK /\ pc' = pc /\ asked' = asked /\ UNCHANGED <<driver, client, faults>>
  BY HandleCases DEF WorkerOK, driver, client
<1>1. CASE Holding
  BY <1>0, <1>1, HoldingOwed
<1>2. ASSUME NEW m, Taking(m), Do(m) PROVE Owed'
  <2>1. m \in Asking /\ (resetting => m.type = "reset")
    BY <1>2, TakingTyped
  <2>2. /\ Count(req, Plan) + Count(late, Plan)
              = Count(req', Plan) + Count(late', Plan) + (IF m \in Plan THEN 1 ELSE 0)
         /\ Count(req, Wipe) = Count(req', Wipe) + (IF m \in Wipe THEN 1 ELSE 0)
         /\ Count(req', Plan) \in Nat /\ Count(late', Plan) \in Nat /\ Count(req', Wipe) \in Nat
    BY <1>2, TakingCounts
  <2>3. /\ Count(rsp, Answer) \in Nat /\ Count(queue, Ticking) \in Nat
        /\ Count(rsp, Wiped) \in Nat /\ Count(queue, Wiping) \in Nat
    BY <1>0, CountsNat
  <2>4. m \in Plan => Count(queue, Ticking) = 0
    <3> SUFFICES ASSUME m \in Plan PROVE Count(queue, Ticking) = 0
      OBVIOUS
    <3>1. Count(req, Plan) + Count(late, Plan) >= 1 /\ Count(req, Plan) + Count(late, Plan) \in Nat
      BY <2>2
    <3>2. Count(req, Plan) + Count(late, Plan) + Count(rsp, Answer) + Count(queue, Ticking) \in {0, 1}
      BY DEF Owed
    <3> QED BY <2>3, <3>1, <3>2
  <2>5. /\ Count(rsp', Answer) + Count(queue', Ticking)
              = Count(rsp, Answer) + Count(queue, Ticking) + (IF m \in Plan THEN 1 ELSE 0)
         /\ Count(rsp', Wiped) + Count(queue', Wiping)
              = Count(rsp, Wiped) + Count(queue, Wiping) + (IF m \in Wipe THEN 1 ELSE 0)
    BY <1>2, <2>1, <2>4, DoCounts
  <2>6. rsp' \in Seq(Telling) /\ WorkerOK'
    BY <1>2, <2>1, DoTyped
  <2>7. /\ Count(rsp', Answer) \in Nat /\ Count(queue', Ticking) \in Nat
        /\ Count(rsp', Wiped) \in Nat /\ Count(queue', Wiping) \in Nat
    BY <2>6, Counted DEF WorkerOK, StoreOK
  <2>8. Count(req', Wipe) + Count(rsp', Wiped) + Count(queue', Wiping)
          = Count(req, Wipe) + Count(rsp, Wiped) + Count(queue, Wiping)
    BY <2>2, <2>3, <2>5, <2>7
  <2>9. Count(req', Plan) + Count(late', Plan) + Count(rsp', Answer) + Count(queue', Ticking)
          = Count(req, Plan) + Count(late, Plan) + Count(rsp, Answer) + Count(queue, Ticking)
    BY <2>2, <2>3, <2>5, <2>7
  <2> QED BY <1>0, <2>8, <2>9 DEF Owed
<1> QED BY <1>1, <1>2, HandleCases

LEMMA EngineCounts ==
  ASSUME WiresOK, WorkerOK, EngineStep
  PROVE  /\ Count(rsp', Answer) + Count(queue', Ticking) = Count(rsp, Answer) + Count(queue, Ticking)
         /\ Count(rsp', Wiped) + Count(queue', Wiping) = Count(rsp, Wiped) + Count(queue, Wiping)
<1>0. /\ rsp \in Seq(Telling) /\ StoreOK /\ CommitOK /\ ResetLast /\ queue \in Seq(Item)
      /\ job.turn \in Turns \cup {NoTurn} /\ NoTurn \notin Turns
      /\ job.stage # "none" => job.turn \in Turns /\ job.pos \in Positions
  BY GoAssumption DEF WiresOK, WorkerOK, CommitOK, StoreOK
<1>1. /\ Count(rsp, Answer) \in Nat /\ Count(queue, Ticking) \in Nat
      /\ Count(rsp, Wiped) \in Nat /\ Count(queue, Wiping) \in Nat
  BY <1>0, CountsNat
<1>2. /\ Count(<<>>, Answer) = 0 /\ Count(<<>>, Wiped) = 0 /\ <<>> \in Seq(Telling)
  BY CountEmpty, EmptyLaw
<1>3. ASSUME NEW a \in Seq(Telling), NEW b \in Seq(Telling), NEW S
      PROVE  Count(rsp \o a \o b, S) = Count(rsp, S) + Count(a, S) + Count(b, S)
  <2>1. rsp \o a \in Seq(Telling) /\ Count(rsp \o a, S) = Count(rsp, S) + Count(a, S)
    BY <1>0, Joined, CountJoined
  <2>2. Count((rsp \o a) \o b, S) = Count(rsp \o a, S) + Count(b, S)
    <3> DEFINE c == rsp \o a
    <3>1. c \in Seq(Telling)
      BY <2>1
    <3> HIDE DEF c
    <3>2. Count(c \o b, S) = Count(c, S) + Count(b, S)
      BY <3>1, CountJoined
    <3> QED BY <3>2 DEF c
  <2> QED BY <2>1, <2>2
<1>4. ASSUME queue # <<>>, queue' = Tail(queue)
      PROVE  /\ Head(queue) \in Item /\ queue' \in Seq(Item)
             /\ Count(queue, Ticking) = Count(queue', Ticking) + (IF Head(queue).tick THEN 1 ELSE 0)
             /\ Count(queue, Wiping) = Count(queue', Wiping) + (IF Head(queue).pos = NoPos THEN 1 ELSE 0)
             /\ Count(queue', Ticking) \in Nat /\ Count(queue', Wiping) \in Nat
  <2>1. Head(queue) \in Item /\ queue' \in Seq(Item)
    BY <1>0, <1>4, Taken
  <2>2. /\ Count(queue, Ticking) = Count(queue', Ticking) + (IF Head(queue) \in Ticking THEN 1 ELSE 0)
        /\ Count(queue, Wiping) = Count(queue', Wiping) + (IF Head(queue) \in Wiping THEN 1 ELSE 0)
    BY <1>0, <1>4, CountTail
  <2>3. /\ Head(queue) \in Ticking <=> Head(queue).tick
        /\ Head(queue) \in Wiping <=> Head(queue).pos = NoPos
    BY <2>1 DEF Ticking, Wiping
  <2> QED BY <2>1, <2>2, <2>3, Counted
<1>5. CASE EngineDone
  <2> DEFINE e == Head(queue)
             told == Msg("evaluated", e.pos, NoTurn)
             reply == IF e.tick THEN <<told>> ELSE <<>>
             seen == Msg("predicted", e.pos, job.turn)
             push == Push(e)
  <2>1. /\ queue # <<>> /\ e.pos # NoPos /\ queue' = Tail(queue)
        /\ rsp' \in {rsp \o reply \o push, rsp \o push \o reply}
    BY <1>5 DEF EngineDone
  <2>2. e.pos \in Positions
    BY <1>4, <2>1 DEF Item
  <2>3. told \in Telling /\ told.type = "evaluated" /\ <<told>> \in Seq(Telling)
    BY <2>2, TellingMsg, MsgIs, Singles
  <2>4. job.stage # "none" => seen \in Telling /\ seen.type = "predicted" /\ <<seen>> \in Seq(Telling)
    BY <1>0, <2>2, TellingMsg, MsgIs, Singles
  <2>5. push = <<>> \/ (push = <<seen>> /\ job.stage # "none")
    BY DEF Push
  <2> HIDE DEF told, seen, push
  <2>6. /\ Count(<<told>>, Answer) = 1 /\ Count(<<told>>, Wiped) = 0
        /\ job.stage # "none" => Count(<<seen>>, Answer) = 0 /\ Count(<<seen>>, Wiped) = 0
    BY <2>3, <2>4, <1>2, ToldCounts
  <2>7. /\ reply \in Seq(Telling) /\ push \in Seq(Telling)
        /\ Count(reply, Answer) = (IF e.tick THEN 1 ELSE 0) /\ Count(reply, Wiped) = 0
        /\ Count(push, Answer) = 0 /\ Count(push, Wiped) = 0
    BY <1>2, <2>3, <2>4, <2>5, <2>6
  <2> HIDE DEF reply
  <2>8. /\ Count(rsp', Answer) = Count(rsp, Answer) + (IF e.tick THEN 1 ELSE 0)
        /\ Count(rsp', Wiped) = Count(rsp, Wiped)
    <3>1. CASE rsp' = rsp \o reply \o push
      <4>1. \A S : Count(rsp', S) = Count(rsp, S) + Count(reply, S) + Count(push, S)
        BY <1>3, <2>7, <3>1
      <4> HIDE DEF e
      <4> QED BY <1>1, <2>7, <4>1
    <3>2. CASE rsp' = rsp \o push \o reply
      <4>1. \A S : Count(rsp', S) = Count(rsp, S) + Count(push, S) + Count(reply, S)
        BY <1>3, <2>7, <3>2
      <4> HIDE DEF e
      <4> QED BY <1>1, <2>7, <4>1
    <3> QED BY <2>1, <3>1, <3>2
  <2> QED BY <1>1, <1>4, <2>1, <2>8
<1>6. CASE EngineFails
  <2> DEFINE e == Head(queue)
             told == Msg("error", e.pos, NoTurn)
             lost == Msg("desynced", NoPos, NoTurn)
             a == IF e.tick THEN <<told>> ELSE <<>>
             b == IF e.jobs # {} THEN <<lost>> ELSE <<>>
  <2>1. /\ queue # <<>> /\ e.pos # NoPos /\ queue' = Tail(queue) /\ rsp' = rsp \o a \o b
    BY <1>6 DEF EngineFails
  <2>2. e.pos \in Positions
    BY <1>4, <2>1 DEF Item
  <2>3. /\ told \in Telling /\ told.type = "error" /\ <<told>> \in Seq(Telling)
        /\ lost \in Telling /\ lost.type = "desynced" /\ <<lost>> \in Seq(Telling)
    BY <2>2, TellingMsg, MsgIs, Singles
  <2> HIDE DEF told, lost
  <2>4. /\ Count(<<told>>, Answer) = 1 /\ Count(<<told>>, Wiped) = 0
        /\ Count(<<lost>>, Answer) = 0 /\ Count(<<lost>>, Wiped) = 0
    BY <2>3, <1>2, ToldCounts
  <2>5. /\ a \in Seq(Telling) /\ b \in Seq(Telling)
        /\ Count(a, Answer) = (IF e.tick THEN 1 ELSE 0) /\ Count(a, Wiped) = 0
        /\ Count(b, Answer) = 0 /\ Count(b, Wiped) = 0
    BY <1>2, <2>3, <2>4
  <2> HIDE DEF a, b
  <2>6. \A S : Count(rsp', S) = Count(rsp, S) + Count(a, S) + Count(b, S)
    BY <1>3, <2>1, <2>5
  <2>7. /\ Count(rsp', Answer) = Count(rsp, Answer) + (IF e.tick THEN 1 ELSE 0)
        /\ Count(rsp', Wiped) = Count(rsp, Wiped)
    <3> HIDE DEF e
    <3> QED BY <1>1, <2>5, <2>6
  <2> QED BY <1>1, <1>4, <2>1, <2>7
<1>7. CASE EngineReset
  <2>1. queue # <<>> /\ Head(queue).pos = NoPos /\ queue' = Tail(queue)
    BY <1>7 DEF EngineReset
  <2>2. PICK t \in {"reset", "refused"} : rsp' = Append(rsp, Msg(t, NoPos, NoTurn))
    BY <1>7 DEF EngineReset
  <2>3. Msg(t, NoPos, NoTurn) \in Telling /\ Msg(t, NoPos, NoTurn).type \in {"reset", "refused"}
    BY TellingMsg, MsgIs
  <2>4. Count(rsp', Answer) = Count(rsp, Answer) /\ Count(rsp', Wiped) = Count(rsp, Wiped) + 1
    BY <1>0, <2>2, <2>3, ToldCounts
  <2>5. ~Head(queue).tick
    <3>1. Head(queue) = queue[1] /\ 1 \in DOMAIN queue
      BY <1>0, <2>1, Taken
    <3> QED BY <1>0, <2>1, <3>1 DEF ResetLast
  <2> QED BY <1>1, <1>4, <2>1, <2>4, <2>5
<1>8. CASE UNCHANGED <<rsp, queue>>
  BY <1>8
<1>9. CASE JobBegins
  <2>1. CASE job.fresh
    <3>1. PutAll(Succ[job.pos], Positions \ Selected(job.pos), <<>>) /\ job.stage = "begin"
      BY <1>9, <2>1 DEF JobBegins
    <3>2. Succ[job.pos] \in Seq(Positions)
      BY <1>0, <3>1, GoAssumption
    <3>3. /\ Count(queue', Ticking) = Count(queue, Ticking) /\ Count(queue', Wiping) = Count(queue, Wiping)
          /\ Count(rsp', Answer) = Count(rsp, Answer) + Count(<<>>, Answer)
          /\ Count(rsp', Wiped) = Count(rsp, Wiped) + Count(<<>>, Wiped)
      BY <1>0, <1>2, <3>1, <3>2, PutAllCounts
    <3> QED BY <1>1, <1>2, <3>3
  <2>2. CASE ~job.fresh
    BY <1>8, <1>9, <2>2 DEF JobBegins, store
  <2> QED BY <2>1, <2>2
<1>10. ASSUME NEW p \in Positions, JobTask(p)
       PROVE  /\ Count(rsp', Answer) + Count(queue', Ticking) = Count(rsp, Answer) + Count(queue, Ticking)
              /\ Count(rsp', Wiped) + Count(queue', Wiping) = Count(rsp, Wiped) + Count(queue, Wiping)
  <2> DEFINE lost == Msg("desynced", NoPos, job.turn)
             seen == Msg("predicted", p, job.turn)
  <2>1. job.stage = "tasks" /\ job.turn \in Turns
    BY <1>0, <1>10 DEF JobTask
  <2>2. lost \in Telling /\ lost.type = "desynced" /\ seen \in Telling /\ seen.type = "predicted"
    BY <2>1, TellingMsg, MsgIs
  <2>3. rsp' = rsp \/ rsp' = Append(rsp, lost) \/ rsp' = Append(rsp, seen)
    BY <1>10 DEF JobTask
  <2> HIDE DEF lost, seen
  <2>4. Count(rsp', Answer) = Count(rsp, Answer) /\ Count(rsp', Wiped) = Count(rsp, Wiped)
    <3>1. CASE rsp' = rsp
      BY <3>1
    <3>2. CASE rsp' = Append(rsp, lost) \/ rsp' = Append(rsp, seen)
      BY <1>0, <2>2, <3>2, ToldCounts
    <3> QED BY <2>3, <3>1, <3>2
  <2>5. Count(queue', Ticking) = Count(queue, Ticking) /\ Count(queue', Wiping) = Count(queue, Wiping)
    <3>1. CASE p \notin ToSet(held)
      BY <1>10, <3>1 DEF JobTask, store
    <3>2. CASE p \in ToSet(held)
      <4>1. Want(p, FALSE, {job.turn}) /\ {job.turn} \in SUBSET Turns /\ FALSE \in BOOLEAN
        BY <1>10, <2>1, <3>2 DEF JobTask
      <4>2. /\ Count(queue', Ticking) = Count(queue, Ticking) + (IF FALSE /\ p \notin evald THEN 1 ELSE 0)
            /\ Count(queue', Wiping) = Count(queue, Wiping)
        BY <1>0, <3>2, <4>1, WantCounts
      <4> QED BY <1>1, <4>2
    <3> QED BY <3>1, <3>2
  <2> QED BY <2>4, <2>5
<1>11. CASE JobEnds \/ Expire
  BY <1>8, <1>11 DEF JobEnds, Expire, store
<1> QED BY <1>5, <1>6, <1>7, <1>9, <1>10, <1>11 DEF EngineStep

LEMMA EngineOwed ==
  ASSUME WiresOK, WorkerOK, Owed, EngineStep
  PROVE  Owed'
<1>1. UNCHANGED <<driver, client, req, late, faults>> /\ rsp' \in Seq(Telling) /\ WorkerOK'
  BY EngineTyped
<1>2. /\ Count(rsp', Answer) + Count(queue', Ticking) = Count(rsp, Answer) + Count(queue, Ticking)
      /\ Count(rsp', Wiped) + Count(queue', Wiping) = Count(rsp, Wiped) + Count(queue, Wiping)
  BY EngineCounts
<1>3. /\ Count(req, Plan) \in Nat /\ Count(late, Plan) \in Nat /\ Count(rsp, Answer) \in Nat
      /\ Count(queue, Ticking) \in Nat
      /\ Count(req, Wipe) \in Nat /\ Count(rsp, Wiped) \in Nat /\ Count(queue, Wiping) \in Nat
  BY CountsNat DEF WorkerOK
<1>4. /\ Count(rsp', Answer) \in Nat /\ Count(queue', Ticking) \in Nat
      /\ Count(rsp', Wiped) \in Nat /\ Count(queue', Wiping) \in Nat
  BY <1>1, Counted DEF WorkerOK, StoreOK
<1>5. pc' = pc /\ asked' = asked /\ req' = req /\ late' = late
  BY <1>1 DEF driver, client
<1>6. /\ Count(req', Plan) = Count(req, Plan) /\ Count(late', Plan) = Count(late, Plan)
      /\ Count(req', Wipe) = Count(req, Wipe)
  BY <1>5
<1>7. Count(req', Plan) + Count(late', Plan) + Count(rsp', Answer) + Count(queue', Ticking)
        = Count(req, Plan) + Count(late, Plan) + Count(rsp, Answer) + Count(queue, Ticking)
  BY <1>2, <1>3, <1>4, <1>6
<1>8. Count(req', Wipe) + Count(rsp', Wiped) + Count(queue', Wiping)
        = Count(req, Wipe) + Count(rsp, Wiped) + Count(queue, Wiping)
  BY <1>2, <1>3, <1>4, <1>6
<1> QED BY <1>5, <1>7, <1>8 DEF Owed

-----------------------------------------------------------------------------
(* The order of a turn's requests *)

FirstOfTurn(m, n) == n.type = "commit" /\ m.type \in {"commit", "confirm"} => m.turn # n.turn

InOrder ==
  /\ \A i, j \in DOMAIN late : i < j => FirstOfTurn(late[i], late[j])
  /\ \A i, j \in DOMAIN req : i < j => FirstOfTurn(req[i], req[j])
  /\ \A i \in DOMAIN late, j \in DOMAIN req : FirstOfTurn(late[i], req[j])

\* The worker has not seen the commit of turn t yet.
Pending(t) ==
  \/ \E i \in DOMAIN req : req[i].type = "commit" /\ req[i].turn = t
  \/ \E i \in DOMAIN late : late[i].type = "commit" /\ late[i].turn = t

LEMMA UsedLaw ==
  ASSUME WiresOK, StoreOK, NEW t \in Turns, t \notin Used
  PROVE  /\ \A i \in DOMAIN req : req[i].turn # t
         /\ \A i \in DOMAIN rsp : rsp[i].turn # t
         /\ \A i \in DOMAIN late : late[i].turn # t
         /\ \A x \in pushed \cup pred : x[1] # t
         /\ job.turn # t /\ parent # t /\ last # t
         /\ \A i \in DOMAIN queue : t \notin queue[i].jobs
<1>1. req \in Seq(Message) /\ rsp \in Seq(Message) /\ late \in Seq(Message)
  <2>1. Asking \subseteq Message /\ Waiting \subseteq Message /\ Telling \subseteq Message
    BY DEF Asking, Waiting, Telling, OfType
  <2> QED BY <2>1 DEF WiresOK
<1>2. req \o rsp \in Seq(Message) /\ ToSet(req \o rsp) = ToSet(req) \cup ToSet(rsp)
  BY <1>1, Joined
<1>3. ToSet(req \o rsp \o late) = ToSet(req) \cup ToSet(rsp) \cup ToSet(late)
  <2> DEFINE both == req \o rsp
  <2>1. both \in Seq(Message) /\ ToSet(both) = ToSet(req) \cup ToSet(rsp)
    BY <1>2
  <2> HIDE DEF both
  <2>2. ToSet(both \o late) = ToSet(both) \cup ToSet(late)
    BY <1>1, <2>1, Joined
  <2> QED BY <2>1, <2>2 DEF both
<1>4. /\ \A m \in ToSet(req) \cup ToSet(rsp) \cup ToSet(late) : m.turn # t
      /\ \A x \in pushed \cup pred : x[1] # t
      /\ job.turn # t /\ parent # t /\ last # t
      /\ \A e \in ToSet(queue) : t \notin e.jobs
  <2>1. /\ t \notin {m.turn : m \in ToSet(req) \cup ToSet(rsp) \cup ToSet(late)}
        /\ t \notin {x[1] : x \in pushed \cup pred}
        /\ t \notin {parent, last, active[1], job.turn}
        /\ t \notin UNION {e.jobs : e \in ToSet(queue)}
    BY <1>3, Zenon DEF Used
  <2> QED BY <2>1
<1> QED BY <1>4 DEF ToSet

LEMMA DriverOrder ==
  ASSUME DriverOK, WiresOK, StoreOK, InOrder, DriverStep
  PROVE  /\ InOrder'
         /\ \A t \in Turns : Pending(t)' => Pending(t) \/ t \notin Used
<1>1. Same /\ late' = late
  BY DriverTyped DEF Same, worker
<1>2. /\ DOMAIN req = 1 .. Len(req) /\ Len(req) \in Nat
      /\ DOMAIN late = 1 .. Len(late) /\ Len(late) \in Nat
  BY Indices DEF WiresOK
<1>3. CASE req' = req
  BY <1>1, <1>3 DEF InOrder, Pending
<1>4. ASSUME NEW m \in Asking, req' = Append(req, m),
             m.type = "commit" => m.turn \notin Used
      PROVE  /\ InOrder'
             /\ \A t \in Turns : Pending(t)' => Pending(t) \/ t \notin Used
  <2>1. /\ DOMAIN req' = 1 .. Len(req) + 1
        /\ \A i \in 1 .. Len(req) : req'[i] = req[i]
        /\ req'[Len(req) + 1] = m
    BY <1>4, Appended DEF WiresOK
  <2>2. \A i \in 1 .. Len(req) + 1 : i \in 1 .. Len(req) \/ i = Len(req) + 1
    BY <1>2
  <2>3. m.type = "commit" => m.turn \in Turns
    BY MessageSays
  <2>4. m.type = "commit" => /\ \A i \in DOMAIN req : req[i].turn # m.turn
                             /\ \A i \in DOMAIN late : late[i].turn # m.turn
    BY <1>4, <2>3, UsedLaw
  <2>5. /\ \A i \in DOMAIN req : FirstOfTurn(req[i], m)
        /\ \A i \in DOMAIN late : FirstOfTurn(late[i], m)
    BY <2>4 DEF FirstOfTurn
  <2>6. \A i, j \in DOMAIN req' : i < j => FirstOfTurn(req'[i], req'[j])
    <3> TAKE i, j \in DOMAIN req'
    <3> HAVE i < j
    <3>1. i \in 1 .. Len(req)
      BY <1>2, <2>1
    <3>2. CASE j \in 1 .. Len(req)
      BY <1>2, <2>1, <3>1, <3>2 DEF InOrder
    <3>3. CASE j = Len(req) + 1
      BY <1>2, <2>1, <2>5, <3>1, <3>3
    <3> QED BY <2>1, <2>2, <3>2, <3>3
  <2>7. \A i \in DOMAIN late', j \in DOMAIN req' : FirstOfTurn(late'[i], req'[j])
    BY <1>1, <1>2, <2>1, <2>2, <2>5 DEF InOrder
  <2>8. InOrder'
    BY <1>1, <2>6, <2>7 DEF InOrder
  <2>9. ASSUME NEW t \in Turns, Pending(t)' PROVE Pending(t) \/ t \notin Used
    <3>1. CASE \E i \in DOMAIN late' : late'[i].type = "commit" /\ late'[i].turn = t
      BY <1>1, <3>1 DEF Pending
    <3>2. CASE \E i \in DOMAIN req' : req'[i].type = "commit" /\ req'[i].turn = t
      BY <1>2, <1>4, <2>1, <2>2, <3>2 DEF Pending
    <3> QED BY <2>9, <3>1, <3>2 DEF Pending
  <2> QED BY <2>8, <2>9
<1>5. ASSUME NEW m, req' = Append(req, m), m \in Asking, m.type \in {"install", "evaluate", "confirm", "reset"}
      PROVE  /\ InOrder'
             /\ \A t \in Turns : Pending(t)' => Pending(t) \/ t \notin Used
  BY <1>4, <1>5
<1>6. /\ \A t \in Turns \cup {NoTurn} : Msg("install", view, t) \in Asking
      /\ Msg("evaluate", view, NoTurn) \in Asking /\ Msg("reset", NoPos, NoTurn) \in Asking
      /\ \A p \in Positions, t \in Turns : Msg("commit", p, t) \in Asking /\ Msg("confirm", p, t) \in Asking
      /\ \A a : \A p : \A t : Msg(a, p, t).type = a /\ Msg(a, p, t).turn = t
  BY AskingMsg, MsgIs DEF DriverOK
<1>7. CASE Install
  <2>1. (req' = req \/ req' = Append(req, Msg("install", view, last))) /\ last \in Turns \cup {NoTurn}
    BY <1>7 DEF Install, DriverOK
  <2> QED BY <1>3, <1>5, <1>6, <2>1
<1>8. CASE Hold \/ DispatchPlain \/ Rehydrate
  BY <1>3, <1>8 DEF Hold, DispatchPlain, Rehydrate
<1>9. CASE Evaluate
  <2>1. req' = req \/ req' = Append(req, Msg("evaluate", view, NoTurn))
    BY <1>9 DEF Evaluate
  <2> QED BY <1>3, <1>5, <1>6, <2>1
<1>10. ASSUME NEW t \in Turns, DispatchCommit(t)
       PROVE  /\ InOrder'
              /\ \A u \in Turns : Pending(u)' => Pending(u) \/ u \notin Used
  <2>1. (req' = req \/ req' = Append(req, Msg("commit", view, t))) /\ t \notin Used /\ view \in Positions
    BY <1>10 DEF DispatchCommit, DriverOK
  <2> QED BY <1>3, <1>4, <1>6, <2>1
<1>11. ASSUME NEW p \in Positions, Answered(p)
       PROVE  /\ InOrder'
              /\ \A t \in Turns : Pending(t)' => Pending(t) \/ t \notin Used
  <2>1. req' = req \/ (mine \in Turns /\ req' = Append(req, Msg("confirm", p, mine)))
    BY <1>11 DEF Answered, DriverOK
  <2> QED BY <1>3, <1>5, <1>6, <2>1
<1>12. CASE Reset /\ ~failed
  <2>1. req' = Append(req, Msg("reset", NoPos, NoTurn))
    BY <1>12 DEF Reset
  <2> QED BY <1>5, <1>6, <2>1
<1> QED BY <1>7, <1>8, <1>9, <1>10, <1>11, <1>12 DEF DriverStep

LEMMA TakingOrder ==
  ASSUME WiresOK, InOrder, NEW m, Taking(m)
  PROVE  /\ InOrder'
         /\ m.type = "commit" => Pending(m.turn)
         /\ \A t : Pending(t)' => Pending(t) /\ (m.type \in {"commit", "confirm"} => t # m.turn)
<1>1. CASE late # <<>> /\ m = Head(late) /\ late' = Tail(late) /\ req' = req
  <2>1. /\ m = late[1] /\ 1 \in DOMAIN late /\ DOMAIN late' = 1 .. Len(late) - 1
        /\ \A i \in 1 .. Len(late) - 1 : late'[i] = late[i + 1]
        /\ DOMAIN late = 1 .. Len(late) /\ Len(late) \in Nat
    BY <1>1, Taken, Indices DEF WiresOK
  <2>2. /\ \A i \in 1 .. Len(late) - 1 : i + 1 \in DOMAIN late /\ 1 < i + 1
        /\ \A i, j \in 1 .. Len(late) - 1 : i < j => i + 1 < j + 1
    BY <2>1
  <2>3. InOrder'
    BY <1>1, <2>1, <2>2 DEF InOrder
  <2>4. m.type = "commit" => Pending(m.turn)
    BY <2>1 DEF Pending
  <2>5. ASSUME NEW t, Pending(t)' PROVE Pending(t) /\ (m.type \in {"commit", "confirm"} => t # m.turn)
    <3>1. CASE \E i \in DOMAIN late' : late'[i].type = "commit" /\ late'[i].turn = t
      <4>1. PICK i \in DOMAIN late' : late'[i].type = "commit" /\ late'[i].turn = t
        BY <3>1
      <4>2. late[i + 1] = late'[i] /\ i + 1 \in DOMAIN late /\ FirstOfTurn(late[1], late[i + 1])
        BY <2>1, <2>2, <4>1 DEF InOrder
      <4> QED BY <2>1, <4>1, <4>2 DEF Pending, FirstOfTurn
    <3>2. CASE \E i \in DOMAIN req' : req'[i].type = "commit" /\ req'[i].turn = t
      <4>1. PICK i \in DOMAIN req : req[i].type = "commit" /\ req[i].turn = t
        BY <1>1, <3>2
      <4>2. FirstOfTurn(late[1], req[i])
        BY <2>1, <4>1 DEF InOrder
      <4> QED BY <2>1, <4>1, <4>2 DEF Pending, FirstOfTurn
    <3> QED BY <2>5, <3>1, <3>2 DEF Pending
  <2> QED BY <2>3, <2>4, <2>5
<1>2. CASE /\ req # <<>> /\ m = Head(req) /\ req' = Tail(req) /\ late' = late
           /\ late = <<>> \/ m.type = "reset"
  <2>1. /\ m = req[1] /\ 1 \in DOMAIN req /\ DOMAIN req' = 1 .. Len(req) - 1
        /\ \A i \in 1 .. Len(req) - 1 : req'[i] = req[i + 1]
        /\ DOMAIN req = 1 .. Len(req) /\ Len(req) \in Nat
    BY <1>2, Taken, Indices DEF WiresOK
  <2>2. /\ \A i \in 1 .. Len(req) - 1 : i + 1 \in DOMAIN req /\ 1 < i + 1
        /\ \A i, j \in 1 .. Len(req) - 1 : i < j => i + 1 < j + 1
    BY <2>1
  <2>3. InOrder'
    BY <1>2, <2>1, <2>2 DEF InOrder
  <2>4. m.type = "commit" => Pending(m.turn)
    BY <2>1 DEF Pending
  <2>5. ASSUME NEW t, Pending(t)' PROVE Pending(t) /\ (m.type \in {"commit", "confirm"} => t # m.turn)
    <3>1. CASE \E i \in DOMAIN late' : late'[i].type = "commit" /\ late'[i].turn = t
      <4>1. late # <<>>
        BY <1>2, <3>1, EmptyLaw
      <4> QED BY <1>2, <3>1, <4>1 DEF Pending
    <3>2. CASE \E i \in DOMAIN req' : req'[i].type = "commit" /\ req'[i].turn = t
      <4>1. PICK i \in DOMAIN req' : req'[i].type = "commit" /\ req'[i].turn = t
        BY <3>2
      <4>2. req[i + 1] = req'[i] /\ i + 1 \in DOMAIN req /\ FirstOfTurn(req[1], req[i + 1])
        BY <2>1, <2>2, <4>1 DEF InOrder
      <4> QED BY <2>1, <4>1, <4>2 DEF Pending, FirstOfTurn
    <3> QED BY <2>5, <3>1, <3>2 DEF Pending
  <2> QED BY <2>3, <2>4, <2>5
<1> QED BY <1>1, <1>2 DEF Taking

LEMMA HoldingOrder ==
  ASSUME WiresOK, InOrder, Holding
  PROVE  InOrder' /\ \A t : Pending(t)' => Pending(t)
<1> DEFINE m == Head(req)
<1>1. /\ m = req[1] /\ 1 \in DOMAIN req /\ DOMAIN req' = 1 .. Len(req) - 1 /\ m \in Waiting
      /\ \A i \in 1 .. Len(req) - 1 : req'[i] = req[i + 1]
      /\ DOMAIN req = 1 .. Len(req) /\ Len(req) \in Nat
  BY Taken, Indices DEF WiresOK, Holding, Waiting
<1>2. /\ \A i \in 1 .. Len(req) - 1 : i + 1 \in DOMAIN req /\ 1 < i + 1
      /\ \A i, j \in 1 .. Len(req) - 1 : i < j => i + 1 < j + 1
  BY <1>1
<1> HIDE DEF m
<1>3. late' = Append(late, m)
  BY DEF Holding, m
<1>4. /\ DOMAIN late = 1 .. Len(late) /\ Len(late) \in Nat /\ DOMAIN late' = 1 .. Len(late) + 1
      /\ \A i \in 1 .. Len(late) : late'[i] = late[i]
      /\ late'[Len(late) + 1] = m
  BY <1>1, <1>3, Appended, Indices DEF WiresOK
<1>5. \A i \in 1 .. Len(late) + 1 : i \in 1 .. Len(late) \/ i = Len(late) + 1
  BY <1>4
<1>6. \A i, j \in DOMAIN late' : i < j => FirstOfTurn(late'[i], late'[j])
  <2> TAKE i, j \in DOMAIN late'
  <2> HAVE i < j
  <2>1. i \in 1 .. Len(late)
    BY <1>4
  <2>2. CASE j \in 1 .. Len(late)
    BY <1>4, <2>1, <2>2 DEF InOrder
  <2>3. CASE j = Len(late) + 1
    BY <1>1, <1>4, <2>1, <2>3 DEF InOrder
  <2> QED BY <1>4, <1>5, <2>2, <2>3
<1>7. \A i, j \in DOMAIN req' : i < j => FirstOfTurn(req'[i], req'[j])
  BY <1>1, <1>2 DEF InOrder
<1>8. \A i \in DOMAIN late', j \in DOMAIN req' : FirstOfTurn(late'[i], req'[j])
  <2> TAKE i \in DOMAIN late', j \in DOMAIN req'
  <2>1. req'[j] = req[j + 1] /\ j + 1 \in DOMAIN req /\ 1 < j + 1
    BY <1>1, <1>2
  <2>2. CASE i \in 1 .. Len(late)
    BY <1>4, <2>1, <2>2 DEF InOrder
  <2>3. CASE i = Len(late) + 1
    BY <1>1, <1>4, <2>1, <2>3 DEF InOrder
  <2> QED BY <1>4, <1>5, <2>2, <2>3
<1>9. ASSUME NEW t, Pending(t)' PROVE Pending(t)
  <2>1. CASE \E i \in DOMAIN late' : late'[i].type = "commit" /\ late'[i].turn = t
    BY <1>1, <1>4, <1>5, <2>1 DEF Pending
  <2>2. CASE \E i \in DOMAIN req' : req'[i].type = "commit" /\ req'[i].turn = t
    BY <1>1, <1>2, <2>2 DEF Pending
  <2> QED BY <1>9, <2>1, <2>2 DEF Pending
<1> QED BY <1>6, <1>7, <1>8, <1>9 DEF InOrder

LEMMA AnewOrder ==
  ASSUME Anew
  PROVE  InOrder' /\ \A t : ~Pending(t)'
BY EmptyLaw DEF Anew, InOrder, Pending

LEMMA PendingTurn ==
  ASSUME WiresOK, NEW t, Pending(t)
  PROVE  t \in Turns
<1>1. /\ \A i \in DOMAIN req : req[i] \in Asking
      /\ \A i \in DOMAIN late : late[i] \in Asking
  BY Indices DEF WiresOK, Waiting
<1> QED BY <1>1, MessageSays DEF Pending

-----------------------------------------------------------------------------
(* What the worker says in a step *)

Verdict(m) == m.type \in {"confirmed", "desynced"}

\* Messages of M, and no others, are added to those on their way.
Says(M) ==
  /\ rsp' \in Seq(Telling)
  /\ \A i \in DOMAIN rsp : i \in DOMAIN rsp' /\ rsp'[i] = rsp[i]
  /\ \A i \in DOMAIN rsp' : i \notin DOMAIN rsp => rsp'[i] \in M

\* What was held is held, or a new message tells that it is not.
Keeps ==
  \A q \in ToSet(held) :
    \/ q \in ToSet(held')
    \/ \E i \in DOMAIN rsp' : i \notin DOMAIN rsp /\ rsp'[i].type = "evicted" /\ rsp'[i].pos = q

\* The position is held, or is one that the current commit waits for.
Ready(p) ==
  \/ p \in ToSet(held)
  \/ job.stage = "engine" /\ \E i \in DOMAIN queue : job.turn \in queue[i].jobs /\ queue[i].pos = p

\* Only the current commit predicts, a verdict ends the commit it is about, and
\* what is told to be installed is.
Truthful(M) ==
  /\ \A m \in M : m.type = "predicted" =>
       job.fresh /\ m.turn = job.turn /\ Ready(m.pos) /\ ToSet(held') = ToSet(held)
  /\ \A m \in M : Verdict(m) => ~(job'.fresh /\ job'.turn = m.turn) /\ ~Pending(m.turn)'
  /\ \A m \in M, n \in M : Verdict(m) => n.type # "predicted"
  /\ \A m \in M : m.type \in {"installed", "confirmed"} => m.pos \in ToSet(held')

\* The job goes on, is given up, or is that of a commit that was pending.
Goes ==
  \/ job'.turn = job.turn /\ (job'.fresh => job.fresh)
  \/ job' = NoJob
  \/ \E t \in Turns : job'.turn = t /\ Pending(t) /\ ~Pending(t)'

LEMMA SaysNothing ==
  ASSUME rsp \in Seq(Telling), rsp' = rsp
  PROVE  Says({}) /\ (held' = held => Keeps) /\ (ToSet(held') = ToSet(held) => Keeps)
BY DEF Says, Keeps

LEMMA SaysOne ==
  ASSUME rsp \in Seq(Telling), NEW e \in Telling, rsp' = Append(rsp, e)
  PROVE  Says({e}) /\ (held' = held => Keeps) /\ (ToSet(held') = ToSet(held) => Keeps)
<1>1. /\ rsp' \in Seq(Telling) /\ DOMAIN rsp' = 1 .. Len(rsp) + 1
      /\ \A i \in 1 .. Len(rsp) : rsp'[i] = rsp[i]
      /\ rsp'[Len(rsp) + 1] = e
      /\ DOMAIN rsp = 1 .. Len(rsp) /\ Len(rsp) \in Nat
  BY Appended, Indices
<1>2. \A i \in 1 .. Len(rsp) + 1 : i \in 1 .. Len(rsp) \/ i = Len(rsp) + 1
  BY <1>1
<1> QED BY <1>1, <1>2 DEF Says, Keeps

LEMMA SaysMore ==
  ASSUME rsp \in Seq(Telling), NEW a \in Seq(Telling), NEW b \in Seq(Telling), rsp' = rsp \o a \o b
  PROVE  /\ Says(ToSet(a) \cup ToSet(b))
         /\ \A k \in DOMAIN a : \E i \in DOMAIN rsp' : i \notin DOMAIN rsp /\ rsp'[i] = a[k]
<1>0. rsp \o a \in Seq(Telling)
  BY Joined
<1>8. PICK both \in Seq(Telling) : both = rsp \o a
  BY <1>0
<1>1. /\ Len(both) = Len(rsp) + Len(a) /\ DOMAIN both = 1 .. Len(rsp) + Len(a)
      /\ \A i \in 1 .. Len(rsp) : both[i] = rsp[i]
      /\ \A i \in 1 .. Len(a) : both[Len(rsp) + i] = a[i]
  BY <1>8, Joined
<1>2. rsp' = both \o b
  BY <1>8
<1>3. /\ rsp' \in Seq(Telling) /\ DOMAIN rsp' = 1 .. Len(both) + Len(b)
      /\ \A i \in 1 .. Len(both) : rsp'[i] = both[i]
      /\ \A i \in 1 .. Len(b) : rsp'[Len(both) + i] = b[i]
  BY <1>2, Joined
<1>4. /\ Len(rsp) \in Nat /\ DOMAIN rsp = 1 .. Len(rsp) /\ Len(a) \in Nat /\ DOMAIN a = 1 .. Len(a)
      /\ Len(b) \in Nat /\ DOMAIN b = 1 .. Len(b)
  BY Indices
<1>5. \A i \in DOMAIN rsp : i \in DOMAIN rsp' /\ rsp'[i] = rsp[i]
  <2>1. \A i \in 1 .. Len(rsp) : i \in 1 .. Len(both) /\ i \in 1 .. Len(both) + Len(b)
    BY <1>1, <1>4
  <2> QED BY <1>1, <1>3, <1>4, <2>1
<1>6. \A k \in DOMAIN a : \E i \in DOMAIN rsp' : i \notin DOMAIN rsp /\ rsp'[i] = a[k]
  <2> TAKE k \in DOMAIN a
  <2>1. /\ Len(rsp) + k \in 1 .. Len(both) /\ Len(rsp) + k \in 1 .. Len(both) + Len(b)
        /\ Len(rsp) + k \notin 1 .. Len(rsp)
    BY <1>1, <1>4
  <2>2. rsp'[Len(rsp) + k] = a[k]
    BY <1>1, <1>3, <1>4, <2>1
  <2> QED BY <1>3, <1>4, <2>1, <2>2
<1>7. ASSUME NEW i \in DOMAIN rsp', i \notin DOMAIN rsp PROVE rsp'[i] \in ToSet(a) \cup ToSet(b)
  <2>1. i \in Nat /\ i > Len(rsp) /\ i <= Len(rsp) + Len(a) + Len(b)
    BY <1>1, <1>3, <1>4, <1>7
  <2>2. CASE i <= Len(rsp) + Len(a)
    <3>1. i - Len(rsp) \in 1 .. Len(a) /\ i = Len(rsp) + (i - Len(rsp)) /\ i \in 1 .. Len(both)
      BY <1>1, <1>4, <2>1, <2>2
    <3>2. rsp'[i] = both[i] /\ both[Len(rsp) + (i - Len(rsp))] = a[i - Len(rsp)]
      BY <1>1, <1>3, <3>1
    <3>3. rsp'[i] = a[i - Len(rsp)]
      BY <3>1, <3>2
    <3> QED BY <1>4, <3>1, <3>3, ToSetSays
  <2>3. CASE i > Len(rsp) + Len(a)
    <3>1. i - Len(both) \in 1 .. Len(b) /\ i = Len(both) + (i - Len(both))
      BY <1>1, <1>4, <2>1, <2>3
    <3>2. rsp'[Len(both) + (i - Len(both))] = b[i - Len(both)]
      BY <1>3, <3>1
    <3>3. rsp'[i] = b[i - Len(both)]
      BY <3>1, <3>2
    <3> QED BY <1>4, <3>1, <3>3, ToSetSays
  <2> QED BY <1>4, <2>1, <2>2, <2>3
<1> QED BY <1>3, <1>5, <1>6, <1>7 DEF Says

\* Positions are put, the evictions are told.

LEMMA SaysPut ==
  ASSUME NEW ps \in Seq(Positions), NEW skip, NEW m \in Seq(Telling), StoreOK, rsp \in Seq(Telling),
         PutAll(ps, skip, m)
  PROVE  Says(Eviction \cup ToSet(m)) /\ Keeps
<1>1. PICK out \in Seq(Eviction) :
        /\ rsp' = rsp \o out \o m
        /\ \A q \in ToSet(held) : q \in ToSet(held') \/ \E j \in DOMAIN out : out[j].pos = q
  BY PutAllLaw
<1>2. out \in Seq(Telling)
  BY DEF Eviction
<1>3. ToSet(out) \subseteq Eviction /\ \A j \in DOMAIN out : out[j].type = "evicted"
  BY ToSetSays, Indices DEF Eviction
<1>4. /\ Says(ToSet(out) \cup ToSet(m))
      /\ \A k \in DOMAIN out : \E i \in DOMAIN rsp' : i \notin DOMAIN rsp /\ rsp'[i] = out[k]
  BY <1>1, <1>2, SaysMore
<1>5. Says(Eviction \cup ToSet(m))
  BY <1>3, <1>4 DEF Says
<1>6. Keeps
  <2> SUFFICES ASSUME NEW q \in ToSet(held), q \notin ToSet(held')
               PROVE  \E i \in DOMAIN rsp' : i \notin DOMAIN rsp /\ rsp'[i].type = "evicted" /\ rsp'[i].pos = q
    BY DEF Keeps
  <2>1. PICK j \in DOMAIN out : out[j].pos = q
    BY <1>1
  <2> QED BY <1>3, <1>4, <2>1
<1> QED BY <1>5, <1>6

\* What a request has the worker say.

LEMMA DoSays ==
  ASSUME WiresOK, WorkerOK, NEW m \in Asking, resetting => m.type = "reset", Do(m),
         m.type \in {"commit", "confirm"} => ~Pending(m.turn)',
         m.type = "commit" => Pending(m.turn)
  PROVE  Keeps /\ Goes /\ \E M : Says(M) /\ Truthful(M)
<1>0. /\ rsp \in Seq(Telling) /\ StoreOK /\ CommitOK /\ ResetLast
      /\ m.turn \in Turns \cup {NoTurn}
      /\ m.type # "reset" => m.pos \in Positions
      /\ m.type \in {"commit", "confirm"} => m.turn \in Turns
  BY MessageSays DEF WiresOK, WorkerOK
<1>1. ASSUME NEW e \in Telling, rsp' = Append(rsp, e), e.type \notin {"predicted", "installed", "confirmed"},
             held' = held \/ ToSet(held') = ToSet(held),
             e.type = "desynced" => ~(job'.fresh /\ job'.turn = e.turn) /\ ~Pending(e.turn)'
      PROVE  Keeps /\ \E M : Says(M) /\ Truthful(M)
  <2>1. Keeps /\ Says({e})
    BY <1>0, <1>1, SaysOne
  <2>2. Truthful({e})
    BY <1>1 DEF Truthful, Verdict
  <2> QED BY <2>1, <2>2
<1>2. ASSUME rsp' = rsp, held' = held \/ ToSet(held') = ToSet(held)
      PROVE  Keeps /\ \E M : Says(M) /\ Truthful(M)
  <2>1. Keeps /\ Says({})
    BY <1>0, <1>2, SaysNothing
  <2>2. Truthful({})
    BY DEF Truthful
  <2> QED BY <2>1, <2>2
<1>3. ASSUME NEW e \in Telling, PutAll(<<e.pos>>, {}, <<e>>), e.type \in {"installed", "confirmed"},
             e.type = "confirmed" => ~(job'.fresh /\ job'.turn = e.turn) /\ ~Pending(e.turn)'
      PROVE  Keeps /\ \E M : Says(M) /\ Truthful(M)
  <2>1. e.pos \in Positions
    BY <1>3, MessageSays
  <2>2. /\ <<e.pos>> \in Seq(Positions) /\ Len(<<e.pos>>) = 1 /\ <<e.pos>>[1] = e.pos
        /\ <<e>> \in Seq(Telling) /\ DOMAIN <<e>> = 1 .. 1 /\ <<e>>[1] = e
    BY <2>1, Singles
  <2>3. ToSet(<<e>>) = {e}
    BY <2>2 DEF ToSet
  <2>4. Keeps /\ Says(Eviction \cup {e})
    BY <1>0, <1>3, <2>2, <2>3, SaysPut
  <2>5. e.pos \in ToSet(held')
    <3> DEFINE ps == <<e.pos>>  no == {}
    <3>1. ps \in Seq(Positions) /\ ps # <<>> /\ ps[Len(ps)] = e.pos /\ e.pos \notin no /\ PutAll(ps, no, <<e>>)
      BY <1>3, <2>2
    <3> HIDE DEF ps, no
    <3>2. ps[Len(ps)] \in ToSet(held')
      BY <1>0, <2>2, <3>1, PutAllLaw
    <3> QED BY <3>1, <3>2
  <2>6. \A x \in Eviction : x.type = "evicted"
    BY DEF Eviction
  <2>7. \A x \in Eviction \cup {e} : /\ x.type # "predicted"
                                     /\ Verdict(x) => x = e /\ e.type = "confirmed"
                                     /\ x.type \in {"installed", "confirmed"} => x = e
    BY <1>3, <2>6 DEF Verdict
  <2>8. Truthful(Eviction \cup {e})
    BY <1>3, <2>5, <2>7 DEF Truthful
  <2> QED BY <2>4, <2>8
<1>4. CASE DoInstall(m)
  <2>1. m.pos \in Positions /\ Msg("installed", m.pos, NoTurn) \in Telling
    BY <1>0, <1>4, TellingMsg DEF DoInstall
  <2>2. PutAll(<<m.pos>>, {}, <<Msg("installed", m.pos, NoTurn)>>)
    BY <1>4 DEF DoInstall
  <2>3. Keeps /\ \E M : Says(M) /\ Truthful(M)
    BY <1>3, <2>1, <2>2, MsgIs
  <2>4. Goes
    BY <1>0, <1>4, BumpLaw DEF DoInstall, Take, Goes, commits
  <2> QED BY <2>3, <2>4
<1>5. CASE DoEvaluate(m)
  <2>1. Msg("error", m.pos, NoTurn) \in Telling /\ Msg("evaluated", m.pos, NoTurn) \in Telling
    BY <1>0, <1>5, TellingMsg DEF DoEvaluate
  <2>2. held' = held \/ ToSet(held') = ToSet(held)
    <3>1. CASE m.pos \notin ToSet(held)
      BY <1>5, <3>1 DEF DoEvaluate, store
    <3>2. CASE m.pos \in ToSet(held)
      <4>1. Want(m.pos, TRUE, {}) /\ {} \in SUBSET Turns /\ TRUE \in BOOLEAN
        BY <1>5, <3>2 DEF DoEvaluate
      <4> QED BY <1>0, <3>2, <4>1, WantLaw
    <3> QED BY <3>1, <3>2
  <2>3. \/ rsp' = rsp
        \/ rsp' = Append(rsp, Msg("error", m.pos, NoTurn))
        \/ rsp' = Append(rsp, Msg("evaluated", m.pos, NoTurn))
    BY <1>5 DEF DoEvaluate
  <2>4. Keeps /\ \E M : Says(M) /\ Truthful(M)
    BY <1>1, <1>2, <2>1, <2>2, <2>3, MsgIs
  <2>5. Goes
    BY <1>5 DEF DoEvaluate, Goes, commits
  <2> QED BY <2>4, <2>5
<1>6. CASE DoCommit(m)
  <2>1. m.turn \in Turns /\ Pending(m.turn) /\ ~Pending(m.turn)' /\ held' = held
    BY <1>0, <1>6 DEF DoCommit
  <2>2. \/ rsp' = rsp /\ job'.turn = m.turn
        \/ rsp' = Append(rsp, Msg("desynced", NoPos, m.turn)) /\ job' = NoJob
    BY <1>6 DEF DoCommit
  <2>3. CASE rsp' = rsp /\ job'.turn = m.turn
    <3>1. Goes
      BY <2>1, <2>3 DEF Goes
    <3> QED BY <1>2, <2>1, <2>3, <3>1
  <2>4. CASE rsp' = Append(rsp, Msg("desynced", NoPos, m.turn)) /\ job' = NoJob
    <3>1. ~job'.fresh
      BY <2>4 DEF NoJob
    <3> QED BY <1>0, <1>1, <2>1, <2>4, <3>1, TellingMsg, MsgIs DEF Goes
  <2> QED BY <2>2, <2>3, <2>4
<1>7. CASE DoConfirm(m)
  <2>1. m.turn \in Turns /\ m.pos \in Positions /\ ~Pending(m.turn)'
    BY <1>0, <1>7 DEF DoConfirm
  <2>2. ~job'.fresh /\ Goes
    BY <1>0, <1>7, BumpLaw DEF DoConfirm, Take, Goes
  <2>3. CASE PutAll(<<m.pos>>, {}, <<Msg("confirmed", m.pos, m.turn)>>)
    <3>1. Msg("confirmed", m.pos, m.turn) \in Telling
      BY <2>1, TellingMsg
    <3> QED BY <1>3, <2>1, <2>2, <2>3, <3>1, MsgIs
  <2>4. CASE rsp' = Append(rsp, Msg("desynced", NoPos, m.turn)) /\ UNCHANGED store
    <3>1. Msg("desynced", NoPos, m.turn) \in Telling
      BY <1>0, TellingMsg
    <3> QED BY <1>1, <2>1, <2>2, <2>4, <3>1, MsgIs DEF store
  <2> QED BY <1>7, <2>3, <2>4 DEF DoConfirm
<1>8. CASE DoReset(m)
  <2>1. Goes
    BY <1>0, <1>8, BumpLaw DEF DoReset, Goes
  <2>2. held' = held /\ (rsp' = rsp \/ rsp' = Append(rsp, Msg("refused", NoPos, NoTurn)))
    BY <1>8 DEF DoReset
  <2>3. Msg("refused", NoPos, NoTurn) \in Telling
    BY TellingMsg
  <2> QED BY <1>1, <1>2, <2>1, <2>2, <2>3, MsgIs
<1> QED BY <1>4, <1>5, <1>6, <1>7, <1>8 DEF Do

\* What an evaluation or the current commit has it say.

LEMMA EngineSays ==
  ASSUME WiresOK, WorkerOK, EngineStep, \A t : Pending(t)' => t \in Turns /\ t # job.turn
  PROVE  /\ EngineReset \/ Keeps
         /\ Goes
         /\ \E M : Says(M) /\ Truthful(M)
<1>0. /\ rsp \in Seq(Telling) /\ StoreOK /\ CommitOK /\ ResetLast
      /\ job.turn \in Turns \cup {NoTurn} /\ NoTurn \notin Turns
      /\ job.stage # "none" => job.turn \in Turns /\ job.pos \in Positions
      /\ job.fresh => job.turn \in Turns
      /\ ~NoJob.fresh
  BY GoAssumption DEF WiresOK, WorkerOK, CommitOK, NoJob
<1>1. ASSUME NEW e \in Telling, rsp' = Append(rsp, e), e.type \notin {"installed", "confirmed"},
             e.type = "predicted" =>
               job.fresh /\ e.turn = job.turn /\ Ready(e.pos) /\ ToSet(held') = ToSet(held),
             e.type = "desynced" => ~job'.fresh /\ e.turn = job.turn
      PROVE  /\ held' = held \/ ToSet(held') = ToSet(held) => Keeps
             /\ \E M : Says(M) /\ Truthful(M)
  <2>1. Says({e}) /\ (held' = held \/ ToSet(held') = ToSet(held) => Keeps)
    BY <1>0, <1>1, SaysOne
  <2>2. Truthful({e})
    BY <1>1 DEF Truthful, Verdict
  <2> QED BY <2>1, <2>2
<1>2. ASSUME rsp' = rsp, held' = held \/ ToSet(held') = ToSet(held)
      PROVE  Keeps /\ \E M : Says(M) /\ Truthful(M)
  <2>1. Keeps /\ Says({})
    BY <1>0, <1>2, SaysNothing
  <2>2. Truthful({})
    BY DEF Truthful
  <2> QED BY <2>1, <2>2
<1>3. ASSUME NEW a \in Seq(Telling), NEW b \in Seq(Telling), rsp' = rsp \o a \o b,
             held' = held, Truthful(ToSet(a) \cup ToSet(b))
      PROVE  Keeps /\ \E M : Says(M) /\ Truthful(M)
  <2>1. Says(ToSet(a) \cup ToSet(b))
    BY <1>0, <1>3, SaysMore
  <2>2. Keeps
    BY <1>3 DEF Keeps
  <2> QED BY <1>3, <2>1, <2>2
<1>4. ASSUME queue # <<>>, Head(queue).pos # NoPos
      PROVE  /\ Head(queue) = queue[1] /\ 1 \in DOMAIN queue
             /\ Head(queue) \in Item /\ Head(queue).pos \in Positions /\ Head(queue).jobs \in SUBSET Turns
             /\ Msg("evaluated", Head(queue).pos, NoTurn) \in Telling
             /\ Msg("error", Head(queue).pos, NoTurn) \in Telling
             /\ Msg("desynced", NoPos, NoTurn) \in Telling
             /\ job.stage # "none" => Msg("predicted", Head(queue).pos, job.turn) \in Telling
  <2>1. Head(queue) \in Item /\ Head(queue) = queue[1] /\ 1 \in DOMAIN queue
    BY <1>0, <1>4, Taken DEF StoreOK
  <2>2. Head(queue).pos \in Positions /\ Head(queue).jobs \in SUBSET Turns
    BY <1>4, <2>1 DEF Item
  <2> QED BY <1>0, <2>1, <2>2, TellingMsg
<1>5. CASE EngineDone
  <2> DEFINE e == Head(queue)
             reply == IF e.tick THEN <<Msg("evaluated", e.pos, NoTurn)>> ELSE <<>>
             push == Push(e)
  <2>1. /\ queue # <<>> /\ e.pos # NoPos /\ held' = held
        /\ rsp' = rsp \o reply \o push \/ rsp' = rsp \o push \o reply
        /\ job' = IF job.turn \notin e.jobs THEN job
                  ELSE IF job.stage = "source" THEN [job EXCEPT !.stage = "begin"]
                  ELSE NextTask(e.pos)
    BY <1>5 DEF EngineDone
  <2>2. reply \in Seq(Telling) /\ ToSet(reply) \subseteq {Msg("evaluated", e.pos, NoTurn)}
    BY <1>4, <2>1, Singles DEF ToSet
  <2>3. /\ push \in Seq(Telling)
        /\ \A m \in ToSet(push) : /\ m.type = "predicted" /\ m.turn = job.turn /\ m.pos = e.pos
                                  /\ job.fresh /\ job.stage = "engine" /\ job.turn \in e.jobs
    <3>1. CASE job.turn \in e.jobs /\ job.stage = "engine" /\ job.fresh
      <4>1. push = <<Msg("predicted", e.pos, job.turn)>> /\ Msg("predicted", e.pos, job.turn) \in Telling
        BY <1>4, <2>1, <3>1 DEF Push
      <4>2. push \in Seq(Telling) /\ ToSet(push) = {Msg("predicted", e.pos, job.turn)}
        BY <4>1, Singles DEF ToSet
      <4> QED BY <3>1, <4>2, MsgIs
    <3>2. CASE ~(job.turn \in e.jobs /\ job.stage = "engine" /\ job.fresh)
      BY <3>2, EmptyLaw DEF Push
    <3> QED BY <3>1, <3>2
  <2>4. e = queue[1] /\ 1 \in DOMAIN queue
    BY <1>4, <2>1
  <2>5. \A m \in ToSet(push) : Ready(m.pos)
    BY <2>3, <2>4 DEF Ready
  <2>6. \A m \in ToSet(reply) : m.type = "evaluated"
    BY <2>2, MsgIs
  <2> HIDE DEF e, reply, push
  <2>7. Truthful(ToSet(reply) \cup ToSet(push)) /\ Truthful(ToSet(push) \cup ToSet(reply))
    BY <2>1, <2>3, <2>5, <2>6 DEF Truthful, Verdict
  <2>8. Keeps /\ \E M : Says(M) /\ Truthful(M)
    BY <1>3, <2>1, <2>2, <2>3, <2>7
  <2>9. Goes
    BY <1>0, <2>1 DEF Goes, NextTask, NoJob, CommitOK
  <2> QED BY <2>8, <2>9
<1>6. CASE EngineFails
  <2> DEFINE e == Head(queue)
             a == IF e.tick THEN <<Msg("error", e.pos, NoTurn)>> ELSE <<>>
             b == IF e.jobs # {} THEN <<Msg("desynced", NoPos, NoTurn)>> ELSE <<>>
  <2>1. /\ queue # <<>> /\ e.pos # NoPos /\ held' = held /\ rsp' = rsp \o a \o b
        /\ job' = IF job.turn \in e.jobs THEN NoJob ELSE job
    BY <1>6 DEF EngineFails
  <2>2. /\ a \in Seq(Telling) /\ ToSet(a) \subseteq {Msg("error", e.pos, NoTurn)}
        /\ b \in Seq(Telling) /\ ToSet(b) \subseteq {Msg("desynced", NoPos, NoTurn)}
    BY <1>4, <2>1, Singles DEF ToSet
  <2>3. \A m \in ToSet(a) \cup ToSet(b) : m.type \in {"error", "desynced"} /\ m.turn = NoTurn
    BY <2>2, MsgIs
  <2>4. ~(job'.fresh /\ job'.turn = NoTurn) /\ ~Pending(NoTurn)'
    BY <1>0, <2>1
  <2> HIDE DEF a, b, e
  <2>5. Truthful(ToSet(a) \cup ToSet(b))
    BY <2>3, <2>4 DEF Truthful, Verdict
  <2> QED BY <1>3, <2>1, <2>2, <2>5 DEF Goes
<1>7. CASE EngineReset
  <2>1. PICK type \in {"reset", "refused"} : rsp' = Append(rsp, Msg(type, NoPos, NoTurn))
    BY <1>7 DEF EngineReset
  <2>2. Msg(type, NoPos, NoTurn) \in Telling
    BY <2>1, TellingMsg
  <2>3. \E M : Says(M) /\ Truthful(M)
    BY <1>1, <2>1, <2>2, MsgIs
  <2> QED BY <1>7, <2>3 DEF EngineReset, Goes
<1>8. CASE JobBegins
  <2>1. CASE job.fresh
    <3>1. /\ PutAll(Succ[job.pos], Positions \ Selected(job.pos), <<>>)
          /\ job' = [job EXCEPT !.stage = "tasks", !.tasks = Selected(job.pos)]
          /\ job.stage = "begin"
      BY <1>8, <2>1 DEF JobBegins
    <3>2. Succ[job.pos] \in Seq(Positions) /\ <<>> \in Seq(Telling) /\ ToSet(<<>>) = {}
      BY <1>0, <3>1, GoAssumption, EmptyLaw
    <3>3. Keeps /\ Says(Eviction \cup {})
      BY <1>0, <3>1, <3>2, SaysPut
    <3>4. Truthful(Eviction \cup {})
      BY DEF Eviction, Truthful, Verdict
    <3> QED BY <1>0, <3>1, <3>3, <3>4 DEF Goes, CommitOK
  <2>2. CASE ~job.fresh
    <3>1. job' = NoJob /\ UNCHANGED <<rsp, store>>
      BY <1>8, <2>2 DEF JobBegins
    <3> QED BY <1>2, <3>1 DEF Goes, store
  <2> QED BY <2>1, <2>2
<1>9. ASSUME NEW p \in Positions, JobTask(p)
      PROVE  Keeps /\ Goes /\ \E M : Says(M) /\ Truthful(M)
  <2>1. job.fresh /\ job.turn \in Turns
    BY <1>0, <1>9 DEF JobTask
  <2>2. Msg("desynced", NoPos, job.turn) \in Telling /\ Msg("predicted", p, job.turn) \in Telling
    BY <2>1, TellingMsg
  <2>3. CASE p \notin ToSet(held)
    <3>1. job' = NoJob /\ held' = held /\ rsp' = Append(rsp, Msg("desynced", NoPos, job.turn))
      BY <1>9, <2>3 DEF JobTask, store
    <3> QED BY <1>0, <1>1, <2>2, <3>1, MsgIs DEF Goes
  <2>4. CASE p \in ToSet(held)
    <3>1. /\ Want(p, FALSE, {job.turn})
          /\ IF p \in evald
               THEN job' = NextTask(p) /\ rsp' = Append(rsp, Msg("predicted", p, job.turn))
               ELSE job' = [job EXCEPT !.stage = "engine"] /\ UNCHANGED rsp
      BY <1>9, <2>4 DEF JobTask
    <3>2. {job.turn} \in SUBSET Turns /\ FALSE \in BOOLEAN
      BY <2>1
    <3>3. ToSet(held') = ToSet(held)
      BY <1>0, <2>4, <3>1, <3>2, WantLaw
    <3>4. Goes
      BY <1>0, <2>1, <3>1 DEF Goes, NextTask, CommitOK
    <3>5. Keeps /\ \E M : Says(M) /\ Truthful(M)
      BY <1>1, <1>2, <2>1, <2>2, <2>4, <3>1, <3>3, MsgIs DEF Ready
    <3> QED BY <3>4, <3>5
  <2> QED BY <2>3, <2>4
<1>10. CASE JobEnds
  BY <1>2, <1>10 DEF JobEnds, store, Goes
<1>11. CASE Expire
  <2>1. UNCHANGED <<rsp, store>> /\ (job' = job \/ job' = [job EXCEPT !.fresh = FALSE])
    BY <1>11 DEF Expire
  <2>2. Goes
    BY <1>0, <2>1 DEF Goes, CommitOK
  <2> QED BY <1>2, <2>1, <2>2 DEF store
<1> QED BY <1>5, <1>6, <1>7, <1>8, <1>9, <1>10, <1>11 DEF EngineStep

-----------------------------------------------------------------------------
(* Verdicts *)

\* A commit the worker has not seen is not the current one, and there is no
\* verdict on it; nor is there on a commit that may still predict.
Judging ==
  /\ \A t \in Turns : Pending(t) =>
       t # job.turn /\ \A i \in DOMAIN rsp : Verdict(rsp[i]) => rsp[i].turn # t
  /\ job.fresh => \A i \in DOMAIN rsp : Verdict(rsp[i]) => rsp[i].turn # job.turn

LEMMA SaysJudging ==
  ASSUME WiresOK, CommitOK, VerdictIsLast, Judging, NEW M, Says(M), Truthful(M), Goes,
         \A t : Pending(t)' => Pending(t)
  PROVE  VerdictIsLast' /\ Judging'
<1>1. /\ DOMAIN rsp = 1 .. Len(rsp) /\ Len(rsp) \in Nat
      /\ rsp' \in Seq(Telling) /\ DOMAIN rsp' = 1 .. Len(rsp') /\ Len(rsp') \in Nat
      /\ \A i \in DOMAIN rsp : i \in DOMAIN rsp' /\ rsp'[i] = rsp[i]
      /\ \A i \in DOMAIN rsp' : i \notin DOMAIN rsp => rsp'[i] \in M
  <2>1. rsp' \in Seq(Telling)
    BY DEF Says
  <2> QED BY <2>1, Indices DEF Says, WiresOK
<1>2. VerdictIsLast'
  <2> SUFFICES ASSUME NEW i \in DOMAIN rsp', NEW j \in DOMAIN rsp', i < j,
                      Verdict(rsp'[i]), rsp'[j].type = "predicted", rsp'[i].turn = rsp'[j].turn
               PROVE  FALSE
    BY DEF VerdictIsLast, Verdict
  <2>1. CASE j \in DOMAIN rsp
    <3>1. i \in DOMAIN rsp
      BY <1>1, <2>1
    <3> QED BY <1>1, <2>1, <3>1 DEF VerdictIsLast, Verdict
  <2>2. CASE j \notin DOMAIN rsp
    <3>1. rsp'[j] \in M
      BY <1>1, <2>2
    <3>2. job.fresh /\ rsp'[j].turn = job.turn
      BY <3>1 DEF Truthful
    <3>3. CASE i \in DOMAIN rsp
      BY <1>1, <3>2, <3>3 DEF Judging
    <3>4. CASE i \notin DOMAIN rsp
      BY <1>1, <3>1, <3>4 DEF Truthful
    <3> QED BY <3>3, <3>4
  <2> QED BY <2>1, <2>2
<1>3. ASSUME NEW t \in Turns, Pending(t)'
      PROVE  t # job'.turn /\ \A i \in DOMAIN rsp' : Verdict(rsp'[i]) => rsp'[i].turn # t
  <2>1. Pending(t)
    BY <1>3
  <2>2. t # job'.turn
    <3>1. CASE job'.turn = job.turn
      BY <2>1, <3>1 DEF Judging
    <3>2. CASE job' = NoJob
      BY <3>2, GoAssumption DEF NoJob
    <3>3. CASE \E u \in Turns : job'.turn = u /\ ~Pending(u)'
      BY <1>3, <3>3
    <3> QED BY <3>1, <3>2, <3>3 DEF Goes
  <2>3. ASSUME NEW i \in DOMAIN rsp', Verdict(rsp'[i]) PROVE rsp'[i].turn # t
    <3>1. CASE i \in DOMAIN rsp
      BY <1>1, <2>1, <2>3, <3>1 DEF Judging
    <3>2. CASE i \notin DOMAIN rsp
      BY <1>1, <1>3, <2>3, <3>2 DEF Truthful
    <3> QED BY <3>1, <3>2
  <2> QED BY <2>2, <2>3
<1>4. ASSUME job'.fresh, NEW i \in DOMAIN rsp', Verdict(rsp'[i])
      PROVE  rsp'[i].turn # job'.turn
  <2>1. CASE i \in DOMAIN rsp
    <3>1. CASE job'.turn = job.turn /\ job.fresh
      BY <1>1, <1>4, <2>1, <3>1 DEF Judging
    <3>2. CASE job'.turn \in Turns /\ Pending(job'.turn)
      BY <1>1, <1>4, <2>1, <3>2 DEF Judging
    <3> QED BY <1>4, <3>1, <3>2 DEF Goes, NoJob
  <2>2. CASE i \notin DOMAIN rsp
    BY <1>1, <1>4, <2>2 DEF Truthful
  <2> QED BY <2>1, <2>2
<1> QED BY <1>2, <1>3, <1>4 DEF Judging

LEMMA DriverJudging ==
  ASSUME DriverOK, WiresOK, StoreOK, InOrder, VerdictIsLast, Judging, DriverStep
  PROVE  VerdictIsLast' /\ Judging'
<1>1. rsp' = rsp /\ job' = job
  BY DriverTyped DEF Same, worker, commits
<1>2. \A t \in Turns : Pending(t)' => Pending(t) \/ t \notin Used
  BY DriverOrder
<1>3. \A t \in Turns : Pending(t)' => t # job.turn /\ \A i \in DOMAIN rsp : Verdict(rsp[i]) => rsp[i].turn # t
  BY <1>2, UsedLaw DEF Judging
<1> QED BY <1>1, <1>3 DEF VerdictIsLast, Judging

LEMMA AnewJudging ==
  ASSUME Anew
  PROVE  VerdictIsLast' /\ Judging'
<1>1. rsp' = <<>> /\ DOMAIN rsp' = {} /\ \A t : ~Pending(t)'
  BY AnewOrder, EmptyLaw DEF Anew
<1> QED BY <1>1 DEF VerdictIsLast, Judging

LEMMA ReceivedJudging ==
  ASSUME WiresOK, VerdictIsLast, Judging, Got
  PROVE  VerdictIsLast' /\ Judging'
<1>1. /\ DOMAIN rsp' = 1 .. Len(rsp) - 1 /\ DOMAIN rsp = 1 .. Len(rsp) /\ Len(rsp) \in Nat
      /\ \A i \in DOMAIN rsp' : rsp'[i] = rsp[i + 1]
  BY Taken, Indices DEF Got, WiresOK
<1>2. /\ \A i \in DOMAIN rsp' : i + 1 \in DOMAIN rsp
      /\ \A i, j \in DOMAIN rsp' : i < j => i + 1 < j + 1
  BY <1>1
<1>3. job' = job /\ \A t : Pending(t)' => Pending(t)
  BY DEF Got, worker, commits, Pending
<1>4. VerdictIsLast'
  BY <1>1, <1>2 DEF VerdictIsLast
<1> QED BY <1>1, <1>2, <1>3, <1>4 DEF Judging

LEMMA HandleJudging ==
  ASSUME WiresOK, WorkerOK, InOrder, VerdictIsLast, Judging, Handle
  PROVE  InOrder' /\ VerdictIsLast' /\ Judging'
<1>0. CommitOK /\ StoreOK /\ rsp \in Seq(Telling)
  BY DEF WorkerOK, WiresOK
<1>1. CASE Holding
  <2>1. rsp' = rsp /\ job' = job
    BY <1>1 DEF Holding, commits
  <2>2. InOrder' /\ \A t : Pending(t)' => Pending(t)
    BY <1>1, HoldingOrder
  <2> QED BY <2>1, <2>2 DEF Judging, VerdictIsLast
<1>2. ASSUME NEW m, Taking(m), Do(m)
      PROVE  InOrder' /\ VerdictIsLast' /\ Judging'
  <2>1. m \in Asking /\ (resetting => m.type = "reset")
    BY <1>2, TakingTyped
  <2>2. /\ InOrder'
        /\ m.type = "commit" => Pending(m.turn)
        /\ \A t : Pending(t)' => Pending(t)
        /\ m.type \in {"commit", "confirm"} => ~Pending(m.turn)'
    <3>1. InOrder' /\ (m.type = "commit" => Pending(m.turn))
      BY <1>2, TakingOrder
    <3>2. \A t : Pending(t)' => Pending(t) /\ (m.type \in {"commit", "confirm"} => t # m.turn)
      BY <1>2, TakingOrder
    <3> QED BY <3>1, <3>2
  <2>3. Goes /\ \E M : Says(M) /\ Truthful(M)
    BY <1>2, <2>1, <2>2, DoSays
  <2>4. PICK M : Says(M) /\ Truthful(M)
    BY <2>3
  <2> QED BY <1>0, <2>2, <2>3, <2>4, SaysJudging
<1> QED BY <1>1, <1>2, HandleCases

LEMMA EngineJudging ==
  ASSUME WiresOK, WorkerOK, InOrder, VerdictIsLast, Judging, EngineStep
  PROVE  InOrder' /\ VerdictIsLast' /\ Judging'
<1>0. CommitOK
  BY DEF WorkerOK
<1>1. req' = req /\ late' = late
  BY EngineTyped
<1>2. InOrder' /\ \A t : Pending(t)' => Pending(t)
  BY <1>1 DEF InOrder, Pending
<1>3. \A t : Pending(t)' => t \in Turns /\ t # job.turn
  BY <1>2, PendingTurn DEF Judging
<1>4. Goes /\ \E M : Says(M) /\ Truthful(M)
  BY <1>3, EngineSays
<1> QED BY <1>0, <1>2, <1>4, SaysJudging

-----------------------------------------------------------------------------
(* What the current commit waits for *)

\* It waits for one evaluation at most, and for none while it is about to ask
\* for one; nothing waits for a commit that the worker has not seen.
Owns ==
  /\ \A i, j \in DOMAIN queue : job.turn \in queue[i].jobs /\ job.turn \in queue[j].jobs => i = j
  /\ job.stage \in {"begin", "tasks"} => \A i \in DOMAIN queue : job.turn \notin queue[i].jobs
  /\ \A t \in Turns : Pending(t) => \A i \in DOMAIN queue : t \notin queue[i].jobs

LEMMA OwnsLess ==
  ASSUME Owns, StoreOK, StoreOK', NEW k \in {0, 1},
         \A i \in DOMAIN queue' : \/ queue'[i].jobs = {}
                                  \/ i + k \in DOMAIN queue /\ queue'[i].jobs = queue[i + k].jobs,
         job'.turn = job.turn \/ job' = NoJob,
         job'.stage \in {"begin", "tasks"} =>
           job.stage \in {"begin", "tasks"} \/ \A i \in DOMAIN queue' : job.turn \notin queue'[i].jobs,
         \A t : Pending(t)' => Pending(t)
  PROVE  Owns'
<1>1. /\ DOMAIN queue' = 1 .. Len(queue') /\ DOMAIN queue = 1 .. Len(queue)
      /\ Len(queue') \in Nat /\ Len(queue) \in Nat
      /\ \A i \in DOMAIN queue' : queue'[i].jobs \subseteq Turns
  <2>1. queue' \in Seq(Item)
    BY DEF StoreOK
  <2> QED BY <2>1, Indices, ItemSays DEF StoreOK
<1>2. \A i, j \in DOMAIN queue' : i + k = j + k => i = j
  BY <1>1
<1>3. CASE job' = NoJob
  <2>1. job'.turn = NoTurn /\ job'.stage = "none"
    BY <1>3 DEF NoJob
  <2>2. \A i \in DOMAIN queue' : NoTurn \notin queue'[i].jobs
    BY <1>1, GoAssumption
  <2> QED BY <2>1, <2>2 DEF Owns
<1>4. CASE job'.turn = job.turn
  <2>1. \A i, j \in DOMAIN queue' : job.turn \in queue'[i].jobs /\ job.turn \in queue'[j].jobs => i = j
    BY <1>2 DEF Owns
  <2>2. job'.stage \in {"begin", "tasks"} => \A i \in DOMAIN queue' : job.turn \notin queue'[i].jobs
    BY DEF Owns
  <2>3. \A t \in Turns : Pending(t)' => \A i \in DOMAIN queue' : t \notin queue'[i].jobs
    BY DEF Owns
  <2> QED BY <1>4, <2>1, <2>2, <2>3 DEF Owns
<1> QED BY <1>3, <1>4

\* The evaluation that is wanted is in the queue once, for those who asked.

LEMMA WantJobs ==
  ASSUME NEW p \in ToSet(held), NEW b \in BOOLEAN, NEW J \in SUBSET Turns, StoreOK, Want(p, b, J), p \notin evald
  PROVE  \E k \in DOMAIN queue' :
           /\ queue'[k].pos = p
           /\ queue'[k].jobs = (IF k \in DOMAIN queue THEN queue[k].jobs ELSE {}) \cup J
           /\ \A i \in DOMAIN queue' : i # k => i \in DOMAIN queue /\ queue'[i] = queue[i]
<1>0. queue \in Seq(Item) /\ Len(queue) \in Nat /\ DOMAIN queue = 1 .. Len(queue)
      /\ \A i \in DOMAIN queue : queue[i] \in Item
  BY Indices DEF StoreOK
<1>1. CASE \E k \in DOMAIN queue : queue[k].pos = p /\ queue[k].live /\ Joins(k, b, J)
  <2>1. PICK k \in DOMAIN queue : queue[k].pos = p /\ Joins(k, b, J)
    BY <1>1
  <2>2. queue[k] \in Item
    BY <1>0
  <2>3. [queue[k] EXCEPT !.tick = queue[k].tick \/ b, !.jobs = queue[k].jobs \cup J].pos = p
        /\ [queue[k] EXCEPT !.tick = queue[k].tick \/ b, !.jobs = queue[k].jobs \cup J].jobs = queue[k].jobs \cup J
    BY <2>1, <2>2 DEF Item
  <2>4. /\ DOMAIN queue' = DOMAIN queue
        /\ queue'[k] = [queue[k] EXCEPT !.tick = queue[k].tick \/ b, !.jobs = queue[k].jobs \cup J]
        /\ \A i \in DOMAIN queue : i # k => queue'[i] = queue[i]
    BY <1>0, <2>1 DEF Joins
  <2> QED BY <2>1, <2>3, <2>4
<1>2. CASE queue' = Append(queue, [pos |-> p, tick |-> b, jobs |-> J, live |-> TRUE])
  <2> DEFINE e == [pos |-> p, tick |-> b, jobs |-> J, live |-> TRUE]
  <2>1. p \in Positions
    BY ToSetSays DEF StoreOK
  <2>2. e \in Item /\ e.pos = p /\ e.jobs = J
    BY <2>1 DEF Item
  <2> HIDE DEF e
  <2>3. /\ DOMAIN queue' = 1 .. Len(queue) + 1
        /\ \A i \in 1 .. Len(queue) : queue'[i] = queue[i]
        /\ queue'[Len(queue) + 1] = e
    BY <1>0, <1>2, <2>2, Appended DEF e
  <2>4. /\ Len(queue) + 1 \in 1 .. Len(queue) + 1 /\ Len(queue) + 1 \notin 1 .. Len(queue)
        /\ \A i \in 1 .. Len(queue) + 1 : i # Len(queue) + 1 => i \in 1 .. Len(queue)
    BY <1>0
  <2> QED BY <1>0, <2>2, <2>3, <2>4
<1> QED BY <1>1, <1>2, WantLaw

LEMMA DriverOwns ==
  ASSUME DriverOK, WiresOK, StoreOK, InOrder, Owns, DriverStep
  PROVE  Owns'
<1>1. queue' = queue /\ job' = job
  BY DriverTyped DEF Same, worker, commits, store
<1>2. \A t \in Turns : Pending(t)' => Pending(t) \/ t \notin Used
  BY DriverOrder
<1>3. \A t \in Turns : Pending(t)' => \A i \in DOMAIN queue : t \notin queue[i].jobs
  BY <1>2, UsedLaw DEF Owns
<1> QED BY <1>1, <1>3 DEF Owns

LEMMA AnewOwns ==
  ASSUME Anew
  PROVE  Owns'
<1>1. queue' = <<>> /\ DOMAIN queue' = {} /\ \A t : ~Pending(t)'
  BY AnewOrder, EmptyLaw DEF Anew
<1> QED BY <1>1 DEF Owns

LEMMA DoOwns ==
  ASSUME WiresOK, WorkerOK, Owns, NEW m \in Asking, resetting => m.type = "reset", Do(m),
         \A t : Pending(t)' => Pending(t) /\ (m.type \in {"commit", "confirm"} => t # m.turn),
         m.type = "commit" => Pending(m.turn)
  PROVE  Owns'
<1>0. /\ rsp \in Seq(Telling) /\ StoreOK /\ StoreOK' /\ CommitOK /\ ResetLast
      /\ m.turn \in Turns \cup {NoTurn}
      /\ m.type # "reset" => m.pos \in Positions
      /\ m.type \in {"commit", "confirm"} => m.turn \in Turns
      /\ Len(queue) \in Nat /\ DOMAIN queue = 1 .. Len(queue)
      /\ \A i \in DOMAIN queue : queue[i] \in Item
      /\ \A t : Pending(t)' => Pending(t)
  BY MessageSays, DoTyped, Indices DEF WiresOK, WorkerOK, StoreOK
<1>1. \A i \in DOMAIN queue : i + 0 = i
  BY <1>0
<1>2. ASSUME DOMAIN queue' = DOMAIN queue, \A i \in DOMAIN queue : queue'[i].jobs = queue[i].jobs,
             job' = NoJob \/ (job'.turn = job.turn /\ job'.stage = job.stage)
      PROVE  Owns'
  <2>1. \A i \in DOMAIN queue' : i + 0 \in DOMAIN queue /\ queue'[i].jobs = queue[i + 0].jobs
    BY <1>1, <1>2
  <2>2. job'.stage \in {"begin", "tasks"} => job.stage \in {"begin", "tasks"}
    BY <1>2 DEF NoJob
  <2> QED BY <1>0, <1>2, <2>1, <2>2, OwnsLess
<1>3. ASSUME NEW ps \in Seq(Positions), NEW e \in Telling, PutAll(ps, {}, <<e>>)
      PROVE  DOMAIN queue' = DOMAIN queue /\ \A i \in DOMAIN queue : queue'[i].jobs = queue[i].jobs
  <2>1. <<e>> \in Seq(Telling)
    BY Singles
  <2> QED BY <1>0, <1>3, <2>1, PutAllLaw DEF SameTasks
<1>4. CASE DoInstall(m)
  <2>1. /\ <<m.pos>> \in Seq(Positions) /\ Msg("installed", m.pos, NoTurn) \in Telling
        /\ PutAll(<<m.pos>>, {}, <<Msg("installed", m.pos, NoTurn)>>)
    BY <1>0, <1>4, Singles, TellingMsg DEF DoInstall
  <2>2. job'.turn = job.turn /\ job'.stage = job.stage
    BY <1>0, <1>4, BumpLaw DEF DoInstall, Take, commits
  <2> QED BY <1>2, <1>3, <2>1, <2>2
<1>5. CASE DoEvaluate(m)
  <2>1. job' = job
    BY <1>5 DEF DoEvaluate, commits
  <2>2. CASE m.pos \notin ToSet(held)
    <3>1. queue' = queue
      BY <1>5, <2>2 DEF DoEvaluate, store
    <3> QED BY <1>2, <2>1, <3>1
  <2>3. CASE m.pos \in ToSet(held)
    <3>1. Want(m.pos, TRUE, {}) /\ {} \in SUBSET Turns /\ TRUE \in BOOLEAN
      BY <1>5, <2>3 DEF DoEvaluate
    <3>2. CASE m.pos \in evald
      <4>1. queue' = queue
        BY <1>0, <2>3, <3>1, <3>2, WantLaw
      <4> QED BY <1>2, <2>1, <4>1
    <3>3. CASE m.pos \notin evald
      <4> DEFINE nobody == {}  p == m.pos  b == TRUE
      <4>0. p \in ToSet(held) /\ b \in BOOLEAN /\ Want(p, b, nobody) /\ nobody \in SUBSET Turns /\ p \notin evald
        BY <2>3, <3>1, <3>3
      <4> HIDE DEF nobody, p, b
      <4>1. PICK k \in DOMAIN queue' :
              /\ queue'[k].pos = p
              /\ queue'[k].jobs = (IF k \in DOMAIN queue THEN queue[k].jobs ELSE {}) \cup nobody
              /\ \A i \in DOMAIN queue' : i # k => i \in DOMAIN queue /\ queue'[i] = queue[i]
        BY <1>0, <4>0, WantJobs
      <4> USE DEF nobody
      <4>2. \A i \in DOMAIN queue' : \/ queue'[i].jobs = {}
                                     \/ i + 0 \in DOMAIN queue /\ queue'[i].jobs = queue[i + 0].jobs
        BY <1>1, <4>1
      <4> QED BY <1>0, <2>1, <4>2, OwnsLess
    <3> QED BY <3>2, <3>3
  <2> QED BY <2>2, <2>3
<1>6. CASE DoCommit(m)
  <2>1. m.turn \in Turns /\ Pending(m.turn) /\ \A t : Pending(t)' => t # m.turn
    BY <1>0, <1>6 DEF DoCommit
  <2>2. \A i \in DOMAIN queue : m.turn \notin queue[i].jobs
    BY <2>1 DEF Owns
  <2>3. CASE m.pos \in ToSet(held) /\ (m.pos \in evald \/ Running(m.pos) # {})
    <3> DEFINE going == IF m.pos \in evald THEN {} ELSE Running(m.pos)
    <3>1. /\ job' = [turn |-> m.turn, stage |-> IF m.pos \in evald THEN "begin" ELSE "source",
                     pos |-> m.pos, tasks |-> {}, fresh |-> TRUE]
          /\ queue' = [i \in DOMAIN queue |->
                         IF i \in Running(m.pos) /\ m.pos \notin evald
                           THEN [queue[i] EXCEPT !.jobs = @ \cup {m.turn}] ELSE queue[i]]
      BY <1>6, <2>3 DEF DoCommit
    <3>2. /\ DOMAIN queue' = DOMAIN queue
          /\ \A i \in DOMAIN queue :
               queue'[i].jobs = (IF i \in going THEN queue[i].jobs \cup {m.turn} ELSE queue[i].jobs)
      BY <1>0, <3>1 DEF Item
    <3>3. \A i, j \in DOMAIN queue : i \in going /\ j \in going => i = j
      BY <1>0 DEF Running, StoreOK
    <3>4. job'.turn = m.turn /\ (job'.stage = "source" \/ (job'.stage = "begin" /\ going = {}))
      BY <3>1
    <3> HIDE DEF going
    <3>5. \A i \in DOMAIN queue : m.turn \in queue'[i].jobs => i \in going
      BY <2>2, <3>2
    <3>6. \A t \in Turns : Pending(t)' => \A i \in DOMAIN queue : t \notin queue'[i].jobs
      BY <1>0, <2>1, <3>2 DEF Owns
    <3>7. \A i, j \in DOMAIN queue' : job'.turn \in queue'[i].jobs /\ job'.turn \in queue'[j].jobs => i = j
      BY <3>2, <3>3, <3>4, <3>5
    <3>8. job'.stage \in {"begin", "tasks"} => \A i \in DOMAIN queue' : job'.turn \notin queue'[i].jobs
      BY <3>2, <3>4, <3>5
    <3> QED BY <3>2, <3>6, <3>7, <3>8 DEF Owns
  <2>4. CASE ~(m.pos \in ToSet(held) /\ (m.pos \in evald \/ Running(m.pos) # {}))
    <3>1. job' = NoJob /\ queue' = queue
      BY <1>6, <2>4 DEF DoCommit
    <3> QED BY <1>2, <3>1
  <2> QED BY <2>3, <2>4
<1>7. CASE DoConfirm(m)
  <2>1. job'.turn = job.turn /\ job'.stage = job.stage
    BY <1>0, <1>7, BumpLaw DEF DoConfirm, Take
  <2>2. CASE PutAll(<<m.pos>>, {}, <<Msg("confirmed", m.pos, m.turn)>>)
    <3>1. <<m.pos>> \in Seq(Positions) /\ Msg("confirmed", m.pos, m.turn) \in Telling
      BY <1>0, <1>7, Singles, TellingMsg DEF DoConfirm
    <3> QED BY <1>2, <1>3, <2>1, <2>2, <3>1
  <2>3. CASE UNCHANGED store
    BY <1>2, <2>1, <2>3 DEF store
  <2> QED BY <1>7, <2>2, <2>3 DEF DoConfirm
<1>8. CASE DoReset(m)
  <2>1. job'.turn = job.turn /\ job'.stage = job.stage
    BY <1>0, <1>8, BumpLaw DEF DoReset
  <2>2. CASE queue' = queue
    BY <1>2, <2>1, <2>2
  <2>3. CASE queue' = Append(queue, ResetItem)
    <3>1. ResetItem \in Item /\ ResetItem.jobs = {}
      BY DEF ResetItem, Item
    <3>2. /\ DOMAIN queue' = 1 .. Len(queue) + 1
          /\ \A i \in 1 .. Len(queue) : queue'[i] = queue[i]
          /\ queue'[Len(queue) + 1] = ResetItem
      BY <1>0, <2>3, <3>1, Appended DEF StoreOK
    <3>3. \A i \in 1 .. Len(queue) + 1 : i \in 1 .. Len(queue) \/ i = Len(queue) + 1
      BY <1>0
    <3>4. \A i \in DOMAIN queue' : \/ queue'[i].jobs = {}
                                   \/ i + 0 \in DOMAIN queue /\ queue'[i].jobs = queue[i + 0].jobs
      BY <1>0, <1>1, <3>1, <3>2, <3>3
    <3> QED BY <1>0, <2>1, <3>4, OwnsLess
  <2> QED BY <1>8, <2>2, <2>3 DEF DoReset
<1> QED BY <1>4, <1>5, <1>6, <1>7, <1>8 DEF Do

LEMMA HandleOwns ==
  ASSUME WiresOK, WorkerOK, InOrder, Owns, Handle
  PROVE  Owns'
<1>1. CASE Holding
  <2>1. queue' = queue /\ job' = job
    BY <1>1 DEF Holding, commits, store
  <2>2. \A t : Pending(t)' => Pending(t)
    BY <1>1, HoldingOrder
  <2> QED BY <2>1, <2>2 DEF Owns
<1>2. ASSUME NEW m, Taking(m), Do(m) PROVE Owns'
  <2>1. m \in Asking /\ (resetting => m.type = "reset")
    BY <1>2, TakingTyped
  <2>2. /\ m.type = "commit" => Pending(m.turn)
        /\ \A t : Pending(t)' => Pending(t) /\ (m.type \in {"commit", "confirm"} => t # m.turn)
    BY <1>2, TakingOrder
  <2> QED BY <1>2, <2>1, <2>2, DoOwns
<1> QED BY <1>1, <1>2, HandleCases

LEMMA EngineOwns ==
  ASSUME WiresOK, WorkerOK, Judging, Owns, EngineStep
  PROVE  Owns'
<1>0. /\ StoreOK /\ StoreOK' /\ CommitOK
      /\ job.turn \in Turns \cup {NoTurn} /\ NoTurn \notin Turns
      /\ Len(queue) \in Nat /\ DOMAIN queue = 1 .. Len(queue)
      /\ \A i \in DOMAIN queue : queue[i] \in Item
      /\ \A t : Pending(t)' => Pending(t)
  <2>1. req' = req /\ late' = late /\ WorkerOK'
    BY EngineTyped
  <2> QED BY <2>1, GoAssumption, Indices DEF WorkerOK, StoreOK, CommitOK, Pending
<1>1. \A i \in DOMAIN queue : i + 0 = i
  BY <1>0
<1>2. ASSUME DOMAIN queue' = DOMAIN queue, \A i \in DOMAIN queue : queue'[i].jobs = queue[i].jobs,
             \/ job' = NoJob
             \/ /\ job'.turn = job.turn
                /\ job'.stage \in {"begin", "tasks"} => job.stage \in {"begin", "tasks"}
      PROVE  Owns'
  <2>1. \A i \in DOMAIN queue' : i + 0 \in DOMAIN queue /\ queue'[i].jobs = queue[i + 0].jobs
    BY <1>1, <1>2
  <2>2. job'.stage \in {"begin", "tasks"} => job.stage \in {"begin", "tasks"}
    BY <1>2 DEF NoJob
  <2> QED BY <1>0, <1>2, <2>1, <2>2, OwnsLess
<1>3. ASSUME queue # <<>>, queue' = Tail(queue), job'.turn = job.turn \/ job' = NoJob,
             job'.stage \in {"begin", "tasks"} =>
               job.stage \in {"begin", "tasks"} \/ job.turn \in Head(queue).jobs
      PROVE  Owns'
  <2>1. /\ Head(queue) = queue[1] /\ 1 \in DOMAIN queue /\ DOMAIN queue' = 1 .. Len(queue) - 1
        /\ \A i \in 1 .. Len(queue) - 1 : queue'[i] = queue[i + 1]
    BY <1>0, <1>3, Taken DEF StoreOK
  <2>2. \A i \in DOMAIN queue' : i + 1 \in DOMAIN queue /\ i + 1 # 1
    BY <1>0, <2>1
  <2>3. \A i \in DOMAIN queue' : queue'[i].jobs = queue[i + 1].jobs
    BY <2>1
  <2>4. job.turn \in Head(queue).jobs => \A i \in DOMAIN queue' : job.turn \notin queue'[i].jobs
    BY <2>1, <2>2, <2>3 DEF Owns
  <2> QED BY <1>0, <1>3, <2>2, <2>3, <2>4, OwnsLess
<1>4. CASE EngineDone
  <2>1. /\ queue # <<>> /\ queue' = Tail(queue)
        /\ job' = IF job.turn \notin Head(queue).jobs THEN job
                  ELSE IF job.stage = "source" THEN [job EXCEPT !.stage = "begin"]
                  ELSE NextTask(Head(queue).pos)
    BY <1>4 DEF EngineDone
  <2>2. job'.turn = job.turn \/ job' = NoJob
    BY <1>0, <2>1 DEF NextTask, CommitOK
  <2>3. job'.stage \in {"begin", "tasks"} =>
          job.stage \in {"begin", "tasks"} \/ job.turn \in Head(queue).jobs
    BY <2>1
  <2> QED BY <1>3, <2>1, <2>2, <2>3
<1>5. CASE EngineFails
  <2>1. /\ queue # <<>> /\ queue' = Tail(queue)
        /\ job' = IF job.turn \in Head(queue).jobs THEN NoJob ELSE job
    BY <1>5 DEF EngineFails
  <2>2. NoJob.stage = "none"
    BY DEF NoJob
  <2> QED BY <1>3, <2>1, <2>2
<1>6. CASE EngineReset
  BY <1>3, <1>6 DEF EngineReset
<1>7. CASE JobBegins
  <2>1. CASE job.fresh
    <3>1. /\ PutAll(Succ[job.pos], Positions \ Selected(job.pos), <<>>) /\ job.stage = "begin"
          /\ job' = [job EXCEPT !.stage = "tasks", !.tasks = Selected(job.pos)]
      BY <1>7, <2>1 DEF JobBegins
    <3>2. Succ[job.pos] \in Seq(Positions) /\ <<>> \in Seq(Telling)
      BY <1>0, <3>1, GoAssumption, EmptyLaw DEF CommitOK
    <3>3. SameTasks
      BY <1>0, <3>1, <3>2, PutAllLaw DEF WiresOK
    <3>4. job'.turn = job.turn
      BY <1>0, <3>1 DEF CommitOK
    <3> QED BY <1>2, <3>1, <3>3, <3>4 DEF SameTasks
  <2>2. CASE ~job.fresh
    <3>1. job' = NoJob /\ queue' = queue
      BY <1>7, <2>2 DEF JobBegins, store
    <3> QED BY <1>2, <3>1
  <2> QED BY <2>1, <2>2
<1>8. ASSUME NEW p \in Positions, JobTask(p)
      PROVE  Owns'
  <2>1. job.fresh /\ job.turn \in Turns /\ job.stage = "tasks"
    BY <1>0, <1>8 DEF JobTask, CommitOK
  <2>2. CASE p \notin ToSet(held)
    <3>1. job' = NoJob /\ queue' = queue
      BY <1>8, <2>2 DEF JobTask, store
    <3> QED BY <1>2, <3>1
  <2>3. CASE p \in ToSet(held)
    <3> DEFINE J == {job.turn}  b == FALSE
    <3>1. J \in SUBSET Turns /\ b \in BOOLEAN /\ Want(p, b, J)
      BY <1>8, <2>1, <2>3 DEF JobTask
    <3>2. /\ p \in evald => job' = NextTask(p)
          /\ p \notin evald => job' = [job EXCEPT !.stage = "engine"]
      BY <1>8, <2>3 DEF JobTask
    <3>3. \A i \in DOMAIN queue : job.turn \notin queue[i].jobs
      BY <2>1 DEF Owns
    <3>4. job.turn \in J /\ \A t \in J : t = job.turn
      OBVIOUS
    <3> HIDE DEF J, b
    <3>5. CASE p \in evald
      <4>1. queue' = queue
        BY <1>0, <2>3, <3>1, <3>5, WantLaw
      <4>2. job'.turn = job.turn
        BY <1>0, <2>1, <3>2, <3>5 DEF NextTask, CommitOK
      <4> QED BY <1>2, <2>1, <4>1, <4>2
    <3>6. CASE p \notin evald
      <4>1. PICK k \in DOMAIN queue' :
              /\ queue'[k].pos = p
              /\ queue'[k].jobs = (IF k \in DOMAIN queue THEN queue[k].jobs ELSE {}) \cup J
              /\ \A i \in DOMAIN queue' : i # k => i \in DOMAIN queue /\ queue'[i] = queue[i]
        BY <1>0, <2>3, <3>1, <3>6, WantJobs
      <4>2. job'.turn = job.turn /\ job'.stage = "engine"
        BY <1>0, <3>2, <3>6 DEF CommitOK
      <4>3. \A i \in DOMAIN queue' : job.turn \in queue'[i].jobs => i = k
        BY <3>3, <4>1
      <4>4. ASSUME NEW t \in Turns, Pending(t)', NEW i \in DOMAIN queue' PROVE t \notin queue'[i].jobs
        <5>1. Pending(t) /\ t # job.turn /\ t \notin J
          BY <1>0, <3>4, <4>4 DEF Judging
        <5>2. \A j \in DOMAIN queue : t \notin queue[j].jobs
          BY <5>1 DEF Owns
        <5> QED BY <4>1, <5>1, <5>2
      <4> QED BY <4>2, <4>3, <4>4 DEF Owns
    <3> QED BY <3>5, <3>6
  <2> QED BY <2>2, <2>3
<1>9. CASE JobEnds
  BY <1>2, <1>9 DEF JobEnds, store
<1>10. CASE Expire
  <2>1. queue' = queue /\ (job' = job \/ job' = [job EXCEPT !.fresh = FALSE])
    BY <1>10 DEF Expire, store
  <2>2. job'.turn = job.turn /\ job'.stage = job.stage
    BY <1>0, <2>1 DEF CommitOK
  <2> QED BY <1>2, <2>1, <2>2
<1> QED BY <1>4, <1>5, <1>6, <1>7, <1>8, <1>9, <1>10 DEF EngineStep

-----------------------------------------------------------------------------
(* The mirror, until a prestige *)

\* Nothing is awaited of a reset, and what is installed is for the turn that is
\* expected.
Calm ==
  /\ asked = 0 /\ ~resetting /\ late = <<>>
  /\ \A i \in DOMAIN req : req[i].type = "install" => req[i].turn = last

\* Held, or told after the i-th message on its way that it is not.
Supported(i, p) ==
  \/ p \in ToSet(held)
  \/ \E j \in DOMAIN rsp : j > i /\ rsp[j].type = "evicted" /\ rsp[j].pos = p

\* The client will take the position of m for installed.
Vouched(m) ==
  \/ m.type \in {"installed", "confirmed"}
  \/ m.type = "predicted" /\ m.turn \in {last, mine}

Credits ==
  /\ \A p \in Believed : Supported(0, p)
  /\ \A i \in DOMAIN rsp : Vouched(rsp[i]) => Supported(i, rsp[i].pos)

\* What the commit of the expected turn waits for is held.
Waits ==
  job.stage = "engine" /\ job.fresh /\ job.turn \in {last, mine} =>
    \A i \in DOMAIN queue : job.turn \in queue[i].jobs => queue[i].pos \in ToSet(held)

Mirrored == Credits /\ Waits
Faithful == resetsLeft = Resets => Calm /\ (failed \/ Mirrored)

LEMMA MirrorFollows ==
  ASSUME WiresOK, Faithful
  PROVE  MirrorSound
<1> SUFFICES ASSUME resetsLeft = Resets, ~failed, NEW p \in Believed
             PROVE  p \in ToSet(held) \cup OnItsWay("evicted")
  BY DEF MirrorSound, MirrorTrue
<1>1. Supported(0, p)
  BY DEF Faithful, Mirrored, Credits
<1>2. CASE \E j \in DOMAIN rsp : rsp[j].type = "evicted" /\ rsp[j].pos = p
  <2>1. PICK j \in DOMAIN rsp : rsp[j].type = "evicted" /\ rsp[j].pos = p
    BY <1>2
  <2>2. rsp[j] \in ToSet(rsp)
    BY ToSetSays DEF WiresOK
  <2> QED BY <2>1, <2>2 DEF OnItsWay
<1> QED BY <1>1, <1>2 DEF Supported

\* What is owed rules out.

LEMMA NoPlan ==
  ASSUME WiresOK, StoreOK, Owed, pc \notin {"install", "evaluate"}
  PROVE  \A i \in DOMAIN req : req[i].type \notin {"install", "evaluate"}
<1>1. Count(req, Plan) = 0
  BY CountsNat DEF Owed
<1>2. \A i \in DOMAIN req : req[i] \notin Plan /\ req[i] \in Asking
  BY <1>1, Counted, Indices DEF WiresOK
<1> QED BY <1>2, Kinds

LEMMA NoWipe ==
  ASSUME WiresOK, StoreOK, Owed, asked = 0
  PROVE  /\ \A i \in DOMAIN req : req[i].type # "reset"
         /\ \A i \in DOMAIN queue : queue[i].pos # NoPos
<1>1. Count(req, Wipe) = 0 /\ Count(queue, Wiping) = 0
  <2>1. Count(req, Wipe) + Count(rsp, Wiped) + Count(queue, Wiping) = 0
    BY DEF Owed
  <2>2. Count(req, Wipe) \in Nat /\ Count(rsp, Wiped) \in Nat /\ Count(queue, Wiping) \in Nat
    BY CountsNat
  <2> QED BY <2>1, <2>2
<1>2. \A i \in DOMAIN req : req[i] \notin Wipe /\ req[i] \in Asking
  BY <1>1, Counted, Indices DEF WiresOK
<1>3. \A i \in DOMAIN queue : queue[i] \notin Wiping /\ queue[i] \in Item
  BY <1>1, Counted, Indices DEF StoreOK
<1> QED BY <1>2, <1>3, Kinds DEF Wiping

\* The driver's steps, but for a prestige.

LEMMA LessBelieved ==
  ASSUME DriverOK, WiresOK, StoreOK, CommitOK, Mirrored, Same, pushed' \subseteq pushed,
         known' \subseteq Believed,
         \A t \in {last', mine'} : t \in {last, mine, NoTurn} \/ (t \in Turns /\ t \notin Used)
  PROVE  Mirrored'
<1>1. held' = held /\ rsp' = rsp /\ job' = job /\ queue' = queue
  BY DEF Same, worker, store, commits
<1>2. /\ \A x \in pushed : x[1] \in {last', mine'} => x[1] \in {last, mine}
      /\ \A i \in DOMAIN rsp : rsp[i].type = "predicted" /\ rsp[i].turn \in {last', mine'} => rsp[i].turn \in {last, mine}
      /\ job.fresh /\ job.turn \in {last', mine'} => job.turn \in {last, mine}
  <2>1. /\ \A x \in pushed : x[1] \in Turns
        /\ \A i \in DOMAIN rsp : rsp[i].type = "predicted" => rsp[i].turn \in Turns
        /\ job.fresh => job.turn \in Turns
    <3>1. \A i \in DOMAIN rsp : rsp[i] \in Telling
      BY Indices DEF WiresOK
    <3> QED BY <3>1, MessageSays DEF DriverOK, CommitOK
  <2>2. \A t \in Turns : t \notin Used => /\ \A x \in pushed : x[1] # t
                                          /\ \A i \in DOMAIN rsp : rsp[i].turn # t
                                          /\ job.turn # t
    BY UsedLaw
  <2> QED BY <2>1, <2>2, GoAssumption
<1>3. Believed' \subseteq Believed
  BY <1>2 DEF Believed
<1>4. \A i \in DOMAIN rsp : Vouched(rsp[i])' => Vouched(rsp[i])
  BY <1>1, <1>2 DEF Vouched
<1>5. Credits'
  <2>1. ASSUME NEW p \in Believed' PROVE Supported(0, p)'
    <3>1. Supported(0, p)
      BY <1>3, <2>1 DEF Mirrored, Credits
    <3> QED BY <1>1, <3>1 DEF Supported
  <2>2. ASSUME NEW i \in DOMAIN rsp', Vouched(rsp[i])' PROVE Supported(i, rsp[i].pos)'
    <3>1. Supported(i, rsp[i].pos)
      BY <1>1, <1>4, <2>2 DEF Mirrored, Credits
    <3> QED BY <1>1, <3>1 DEF Supported
  <2> QED BY <2>1, <2>2 DEF Credits
<1>6. Waits'
  BY <1>1, <1>2 DEF Mirrored, Waits
<1> QED BY <1>5, <1>6 DEF Mirrored

LEMMA DriverFaithful ==
  ASSUME DriverOK, WiresOK, StoreOK, CommitOK, Owed, Faithful, DriverStep
  PROVE  Faithful'
<1> SUFFICES ASSUME resetsLeft' = Resets PROVE Calm' /\ (failed' \/ Mirrored')
  BY DEF Faithful
<1>1. resetsLeft = Resets /\ ~Reset
  <2>1. CASE Reset
    BY <2>1, GoAssumption DEF Reset, DriverOK
  <2>2. CASE ~Reset
    BY <2>2 DEF DriverStep, Install, Hold, Evaluate, DispatchPlain, DispatchCommit, Answered, Rehydrate, faults
  <2> QED BY <2>1, <2>2
<1>2. Calm /\ (failed \/ Mirrored) /\ Same
  BY <1>1, DriverTyped DEF Faithful
<1>3. \A S \in SUBSET (Turns \X Positions) : \A t : \A p : Pruned(S, t, p) \subseteq S /\ Finished(S, t) \subseteq S
  BY PairLaw
<1>4. known \subseteq Believed
  BY DEF Believed
<1>5. ASSUME failed' = failed, pushed' \subseteq pushed, known' \subseteq Believed,
             \A t \in {last', mine'} : t \in {last, mine, NoTurn} \/ (t \in Turns /\ t \notin Used)
      PROVE  failed' \/ Mirrored'
  BY <1>2, <1>5, LessBelieved
<1>6. ASSUME asked' = asked, last' = last \/ pc \notin {"install", "evaluate"},
             \/ req' = req
             \/ \E m \in Asking : req' = Append(req, m) /\ (m.type = "install" => m.turn = last')
      PROVE  Calm'
  <2>1. \A i \in DOMAIN req : req[i].type = "install" => req[i].turn = last'
    BY <1>2, <1>6, NoPlan DEF Calm
  <2>2. \A i \in DOMAIN req' : req'[i].type = "install" => req'[i].turn = last'
    <3>1. CASE req' = req
      BY <2>1, <3>1
    <3>2. ASSUME NEW m \in Asking, req' = Append(req, m), m.type = "install" => m.turn = last'
          PROVE  \A i \in DOMAIN req' : req'[i].type = "install" => req'[i].turn = last'
      <4>1. /\ DOMAIN req' = 1 .. Len(req) + 1
            /\ \A i \in 1 .. Len(req) : req'[i] = req[i]
            /\ req'[Len(req) + 1] = m
            /\ DOMAIN req = 1 .. Len(req) /\ Len(req) \in Nat
        BY <3>2, Appended, Indices DEF WiresOK
      <4>2. \A i \in 1 .. Len(req) + 1 : i \in 1 .. Len(req) \/ i = Len(req) + 1
        BY <4>1
      <4> QED BY <2>1, <3>2, <4>1, <4>2
    <3> QED BY <1>6, <3>1, <3>2
  <2> QED BY <1>2, <1>6, <2>2 DEF Calm, Same, worker
<1>7. /\ \A t \in Turns \cup {NoTurn} : Msg("install", view, t) \in Asking
      /\ Msg("evaluate", view, NoTurn) \in Asking
      /\ \A p \in Positions, t \in Turns : Msg("commit", p, t) \in Asking /\ Msg("confirm", p, t) \in Asking
      /\ \A a : \A p : \A t : Msg(a, p, t).type = a /\ Msg(a, p, t).turn = t
  BY AskingMsg, MsgIs DEF DriverOK
<1>8. CASE Install
  <2>1. UNCHANGED <<asked, failed, last, mine>> /\ last \in Turns \cup {NoTurn}
    BY <1>8 DEF Install, DriverOK
  <2>2. CASE view \in known \/ <<last, view>> \in pushed
    <3>1. known' = known \cup {view} /\ pushed' = Finished(pushed, last) /\ req' = req
      BY <1>8, <2>2 DEF Install, AcceptParent
    <3>2. view \in Believed
      <4>1. CASE view \in known
        BY <4>1 DEF Believed
      <4>2. CASE <<last, view>> \in pushed
        <5> DEFINE x == <<last, view>>
        <5>1. x \in pushed /\ x[1] \in {last, mine} /\ x[2] = view
          BY <4>2
        <5> HIDE DEF x
        <5> QED BY <5>1 DEF Believed
      <4> QED BY <2>2, <4>1, <4>2
    <3> QED BY <1>3, <1>4, <1>5, <1>6, <2>1, <3>1, <3>2 DEF DriverOK
  <2>3. CASE ~(view \in known \/ <<last, view>> \in pushed)
    <3>1. UNCHANGED <<known, pushed>> /\ req' = Append(req, Msg("install", view, last))
      BY <1>8, <2>3 DEF Install
    <3> QED BY <1>4, <1>5, <1>6, <1>7, <2>1, <3>1
  <2> QED BY <2>2, <2>3
<1>9. CASE Hold \/ DispatchPlain \/ Rehydrate
  <2>1. /\ UNCHANGED <<asked, failed, known, pushed, req>>
        /\ \A t \in {last', mine'} : t \in {last, mine, NoTurn}
        /\ last' = last \/ pc \notin {"install", "evaluate"}
    BY <1>9 DEF Hold, DispatchPlain, Rehydrate, client
  <2> QED BY <1>4, <1>5, <1>6, <2>1
<1>10. CASE Evaluate
  <2>1. /\ UNCHANGED <<asked, failed, known, pushed, last, mine>>
        /\ req' = req \/ req' = Append(req, Msg("evaluate", view, NoTurn))
    BY <1>10 DEF Evaluate
  <2>2. \/ req' = req
        \/ \E m \in Asking : req' = Append(req, m) /\ (m.type = "install" => m.turn = last')
    BY <1>7, <2>1
  <2> QED BY <1>4, <1>5, <1>6, <2>1, <2>2
<1>11. ASSUME NEW t \in Turns, DispatchCommit(t)
       PROVE  Calm' /\ (failed' \/ Mirrored')
  <2>1. /\ UNCHANGED <<asked, failed, known, last>> /\ mine' = t /\ t \notin Used
        /\ pushed' = Finished(pushed, parent) /\ view \in Positions
        /\ req' = req \/ req' = Append(req, Msg("commit", view, t))
    BY <1>11 DEF DispatchCommit, FinishParent, DriverOK
  <2>2. \/ req' = req
        \/ \E m \in Asking : req' = Append(req, m) /\ (m.type = "install" => m.turn = last')
    BY <1>7, <2>1
  <2>3. pushed' \subseteq pushed
    BY <1>3, <2>1 DEF DriverOK
  <2> QED BY <1>4, <1>5, <1>6, <2>1, <2>2, <2>3
<1>12. ASSUME NEW p \in Positions, Answered(p)
       PROVE  Calm' /\ (failed' \/ Mirrored')
  <2>1. /\ UNCHANGED <<asked, failed, known, pushed>> /\ mine' = NoTurn /\ last' \in {mine, NoTurn} /\ pc = "turn"
        /\ req' = req \/ (mine # NoTurn /\ req' = Append(req, Msg("confirm", p, mine)))
    BY <1>12 DEF Answered, client
  <2>2. \/ req' = req
        \/ \E m \in Asking : req' = Append(req, m) /\ (m.type = "install" => m.turn = last')
    BY <1>7, <2>1 DEF DriverOK
  <2> QED BY <1>4, <1>5, <1>6, <2>1, <2>2
<1> QED BY <1>1, <1>8, <1>9, <1>10, <1>11, <1>12 DEF DriverStep

\* A client that is replaced or crashes: only the crash comes before a prestige.

LEMMA ReplacedFaithful ==
  ASSUME DriverOK, WiresOK, StoreOK, Owed, Faithful, Replaced
  PROVE  Faithful'
<1> SUFFICES ASSUME resetsLeft' = Resets PROVE Calm' /\ failed'
  BY DEF Faithful
<1>1. Anew
  BY ReplacedTyped
<1>2. resetsLeft = Resets /\ ~Reset
  <2>1. CASE Reset
    BY <2>1, GoAssumption DEF Reset, DriverOK
  <2>2. CASE ~Reset
    BY <2>2 DEF Replaced, Crash, faults
  <2> QED BY <2>1, <2>2
<1>3. Calm
  BY <1>2 DEF Faithful
<1>4. ~(rsp # <<>> /\ Head(rsp).type = "refused")
  BY <1>3, Awaited DEF Calm
<1>5. Crash
  BY <1>2, <1>4 DEF Replaced
<1>6. failed' = TRUE /\ asked' = asked
  BY <1>3, <1>5 DEF Crash, Calm
<1> QED BY <1>1, <1>3, <1>6, EmptyLaw DEF Anew, Calm

\* The client takes a message.

LEMMA Shifted ==
  ASSUME WiresOK, Got
  PROVE  /\ DOMAIN rsp' = 1 .. Len(rsp) - 1 /\ Head(rsp) = rsp[1] /\ 1 \in DOMAIN rsp
         /\ \A i \in DOMAIN rsp' : rsp'[i] = rsp[i + 1] /\ i + 1 \in DOMAIN rsp
         /\ \A i \in Nat : \A p : Supported(i + 1, p) => Supported(i, p)'
         /\ \A p : Supported(0, p) => Supported(1, p) \/ (Head(rsp).type = "evicted" /\ Head(rsp).pos = p)
<1>1. /\ DOMAIN rsp' = 1 .. Len(rsp) - 1 /\ Head(rsp) = rsp[1] /\ 1 \in DOMAIN rsp
      /\ DOMAIN rsp = 1 .. Len(rsp) /\ Len(rsp) \in Nat /\ held' = held
      /\ \A i \in 1 .. Len(rsp) - 1 : rsp'[i] = rsp[i + 1]
  BY Taken, Indices DEF Got, WiresOK, worker, store
<1>2. /\ \A i \in DOMAIN rsp' : i + 1 \in DOMAIN rsp
      /\ \A i \in Nat : \A j \in DOMAIN rsp : j > i + 1 => j - 1 \in DOMAIN rsp' /\ j - 1 > i /\ (j - 1) + 1 = j
      /\ \A j \in DOMAIN rsp : j > 0 => j > 1 \/ j = 1
  BY <1>1
<1>3. ASSUME NEW i \in Nat, NEW p, Supported(i + 1, p) PROVE Supported(i, p)'
  <2>1. CASE p \in ToSet(held)
    BY <1>1, <2>1 DEF Supported
  <2>2. CASE \E j \in DOMAIN rsp : j > i + 1 /\ rsp[j].type = "evicted" /\ rsp[j].pos = p
    <3>1. PICK j \in DOMAIN rsp : j > i + 1 /\ rsp[j].type = "evicted" /\ rsp[j].pos = p
      BY <2>2
    <3>2. j - 1 \in DOMAIN rsp' /\ j - 1 > i /\ rsp'[j - 1] = rsp[j]
      BY <1>1, <1>2, <3>1
    <3> QED BY <3>1, <3>2 DEF Supported
  <2> QED BY <1>3, <2>1, <2>2 DEF Supported
<1>4. \A p : Supported(0, p) => Supported(1, p) \/ (Head(rsp).type = "evicted" /\ Head(rsp).pos = p)
  BY <1>1, <1>2 DEF Supported
<1> QED BY <1>1, <1>2, <1>3, <1>4

LEMMA ReceivedFaithful ==
  ASSUME DriverOK, WiresOK, StoreOK, Owed, Faithful, Received
  PROVE  Faithful'
<1> SUFFICES ASSUME resetsLeft' = Resets PROVE Calm' /\ (failed' \/ Mirrored')
  BY DEF Faithful
<1>0. Got
  BY DEF Received
<1>1. /\ resetsLeft = Resets /\ last' = last /\ mine' = mine /\ req' = req
      /\ held' = held /\ queue' = queue /\ job' = job /\ resetting' = resetting /\ late' = late
  BY <1>0 DEF Got, faults, worker, store, commits
<1>2. Calm /\ (failed \/ Mirrored)
  BY <1>1 DEF Faithful
<1>3. rsp # <<>> /\ Head(rsp).type # "reset"
  BY <1>0, <1>2, Awaited DEF Got, Calm
<1>4. asked' = asked /\ failed' = failed
  BY <1>3 DEF Received, Installed, Evaluated, TurnError, Replied, Evicted, Predicted, Confirmed, Desynced,
              ResetDone, client
<1>5. Calm'
  BY <1>1, <1>2, <1>4 DEF Calm
<1>6. ASSUME Mirrored PROVE Mirrored'
  <2> DEFINE m == Head(rsp)
  <2>1. /\ DOMAIN rsp' = 1 .. Len(rsp) - 1 /\ m = rsp[1] /\ 1 \in DOMAIN rsp
        /\ \A i \in DOMAIN rsp' : rsp'[i] = rsp[i + 1] /\ i + 1 \in DOMAIN rsp
        /\ \A i \in Nat : \A p : Supported(i + 1, p) => Supported(i, p)'
        /\ \A p : Supported(0, p) => Supported(1, p) \/ (m.type = "evicted" /\ m.pos = p)
    BY <1>0, Shifted
  <2>2. Vouched(m) => Supported(1, m.pos)
    BY <1>6, <2>1 DEF Mirrored, Credits
  <2>3. \A p \in Believed : Supported(1, p) \/ (m.type = "evicted" /\ m.pos = p)
    BY <1>6, <2>1 DEF Mirrored, Credits
  <2>4. \A S \in SUBSET (Turns \X Positions) : \A t : \A p : Pruned(S, t, p) \subseteq S /\ Finished(S, t) \subseteq S
    BY PairLaw
  <2>5. \A p : Supported(1, p) => Supported(0, p)'
    <3>1. 0 \in Nat /\ 0 + 1 = 1
      OBVIOUS
    <3> QED BY <2>1, <3>1
  <2>6. ASSUME \A p \in known' : \/ p \in known /\ ~(m.type = "evicted" /\ m.pos = p)
                                 \/ p = m.pos /\ Vouched(m),
               \A x \in pushed' : \/ x \in pushed /\ ~(m.type = "evicted" /\ m.pos = x[2])
                                  \/ x[2] = m.pos /\ (x[1] \in {last, mine} => Vouched(m))
        PROVE  \A p \in Believed' : Supported(0, p)'
    <3> TAKE p \in Believed'
    <3>1. CASE p \in known'
      <4>1. p \in known => p \in Believed
        BY DEF Believed
      <4> QED BY <2>2, <2>3, <2>5, <2>6, <3>1, <4>1
    <3>2. CASE \E x \in pushed' : x[1] \in {last, mine} /\ x[2] = p
      <4>1. PICK x \in pushed' : x[1] \in {last, mine} /\ x[2] = p
        BY <3>2
      <4>2. x \in pushed => p \in Believed
        BY <4>1 DEF Believed
      <4> QED BY <2>2, <2>3, <2>5, <2>6, <4>1, <4>2
    <3> QED BY <1>1, <3>1, <3>2 DEF Believed
  <2> HIDE DEF m
  <2>7. \A p \in Believed' : Supported(0, p)'
    <3>1. CASE Installed
      <4>1. known' = known \cup {m.pos} /\ pushed' = Finished(pushed, parent) /\ m.type = "installed"
        BY <3>1 DEF Installed, Replied, FinishParent, m
      <4>2. pushed' \subseteq pushed /\ Vouched(m)
        BY <2>4, <4>1 DEF DriverOK, Vouched
      <4> QED BY <2>6, <4>1, <4>2
    <3>2. CASE Evaluated \/ TurnError
      <4>1. known' = known /\ pushed' = pushed /\ m.type \in {"evaluated", "error"}
        BY <3>2 DEF Evaluated, Replied, TurnError, client, m
      <4> QED BY <2>6, <4>1
    <3>3. CASE Evicted
      <4>1. known' = known \ {m.pos} /\ pushed' = {x \in pushed : x[2] # m.pos}
        BY <3>3 DEF Evicted, m
      <4> QED BY <2>6, <4>1
    <3>4. CASE Predicted
      <4> DEFINE x == <<m.turn, m.pos>>
      <4>1. known' = known /\ pushed' = pushed \cup {x} /\ m.type = "predicted"
        BY <3>4 DEF Predicted, m
      <4>2. x[2] = m.pos /\ (x[1] \in {last, mine} => Vouched(m))
        BY <4>1 DEF Vouched
      <4> HIDE DEF x
      <4> QED BY <2>6, <4>1, <4>2
    <3>5. CASE Confirmed
      <4> DEFINE x == <<m.turn, m.pos>>
      <4>1. known' = known /\ m.type = "confirmed"
            /\ \/ pushed' = Finished(pushed, m.turn)
               \/ pushed' = Pruned(pushed, m.turn, m.pos) \cup (IF m.pos \in known THEN {} ELSE {x})
        BY <3>5 DEF Confirmed, FinishParent, m
      <4>2. x[2] = m.pos /\ Vouched(m)
        BY <4>1 DEF Vouched
      <4> HIDE DEF x
      <4>3. pushed' \subseteq pushed \cup {x}
        BY <2>4, <4>1 DEF DriverOK
      <4> QED BY <2>6, <4>1, <4>2, <4>3
    <3>6. CASE Desynced
      <4>1. known' = {} /\ pushed' = {}
        BY <3>6 DEF Desynced, Forget
      <4> QED BY <2>6, <4>1
    <3> QED BY <1>3, <3>1, <3>2, <3>3, <3>4, <3>5, <3>6 DEF Received, ResetDone
  <2>8. ASSUME NEW i \in DOMAIN rsp', Vouched(rsp[i])' PROVE Supported(i, rsp[i].pos)'
    <3>1. i \in Nat /\ i + 1 \in DOMAIN rsp /\ rsp'[i] = rsp[i + 1]
      <4>1. DOMAIN rsp' \subseteq Nat
        BY <2>1
      <4> QED BY <2>1, <4>1
    <3>2. Vouched(rsp[i + 1])
      BY <1>1, <2>8, <3>1 DEF Vouched
    <3> DEFINE p == rsp[i + 1].pos
    <3>3. Supported(i + 1, p)
      BY <1>6, <3>1, <3>2 DEF Mirrored, Credits
    <3>4. p = rsp'[i].pos
      BY <3>1
    <3> HIDE DEF p
    <3>5. \/ p \in ToSet(held')
          \/ \E j \in DOMAIN rsp' : j > i /\ rsp'[j].type = "evicted" /\ rsp'[j].pos = p
      <4>1. CASE p \in ToSet(held)
        BY <1>1, <4>1
      <4>2. CASE \E j \in DOMAIN rsp : j > i + 1 /\ rsp[j].type = "evicted" /\ rsp[j].pos = p
        <5>1. PICK j \in DOMAIN rsp : j > i + 1 /\ rsp[j].type = "evicted" /\ rsp[j].pos = p
          BY <4>2
        <5>2. DOMAIN rsp = 1 .. Len(rsp) /\ Len(rsp) \in Nat
          BY Indices DEF WiresOK
        <5>3. j - 1 \in DOMAIN rsp' /\ j - 1 > i /\ (j - 1) + 1 = j
          BY <2>1, <3>1, <5>1, <5>2
        <5>4. rsp'[j - 1] = rsp[j]
          BY <2>1, <5>3
        <5> QED BY <5>1, <5>3, <5>4
      <4> QED BY <3>3, <4>1, <4>2 DEF Supported
    <3> QED BY <3>4, <3>5 DEF Supported
  <2>9. Credits'
    BY <2>7, <2>8 DEF Credits
  <2>10. Waits'
    BY <1>1, <1>6 DEF Mirrored, Waits
  <2> QED BY <2>9, <2>10 DEF Mirrored
<1> QED BY <1>2, <1>4, <1>5, <1>6

\* The worker's steps.

LEMMA SaysCredits ==
  ASSUME WiresOK, NEW M, Says(M), Truthful(M), Keeps, Mirrored, UNCHANGED <<known, pushed, last, mine>>
  PROVE  Credits'
<1>1. /\ DOMAIN rsp = 1 .. Len(rsp) /\ Len(rsp) \in Nat
      /\ DOMAIN rsp' = 1 .. Len(rsp') /\ Len(rsp') \in Nat
      /\ \A i \in DOMAIN rsp : i \in DOMAIN rsp' /\ rsp'[i] = rsp[i]
      /\ \A i \in DOMAIN rsp' : i \notin DOMAIN rsp => rsp'[i] \in M
  <2>1. rsp' \in Seq(Telling)
    BY DEF Says
  <2> QED BY <2>1, Indices DEF Says, WiresOK
<1>2. ASSUME NEW i \in 0 .. Len(rsp), NEW p, Supported(i, p)
      PROVE  \/ p \in ToSet(held')
             \/ \E j \in DOMAIN rsp' : j > i /\ rsp'[j].type = "evicted" /\ rsp'[j].pos = p
  <2>1. CASE p \in ToSet(held)
    <3>1. CASE \E j \in DOMAIN rsp' : j \notin DOMAIN rsp /\ rsp'[j].type = "evicted" /\ rsp'[j].pos = p
      <4>1. PICK j \in DOMAIN rsp' : j \notin DOMAIN rsp /\ rsp'[j].type = "evicted" /\ rsp'[j].pos = p
        BY <3>1
      <4>2. j > i
        BY <1>1, <4>1
      <4> QED BY <4>1, <4>2
    <3> QED BY <2>1, <3>1 DEF Keeps
  <2>2. CASE \E j \in DOMAIN rsp : j > i /\ rsp[j].type = "evicted" /\ rsp[j].pos = p
    BY <1>1, <2>2
  <2> QED BY <1>2, <2>1, <2>2 DEF Supported
<1>3. ASSUME NEW p \in Believed' PROVE Supported(0, p)'
  <2>1. p \in Believed /\ 0 \in 0 .. Len(rsp)
    BY <1>1, <1>3 DEF Believed
  <2>2. Supported(0, p)
    BY <2>1 DEF Mirrored, Credits
  <2> QED BY <1>2, <2>1, <2>2 DEF Supported
<1>4. ASSUME NEW i \in DOMAIN rsp', Vouched(rsp[i])' PROVE Supported(i, rsp[i].pos)'
  <2>1. CASE i \in DOMAIN rsp
    <3> DEFINE p == rsp[i].pos
    <3>1. rsp'[i] = rsp[i] /\ i \in 0 .. Len(rsp)
      BY <1>1, <2>1
    <3>2. Vouched(rsp[i])
      BY <1>4, <3>1 DEF Vouched
    <3>3. Supported(i, p)
      BY <2>1, <3>2 DEF Mirrored, Credits
    <3>4. p = rsp'[i].pos
      BY <3>1
    <3> HIDE DEF p
    <3>5. \/ p \in ToSet(held')
          \/ \E j \in DOMAIN rsp' : j > i /\ rsp'[j].type = "evicted" /\ rsp'[j].pos = p
      BY <1>2, <3>1, <3>3
    <3> QED BY <3>4, <3>5 DEF Supported
  <2>2. CASE i \notin DOMAIN rsp
    <3> DEFINE m == rsp'[i]
    <3>1. m \in M
      BY <1>1, <2>2
    <3>2. m.type \in {"installed", "confirmed"} \/ (m.type = "predicted" /\ m.turn \in {last, mine})
      BY <1>4 DEF Vouched
    <3> HIDE DEF m
    <3>3. m.pos \in ToSet(held')
      <4>1. CASE m.type \in {"installed", "confirmed"}
        BY <3>1, <4>1 DEF Truthful
      <4>2. CASE m.type = "predicted" /\ m.turn \in {last, mine}
        <5>1. job.fresh /\ m.turn = job.turn /\ Ready(m.pos) /\ ToSet(held') = ToSet(held)
          BY <3>1, <4>2 DEF Truthful
        <5>2. m.pos \in ToSet(held)
          BY <4>2, <5>1 DEF Ready, Mirrored, Waits
        <5> QED BY <5>1, <5>2
      <4> QED BY <3>2, <4>1, <4>2
    <3> QED BY <3>3 DEF Supported, m
  <2> QED BY <2>1, <2>2
<1> QED BY <1>3, <1>4 DEF Credits

LEMMA DoWaits ==
  ASSUME DriverOK, WiresOK, WorkerOK, Owed, Calm, Waits, NEW m \in Asking, Do(m), m.type # "reset",
         UNCHANGED <<last, mine>>,
         m.type = "install" => m.turn = last /\ pc \in {"install", "evaluate"}
  PROVE  Waits' /\ resetting' = resetting
<1>0. /\ StoreOK /\ CommitOK /\ NoTurn \notin Turns
      /\ job.fresh => job.turn \in Turns
      /\ Len(queue) \in Nat /\ DOMAIN queue = 1 .. Len(queue)
  BY GoAssumption, Indices DEF WorkerOK, CommitOK, StoreOK
<1>1. CASE DoInstall(m)
  <2>1. CASE m.turn # NoTurn
    <3>1. ~job'.fresh
      BY <1>0, <1>1, <2>1, BumpLaw DEF DoInstall, Take
    <3> QED BY <1>1, <3>1 DEF Waits, DoInstall
  <2>2. CASE m.turn = NoTurn
    <3>1. job' = job /\ last = NoTurn /\ mine = NoTurn
      BY <1>1, <2>2 DEF DoInstall, commits, DriverOK
    <3>2. job.fresh => job.turn \notin {last, mine}
      BY <1>0, <3>1
    <3> QED BY <1>1, <3>1, <3>2 DEF Waits, DoInstall
  <2> QED BY <2>1, <2>2
<1>2. CASE DoEvaluate(m)
  <2>1. job' = job /\ resetting' = resetting
    BY <1>2 DEF DoEvaluate, commits
  <2>2. CASE m.pos \notin ToSet(held)
    <3>1. queue' = queue /\ held' = held
      BY <1>2, <2>2 DEF DoEvaluate, store
    <3> QED BY <2>1, <3>1 DEF Waits
  <2>3. CASE m.pos \in ToSet(held)
    <3> DEFINE nobody == {}  p == m.pos  b == TRUE
    <3>1. p \in ToSet(held) /\ b \in BOOLEAN /\ Want(p, b, nobody) /\ nobody \in SUBSET Turns
      BY <1>2, <2>3 DEF DoEvaluate
    <3> HIDE DEF nobody, p, b
    <3>2. ToSet(held') = ToSet(held)
      BY <1>0, <3>1, WantLaw
    <3>3. CASE p \in evald
      <4>1. queue' = queue
        BY <1>0, <3>1, <3>3, WantLaw
      <4> QED BY <2>1, <3>2, <4>1 DEF Waits
    <3>4. CASE p \notin evald
      <4>1. PICK k \in DOMAIN queue' :
              /\ queue'[k].pos = p
              /\ queue'[k].jobs = (IF k \in DOMAIN queue THEN queue[k].jobs ELSE {}) \cup nobody
              /\ \A i \in DOMAIN queue' : i # k => i \in DOMAIN queue /\ queue'[i] = queue[i]
        BY <1>0, <3>1, <3>4, WantJobs
      <4> QED BY <2>1, <3>1, <3>2, <4>1 DEF Waits
    <3> QED BY <3>3, <3>4
  <2> QED BY <2>2, <2>3
<1>3. CASE DoCommit(m)
  <2>1. job'.stage \in {"begin", "source", "none"} /\ resetting' = resetting
    BY <1>3 DEF DoCommit, NoJob
  <2> QED BY <2>1 DEF Waits
<1>4. CASE DoConfirm(m)
  <2>1. ~job'.fresh /\ resetting' = resetting
    BY <1>0, <1>4, BumpLaw DEF DoConfirm, Take
  <2> QED BY <2>1 DEF Waits
<1> QED BY <1>1, <1>2, <1>3, <1>4 DEF Do, DoReset

LEMMA HandleFaithful ==
  ASSUME DriverOK, WiresOK, WorkerOK, InOrder, Owed, Faithful, Handle
  PROVE  Faithful'
<1> SUFFICES ASSUME resetsLeft' = Resets PROVE Calm' /\ (failed' \/ Mirrored')
  BY DEF Faithful
<1>1. /\ resetsLeft = Resets /\ UNCHANGED <<known, pushed, last, mine, asked, failed, pc>>
  BY HandleCases DEF driver, client, faults
<1>2. Calm /\ (failed \/ Mirrored) /\ asked = 0 /\ late = <<>> /\ ~resetting
  BY <1>1 DEF Faithful, Calm
<1>3. PICK m : Taking(m) /\ Do(m)
  BY <1>2, HandleCases DEF Holding
<1>4. req # <<>> /\ m = Head(req) /\ req' = Tail(req) /\ late' = late
  BY <1>2, <1>3 DEF Taking
<1>5. /\ m = req[1] /\ 1 \in DOMAIN req /\ m \in Asking /\ DOMAIN req' = 1 .. Len(req) - 1
      /\ DOMAIN req = 1 .. Len(req) /\ Len(req) \in Nat
      /\ \A i \in 1 .. Len(req) - 1 : req'[i] = req[i + 1]
  BY <1>4, Taken, Indices DEF WiresOK
<1>6. m.type # "reset"
  BY <1>2, <1>5, NoWipe DEF WorkerOK
<1>7. m.type = "install" => m.turn = last /\ pc \in {"install", "evaluate"}
  BY <1>2, <1>5, NoPlan DEF WorkerOK, Calm
<1>8. \A i \in DOMAIN req' : req'[i].type = "install" => req'[i].turn = last
  <2>1. \A i \in 1 .. Len(req) - 1 : i + 1 \in DOMAIN req
    BY <1>5
  <2> QED BY <1>2, <1>5, <2>1 DEF Calm
<1>9. resetting' = resetting
  BY <1>3, <1>6 DEF Do, DoInstall, DoEvaluate, DoCommit, DoConfirm, DoReset
<1>10. Calm'
  BY <1>1, <1>2, <1>4, <1>8, <1>9 DEF Calm
<1>11. ASSUME Mirrored PROVE Mirrored'
  <2>1. /\ m.type = "commit" => Pending(m.turn)
        /\ m.type \in {"commit", "confirm"} => ~Pending(m.turn)'
    <3>1. m.type = "commit" => Pending(m.turn)
      BY <1>3, TakingOrder
    <3>2. \A t : Pending(t)' => Pending(t) /\ (m.type \in {"commit", "confirm"} => t # m.turn)
      BY <1>3, TakingOrder
    <3> QED BY <3>1, <3>2
  <2>2. Keeps /\ \E M : Says(M) /\ Truthful(M)
    BY <1>2, <1>3, <1>5, <2>1, DoSays
  <2>3. PICK M : Says(M) /\ Truthful(M)
    BY <2>2
  <2>4. Credits'
    BY <1>1, <1>11, <2>2, <2>3, SaysCredits
  <2>5. Waits'
    BY <1>1, <1>2, <1>3, <1>5, <1>6, <1>7, <1>11, DoWaits DEF Mirrored
  <2> QED BY <2>4, <2>5 DEF Mirrored
<1> QED BY <1>1, <1>2, <1>10, <1>11

LEMMA EngineWaits ==
  ASSUME WiresOK, WorkerOK, Owns, Waits, EngineStep, ~EngineReset, UNCHANGED <<last, mine>>
  PROVE  Waits'
<1>0. /\ StoreOK /\ CommitOK
      /\ job.turn \in Turns \cup {NoTurn} /\ NoTurn \notin Turns
      /\ Len(queue) \in Nat /\ DOMAIN queue = 1 .. Len(queue)
  BY GoAssumption, Indices DEF WorkerOK, CommitOK, StoreOK
<1>1. ASSUME queue # <<>>, queue' = Tail(queue), held' = held, job' = job
      PROVE  Waits'
  <2>1. /\ DOMAIN queue' = 1 .. Len(queue) - 1
        /\ \A i \in 1 .. Len(queue) - 1 : queue'[i] = queue[i + 1]
    BY <1>0, <1>1, Taken DEF StoreOK
  <2>2. \A i \in DOMAIN queue' : i + 1 \in DOMAIN queue /\ queue'[i] = queue[i + 1]
    BY <1>0, <2>1
  <2> QED BY <1>1, <2>2 DEF Waits
<1>2. ASSUME job'.stage # "engine" \/ ~job'.fresh PROVE Waits'
  BY <1>2 DEF Waits
<1>3. NoJob.stage = "none"
  BY DEF NoJob
<1>4. CASE EngineDone
  <2>1. /\ queue # <<>> /\ queue' = Tail(queue) /\ held' = held
        /\ job' = IF job.turn \notin Head(queue).jobs THEN job
                  ELSE IF job.stage = "source" THEN [job EXCEPT !.stage = "begin"]
                  ELSE NextTask(Head(queue).pos)
    BY <1>4 DEF EngineDone
  <2>2. job' = job \/ job'.stage # "engine"
    BY <1>0, <1>3, <2>1 DEF NextTask, CommitOK
  <2> QED BY <1>1, <1>2, <2>1, <2>2
<1>5. CASE EngineFails
  BY <1>1, <1>2, <1>3, <1>5 DEF EngineFails
<1>6. CASE JobBegins
  <2>1. job'.stage # "engine"
    BY <1>0, <1>3, <1>6 DEF JobBegins, CommitOK
  <2> QED BY <1>2, <2>1
<1>7. ASSUME NEW p \in Positions, JobTask(p) PROVE Waits'
  <2>1. job.fresh /\ job.turn \in Turns /\ job.stage = "tasks"
    BY <1>0, <1>7 DEF JobTask, CommitOK
  <2>2. CASE job'.stage # "engine"
    BY <1>2, <2>2
  <2>3. CASE job'.stage = "engine"
    <3> DEFINE J == {job.turn}  b == FALSE
    <3>1. /\ p \in ToSet(held) /\ p \notin evald /\ J \in SUBSET Turns /\ b \in BOOLEAN /\ Want(p, b, J)
          /\ job' = [job EXCEPT !.stage = "engine"]
      BY <1>0, <1>3, <1>7, <2>1, <2>3 DEF JobTask, NextTask, CommitOK
    <3>2. \A i \in DOMAIN queue : job.turn \notin queue[i].jobs
      BY <2>1 DEF Owns
    <3> HIDE DEF J, b
    <3>3. PICK k \in DOMAIN queue' :
            /\ queue'[k].pos = p
            /\ queue'[k].jobs = (IF k \in DOMAIN queue THEN queue[k].jobs ELSE {}) \cup J
            /\ \A i \in DOMAIN queue' : i # k => i \in DOMAIN queue /\ queue'[i] = queue[i]
      BY <1>0, <3>1, WantJobs
    <3>4. ToSet(held') = ToSet(held) /\ job'.turn = job.turn
      BY <1>0, <3>1, WantLaw DEF CommitOK
    <3>5. \A i \in DOMAIN queue' : job'.turn \in queue'[i].jobs => queue'[i].pos \in ToSet(held')
      BY <3>1, <3>2, <3>3, <3>4
    <3> QED BY <3>5 DEF Waits
  <2> QED BY <2>2, <2>3
<1>8. CASE JobEnds
  BY <1>2, <1>3, <1>8 DEF JobEnds
<1>9. CASE Expire
  <2>1. UNCHANGED <<held, queue>> /\ (job' = job \/ job' = [job EXCEPT !.fresh = FALSE])
    BY <1>9 DEF Expire, store
  <2>2. job' = job \/ ~job'.fresh
    BY <1>0, <2>1 DEF CommitOK
  <2> QED BY <1>2, <2>1, <2>2 DEF Waits
<1> QED BY <1>4, <1>5, <1>6, <1>7, <1>8, <1>9 DEF EngineStep

LEMMA EngineFaithful ==
  ASSUME WiresOK, WorkerOK, Judging, Owns, Owed, Faithful, EngineStep
  PROVE  Faithful'
<1> SUFFICES ASSUME resetsLeft' = Resets PROVE Calm' /\ (failed' \/ Mirrored')
  BY DEF Faithful
<1>1. /\ resetsLeft = Resets /\ UNCHANGED <<known, pushed, last, mine, asked, failed, pc, req, late>>
  BY EngineTyped DEF driver, client, faults
<1>2. Calm /\ (failed \/ Mirrored) /\ asked = 0 /\ ~resetting
  BY <1>1 DEF Faithful, Calm
<1>3. ~EngineReset
  <2>1. \A i \in DOMAIN queue : queue[i].pos # NoPos
    BY <1>2, NoWipe DEF WorkerOK
  <2>2. ASSUME EngineReset PROVE FALSE
    <3>1. queue # <<>> /\ Head(queue).pos = NoPos
      BY <2>2 DEF EngineReset
    <3> QED BY <2>1, <3>1, Taken DEF WorkerOK, StoreOK
  <2> QED BY <2>2
<1>4. resetting' = resetting
  BY <1>3 DEF EngineStep, EngineDone, EngineFails, JobBegins, JobTask, JobEnds, Expire
<1>5. Calm'
  BY <1>1, <1>2, <1>4 DEF Calm
<1>6. ASSUME Mirrored PROVE Mirrored'
  <2>1. \A t : Pending(t)' => t \in Turns /\ t # job.turn
    <3>1. \A t : Pending(t)' => Pending(t)
      BY <1>1 DEF Pending
    <3> QED BY <3>1, PendingTurn DEF Judging
  <2>2. Keeps /\ \E M : Says(M) /\ Truthful(M)
    BY <1>3, <2>1, EngineSays
  <2>3. PICK M : Says(M) /\ Truthful(M)
    BY <2>2
  <2>4. Credits'
    BY <1>1, <1>6, <2>2, <2>3, SaysCredits
  <2>5. Waits'
    BY <1>1, <1>3, <1>6, EngineWaits DEF Mirrored
  <2> QED BY <2>4, <2>5 DEF Mirrored
<1> QED BY <1>1, <1>2, <1>5, <1>6

-----------------------------------------------------------------------------
(* The invariant *)

Order == InOrder /\ VerdictIsLast /\ Judging /\ Owns

Inv == DriverOK /\ WiresOK /\ WorkerOK /\ Owed /\ Order /\ Faithful

LEMMA Starts == Init => Inv
<1> SUFFICES ASSUME Init PROVE Inv
  OBVIOUS
<1>1. /\ req = <<>> /\ rsp = <<>> /\ late = <<>> /\ held = <<>> /\ queue = <<>> /\ evald = {}
      /\ active = NoCommit /\ job = NoJob /\ resetting = FALSE
      /\ pc = "idle" /\ mine = NoTurn /\ last = NoTurn /\ asked = 0 /\ failed = FALSE
      /\ known = {} /\ pushed = {} /\ pred = {}
  BY DEF Init, WorkerInit
<1>2. DriverOK
  <2>1. /\ view \in Positions /\ parent = NoTurn /\ stale = FALSE /\ gone = FALSE
        /\ resetsLeft = Resets /\ crashesLeft = Crashes
    BY DEF Init
  <2>2. resetsLeft \in 0 .. Resets /\ crashesLeft \in 0 .. Crashes
    BY <2>1, GoAssumption
  <2> QED BY <1>1, <2>1, <2>2 DEF DriverOK
<1>3. /\ WiresOK
      /\ DOMAIN req = {} /\ DOMAIN rsp = {} /\ DOMAIN late = {} /\ DOMAIN queue = {}
  BY <1>1, EmptyLaw DEF WiresOK
<1>4. WorkerOK
  <2>1. StoreOK
    BY <1>1, <1>3, EmptyLaw, GoAssumption DEF StoreOK
  <2>2. CommitOK
    BY <1>1 DEF CommitOK, NoJob, Stages
  <2>3. ResetLast
    BY <1>1, <1>3 DEF ResetLast
  <2> QED BY <2>1, <2>2, <2>3 DEF WorkerOK
<1>5. Owed
  BY <1>1, CountEmpty DEF Owed
<1>6. Order
  BY <1>3, <1>1 DEF Order, InOrder, VerdictIsLast, Judging, Pending, Owns
<1>7. Faithful
  <2>1. Believed = {}
    BY <1>1 DEF Believed
  <2>2. Credits /\ Waits
    BY <1>3, <2>1 DEF Credits, Waits
  <2>3. Calm
    BY <1>1, <1>3 DEF Calm
  <2> QED BY <2>2, <2>3 DEF Faithful, Mirrored
<1> QED BY <1>2, <1>3, <1>4, <1>5, <1>6, <1>7 DEF Inv

LEMMA Stays ==
  ASSUME Inv, [Next]_vars
  PROVE  Inv'
<1>0. /\ DriverOK /\ WiresOK /\ WorkerOK /\ StoreOK /\ CommitOK /\ Owed
      /\ InOrder /\ VerdictIsLast /\ Judging /\ Owns /\ Faithful
  BY DEF Inv, Order, WorkerOK
<1>1. CASE DriverStep
  <2>1. DriverOK' /\ Same /\ (req' = req \/ \E m \in Asking : req' = Append(req, m))
    BY <1>0, <1>1, DriverTyped
  <2>2. WiresOK'
    <3>1. req' \in Seq(Asking)
      <4>1. CASE req' = req
        BY <1>0, <4>1 DEF WiresOK
      <4>2. ASSUME NEW m \in Asking, req' = Append(req, m) PROVE req' \in Seq(Asking)
        BY <1>0, <4>2, AppendProperties DEF WiresOK
      <4> QED BY <2>1, <4>1, <4>2
    <3> QED BY <1>0, <2>1, <3>1 DEF WiresOK, Same, worker
  <2>3. WorkerOK'
    BY <1>0, <2>1 DEF Same, worker, store, commits, WorkerOK, StoreOK, CommitOK, ResetLast
  <2>4. Owed' /\ Owns' /\ Faithful' /\ InOrder' /\ VerdictIsLast' /\ Judging'
    BY <1>0, <1>1, DriverOwed, DriverOrder, DriverJudging, DriverOwns, DriverFaithful
  <2> QED BY <2>1, <2>2, <2>3, <2>4 DEF Inv, Order
<1>2. CASE Replaced
  <2>1. DriverOK' /\ Anew
    BY <1>0, <1>2, ReplacedTyped
  <2>2. WiresOK' /\ WorkerOK' /\ InOrder' /\ VerdictIsLast' /\ Judging' /\ Owns'
    BY <2>1, AnewTyped, AnewOrder, AnewJudging, AnewOwns
  <2>3. Owed' /\ Faithful'
    BY <1>0, <1>2, ReplacedOwed, ReplacedFaithful
  <2> QED BY <2>1, <2>2, <2>3 DEF Inv, Order
<1>3. CASE Received
  <2>1. Got /\ rsp # <<>>
    BY <1>3 DEF Received, Got
  <2>2. DriverOK' /\ rsp' \in Seq(Telling)
    BY <1>0, <1>3, <2>1, Awaited, ReceivedTyped
  <2>3. UNCHANGED <<req, late, held, evald, queue, active, job, resetting>>
    BY <2>1 DEF Got, worker, store, commits
  <2>4. WiresOK' /\ WorkerOK' /\ InOrder' /\ Owns'
    BY <1>0, <2>2, <2>3 DEF WiresOK, WorkerOK, StoreOK, CommitOK, ResetLast, InOrder, Owns, Pending
  <2>5. Owed' /\ VerdictIsLast' /\ Judging' /\ Faithful'
    BY <1>0, <1>3, <2>1, ReceivedOwed, ReceivedJudging, ReceivedFaithful
  <2> QED BY <2>2, <2>4, <2>5 DEF Inv, Order
<1>4. CASE Handle
  <2>1. UNCHANGED <<driver, client, faults>>
    BY <1>4, HandleCases
  <2>2. DriverOK'
    BY <1>0, <2>1 DEF driver, client, faults, DriverOK
  <2>3. WiresOK' /\ WorkerOK'
    <3>1. CASE Holding
      <4>1. rsp' = rsp /\ UNCHANGED <<store, commits, resetting>>
        BY <3>1 DEF Holding
      <4> QED BY <1>0, <3>1, <4>1, HoldingTyped
              DEF WiresOK, WorkerOK, StoreOK, CommitOK, ResetLast, store, commits
    <3>2. ASSUME NEW m, Taking(m), Do(m) PROVE WiresOK' /\ WorkerOK'
      <4>1. m \in Asking /\ req' \in Seq(Asking) /\ late' \in Seq(Waiting) /\ (resetting => m.type = "reset")
        BY <1>0, <3>2, TakingTyped
      <4>2. rsp' \in Seq(Telling) /\ WorkerOK'
        BY <1>0, <3>2, <4>1, DoTyped
      <4> QED BY <4>1, <4>2 DEF WiresOK
    <3> QED BY <1>4, <3>1, <3>2, HandleCases
  <2>4. Owed' /\ InOrder' /\ VerdictIsLast' /\ Judging' /\ Owns' /\ Faithful'
    BY <1>0, <1>4, HandleOwed, HandleJudging, HandleOwns, HandleFaithful
  <2> QED BY <2>2, <2>3, <2>4 DEF Inv, Order
<1>5. CASE EngineStep
  <2>1. UNCHANGED <<driver, client, req, late, faults>> /\ rsp' \in Seq(Telling) /\ WorkerOK'
    BY <1>0, <1>5, EngineTyped
  <2>2. DriverOK' /\ WiresOK'
    BY <1>0, <2>1 DEF driver, client, faults, DriverOK, WiresOK
  <2>3. Owed' /\ InOrder' /\ VerdictIsLast' /\ Judging' /\ Owns' /\ Faithful'
    BY <1>0, <1>5, EngineOwed, EngineJudging, EngineOwns, EngineFaithful
  <2> QED BY <2>1, <2>2, <2>3 DEF Inv, Order
<1>6. CASE UNCHANGED vars
  <2>1. UNCHANGED <<driver, client, req, rsp, worker, faults>>
    BY <1>6 DEF vars
  <2>2. DriverOK' /\ WiresOK' /\ WorkerOK'
    BY <1>0, <2>1 DEF driver, client, faults, worker, store, commits,
                      DriverOK, WiresOK, WorkerOK, StoreOK, CommitOK, ResetLast
  <2>3. Owed'
    BY <1>0, <2>1 DEF driver, client, worker, store, Owed
  <2>4. Order'
    BY <1>0, <2>1 DEF worker, store, commits, Order, InOrder, VerdictIsLast, Judging, Owns, Pending
  <2>5. Faithful'
    BY <1>0, <2>1 DEF driver, client, faults, worker, store, commits, Faithful, Calm, Mirrored, Credits,
                      Waits, Believed, Supported, Vouched
  <2> QED BY <2>2, <2>3, <2>4, <2>5 DEF Inv
<1> QED
  <2>1. Next => DriverStep \/ Replaced \/ Receive \/ Handle \/ EngineStep
    BY DEF Next, DriverStep, Replaced, EngineStep, Engine
  <2>2. Receive => Received \/ Replaced
    BY ReceiveCases
  <2> QED BY <1>1, <1>2, <1>3, <1>4, <1>5, <1>6, <2>1, <2>2

LEMMA Invariance == Spec => []Inv
<1>1. Init => Inv
  BY Starts
<1>2. Inv /\ [Next]_vars => Inv'
  BY Stays
<1> QED BY <1>1, <1>2, PTL DEF Spec

-----------------------------------------------------------------------------
\* The turn, its client and the worker only ever hold what they are meant to: the
\* cache keeps no more than MAX_POSITIONS, what is evaluated is in it, and every
\* message on either channel is one the other side knows.
THEOREM TypeCorrect == Spec => []TypeOK
<1>1. Inv => TypeOK
  <2> SUFFICES ASSUME Inv PROVE TypeOK
    OBVIOUS
  <2>1. DriverOK /\ WiresOK /\ StoreOK /\ resetting \in BOOLEAN
    BY DEF Inv, WorkerOK, ResetLast
  <2>2. {req, rsp, late} \subseteq Seq(Message)
    <3>1. Asking \subseteq Message /\ Waiting \subseteq Message /\ Telling \subseteq Message
      BY DEF Asking, Waiting, Telling, OfType
    <3> QED BY <2>1, <3>1 DEF WiresOK
  <2> QED BY <2>1, <2>2 DEF DriverOK, StoreOK, TypeOK
<1> QED BY <1>1, Invariance, PTL

\* What the turn and its resets await is owed exactly once, and no prediction of
\* a turn follows the verdict on it, in any order of the two channels.
THEOREM ChannelIsSound == Spec => []ChannelSound
<1>1. Inv => ChannelSound
  BY OwedSays DEF Inv, Order, ChannelSound, WorkerOK
<1> QED BY <1>1, Invariance, PTL

\* Until a prestige the worker holds what the client would not send it again, or
\* has told that it does not.
THEOREM MirrorIsSound == Spec => []MirrorSound
<1>1. Inv => MirrorSound
  BY MirrorFollows DEF Inv
<1> QED BY <1>1, Invariance, PTL
=============================================================================
