---------------------------- MODULE OptimizerProofs ----------------------------
(***************************************************************************)
(* Proofs about the optimizer of one rank, for any parameters, ranks and     *)
(* sub-groups, any bucket and any number of iterations: the layout, the      *)
(* sub-groups, the loop of the host thread with the Adam worker, the types   *)
(* of the streams and buffers, and, when the reduce-scatters wait for the    *)
(* reduce stream, where each gradient is.  The last section is about the     *)
(* abstract delayed update.                                                  *)
(***************************************************************************)
EXTENDS GradReduce, FiniteSetTheorems, SequenceTheorems, WellFoundedInduction, TLAPS

-----------------------------------------------------------------------------
(* Induction over the naturals, as a principle about sets of numbers *)

LessThan == {ss \in Nat \X Nat : ss[1] < ss[2]}

\* Every set of naturals has a smallest element.
LEMMA Least ==
  ASSUME NEW T \in SUBSET Nat, T # {}
  PROVE  \E n \in T : \A k \in T : n <= k
<1>1. IsWellFoundedOn(LessThan, Nat)
  <2>1. IsWellFoundedOn(OpToRel(<, Nat), Nat)
    BY NatLessThanWellFounded
  <2>2. OpToRel(<, Nat) = LessThan
    BY Zenon DEF OpToRel, LessThan
  <2> QED BY <2>1, <2>2, Zenon
<1>2. \E x \in T : \A y \in T : ~ (<<y, x>> \in LessThan)
  BY <1>1, WFMin
<1>3. PICK n \in T : \A y \in T : ~ (<<y, n>> \in LessThan)
  BY <1>2
<1>4. ASSUME NEW k \in T PROVE n <= k
  <2>1. k \in Nat /\ n \in Nat
    OBVIOUS
  <2>2. <<k, n>> \notin LessThan
    BY <1>3
  <2>3. ~ (k < n)
    BY <2>1, <2>2 DEF LessThan
  <2> QED BY <2>1, <2>3
<1> QED BY <1>4

\* A set of numbers that holds 0, and with n also n + 1, holds them all.
LEMMA Induction ==
  ASSUME NEW T, 0 \in T, \A n \in Nat : n \in T => n + 1 \in T
  PROVE  \A n \in Nat : n \in T
<1> SUFFICES ASSUME Nat \ T # {} PROVE FALSE
  OBVIOUS
<1>1. PICK n \in Nat \ T : \A k \in Nat \ T : n <= k
  BY Least
<1>2. n # 0 /\ n - 1 \in Nat
  BY <1>1
<1>3. n - 1 \in T
  BY <1>1, <1>2
<1> QED BY <1>1, <1>2, <1>3

-----------------------------------------------------------------------------
(* A set of numbers in ascending order *)

Below(S, x) == {y \in S : y < x}

\* Of two elements the larger has more elements below it, by one at least.
LEMMA BelowNext ==
  ASSUME NEW S, S \subseteq Nat, IsFiniteSet(S), NEW x \in S, NEW y \in S, x < y
  PROVE  /\ Cardinality(Below(S, x)) \in Nat /\ Cardinality(Below(S, y)) \in Nat
         /\ Cardinality(Below(S, x)) + 1 <= Cardinality(Below(S, y))
         /\ Cardinality(Below(S, y)) + 1 <= Cardinality(S)
<1>1. IsFiniteSet(Below(S, x)) /\ IsFiniteSet(Below(S, y))
  BY FS_Subset DEF Below
<1>2. Below(S, x) \cup {x} \subseteq Below(S, y)
  <2> SUFFICES ASSUME NEW z \in Below(S, x) \cup {x} PROVE z \in S /\ z < y
    BY DEF Below
  <2>1. x \in Nat /\ y \in Nat /\ z \in S /\ z \in Nat /\ (z < x \/ z = x)
    BY DEF Below
  <2> QED BY <2>1
<1>3. Below(S, y) \cup {y} \subseteq S
  BY DEF Below
<1>4. x \notin Below(S, x) /\ y \notin Below(S, y)
  BY DEF Below
<1>5. /\ IsFiniteSet(Below(S, x) \cup {x}) /\ IsFiniteSet(Below(S, y) \cup {y})
      /\ Cardinality(Below(S, x) \cup {x}) = Cardinality(Below(S, x)) + 1
      /\ Cardinality(Below(S, y) \cup {y}) = Cardinality(Below(S, y)) + 1
  BY <1>1, <1>4, FS_AddElement
<1>6. /\ Cardinality(Below(S, x) \cup {x}) <= Cardinality(Below(S, y))
      /\ Cardinality(Below(S, y) \cup {y}) <= Cardinality(S)
  BY <1>1, <1>2, <1>3, <1>5, FS_Subset
<1>7. Cardinality(Below(S, x)) \in Nat /\ Cardinality(Below(S, y)) \in Nat
  BY <1>1, FS_CardinalityType
<1> QED BY <1>5, <1>6, <1>7

\* The numbering of a finite set of naturals by size is one to one.
LEMMA NthExists ==
  ASSUME NEW S, S \subseteq Nat, IsFiniteSet(S), NEW n \in 1 .. Cardinality(S)
  PROVE  \E x \in S : Cardinality(Below(S, x)) = n - 1
<1> DEFINE T == {k \in Nat : k < Cardinality(S) => \E x \in S : Cardinality(Below(S, x)) = k}
<1>0. Cardinality(S) \in Nat
  BY FS_CardinalityType
<1>1. 0 \in T
  <2> SUFFICES ASSUME 0 < Cardinality(S) PROVE \E x \in S : Cardinality(Below(S, x)) = 0
    OBVIOUS
  <2>1. S # {}
    BY FS_EmptySet
  <2>2. PICK x \in S : \A y \in S : x <= y
    BY <2>1, Least
  <2>3. Below(S, x) = {}
    <3> SUFFICES ASSUME NEW y \in S, y < x PROVE FALSE
      BY DEF Below
    <3>1. x \in Nat /\ y \in Nat /\ x <= y
      BY <2>2
    <3> QED BY <3>1
  <2> QED BY <2>3, FS_EmptySet
<1>2. ASSUME NEW k \in Nat, k \in T PROVE k + 1 \in T
  <2> SUFFICES ASSUME k + 1 < Cardinality(S) PROVE \E x \in S : Cardinality(Below(S, x)) = k + 1
    OBVIOUS
  <2>1. k < Cardinality(S)
    BY <1>0
  <2>2. PICK x \in S : Cardinality(Below(S, x)) = k
    BY <1>2, <2>1
  <2>3. IsFiniteSet(Below(S, x)) /\ x \notin Below(S, x)
    BY FS_Subset DEF Below
  <2>4. IsFiniteSet(Below(S, x) \cup {x}) /\ Cardinality(Below(S, x) \cup {x}) = k + 1
    BY <2>2, <2>3, FS_AddElement
  <2> DEFINE R == {y \in S : x < y}
  <2>5. R # {}
    <3> SUFFICES ASSUME R = {} PROVE FALSE
      OBVIOUS
    <3>1. ASSUME NEW z \in S PROVE z \in Below(S, x) \cup {x}
      <4>1. x \in Nat /\ z \in Nat /\ ~ (x < z)
        OBVIOUS
      <4>2. z < x \/ z = x
        BY <4>1
      <4> QED BY <4>2 DEF Below
    <3>2. S = Below(S, x) \cup {x}
      BY <3>1 DEF Below
    <3> QED BY <2>4, <3>2, <1>0
  <2>6. PICK y \in R : \A z \in R : y <= z
    BY <2>5, Least
  <2>7. Below(S, y) = Below(S, x) \cup {x}
    <3>1. ASSUME NEW z \in S PROVE z < y <=> z < x \/ z = x
      BY <2>6
    <3> QED BY <2>6, <3>1 DEF Below
  <2> QED BY <2>4, <2>6, <2>7
<1>3. \A k \in Nat : k \in T
  <2> HIDE DEF T
  <2> QED BY <1>1, <1>2, Induction
<1> QED BY <1>0, <1>3

Nth(S, n) == CHOOSE x \in S : Cardinality(Below(S, x)) = n - 1

\* The n-th element is one with n - 1 below it; two of them differ.
LEMMA NthFacts ==
  ASSUME NEW S, S \subseteq Nat, IsFiniteSet(S)
  PROVE  /\ Cardinality(S) \in Nat
         /\ \A n \in 1 .. Cardinality(S) : Nth(S, n) \in S
         /\ \A n, k \in 1 .. Cardinality(S) : n # k => Nth(S, n) # Nth(S, k)
         /\ \A x \in S : \E n \in 1 .. Cardinality(S) : Nth(S, n) = x
<1>0. Cardinality(S) \in Nat
  BY FS_CardinalityType
<1>1. ASSUME NEW n \in 1 .. Cardinality(S)
      PROVE  Nth(S, n) \in S /\ Cardinality(Below(S, Nth(S, n))) = n - 1
  <2>1. \E x \in S : Cardinality({y \in S : y < x}) = n - 1
    BY NthExists DEF Below
  <2> QED BY <2>1 DEF Nth, Below
<1>2. ASSUME NEW n \in 1 .. Cardinality(S), NEW k \in 1 .. Cardinality(S), n # k
      PROVE  Nth(S, n) # Nth(S, k)
  <2>1. Cardinality(Below(S, Nth(S, n))) = n - 1 /\ Cardinality(Below(S, Nth(S, k))) = k - 1
    BY <1>1
  <2> QED BY <1>2, <2>1
<1>3. ASSUME NEW x \in S PROVE \E n \in 1 .. Cardinality(S) : Nth(S, n) = x
  <2>1. IsFiniteSet(Below(S, x)) /\ x \notin Below(S, x) /\ Below(S, x) \cup {x} \subseteq S
    BY FS_Subset DEF Below
  <2>2. Cardinality(Below(S, x)) \in Nat /\ Cardinality(Below(S, x)) + 1 <= Cardinality(S)
    BY <2>1, FS_CardinalityType, FS_AddElement, FS_Subset
  <2> DEFINE n == Cardinality(Below(S, x)) + 1
  <2>3. n \in 1 .. Cardinality(S)
    BY <1>0, <2>2
  <2>4. Nth(S, n) \in S /\ Cardinality(Below(S, Nth(S, n))) = n - 1
    BY <1>1, <2>3
  <2>5. Cardinality(Below(S, Nth(S, n))) = Cardinality(Below(S, x))
    BY <2>2, <2>4
  <2> DEFINE z == Nth(S, n)
  <2>6. z \in S /\ Cardinality(Below(S, z)) = Cardinality(Below(S, x))
    BY <2>4, <2>5
  <2> HIDE DEF z
  <2>7. ~ (z < x)
    <3> SUFFICES ASSUME z < x PROVE FALSE
      OBVIOUS
    <3>1. Cardinality(Below(S, z)) + 1 <= Cardinality(Below(S, x))
      BY <2>6, BelowNext
    <3> QED BY <2>2, <2>6, <3>1
  <2>9. ~ (x < z)
    <3> SUFFICES ASSUME x < z PROVE FALSE
      OBVIOUS
    <3>1. Cardinality(Below(S, x)) + 1 <= Cardinality(Below(S, z))
      BY <2>6, BelowNext
    <3> QED BY <2>2, <2>6, <3>1
  <2>10. x \in Nat /\ z \in Nat
    BY <2>6
  <2>8. z = x
    BY <2>7, <2>9, <2>10
  <2> QED BY <2>3, <2>8 DEF z
<1> QED BY <1>0, <1>1, <1>2, <1>3
\* They come in order.
LEMMA NthSorted ==
  ASSUME NEW S, S \subseteq Nat, IsFiniteSet(S), NEW i \in 1 .. Cardinality(S), NEW j \in 1 .. Cardinality(S), i < j
  PROVE  Nth(S, i) < Nth(S, j)
<1>0. Cardinality(S) \in Nat
  BY FS_CardinalityType
<1>1. ASSUME NEW n \in 1 .. Cardinality(S) PROVE Nth(S, n) \in S /\ Cardinality(Below(S, Nth(S, n))) = n - 1
  <2>1. \E x \in S : Cardinality({y \in S : y < x}) = n - 1
    BY NthExists DEF Below
  <2> QED BY <2>1 DEF Nth, Below
<1> DEFINE x == Nth(S, i)
           y == Nth(S, j)
<1>2. x \in S /\ y \in S /\ Cardinality(Below(S, x)) = i - 1 /\ Cardinality(Below(S, y)) = j - 1
  BY <1>1
<1> HIDE DEF x, y
<1>3. x # y
  BY <1>2
<1>4. ~ (y < x)
  <2> SUFFICES ASSUME y < x PROVE FALSE
    OBVIOUS
  <2>1. Cardinality(Below(S, y)) + 1 <= Cardinality(Below(S, x))
    BY <1>2, BelowNext
  <2> QED BY <1>0, <1>2, <2>1
<1>5. x \in Nat /\ y \in Nat
  BY <1>2
<1> QED BY <1>3, <1>4, <1>5 DEF x, y

-----------------------------------------------------------------------------
(* The concatenation of a sequence of sequences *)

ConcatIs(s, t, S) ==
  /\ s \o t \in Seq(S) /\ Len(s \o t) = Len(s) + Len(t) /\ Len(s) \in Nat /\ Len(t) \in Nat
  /\ \A i \in 1 .. Len(s) : (s \o t)[i] = s[i]
  /\ \A i \in 1 .. Len(t) : (s \o t)[Len(s) + i] = t[i]

\* The elements of a concatenation.
LEMMA ConcatFacts ==
  ASSUME NEW S, NEW s \in Seq(S), NEW t \in Seq(S)
  PROVE  ConcatIs(s, t, S)
<1>1. s \o t \in Seq(S) /\ Len(s \o t) = Len(s) + Len(t) /\ Len(s) \in Nat /\ Len(t) \in Nat
  OBVIOUS
<1>2. ASSUME NEW i \in 1 .. Len(s) PROVE (s \o t)[i] = s[i]
  OBVIOUS
<1>3. ASSUME NEW i \in 1 .. Len(t) PROVE (s \o t)[Len(s) + i] = t[i]
  OBVIOUS
<1> QED BY <1>1, <1>2, <1>3 DEF ConcatIs

\* The partial concatenations.
IsFlatten(f, ss, n) == f = [i \in 1 .. n |-> IF i = 1 THEN ss[i] ELSE f[i - 1] \o ss[i]]

\* The partial concatenations of a sequence of sequences exist.
LEMMA FlattenExists ==
  ASSUME NEW ss, NEW n \in Nat
  PROVE  \E f : IsFlatten(f, ss, n)
<1> DEFINE T == {k \in Nat : \E f : IsFlatten(f, ss, k)}
<1>1. 0 \in T
  <2> DEFINE e == [i \in 1 .. 0 |-> ss[i]]
  <2>1. IsFlatten(e, ss, 0)
    BY DEF IsFlatten
  <2> QED BY <2>1
<1>2. ASSUME NEW k \in Nat, k \in T PROVE k + 1 \in T
  <2>1. PICK f : IsFlatten(f, ss, k)
    BY <1>2
  <2> DEFINE g == [i \in 1 .. k + 1 |-> IF i <= k THEN f[i] ELSE IF i = 1 THEN ss[i] ELSE f[k] \o ss[i]]
  <2>2. ASSUME NEW i \in 1 .. k + 1
        PROVE  g[i] = IF i = 1 THEN ss[i] ELSE g[i - 1] \o ss[i]
    <3>1. CASE i <= k
      <4>1. i \in 1 .. k /\ g[i] = f[i]
        BY <3>1
      <4>2. f[i] = IF i = 1 THEN ss[i] ELSE f[i - 1] \o ss[i]
        BY <2>1, <4>1 DEF IsFlatten
      <4>3. i # 1 => g[i - 1] = f[i - 1]
        BY <4>1
      <4> QED BY <4>1, <4>2, <4>3
    <3>2. CASE ~ (i <= k)
      <4>1. i = k + 1
        BY <3>2
      <4>2. CASE i = 1
        BY <3>2, <4>2
      <4>3. CASE i # 1
        <5>1. k \in 1 .. k + 1 /\ g[k] = f[k] /\ i - 1 = k
          BY <4>1, <4>3
        <5>2. g[i] = f[k] \o ss[i]
          BY <3>2, <4>3
        <5> QED BY <4>3, <5>1, <5>2
      <4> QED BY <4>2, <4>3
    <3> QED BY <3>1, <3>2
  <2>3. g = [i \in 1 .. k + 1 |-> g[i]]
    OBVIOUS
  <2> HIDE DEF g
  <2>4. IsFlatten(g, ss, k + 1)
    BY <2>2, <2>3 DEF IsFlatten
  <2> QED BY <2>4
<1>3. \A k \in Nat : k \in T
  <2> HIDE DEF T
  <2> QED BY <1>1, <1>2, Induction
<1> QED BY <1>3

\* FlattenSeq is the last of the partial concatenations.
LEMMA FlattenFacts ==
  ASSUME NEW S, NEW ss \in Seq(Seq(S)), ss # <<>>
  PROVE  \E f \in [1 .. Len(ss) -> Seq(S)] :
           /\ f[1] = ss[1]
           /\ \A i \in 1 .. Len(ss) : i # 1 => f[i] = f[i - 1] \o ss[i]
           /\ FlattenSeq(ss) = f[Len(ss)]
<1> DEFINE n == Len(ss)
<1>1. n \in Nat /\ n # 0
  OBVIOUS
<1> DEFINE f == CHOOSE g : IsFlatten(g, ss, n)
<1>2. IsFlatten(f, ss, n)
  <2>1. \E g : IsFlatten(g, ss, n)
    BY <1>1, FlattenExists
  <2> QED BY <2>1
<1>3. FlattenSeq(ss) = f[n]
  BY <1>1, Zenon DEF FlattenSeq, IsFlatten
<1> HIDE DEF f
<1>4. /\ f = [i \in 1 .. n |-> f[i]]
      /\ f[1] = ss[1]
      /\ \A i \in 1 .. n : i # 1 => f[i] = f[i - 1] \o ss[i]
  <2>1. f = [i \in 1 .. n |-> IF i = 1 THEN ss[i] ELSE f[i - 1] \o ss[i]]
    BY <1>2 DEF IsFlatten
  <2>2. \A i \in 1 .. n : f[i] = IF i = 1 THEN ss[i] ELSE f[i - 1] \o ss[i]
    BY <2>1
  <2>3. 1 \in 1 .. n
    BY <1>1
  <2>4. f = [i \in 1 .. n |-> f[i]]
    BY <2>1
  <2> QED BY <2>2, <2>3, <2>4
<1> DEFINE T == {k \in Nat : k + 1 <= n => f[k + 1] \in Seq(S)}
<1>5. 0 \in T
  BY <1>1, <1>4
<1>6. ASSUME NEW k \in Nat, k \in T PROVE k + 1 \in T
  <2> SUFFICES ASSUME k + 1 + 1 <= n PROVE f[k + 1 + 1] \in Seq(S)
    OBVIOUS
  <2>1. f[k + 1] \in Seq(S)
    BY <1>1, <1>6
  <2>2. k + 2 \in 1 .. n /\ k + 2 # 1 /\ (k + 2) - 1 = k + 1
    BY <1>1
  <2>3. f[k + 2] = f[(k + 2) - 1] \o ss[k + 2]
    BY <1>4, <2>2
  <2>4. ss[k + 2] \in Seq(S)
    BY <2>2
  <2>5. f[k + 1] \o ss[k + 2] \in Seq(S)
    BY <2>1, <2>4
  <2>6. f[k + 2] \in Seq(S)
    BY <2>2, <2>3, <2>5
  <2>7. k + 1 + 1 = k + 2
    OBVIOUS
  <2> QED BY <2>6, <2>7
<1>7. \A k \in Nat : k \in T
  <2> HIDE DEF T
  <2> QED BY <1>5, <1>6, Induction
<1>8. \A i \in 1 .. n : f[i] \in Seq(S)
  <2> SUFFICES ASSUME NEW i \in 1 .. n PROVE f[i] \in Seq(S)
    OBVIOUS
  <2>1. i - 1 \in Nat /\ (i - 1) + 1 = i /\ i <= n
    BY <1>1
  <2> QED BY <1>7, <2>1
<1>9. f \in [1 .. n -> Seq(S)]
  BY <1>4, <1>8
<1> QED BY <1>3, <1>4, <1>9

\* Concatenating sequences over S gives a sequence over S.
LEMMA FlattenType ==
  ASSUME NEW S, NEW ss \in Seq(Seq(S))
  PROVE  FlattenSeq(ss) \in Seq(S)
<1>1. CASE ss = <<>>
  BY <1>1 DEF FlattenSeq
<1>2. CASE ss # <<>>
  <2>0. \E f \in [1 .. Len(ss) -> Seq(S)] : FlattenSeq(ss) = f[Len(ss)]
    <3> DEFINE P(f) == FlattenSeq(ss) = f[Len(ss)]
    <3>1. PICK f \in [1 .. Len(ss) -> Seq(S)] :
             /\ f[1] = ss[1]
             /\ \A i \in 1 .. Len(ss) : i # 1 => f[i] = f[i - 1] \o ss[i]
             /\ P(f)
      BY <1>2, FlattenFacts, Zenon
    <3> QED BY ONLY <3>1, Zenon
  <2>1. PICK f \in [1 .. Len(ss) -> Seq(S)] : FlattenSeq(ss) = f[Len(ss)]
    BY ONLY <2>0, Zenon
  <2>2. Len(ss) \in 1 .. Len(ss)
    BY <1>2
  <2> QED BY ONLY <2>1, <2>2
<1> QED BY <1>1, <1>2

-----------------------------------------------------------------------------
(* Sums along a sequence of elements that have a weight each *)

IsSums(f, W, ps) ==
  /\ f \in [0 .. Len(ps) -> Nat] /\ f[0] = 0
  /\ \A i \in 1 .. Len(ps) : f[i] = f[i - 1] + W[ps[i]]
Sums(W, ps) == CHOOSE f : IsSums(f, W, ps)
Total(W, ps) == Sums(W, ps)[Len(ps)]
SumsUpTo(f, W, ps, n) == f[0] = 0 /\ \A i \in 1 .. n : f[i] = f[i - 1] + W[ps[i]]
SumsAre(W, ps) ==
  /\ IsSums(Sums(W, ps), W, ps)
  /\ Len(ps) \in Nat /\ Total(W, ps) \in Nat
  /\ \A k \in 0 .. Len(ps) : Sums(W, ps)[k] \in Nat
  /\ \A i \in 1 .. Len(ps) : Sums(W, ps)[i] = Sums(W, ps)[i - 1] + W[ps[i]] /\ W[ps[i]] \in Nat
  /\ Sums(W, ps)[0] = 0

\* The partial sums exist.
LEMMA SumsFacts ==
  ASSUME NEW S, NEW W \in [S -> Nat], NEW ps \in Seq(S)
  PROVE  SumsAre(W, ps)
<1> DEFINE n == Len(ps)
           P(f, k) == f[0] = 0 /\ \A i \in 1 .. k : f[i] = f[i - 1] + W[ps[i]]
           T == {k \in Nat : k <= n => \E f \in [0 .. k -> Nat] : P(f, k)}
<1>0. n \in Nat /\ \A i \in 1 .. n : W[ps[i]] \in Nat
  OBVIOUS
<1>1. 0 \in T
  <2> DEFINE f == [i \in 0 .. 0 |-> 0]
  <2>1. f \in [0 .. 0 -> Nat] /\ f[0] = 0
    OBVIOUS
  <2>2. P(f, 0)
    BY <2>1
  <2> HIDE DEF f, P
  <2> QED BY <2>1, <2>2
<1>2. ASSUME NEW k \in Nat, k \in T PROVE k + 1 \in T
  <2>b. k + 1 \in Nat
    OBVIOUS
  <2> SUFFICES ASSUME k + 1 <= n PROVE \E f \in [0 .. k + 1 -> Nat] : P(f, k + 1)
    BY <2>b, Zenon
  <2>0. k <= n => \E f \in [0 .. k -> Nat] : P(f, k)
    BY <1>2, Zenon
  <2>a. k <= n
    BY <1>0
  <2>1. PICK f \in [0 .. k -> Nat] : P(f, k)
    BY <2>0, <2>a, Zenon
  <2> DEFINE g == [i \in 0 .. k + 1 |-> IF i <= k THEN f[i] ELSE f[k] + W[ps[k + 1]]]
  <2>2. f[k] \in Nat /\ W[ps[k + 1]] \in Nat
    BY <1>0
  <2>3. g \in [0 .. k + 1 -> Nat] /\ g[0] = 0
    BY <2>1, <2>2
  <2>4. ASSUME NEW i \in 1 .. k + 1 PROVE g[i] = g[i - 1] + W[ps[i]]
    <3>1. CASE i <= k
      <4>1. g[i] = f[i] /\ g[i - 1] = f[i - 1]
        BY <3>1
      <4> QED BY <2>1, <3>1, <4>1
    <3>2. CASE i = k + 1
      <4>1. g[i] = f[k] + W[ps[k + 1]] /\ g[i - 1] = f[k]
        BY <3>2
      <4> QED BY <3>2, <4>1
    <3> QED BY <3>1, <3>2
  <2> HIDE DEF g
  <2> QED BY <2>3, <2>4
<1>3. \E f : IsSums(f, W, ps)
  <2>1. \A k \in Nat : k \in T
    <3> HIDE DEF T
    <3> QED BY <1>1, <1>2, Induction
  <2>2. n \in T
    BY <1>0, <2>1
  <2>3. \E f \in [0 .. n -> Nat] : P(f, n)
    BY <1>0, <2>2
  <2> QED BY <2>3 DEF IsSums
<1>4. IsSums(Sums(W, ps), W, ps)
  BY <1>3 DEF Sums
<1> DEFINE s == Sums(W, ps)
<1>5. s \in [0 .. n -> Nat] /\ s[0] = 0 /\ \A i \in 1 .. n : s[i] = s[i - 1] + W[ps[i]]
  BY <1>4 DEF IsSums
<1>6. n \in 0 .. n /\ Total(W, ps) = s[n]
  BY <1>0 DEF Total
<1> HIDE DEF s
<1>7. s[n] \in Nat /\ \A k \in 0 .. n : s[k] \in Nat
  BY <1>5, <1>6
<1> QED BY <1>0, <1>4, <1>5, <1>6, <1>7 DEF s, SumsAre

\* There is one such function.
LEMMA SumsUnique ==
  ASSUME NEW S, NEW W \in [S -> Nat], NEW ps \in Seq(S), NEW f, NEW n \in 0 .. Len(ps), SumsUpTo(f, W, ps, n)
  PROVE  \A k \in 0 .. n : f[k] = Sums(W, ps)[k]
<1> DEFINE s == Sums(W, ps)
           T == {k \in Nat : k <= n => f[k] = s[k]}
<1>b. SumsAre(W, ps)
  BY SumsFacts
<1>1. Len(ps) \in Nat /\ s[0] = 0 /\ \A i \in 1 .. Len(ps) : s[i] = s[i - 1] + W[ps[i]]
  BY <1>b DEF SumsAre
<1> HIDE DEF s
<1>a. f[0] = 0 /\ \A i \in 1 .. n : f[i] = f[i - 1] + W[ps[i]]
  BY DEF SumsUpTo
<1>2. 0 \in T
  BY <1>1, <1>a
<1>3. ASSUME NEW k \in Nat, k \in T PROVE k + 1 \in T
  <2> SUFFICES ASSUME k + 1 <= n PROVE f[k + 1] = s[k + 1]
    OBVIOUS
  <2>1. f[k] = s[k] /\ k + 1 \in 1 .. n /\ k + 1 \in 1 .. Len(ps) /\ (k + 1) - 1 = k
    BY <1>1, <1>3
  <2> QED BY <1>1, <1>a, <2>1
<1>4. \A k \in Nat : k \in T
  <2> HIDE DEF T
  <2> QED BY <1>2, <1>3, Induction
<1> QED BY <1>1, <1>4 DEF s

\* The partial sums are the sums of the prefixes.
LEMMA SumsPrefix ==
  ASSUME NEW S, NEW W \in [S -> Nat], NEW ps \in Seq(S), NEW k \in 0 .. Len(ps)
  PROVE  /\ SubSeq(ps, 1, k) \in Seq(S) /\ Len(SubSeq(ps, 1, k)) = k
         /\ \A i \in 1 .. k : SubSeq(ps, 1, k)[i] = ps[i]
         /\ Total(W, SubSeq(ps, 1, k)) = Sums(W, ps)[k]
<1> DEFINE qs == SubSeq(ps, 1, k)
<1>1. qs \in Seq(S) /\ Len(qs) = k /\ \A i \in 1 .. k : qs[i] = ps[i]
  <2>1. \A i \in 1 .. k : ps[i] \in S
    OBVIOUS
  <2> QED BY <2>1, SubSeqProperties
<1> HIDE DEF qs
<1> DEFINE s == Sums(W, ps)
<1>2. s[0] = 0 /\ \A i \in 1 .. k : s[i] = s[i - 1] + W[ps[i]]
  <2>0. SumsAre(W, ps)
    BY SumsFacts
  <2>1. Len(ps) \in Nat /\ s[0] = 0 /\ \A i \in 1 .. Len(ps) : s[i] = s[i - 1] + W[ps[i]]
    BY <2>0 DEF SumsAre
  <2> HIDE DEF s
  <2>2. k \in Nat /\ k <= Len(ps)
    BY <2>1
  <2> QED BY <2>1, <2>2
<1> HIDE DEF s
<1>3. \A i \in 1 .. k : s[i] = s[i - 1] + W[qs[i]]
  BY <1>1, <1>2
<1>4. k \in 0 .. Len(qs) /\ k \in Nat
  BY <1>1
<1>5. \A j \in 0 .. k : s[j] = Sums(W, qs)[j]
  <2>1. SumsUpTo(s, W, qs, k)
    BY <1>2, <1>3 DEF SumsUpTo
  <2> QED BY <1>1, <1>4, <2>1, SumsUnique
<1>6. Total(W, qs) = s[k]
  BY <1>1, <1>4, <1>5 DEF Total
<1> QED BY <1>1, <1>6 DEF qs, s

\* An element more.
LEMMA TotalAppend ==
  ASSUME NEW S, NEW W \in [S -> Nat], NEW ps \in Seq(S), NEW p \in S
  PROVE  Total(W, Append(ps, p)) = Total(W, ps) + W[p]
<1> DEFINE qs == Append(ps, p)
           s == Sums(W, qs)
           n == Len(ps)
<1>1. /\ qs \in Seq(S) /\ Len(qs) = n + 1 /\ n \in Nat /\ qs[n + 1] = p
      /\ \A i \in 1 .. n : qs[i] = ps[i]
  OBVIOUS
<1> HIDE DEF qs
<1>2. s[0] = 0 /\ \A i \in 1 .. n + 1 : s[i] = s[i - 1] + W[qs[i]]
  <2>0. qs \in Seq(S)
    BY <1>1
  <2>a. SumsAre(W, qs)
    BY <2>0, SumsFacts
  <2>1. s[0] = 0 /\ \A i \in 1 .. Len(qs) : s[i] = s[i - 1] + W[qs[i]]
    BY <2>a DEF SumsAre
  <2> HIDE DEF s
  <2> QED BY <1>1, <2>1
<1> HIDE DEF s
<1>3. \A i \in 1 .. n : s[i] = s[i - 1] + W[ps[i]]
  BY <1>1, <1>2
<1>4. n \in 0 .. Len(ps)
  BY <1>1
<1>5. \A j \in 0 .. n : s[j] = Sums(W, ps)[j]
  <2>1. SumsUpTo(s, W, ps, n)
    BY <1>2, <1>3 DEF SumsUpTo
  <2> QED BY <1>4, <2>1, SumsUnique
<1>6. s[n] = Total(W, ps) /\ s[n + 1] = s[n] + W[p]
  <2>1. n + 1 \in 1 .. n + 1 /\ (n + 1) - 1 = n
    BY <1>1
  <2> QED BY <1>1, <1>2, <1>4, <1>5, <2>1 DEF Total
<1>7. Total(W, qs) = s[n + 1]
  BY <1>1 DEF Total, s
<1> QED BY <1>6, <1>7 DEF qs

\* Partial sums do not decrease.
LEMMA SumsMonotone ==
  ASSUME NEW S, NEW W \in [S -> Nat], NEW ps \in Seq(S), NEW i \in 0 .. Len(ps), NEW j \in i .. Len(ps)
  PROVE  Sums(W, ps)[i] <= Sums(W, ps)[j]
<1> DEFINE s == Sums(W, ps)
           T == {k \in Nat : i + k <= Len(ps) => s[i] <= s[i + k]}
<1>0. SumsAre(W, ps)
  BY SumsFacts
<1>1. /\ Len(ps) \in Nat /\ \A k \in 0 .. Len(ps) : s[k] \in Nat
      /\ \A k \in 1 .. Len(ps) : s[k] = s[k - 1] + W[ps[k]] /\ W[ps[k]] \in Nat
  BY <1>0 DEF SumsAre
<1> HIDE DEF s
<1>2. 0 \in T
  BY <1>1
<1>3. ASSUME NEW k \in Nat, k \in T PROVE k + 1 \in T
  <2> SUFFICES ASSUME i + (k + 1) <= Len(ps) PROVE s[i] <= s[i + (k + 1)]
    OBVIOUS
  <2>1. s[i] <= s[i + k] /\ i + (k + 1) \in 1 .. Len(ps) /\ (i + (k + 1)) - 1 = i + k
    BY <1>1, <1>3
  <2>2. PICK m \in 1 .. Len(ps) : m = i + (k + 1)
    BY <2>1
  <2>3. s[m] = s[i + k] + W[ps[m]] /\ W[ps[m]] \in Nat
    BY <1>1, <2>1, <2>2
  <2>4. s[i] \in Nat /\ s[i + k] \in Nat
    BY <1>1, <2>1
  <2>5. s[i] <= s[m]
    <3>1. \A a \in Nat, b \in Nat, c \in Nat : a <= b => a <= b + c
      OBVIOUS
    <3>2. s[i] <= s[i + k]
      BY <2>1
    <3> QED BY ONLY <2>3, <2>4, <3>1, <3>2
  <2> QED BY <2>2, <2>5
<1>4. \A k \in Nat : k \in T
  <2> HIDE DEF T
  <2> QED BY <1>2, <1>3, Induction
<1>5. j - i \in Nat /\ i + (j - i) = j /\ j <= Len(ps)
  BY <1>1
<1> QED BY <1>4, <1>5 DEF s

-----------------------------------------------------------------------------
(* The sums of the source are these: a recursive function, and folds *)

\* Division with a remainder.
LEMMA DivFacts ==
  ASSUME NEW n \in Nat, NEW w \in Nat \ {0}
  PROVE  /\ n \div w \in Nat /\ n % w \in 0 .. w - 1
         /\ n = w * (n \div w) + (n % w)
OBVIOUS

\* The quotient is the only number that fits.
LEMMA DivUnique ==
  ASSUME NEW w \in Nat \ {0}, NEW q \in Nat, NEW r \in 0 .. w - 1
  PROVE  (w * q + r) \div w = q /\ (w * q + r) % w = r
<1> DEFINE n == w * q + r
<1>1. n \in Nat
  OBVIOUS
<1>2. PICK x \in Nat : x = n \div w
  BY <1>1, DivFacts
<1>3. PICK y \in 0 .. w - 1 : y = n % w
  BY <1>1, DivFacts
<1>4. w * q + r = w * x + y
  <2>1. n = w * (n \div w) + (n % w)
    BY <1>1, DivFacts
  <2> QED BY <1>2, <1>3, <2>1
<1>5. ~ (x >= q + 1)
  <2> SUFFICES ASSUME x >= q + 1 PROVE FALSE
    OBVIOUS
  <2>1. PICK k \in Nat : x = q + 1 + k
    BY <1>2
  <2>2. w * x = w * q + w + w * k /\ w * k \in Nat /\ w * q \in Nat
    BY <2>1
  <2> QED BY <1>4, <2>2
<1>6. ~ (q >= x + 1)
  <2> SUFFICES ASSUME q >= x + 1 PROVE FALSE
    OBVIOUS
  <2>1. PICK k \in Nat : q = x + 1 + k
    BY <1>2
  <2>2. w * q = w * x + w + w * k /\ w * k \in Nat /\ w * x \in Nat
    BY <2>1
  <2> QED BY <1>4, <2>2
<1>7. x = q
  BY <1>2, <1>5, <1>6
<1>8. y = r
  BY <1>4, <1>7
<1> QED BY <1>2, <1>3, <1>7, <1>8

\* The size of a shard with its padding is the quotient rounded up
\* (partition_numel, math.ceil).
LEMMA PartFacts ==
  ASSUME NEW n \in Nat
  PROVE  /\ PartitionSize(n) = CeilDiv(n) /\ CeilDiv(n) \in Nat
         /\ World * CeilDiv(n) >= n /\ World * CeilDiv(n) < n + World
         /\ n # 0 => CeilDiv(n) # 0
<1>1. World \in Nat \ {0}
  BY LayoutAssumption
<1>2. PICK q \in Nat : q = n \div World
  BY <1>1, DivFacts
<1>3. PICK r \in 0 .. World - 1 : r = n % World
  BY <1>1, DivFacts
<1>4. n = World * q + r
  BY <1>1, <1>2, <1>3, DivFacts
<1>5. World * q \in Nat /\ World * (q + 1) = World * q + World
  BY <1>1
<1>6. CASE r = 0
  <2>1. PartitionSize(n) = q
    <3>1. AlignedSize(n) = World * q + 0
      BY <1>3, <1>4, <1>6 DEF AlignedSize, PaddingSize
    <3>2. (World * q + 0) \div World = q
      BY <1>1, DivUnique
    <3> QED BY <3>1, <3>2 DEF PartitionSize
  <2>2. CeilDiv(n) = q
    <3>1. n + World - 1 = World * q + (World - 1)
      BY <1>1, <1>4, <1>5, <1>6
    <3>2. (World * q + (World - 1)) \div World = q
      BY <1>1, DivUnique
    <3> QED BY <3>1, <3>2 DEF CeilDiv
  <2> QED BY <1>1, <1>4, <1>5, <1>6, <2>1, <2>2
<1>7. CASE r # 0
  <2>1. PartitionSize(n) = q + 1
    <3>1. AlignedSize(n) = World * (q + 1) + 0
      BY <1>1, <1>3, <1>4, <1>5, <1>7 DEF AlignedSize, PaddingSize
    <3>2. (World * (q + 1) + 0) \div World = q + 1
      BY <1>1, DivUnique
    <3> QED BY <3>1, <3>2 DEF PartitionSize
  <2>2. CeilDiv(n) = q + 1
    <3>1. n + World - 1 = World * (q + 1) + (r - 1) /\ r - 1 \in 0 .. World - 1
      BY <1>1, <1>4, <1>5, <1>7
    <3>2. (World * (q + 1) + (r - 1)) \div World = q + 1
      BY <1>1, <3>1, DivUnique
    <3> QED BY <3>1, <3>2 DEF CeilDiv
  <2> QED BY <1>1, <1>4, <1>5, <1>7, <2>1, <2>2
<1> QED BY <1>6, <1>7

\* The three weights of a parameter: the last two are one.
LEMMA Weights ==
  /\ Numel \in [Params -> Nat] /\ \A p \in Params : Numel[p] \in Nat \ {0}
  /\ PartNumel \in [Params -> Nat] /\ ChunkNumel \in [Params -> Nat] /\ PartNumel = ChunkNumel
  /\ \A p \in Params : PartNumel[p] = CeilDiv(Numel[p]) /\ PartNumel[p] \in Nat \ {0}
<1>1. Numel \in [Params -> Nat] /\ \A p \in Params : Numel[p] \in Nat \ {0}
  BY LayoutAssumption
<1>2. ASSUME NEW p \in Params PROVE /\ PartitionSize(Numel[p]) = CeilDiv(Numel[p])
                                    /\ CeilDiv(Numel[p]) \in Nat \ {0}
  BY <1>1, PartFacts
<1>3. PartNumel = ChunkNumel
  BY <1>2 DEF PartNumel, ChunkNumel
<1>4. ChunkNumel \in [Params -> Nat]
  BY <1>2 DEF ChunkNumel
<1> QED BY <1>1, <1>2, <1>3, <1>4 DEF PartNumel

IsPartialSum(f, W, ps) == f = [i \in 0 .. Len(ps) |-> IF i = 0 THEN 0 ELSE f[i - 1] + W[ps[i]]]

\* The recursive function is the last of the partial sums.
LEMMA SumOverIs ==
  ASSUME NEW S, NEW W \in [S -> Nat], NEW ps \in Seq(S)
  PROVE  SumOver(W, ps) = Total(W, ps) /\ SumOver(W, ps) \in Nat
<1> DEFINE f == CHOOSE g : IsPartialSum(g, W, ps)
           s == Sums(W, ps)
<1>0. Len(ps) \in Nat
  OBVIOUS
<1>1. SumOver(W, ps) = f[Len(ps)]
  BY Zenon DEF SumOver, IsPartialSum
<1>a. SumsAre(W, ps)
  BY SumsFacts
<1>2. s \in [0 .. Len(ps) -> Nat] /\ s[0] = 0 /\ \A i \in 1 .. Len(ps) : s[i] = s[i - 1] + W[ps[i]]
  BY <1>a DEF SumsAre, IsSums
<1>3. IsPartialSum(s, W, ps)
  <2> HIDE DEF s
  <2>1. \A i \in 0 .. Len(ps) : s[i] = IF i = 0 THEN 0 ELSE s[i - 1] + W[ps[i]]
    BY <1>0, <1>2
  <2>2. s = [i \in 0 .. Len(ps) |-> s[i]]
    BY <1>2
  <2> QED BY <2>1, <2>2 DEF IsPartialSum
<1>4. IsPartialSum(f, W, ps)
  BY <1>3
<1> HIDE DEF f, s
<1>5. \A i \in 0 .. Len(ps) : f[i] = IF i = 0 THEN 0 ELSE f[i - 1] + W[ps[i]]
  BY <1>4, Zenon DEF IsPartialSum
<1>6. f[0] = 0 /\ \A i \in 1 .. Len(ps) : f[i] = f[i - 1] + W[ps[i]]
  BY <1>0, <1>5
<1>7. Len(ps) \in 0 .. Len(ps)
  BY <1>0
<1>8. \A k \in 0 .. Len(ps) : f[k] = Sums(W, ps)[k]
  <2>1. SumsUpTo(f, W, ps, Len(ps))
    BY <1>6 DEF SumsUpTo
  <2> QED BY <1>7, <2>1, SumsUnique
<1>9. SumOver(W, ps) = Total(W, ps)
  BY <1>1, <1>7, <1>8 DEF Total
<1> QED BY <1>9, <1>a DEF SumsAre

\* The size of the shards of a sequence of parameters.
LEMMA SumPartIs ==
  ASSUME NEW ps \in Seq(Params)
  PROVE  SumPart(ps) = Total(PartNumel, ps) /\ SumPart(ps) \in Nat
<1>1. PartNumel \in [Params -> Nat]
  BY Weights
<1> QED BY <1>1, SumOverIs DEF SumPart

\* The number of elements of a sequence of parameters.
LEMMA SumNumelIs ==
  ASSUME NEW ps \in Seq(Params)
  PROVE  SumNumel(ps) = Total(Numel, ps) /\ SumNumel(ps) \in Nat
<1>1. Numel \in [Params -> Nat]
  BY Weights
<1> QED BY <1>1, SumOverIs DEF SumNumel

-----------------------------------------------------------------------------
(* The parameters in the order of their ds_id, sums over sequences of them   *)

\* The parameters can be sorted, and the sorted sequence has each of them once.
LEMMA AllParamsFacts ==
  /\ AllParams \in [1 .. Cardinality(Params) -> Params]
  /\ AllParams \in Seq(Params) /\ Len(AllParams) = Cardinality(Params) /\ Len(AllParams) \in Nat \ {0}
  /\ \A i, j \in 1 .. Len(AllParams) : i < j => AllParams[i] < AllParams[j]
  /\ \A i, j \in 1 .. Len(AllParams) : i # j => AllParams[i] # AllParams[j]
  /\ \A p \in Params : \E i \in 1 .. Len(AllParams) : AllParams[i] = p
<1> DEFINE n == Cardinality(Params)
           a == [i \in 1 .. n |-> Nth(Params, i)]
<1>1. n \in Nat /\ n # 0
  BY LayoutAssumption, FS_CardinalityType, FS_EmptySet
<1>2. /\ \A i \in 1 .. n : Nth(Params, i) \in Params
      /\ \A i, j \in 1 .. n : i # j => Nth(Params, i) # Nth(Params, j)
  BY LayoutAssumption, NthFacts
<1>4. ASSUME NEW i \in 1 .. n, NEW j \in 1 .. n, i < j PROVE Nth(Params, i) < Nth(Params, j)
  BY <1>4, LayoutAssumption, NthSorted
<1>5. a \in [1 .. n -> Params] /\ \A i, j \in DOMAIN a : i < j => a[i] < a[j]
  BY <1>2, <1>4
<1>6. /\ AllParams \in [1 .. n -> Params]
      /\ \A i, j \in DOMAIN AllParams : i < j => AllParams[i] < AllParams[j]
  BY <1>5 DEF AllParams
<1> HIDE DEF a
<1>7. AllParams \in Seq(Params) /\ Len(AllParams) = n /\ DOMAIN AllParams = 1 .. n
  BY <1>1, <1>6
<1>8. ASSUME NEW i \in 1 .. n, NEW j \in 1 .. n, i # j PROVE AllParams[i] # AllParams[j]
  <2>1. AllParams[i] \in Nat /\ AllParams[j] \in Nat
    BY <1>6, LayoutAssumption
  <2>2. i < j \/ j < i
    BY <1>1, <1>8
  <2>3. i < j => AllParams[i] < AllParams[j]
    BY <1>6, <1>7
  <2>4. j < i => AllParams[j] < AllParams[i]
    BY <1>6, <1>7
  <2> QED BY <2>1, <2>2, <2>3, <2>4
<1>9. AllParams \in Surjection(1 .. n, Params)
  <2>1. AllParams \in Injection(1 .. n, Params)
    BY <1>6, <1>8 DEF Injection, IsInjective
  <2>2. Cardinality(1 .. n) = n
    BY <1>1, FS_Interval
  <2> QED BY <2>1, <2>2, FS_Injection, LayoutAssumption
<1>10. \A p \in Params : \E i \in 1 .. n : AllParams[i] = p
  BY <1>9 DEF Surjection
<1> QED BY <1>1, <1>6, <1>7, <1>8, <1>10

-----------------------------------------------------------------------------
(* The sub-groups *)

\* The groups after n parameters: those closed and the one open.
Closed(s, p, last) ==
  LET g == Append(s.open, p) IN
  IF SumPart(g) >= SubGroupSize \/ last THEN [open |-> <<>>, done |-> Append(s.done, g)] ELSE [s EXCEPT !.open = g]
Split0 == [open |-> <<>>, done |-> <<>>]
IsSplit(f, n) ==
  f = [k \in 0 .. n |-> IF k = 0 THEN Split0 ELSE Closed(f[k - 1], AllParams[k], k = Len(AllParams))]

\* The groups after n parameters exist, n by n.
LEMMA SplitExists ==
  ASSUME NEW n \in Nat
  PROVE  \E f : IsSplit(f, n)
<1> DEFINE T == {k \in Nat : \E f : IsSplit(f, k)}
           Nx(s, k) == Closed(s, AllParams[k], k = Len(AllParams))
<1>1. 0 \in T
  <2> DEFINE e == [k \in 0 .. 0 |-> Split0]
  <2>1. e = [k \in 0 .. 0 |-> IF k = 0 THEN Split0 ELSE Nx(e[k - 1], k)]
    OBVIOUS
  <2>2. IsSplit(e, 0)
    BY <2>1 DEF IsSplit
  <2> QED BY <2>2
<1>2. ASSUME NEW k \in Nat, k \in T PROVE k + 1 \in T
  <2>1. PICK f : IsSplit(f, k)
    BY <1>2
  <2>2. \A i \in 0 .. k : f[i] = IF i = 0 THEN Split0 ELSE Nx(f[i - 1], i)
    BY <2>1, Zenon DEF IsSplit
  <2> DEFINE g == [i \in 0 .. k + 1 |-> IF i <= k THEN f[i] ELSE Nx(f[k], k + 1)]
  <2> HIDE DEF Nx
  <2>3. ASSUME NEW i \in 0 .. k + 1
        PROVE  g[i] = IF i = 0 THEN Split0 ELSE Nx(g[i - 1], i)
    <3>1. CASE i <= k
      <4>1. i \in 0 .. k /\ g[i] = f[i]
        BY <3>1
      <4>2. i # 0 => g[i - 1] = f[i - 1]
        BY <4>1
      <4> QED BY <2>2, <4>1, <4>2
    <3>2. CASE ~ (i <= k)
      <4>1. i = k + 1 /\ i - 1 = k /\ i # 0
        BY <3>2
      <4>2. g[i] = Nx(f[k], k + 1) /\ g[k] = f[k]
        BY <4>1
      <4> QED BY <4>1, <4>2
    <3> QED BY <3>1, <3>2
  <2>4. g = [i \in 0 .. k + 1 |-> g[i]]
    OBVIOUS
  <2> HIDE DEF g
  <2>5. IsSplit(g, k + 1)
    BY <2>3, <2>4, Zenon DEF IsSplit, Nx
  <2> QED BY <2>5
<1>3. \A k \in Nat : k \in T
  <2> HIDE DEF T
  <2> QED BY <1>1, <1>2, Induction
<1> QED BY <1>3

\* p is in a group of the sequence.
Grouped(gs, p) == \E g \in 1 .. Len(gs) : \E i \in 1 .. Len(gs[g]) : gs[g][i] = p

\* Every parameter is in a sub-group (_create_fp16_sub_groups).
LEMMA SubGroupsFacts ==
  /\ SubGroups \in Seq(Seq(Params)) /\ Len(SubGroups) \in Nat /\ Groups = 1 .. Len(SubGroups)
  /\ \A p \in Params : Grouped(SubGroups, p)
<1> DEFINE n == Len(AllParams)
<1>1. n \in Nat \ {0} /\ AllParams \in Seq(Params) /\ \A i \in 1 .. n : AllParams[i] \in Params
  BY AllParamsFacts
<1>2. CASE SubGroupSize >= SumPart(AllParams)
  <2>1. SubGroups = <<AllParams>>
    BY <1>2, Zenon DEF SubGroups
  <2>2. SubGroups \in Seq(Seq(Params)) /\ Len(SubGroups) = 1 /\ SubGroups[1] = AllParams /\ DOMAIN SubGroups = 1 .. 1
    BY <1>1, <2>1
  <2>3. \A p \in Params : Grouped(SubGroups, p)
    BY <2>2, AllParamsFacts DEF Grouped
  <2> QED BY <2>2, <2>3 DEF Groups
<1>3. CASE ~ (SubGroupSize >= SumPart(AllParams))
  <2> DEFINE f == CHOOSE g : IsSplit(g, n)
  <2>1. IsSplit(f, n)
    BY <1>1, SplitExists
  <2>2. SubGroups = f[n].done
    BY <1>3, Zenon DEF SubGroups, IsSplit, Closed, Split0
  <2> HIDE DEF f
  <2>3. \A k \in 0 .. n : f[k] = IF k = 0 THEN Split0 ELSE Closed(f[k - 1], AllParams[k], k = n)
    BY <2>1, Zenon DEF IsSplit
  <2> DEFINE Ok(s, k) == /\ s \in [open : Seq(Params), done : Seq(Seq(Params))]
                         /\ \A i \in 1 .. k : Grouped(s.done, AllParams[i]) \/ \E j \in 1 .. Len(s.open) : s.open[j] = AllParams[i]
                         /\ k = n => s.open = <<>>
             T == {k \in Nat : k <= n => Ok(f[k], k)}
  <2>4. 0 \in T
    <3>1. f[0] = [open |-> <<>>, done |-> <<>>] /\ 0 # n
      BY <1>1, <2>3 DEF Split0
    <3>2. [open |-> <<>>, done |-> <<>>] \in [open : Seq(Params), done : Seq(Seq(Params))]
      OBVIOUS
    <3>3. f[0] \in [open : Seq(Params), done : Seq(Seq(Params))] /\ \A i \in 1 .. 0 : FALSE
      BY <3>1, <3>2
    <3>4. Ok(f[0], 0)
      BY <3>1, <3>3
    <3> HIDE DEF Ok
    <3> QED BY <3>4
  <2>5. ASSUME NEW k \in Nat, k \in T PROVE k + 1 \in T
    <3> SUFFICES ASSUME k + 1 <= n PROVE Ok(f[k + 1], k + 1)
      OBVIOUS
    <3>1. Ok(f[k], k) /\ k < n
      BY <1>1, <2>5
    <3> DEFINE s == f[k]
               p == AllParams[k + 1]
               g == Append(s.open, p)
    <3>2. f[k + 1] = Closed(s, p, k + 1 = n)
      <4>1. k + 1 \in 0 .. n /\ k + 1 # 0 /\ (k + 1) - 1 = k
        BY <1>1
      <4> QED BY <2>3, <4>1
    <3>3. /\ s \in [open : Seq(Params), done : Seq(Seq(Params))] /\ p \in Params
          /\ s.open \in Seq(Params) /\ s.done \in Seq(Seq(Params)) /\ g \in Seq(Params)
      BY <1>1, <3>1
    <3>4. /\ Len(g) = Len(s.open) + 1 /\ g[Len(g)] = p /\ Len(s.open) \in Nat
          /\ \A j \in 1 .. Len(s.open) : g[j] = s.open[j]
      BY <3>3
    <3>5. \A i \in 1 .. k + 1 : Grouped(s.done, AllParams[i]) \/ \E j \in 1 .. Len(g) : g[j] = AllParams[i]
      <4> SUFFICES ASSUME NEW i \in 1 .. k + 1, ~ Grouped(s.done, AllParams[i])
                   PROVE  \E j \in 1 .. Len(g) : g[j] = AllParams[i]
        OBVIOUS
      <4>1. CASE i = k + 1
        <5>1. Len(g) \in 1 .. Len(g)
          BY <3>4
        <5> QED BY <3>4, <4>1, <5>1
      <4>2. CASE i # k + 1
        <5>1. i \in 1 .. k
          BY <4>2
        <5>2. PICK j \in 1 .. Len(s.open) : s.open[j] = AllParams[i]
          BY <3>1, <5>1
        <5>3. j \in 1 .. Len(g) /\ g[j] = s.open[j]
          BY <3>4
        <5> QED BY <5>2, <5>3
      <4> QED BY <4>1, <4>2
    <3> HIDE DEF s, p, g
    <3>6. CASE SumPart(g) >= SubGroupSize \/ k + 1 = n
      <4>1. f[k + 1] = [open |-> <<>>, done |-> Append(s.done, g)]
        BY <3>2, <3>6 DEF Closed, g
      <4>2. Append(s.done, g) \in Seq(Seq(Params))
        BY <3>3
      <4>3. ASSUME NEW x, Grouped(s.done, x) \/ \E j \in 1 .. Len(g) : g[j] = x
            PROVE  Grouped(Append(s.done, g), x)
        <5>1. /\ Len(Append(s.done, g)) = Len(s.done) + 1 /\ Len(s.done) \in Nat
              /\ Append(s.done, g)[Len(s.done) + 1] = g
              /\ \A j \in 1 .. Len(s.done) : Append(s.done, g)[j] = s.done[j]
          BY <3>3
        <5>2. CASE Grouped(s.done, x)
          <6>1. PICK j \in 1 .. Len(s.done) : \E i \in 1 .. Len(s.done[j]) : s.done[j][i] = x
            BY <5>2 DEF Grouped
          <6>2. j \in 1 .. Len(Append(s.done, g)) /\ Append(s.done, g)[j] = s.done[j]
            BY <5>1
          <6> QED BY <6>1, <6>2 DEF Grouped
        <5>3. CASE \E j \in 1 .. Len(g) : g[j] = x
          <6>1. Len(s.done) + 1 \in 1 .. Len(Append(s.done, g))
            BY <5>1
          <6> QED BY <5>1, <5>3, <6>1 DEF Grouped
        <5> QED BY <4>3, <5>2, <5>3
      <4>4. \A i \in 1 .. k + 1 : Grouped(Append(s.done, g), AllParams[i])
        BY <3>5, <4>3
      <4> QED BY <4>1, <4>2, <4>4
    <3>7. CASE ~ (SumPart(g) >= SubGroupSize \/ k + 1 = n)
      <4>1. f[k + 1] = [s EXCEPT !.open = g]
        BY <3>2, <3>7 DEF Closed, g
      <4>2. f[k + 1].open = g /\ f[k + 1].done = s.done /\ f[k + 1] \in [open : Seq(Params), done : Seq(Seq(Params))]
        BY <3>3, <4>1
      <4> QED BY <3>5, <3>7, <4>2
    <3> QED BY <3>6, <3>7
  <2>6. n \in T
    <3>1. \A k \in Nat : k \in T
      <4> HIDE DEF T
      <4> QED BY <2>4, <2>5, Induction
    <3> QED BY <1>1, <3>1
  <2>7. Ok(f[n], n)
    BY <1>1, <2>6
  <2>8. \A i \in 1 .. n : Grouped(SubGroups, AllParams[i])
    <3>1. f[n].open = <<>> /\ Len(f[n].open) = 0
      BY <2>7
    <3> QED BY <2>2, <2>7, <3>1
  <2>9. SubGroups \in Seq(Seq(Params))
    BY <2>2, <2>7
  <2> QED BY <2>8, <2>9, AllParamsFacts DEF Groups
<1> QED BY <1>2, <1>3

\* The sub-group of a parameter is one that holds it.
LEMMA GroupOfFacts ==
  ASSUME NEW p \in Params
  PROVE  GroupOf[p] \in Groups
<1>1. Grouped(SubGroups, p) /\ Groups = 1 .. Len(SubGroups) /\ SubGroups \in Seq(Seq(Params))
  BY SubGroupsFacts
<1>2. PICK g \in Groups : \E i \in 1 .. Len(SubGroups[g]) : SubGroups[g][i] = p
  BY <1>1 DEF Grouped
<1>3. SubGroups[g] \in Seq(Params)
  BY <1>1
<1>4. p \in ToSet(SubGroups[g])
  BY <1>2, <1>3 DEF ToSet
<1> QED BY <1>4 DEF GroupOf

-----------------------------------------------------------------------------
(* Slices of flattened sequences *)

Offsets(f, ss) ==
  /\ f \in [0 .. Len(ss) -> Nat] /\ f[0] = 0
  /\ \A i \in 1 .. Len(ss) : f[i] = f[i - 1] + Len(ss[i])

SlicesOf(ss, f, S) ==
  /\ FlattenSeq(ss) \in Seq(S) /\ Len(FlattenSeq(ss)) = f[Len(ss)]
  /\ \A i \in 1 .. Len(ss) : \A j \in 1 .. Len(ss[i]) :
       /\ f[i - 1] + j \in 1 .. f[Len(ss)]
       /\ FlattenSeq(ss)[f[i - 1] + j] = ss[i][j]

\* The j-th element of the i-th sequence comes j after the end of the one before.
LEMMA FlattenSlices ==
  ASSUME NEW S, NEW ss \in Seq(Seq(S)), NEW f, Offsets(f, ss)
  PROVE  SlicesOf(ss, f, S)
<1> DEFINE n == Len(ss)
<1>0. n \in Nat /\ f \in [0 .. n -> Nat] /\ f[0] = 0 /\ \A i \in 1 .. n : f[i] = f[i - 1] + Len(ss[i])
  BY DEF Offsets
<1>1. FlattenSeq(ss) \in Seq(S)
  BY FlattenType
<1>2. CASE ss = <<>>
  <2>1. n = 0 /\ FlattenSeq(ss) = <<>>
    BY <1>2 DEF FlattenSeq
  <2> QED BY <1>0, <1>1, <2>1 DEF SlicesOf
<1>3. CASE ss # <<>>
  <2> DEFINE P(g) == FlattenSeq(ss) = g[n]
  <2>1. PICK g \in [1 .. n -> Seq(S)] :
          g[1] = ss[1] /\ (\A i \in 1 .. n : i # 1 => g[i] = g[i - 1] \o ss[i]) /\ P(g)
    BY <1>3, FlattenFacts, Zenon
  <2>2. FlattenSeq(ss) = g[n]
    BY <2>1
  <2> HIDE DEF P
  <2>3. n # 0 /\ n \in 1 .. n /\ 1 \in 1 .. n
    BY <1>0, <1>3
  <2> DEFINE Right(k) == /\ Len(g[k]) = f[k]
                         /\ \A i \in 1 .. k : \A j \in 1 .. Len(ss[i]) :
                              f[i - 1] + j \in 1 .. f[k] /\ g[k][f[i - 1] + j] = ss[i][j]
             T == {k \in Nat : k + 1 <= n => Right(k + 1)}
  <2>4. 0 \in T
    <3>1. f[1] = Len(ss[1]) /\ g[1] = ss[1] /\ Len(ss[1]) \in Nat
      <4>1. f[1] = f[1 - 1] + Len(ss[1]) /\ 1 - 1 = 0 /\ ss[1] \in Seq(S)
        BY <1>0, <2>3
      <4>2. Len(ss[1]) \in Nat
        BY <4>1
      <4> QED BY <1>0, <2>1, <4>1, <4>2
    <3>2. \A i \in 1 .. 1 : i = 1 /\ f[i - 1] = 0
      BY <1>0
    <3>3. Right(1)
      BY <3>1, <3>2
    <3> HIDE DEF Right
    <3> QED BY <3>3
  <2>5. ASSUME NEW k \in Nat, k \in T PROVE k + 1 \in T
    <3>a. k + 1 \in Nat
      OBVIOUS
    <3> SUFFICES ASSUME k + 1 + 1 <= n PROVE Right(k + 1 + 1)
      BY <3>a, Zenon
    <3>0. k + 1 <= n => Right(k + 1)
      BY <2>5, Zenon
    <3>1. k + 1 <= n /\ k + 1 \in 1 .. n /\ k + 1 \in 0 .. n
      BY <1>0
    <3>2. PICK m \in 2 .. n : m = k + 1 + 1
      BY <1>0
    <3>3. m - 1 = k + 1 /\ m \in 1 .. n /\ m # 1
      BY <3>2
    <3>4. g[m] = g[m - 1] \o ss[m] /\ f[m] = f[m - 1] + Len(ss[m])
      BY <1>0, <2>1, <3>3
    <3> DEFINE u == g[m - 1]
               v == ss[m]
               a == f[m - 1]
    <3>5. u \in Seq(S) /\ v \in Seq(S) /\ a \in Nat
      <4>1. m - 1 \in 1 .. n /\ m - 1 \in 0 .. n /\ m \in 1 .. Len(ss)
        BY <3>1, <3>3
      <4>2. g[m - 1] \in Seq(S)
        BY <2>1, <4>1
      <4>3. ss[m] \in Seq(S)
        BY <4>1
      <4> QED BY <1>0, <4>1, <4>2, <4>3
    <3>6. Len(u) = a /\ \A i \in 1 .. m - 1 : \A j \in 1 .. Len(ss[i]) :
                              f[i - 1] + j \in 1 .. a /\ u[f[i - 1] + j] = ss[i][j]
      BY <3>0, <3>1, <3>3
    <3>b. g[m] = u \o v /\ f[m] = a + Len(v)
      BY <3>4
    <3>c. \A i \in 1 .. m : i = m => f[i - 1] = a /\ ss[i] = v
      OBVIOUS
    <3> HIDE DEF u, v, a
    <3>7. /\ Len(u \o v) = Len(u) + Len(v) /\ Len(v) \in Nat
          /\ \A i \in 1 .. Len(u) : (u \o v)[i] = u[i]
          /\ \A i \in 1 .. Len(v) : (u \o v)[Len(u) + i] = v[i]
      <4>1. ConcatIs(u, v, S)
        BY <3>5, ConcatFacts
      <4> QED BY <4>1 DEF ConcatIs
    <3>8. Len(g[m]) = f[m]
      BY <3>5, <3>6, <3>7, <3>b
    <3>9. ASSUME NEW i \in 1 .. m, NEW j \in 1 .. Len(ss[i])
          PROVE  f[i - 1] + j \in 1 .. f[m] /\ g[m][f[i - 1] + j] = ss[i][j]
      <4>1. CASE i = m
        <5>1. f[i - 1] = a /\ ss[i] = v /\ j \in 1 .. Len(v)
          BY <3>c, <4>1
        <5>2. a + j \in 1 .. f[m]
          <6>1. a \in Nat /\ Len(v) \in Nat /\ f[m] = a + Len(v) /\ j \in 1 .. Len(v)
            BY <3>5, <3>7, <3>b, <5>1
          <6> QED BY ONLY <6>1
        <5>3. (u \o v)[a + j] = v[j]
          BY <3>6, <3>7, <5>1
        <5> QED BY <3>b, <5>1, <5>2, <5>3
      <4>2. CASE i # m
        <5>1. i \in 1 .. m - 1
          BY <4>2
        <5>2. f[i - 1] + j \in 1 .. a /\ u[f[i - 1] + j] = ss[i][j]
          BY <3>6, <5>1
        <5>3. PICK x \in 1 .. a : x = f[i - 1] + j
          BY <5>2
        <5>4. x \in 1 .. Len(u) /\ x \in 1 .. f[m]
          BY <3>5, <3>6, <3>7, <3>b
        <5>5. (u \o v)[x] = u[x]
          BY <3>7, <5>4
        <5> QED BY <3>b, <5>2, <5>3, <5>4, <5>5
      <4> QED BY <4>1, <4>2
    <3> QED BY <3>2, <3>8, <3>9
  <2>6. \A k \in Nat : k \in T
    <3> HIDE DEF T
    <3> QED BY <2>4, <2>5, Induction
  <2>7. Right(n)
    <3>1. n - 1 \in Nat /\ (n - 1) + 1 = n
      BY <1>0, <2>3
    <3>2. n - 1 \in T
      BY <2>6, <3>1
    <3> HIDE DEF Right
    <3>3. n - 1 + 1 <= n => Right(n - 1 + 1)
      BY <3>2
    <3> QED BY <1>0, <3>1, <3>3
  <2> QED BY <1>1, <2>2, <2>7 DEF SlicesOf
<1> QED BY <1>2, <1>3

\* Sequences of one length.
Even(ss, m) == \A i \in 1 .. Len(ss) : Len(ss[i]) = m

RowsOf(ss, m, S) ==
  /\ FlattenSeq(ss) \in Seq(S) /\ Len(FlattenSeq(ss)) = Len(ss) * m
  /\ \A i \in 1 .. Len(ss) : \A j \in 1 .. m :
       /\ (i - 1) * m + j \in 1 .. Len(ss) * m
       /\ FlattenSeq(ss)[(i - 1) * m + j] = ss[i][j]

\* Sequences of one length m, one after the other: the j-th of the i-th is at
\* (i - 1) * m + j.
LEMMA FlattenEven ==
  ASSUME NEW S, NEW ss \in Seq(Seq(S)), NEW m \in Nat, Even(ss, m)
  PROVE  RowsOf(ss, m, S)
<1> DEFINE f == [i \in 0 .. Len(ss) |-> i * m]
<1>0. Len(ss) \in Nat
  OBVIOUS
<1>1. \A i \in Nat : i * m \in Nat /\ (i + 1) * m = i * m + m
  OBVIOUS
<1>2. f \in [0 .. Len(ss) -> Nat] /\ f[0] = 0
  <2>1. 0 * m = 0
    OBVIOUS
  <2> QED BY <1>0, <1>1, <2>1
<1>3. ASSUME NEW i \in 1 .. Len(ss) PROVE f[i] = f[i - 1] + Len(ss[i]) /\ f[i - 1] = (i - 1) * m
  <2>1. i - 1 \in Nat /\ (i - 1) + 1 = i /\ i - 1 \in 0 .. Len(ss) /\ i \in 0 .. Len(ss)
    BY <1>0
  <2>2. i * m = (i - 1) * m + m
    BY <1>1, <2>1
  <2> QED BY <2>1, <2>2 DEF Even
<1>4. Offsets(f, ss)
  BY <1>2, <1>3 DEF Offsets
<1>5. Len(ss) \in 0 .. Len(ss) /\ f[Len(ss)] = Len(ss) * m
  BY <1>0
<1> HIDE DEF f
<1>6. /\ FlattenSeq(ss) \in Seq(S) /\ Len(FlattenSeq(ss)) = f[Len(ss)]
      /\ \A i \in 1 .. Len(ss) : \A j \in 1 .. Len(ss[i]) :
           /\ f[i - 1] + j \in 1 .. f[Len(ss)]
           /\ FlattenSeq(ss)[f[i - 1] + j] = ss[i][j]
  <2>1. SlicesOf(ss, f, S)
    BY <1>4, FlattenSlices
  <2> QED BY <2>1 DEF SlicesOf
<1> QED BY <1>3, <1>5, <1>6 DEF Even, RowsOf

-----------------------------------------------------------------------------
(* Shards and gathers *)

\* A slice of a tensor.
Fits(t, off, n) == off + n <= Len(t)

\* A slice that fits has the elements of the tensor at its place.
LEMMA NarrowFacts ==
  ASSUME NEW S, NEW t \in Seq(S), NEW off \in Nat, NEW n \in Nat, Fits(t, off, n)
  PROVE  /\ Narrow(t, off, n) \in Seq(S) /\ Len(Narrow(t, off, n)) = n
         /\ DOMAIN Narrow(t, off, n) = 1 .. n
         /\ \A j \in 1 .. n : Narrow(t, off, n)[j] = t[off + j]
<1>0. off + n <= Len(t)
  BY DEF Fits
<1>1. \A i \in off + 1 .. off + n : t[i] \in S
  BY <1>0
<1>2. /\ SubSeq(t, off + 1, off + n) \in Seq(S)
      /\ Len(SubSeq(t, off + 1, off + n)) = n
      /\ DOMAIN SubSeq(t, off + 1, off + n) = 1 .. n
      /\ \A j \in 1 .. n : SubSeq(t, off + 1, off + n)[j] = t[off + j]
  BY <1>0
<1> QED BY <1>2 DEF Narrow

\* A function on an interval is a sequence.
LEMMA FunctionIsSeq ==
  ASSUME NEW S, NEW n \in Nat, NEW f \in [1 .. n -> S]
  PROVE  f \in Seq(S) /\ Len(f) = n /\ DOMAIN f = 1 .. n
OBVIOUS

\* Two sequences of one length with the same elements.
LEMMA SameSeq ==
  ASSUME NEW S, NEW T, NEW s \in Seq(S), NEW t \in Seq(T), Len(s) = Len(t), \A i \in 1 .. Len(s) : s[i] = t[i]
  PROVE  s = t
<1>1. s = [i \in 1 .. Len(s) |-> s[i]] /\ t = [i \in 1 .. Len(t) |-> t[i]]
  OBVIOUS
<1> QED BY <1>1

\* The rank that has the k-th element, and where.
LEMMA PlaceFacts ==
  ASSUME NEW m \in Nat \ {0}, NEW w \in Nat, NEW k \in 1 .. w * m
  PROVE  /\ (k - 1) \div m \in 0 .. w - 1 /\ (k - 1) % m \in 0 .. m - 1
         /\ k = ((k - 1) \div m) * m + (((k - 1) % m) + 1)
<1>1. k - 1 \in Nat /\ w * m \in Nat /\ k - 1 < w * m
  OBVIOUS
<1>2. (k - 1) \div m \in Nat /\ (k - 1) % m \in 0 .. m - 1 /\ k - 1 = m * ((k - 1) \div m) + ((k - 1) % m)
  BY <1>1, DivFacts
<1>3. PICK q \in Nat : q = (k - 1) \div m
  BY <1>2
<1>4. PICK r \in 0 .. m - 1 : r = (k - 1) % m
  BY <1>2
<1>5. k - 1 = m * q + r /\ m * q \in Nat /\ m * q = q * m
  BY <1>2, <1>3, <1>4
<1>6. ~ (q >= w)
  <2> SUFFICES ASSUME q >= w PROVE FALSE
    OBVIOUS
  <2>1. PICK d \in Nat : q = w + d
    BY <1>3
  <2>2. q * m = w * m + d * m /\ d * m \in Nat
    BY <2>1
  <2> QED BY <1>1, <1>4, <1>5, <2>2
<1>7. k = q * m + (r + 1)
  BY <1>5
<1> QED BY <1>3, <1>4, <1>6, <1>7

Element == (Params \cup {0}) \X Nat

\* The elements of a parameter.
LEMMA ElemsFacts ==
  ASSUME NEW p \in Params
  PROVE  /\ Numel[p] \in Nat /\ Elems(p) \in Seq(Element) /\ Len(Elems(p)) = Numel[p]
         /\ Elems(p) = [i \in 1 .. Numel[p] |-> <<p, i>>]
<1>1. Numel[p] \in Nat
  BY Weights
<1>2. \A i \in 1 .. Numel[p] : <<p, i>> \in Element
  BY <1>1 DEF Element
<1> QED BY <1>1, <1>2 DEF Elems

\* The shard of a rank (_partition_param).
LEMMA ShardFacts ==
  ASSUME NEW p \in Params, NEW r \in Ranks
  PROVE  /\ Shard(Elems(p), r) \in Seq(Element) /\ Len(Shard(Elems(p), r)) = PartNumel[p]
         /\ \A j \in 1 .. PartNumel[p] :
              Shard(Elems(p), r)[j] = IF r * PartNumel[p] + j <= Numel[p]
                                      THEN <<p, r * PartNumel[p] + j>> ELSE PadElem
<1> DEFINE m == PartNumel[p]
           t == Elems(p)
<1>0. /\ r \in Nat /\ m \in Nat /\ m = PartitionSize(Numel[p]) /\ Numel[p] \in Nat
      /\ Len(t) = Numel[p] /\ t = [i \in 1 .. Numel[p] |-> <<p, i>>]
  BY Weights, ElemsFacts, LayoutAssumption DEF Ranks, PartNumel
<1>a. r * m \in Nat
  BY <1>0
<1> HIDE DEF m, t
<1>1. Shard(t, r) = [j \in 1 .. m |-> IF r * m + j <= Len(t) THEN t[r * m + j] ELSE PadElem]
  BY <1>0 DEF Shard
<1>2. ASSUME NEW j \in 1 .. m
      PROVE  /\ Shard(t, r)[j] = IF r * m + j <= Numel[p] THEN <<p, r * m + j>> ELSE PadElem
             /\ Shard(t, r)[j] \in Element
  <2>1. PICK x \in Nat \ {0} : x = r * m + j
    BY <1>0, <1>a
  <2>2. Shard(t, r)[j] = IF x <= Numel[p] THEN t[x] ELSE PadElem
    BY <1>0, <1>1, <2>1
  <2>3. x <= Numel[p] => t[x] = <<p, x>>
    BY <1>0
  <2>4. PadElem \in Element /\ <<p, x>> \in Element
    BY DEF Element, PadElem
  <2> QED BY <2>1, <2>2, <2>3, <2>4
<1>3. Shard(t, r) \in Seq(Element) /\ Len(Shard(t, r)) = m
  <2>1. Shard(t, r) \in [1 .. m -> Element]
    BY <1>1, <1>2
  <2> QED BY <1>0, <2>1, FunctionIsSeq
<1> QED BY <1>2, <1>3 DEF m, t

\* The shards of all ranks, one after the other, are the parameter and padding
\* (AllGatherHandle.wait).
LEMMA PiecesFacts ==
  ASSUME NEW p \in Params, NEW ss, ss = [r \in 1 .. World |-> Shard(Elems(p), r - 1)]
  PROVE  Narrow(FlattenSeq(ss), 0, Numel[p]) = Elems(p)
<1> DEFINE m == PartNumel[p]
           n == Numel[p]
           t == FlattenSeq(ss)
<1>0. /\ World \in Nat /\ n \in Nat /\ m \in Nat \ {0} /\ n <= World * m
      /\ \A r \in 1 .. World : r - 1 \in Ranks
  <2>1. World \in Nat \ {0} /\ n \in Nat
    BY Weights, LayoutAssumption
  <2>2. m = CeilDiv(n) /\ m \in Nat \ {0}
    BY Weights
  <2>3. n <= World * m
    <3>1. World * CeilDiv(n) >= n /\ CeilDiv(n) \in Nat
      BY <2>1, PartFacts
    <3> HIDE DEF m, n
    <3> QED BY <2>1, <2>2, <3>1
  <2> QED BY <2>1, <2>2, <2>3 DEF Ranks
<1>1. ss \in Seq(Seq(Element)) /\ Len(ss) = World /\ \A i \in 1 .. Len(ss) : Len(ss[i]) = m
  BY <1>0, ShardFacts
<1>2. /\ t \in Seq(Element) /\ Len(t) = World * m
      /\ \A i \in 1 .. World : \A j \in 1 .. m : t[(i - 1) * m + j] = ss[i][j]
  <2> HIDE DEF m
  <2>1. m \in Nat /\ Even(ss, m)
    BY <1>0, <1>1 DEF Even
  <2>2. /\ t \in Seq(Element) /\ Len(t) = Len(ss) * m
        /\ \A i \in 1 .. Len(ss) : \A j \in 1 .. m : t[(i - 1) * m + j] = ss[i][j]
    <3>1. ss \in Seq(Seq(Element))
      BY <1>1
    <3>2. RowsOf(ss, m, Element)
      BY ONLY <2>1, <3>1, FlattenEven
    <3> QED BY <3>2 DEF RowsOf
  <2> QED BY <1>1, <2>2, Zenon
<1> HIDE DEF t
<1>3. ASSUME NEW k \in 1 .. n PROVE t[k] = <<p, k>>
  <2>0. k \in 1 .. World * m
    BY <1>0
  <2>1. PICK q \in 0 .. World - 1 : q = (k - 1) \div m
    BY <1>0, <2>0, PlaceFacts
  <2>2. PICK r \in 0 .. m - 1 : r = (k - 1) % m
    BY <1>0, <2>0, PlaceFacts
  <2>3. k = q * m + (r + 1)
    BY <1>0, <2>0, <2>1, <2>2, PlaceFacts
  <2>4. q + 1 \in 1 .. World /\ r + 1 \in 1 .. m /\ (q + 1) - 1 = q /\ q \in Ranks
    BY <1>0 DEF Ranks
  <2>5. t[q * m + (r + 1)] = ss[q + 1][r + 1]
    BY <1>2, <2>4
  <2>6. ss[q + 1] = Shard(Elems(p), q)
    BY <2>4
  <2>7. Shard(Elems(p), q)[r + 1] = <<p, q * m + (r + 1)>>
    <3>1. \A j \in 1 .. m : Shard(Elems(p), q)[j] = IF q * m + j <= n THEN <<p, q * m + j>> ELSE PadElem
      BY <2>4, ShardFacts
    <3> HIDE DEF m, n
    <3>2. q * m + (r + 1) <= n
      BY <2>3
    <3> QED BY <2>4, <3>1, <3>2
  <2> QED BY <2>3, <2>5, <2>6, <2>7
<1> HIDE DEF m, n
<1>4. /\ Narrow(t, 0, n) \in Seq(Element) /\ Len(Narrow(t, 0, n)) = n
      /\ \A j \in 1 .. n : Narrow(t, 0, n)[j] = t[0 + j]
  <2>1. 0 \in Nat /\ n \in Nat /\ Fits(t, 0, n) /\ t \in Seq(Element)
    BY <1>0, <1>2 DEF Fits
  <2> QED BY ONLY <2>1, NarrowFacts
<1>5. \A k \in 1 .. n : Narrow(t, 0, n)[k] = <<p, k>>
  BY <1>0, <1>3, <1>4
<1>6. Narrow(t, 0, n) = Elems(p)
  <2>1. Elems(p) \in Seq(Element) /\ Len(Elems(p)) = n /\ Elems(p) = [i \in 1 .. n |-> <<p, i>>]
    BY ElemsFacts DEF n
  <2>2. \A k \in 1 .. n : Elems(p)[k] = <<p, k>>
    BY <2>1
  <2> QED BY <1>4, <1>5, <2>1, <2>2, SameSeq
<1> QED BY <1>6 DEF n, t

\* Where the i-th parameter is in the part of a rank.
PartOffset(ps, i) == SumPart(SubSeq(ps, 1, i - 1))

\* The place of a parameter in the part is a number, and it fits.
LEMMA PartOffsetFacts ==
  ASSUME NEW ps \in Seq(Params), NEW i \in 1 .. Len(ps)
  PROVE  /\ PartOffset(ps, i) = Sums(PartNumel, ps)[i - 1]
         /\ PartOffset(ps, i) \in Nat /\ PartNumel[ps[i]] \in Nat /\ SumPart(ps) \in Nat
         /\ PartOffset(ps, i) + PartNumel[ps[i]] <= SumPart(ps)
<1>1. Len(ps) \in Nat /\ i - 1 \in 0 .. Len(ps) /\ i \in 0 .. Len(ps) /\ ps[i] \in Params
  OBVIOUS
<1>2. PartNumel \in [Params -> Nat]
  BY Weights
<1>3. /\ SubSeq(ps, 1, i - 1) \in Seq(Params)
      /\ Total(PartNumel, SubSeq(ps, 1, i - 1)) = Sums(PartNumel, ps)[i - 1]
  <2>1. PICK k \in 0 .. Len(ps) : k = i - 1
    BY <1>1
  <2>2. SubSeq(ps, 1, k) \in Seq(Params) /\ Total(PartNumel, SubSeq(ps, 1, k)) = Sums(PartNumel, ps)[k]
    BY <1>2, SumsPrefix
  <2> QED BY <2>1, <2>2
<1>4. PartOffset(ps, i) = Sums(PartNumel, ps)[i - 1]
  BY <1>3, SumPartIs DEF PartOffset
<1>5. /\ \A k \in 0 .. Len(ps) : Sums(PartNumel, ps)[k] \in Nat
      /\ \A k \in 1 .. Len(ps) : Sums(PartNumel, ps)[k] = Sums(PartNumel, ps)[k - 1] + PartNumel[ps[k]]
  <2>1. SumsAre(PartNumel, ps)
    BY <1>2, SumsFacts
  <2> QED BY <2>1 DEF SumsAre
<1>6. SumPart(ps) = Sums(PartNumel, ps)[Len(ps)]
  BY SumPartIs DEF Total
<1>7. Sums(PartNumel, ps)[i] <= Sums(PartNumel, ps)[Len(ps)]
  <2>1. Len(ps) \in i .. Len(ps)
    BY <1>1
  <2> QED BY <1>1, <1>2, <2>1, SumsMonotone
<1>8. Len(ps) \in 0 .. Len(ps)
  BY <1>1
<1>9. PartNumel[ps[i]] \in Nat
  BY <1>1, <1>2
<1>10. Sums(PartNumel, ps)[i] = PartOffset(ps, i) + PartNumel[ps[i]]
  BY <1>4, <1>5
<1>11. PartOffset(ps, i) \in Nat /\ SumPart(ps) \in Nat
  BY <1>1, <1>4, <1>5, <1>6, <1>8
<1> QED BY <1>4, <1>6, <1>7, <1>9, <1>10, <1>11

\* What a rank puts in a coalesced gather.
LEMMA InputFacts ==
  ASSUME NEW ps \in Seq(Params), NEW r \in Ranks
  PROVE  /\ CoalescedInput(ps, r) \in Seq(Element) /\ Len(CoalescedInput(ps, r)) = SumPart(ps)
         /\ \A i \in 1 .. Len(ps) : \A j \in 1 .. PartNumel[ps[i]] :
              CoalescedInput(ps, r)[PartOffset(ps, i) + j] = Shard(Elems(ps[i]), r)[j]
<1> DEFINE n == Len(ps)
           ss == [i \in DOMAIN ps |-> Shard(Elems(ps[i]), r)]
           f == Sums(PartNumel, ps)
<1>0. n \in Nat /\ DOMAIN ps = 1 .. n /\ \A i \in 1 .. n : ps[i] \in Params
  OBVIOUS
<1>1. /\ f \in [0 .. n -> Nat] /\ f[0] = 0 /\ f[n] = SumPart(ps)
      /\ \A i \in 1 .. n : f[i] = f[i - 1] + PartNumel[ps[i]]
  <2>1. PartNumel \in [Params -> Nat]
    BY Weights
  <2>a. SumsAre(PartNumel, ps)
    BY <2>1, SumsFacts
  <2>2. IsSums(f, PartNumel, ps)
    BY <2>a DEF SumsAre
  <2>3. f[n] = SumPart(ps)
    BY SumPartIs DEF Total
  <2> QED BY <2>2, <2>3 DEF IsSums
<1>2. \A i \in 1 .. n : Shard(Elems(ps[i]), r) \in Seq(Element) /\ Len(Shard(Elems(ps[i]), r)) = PartNumel[ps[i]]
  BY <1>0, ShardFacts
<1>3. ss \in [1 .. n -> Seq(Element)]
  BY <1>0, <1>2
<1>4. /\ ss \in Seq(Seq(Element)) /\ Len(ss) = n
      /\ \A i \in 1 .. n : ss[i] = Shard(Elems(ps[i]), r) /\ Len(ss[i]) = PartNumel[ps[i]]
  <2>1. ss \in Seq(Seq(Element)) /\ Len(ss) = n
    BY <1>0, <1>3, FunctionIsSeq
  <2> QED BY <1>0, <1>2, <2>1
<1>5. \A i \in 1 .. n : PartOffset(ps, i) = f[i - 1]
  BY PartOffsetFacts
<1>6. CoalescedInput(ps, r) = FlattenSeq(ss)
  BY DEF CoalescedInput
<1> HIDE DEF n, ss, f
<1>7. Offsets(f, ss)
  BY <1>1, <1>4 DEF Offsets
<1>8. /\ FlattenSeq(ss) \in Seq(Element) /\ Len(FlattenSeq(ss)) = f[Len(ss)]
      /\ \A i \in 1 .. Len(ss) : \A j \in 1 .. Len(ss[i]) : FlattenSeq(ss)[f[i - 1] + j] = ss[i][j]
  <2>1. ss \in Seq(Seq(Element))
    BY <1>4
  <2>2. SlicesOf(ss, f, Element)
    BY ONLY <1>7, <2>1, FlattenSlices
  <2> QED BY <2>2 DEF SlicesOf
<1>9. CoalescedInput(ps, r) \in Seq(Element) /\ Len(CoalescedInput(ps, r)) = SumPart(ps)
  BY <1>1, <1>4, <1>6, <1>8
<1>10. ASSUME NEW i \in 1 .. n, NEW j \in 1 .. PartNumel[ps[i]]
       PROVE  CoalescedInput(ps, r)[PartOffset(ps, i) + j] = Shard(Elems(ps[i]), r)[j]
  <2>1. i \in 1 .. Len(ss) /\ j \in 1 .. Len(ss[i]) /\ ss[i] = Shard(Elems(ps[i]), r)
    BY <1>4
  <2>2. FlattenSeq(ss)[f[i - 1] + j] = ss[i][j]
    BY <1>8, <2>1
  <2>3. PartOffset(ps, i) = f[i - 1]
    BY <1>5
  <2> QED BY <1>6, <2>1, <2>2, <2>3
<1> QED BY <1>9, <1>10 DEF n

\* What a coalesced gather leaves: the part of every rank.
Gathered(ps) == AllGathered([r \in Ranks |-> CoalescedInput(ps, r)])

\* The gathered buffer has the part of rank r - 1 at (r - 1) * SumPart(ps).
LEMMA GatheredFacts ==
  ASSUME NEW ps \in Seq(Params)
  PROVE  /\ Gathered(ps) \in Seq(Element) /\ Len(Gathered(ps)) = World * SumPart(ps)
         /\ \A r \in 1 .. World :
              /\ (r - 1) * SumPart(ps) \in Nat
              /\ (r - 1) * SumPart(ps) + SumPart(ps) <= World * SumPart(ps)
              /\ \A j \in 1 .. SumPart(ps) :
                   Gathered(ps)[(r - 1) * SumPart(ps) + j] = CoalescedInput(ps, r - 1)[j]
<1> DEFINE ss == [r \in 1 .. World |-> CoalescedInput(ps, r - 1)]
<1>0. World \in Nat /\ \A r \in 1 .. World : r - 1 \in Ranks
  BY LayoutAssumption DEF Ranks
<1>1. Gathered(ps) = FlattenSeq(ss)
  <2> DEFINE in == [r \in Ranks |-> CoalescedInput(ps, r)]
  <2>1. \A r \in 1 .. World : in[r - 1] = CoalescedInput(ps, r - 1)
    BY <1>0
  <2>2. Gathered(ps) = FlattenSeq([r \in 1 .. World |-> in[r - 1]])
    BY DEF Gathered, AllGathered
  <2> HIDE DEF in
  <2>3. [r \in 1 .. World |-> in[r - 1]] = ss
    BY <2>1
  <2> QED BY <2>2, <2>3
<1>2. \A r \in 1 .. World : CoalescedInput(ps, r - 1) \in Seq(Element) /\ Len(CoalescedInput(ps, r - 1)) = SumPart(ps)
  BY <1>0, InputFacts
<1>3. ss \in [1 .. World -> Seq(Element)]
  BY <1>2
<1>4. ss \in Seq(Seq(Element)) /\ Len(ss) = World
  BY <1>0, <1>3, FunctionIsSeq
<1>5. Even(ss, SumPart(ps))
  BY <1>2, <1>4 DEF Even
<1>6. SumPart(ps) \in Nat
  BY SumPartIs
<1>7. \A r \in 1 .. World : ss[r] = CoalescedInput(ps, r - 1)
  OBVIOUS
<1> HIDE DEF ss
<1>8. /\ FlattenSeq(ss) \in Seq(Element) /\ Len(FlattenSeq(ss)) = Len(ss) * SumPart(ps)
      /\ \A i \in 1 .. Len(ss) : \A j \in 1 .. SumPart(ps) :
              FlattenSeq(ss)[(i - 1) * SumPart(ps) + j] = ss[i][j]
  <2>1. RowsOf(ss, SumPart(ps), Element)
    BY <1>4, <1>5, <1>6, FlattenEven
  <2> QED BY <2>1 DEF RowsOf
<1>9. ASSUME NEW s \in Nat, NEW r \in 1 .. World
      PROVE  (r - 1) * s \in Nat /\ (r - 1) * s + s <= World * s
  <2>1. PICK d \in Nat : World = r + d
    BY <1>0
  <2>2. World * s = r * s + d * s /\ d * s \in Nat /\ r * s = (r - 1) * s + s /\ (r - 1) * s \in Nat /\ r * s \in Nat
    BY <1>0, <2>1
  <2> QED BY <2>2
<1>10. ASSUME NEW r \in 1 .. World
       PROVE  /\ (r - 1) * SumPart(ps) \in Nat
              /\ (r - 1) * SumPart(ps) + SumPart(ps) <= World * SumPart(ps)
              /\ \A j \in 1 .. SumPart(ps) :
                   Gathered(ps)[(r - 1) * SumPart(ps) + j] = CoalescedInput(ps, r - 1)[j]
  <2>1. (r - 1) * SumPart(ps) \in Nat /\ (r - 1) * SumPart(ps) + SumPart(ps) <= World * SumPart(ps)
    BY <1>6, <1>9
  <2>2. ss[r] = CoalescedInput(ps, r - 1) /\ r \in 1 .. Len(ss)
    BY <1>4, <1>7
  <2>3. ASSUME NEW j \in 1 .. SumPart(ps)
        PROVE  Gathered(ps)[(r - 1) * SumPart(ps) + j] = CoalescedInput(ps, r - 1)[j]
    BY <1>1, <1>8, <2>2
  <2> QED BY <2>1, <2>3
<1>11. Len(Gathered(ps)) = World * SumPart(ps) /\ Gathered(ps) \in Seq(Element)
  BY <1>1, <1>4, <1>8
<1> QED BY <1>10, <1>11

\* AllGatherCoalescedHandle.wait: the parameter comes out of the pieces.
LEMMA CoalescedIsParam ==
  ASSUME NEW ps \in Seq(Params), NEW i \in 1 .. Len(ps)
  PROVE  GatherCoalesced(ps, i, Gathered(ps)) = Elems(ps[i])
<1> DEFINE s == SumPart(ps)
           off == PartOffset(ps, i)
           p == ps[i]
           m == PartNumel[p]
           t == Gathered(ps)
           ss == [r \in 1 .. World |-> Shard(Elems(p), r - 1)]
           pieces == [r \in 1 .. World |-> Narrow(t, (r - 1) * s + off, m)]
<1>0. p \in Params /\ World \in Nat /\ \A r \in 1 .. World : r - 1 \in Ranks
  BY LayoutAssumption DEF Ranks
<1>1. off \in Nat /\ m \in Nat /\ s \in Nat /\ off + m <= s
  BY PartOffsetFacts
<1>2. t \in Seq(Element) /\ Len(t) = World * s
  BY GatheredFacts
<1>3. ASSUME NEW r \in 1 .. World PROVE Narrow(t, (r - 1) * s + off, m) = Shard(Elems(p), r - 1)
  <2>1. /\ (r - 1) * s \in Nat /\ (r - 1) * s + s <= World * s
        /\ \A j \in 1 .. s : t[(r - 1) * s + j] = CoalescedInput(ps, r - 1)[j]
    BY GatheredFacts
  <2>2. \A j \in 1 .. m : CoalescedInput(ps, r - 1)[off + j] = Shard(Elems(p), r - 1)[j]
    BY <1>0, InputFacts
  <2>3. Shard(Elems(p), r - 1) \in Seq(Element) /\ Len(Shard(Elems(p), r - 1)) = m
    BY <1>0, ShardFacts
  <2> HIDE DEF s, off, m, t, p
  <2>4. PICK a \in Nat : a = (r - 1) * s
    BY <2>1
  <2>5. PICK b \in Nat : b = World * s
    BY <1>2
  <2>6. a + s <= b /\ Len(t) = b /\ \A j \in 1 .. s : t[a + j] = CoalescedInput(ps, r - 1)[j]
    BY <1>2, <2>1, <2>4, <2>5
  <2>7. a + off \in Nat /\ Fits(t, a + off, m)
    BY <1>1, <2>6 DEF Fits
  <2>8. /\ Narrow(t, a + off, m) \in Seq(Element) /\ Len(Narrow(t, a + off, m)) = m
        /\ \A j \in 1 .. m : Narrow(t, a + off, m)[j] = t[(a + off) + j]
    BY <1>1, <1>2, <2>7, NarrowFacts
  <2>9. ASSUME NEW j \in 1 .. m PROVE Narrow(t, a + off, m)[j] = Shard(Elems(p), r - 1)[j]
    <3>1. (a + off) + j = a + (off + j) /\ off + j \in 1 .. s
      BY <1>1
    <3>2. t[a + (off + j)] = CoalescedInput(ps, r - 1)[off + j]
      BY <2>6, <3>1
    <3> QED BY <2>2, <2>8, <3>1, <3>2
  <2>10. Narrow(t, a + off, m) = Shard(Elems(p), r - 1)
    BY <2>3, <2>8, <2>9, SameSeq
  <2> QED BY <2>4, <2>10
<1>4. pieces = ss
  BY <1>3
<1>5. Narrow(FlattenSeq(ss), 0, Numel[p]) = Elems(p)
  BY <1>0, PiecesFacts
<1>6. GatherCoalesced(ps, i, t) = Narrow(FlattenSeq(pieces), 0, Numel[p])
  BY DEF GatherCoalesced, PartOffset
<1> QED BY <1>4, <1>5, <1>6

\* _allgather_params: the parameter comes out of the output list.
LEMMA ListIsParam ==
  ASSUME NEW ps \in Seq(Params), NEW i \in 1 .. Len(ps)
  PROVE  GatherList(ps, i, Gathered(ps)) = Elems(ps[i])
<1> DEFINE s == SumPart(ps)
           off == PartOffset(ps, i)
           p == ps[i]
           m == PartNumel[p]
           n == Numel[p]
           t == Gathered(ps)
<1>0. /\ p \in Params /\ World \in Nat \ {0} /\ n \in Nat /\ m \in Nat \ {0} /\ n <= World * m
  <2>a. p \in Params
    OBVIOUS
  <2>b. \A q \in Params : Numel[q] \in Nat /\ PartNumel[q] = CeilDiv(Numel[q]) /\ PartNumel[q] \in Nat \ {0}
    BY Weights
  <2>1. World \in Nat \ {0} /\ n \in Nat /\ m = CeilDiv(n) /\ m \in Nat \ {0}
    BY <2>a, <2>b, LayoutAssumption
  <2>2. World * CeilDiv(n) >= n /\ CeilDiv(n) \in Nat
    BY <2>1, PartFacts
  <2>3. n <= World * m
    <3> HIDE DEF m, n
    <3> QED BY <2>1, <2>2
  <2> QED BY <2>1, <2>3
<1>1. off \in Nat /\ s \in Nat /\ off + m <= s
  BY PartOffsetFacts
<1>2. t \in Seq(Element) /\ Len(t) = World * s
  BY GatheredFacts
<1> HIDE DEF s, off, m, n, t, p
<1>3. Len(t) \div World = s
  <2>1. Len(t) = World * s + 0 /\ 0 \in 0 .. World - 1
    BY <1>0, <1>1, <1>2
  <2>2. (World * s + 0) \div World = s
    BY <1>0, <1>1, <2>1, DivUnique
  <2> QED BY <2>1, <2>2
<1>4. Scattered(t) = [r \in 1 .. World |-> Narrow(t, (r - 1) * s, s)]
  BY <1>3 DEF Scattered
<1>5. ASSUME NEW k \in 1 .. n
      PROVE  Scattered(t)[((k - 1) \div m) + 1][off + ((k - 1) % m) + 1] = <<p, k>>
  <2>0. k \in 1 .. World * m
    BY <1>0
  <2>1. PICK q \in 0 .. World - 1 : q = (k - 1) \div m
    BY <1>0, <2>0, PlaceFacts
  <2>2. PICK d \in 0 .. m - 1 : d = (k - 1) % m
    BY <1>0, <2>0, PlaceFacts
  <2>3. k = q * m + (d + 1)
    BY <1>0, <2>0, <2>1, <2>2, PlaceFacts
  <2>4. q + 1 \in 1 .. World /\ d + 1 \in 1 .. m /\ (q + 1) - 1 = q /\ q \in Ranks
    BY <1>0 DEF Ranks
  <2>5. Scattered(t)[q + 1] = Narrow(t, q * s, s)
    BY <1>4, <2>4
  <2>6. /\ q * s \in Nat /\ q * s + s <= World * s
        /\ \A j \in 1 .. s : t[q * s + j] = CoalescedInput(ps, q)[j]
    BY <2>4, GatheredFacts DEF t, s
  <2>7. PICK a \in Nat : a = q * s
    BY <2>6
  <2>8. Fits(t, a, s)
    BY <1>2, <2>6, <2>7 DEF Fits
  <2>9. \A j \in 1 .. s : Narrow(t, a, s)[j] = t[a + j]
    BY <1>1, <1>2, <2>8, NarrowFacts
  <2>10. off + d + 1 \in 1 .. s /\ off + d + 1 = off + (d + 1)
    BY <1>0, <1>1
  <2>11. Narrow(t, a, s)[off + d + 1] = CoalescedInput(ps, q)[off + (d + 1)]
    BY <2>6, <2>7, <2>9, <2>10
  <2>12. CoalescedInput(ps, q)[off + (d + 1)] = Shard(Elems(p), q)[d + 1]
    BY <2>4, InputFacts DEF off, p, m
  <2>13. Shard(Elems(p), q)[d + 1] = <<p, q * m + (d + 1)>>
    <3>1. \A j \in 1 .. m : Shard(Elems(p), q)[j] = IF q * m + j <= n THEN <<p, q * m + j>> ELSE PadElem
      BY <1>0, <2>4, ShardFacts DEF m, n
    <3>2. q * m + (d + 1) <= n
      BY <2>3
    <3> QED BY <2>4, <3>1, <3>2
  <2>14. Scattered(t)[q + 1][off + d + 1] = <<p, k>>
    BY <2>3, <2>5, <2>7, <2>11, <2>12, <2>13
  <2> QED BY <2>1, <2>2, <2>14
<1>6. GatherList(ps, i, t) =
        [k \in 1 .. n |-> Scattered(t)[((k - 1) \div m) + 1][off + ((k - 1) % m) + 1]]
  BY DEF GatherList, m, n, off, p, PartOffset
<1>7. GatherList(ps, i, t) = [k \in 1 .. n |-> <<p, k>>]
  BY <1>5, <1>6
<1> QED BY <1>7 DEF Elems, n, p, t

\* However a parameter is gathered, its elements come back.
LEMMA GathersRoundTrip == GatherRoundTrip
<1> SUFFICES ASSUME NEW n \in 1 .. Cardinality(Params), NEW i \in 1 .. n
             PROVE  LET ps == SubSeq(AllParams, 1, n)
                        buffer == AllGathered([r \in Ranks |-> CoalescedInput(ps, r)])
                        flats == [k \in 1 .. n |-> AllGathered([r \in Ranks |-> Shard(Elems(ps[k]), r)])]
                    IN  /\ GatherSingle(ps[i], flats[i]) = Elems(ps[i])
                        /\ GatherCoalesced(ps, i, buffer) = Elems(ps[i])
                        /\ GatherList(ps, i, buffer) = Elems(ps[i])
                        /\ GatherEach(ps, i, flats) = Elems(ps[i])
  BY Zenon DEF GatherRoundTrip
<1> DEFINE ps == SubSeq(AllParams, 1, n)
           flats == [k \in 1 .. n |-> AllGathered([r \in Ranks |-> Shard(Elems(ps[k]), r)])]
<1>1. ps \in Seq(Params) /\ Len(ps) = n /\ i \in 1 .. Len(ps) /\ ps[i] \in Params
  <2>1. AllParams \in Seq(Params) /\ Len(AllParams) = Cardinality(Params) /\ Len(AllParams) \in Nat
    BY AllParamsFacts
  <2>2. n \in 0 .. Len(AllParams)
    BY <2>1
  <2>3. ps \in Seq(Params) /\ Len(ps) = n
    BY <2>1, <2>2, SumsPrefix, Weights
  <2> QED BY <2>3
<1>2. flats[i] = FlattenSeq([r \in 1 .. World |-> Shard(Elems(ps[i]), r - 1)])
  <2> DEFINE in == [r \in Ranks |-> Shard(Elems(ps[i]), r)]
  <2>1. flats[i] = FlattenSeq([r \in 1 .. World |-> in[r - 1]])
    BY DEF AllGathered
  <2>2. \A r \in 1 .. World : in[r - 1] = Shard(Elems(ps[i]), r - 1)
    BY LayoutAssumption DEF Ranks
  <2> HIDE DEF in
  <2>3. [r \in 1 .. World |-> in[r - 1]] = [r \in 1 .. World |-> Shard(Elems(ps[i]), r - 1)]
    BY <2>2
  <2> QED BY <2>1, <2>3
<1>3. Narrow(flats[i], 0, Numel[ps[i]]) = Elems(ps[i])
  BY <1>1, <1>2, PiecesFacts
<1>4. GatherCoalesced(ps, i, Gathered(ps)) = Elems(ps[i]) /\ GatherList(ps, i, Gathered(ps)) = Elems(ps[i])
  BY <1>1, CoalescedIsParam, ListIsParam
<1> QED BY <1>3, <1>4 DEF GatherSingle, GatherEach, Gathered

-----------------------------------------------------------------------------
(* The reduction of one gradient *)

Cell == SUBSET (Nat \X Nat)

\* The piece of rank r of a tensor, filled up with padding.
PieceOf(t, m, r) == [j \in 1 .. m |-> IF r * m + j <= Len(t) THEN t[r * m + j] ELSE PadCell]

PieceIs(t, m, r, S) ==
  /\ PieceOf(t, m, r) \in Seq(S) /\ Len(PieceOf(t, m, r)) = m /\ r * m \in Nat
  /\ \A j \in 1 .. m : PieceOf(t, m, r)[j] = IF r * m + j <= Len(t) THEN t[r * m + j] ELSE PadCell

\* A piece has m elements, those of the tensor and then padding.
LEMMA PieceFacts ==
  ASSUME NEW S, PadCell \in S, NEW t \in Seq(S), NEW m \in Nat, NEW r \in Nat
  PROVE  PieceIs(t, m, r, S)
<1>0. r * m \in Nat /\ Len(t) \in Nat
  OBVIOUS
<1>1. ASSUME NEW j \in 1 .. m PROVE (IF r * m + j <= Len(t) THEN t[r * m + j] ELSE PadCell) \in S
  <2>1. PICK x \in Nat \ {0} : x = r * m + j
    BY <1>0
  <2>2. x <= Len(t) => t[x] \in S
    BY <1>0
  <2>3. PadCell \in S
    OBVIOUS
  <2> QED BY <2>1, <2>2, <2>3
<1>2. PieceOf(t, m, r) \in [1 .. m -> S]
  BY <1>1 DEF PieceOf
<1>3. PieceOf(t, m, r) \in Seq(S) /\ Len(PieceOf(t, m, r)) = m
  BY <1>2, FunctionIsSeq
<1> QED BY <1>0, <1>3 DEF PieceOf, PieceIs

\* The piece of a tensor of cells is a tensor of cells.
LEMMA PieceType ==
  ASSUME NEW t \in Seq(Cell), NEW m \in Nat, NEW r \in Nat
  PROVE  PieceOf(t, m, r) \in Seq(Cell) /\ Len(PieceOf(t, m, r)) = m
<1>1. PadCell \in Cell
  BY DEF PadCell, Cell
<1>2. PieceIs(t, m, r, Cell)
  BY <1>1, PieceFacts
<1> QED BY <1>2 DEF PieceIs

\* What is cut of a tensor, with what is missing appended (Chunk and Padded,
\* GradPiece).
IsCut(c, t, m, r) == c = Slice(t, r * m, (r + 1) * m)

\* What is cut is as long as the tensor reaches, and with the padding it is the piece.
LEMMA CutFacts ==
  ASSUME NEW S, PadCell \in S, NEW t \in Seq(S), NEW m \in Nat, NEW r \in Nat, NEW c, IsCut(c, t, m, r)
  PROVE  /\ c \in Seq(S) /\ Len(c) \in 0 .. m
         /\ \A j \in 1 .. m : j <= Len(c) <=> r * m + j <= Len(t)
         /\ Padded(c, m) = PieceOf(t, m, r)
<1>0. PICK a \in Nat : a = r * m
  OBVIOUS
<1>1. PICK n \in Nat : n = Len(t)
  OBVIOUS
<1>2. (r + 1) * m = a + m
  BY <1>0
<1> DEFINE b == IF a + m < n THEN a + m ELSE n
<1>3. c = SubSeq(t, a + 1, b)
  BY <1>0, <1>1, <1>2 DEF IsCut, Slice
<1>4. b \in Nat /\ b <= n /\ b <= a + m
  BY <1>1
<1>5. /\ c \in Seq(S) /\ Len(c) = IF a + 1 <= b THEN b - a ELSE 0
      /\ \A j \in 1 .. Len(c) : c[j] = t[a + j]
  <2> HIDE DEF b
  <2>1. \A i \in a + 1 .. b : t[i] \in S
    BY <1>1, <1>4
  <2>2. PICK x \in Int : x = a + 1
    OBVIOUS
  <2>3. PICK y \in Int : y = b
    BY <1>4
  <2>4. /\ SubSeq(t, x, y) \in Seq(S) /\ Len(SubSeq(t, x, y)) = IF x <= y THEN y - x + 1 ELSE 0
        /\ \A j \in 1 .. y - x + 1 : SubSeq(t, x, y)[j] = t[x + j - 1]
    BY <2>1, <2>2, <2>3, SubSeqProperties
  <2>5. c = SubSeq(t, x, y)
    BY <1>3, <2>2, <2>3
  <2>6. Len(c) = IF a + 1 <= b THEN b - a ELSE 0
    BY <1>4, <2>2, <2>3, <2>4, <2>5
  <2>7. ASSUME NEW j \in 1 .. Len(c) PROVE c[j] = t[a + j]
    <3>1. j \in 1 .. y - x + 1 /\ x + j - 1 = a + j
      BY <1>4, <2>2, <2>3, <2>6
    <3> QED BY <2>4, <2>5, <3>1
  <2> QED BY <2>4, <2>5, <2>6, <2>7
<1>a. c \in Seq(S)
  BY <1>5
<1>6. PICK k \in Nat : k = Len(c)
  BY ONLY <1>a
<1>7. k <= m /\ \A j \in 1 .. m : j <= k <=> a + j <= n
  BY <1>4, <1>5, <1>6
<1> HIDE DEF b
<1> DEFINE pad == [j \in 1 .. m - k |-> PadCell]
<1>8. pad \in Seq(S) /\ Len(pad) = m - k /\ \A j \in 1 .. m - k : pad[j] = PadCell
  <2>1. pad \in [1 .. m - k -> S] /\ m - k \in Nat
    BY <1>7
  <2>2. pad \in Seq(S) /\ Len(pad) = m - k
    BY <2>1, FunctionIsSeq
  <2> QED BY <2>2
<1> HIDE DEF pad
<1> DEFINE u == c \o pad
<1>9. /\ u \in Seq(S) /\ Len(u) = k + (m - k)
      /\ \A j \in 1 .. k : u[j] = c[j]
      /\ \A j \in 1 .. m - k : u[k + j] = pad[j]
  <2>1. c \in Seq(S) /\ pad \in Seq(S)
    BY <1>5, <1>8
  <2>2. /\ u \in Seq(S) /\ Len(u) = Len(c) + Len(pad)
        /\ \A j \in 1 .. Len(c) : u[j] = c[j]
        /\ \A j \in 1 .. Len(pad) : u[Len(c) + j] = pad[j]
    <3>1. ConcatIs(c, pad, S)
      BY ONLY <2>1, ConcatFacts
    <3> QED BY <3>1 DEF ConcatIs
  <2> QED BY <1>6, <1>8, <2>2
<1> HIDE DEF u
<1>10. ASSUME NEW j \in 1 .. m PROVE u[j] = IF a + j <= n THEN t[a + j] ELSE PadCell
  <2>1. CASE j <= k
    BY <1>5, <1>6, <1>7, <1>9, <2>1
  <2>2. CASE ~ (j <= k)
    <3>1. j - k \in 1 .. m - k /\ k + (j - k) = j
      BY <2>2
    <3>2. u[j] = PadCell
      BY <1>8, <1>9, <3>1
    <3> QED BY <1>7, <2>2, <3>2
  <2> QED BY <2>1, <2>2
<1>11. u = PieceOf(t, m, r)
  <2>1. /\ PieceOf(t, m, r) \in Seq(S) /\ Len(PieceOf(t, m, r)) = m
        /\ \A j \in 1 .. m : PieceOf(t, m, r)[j] = IF a + j <= n THEN t[a + j] ELSE PadCell
    <3>1. /\ PieceOf(t, m, r) \in Seq(S) /\ Len(PieceOf(t, m, r)) = m
          /\ \A j \in 1 .. m : PieceOf(t, m, r)[j] = IF r * m + j <= Len(t) THEN t[r * m + j] ELSE PadCell
      <4>1. PieceIs(t, m, r, S)
        BY PieceFacts
      <4> QED BY <4>1 DEF PieceIs
    <3> QED BY ONLY <1>0, <1>1, <3>1
  <2>2. Len(u) = m /\ u \in Seq(S)
    BY <1>7, <1>9
  <2>3. Len(u) = Len(PieceOf(t, m, r)) /\ \A j \in 1 .. Len(u) : u[j] = PieceOf(t, m, r)[j]
    BY <1>10, <2>1, <2>2
  <2> QED BY ONLY <2>1, <2>2, <2>3, SameSeq
<1>12. Padded(c, m) = u
  BY <1>6, Zenon DEF Padded, u, pad
<1>13. Len(c) \in 0 .. m /\ \A j \in 1 .. m : j <= Len(c) <=> r * m + j <= Len(t)
  BY ONLY <1>0, <1>1, <1>6, <1>7
<1> QED BY <1>a, <1>11, <1>12, <1>13

\* The input of the DPU for one tensor, and what is left of it in the output.
LEMMA OneReduced ==
  ASSUME NEW t \in Seq(Cell), Rank \in Nat
  PROVE  ReduceScattered(Interleaved(<<t>>)) = PieceOf(t, CeilDiv(Len(t)), Rank)
<1> DEFINE m == CeilDiv(Len(t))
           ss == [r \in 1 .. World |-> PieceOf(t, m, r - 1)]
<1>0. PadCell \in Cell /\ m \in Nat /\ World \in Nat \ {0} /\ Rank + 1 \in 1 .. World /\ (Rank + 1) - 1 = Rank
  BY PartFacts, LayoutAssumption DEF PadCell, Cell
<1>1. ASSUME NEW r \in 1 .. World
      PROVE  FlattenSeq([i \in DOMAIN <<t>> |-> Padded(Chunk(<<t>>[i], r - 1), CeilDiv(Len(<<t>>[i])))])
               = PieceOf(t, m, r - 1)
  <2> DEFINE x == Padded(Chunk(t, r - 1), m)
  <2>1. PICK q \in Nat : q = r - 1
    OBVIOUS
  <2>2. x = PieceOf(t, m, q)
    <3>1. IsCut(Chunk(t, r - 1), t, m, q)
      BY <2>1 DEF IsCut, Chunk
    <3>2. m \in Nat /\ PadCell \in Cell
      BY <1>0
    <3> HIDE DEF m
    <3>3. Padded(Chunk(t, r - 1), m) = PieceOf(t, m, q)
      BY <2>1, <3>1, <3>2, CutFacts
    <3> QED BY <3>3
  <2>3. [i \in DOMAIN <<t>> |-> Padded(Chunk(<<t>>[i], r - 1), CeilDiv(Len(<<t>>[i])))] = <<x>>
    OBVIOUS
  <2>4. x \in Seq(Cell)
    BY <1>0, <2>2, PieceType
  <2> HIDE DEF x
  <2>5. <<x>> \in Seq(Seq(Cell)) /\ Len(<<x>>) = 1 /\ <<x>>[1] = x /\ <<x>> # <<>>
    BY <2>4
  <2> DEFINE P(f) == FlattenSeq(<<x>>) = f[Len(<<x>>)]
  <2>6. PICK f \in [1 .. Len(<<x>>) -> Seq(Cell)] :
          f[1] = <<x>>[1] /\ (\A i \in 1 .. Len(<<x>>) : i # 1 => f[i] = f[i - 1] \o <<x>>[i]) /\ P(f)
    BY <2>5, FlattenFacts, Zenon
  <2>7. FlattenSeq(<<x>>) = x
    BY <2>5, <2>6
  <2> QED BY <2>1, <2>2, <2>3, <2>7
<1>2. Interleaved(<<t>>) = FlattenSeq(ss)
  BY <1>1 DEF Interleaved
<1>p. ASSUME NEW q \in Nat
      PROVE  PieceOf(t, m, q) \in Seq(Cell) /\ Len(PieceOf(t, m, q)) = m
  BY <1>0, PieceType
<1>3. ASSUME NEW r \in 1 .. World
      PROVE  PieceOf(t, m, r - 1) \in Seq(Cell) /\ Len(PieceOf(t, m, r - 1)) = m
  <2>1. r - 1 \in Nat
    BY <1>0
  <2> HIDE DEF m
  <2> QED BY <1>p, <2>1
<1>4. ss \in [1 .. World -> Seq(Cell)]
  BY <1>3
<1>5. ss \in Seq(Seq(Cell)) /\ Len(ss) = World
  BY <1>0, <1>4, FunctionIsSeq
<1>6. Even(ss, m)
  BY <1>3, <1>5 DEF Even
<1>7. ss[Rank + 1] = PieceOf(t, m, Rank)
  BY <1>0
<1>8. PieceOf(t, m, Rank) \in Seq(Cell) /\ Len(PieceOf(t, m, Rank)) = m
  <2> HIDE DEF m
  <2> QED BY <1>p
<1> HIDE DEF ss, m
<1>9. /\ FlattenSeq(ss) \in Seq(Cell) /\ Len(FlattenSeq(ss)) = Len(ss) * m
      /\ \A i \in 1 .. Len(ss) : \A j \in 1 .. m : FlattenSeq(ss)[(i - 1) * m + j] = ss[i][j]
  <2>1. m \in Nat /\ ss \in Seq(Seq(Cell))
    BY <1>0, <1>5
  <2>2. RowsOf(ss, m, Cell)
    BY ONLY <1>6, <2>1, FlattenEven
  <2> QED BY <2>2 DEF RowsOf
<1> DEFINE v == FlattenSeq(ss)
<1>10. \A j \in 1 .. m : v[Rank * m + j] = PieceOf(t, m, Rank)[j]
  BY <1>0, <1>5, <1>7, <1>9
<1>11. v \in Seq(Cell) /\ Len(v) = World * m
  BY <1>5, <1>9
<1> HIDE DEF v
<1>12. Len(v) \div World = m
  <2>1. Len(v) = World * m + 0 /\ 0 \in 0 .. World - 1
    BY <1>0, <1>11
  <2>2. (World * m + 0) \div World = m
    BY <1>0, <2>1, DivUnique
  <2> QED BY <2>1, <2>2
<1>13. PICK a \in Nat : a = Rank * m
  BY <1>0
<1>14. Fits(v, a, m)
  <2>1. PICK d \in Nat : World = Rank + 1 + d
    BY <1>0
  <2>2. World * m = Rank * m + m + d * m /\ d * m \in Nat
    BY <1>0, <2>1
  <2> QED BY <1>0, <1>11, <1>13, <2>2 DEF Fits
<1>15. /\ Narrow(v, a, m) \in Seq(Cell) /\ Len(Narrow(v, a, m)) = m
       /\ \A j \in 1 .. m : Narrow(v, a, m)[j] = v[a + j]
  BY <1>0, <1>11, <1>14, NarrowFacts
<1>16. Narrow(v, a, m) = PieceOf(t, m, Rank)
  BY <1>8, <1>10, <1>13, <1>15, SameSeq
<1>17. ReduceScattered(v) = Narrow(v, a, m)
  BY <1>12, <1>13 DEF ReduceScattered
<1> QED BY <1>2, <1>16, <1>17 DEF v, m

\* The sum over the ranks, the one gradient as the DPU reduces it and as it is
\* reduced on its own.
GradOf(p) == [r \in Ranks |-> [i \in 1 .. Numel[p] |-> {<<r, i>>}]]
SumOf(p) == [i \in 1 .. Numel[p] |-> UNION {GradOf(p)[r][i] : r \in Ranks}]

\* The gradients of every rank and their sum have the shape of the parameter.
LEMMA GradFacts ==
  ASSUME NEW p \in Params
  PROVE  /\ Numel[p] \in Nat /\ PartNumel[p] \in Nat /\ PartitionSize(Numel[p]) = PartNumel[p]
         /\ CeilDiv(Numel[p]) = PartNumel[p] /\ Rank \in Ranks /\ Rank \in Nat /\ 0 \in Ranks
         /\ \A r \in Ranks : r \in Nat /\ GradOf(p)[r] \in Seq(Cell) /\ Len(GradOf(p)[r]) = Numel[p]
                             /\ DOMAIN GradOf(p)[r] = 1 .. Numel[p]
         /\ SumOf(p) \in Seq(Cell) /\ Len(SumOf(p)) = Numel[p]
<1>1. /\ Numel[p] \in Nat /\ PartNumel[p] \in Nat /\ PartitionSize(Numel[p]) = PartNumel[p]
      /\ CeilDiv(Numel[p]) = PartNumel[p]
  BY Weights DEF PartNumel
<1>2. Rank \in Ranks /\ Rank \in Nat /\ 0 \in Ranks /\ \A r \in Ranks : r \in Nat
  BY LayoutAssumption DEF Ranks
<1>3. PICK n \in Nat : n = Numel[p]
  BY <1>1
<1>4. ASSUME NEW r \in Ranks
      PROVE  GradOf(p)[r] \in Seq(Cell) /\ Len(GradOf(p)[r]) = n /\ DOMAIN GradOf(p)[r] = 1 .. n
  <2>1. GradOf(p)[r] = [i \in 1 .. n |-> {<<r, i>>}]
    BY <1>3 DEF GradOf
  <2>2. \A i \in 1 .. n : {<<r, i>>} \in Cell
    BY <1>2, <1>3 DEF Cell
  <2>3. GradOf(p)[r] \in [1 .. n -> Cell]
    BY <2>1, <2>2
  <2> QED BY <2>3, FunctionIsSeq
<1>5. SumOf(p) \in [1 .. n -> Cell]
  <2>1. ASSUME NEW i \in 1 .. n PROVE UNION {GradOf(p)[r][i] : r \in Ranks} \in Cell
    <3>1. \A r \in Ranks : GradOf(p)[r][i] \in Cell
      BY <1>4
    <3> QED BY <3>1 DEF Cell
  <2> QED BY <1>3, <2>1 DEF SumOf
<1>6. SumOf(p) \in Seq(Cell) /\ Len(SumOf(p)) = n
  BY <1>5, FunctionIsSeq
<1> QED BY <1>1, <1>2, <1>3, <1>4, <1>6

\* A gradient reduced on its own leaves this rank the piece of the sum, by NCCL and
\* by the DPU.
LEMMA OnItsOwn ==
  ASSUME NEW p \in Params
  PROVE  LET m == PartNumel[p]
             out == PieceOf(SumOf(p), m, Rank)
         IN  /\ ReduceScattered(Interleaved(<<SumOf(p)>>)) = out
             /\ PiecesReduced(GradOf(p), Rank) = out
<1> DEFINE m == PartNumel[p]
           n == Numel[p]
           g == GradOf(p)
           sum == SumOf(p)
           out == PieceOf(sum, m, Rank)
<1>0. /\ n \in Nat /\ m \in Nat /\ PartitionSize(n) = m /\ CeilDiv(n) = m /\ Rank \in Ranks /\ Rank \in Nat /\ 0 \in Ranks
      /\ \A r \in Ranks : r \in Nat /\ g[r] \in Seq(Cell) /\ Len(g[r]) = n
      /\ sum \in Seq(Cell) /\ Len(sum) = n /\ PadCell \in Cell
  BY GradFacts DEF PadCell, Cell
<1>a. sum = [i \in 1 .. n |-> UNION {g[r][i] : r \in Ranks}]
  BY DEF SumOf
<1> HIDE DEF m, n, g, sum
<1>1. ReduceScattered(Interleaved(<<sum>>)) = out
  BY <1>0, OneReduced
<1>2. ASSUME NEW q \in Ranks PROVE GradPiece(g[q], Rank) = PieceOf(g[q], m, Rank)
  <2>1. PICK c \in {Slice(g[q], Rank * m, (Rank + 1) * m)} : c = Slice(g[q], Rank * m, (Rank + 1) * m)
    OBVIOUS
  <2>2. IsCut(c, g[q], m, Rank)
    BY <2>1 DEF IsCut
  <2>3. Padded(c, m) = PieceOf(g[q], m, Rank)
    BY <1>0, <2>2, CutFacts
  <2>4. GradPiece(g[q], Rank) = c \o [j \in 1 .. m - Len(c) |-> PadCell]
    BY <1>0, <2>1 DEF GradPiece
  <2> QED BY <2>3, <2>4 DEF Padded
<1> DEFINE pieces == [q \in Ranks |-> GradPiece(g[q], Rank)]
<1>3. /\ \A q \in Ranks : pieces[q] = PieceOf(g[q], m, Rank)
      /\ DOMAIN pieces[0] = 1 .. m
  <2>1. \A q \in Ranks : pieces[q] = PieceOf(g[q], m, Rank)
    BY <1>2
  <2>2. DOMAIN pieces[0] = 1 .. m
    BY <1>0, <2>1 DEF PieceOf
  <2> QED BY <2>1, <2>2
<1>4. PiecesReduced(g, Rank) = [j \in 1 .. m |-> UNION {pieces[q][j] : q \in Ranks}]
  BY <1>3 DEF PiecesReduced
<1> HIDE DEF pieces
<1>5. ASSUME NEW j \in 1 .. m PROVE UNION {pieces[q][j] : q \in Ranks} = out[j]
  <2>1. PICK x \in Nat \ {0} : x = Rank * m + j
    BY <1>0
  <2>2. \A q \in Ranks : pieces[q][j] = IF x <= n THEN g[q][x] ELSE PadCell
    BY <1>0, <1>3, <2>1 DEF PieceOf
  <2>3. out[j] = IF x <= n THEN sum[x] ELSE PadCell
    BY <1>0, <2>1 DEF PieceOf
  <2>4. CASE x <= n
    <3>1. {pieces[q][j] : q \in Ranks} = {g[q][x] : q \in Ranks}
      BY <2>2, <2>4
    <3>2. sum[x] = UNION {g[q][x] : q \in Ranks}
      BY <1>0, <1>a, <2>4
    <3> QED BY <2>3, <2>4, <3>1, <3>2
  <2>5. CASE ~ (x <= n)
    <3>1. \A q \in Ranks : pieces[q][j] = {}
      BY <2>2, <2>5 DEF PadCell
    <3>2. UNION {pieces[q][j] : q \in Ranks} = {}
      BY <3>1
    <3> QED BY <2>3, <2>5, <3>2 DEF PadCell
  <2> QED BY <2>4, <2>5
<1>6. PiecesReduced(g, Rank) = out
  <2>1. out = [j \in 1 .. m |-> out[j]]
    BY DEF PieceOf
  <2> QED BY <1>4, <1>5, <2>1
<1> QED BY <1>1, <1>6 DEF m, g, sum

\* One gradient reduced on its own and then partitioned is what the DPU leaves.
LEMMA ReducesRoundTrip == ReduceRoundTrip
<1> SUFFICES ASSUME NEW p \in Params
             PROVE  LET m == PartNumel[p]
                        whole == GradReduced(GradOf(p), Rank)
                        zeros == [j \in 1 .. m |-> PadCell]
                        first == GradPartitioned(whole, Rank, zeros, FALSE)
                        older == [j \in 1 .. m |-> {<<World, j>>}]
                    IN  /\ Narrow(ReduceScattered(Interleaved(<<SumOf(p)>>)), 0, ViewNumel[p]) = Narrow(first, 0, ViewNumel[p])
                        /\ \A j \in ViewNumel[p] + 1 .. m : first[j] = PadCell
                        /\ GradPartitioned(whole, Rank, older, TRUE) = [j \in DOMAIN older |-> older[j] \cup first[j]]
  BY Zenon DEF ReduceRoundTrip, SumOf, GradOf
<1> DEFINE m == PartNumel[p]
           n == Numel[p]
           g == GradOf(p)
           t == GradReduced(g, Rank)
           zeros == [j \in 1 .. m |-> PadCell]
           first == GradPartitioned(t, Rank, zeros, FALSE)
           older == [j \in 1 .. m |-> {<<World, j>>}]
           out == PieceOf(SumOf(p), m, Rank)
<1>0. /\ n \in Nat /\ m \in Nat /\ PartitionSize(n) = m /\ CeilDiv(n) = m /\ Rank \in Ranks /\ Rank \in Nat
      /\ g[Rank] \in Seq(Cell) /\ Len(g[Rank]) = n /\ DOMAIN g[Rank] = 1 .. n /\ Len(SumOf(p)) = n
  BY GradFacts
<1>1. ReduceScattered(Interleaved(<<SumOf(p)>>)) = out /\ PiecesReduced(g, Rank) = out
  BY OnItsOwn
<1>2. PICK a \in Nat : a = Rank * m
  BY <1>0
<1>3. out = [j \in 1 .. m |-> IF a + j <= n THEN SumOf(p)[a + j] ELSE PadCell]
  BY <1>0, <1>2 DEF PieceOf
<1>v. ViewNumel[p] \in 0 .. m /\ \A j \in 1 .. m : j <= ViewNumel[p] <=> a + j <= n
  <2> DEFINE S == Element \cup {PadCell}
             c == Chunk(Elems(p), Rank)
  <2>1. PadCell \in S /\ Elems(p) \in Seq(S) /\ Len(Elems(p)) = n
    <3>1. Elems(p) \in Seq(Element) /\ Len(Elems(p)) = n
      BY ElemsFacts
    <3>2. \A i \in 1 .. n : Elems(p)[i] \in S
      BY <3>1
    <3> HIDE DEF n
    <3>3. Elems(p) \in [1 .. n -> S]
      BY <3>1, <3>2
    <3> QED BY <1>0, <3>3, FunctionIsSeq
  <2>2. IsCut(c, Elems(p), m, Rank)
    BY <1>0, <2>1 DEF IsCut, Chunk
  <2> HIDE DEF S, c, m, n
  <2>3. Len(c) \in 0 .. m /\ \A j \in 1 .. m : j <= Len(c) <=> Rank * m + j <= Len(Elems(p))
    BY <1>0, <2>1, <2>2, CutFacts
  <2>4. ViewNumel[p] = Len(c)
    BY DEF ViewNumel, c
  <2> QED BY <1>2, <2>1, <2>3, <2>4
<1>4. t = [i \in 1 .. n |-> IF i - a \in DOMAIN out THEN out[i - a] ELSE g[Rank][i]]
  BY <1>0, <1>1, <1>2 DEF GradReduced
<1> HIDE DEF m, n, g, t, out
<1>5. t \in Seq({t[i] : i \in 1 .. n}) /\ Len(t) = n /\ DOMAIN out = 1 .. m
  <2>1. t \in [1 .. n -> {t[i] : i \in 1 .. n}]
    BY <1>4
  <2>2. t \in Seq({t[i] : i \in 1 .. n}) /\ Len(t) = n
    BY <1>0, <2>1, FunctionIsSeq
  <2> QED BY <1>3, <2>2
<1>6. ASSUME NEW j \in 1 .. m
      PROVE  /\ a + j <= n => t[a + j] = out[j]
             /\ a + j > n => out[j] = PadCell
  <2>1. CASE a + j <= n
    <3>1. PICK x \in 1 .. n : x = a + j
      BY <1>0, <1>2, <2>1
    <3>2. x - a = j /\ x - a \in DOMAIN out
      BY <1>0, <1>2, <1>5, <3>1
    <3> QED BY <1>0, <1>4, <2>1, <3>1, <3>2
  <2>2. CASE a + j > n
    BY <1>0, <1>2, <1>3, <2>2
  <2> QED BY <1>0, <1>2, <2>1, <2>2
<1>7. first = out
  <2>1. first = [j \in 1 .. m |-> IF a + j > n THEN zeros[j] ELSE t[a + j]]
    BY <1>0, <1>2, <1>5 DEF GradPartitioned
  <2>2. \A j \in 1 .. m : (IF a + j > n THEN zeros[j] ELSE t[a + j]) = out[j]
    BY <1>0, <1>2, <1>6
  <2>3. out = [j \in 1 .. m |-> out[j]]
    BY <1>3
  <2> HIDE DEF first, zeros
  <2> QED BY <2>1, <2>2, <2>3
<1>8. ASSUME NEW j \in ViewNumel[p] + 1 .. m PROVE out[j] = PadCell
  BY <1>0, <1>2, <1>6, <1>v
<1>9. GradPartitioned(t, Rank, older, TRUE) = [j \in 1 .. m |-> older[j] \cup out[j]]
  <2>1. GradPartitioned(t, Rank, older, TRUE) = [j \in 1 .. m |-> IF a + j > n THEN older[j] ELSE older[j] \cup t[a + j]]
    BY <1>0, <1>2, <1>5 DEF GradPartitioned
  <2>2. \A j \in 1 .. m : (IF a + j > n THEN older[j] ELSE older[j] \cup t[a + j]) = older[j] \cup out[j]
    <3>1. ASSUME NEW j \in 1 .. m
          PROVE  (IF a + j > n THEN older[j] ELSE older[j] \cup t[a + j]) = older[j] \cup out[j]
      <4>1. CASE a + j > n
        <5>1. out[j] = {}
          BY <1>6, <4>1 DEF PadCell
        <5> HIDE DEF older
        <5> QED BY <4>1, <5>1
      <4>2. CASE ~ (a + j > n)
        <5>1. t[a + j] = out[j]
          BY <1>0, <1>2, <1>6, <4>2
        <5> HIDE DEF older
        <5> QED BY <4>2, <5>1
      <4> QED BY <4>1, <4>2
    <3> QED BY <3>1
  <2> HIDE DEF older
  <2> QED BY <2>1, <2>2
<1>10. DOMAIN older = 1 .. m
  OBVIOUS
<1> HIDE DEF first, older
<1> QED BY <1>1, <1>7, <1>8, <1>9, <1>10 DEF first, older, zeros, t, g, m, n

\* Neither a gather nor a reduction loses, repeats or misplaces an element, for
\* every set of parameters, number of ranks and rank.
THEOREM LayoutIsExact == LayoutRoundTrip
<1> QED BY GathersRoundTrip, ReducesRoundTrip DEF LayoutRoundTrip

-----------------------------------------------------------------------------
(* The places of a parameter: its sub-group, its part of a bank *)

\* The elements of the sequences, one sequence after the other, increase.
Ordered(gs) ==
  \A g, h \in 1 .. Len(gs) : \A i \in 1 .. Len(gs[g]) : \A k \in 1 .. Len(gs[h]) :
    g < h \/ (g = h /\ i < k) => gs[g][i] < gs[h][k]
AllBelow(gs, b) == \A g \in 1 .. Len(gs) : \A i \in 1 .. Len(gs[g]) : gs[g][i] < b

\* An element larger than the others at the end of the last sequence.
LEMMA OrderedGrows ==
  ASSUME NEW d \in Seq(Seq(Nat)), NEW o \in Seq(Nat), NEW p \in Nat,
         Ordered(Append(d, o)), AllBelow(Append(d, o), p)
  PROVE  /\ Ordered(Append(d, Append(o, p)))
         /\ \A b \in Nat : p < b => AllBelow(Append(d, Append(o, p)), b)
<1> DEFINE m == Len(d) + 1
           n == Len(o) + 1
           a == Append(d, o)
           e == Append(d, Append(o, p))
<1>1. /\ m \in Nat /\ n \in Nat /\ Len(a) = m /\ Len(e) = m /\ a[m] = o /\ e[m] = Append(o, p)
      /\ \A g \in 1 .. m : g # m => a[g] = d[g] /\ e[g] = d[g] /\ d[g] \in Seq(Nat)
  OBVIOUS
<1>2. Len(Append(o, p)) = n /\ Append(o, p)[n] = p /\ \A i \in 1 .. n : i # n => Append(o, p)[i] = o[i] /\ i \in 1 .. Len(o)
  OBVIOUS
<1>3. \A i \in 1 .. Len(o) : o[i] \in Nat
  OBVIOUS
<1> HIDE DEF m, n, a, e
<1>4. ASSUME NEW g \in 1 .. m, NEW i \in 1 .. Len(e[g]), ~ (g = m /\ i = n)
      PROVE  i \in 1 .. Len(a[g]) /\ e[g][i] = a[g][i] /\ e[g][i] \in Nat
  <2>1. CASE g = m
    BY <1>1, <1>2, <1>3, <1>4, <2>1
  <2>2. CASE g # m
    <3>1. a[g] = d[g] /\ e[g] = d[g] /\ d[g] \in Seq(Nat)
      BY <1>1, <2>2
    <3>2. d[g][i] \in Nat
      BY <3>1
    <3> QED BY <3>1, <3>2
  <2> QED BY <2>1, <2>2
<1>5. /\ \A g, h \in 1 .. m : \A i \in 1 .. Len(a[g]) : \A k \in 1 .. Len(a[h]) :
           g < h \/ (g = h /\ i < k) => a[g][i] < a[h][k]
      /\ \A g \in 1 .. m : \A i \in 1 .. Len(a[g]) : a[g][i] < p
  BY <1>1 DEF Ordered, AllBelow, a
<1>6. ASSUME NEW g \in 1 .. m, NEW h \in 1 .. m, NEW i \in 1 .. Len(e[g]), NEW k \in 1 .. Len(e[h]),
             g < h \/ (g = h /\ i < k)
      PROVE  e[g][i] < e[h][k]
  <2>1. ~ (g = m /\ i = n)
    BY <1>1, <1>2, <1>6
  <2>2. i \in 1 .. Len(a[g]) /\ e[g][i] = a[g][i]
    BY <1>4, <2>1
  <2>3. CASE h = m /\ k = n
    <3>1. e[h][k] = p
      BY <1>1, <1>2, <2>3
    <3> QED BY <1>5, <2>2, <3>1
  <2>4. CASE ~ (h = m /\ k = n)
    <3>1. k \in 1 .. Len(a[h]) /\ e[h][k] = a[h][k]
      BY <1>4, <2>4
    <3> QED BY <1>5, <1>6, <2>2, <3>1
  <2> QED BY <2>3, <2>4
<1>7. ASSUME NEW b \in Nat, p < b, NEW g \in 1 .. m, NEW i \in 1 .. Len(e[g])
      PROVE  e[g][i] < b
  <2>1. CASE g = m /\ i = n
    BY <1>1, <1>2, <1>7, <2>1
  <2>2. CASE ~ (g = m /\ i = n)
    <3>1. i \in 1 .. Len(a[g]) /\ e[g][i] = a[g][i] /\ e[g][i] \in Nat
      BY <1>4, <2>2
    <3>2. e[g][i] < p
      BY <1>5, <3>1
    <3> QED BY <1>7, <3>1, <3>2
  <2> QED BY <2>1, <2>2
<1>8. Ordered(e)
  BY <1>1, <1>6 DEF Ordered
<1>9. \A b \in Nat : p < b => AllBelow(e, b)
  BY <1>1, <1>7 DEF AllBelow
<1> QED BY <1>8, <1>9 DEF e

\* An empty sequence more or less.
LEMMA OrderedEmpty ==
  ASSUME NEW d \in Seq(Seq(Nat))
  PROVE  /\ Ordered(d) <=> Ordered(Append(d, <<>>))
         /\ \A b \in Nat : AllBelow(d, b) <=> AllBelow(Append(d, <<>>), b)
<1> DEFINE m == Len(d)
           e == Append(d, <<>>)
<1>1. /\ m \in Nat /\ Len(e) = m + 1 /\ e[m + 1] = <<>> /\ Len(<<>>) = 0
      /\ \A g \in 1 .. m : e[g] = d[g]
  OBVIOUS
<1> HIDE DEF m, e
<1>2. \A g \in 1 .. m + 1 : \A i \in 1 .. Len(e[g]) : g \in 1 .. m /\ e[g] = d[g]
  BY <1>1
<1>3. Ordered(d) => Ordered(e)
  <2> SUFFICES ASSUME Ordered(d), NEW g \in 1 .. m + 1, NEW h \in 1 .. m + 1, NEW i \in 1 .. Len(e[g]),
                      NEW k \in 1 .. Len(e[h]), g < h \/ (g = h /\ i < k)
               PROVE  e[g][i] < e[h][k]
    BY <1>1 DEF Ordered
  <2>1. g \in 1 .. Len(d) /\ h \in 1 .. Len(d) /\ e[g] = d[g] /\ e[h] = d[h]
    BY <1>2 DEF m
  <2> QED BY <2>1 DEF Ordered
<1>4. Ordered(e) => Ordered(d)
  <2> SUFFICES ASSUME Ordered(e), NEW g \in 1 .. m, NEW h \in 1 .. m, NEW i \in 1 .. Len(d[g]), NEW k \in 1 .. Len(d[h]),
                      g < h \/ (g = h /\ i < k)
               PROVE  d[g][i] < d[h][k]
    BY <1>1 DEF Ordered, m
  <2>1. g \in 1 .. Len(e) /\ h \in 1 .. Len(e) /\ e[g] = d[g] /\ e[h] = d[h]
    BY <1>1
  <2> QED BY <2>1 DEF Ordered
<1>5. ASSUME NEW b \in Nat PROVE AllBelow(d, b) <=> AllBelow(e, b)
  <2>1. AllBelow(d, b) => AllBelow(e, b)
    BY <1>1, <1>2 DEF AllBelow, m
  <2>2. AllBelow(e, b) => AllBelow(d, b)
    <3>1. \A g \in 1 .. m : g \in 1 .. m + 1
      BY <1>1
    <3> QED BY <1>1, <3>1 DEF AllBelow, m
  <2> QED BY <2>1, <2>2
<1> QED BY <1>3, <1>4, <1>5 DEF e

\* The sub-groups hold the parameters in order, each once (_create_fp16_sub_groups).
LEMMA SubGroupsOrdered == Ordered(SubGroups)
<1> DEFINE n == Len(AllParams)
<1>1. /\ n \in Nat \ {0} /\ AllParams \in Seq(Params) /\ \A i \in 1 .. n : AllParams[i] \in Params
      /\ \A i, j \in 1 .. n : i < j => AllParams[i] < AllParams[j]
  BY AllParamsFacts
<1>a. Params \subseteq Nat
  BY LayoutAssumption
<1>b. \A i \in 1 .. n : AllParams[i] \in Nat
  BY <1>1, <1>a
<1>2. CASE SubGroupSize >= SumPart(AllParams)
  <2>1. SubGroups = <<AllParams>>
    BY <1>2, Zenon DEF SubGroups
  <2>2. Len(SubGroups) = 1 /\ SubGroups[1] = AllParams
    BY <2>1
  <2> QED BY <1>1, <2>2 DEF Ordered
<1>3. CASE ~ (SubGroupSize >= SumPart(AllParams))
  <2> DEFINE f == CHOOSE g : IsSplit(g, n)
  <2>1. IsSplit(f, n)
    BY <1>1, SplitExists
  <2>2. SubGroups = f[n].done
    BY <1>3, Zenon DEF SubGroups, IsSplit, Closed, Split0
  <2> HIDE DEF f
  <2>3. \A k \in 0 .. n : f[k] = IF k = 0 THEN Split0 ELSE Closed(f[k - 1], AllParams[k], k = n)
    BY <2>1, Zenon DEF IsSplit
  <2> DEFINE Typ(s) == s \in [open : Seq(Nat), done : Seq(Seq(Nat))]
             Gs(s) == Append(s.done, s.open)
             Ok(s, k) == /\ Typ(s)
                         /\ Ordered(Gs(s))
                         /\ \A i \in k + 1 .. n : AllBelow(Gs(s), AllParams[i])
                         /\ k = n => s.open = <<>>
             T == {k \in Nat : k <= n => Ok(f[k], k)}
  <2>4. 0 \in T
    <3>1. f[0] = [open |-> <<>>, done |-> <<>>] /\ 0 # n
      BY <1>1, <2>3 DEF Split0
    <3>2. [open |-> <<>>, done |-> <<>>] \in [open : Seq(Nat), done : Seq(Seq(Nat))]
      OBVIOUS
    <3>3. Typ(f[0]) /\ Gs(f[0]) = <<<<>>>>
      BY <3>1, <3>2
    <3>4. Ordered(<<<<>>>>) /\ \A b \in Nat : AllBelow(<<<<>>>>, b)
      BY DEF Ordered, AllBelow
    <3> HIDE DEF Typ, Gs
    <3>5. Ok(f[0], 0)
      BY <1>b, <3>1, <3>3, <3>4
    <3> HIDE DEF Ok
    <3> QED BY <3>5
  <2>5. ASSUME NEW k \in Nat, k \in T PROVE k + 1 \in T
    <3> SUFFICES ASSUME k + 1 <= n PROVE Ok(f[k + 1], k + 1)
      OBVIOUS
    <3>1. Ok(f[k], k) /\ k < n
      BY <1>1, <2>5
    <3> DEFINE s == f[k]
               p == AllParams[k + 1]
               g == Append(s.open, p)
    <3>2. f[k + 1] = Closed(s, p, k + 1 = n)
      <4>1. k + 1 \in 0 .. n /\ k + 1 # 0 /\ (k + 1) - 1 = k
        BY <1>1
      <4> QED BY <2>3, <4>1
    <3>3. Typ(s) /\ p \in Nat /\ s.open \in Seq(Nat) /\ s.done \in Seq(Seq(Nat)) /\ g \in Seq(Nat)
      BY <1>1, <1>b, <3>1
    <3>4. Ordered(Append(s.done, s.open)) /\ AllBelow(Append(s.done, s.open), p)
      <4>1. k + 1 \in k + 1 .. n
        BY <1>1
      <4> QED BY <3>1, <4>1
    <3> HIDE DEF s, p
    <3>5. /\ Ordered(Append(s.done, g))
          /\ \A b \in Nat : p < b => AllBelow(Append(s.done, g), b)
      BY <3>3, <3>4, OrderedGrows
    <3>6. \A i \in k + 2 .. n : AllBelow(Append(s.done, g), AllParams[i])
      <4> SUFFICES ASSUME NEW i \in k + 2 .. n PROVE AllBelow(Append(s.done, g), AllParams[i])
        OBVIOUS
      <4>1. i \in 1 .. n /\ k + 1 \in 1 .. n /\ k + 1 < i
        BY <1>1
      <4>2. p < AllParams[i] /\ AllParams[i] \in Nat
        BY <1>1, <1>b, <4>1 DEF p
      <4> QED BY <3>5, <4>2
    <3> DEFINE G == Append(s.done, g)
    <3>7. G \in Seq(Seq(Nat))
      BY <3>3
    <3> HIDE DEF g
    <3>8. CASE SumPart(g) >= SubGroupSize \/ k + 1 = n
      <4>1. f[k + 1] = [open |-> <<>>, done |-> G]
        BY <3>2, <3>8 DEF Closed, g
      <4> HIDE DEF G
      <4>2. f[k + 1].open = <<>> /\ f[k + 1].done = G /\ Typ(f[k + 1])
        BY <3>7, <4>1
      <4>3. Ordered(Append(G, <<>>)) /\ \A b \in Nat : AllBelow(G, b) => AllBelow(Append(G, <<>>), b)
        BY <3>5, <3>7, OrderedEmpty DEF G
      <4>4. \A i \in k + 2 .. n : AllBelow(Append(G, <<>>), AllParams[i])
        <5>1. \A i \in k + 2 .. n : i \in 1 .. n
          OBVIOUS
        <5> QED BY <1>b, <3>6, <4>3, <5>1 DEF G
      <4>5. (k + 1) + 1 = k + 2
        OBVIOUS
      <4> HIDE DEF Typ
      <4> QED BY <4>2, <4>3, <4>4, <4>5
    <3>9. CASE ~ (SumPart(g) >= SubGroupSize \/ k + 1 = n)
      <4>1. f[k + 1] = [s EXCEPT !.open = g]
        BY <3>2, <3>9 DEF Closed, g
      <4>2. f[k + 1].open = g /\ f[k + 1].done = s.done /\ Typ(f[k + 1])
        BY <3>3, <4>1 DEF g
      <4>5. (k + 1) + 1 = k + 2
        OBVIOUS
      <4> HIDE DEF Typ
      <4> QED BY <3>5, <3>6, <3>9, <4>2, <4>5
    <3> QED BY <3>8, <3>9
  <2>6. n \in T
    <3>1. \A k \in Nat : k \in T
      <4> HIDE DEF T
      <4> QED BY <2>4, <2>5, Induction
    <3> QED BY <1>1, <3>1
  <2>7. Ok(f[n], n)
    BY <1>1, <2>6
  <2>8. f[n].done \in Seq(Seq(Nat)) /\ Ordered(Append(f[n].done, <<>>))
    BY <2>7
  <2>9. Ordered(f[n].done)
    BY <2>8, OrderedEmpty
  <2> QED BY <2>2, <2>9
<1> QED BY <1>2, <1>3

\* Where p is: in one sub-group, once.
PositionOf(p) == IndexOf(SubGroups[GroupOf[p]], p)
\* Every parameter is in one sub-group, at one position.
LEMMA PositionFacts ==
  ASSUME NEW p \in Params
  PROVE  /\ GroupOf[p] \in Groups /\ SubGroups[GroupOf[p]] \in Seq(Params)
         /\ PositionOf(p) \in 1 .. Len(SubGroups[GroupOf[p]]) /\ SubGroups[GroupOf[p]][PositionOf(p)] = p
         /\ \A h \in Groups : \A k \in 1 .. Len(SubGroups[h]) :
              SubGroups[h][k] = p => h = GroupOf[p] /\ k = PositionOf(p)
<1> DEFINE g == GroupOf[p]
           s == SubGroups[g]
           i == PositionOf(p)
<1>1. Groups = 1 .. Len(SubGroups) /\ SubGroups \in Seq(Seq(Params)) /\ Len(SubGroups) \in Nat
  BY SubGroupsFacts
<1>2. g \in Groups /\ p \in ToSet(s)
  <2>1. Grouped(SubGroups, p)
    BY SubGroupsFacts
  <2>2. PICK h \in Groups : \E j \in 1 .. Len(SubGroups[h]) : SubGroups[h][j] = p
    BY <1>1, <2>1 DEF Grouped
  <2>3. SubGroups[h] \in Seq(Params)
    BY <1>1
  <2>4. p \in ToSet(SubGroups[h])
    BY <2>2, <2>3 DEF ToSet
  <2> QED BY <2>4 DEF GroupOf
<1>3. s \in Seq(Params)
  BY <1>1, <1>2
<1>4. i \in DOMAIN s /\ s[i] = p
  <2>1. \E j \in DOMAIN s : s[j] = p
    BY <1>2 DEF ToSet
  <2> QED BY <2>1 DEF PositionOf, IndexOf
<1>5. i \in 1 .. Len(s)
  BY <1>3, <1>4
<1>6. ASSUME NEW h \in Groups, NEW k \in 1 .. Len(SubGroups[h]), SubGroups[h][k] = p
      PROVE  h = g /\ k = i
  <2>1. p \in Nat
    BY LayoutAssumption
  <2>2. h \in Nat /\ g \in Nat /\ h \in 1 .. Len(SubGroups) /\ g \in 1 .. Len(SubGroups)
    BY <1>1, <1>2
  <2>3. k \in Nat /\ i \in Nat
    BY <1>5
  <2>4. ~ (h < g \/ (h = g /\ k < i))
    <3>1. h < g \/ (h = g /\ k < i) => SubGroups[h][k] < s[i]
      BY <1>5, <2>2, SubGroupsOrdered DEF Ordered
    <3> QED BY <1>4, <1>6, <2>1, <3>1
  <2>5. ~ (g < h \/ (g = h /\ i < k))
    <3>1. g < h \/ (g = h /\ i < k) => s[i] < SubGroups[h][k]
      BY <1>5, <2>2, SubGroupsOrdered DEF Ordered
    <3> QED BY <1>4, <1>6, <2>1, <3>1
  <2> HIDE DEF g, i
  <2> QED BY <2>2, <2>3, <2>4, <2>5
<1> QED BY <1>2, <1>3, <1>4, <1>5, <1>6

\* The shards of a sequence of parameters follow each other.
LEMMA PartsApart ==
  ASSUME NEW ps \in Seq(Params), NEW i \in 1 .. Len(ps), NEW k \in 1 .. Len(ps), i < k
  PROVE  PartOffset(ps, i) + PartNumel[ps[i]] <= PartOffset(ps, k)
<1>1. Len(ps) \in Nat /\ PartNumel \in [Params -> Nat]
  BY Weights
<1>2. PartOffset(ps, i) = Sums(PartNumel, ps)[i - 1] /\ PartOffset(ps, k) = Sums(PartNumel, ps)[k - 1]
  BY PartOffsetFacts
<1>3. Sums(PartNumel, ps)[i] = Sums(PartNumel, ps)[i - 1] + PartNumel[ps[i]]
  <2>1. SumsAre(PartNumel, ps)
    BY <1>1, SumsFacts
  <2> QED BY <2>1 DEF SumsAre
<1>4. Sums(PartNumel, ps)[i] <= Sums(PartNumel, ps)[k - 1]
  <2>1. i \in 0 .. Len(ps) /\ k - 1 \in i .. Len(ps)
    BY <1>1
  <2> QED BY <1>1, <2>1, SumsMonotone
<1> QED BY <1>2, <1>3, <1>4

\* Every place belongs to one of them.
LEMMA PartsCover ==
  ASSUME NEW ps \in Seq(Params), NEW c \in 1 .. SumPart(ps)
  PROVE  \E i \in 1 .. Len(ps) : \E j \in 1 .. PartNumel[ps[i]] : c = PartOffset(ps, i) + j
<1> DEFINE f == Sums(PartNumel, ps)
           T == {i \in 1 .. Len(ps) : c <= f[i]}
<1>1. Len(ps) \in Nat /\ PartNumel \in [Params -> Nat]
  BY Weights
<1>2. /\ f[0] = 0 /\ \A i \in 0 .. Len(ps) : f[i] \in Nat
      /\ \A i \in 1 .. Len(ps) : f[i] = f[i - 1] + PartNumel[ps[i]] /\ PartNumel[ps[i]] \in Nat
  <2>1. SumsAre(PartNumel, ps)
    BY <1>1, SumsFacts
  <2> QED BY <2>1 DEF SumsAre
<1>3. SumPart(ps) = f[Len(ps)]
  BY SumPartIs DEF Total
<1>4. \A i \in 1 .. Len(ps) : PartOffset(ps, i) = f[i - 1]
  BY PartOffsetFacts
<1> HIDE DEF f
<1>5. Len(ps) \in T
  <2>1. Len(ps) # 0
    BY <1>2, <1>3
  <2> QED BY <1>1, <1>3, <2>1
<1>6. PICK i \in T : \A k \in T : i <= k
  <2>1. T \in SUBSET Nat /\ T # {}
    BY <1>5
  <2> HIDE DEF T
  <2> QED BY <2>1, Least
<1>7. i \in 1 .. Len(ps) /\ c <= f[i] /\ i - 1 \in 0 .. Len(ps)
  OBVIOUS
<1>8. f[i - 1] < c
  <2>1. CASE i = 1
    BY <1>2, <2>1
  <2>2. CASE i # 1
    <3>1. i - 1 \in 1 .. Len(ps) /\ i - 1 \notin T
      BY <1>6, <1>7, <2>2
    <3> QED BY <1>2, <1>7, <3>1
  <2> QED BY <2>1, <2>2
<1>9. c - f[i - 1] \in 1 .. PartNumel[ps[i]] /\ c = f[i - 1] + (c - f[i - 1])
  BY <1>2, <1>7, <1>8
<1> QED BY <1>4, <1>7, <1>9

\* The part of p in the buffers of its sub-group (set_grad_positions).
LEMMA GradPositionFacts ==
  ASSUME NEW p \in Params
  PROVE  /\ GradPosition[p] = PartOffset(SubGroups[GroupOf[p]], PositionOf(p))
         /\ GradPosition[p] \in Nat /\ PartNumel[p] \in Nat
         /\ GradPosition[p] + PartNumel[p] <= SumPart(SubGroups[GroupOf[p]])
         /\ \A q \in Params : q # p /\ GroupOf[q] = GroupOf[p] =>
              \/ GradPosition[p] + PartNumel[p] <= GradPosition[q]
              \/ GradPosition[q] + PartNumel[q] <= GradPosition[p]
<1>1. \A q \in Params : GradPosition[q] = PartOffset(SubGroups[GroupOf[q]], PositionOf(q))
  BY DEF GradPosition, PartOffset, PositionOf
<1>2. /\ SubGroups[GroupOf[p]] \in Seq(Params) /\ PositionOf(p) \in 1 .. Len(SubGroups[GroupOf[p]])
      /\ SubGroups[GroupOf[p]][PositionOf(p)] = p
  BY PositionFacts
<1>3. /\ PartOffset(SubGroups[GroupOf[p]], PositionOf(p)) \in Nat /\ PartNumel[p] \in Nat
      /\ PartOffset(SubGroups[GroupOf[p]], PositionOf(p)) + PartNumel[p] <= SumPart(SubGroups[GroupOf[p]])
  BY <1>2, PartOffsetFacts
<1>4. ASSUME NEW q \in Params, q # p, GroupOf[q] = GroupOf[p]
      PROVE  \/ GradPosition[p] + PartNumel[p] <= GradPosition[q]
             \/ GradPosition[q] + PartNumel[q] <= GradPosition[p]
  <2> DEFINE s == SubGroups[GroupOf[p]]
             i == PositionOf(p)
             k == PositionOf(q)
  <2>1. s \in Seq(Params) /\ i \in 1 .. Len(s) /\ s[i] = p
    BY <1>2
  <2>2. k \in 1 .. Len(s) /\ s[k] = q
    BY <1>4, PositionFacts
  <2>3. GradPosition[p] = PartOffset(s, i) /\ GradPosition[q] = PartOffset(s, k)
    BY <1>1, <1>4
  <2> HIDE DEF s, i, k
  <2>4. i < k \/ k < i
    BY <1>4, <2>1, <2>2
  <2> QED BY <2>1, <2>2, <2>3, <2>4, PartsApart
<1> QED BY <1>1, <1>3, <1>4

\* The elements of the shard: the view of its slice in the output of a
\* reduce-scatter is as long as what it holds of the parameter.
LEMMA ViewFacts ==
  ASSUME NEW p \in Params
  PROVE  /\ ViewNumel[p] \in 0 .. PartNumel[p]
         /\ \A j \in 1 .. PartNumel[p] : j <= ViewNumel[p] <=> Rank * PartNumel[p] + j <= Numel[p]
<1> DEFINE c == Chunk(Elems(p), Rank)
           S == Element \cup {PadCell}
           m == PartNumel[p]
<1>1. /\ Numel[p] \in Nat /\ Elems(p) \in Seq(S) /\ Len(Elems(p)) = Numel[p] /\ PadCell \in S
      /\ m = CeilDiv(Numel[p]) /\ m \in Nat /\ Rank \in Nat
  <2>1. Numel[p] \in Nat /\ Elems(p) \in Seq(Element) /\ Len(Elems(p)) = Numel[p]
    BY ElemsFacts
  <2>2. m = CeilDiv(Numel[p]) /\ m \in Nat /\ Rank \in Nat
    BY Weights, LayoutAssumption
  <2>3. Elems(p) \in Seq(S)
    BY <2>1
  <2> QED BY <2>1, <2>2, <2>3
<1>2. IsCut(c, Elems(p), m, Rank)
  BY <1>1 DEF IsCut, Chunk
<1>3. ViewNumel[p] = Len(c)
  BY DEF ViewNumel
<1> HIDE DEF c, S, m
<1>4. Len(c) \in 0 .. m /\ \A j \in 1 .. m : j <= Len(c) <=> Rank * m + j <= Numel[p]
  BY <1>1, <1>2, CutFacts
<1> QED BY <1>3, <1>4 DEF m

\* A shard that is not empty is partitioned.
LEMMA ShardNotEmpty ==
  ASSUME NEW p \in Params, NEW j \in 1 .. ViewNumel[p]
  PROVE  p \notin EmptyShards /\ j \in 1 .. PartNumel[p] /\ Rank * PartNumel[p] + j \in 1 .. Numel[p]
<1>1. /\ Rank \in Nat /\ PartNumel[p] \in Nat /\ Numel[p] \in Nat /\ Rank * PartNumel[p] \in Nat
      /\ PartNumel[p] * Rank = Rank * PartNumel[p]
  BY Weights, LayoutAssumption
<1>2. ViewNumel[p] \in 0 .. PartNumel[p]
  BY ViewFacts
<1>3. j \in 1 .. PartNumel[p]
  BY <1>1, <1>2
<1>4. Rank * PartNumel[p] + j <= Numel[p]
  BY <1>3, ViewFacts
<1>5. ~ (PartNumel[p] * Rank > Numel[p])
  BY <1>1, <1>3, <1>4
<1> QED BY <1>1, <1>3, <1>4, <1>5 DEF EmptyShards

\* Every element of the weights of a sub-group that is not padding has its place
\* in the bank (_move_to_flat_buffer against set_grad_positions).
LEMMA WeightFacts ==
  ASSUME NEW g \in Groups
  PROVE  /\ DOMAIN WeightLayout[g] = 1 .. SumPart(SubGroups[g]) /\ SumPart(SubGroups[g]) \in Nat
         /\ \A c \in 1 .. SumPart(SubGroups[g]) : WeightLayout[g][c] # PadElem =>
              \E p \in Params : \E j \in 1 .. ViewNumel[p] :
                /\ GroupOf[p] = g /\ c = GradPosition[p] + j
                /\ WeightLayout[g][c] = <<p, Rank * PartNumel[p] + j>>
<1> DEFINE s == SubGroups[g]
<1>1. s \in Seq(Params)
  BY SubGroupsFacts
<1>2. WeightLayout[g] = CoalescedInput(s, Rank)
  BY DEF WeightLayout, CoalescedInput
<1>3. Rank \in Ranks
  BY LayoutAssumption DEF Ranks
<1> HIDE DEF s
<1>4. /\ CoalescedInput(s, Rank) \in Seq(Element) /\ Len(CoalescedInput(s, Rank)) = SumPart(s)
      /\ \A i \in 1 .. Len(s) : \A j \in 1 .. PartNumel[s[i]] :
           CoalescedInput(s, Rank)[PartOffset(s, i) + j] = Shard(Elems(s[i]), Rank)[j]
  BY <1>1, <1>3, InputFacts
<1>5. ASSUME NEW c \in 1 .. SumPart(s), WeightLayout[g][c] # PadElem
      PROVE  \E p \in Params : \E j \in 1 .. ViewNumel[p] :
               /\ GroupOf[p] = g /\ c = GradPosition[p] + j
               /\ WeightLayout[g][c] = <<p, Rank * PartNumel[p] + j>>
  <2>1. PICK i \in 1 .. Len(s) : \E j \in 1 .. PartNumel[s[i]] : c = PartOffset(s, i) + j
    BY <1>1, PartsCover
  <2>2. PICK j \in 1 .. PartNumel[s[i]] : c = PartOffset(s, i) + j
    BY <2>1
  <2> DEFINE p == s[i]
  <2>3. p \in Params
    BY <1>1
  <2>4. g = GroupOf[p] /\ i = PositionOf(p)
    BY <2>3, PositionFacts DEF s
  <2>5. GradPosition[p] = PartOffset(s, i)
    BY <2>3, <2>4, GradPositionFacts DEF s
  <2>6. WeightLayout[g][c] = Shard(Elems(p), Rank)[j]
    BY <1>2, <1>4, <2>2
  <2> HIDE DEF p
  <2>7. j \in 1 .. PartNumel[p]
    BY DEF p
  <2>8. Shard(Elems(p), Rank)[j] = IF Rank * PartNumel[p] + j <= Numel[p] THEN <<p, Rank * PartNumel[p] + j>> ELSE PadElem
    BY <1>3, <2>3, <2>7, ShardFacts
  <2>9. Rank * PartNumel[p] + j <= Numel[p] /\ WeightLayout[g][c] = <<p, Rank * PartNumel[p] + j>>
    BY <1>5, <2>6, <2>8
  <2>10. j \in 1 .. ViewNumel[p]
    <3>1. ViewNumel[p] \in 0 .. PartNumel[p] /\ j <= ViewNumel[p]
      BY <2>3, <2>7, <2>9, ViewFacts
    <3> QED BY <2>7, <3>1
  <2>11. c = GradPosition[p] + j
    BY <2>2, <2>5
  <2> QED BY <2>3, <2>4, <2>9, <2>10, <2>11
<1>6. DOMAIN WeightLayout[g] = 1 .. SumPart(s) /\ SumPart(s) \in Nat
  <2>1. SumPart(s) \in Nat
    BY <1>1, SumPartIs
  <2>2. DOMAIN CoalescedInput(s, Rank) = 1 .. Len(CoalescedInput(s, Rank))
    BY <1>4
  <2> QED BY <1>2, <1>4, <2>1, <2>2
<1> QED BY <1>5, <1>6 DEF s

-----------------------------------------------------------------------------
(* The invariant of the loop and the Adam worker *)

SyncIters == Cardinality({i \in 1 .. MaxIters : Synchronous(i)})
NumGroups == Len(SubGroups)

\* Where the host thread is within an iteration.
InIteration == {"backward", "hook", "epilogue", "sync", "step", "groups", "flush", "update"}

Affinity == [cmd |-> "set_affinity", idx |-> 0]
Shutdown == [cmd |-> "shutdown", idx |-> 0]
StepOn(b) == [cmd |-> "step", idx |-> b]

CtlTypes ==
  /\ pc \in InIteration \cup {"start", "loop", "join", "end"}
  /\ iter \in 0 .. MaxIters /\ dpuSteps \in 0 .. iter /\ next \in Nat \ {0}
  /\ switch \in {0, 1} /\ stepPending \in BOOLEAN
  /\ master \in [Groups -> Seq(Nat)] /\ fp16 \in [Groups -> Seq(Nat)]
  /\ worker \in [st : {"boot", "idle", "step", "stopped"}, idx : {0, 1}, group : Nat \ {0}]

\* The fp32 and the fp16 weights have taken n gradients.
MasterAt(n) == \A g \in Groups : Len(master[g]) = n
WeightsAt(n) == \A g \in Groups : Len(fp16[g]) = n

\* The worker has no step to make.
Quiet == replies = <<>> /\ worker.st = "idle" /\ pipe \in {<<>>, <<Affinity>>}

\* Or it has one, on the bank nobody writes: not yet read from the pipe ...
StepSent(n) ==
  /\ replies = <<>> /\ worker.st = "idle"
  /\ pipe \in {<<StepOn(1 - switch)>>, <<Affinity, StepOn(1 - switch)>>}
  /\ MasterAt(n)

\* ... under way ...
StepTaken(n) ==
  /\ replies = <<>> /\ pipe = <<>>
  /\ worker.st = "step" /\ worker.idx = 1 - switch /\ worker.group \in 1 .. NumGroups + 1
  /\ \A g \in Groups : Len(master[g]) = IF g < worker.group THEN n + 1 ELSE n

\* ... or answered.
StepDone(n) == replies = <<"done">> /\ pipe = <<>> /\ worker.st = "idle" /\ MasterAt(n + 1)

Starting ==
  pc = "start" =>
    /\ iter = 0 /\ dpuSteps = 0 /\ pipe = <<>> /\ MasterAt(0) /\ WeightsAt(0)
    /\ \/ worker.st = "boot" /\ replies = <<>>
       \/ worker.st = "idle" /\ replies = <<"ready">>

Between ==
  pc = "loop" =>
    /\ Quiet
    /\ iter <= SyncIters => dpuSteps = 0 /\ MasterAt(iter) /\ WeightsAt(iter)
    /\ iter > SyncIters => dpuSteps = iter - SyncIters /\ MasterAt(iter - 1) /\ WeightsAt(iter - 1)

InSync ==
  pc \in InIteration /\ iter <= SyncIters =>
    /\ Quiet /\ iter >= 1 /\ dpuSteps = 0 /\ pc \notin {"flush", "update"}
    /\ pc # "groups" => MasterAt(iter - 1) /\ WeightsAt(iter - 1)
    /\ pc = "groups" => /\ next <= NumGroups + 1
                        /\ \A g \in Groups : /\ Len(master[g]) = IF g < next THEN iter ELSE iter - 1
                                             /\ Len(fp16[g]) = IF g < next THEN iter ELSE iter - 1

\* The first iteration on the delayed path sends no step, and waits for none.
InFirstDelayed ==
  pc \in InIteration /\ iter = SyncIters + 1 =>
    /\ Quiet /\ dpuSteps = 1 /\ ~ stepPending /\ pc \notin {"step", "groups"}
    /\ MasterAt(iter - 1) /\ WeightsAt(iter - 1)

InDelayed ==
  pc \in InIteration /\ iter > SyncIters + 1 =>
    /\ dpuSteps = iter - SyncIters /\ stepPending /\ pc \notin {"step", "groups"}
    /\ WeightsAt(iter - 2)
    /\ StepSent(iter - 2) \/ StepTaken(iter - 2) \/ StepDone(iter - 2)

Ending ==
  pc \in {"join", "end"} =>
    /\ replies = <<>> /\ worker.st \in {"idle", "stopped"}
    /\ pipe \in {<<>>, <<Shutdown>>, <<Affinity, Shutdown>>}

LoopInv == CtlTypes /\ Starting /\ Between /\ InSync /\ InFirstDelayed /\ InDelayed /\ Ending

\* The epochs up to DPU_THRESHOLD come first.
LEMMA SyncFacts ==
  /\ SyncIters \in Nat
  /\ \A i \in 1 .. MaxIters : Synchronous(i) <=> i <= SyncIters
<1> DEFINE Y == {i \in 1 .. MaxIters : Synchronous(i)}
<1>0. MaxIters \in Nat /\ StepsPerEpoch \in Nat /\ StepsPerEpoch > 0 /\ DpuThreshold \in Int
  BY ReduceAssumption
<1>1. ASSUME NEW i \in 1 .. MaxIters, NEW j \in 1 .. MaxIters, j <= i, Synchronous(i)
      PROVE  Synchronous(j)
  <2>1. \A a, b, s \in Nat : s > 0 /\ b <= a => b \div s <= a \div s
    <3> SUFFICES ASSUME NEW a \in Nat, NEW b \in Nat, NEW s \in Nat, s > 0, b <= a PROVE b \div s <= a \div s
      OBVIOUS
    <3>1. /\ a \div s \in Nat /\ a = s * (a \div s) + (a % s) /\ a % s \in Nat /\ a % s < s
          /\ b \div s \in Nat /\ b = s * (b \div s) + (b % s) /\ b % s \in Nat /\ b % s < s
      OBVIOUS
    <3>2. PICK x \in Nat, y \in Nat, u \in Nat, v \in Nat :
            x = a \div s /\ y = b \div s /\ u = a % s /\ v = b % s
      BY <3>1
    <3>3. a = s * x + u /\ b = s * y + v /\ u < s
      BY <3>1, <3>2
    <3>4. ~ (y >= x + 1)
      <4> SUFFICES ASSUME y >= x + 1 PROVE FALSE
        OBVIOUS
      <4>1. PICK k \in Nat : y = x + 1 + k
        BY <3>2
      <4>2. s * y = s * x + s + s * k /\ s * k \in Nat /\ s * x \in Nat
        BY <4>1
      <4>3. b = s * x + s + s * k + v
        BY <3>3, <4>2
      <4> QED BY <3>2, <3>3, <4>2, <4>3
    <3> QED BY <3>2, <3>4
  <2>2. (j - 1) \div StepsPerEpoch <= (i - 1) \div StepsPerEpoch
    BY <1>0, <1>1, <2>1
  <2>3. (j - 1) \div StepsPerEpoch \in Int /\ (i - 1) \div StepsPerEpoch \in Int
    BY <1>0
  <2> QED BY <1>0, <1>1, <2>2, <2>3 DEF Synchronous
<1>2. \E m \in 0 .. MaxIters : Y = 1 .. m
  <2> DEFINE N == (1 .. MaxIters) \ Y
  <2>1. CASE N = {}
    <3>1. Y = 1 .. MaxIters
      BY <2>1
    <3> QED BY <1>0, <3>1
  <2>2. CASE N # {}
    <3>0. N \in SUBSET Nat
      BY <1>0
    <3>1. PICK k \in N : \A x \in N : k <= x
      <4> HIDE DEF N
      <4> QED BY <2>2, <3>0, Least
    <3>2. k - 1 \in 0 .. MaxIters /\ k \in Nat
      BY <1>0
    <3>3. ASSUME NEW i \in 1 .. MaxIters PROVE i \in Y <=> i <= k - 1
      <4>1. i < k => i \in Y
        BY <3>1, <3>2
      <4>2. i >= k => i \notin Y
        BY <1>1, <3>1, <3>2
      <4> QED BY <3>2, <4>1, <4>2
    <3>4. Y = 1 .. k - 1
      BY <1>0, <3>2, <3>3
    <3> QED BY <3>2, <3>4
  <2> QED BY <2>1, <2>2
<1>3. PICK m \in 0 .. MaxIters : Y = 1 .. m
  BY <1>2
<1>4. Cardinality(Y) = m /\ m \in Nat
  <2>1. 1 \in Int /\ m \in Int
    BY <1>0
  <2>2. Cardinality(1 .. m) = IF 1 > m THEN 0 ELSE m - 1 + 1
    BY <2>1, FS_Interval
  <2>3. Cardinality(Y) = Cardinality(1 .. m)
    BY <1>3, Zenon
  <2>4. m \in Nat
    BY <1>0
  <2> QED BY ONLY <2>2, <2>3, <2>4
<1>5. SyncIters = m
  BY <1>4 DEF SyncIters
<1>6. \A i \in 1 .. MaxIters : Synchronous(i) <=> i <= m
  <2> SUFFICES ASSUME NEW i \in 1 .. MaxIters PROVE Synchronous(i) <=> i <= m
    OBVIOUS
  <2>1. i \in Y <=> i \in 1 .. m
    BY <1>3
  <2>2. i \in Y <=> Synchronous(i)
    OBVIOUS
  <2> QED BY <1>4, <2>1, <2>2
<1> QED BY <1>4, <1>5, <1>6

\* A gradient applied is the number of an iteration, 0 if it is none's.
LEMMA AppliedType ==
  ASSUME iter \in Nat, NEW cells, NEW g
  PROVE  Applied(cells, g) \in Nat
<1>1. CASE \E k \in 1 .. iter : ExactFor(cells, g, k)
  <2>1. (CHOOSE k \in 1 .. iter : ExactFor(cells, g, k)) \in 1 .. iter
    BY <1>1
  <2> QED BY <1>1, <2>1 DEF Applied
<1>2. CASE ~ \E k \in 1 .. iter : ExactFor(cells, g, k)
  BY <1>2 DEF Applied
<1> QED BY <1>1, <1>2

\* Appending to a sequence of none or one.
LEMMA AppendShort ==
  ASSUME NEW x, NEW y
  PROVE  Append(<<>>, x) = <<x>> /\ Append(<<y>>, x) = <<y, x>>
<1>1. <<>> \in Seq({x, y}) /\ <<y>> \in Seq({x, y}) /\ x \in {x, y}
  OBVIOUS
<1>2. Append(<<>>, x) = <<x>>
  BY <1>1
<1>3. Append(<<y>>, x) = <<y, x>>
  <2>1. Append(<<y>>, x) \in Seq({x, y}) /\ Len(Append(<<y>>, x)) = 2
    BY <1>1
  <2>2. <<y, x>> \in Seq({x, y}) /\ Len(<<y, x>>) = 2
    OBVIOUS
  <2>3. \A i \in 1 .. 2 : Append(<<y>>, x)[i] = <<y, x>>[i]
    BY <1>1
  <2> QED BY <2>1, <2>2, <2>3, SeqEqual
<1> QED BY <1>2, <1>3

\* Nothing has been computed, and the worker has not started.
LEMMA LoopInit == ASSUME Init PROVE LoopInv
<1>1. /\ pc = "start" /\ iter = 0 /\ next = 1 /\ dpuSteps = 0 /\ switch = 0 /\ stepPending = FALSE
      /\ pipe = <<>> /\ replies = <<>> /\ worker = [st |-> "boot", idx |-> 0, group |-> 1]
      /\ master = [g \in Groups |-> <<>>] /\ fp16 = master
  BY DEF Init, NoWorker
<1>2. master \in [Groups -> Seq(Nat)] /\ MasterAt(0) /\ WeightsAt(0)
  BY <1>1 DEF MasterAt, WeightsAt
<1>3. CtlTypes
  <2>1. worker \in [st : {"boot", "idle", "step", "stopped"}, idx : {0, 1}, group : Nat \ {0}]
    BY <1>1
  <2>2. MaxIters \in Nat /\ 0 \in 0 .. MaxIters /\ 0 \in 0 .. 0
    BY ReduceAssumption
  <2>3. fp16 \in [Groups -> Seq(Nat)]
    BY <1>1, <1>2
  <2> QED BY <1>1, <1>2, <2>1, <2>2, <2>3 DEF CtlTypes
<1> QED BY <1>1, <1>2, <1>3 DEF LoopInv, Starting, Between, InSync, InFirstDelayed, InDelayed, Ending, InIteration

\* The steps of an iteration that leave the weights, the worker and the pipe
\* alone: the hooks, the bucket, the end of the backward pass.
LEMMA WithinIteration ==
  ASSUME LoopInv, pc \in InIteration \ {"groups"}, pc' \in InIteration \ {"groups"},
         UNCHANGED <<iter, dpuSteps, switch, adamVars>>, next' \in Nat \ {0},
         pc' = "step" => Synchronous(iter), pc' \in {"flush", "update"} => ~ Synchronous(iter)
  PROVE  LoopInv'
<1>1. UNCHANGED <<iter, dpuSteps, switch, stepPending, pipe, replies, worker, master, fp16>>
  BY DEF adamVars
<1>2. CtlTypes /\ InSync /\ InFirstDelayed /\ InDelayed /\ iter \in Nat
  BY ReduceAssumption DEF LoopInv, CtlTypes
<1>3. CtlTypes'
  BY <1>1, <1>2 DEF CtlTypes
<1>4. Starting' /\ Between' /\ Ending'
  BY DEF Starting, Between, Ending, InIteration
<1>5. SyncIters \in Nat
  BY SyncFacts
<1>6. iter >= 1
  BY <1>2, <1>5 DEF InSync
<1>7. Synchronous(iter) <=> iter <= SyncIters
  BY <1>2, <1>6, SyncFacts, ReduceAssumption DEF CtlTypes
<1>8. InSync'
  BY <1>1, <1>2, <1>5, <1>7 DEF InSync, Quiet, MasterAt, WeightsAt, InIteration
<1>9. InFirstDelayed'
  BY <1>1, <1>2, <1>5, <1>7 DEF InFirstDelayed, Quiet, MasterAt, WeightsAt
<1>10. InDelayed'
  BY <1>1, <1>2, <1>5, <1>7 DEF InDelayed, StepSent, StepTaken, StepDone, MasterAt, WeightsAt
<1> QED BY <1>3, <1>4, <1>8, <1>9, <1>10 DEF LoopInv
\* What an iteration that ends leaves behind: everything has taken the same
\* gradients, all but the last on the delayed path.
LEMMA IterationEnds ==
  ASSUME LoopInv, pc \in InIteration, pc' = "loop", UNCHANGED <<iter, dpuSteps, pipe, worker>>, Quiet', CtlTypes',
         iter <= SyncIters => MasterAt(iter)' /\ WeightsAt(iter)',
         iter > SyncIters => MasterAt(iter - 1)' /\ WeightsAt(iter - 1)'
  PROVE  LoopInv'
<1>1. CtlTypes /\ InSync /\ InFirstDelayed /\ InDelayed /\ iter \in Nat
  BY ReduceAssumption DEF LoopInv, CtlTypes
<1>2. SyncIters \in Nat /\ SyncIters' = SyncIters
  BY SyncFacts DEF SyncIters, Synchronous
<1>3. iter > SyncIters => dpuSteps = iter - SyncIters
  BY <1>1, <1>2 DEF InFirstDelayed, InDelayed
<1>4. iter <= SyncIters => dpuSteps = 0
  BY <1>1 DEF InSync
<1>5. Between'
  BY <1>2, <1>3, <1>4 DEF Between, MasterAt, WeightsAt
<1>6. Starting' /\ InSync' /\ InFirstDelayed' /\ InDelayed' /\ Ending'
  BY DEF Starting, InSync, InFirstDelayed, InDelayed, Ending, InIteration
<1> QED BY <1>5, <1>6 DEF LoopInv

\* The worker has answered, has taken its first command and is idle.
LEMMA StartAdamStep == ASSUME LoopInv, StartAdam PROVE LoopInv'
<1>1. /\ pc = "start" /\ replies = <<"ready">> /\ replies' = <<>> /\ pc' = "loop" /\ pipe' = <<Affinity>>
      /\ UNCHANGED <<iter, next, dpuSteps, switch, stepPending, worker, master, fp16>>
  BY DEF StartAdam, resultVars, Affinity
<1>2. CtlTypes /\ iter = 0 /\ dpuSteps = 0 /\ MasterAt(0) /\ WeightsAt(0) /\ worker.st = "idle"
  BY <1>1 DEF LoopInv, Starting
<1>3. CtlTypes'
  BY <1>1, <1>2 DEF CtlTypes
<1>4. MasterAt(0)' /\ WeightsAt(0)' /\ Quiet'
  BY <1>1, <1>2 DEF MasterAt, WeightsAt, Quiet
<1>5. Between'
  BY <1>1, <1>2, <1>4, SyncFacts DEF Between
<1>6. Starting' /\ InSync' /\ InFirstDelayed' /\ InDelayed' /\ Ending'
  BY <1>1 DEF Starting, InSync, InFirstDelayed, InDelayed, Ending, InIteration
<1> QED BY <1>3, <1>5, <1>6 DEF LoopInv

\* On the delayed path the step of the iteration before is sent, on the other
\* bank, if there was one.
LEMMA BeginStep == ASSUME LoopInv, BeginIteration PROVE LoopInv'
<1> DEFINE At(n) == \A g \in Groups : Len(master'[g]) = n /\ Len(fp16'[g]) = n
<1>1. /\ pc = "loop" /\ pc' = "backward" /\ iter < MaxIters /\ iter' = iter + 1 /\ next' = 1
      /\ UNCHANGED <<switch, replies, worker, master, fp16>>
  BY DEF BeginIteration, resultVars
<1>2. /\ Synchronous(iter') => UNCHANGED <<dpuSteps, stepPending, pipe>>
      /\ ~ Synchronous(iter') => /\ dpuSteps' = dpuSteps + 1 /\ (stepPending' <=> dpuSteps > 0) /\ stepPending' \in BOOLEAN
                                  /\ pipe' = IF dpuSteps > 0 THEN Append(pipe, StepOn(1 - switch)) ELSE pipe
  <2>1. Synchronous(iter') => UNCHANGED <<dpuSteps, stepPending, pipe>>
    BY DEF BeginIteration
  <2>2. ~ Synchronous(iter') => dpuSteps' = dpuSteps + 1
    BY DEF BeginIteration
  <2>3. ~ Synchronous(iter') => (stepPending' <=> dpuSteps > 0) /\ stepPending' \in BOOLEAN
    <3>1. ~ Synchronous(iter') => stepPending' = (dpuSteps > 0)
      BY DEF BeginIteration
    <3>2. ~ Synchronous(iter') => (stepPending' <=> dpuSteps > 0)
      BY <3>1, Zenon
    <3>3. (dpuSteps > 0) \in BOOLEAN
      OBVIOUS
    <3>4. ~ Synchronous(iter') => stepPending' \in BOOLEAN
      BY <3>1, <3>3, Zenon
    <3> QED BY <3>2, <3>4, Zenon
  <2>4. ~ Synchronous(iter') => pipe' = IF dpuSteps > 0 THEN Append(pipe, StepOn(1 - switch)) ELSE pipe
    BY DEF BeginIteration, StepCommand, StepOn
  <2> QED BY <2>1, <2>2, <2>3, <2>4
<1>3. CtlTypes /\ Between /\ iter \in Nat /\ dpuSteps \in Nat /\ dpuSteps <= iter /\ MaxIters \in Nat
  BY ReduceAssumption DEF LoopInv, CtlTypes
<1>4. SyncIters \in Nat /\ (Synchronous(iter') <=> iter' <= SyncIters)
  BY <1>1, <1>3, SyncFacts
<1>5. Quiet /\ (iter <= SyncIters => dpuSteps = 0 /\ MasterAt(iter) /\ WeightsAt(iter))
            /\ (iter > SyncIters => dpuSteps = iter - SyncIters /\ MasterAt(iter - 1) /\ WeightsAt(iter - 1))
  BY <1>1, <1>3 DEF Between
<1>6. CtlTypes'
  <2>1. iter' \in 0 .. MaxIters /\ dpuSteps' \in 0 .. iter' /\ stepPending' \in BOOLEAN
    BY <1>1, <1>2, <1>3 DEF CtlTypes
  <2>2. pc' \in InIteration /\ next' \in Nat \ {0}
    BY <1>1 DEF InIteration
  <2> QED BY <1>1, <1>3, <2>1, <2>2 DEF CtlTypes
<1>7. (\A n : MasterAt(n) /\ WeightsAt(n) => At(n)) /\ SyncIters' = SyncIters
  BY <1>1 DEF MasterAt, WeightsAt, SyncIters, Synchronous
<1> HIDE DEF At
<1>8. Starting' /\ Between' /\ Ending'
  BY <1>1 DEF Starting, Between, Ending
<1>9. CASE iter' <= SyncIters
  <2>1. iter <= SyncIters /\ iter' - 1 = iter /\ UNCHANGED <<dpuSteps, stepPending, pipe>>
    BY <1>1, <1>2, <1>3, <1>4, <1>9
  <2>2. Quiet' /\ dpuSteps' = 0 /\ At(iter)
    BY <1>1, <1>5, <1>7, <2>1 DEF Quiet
  <2>3. InSync'
    BY <1>1, <1>3, <1>7, <2>1, <2>2 DEF InSync, MasterAt, WeightsAt, At
  <2>4. InFirstDelayed' /\ InDelayed'
    BY <1>1, <1>3, <1>4, <1>7, <1>9 DEF InFirstDelayed, InDelayed
  <2> QED BY <1>6, <1>8, <2>3, <2>4 DEF LoopInv
<1>10. CASE iter' = SyncIters + 1
  <2>1. iter = SyncIters /\ ~ Synchronous(iter') /\ dpuSteps = 0 /\ iter' - 1 = iter
    BY <1>1, <1>3, <1>4, <1>5, <1>10
  <2>2. dpuSteps' = 1 /\ ~ stepPending' /\ pipe' = pipe
    BY <1>2, <2>1
  <2>3. Quiet' /\ At(iter)
    BY <1>1, <1>3, <1>5, <1>7, <2>1, <2>2 DEF Quiet
  <2>4. InFirstDelayed'
    BY <1>1, <1>7, <1>10, <2>1, <2>2, <2>3 DEF InFirstDelayed, MasterAt, WeightsAt, At
  <2>5. InSync' /\ InDelayed'
    BY <1>1, <1>3, <1>4, <1>7, <1>10 DEF InSync, InDelayed
  <2> QED BY <1>6, <1>8, <2>4, <2>5 DEF LoopInv
<1>11. CASE iter' > SyncIters + 1
  <2>1. iter > SyncIters /\ ~ Synchronous(iter') /\ dpuSteps > 0 /\ dpuSteps = iter - SyncIters /\ iter' - 2 = iter - 1
    BY <1>1, <1>3, <1>4, <1>5, <1>11
  <2>2. dpuSteps' = iter' - SyncIters /\ stepPending' /\ pipe' = Append(pipe, StepOn(1 - switch))
    BY <1>1, <1>2, <1>3, <1>4, <2>1
  <2>3. At(iter - 1)
    BY <1>5, <1>7, <2>1
  <2>4. StepSent(iter - 2)'
    <3>1. replies' = <<>> /\ worker'.st = "idle" /\ pipe \in {<<>>, <<Affinity>>}
      BY <1>1, <1>5 DEF Quiet
    <3>2. pipe' \in {<<StepOn(1 - switch)>>, <<Affinity, StepOn(1 - switch)>>}
      <4>1. \A x, y : Append(<<>>, x) = <<x>> /\ Append(<<y>>, x) = <<y, x>>
        BY AppendShort
      <4> QED BY <2>2, <3>1, <4>1, Zenon
    <3>3. pipe' \in {<<StepOn(1 - switch')>>, <<Affinity, StepOn(1 - switch')>>}
      BY <1>1, <3>2
    <3> QED BY <1>1, <2>1, <2>3, <3>1, <3>3 DEF StepSent, MasterAt, StepOn, Affinity, At
  <2>5. InDelayed'
    BY <1>1, <1>7, <2>1, <2>2, <2>3, <2>4 DEF InDelayed, WeightsAt, InIteration, At
  <2>6. InSync' /\ InFirstDelayed'
    BY <1>1, <1>3, <1>4, <1>7, <1>11 DEF InSync, InFirstDelayed
  <2> QED BY <1>6, <1>8, <2>5, <2>6 DEF LoopInv
<1>12. iter' <= SyncIters \/ iter' = SyncIters + 1 \/ iter' > SyncIters + 1
  BY <1>1, <1>3, <1>4
<1> QED BY <1>9, <1>10, <1>11, <1>12

\* The steps of the backward pass, of the bucket and of what follows it.
LEMMA IterationStep ==
  ASSUME LoopInv,
         GradKernel \/ ReduceFullBucket \/ AddGrad \/ ReduceLastBucket \/ EpilogueSync \/ PartitionAll
  PROVE  LoopInv'
<1>0. CtlTypes
  BY DEF LoopInv
<1>1. CASE GradKernel
  <2>1. /\ pc = "backward" /\ pc' = "hook" /\ next' = next /\ UNCHANGED <<iter, dpuSteps, switch, adamVars>>
    BY <1>1 DEF GradKernel, resultVars
  <2> QED BY <1>0, <2>1, WithinIteration DEF InIteration, CtlTypes
<1>2. CASE ReduceFullBucket
  <2>1. /\ pc = "hook" /\ pc' = "hook" /\ next' = next /\ UNCHANGED <<iter, dpuSteps, switch, adamVars>>
    BY <1>2 DEF ReduceFullBucket, ReduceIpg
  <2> QED BY <1>0, <2>1, WithinIteration DEF InIteration, CtlTypes
<1>3. CASE AddGrad
  <2>1. /\ pc = "hook" /\ pc' \in {"backward", "epilogue"} /\ next' = next + 1
        /\ UNCHANGED <<iter, dpuSteps, switch, adamVars>>
    BY <1>3 DEF AddGrad, resultVars
  <2> QED BY <1>0, <2>1, WithinIteration DEF InIteration, CtlTypes
<1>4. CASE ReduceLastBucket
  <2>1. /\ pc = "epilogue" /\ pc' = "sync" /\ next' = next /\ UNCHANGED <<iter, dpuSteps, switch, adamVars>>
    BY <1>4 DEF ReduceLastBucket, ReduceIpg
  <2> QED BY <1>0, <2>1, WithinIteration DEF InIteration, CtlTypes
<1>5. CASE EpilogueSync
  <2>1. /\ pc = "sync" /\ pc' = (IF Synchronous(iter) THEN "step" ELSE "flush") /\ next' = next
        /\ UNCHANGED <<iter, dpuSteps, switch, adamVars>>
    BY <1>5 DEF EpilogueSync, resultVars
  <2>2. /\ pc' \in {"step", "flush"} /\ (pc' = "step" => Synchronous(iter))
        /\ (pc' \in {"flush", "update"} => ~ Synchronous(iter))
    BY <2>1
  <2> QED BY <1>0, <2>1, <2>2, WithinIteration DEF InIteration, CtlTypes
<1>6. CASE PartitionAll
  <2>1. /\ pc = "flush" /\ pc' = "update" /\ next' = next /\ UNCHANGED <<iter, dpuSteps, switch, adamVars>>
    BY <1>6 DEF PartitionAll
  <2>2. ~ Synchronous(iter)
    <3>1. iter > SyncIters /\ iter \in 1 .. MaxIters
      BY <1>0, <2>1, SyncFacts, ReduceAssumption DEF LoopInv, InSync, InIteration, CtlTypes
    <3> QED BY <3>1, SyncFacts
  <2> QED BY <1>0, <2>1, <2>2, WithinIteration DEF InIteration, CtlTypes
<1> QED BY <1>1, <1>2, <1>3, <1>4, <1>5, <1>6

\* A synchronous step is made before the iteration ends, sub-group after
\* sub-group, with nothing left for the worker.
LEMMA StepStep == ASSUME LoopInv, Step PROVE LoopInv'
<1>0. CtlTypes /\ InSync /\ InFirstDelayed /\ InDelayed /\ iter \in Nat /\ MaxIters \in Nat /\ next \in Nat \ {0}
  BY ReduceAssumption DEF LoopInv, CtlTypes
<1>1. SyncIters \in Nat /\ SyncIters' = SyncIters /\ Groups = 1 .. NumGroups /\ NumGroups \in Nat
  BY SyncFacts, SubGroupsFacts DEF SyncIters, Synchronous, NumGroups
<1>2. pc \in {"step", "groups"}
  BY DEF Step, StepBegin, StepSubGroup, StepEnd
<1>3. /\ iter <= SyncIters /\ Quiet /\ iter >= 1 /\ dpuSteps = 0
      /\ pc # "groups" => MasterAt(iter - 1) /\ WeightsAt(iter - 1)
      /\ pc = "groups" => /\ next <= NumGroups + 1
                          /\ \A g \in Groups : /\ Len(master[g]) = IF g < next THEN iter ELSE iter - 1
                                               /\ Len(fp16[g]) = IF g < next THEN iter ELSE iter - 1
  BY <1>0, <1>1, <1>2 DEF InSync, InFirstDelayed, InDelayed, InIteration
<1>4. CASE StepBegin
  <2>1. /\ pc = "step" /\ pc' = "groups" /\ next' = 1
        /\ UNCHANGED <<iter, dpuSteps, switch, stepPending, pipe, replies, worker, master, fp16>>
    BY <1>4 DEF StepBegin, adamVars
  <2>2. CtlTypes'
    BY <1>0, <2>1 DEF CtlTypes, InIteration
  <2>3. InSync'
    BY <1>0, <1>1, <1>3, <2>1 DEF InSync, Quiet, MasterAt, WeightsAt, NumGroups
  <2>4. Starting' /\ Between' /\ InFirstDelayed' /\ InDelayed' /\ Ending'
    BY <1>0, <1>1, <1>3, <2>1 DEF Starting, Between, InFirstDelayed, InDelayed, Ending
  <2> QED BY <2>2, <2>3, <2>4 DEF LoopInv
<1>5. CASE StepSubGroup
  <2>1. /\ pc = "groups" /\ pc' = "groups" /\ next \in Groups /\ next' = next + 1
        /\ master' = [master EXCEPT ![next] = Append(@, Applied(bank[0][next], next))]
        /\ fp16' = [fp16 EXCEPT ![next] = master'[next]]
        /\ UNCHANGED <<iter, dpuSteps, switch, stepPending, pipe, replies, worker>>
    BY <1>5 DEF StepSubGroup, resultVars
  <2>2. master \in [Groups -> Seq(Nat)] /\ fp16 \in [Groups -> Seq(Nat)]
    BY <1>0 DEF CtlTypes
  <2>3. Applied(bank[0][next], next) \in Nat
    BY <1>0, AppliedType
  <2>4. PICK x \in Nat : x = Applied(bank[0][next], next)
    BY <2>3
  <2>5. /\ master' = [master EXCEPT ![next] = Append(master[next], x)]
        /\ master[next] \in Seq(Nat) /\ Append(master[next], x) \in Seq(Nat)
        /\ Len(Append(master[next], x)) = Len(master[next]) + 1
    BY <2>1, <2>2, <2>4
  <2>6. /\ master' \in [Groups -> Seq(Nat)] /\ master'[next] = Append(master[next], x)
        /\ \A g \in Groups \ {next} : master'[g] = master[g]
    BY <2>1, <2>2, <2>5
  <2>7. /\ fp16' \in [Groups -> Seq(Nat)] /\ fp16'[next] = master'[next]
        /\ \A g \in Groups \ {next} : fp16'[g] = fp16[g]
    BY <2>1, <2>2, <2>5, <2>6
  <2>8. ASSUME NEW g \in Groups
        PROVE  /\ Len(master'[g]) = IF g < next' THEN iter ELSE iter - 1
               /\ Len(fp16'[g]) = IF g < next' THEN iter ELSE iter - 1
    <3>0. g \in Nat
      BY <1>1
    <3>1. CASE g = next
      BY <1>0, <1>3, <2>1, <2>5, <2>6, <2>7, <3>0, <3>1
    <3>2. CASE g # next
      <4>1. g < next' <=> g < next
        BY <1>0, <2>1, <3>0, <3>2
      <4> QED BY <1>3, <2>1, <2>6, <2>7, <3>2, <4>1
    <3> QED BY <3>1, <3>2
  <2>9. CtlTypes'
    BY <1>0, <2>1, <2>6, <2>7 DEF CtlTypes, InIteration
  <2>10. InSync'
    BY <1>0, <1>1, <1>3, <2>1, <2>8 DEF InSync, Quiet, NumGroups
  <2>11. Starting' /\ Between' /\ InFirstDelayed' /\ InDelayed' /\ Ending'
    BY <1>0, <1>1, <1>3, <2>1 DEF Starting, Between, InFirstDelayed, InDelayed, Ending
  <2> QED BY <2>9, <2>10, <2>11 DEF LoopInv
<1>6. CASE StepEnd
  <2>1. /\ pc = "groups" /\ pc' = "loop" /\ next \notin Groups
        /\ UNCHANGED <<iter, next, dpuSteps, switch, stepPending, pipe, replies, worker, master, fp16>>
    BY <1>6 DEF StepEnd, resultVars, adamVars
  <2>2. next = NumGroups + 1
    BY <1>0, <1>1, <1>3, <2>1
  <2>3. \A g \in Groups : g < next
    BY <1>1, <2>2
  <2>4. MasterAt(iter)' /\ WeightsAt(iter)'
    BY <1>3, <2>1, <2>3 DEF MasterAt, WeightsAt
  <2>5. CtlTypes' /\ Quiet'
    BY <1>0, <1>3, <2>1 DEF CtlTypes, Quiet
  <2>6. ~ (iter > SyncIters)
    BY <1>0, <1>1, <1>3
  <2> QED BY <2>1, <2>4, <2>5, <2>6, IterationEnds DEF InIteration
<1> QED BY <1>4, <1>5, <1>6 DEF Step

\* update_new_params takes the weights once the worker has answered, if it has
\* been sent a step.
LEMMA UpdateStep == ASSUME LoopInv, UpdateNewParams PROVE LoopInv'
<1>0. CtlTypes /\ InSync /\ InFirstDelayed /\ InDelayed /\ iter \in Nat
  BY ReduceAssumption DEF LoopInv, CtlTypes
<1>1. SyncIters \in Nat
  BY SyncFacts
<1>2. /\ pc = "update" /\ pc' = "loop" /\ (stepPending => replies = <<"done">>) /\ replies' = <<>>
      /\ fp16' = master /\ switch' = 1 - switch
      /\ UNCHANGED <<iter, next, dpuSteps, stepPending, pipe, worker, master>>
  BY DEF UpdateNewParams, StepAnswered
<1>3. iter > SyncIters
  BY <1>0, <1>1, <1>2 DEF InSync, InIteration
<1>4. CtlTypes'
  BY <1>0, <1>2 DEF CtlTypes
<1>5. CASE iter = SyncIters + 1
  <2>1. Quiet /\ MasterAt(iter - 1)
    BY <1>0, <1>2, <1>5 DEF InFirstDelayed, InIteration
  <2>2. Quiet' /\ MasterAt(iter - 1)' /\ WeightsAt(iter - 1)'
    BY <1>2, <2>1 DEF Quiet, MasterAt, WeightsAt
  <2> QED BY <1>0, <1>1, <1>2, <1>3, <1>4, <2>2, IterationEnds DEF InIteration
<1>6. CASE iter > SyncIters + 1
  <2>1. stepPending /\ (StepSent(iter - 2) \/ StepTaken(iter - 2) \/ StepDone(iter - 2))
    BY <1>0, <1>2, <1>6 DEF InDelayed, InIteration
  <2>2. replies = <<"done">> /\ <<"done">> # <<>>
    <3>1. Len(<<"done">>) = 1 /\ Len(<<>>) = 0
      OBVIOUS
    <3> QED BY <1>2, <2>1, <3>1
  <2>3. StepDone(iter - 2)
    BY <2>1, <2>2 DEF StepSent, StepTaken
  <2>4. pipe = <<>> /\ worker.st = "idle" /\ MasterAt(iter - 1)
    BY <1>0, <2>3 DEF StepDone, MasterAt
  <2>5. Quiet' /\ MasterAt(iter - 1)' /\ WeightsAt(iter - 1)'
    BY <1>2, <2>4 DEF Quiet, MasterAt, WeightsAt
  <2> QED BY <1>0, <1>1, <1>2, <1>3, <1>4, <2>5, IterationEnds DEF InIteration
<1>7. iter = SyncIters + 1 \/ iter > SyncIters + 1
  BY <1>0, <1>1, <1>3
<1> QED BY <1>5, <1>6, <1>7

\* The end of the training.
LEMMA StopStep == ASSUME LoopInv, StopAdam \/ JoinAdam PROVE LoopInv'
<1>0. CtlTypes /\ Between /\ Ending
  BY DEF LoopInv
<1>1. CASE StopAdam
  <2>1. /\ pc = "loop" /\ pc' = "join" /\ pipe' = Append(pipe, Shutdown)
        /\ UNCHANGED <<iter, next, dpuSteps, switch, stepPending, replies, worker, master, fp16>>
    BY <1>1 DEF StopAdam, resultVars, Shutdown
  <2>2. CtlTypes'
    BY <1>0, <2>1 DEF CtlTypes
  <2>3. replies = <<>> /\ worker.st = "idle" /\ pipe \in {<<>>, <<Affinity>>}
    BY <1>0, <2>1 DEF Between, Quiet
  <2>4. Append(<<>>, Shutdown) = <<Shutdown>> /\ Append(<<Affinity>>, Shutdown) = <<Affinity, Shutdown>>
    BY AppendShort
  <2>5. Ending'
    BY <2>1, <2>3, <2>4 DEF Ending
  <2>6. Starting' /\ Between' /\ InSync' /\ InFirstDelayed' /\ InDelayed'
    BY <2>1 DEF Starting, Between, InSync, InFirstDelayed, InDelayed, InIteration
  <2> QED BY <2>2, <2>5, <2>6 DEF LoopInv
<1>2. CASE JoinAdam
  <2>1. /\ pc = "join" /\ pc' = "end" /\ worker' = [worker EXCEPT !.st = "stopped"]
        /\ UNCHANGED <<iter, next, dpuSteps, switch, stepPending, pipe, replies, master, fp16>>
    BY <1>2 DEF JoinAdam, resultVars
  <2>2. CtlTypes' /\ worker'.st = "stopped"
    BY <1>0, <2>1 DEF CtlTypes
  <2>3. Ending'
    BY <1>0, <2>1, <2>2 DEF Ending
  <2>4. Starting' /\ Between' /\ InSync' /\ InFirstDelayed' /\ InDelayed'
    BY <2>1 DEF Starting, Between, InSync, InFirstDelayed, InDelayed, InIteration
  <2> QED BY <2>2, <2>3, <2>4 DEF LoopInv
<1> QED BY <1>1, <1>2

\* A step of the worker keeps what the host thread knows, if it takes the step
\* that was sent one further.
LEMMA WorkerStep ==
  ASSUME LoopInv, CtlTypes',
         UNCHANGED <<pc, iter, next, dpuSteps, switch, stepPending, fp16>>,
         pc = "start" => pipe' = <<>> /\ MasterAt(0)' /\ worker'.st = "idle" /\ replies' = <<"ready">>,
         Quiet => Quiet' /\ master' = master,
         pc \in {"join", "end"} =>
           replies' = <<>> /\ worker'.st \in {"idle", "stopped"} /\ pipe' \in {<<>>, <<Shutdown>>, <<Affinity, Shutdown>>},
         \A n \in Nat : StepSent(n) \/ StepTaken(n) \/ StepDone(n) =>
                          StepSent(n)' \/ StepTaken(n)' \/ StepDone(n)'
  PROVE  LoopInv'
<1>1. CtlTypes /\ Starting /\ Between /\ InSync /\ InFirstDelayed /\ InDelayed /\ iter \in Nat
  BY ReduceAssumption DEF LoopInv, CtlTypes
<1>2. SyncIters \in Nat /\ SyncIters' = SyncIters
  BY SyncFacts DEF SyncIters, Synchronous
<1>3. Starting'
  BY <1>1 DEF Starting, MasterAt, WeightsAt
<1>4. Between'
  BY <1>1, <1>2 DEF Between, MasterAt, WeightsAt
<1>5. InSync'
  BY <1>1, <1>2 DEF InSync, MasterAt, WeightsAt
<1>6. InFirstDelayed'
  BY <1>1, <1>2 DEF InFirstDelayed, MasterAt, WeightsAt
<1>7. InDelayed'
  <2> SUFFICES ASSUME pc \in InIteration, iter > SyncIters + 1
               PROVE  /\ dpuSteps = iter - SyncIters /\ stepPending /\ pc \notin {"step", "groups"}
                      /\ WeightsAt(iter - 2)
                      /\ StepSent(iter - 2)' \/ StepTaken(iter - 2)' \/ StepDone(iter - 2)'
    BY <1>2 DEF InDelayed, WeightsAt
  <2>1. PICK n \in Nat : n = iter - 2
    BY <1>1, <1>2
  <2>2. StepSent(n) \/ StepTaken(n) \/ StepDone(n)
    BY <1>1, <2>1 DEF InDelayed
  <2>3. StepSent(n)' \/ StepTaken(n)' \/ StepDone(n)'
    BY <2>2
  <2>4. iter' = iter
    OBVIOUS
  <2>5. StepSent(iter - 2)' \/ StepTaken(iter - 2)' \/ StepDone(iter - 2)'
    BY <2>1, <2>3, <2>4 DEF StepSent, StepTaken, StepDone, MasterAt
  <2> QED BY <1>1, <2>5 DEF InDelayed
<1>8. Ending'
  BY DEF Ending
<1> QED BY <1>3, <1>4, <1>5, <1>6, <1>7, <1>8 DEF LoopInv

\* What the worker is doing while the host thread is somewhere.
LEMMA WorkerPlaces ==
  ASSUME LoopInv
  PROVE  /\ pc = "start" => pipe = <<>> /\ MasterAt(0) /\ worker.st \in {"boot", "idle"}
         /\ worker.st = "boot" => pc = "start" /\ replies = <<>>
         /\ Quiet => worker.st = "idle" /\ replies = <<>> /\ pipe \in {<<>>, <<Affinity>>}
         /\ pc \in {"join", "end"} =>
              replies = <<>> /\ worker.st \in {"idle", "stopped"} /\ pipe \in {<<>>, <<Shutdown>>, <<Affinity, Shutdown>>}
         /\ pc = "start" => iter = 0
<1>1. CtlTypes /\ Starting /\ Between /\ InSync /\ InFirstDelayed /\ InDelayed /\ Ending /\ iter \in Nat
  BY ReduceAssumption DEF LoopInv, CtlTypes
<1>2. SyncIters \in Nat
  BY SyncFacts
<1>3. worker.st = "boot" => ~ Quiet /\ \A n : ~ StepSent(n) /\ ~ StepTaken(n) /\ ~ StepDone(n)
  BY DEF Quiet, StepSent, StepTaken, StepDone
<1>4. worker.st = "boot" => pc \notin {"loop", "join", "end"}
  BY <1>1, <1>3 DEF Between, Ending
<1>5. worker.st = "boot" => pc \notin InIteration
  BY <1>1, <1>2, <1>3 DEF InSync, InFirstDelayed, InDelayed
<1>6. worker.st = "boot" => pc = "start"
  BY <1>1, <1>4, <1>5 DEF CtlTypes
<1>7. pc = "start" => iter = 0 /\ pipe = <<>> /\ MasterAt(0)
                      /\ ((worker.st = "boot" /\ replies = <<>>) \/ (worker.st = "idle" /\ replies = <<"ready">>))
  BY <1>1 DEF Starting
<1>8. pc \in {"join", "end"} =>
        replies = <<>> /\ worker.st \in {"idle", "stopped"} /\ pipe \in {<<>>, <<Shutdown>>, <<Affinity, Shutdown>>}
  BY <1>1 DEF Ending
<1> QED BY <1>6, <1>7, <1>8 DEF Quiet

\* The worker reports that it is ready.
LEMMA AdamReadyStep == ASSUME LoopInv, AdamReady PROVE LoopInv'
<1>1. /\ worker.st = "boot" /\ replies' = Append(replies, "ready") /\ worker' = [worker EXCEPT !.st = "idle"]
      /\ UNCHANGED <<pc, iter, next, dpuSteps, switch, stepPending, pipe, master, fp16>>
  BY DEF AdamReady, hostVars, resultVars
<1>2. CtlTypes
  BY DEF LoopInv
<1>3. pc = "start" /\ replies = <<>> /\ pipe = <<>> /\ MasterAt(0) /\ ~ Quiet
  BY <1>1, WorkerPlaces DEF Quiet
<1>4. replies' = <<"ready">>
  BY <1>1, <1>3, AppendShort
<1>5. worker'.st = "idle" /\ CtlTypes'
  BY <1>1, <1>2 DEF CtlTypes
<1>6. MasterAt(0)'
  BY <1>1, <1>3 DEF MasterAt
<1>7. \A n \in Nat : ~ StepSent(n) /\ ~ StepTaken(n) /\ ~ StepDone(n)
  BY <1>1 DEF StepSent, StepTaken, StepDone
<1> QED BY <1>1, <1>3, <1>4, <1>5, <1>6, <1>7, WorkerStep

\* The worker takes the next command from the pipe.
LEMMA AdamCommandStep == ASSUME LoopInv, AdamCommand PROVE LoopInv'
<1>1. /\ worker.st = "idle" /\ pipe # <<>> /\ pipe' = Tail(pipe)
      /\ UNCHANGED <<pc, iter, next, dpuSteps, switch, stepPending, replies, master, fp16>>
      /\ worker' = CASE Head(pipe).cmd = "step" -> [st |-> "step", idx |-> Head(pipe).idx, group |-> 1]
                     [] Head(pipe).cmd = "shutdown" -> [worker EXCEPT !.st = "stopped"]
                     [] OTHER -> worker
  BY DEF AdamCommand, hostVars, resultVars
<1>2. CtlTypes /\ switch \in {0, 1} /\ NumGroups \in Nat
  BY SubGroupsFacts DEF LoopInv, CtlTypes, NumGroups
<1>3. pc # "start"
  BY <1>1, WorkerPlaces
<1>4. ASSUME NEW c PROVE Head(<<c>>) = c /\ Tail(<<c>>) = <<>>
  OBVIOUS
<1>5. ASSUME NEW c, NEW d PROVE Head(<<c, d>>) = c /\ Tail(<<c, d>>) = <<d>>
  OBVIOUS
<1>6. CASE pipe \in {<<Affinity>>, <<Affinity, StepOn(1 - switch)>>, <<Affinity, Shutdown>>}
  <2>1. /\ pipe = <<Affinity>> => pipe' = <<>>
        /\ pipe = <<Affinity, StepOn(1 - switch)>> => pipe' = <<StepOn(1 - switch)>>
        /\ pipe = <<Affinity, Shutdown>> => pipe' = <<Shutdown>>
        /\ Head(pipe) = Affinity
    BY <1>1, <1>4, <1>5, <1>6, Zenon
  <2>2. worker' = worker
    BY <1>1, <2>1 DEF Affinity
  <2>3. CtlTypes'
    BY <1>1, <1>2, <2>2 DEF CtlTypes
  <2>4. ASSUME Quiet PROVE Quiet' /\ master' = master
    <3>1. pipe = <<Affinity>>
      BY <1>1, <2>4 DEF Quiet
    <3> QED BY <1>1, <2>1, <2>2, <2>4, <3>1 DEF Quiet
  <2>5. ASSUME pc \in {"join", "end"}
        PROVE  replies' = <<>> /\ worker'.st \in {"idle", "stopped"} /\ pipe' \in {<<>>, <<Shutdown>>, <<Affinity, Shutdown>>}
    <3>1. /\ replies = <<>> /\ worker.st \in {"idle", "stopped"}
          /\ pipe \in {<<>>, <<Shutdown>>, <<Affinity, Shutdown>>}
      BY <2>5, WorkerPlaces
    <3>2. pipe = <<Affinity, Shutdown>>
      <4>1. <<Shutdown>> \notin {<<Affinity>>, <<Affinity, StepOn(1 - switch)>>, <<Affinity, Shutdown>>}
        BY DEF Shutdown, Affinity, StepOn
      <4> QED BY <1>1, <1>6, <3>1, <4>1
    <3> QED BY <1>1, <2>1, <2>2, <3>1, <3>2
  <2>6. ASSUME NEW n \in Nat, StepSent(n) \/ StepTaken(n) \/ StepDone(n) PROVE StepSent(n)'
    <3>1. StepSent(n)
      BY <1>1, <2>6 DEF StepTaken, StepDone
    <3>2. pipe = <<Affinity, StepOn(1 - switch)>>
      <4>1. <<StepOn(1 - switch)>> \notin {<<Affinity>>, <<Affinity, StepOn(1 - switch)>>, <<Affinity, Shutdown>>}
        BY DEF Shutdown, Affinity, StepOn
      <4> QED BY <1>1, <1>6, <3>1, <4>1 DEF StepSent
    <3>3. pipe' = <<StepOn(1 - switch')>>
      BY <1>1, <2>1, <3>2
    <3> QED BY <1>1, <2>2, <3>1, <3>3 DEF StepSent, MasterAt, StepOn, Affinity
  <2> QED BY <1>1, <1>3, <2>3, <2>4, <2>5, <2>6, WorkerStep
<1>7. CASE pipe = <<Shutdown>>
  <2>1. pipe' = <<>> /\ Head(pipe) = Shutdown
    BY <1>1, <1>4, <1>7
  <2>2. worker' = [worker EXCEPT !.st = "stopped"]
    BY <1>1, <2>1 DEF Shutdown
  <2>3. CtlTypes' /\ worker'.st = "stopped"
    BY <1>1, <1>2, <2>2 DEF CtlTypes
  <2>4. ~ Quiet /\ \A n \in Nat : ~ StepSent(n) /\ ~ StepTaken(n) /\ ~ StepDone(n)
    BY <1>1, <1>7 DEF Quiet, StepSent, StepTaken, StepDone, Shutdown, Affinity, StepOn
  <2>5. pc \in {"join", "end"} => replies' = <<>>
    BY <1>1, WorkerPlaces
  <2> QED BY <1>1, <1>3, <2>1, <2>3, <2>4, <2>5, WorkerStep
<1>8. CASE pipe = <<StepOn(1 - switch)>>
  <2>1. pipe' = <<>> /\ Head(pipe) = StepOn(1 - switch)
    BY <1>1, <1>4, <1>8
  <2>2. worker' = [st |-> "step", idx |-> 1 - switch, group |-> 1]
    BY <1>1, <2>1 DEF StepOn
  <2>3. CtlTypes'
    BY <1>1, <1>2, <2>2 DEF CtlTypes
  <2>4. ~ Quiet /\ pc \notin {"join", "end"}
    <3>1. pipe \notin {<<>>, <<Affinity>>} /\ pipe \notin {<<>>, <<Shutdown>>, <<Affinity, Shutdown>>}
      BY <1>8 DEF Shutdown, Affinity, StepOn
    <3> QED BY <3>1, WorkerPlaces DEF Quiet
  <2>5. ASSUME NEW n \in Nat, StepSent(n) \/ StepTaken(n) \/ StepDone(n) PROVE StepTaken(n)'
    <3>1. StepSent(n)
      BY <1>1, <2>5 DEF StepTaken, StepDone
    <3>2. \A g \in Groups : Len(master[g]) = n /\ ~ (g < 1)
      BY <1>2, <3>1, SubGroupsFacts DEF StepSent, MasterAt, NumGroups
    <3>3. replies' = <<>> /\ 1 \in 1 .. NumGroups + 1
      BY <1>1, <1>2, <3>1 DEF StepSent
    <3> QED BY <1>1, <2>1, <2>2, <3>2, <3>3 DEF StepTaken, NumGroups
  <2> QED BY <1>1, <1>3, <2>3, <2>4, <2>5, WorkerStep
<1>9. \/ pipe \in {<<Affinity>>, <<Affinity, StepOn(1 - switch)>>, <<Affinity, Shutdown>>}
      \/ pipe = <<Shutdown>> \/ pipe = <<StepOn(1 - switch)>>
  <2>1. CtlTypes /\ Between /\ InSync /\ InFirstDelayed /\ InDelayed /\ Ending /\ iter \in Nat /\ SyncIters \in Nat
    BY ReduceAssumption, SyncFacts DEF LoopInv, CtlTypes
  <2>2. Quiet => pipe = <<Affinity>>
    BY <1>1 DEF Quiet
  <2>3. ASSUME NEW n, StepSent(n) \/ StepTaken(n) \/ StepDone(n)
        PROVE  pipe \in {<<StepOn(1 - switch)>>, <<Affinity, StepOn(1 - switch)>>}
    BY <1>1, <2>3 DEF StepSent, StepTaken, StepDone
  <2>4. CASE pc = "loop"
    BY <2>1, <2>2, <2>4 DEF Between
  <2>5. CASE pc \in {"join", "end"}
    BY <1>1, <2>1, <2>5 DEF Ending
  <2>6. CASE pc \in InIteration
    <3>1. Quiet \/ StepSent(iter - 2) \/ StepTaken(iter - 2) \/ StepDone(iter - 2)
      BY <2>1, <2>6 DEF InSync, InFirstDelayed, InDelayed
    <3> QED BY <2>2, <2>3, <3>1
  <2> QED BY <1>3, <2>1, <2>4, <2>5, <2>6 DEF CtlTypes
<1> QED BY <1>6, <1>7, <1>8, <1>9

\* It updates a sub-group, or answers after the last.
LEMMA AdamStepStep == ASSUME LoopInv, AdamSubGroup \/ AdamDone PROVE LoopInv'
<1>1. /\ worker.st = "step" /\ UNCHANGED <<pc, iter, next, dpuSteps, switch, stepPending, pipe, fp16>>
  BY DEF AdamSubGroup, AdamDone, hostVars, resultVars
<1>2. CtlTypes /\ iter \in Nat /\ Groups = 1 .. NumGroups /\ NumGroups \in Nat
  BY SubGroupsFacts, ReduceAssumption DEF LoopInv, CtlTypes, NumGroups
<1>3. ~ Quiet /\ pc \notin {"start", "join", "end"}
  BY <1>1, WorkerPlaces DEF Quiet
<1>4. CASE AdamSubGroup
  <2>1. /\ worker.group \in Groups /\ worker' = [worker EXCEPT !.group = @ + 1] /\ replies' = replies
        /\ master' = [master EXCEPT ![worker.group] = Append(@, Applied(bank[worker.idx][worker.group], worker.group))]
    BY <1>4 DEF AdamSubGroup
  <2>2. PICK h \in Groups : h = worker.group
    BY <2>1
  <2>3. Applied(bank[worker.idx][h], h) \in Nat
    BY <1>2, AppliedType
  <2>4. PICK x \in Nat : x = Applied(bank[worker.idx][h], h)
    BY <2>3
  <2>5. master \in [Groups -> Seq(Nat)] /\ worker \in [st : {"boot", "idle", "step", "stopped"}, idx : {0, 1}, group : Nat \ {0}]
    BY <1>2 DEF CtlTypes
  <2>6. /\ master' = [master EXCEPT ![h] = Append(master[h], x)]
        /\ master[h] \in Seq(Nat) /\ Append(master[h], x) \in Seq(Nat)
        /\ Len(Append(master[h], x)) = Len(master[h]) + 1
    BY <2>1, <2>2, <2>4, <2>5
  <2>7. /\ master' \in [Groups -> Seq(Nat)] /\ master'[h] = Append(master[h], x)
        /\ \A g \in Groups \ {h} : master'[g] = master[g]
    BY <2>5, <2>6
  <2>8. /\ worker' \in [st : {"boot", "idle", "step", "stopped"}, idx : {0, 1}, group : Nat \ {0}]
        /\ worker'.st = "step" /\ worker'.idx = worker.idx /\ worker'.group = h + 1
    <3>1. worker.st = "step" /\ worker.idx \in {0, 1} /\ h = worker.group /\ h \in Nat \ {0}
      BY <1>1, <2>2, <2>5
    <3>2. worker = [st |-> worker.st, idx |-> worker.idx, group |-> worker.group]
      BY <2>5
    <3>3. worker' = [st |-> "step", idx |-> worker.idx, group |-> h + 1]
      BY <2>1, <3>1, <3>2
    <3>4. h + 1 \in Nat \ {0}
      BY ONLY <3>1
    <3> QED BY ONLY <3>1, <3>3, <3>4
  <2>9. CtlTypes'
    BY <1>1, <1>2, <2>7, <2>8 DEF CtlTypes
  <2>10. ASSUME NEW n \in Nat, StepSent(n) \/ StepTaken(n) \/ StepDone(n) PROVE StepTaken(n)'
    <3>1. StepTaken(n)
      BY <1>1, <2>10 DEF StepSent, StepDone
    <3>2. ASSUME NEW g \in Groups PROVE Len(master'[g]) = IF g < h + 1 THEN n + 1 ELSE n
      <4>1. Len(master[g]) = IF g < h THEN n + 1 ELSE n
        BY <2>2, <3>1 DEF StepTaken
      <4>2. g \in Nat /\ h \in Nat
        BY <1>2
      <4> QED BY <2>6, <2>7, <4>1, <4>2
    <3>3. h + 1 \in 1 .. NumGroups + 1
      BY <1>2
    <3>4. replies' = <<>> /\ pipe' = <<>> /\ worker'.idx = 1 - switch'
      BY <1>1, <2>1, <2>8, <3>1 DEF StepTaken
    <3> QED BY <2>8, <3>2, <3>3, <3>4 DEF StepTaken, NumGroups
  <2> QED BY <1>1, <1>3, <2>9, <2>10, WorkerStep
<1>5. CASE AdamDone
  <2>1. /\ worker.group \notin Groups /\ replies' = Append(replies, "done") /\ master' = master
        /\ worker' = [st |-> "idle", idx |-> 0, group |-> 1]
    BY <1>5 DEF AdamDone
  <2>2. CtlTypes'
    BY <1>1, <1>2, <2>1 DEF CtlTypes
  <2>3. ASSUME NEW n \in Nat, StepSent(n) \/ StepTaken(n) \/ StepDone(n) PROVE StepDone(n)'
    <3>1. StepTaken(n)
      BY <1>1, <2>3 DEF StepSent, StepDone
    <3>2. worker.group = NumGroups + 1
      BY <1>2, <2>1, <3>1 DEF StepTaken
    <3>3. \A g \in Groups : g < worker.group
      BY <1>2, <3>2
    <3>4. MasterAt(n + 1)'
      BY <2>1, <3>1, <3>3 DEF StepTaken, MasterAt
    <3>5. replies' = <<"done">>
      BY <2>1, <3>1, AppendShort DEF StepTaken
    <3>6. pipe' = <<>> /\ worker'.st = "idle"
      BY <1>1, <2>1, <3>1 DEF StepTaken
    <3> QED BY <3>4, <3>5, <3>6 DEF StepDone, MasterAt
  <2> QED BY <1>1, <1>3, <2>2, <2>3, WorkerStep
<1> QED BY <1>4, <1>5

\* What leaves the loop, the pipe and the weights alone.
LEMMA LoopFrame ==
  ASSUME LoopInv, UNCHANGED <<pc, iter, next, dpuSteps, switch, adamVars>>
  PROVE  LoopInv'
<1>1. UNCHANGED <<pc, iter, next, dpuSteps, switch, stepPending, pipe, replies, worker, master, fp16>>
  BY DEF adamVars
<1>2. CtlTypes' /\ Starting' /\ Between' /\ Ending' /\ SyncIters' = SyncIters
  BY <1>1 DEF LoopInv, CtlTypes, Starting, Between, Ending, Quiet, MasterAt, WeightsAt, SyncIters, Synchronous
<1>3. InSync' /\ InFirstDelayed'
  BY <1>1, <1>2 DEF LoopInv, InSync, InFirstDelayed, Quiet, MasterAt, WeightsAt, NumGroups
<1>4. InDelayed'
  BY <1>1, <1>2 DEF LoopInv, InDelayed, StepSent, StepTaken, StepDone, MasterAt, WeightsAt, NumGroups
<1> QED BY <1>2, <1>3, <1>4 DEF LoopInv

\* The loop, the hooks and the worker preserve the invariant; the streams and
\* the DPU do not touch it.
LEMMA LoopNext == ASSUME LoopInv, [Next]_vars PROVE LoopInv'
<1>1. CASE Host
  BY <1>1, StartAdamStep, BeginStep, IterationStep, StepStep, UpdateStep, StopStep DEF Host
<1>2. CASE ComputeStream
  BY <1>2, LoopFrame DEF ComputeStream, hostVars, resultVars
<1>3. CASE ReduceStream
  BY <1>3, LoopFrame DEF ReduceStream, hostVars, resultVars
<1>4. CASE DpuReduceScatter
  BY <1>4, LoopFrame DEF DpuReduceScatter, hostVars
<1>5. CASE Adam
  BY <1>5, AdamReadyStep, AdamCommandStep, AdamStepStep DEF Adam
<1>6. CASE UNCHANGED vars
  BY <1>6, LoopFrame DEF vars, hostVars, resultVars
<1> QED BY <1>1, <1>2, <1>3, <1>4, <1>5, <1>6 DEF Next

\* In every reachable state of the optimizer the host thread, the pipe and the
\* worker are in step (LoopInv).
THEOREM LoopInvariance == Spec => []LoopInv
<1>1. Init => LoopInv
  BY LoopInit
<1>2. LoopInv /\ [Next]_vars => LoopInv'
  BY LoopNext
<1> QED BY <1>1, <1>2, PTL DEF Spec

\* The invariant of the loop says that the weights are one update behind.
LEMMA DelayedFromLoop == LoopInv => DelayedByOne
<1> SUFFICES ASSUME LoopInv PROVE DelayedByOne
  OBVIOUS
<1>1. CtlTypes /\ InSync /\ InFirstDelayed /\ InDelayed /\ iter \in Nat /\ SyncIters \in Nat
  BY ReduceAssumption, SyncFacts DEF LoopInv, CtlTypes
<1> SUFFICES ASSUME pc \notin {"start", "loop", "groups", "join", "end"}, NEW p \in Shards
             PROVE  [q \in Shards |-> Len(fp16[GroupOf[q]]) + Due(GroupOf[q])][p] = IF iter <= SyncIters + 1 THEN iter - 1 ELSE iter - 2
  BY DEF DelayedByOne, D!DelayedByOne, D!Applied, SyncIters
<1>2. pc \in InIteration
  BY <1>1 DEF CtlTypes, InIteration
<1>3. PICK g \in Groups : g = GroupOf[p]
  BY GroupOfFacts DEF Shards
<1>4. Due(g) = 0
  BY DEF Due
<1>5. Len(fp16[g]) = IF iter <= SyncIters + 1 THEN iter - 1 ELSE iter - 2
  BY <1>1, <1>2 DEF InSync, InFirstDelayed, InDelayed, WeightsAt
<1>6. (IF iter <= SyncIters + 1 THEN iter - 1 ELSE iter - 2) \in Int
  BY <1>1
<1> QED BY <1>3, <1>4, <1>5, <1>6

\* The fp16 weights used by an iteration are those of the iteration before the last,
\* once the updates are delayed (DelayedByOne of zero_optimizer.py).
THEOREM OptimizerDelayedByOne == Spec => []DelayedByOne
<1> QED BY LoopInvariance, DelayedFromLoop, PTL

-----------------------------------------------------------------------------
(* The invariant of the types: the streams, the bucket and the buffers *)

Cells == SUBSET (Nat \X Nat \X Nat)

\* Where the data of a gradient can be.
Places == {l \in [at : {"own", "flat"}, p : Params, off : Nat] :
             l.at = "flat" => l.off + Numel[l.p] <= BucketSize}
QueueOps == [op : {"wait", "copy", "cat", "div"}, n : Nat, src : Seq(Places)]

\* A queue of operations, each copy with one source.
Queue(q) == q \in Seq(QueueOps) /\ \A i \in 1 .. Len(q) : q[i].op = "copy" => Len(q[i].src) = 1

\* The places of the gradients: each its own, those in the flat buffer within it.
LocTypes(f) ==
  /\ f \in [Params -> Locations]
  /\ \A p \in Params : /\ f[p].at = "flat" => f[p].off + Numel[p] <= BucketSize
                       /\ f[p].at # "none" => f[p].p = p

InBackward == {"backward", "hook", "epilogue"}

StreamTypes ==
  /\ own \in [Params -> Seq(Cells)] /\ \A p \in Params : Len(own[p]) = Numel[p]
  /\ flat \in Seq(Cells) /\ Len(flat) = BucketSize
  /\ cat \in Seq(Cells) /\ Len(cat) % World = 0
  /\ cuQ \in Seq(Params \X Nat) /\ cuPos \in Nat /\ rsPos \in Nat
  /\ Queue(rsQ)

BucketTypes ==
  /\ order \in Orders
  /\ LocTypes(loc)
  /\ ipg \in Seq(Params) /\ IsInjective(ipg)
  /\ \A i \in 1 .. Len(ipg) : loc[ipg[i]].at # "none"
  /\ pc \in InBackward => \A i \in 1 .. Len(ipg) : \E j \in 1 .. next - 1 : j <= Len(order) /\ order[j] = ipg[i]
  /\ pc \notin InBackward => ipg = <<>>
  /\ pc = "hook" => next <= Len(order)

\* Two gradients of one parameter are never added up.
MicroTypes ==
  /\ micro \in {0, 1}
  /\ pc \in InBackward \cup {"start", "sync"} => micro = 0
  /\ pc = "loop" /\ iter < SyncIters => micro = 0

TypInv == StreamTypes /\ BucketTypes /\ MicroTypes /\ DOMAIN gradPart = 1 .. SumPart(AllParams)

-----------------------------------------------------------------------------
(* The bucket in the order of ds_id *)

\* A sequence in which nothing comes twice has as many elements as places.
LEMMA DistinctCount ==
  ASSUME NEW S, NEW s \in Seq(S), IsInjective(s)
  PROVE  /\ ToSet(s) \subseteq S /\ IsFiniteSet(ToSet(s)) /\ Cardinality(ToSet(s)) = Len(s)
         /\ \A x \in ToSet(s) : \E i \in DOMAIN s : s[i] = x
<1> DEFINE n == Len(s)
           T == ToSet(s)
<1>1. n \in Nat /\ DOMAIN s = 1 .. n /\ s \in [1 .. n -> S]
  OBVIOUS
<1>2. T = {s[i] : i \in 1 .. n}
  BY <1>1 DEF ToSet
<1>3. T \subseteq S /\ \A x \in T : \E i \in DOMAIN s : s[i] = x
  BY <1>1, <1>2
<1>4. s \in [1 .. n -> T]
  BY <1>1, <1>2
<1>5. s \in Surjection(1 .. n, T) /\ s \in Injection(1 .. n, T)
  BY <1>1, <1>3, <1>4 DEF Surjection, Injection
<1>6. IsFiniteSet(1 .. n) /\ Cardinality(1 .. n) = n
  BY <1>1, FS_Interval
<1>7. IsFiniteSet(T) /\ Cardinality(T) = Cardinality(1 .. n)
  BY <1>5, <1>6, FS_Surjection
<1> QED BY <1>3, <1>6, <1>7

\* The sorted bucket has the parameters of the bucket.
LEMMA BucketFacts ==
  ASSUME ipg \in Seq(Params), IsInjective(ipg)
  PROVE  /\ Bucket \in Seq(Params) /\ Len(Bucket) = Len(ipg) /\ DOMAIN Bucket = 1 .. Len(ipg)
         /\ \A i \in 1 .. Len(ipg) : \E k \in 1 .. Len(ipg) : Bucket[i] = ipg[k]
         /\ \A k \in 1 .. Len(ipg) : \E i \in 1 .. Len(ipg) : Bucket[i] = ipg[k]
         /\ \A i, j \in 1 .. Len(ipg) : i < j => Bucket[i] < Bucket[j]
<1> DEFINE n == Len(ipg)
           T == ToSet(ipg)
<1>0. n \in Nat /\ DOMAIN ipg = 1 .. n /\ \A k \in 1 .. n : ipg[k] \in T
  BY DEF ToSet
<1>1. /\ T \subseteq Params /\ IsFiniteSet(T) /\ Cardinality(T) = n
      /\ \A x \in T : \E i \in DOMAIN ipg : ipg[i] = x
  BY DistinctCount
<1>2. T \subseteq Nat
  BY <1>1, LayoutAssumption
<1>3. Bucket = [i \in 1 .. n |-> Nth(T, i)]
  BY <1>0 DEF Bucket, Nth, Below
<1> HIDE DEF T
<1>4. /\ \A i \in 1 .. n : Nth(T, i) \in T
      /\ \A x \in T : \E i \in 1 .. n : Nth(T, i) = x
  BY <1>1, <1>2, NthFacts
<1>5. \A i, j \in 1 .. n : i < j => Nth(T, i) < Nth(T, j)
  BY <1>1, <1>2, NthSorted
<1>6. Bucket \in [1 .. n -> Params]
  BY <1>1, <1>3, <1>4
<1>7. Bucket \in Seq(Params) /\ Len(Bucket) = n
  BY <1>0, <1>6, FunctionIsSeq
<1>8. \A i \in 1 .. n : Bucket[i] \in T /\ Bucket[i] = Nth(T, i)
  BY <1>3, <1>4
<1> QED BY <1>0, <1>1, <1>4, <1>5, <1>6, <1>7, <1>8

-----------------------------------------------------------------------------
(* The input of a coalesced reduce-scatter *)

\* Where the piece of each tensor begins within the part of a rank.
PartsAt(f, ts) ==
  /\ f \in [0 .. Len(ts) -> Nat] /\ f[0] = 0
  /\ \A i \in 1 .. Len(ts) : f[i] = f[i - 1] + CeilDiv(Len(ts[i]))

\* The part of a rank: its pieces.
RowOf(ts, r) == [i \in 1 .. Len(ts) |-> PieceOf(ts[i], CeilDiv(Len(ts[i])), r)]

RowIs(ts, f, r, S) ==
  /\ RowOf(ts, r) \in Seq(Seq(S)) /\ Len(RowOf(ts, r)) = Len(ts)
  /\ \A i \in 1 .. Len(ts) : /\ RowOf(ts, r)[i] = PieceOf(ts[i], CeilDiv(Len(ts[i])), r)
                             /\ Len(RowOf(ts, r)[i]) = CeilDiv(Len(ts[i]))
  /\ Offsets(f, RowOf(ts, r))

\* A part has one piece of each tensor.
LEMMA RowFacts ==
  ASSUME NEW S, PadCell \in S, NEW ts \in Seq(Seq(S)), NEW f, PartsAt(f, ts), NEW r \in Nat
  PROVE  RowIs(ts, f, r, S)
<1> DEFINE n == Len(ts)
           w == RowOf(ts, r)
<1>0. n \in Nat
  OBVIOUS
<1>1. ASSUME NEW i \in 1 .. n
      PROVE  /\ PieceOf(ts[i], CeilDiv(Len(ts[i])), r) \in Seq(S)
             /\ Len(PieceOf(ts[i], CeilDiv(Len(ts[i])), r)) = CeilDiv(Len(ts[i]))
  <2>1. ts[i] \in Seq(S)
    OBVIOUS
  <2>2. Len(ts[i]) \in Nat
    BY <2>1
  <2>3. CeilDiv(Len(ts[i])) \in Nat
    BY <2>2, PartFacts
  <2>4. PieceIs(ts[i], CeilDiv(Len(ts[i])), r, S)
    BY <2>1, <2>3, PieceFacts
  <2> QED BY <2>4 DEF PieceIs
<1>2. w \in [1 .. n -> Seq(S)]
  BY <1>1 DEF RowOf
<1>3. w \in Seq(Seq(S)) /\ Len(w) = n
  BY <1>0, <1>2, FunctionIsSeq
<1>4. \A i \in 1 .. n : /\ w[i] = PieceOf(ts[i], CeilDiv(Len(ts[i])), r)
                        /\ Len(w[i]) = CeilDiv(Len(ts[i]))
  BY <1>1 DEF RowOf
<1>5. Offsets(f, w)
  BY <1>3, <1>4 DEF Offsets, PartsAt
<1> QED BY <1>3, <1>4, <1>5 DEF RowIs

\* Chunks that are filled up are pieces.
LEMMA RowIsPieces ==
  ASSUME NEW S, PadCell \in S, NEW ts \in Seq(Seq(S)), NEW r \in Nat
  PROVE  [i \in DOMAIN ts |-> Padded(Chunk(ts[i], r), CeilDiv(Len(ts[i])))] = RowOf(ts, r)
<1>1. ASSUME NEW i \in 1 .. Len(ts)
      PROVE  Padded(Chunk(ts[i], r), CeilDiv(Len(ts[i]))) = PieceOf(ts[i], CeilDiv(Len(ts[i])), r)
  <2>1. ts[i] \in Seq(S)
    OBVIOUS
  <2>2. PICK t \in Seq(S) : t = ts[i]
    BY <2>1
  <2>3. Len(t) \in Nat
    OBVIOUS
  <2>4. CeilDiv(Len(t)) \in Nat
    BY <2>3, PartFacts
  <2>5. IsCut(Chunk(t, r), t, CeilDiv(Len(t)), r)
    BY DEF IsCut, Chunk
  <2>6. Padded(Chunk(t, r), CeilDiv(Len(t))) = PieceOf(t, CeilDiv(Len(t)), r)
    BY <2>4, <2>5, CutFacts
  <2> QED BY <2>2, <2>6
<1>2. DOMAIN ts = 1 .. Len(ts)
  OBVIOUS
<1> QED BY <1>1, <1>2, Zenon DEF RowOf

InterleavedIs(ts, f, S) ==
  /\ Interleaved(ts) \in Seq(S) /\ Len(Interleaved(ts)) = World * f[Len(ts)]
  /\ \A r \in Ranks : \A i \in 1 .. Len(ts) : \A j \in 1 .. CeilDiv(Len(ts[i])) :
       /\ f[i - 1] + j \in 1 .. f[Len(ts)]
       /\ Interleaved(ts)[r * f[Len(ts)] + (f[i - 1] + j)] = PieceOf(ts[i], CeilDiv(Len(ts[i])), r)[j]

\* The input has the part of every rank, and the part every piece.
LEMMA InterleavedFacts ==
  ASSUME NEW S, PadCell \in S, NEW ts \in Seq(Seq(S)), NEW f, PartsAt(f, ts)
  PROVE  InterleavedIs(ts, f, S)
<1> DEFINE n == Len(ts)
           ss == [r \in 1 .. World |-> FlattenSeq(RowOf(ts, r - 1))]
<1>0. n \in Nat /\ World \in Nat \ {0} /\ Ranks = 0 .. World - 1
  BY LayoutAssumption DEF Ranks
<1>1. PICK m \in Nat : m = f[n]
  BY <1>0 DEF PartsAt
<1>2. ASSUME NEW r \in Nat
      PROVE  /\ FlattenSeq(RowOf(ts, r)) \in Seq(S) /\ Len(FlattenSeq(RowOf(ts, r))) = m
             /\ \A i \in 1 .. n : \A j \in 1 .. CeilDiv(Len(ts[i])) :
                  /\ f[i - 1] + j \in 1 .. m
                  /\ FlattenSeq(RowOf(ts, r))[f[i - 1] + j] = PieceOf(ts[i], CeilDiv(Len(ts[i])), r)[j]
  <2>1. RowIs(ts, f, r, S)
    BY RowFacts
  <2>2. /\ RowOf(ts, r) \in Seq(Seq(S)) /\ Len(RowOf(ts, r)) = n
        /\ \A i \in 1 .. n : /\ RowOf(ts, r)[i] = PieceOf(ts[i], CeilDiv(Len(ts[i])), r)
                             /\ Len(RowOf(ts, r)[i]) = CeilDiv(Len(ts[i]))
        /\ Offsets(f, RowOf(ts, r))
    BY <2>1 DEF RowIs
  <2>3. SlicesOf(RowOf(ts, r), f, S)
    BY ONLY <2>2, FlattenSlices
  <2> DEFINE w == RowOf(ts, r)
  <2>4. /\ FlattenSeq(w) \in Seq(S) /\ Len(FlattenSeq(w)) = m
        /\ \A i \in 1 .. n : \A j \in 1 .. Len(w[i]) :
             f[i - 1] + j \in 1 .. m /\ FlattenSeq(w)[f[i - 1] + j] = w[i][j]
    BY <1>1, <2>2, <2>3 DEF SlicesOf
  <2>5. \A i \in 1 .. n : w[i] = PieceOf(ts[i], CeilDiv(Len(ts[i])), r) /\ Len(w[i]) = CeilDiv(Len(ts[i]))
    BY <2>2
  <2> HIDE DEF w
  <2>6. ASSUME NEW i \in 1 .. n, NEW j \in 1 .. CeilDiv(Len(ts[i]))
        PROVE  /\ f[i - 1] + j \in 1 .. m
               /\ FlattenSeq(w)[f[i - 1] + j] = PieceOf(ts[i], CeilDiv(Len(ts[i])), r)[j]
    BY <2>4, <2>5
  <2> QED BY <2>4, <2>6 DEF w
<1>3. Interleaved(ts) = FlattenSeq(ss)
  <2>1. ASSUME NEW r \in 1 .. World
        PROVE  FlattenSeq([i \in DOMAIN ts |-> Padded(Chunk(ts[i], r - 1), CeilDiv(Len(ts[i])))])
                 = FlattenSeq(RowOf(ts, r - 1))
    <3>1. r - 1 \in Nat
      BY <1>0
    <3>2. [i \in DOMAIN ts |-> Padded(Chunk(ts[i], r - 1), CeilDiv(Len(ts[i])))] = RowOf(ts, r - 1)
      BY <3>1, RowIsPieces
    <3> QED BY <3>2, Zenon
  <2> QED BY <2>1, Zenon DEF Interleaved
<1>4. \A r \in 1 .. World : r - 1 \in Nat
  BY <1>0
<1>5. \A r \in 1 .. World : FlattenSeq(RowOf(ts, r - 1)) \in Seq(S) /\ Len(FlattenSeq(RowOf(ts, r - 1))) = m
  BY <1>2, <1>4
<1>6. ss \in [1 .. World -> Seq(S)]
  BY <1>5
<1>7. ss \in Seq(Seq(S)) /\ Len(ss) = World
  BY <1>0, <1>6, FunctionIsSeq
<1>8. \A r \in 1 .. World : ss[r] = FlattenSeq(RowOf(ts, r - 1))
  OBVIOUS
<1> HIDE DEF ss
<1>9. Even(ss, m)
  BY <1>5, <1>7, <1>8 DEF Even
<1>10. RowsOf(ss, m, S)
  BY <1>7, <1>9, FlattenEven
<1>11. Interleaved(ts) \in Seq(S) /\ Len(Interleaved(ts)) = World * m
  BY <1>3, <1>7, <1>10 DEF RowsOf
<1>12. ASSUME NEW r \in Ranks, NEW i \in 1 .. n, NEW j \in 1 .. CeilDiv(Len(ts[i]))
       PROVE  /\ f[i - 1] + j \in 1 .. m
              /\ Interleaved(ts)[r * m + (f[i - 1] + j)] = PieceOf(ts[i], CeilDiv(Len(ts[i])), r)[j]
  <2>1. r \in Nat /\ r + 1 \in 1 .. World /\ (r + 1) - 1 = r
    BY <1>0
  <2>2. /\ f[i - 1] + j \in 1 .. m
        /\ FlattenSeq(RowOf(ts, r))[f[i - 1] + j] = PieceOf(ts[i], CeilDiv(Len(ts[i])), r)[j]
    BY <1>2, <2>1
  <2>3. PICK x \in 1 .. m : x = f[i - 1] + j
    BY <2>2
  <2>4. FlattenSeq(ss)[((r + 1) - 1) * m + x] = ss[r + 1][x]
    BY <1>7, <1>10, <2>1 DEF RowsOf
  <2>5. ss[r + 1] = FlattenSeq(RowOf(ts, r))
    BY <1>8, <2>1
  <2> QED BY <1>3, <2>1, <2>2, <2>3, <2>4, <2>5
<1> QED BY <1>1, <1>11, <1>12 DEF InterleavedIs

\* There is such a place for every piece.
LEMMA PartsAtExists ==
  ASSUME NEW S, NEW ts \in Seq(Seq(S))
  PROVE  \E f : PartsAt(f, ts)
<1> DEFINE W == [t \in Seq(S) |-> CeilDiv(Len(t))]
<1>1. \A t \in Seq(S) : CeilDiv(Len(t)) \in Nat
  <2>1. \A t \in Seq(S) : Len(t) \in Nat
    OBVIOUS
  <2> QED BY <2>1, PartFacts
<1>2. W \in [Seq(S) -> Nat]
  BY <1>1
<1>3. \A i \in 1 .. Len(ts) : ts[i] \in Seq(S) /\ W[ts[i]] = CeilDiv(Len(ts[i]))
  OBVIOUS
<1> HIDE DEF W
<1>4. SumsAre(W, ts)
  BY <1>2, SumsFacts
<1>5. IsSums(Sums(W, ts), W, ts)
  BY <1>4 DEF SumsAre
<1>6. PartsAt(Sums(W, ts), ts)
  BY <1>3, <1>5 DEF IsSums, PartsAt
<1> QED BY <1>6

\* It divides among the ranks.
LEMMA InterleavedDivides ==
  ASSUME NEW S, PadCell \in S, NEW ts \in Seq(Seq(S))
  PROVE  Interleaved(ts) \in Seq(S) /\ Len(Interleaved(ts)) % World = 0
<1>1. PICK f : PartsAt(f, ts)
  BY PartsAtExists
<1>2. InterleavedIs(ts, f, S)
  BY <1>1, InterleavedFacts
<1>3. PICK m \in Nat : m = f[Len(ts)]
  <2>1. Len(ts) \in Nat
    OBVIOUS
  <2> QED BY <1>1, <2>1 DEF PartsAt
<1>4. Interleaved(ts) \in Seq(S) /\ Len(Interleaved(ts)) = World * m
  BY <1>2, <1>3 DEF InterleavedIs
<1>5. World \in Nat \ {0} /\ 0 \in 0 .. World - 1 /\ World * m + 0 = World * m
  BY LayoutAssumption
<1>6. (World * m + 0) % World = 0
  BY <1>5, DivUnique
<1> QED BY <1>4, <1>5, <1>6

-----------------------------------------------------------------------------
(* The types of what the actions queue, place and read *)

\* A tensor of padding.
LEMMA BlankFacts ==
  ASSUME NEW n \in Nat
  PROVE  Blank(n) \in Seq(Cells) /\ Len(Blank(n)) = n /\ DOMAIN Blank(n) = 1 .. n
<1>1. Blank(n) \in [1 .. n -> Cells]
  BY DEF Blank, Cells
<1> QED BY <1>1, FunctionIsSeq

\* The gradients of a backward pass come in an order of the parameters, each once.
LEMMA OrderFacts ==
  ASSUME NEW o \in Orders
  PROVE  /\ o \in Seq(Params) /\ Len(o) \in Nat
         /\ \A i, j \in 1 .. Len(o) : o[i] = o[j] => i = j
<1>1. o \in Seq(Params) /\ ToSet(o) = Params /\ Len(o) = Cardinality(Params) /\ IsFiniteSet(Params)
  BY ReduceAssumption, LayoutAssumption
<1> DEFINE n == Len(o)
<1>2. n \in Nat /\ o \in [1 .. n -> Params] /\ DOMAIN o = 1 .. n
  BY <1>1
<1>3. \A x \in Params : \E i \in 1 .. n : o[i] = x
  BY <1>1, <1>2 DEF ToSet
<1>4. o \in Surjection(1 .. n, Params)
  BY <1>2, <1>3 DEF Surjection
<1>5. IsFiniteSet(1 .. n) /\ Cardinality(1 .. n) = n
  BY <1>2, FS_Interval
<1>6. o \in Injection(1 .. n, Params)
  BY <1>1, <1>4, <1>5, FS_Surjection
<1>7. \A i, j \in 1 .. n : o[i] = o[j] => i = j
  <2>1. \A i, j \in DOMAIN o : o[i] = o[j] => i = j
    BY <1>6, Zenon DEF Injection, IsInjective
  <2> QED BY <1>2, <2>1
<1> QED BY <1>1, <1>2, <1>7

\* Where a gradient is placed: in the flat buffer only if it fits.
LEMMA PlaceType ==
  ASSUME ipg \in Seq(Params), NEW p \in Params
  PROVE  /\ Place(p) \in Locations /\ Place(p) \in Places /\ Place(p).p = p
         /\ Place(p).at \in {"own", "flat"}
         /\ Place(p).at = "flat" => Place(p).off + Numel[p] <= BucketSize
<1>1. SumNumel(ipg) \in Nat /\ Numel[p] \in Nat /\ BucketSize \in Nat
  BY SumNumelIs, Weights, ReduceAssumption
<1>2. PICK n \in Nat : n = SumNumel(ipg)
  BY <1>1
<1>3. Place(p) = IF n + Numel[p] < BucketSize THEN Flat(p, n) ELSE Own(p)
  BY <1>2 DEF Place
<1>4. CASE n + Numel[p] < BucketSize
  BY <1>1, <1>3, <1>4 DEF Flat, Locations, Places
<1>5. CASE ~ (n + Numel[p] < BucketSize)
  BY <1>1, <1>3, <1>5 DEF Own, Locations, Places
<1> QED BY <1>4, <1>5

\* The gradient of a parameter that has one can be read.
LEMMA LocIsPlace ==
  ASSUME BucketTypes, NEW p \in Params, loc[p].at # "none"
  PROVE  loc[p] \in Places
<1>1. /\ loc[p] \in [at : {"none", "own", "flat"}, p : Params \cup {0}, off : 0 .. BucketSize]
      /\ loc[p].at = "flat" => loc[p].off + Numel[p] <= BucketSize
      /\ loc[p].p = p
  BY DEF BucketTypes, LocTypes, Locations
<1>2. PICK l \in [at : {"none", "own", "flat"}, p : Params \cup {0}, off : 0 .. BucketSize] : l = loc[p]
  BY <1>1
<1>3. BucketSize \in Nat
  BY ReduceAssumption
<1>4. l.at \in {"own", "flat"} /\ l.p = p /\ l.off \in Nat /\ (l.at = "flat" => l.off + Numel[l.p] <= BucketSize)
  BY <1>1, <1>2, <1>3
<1>5. l = [at |-> l.at, p |-> l.p, off |-> l.off]
  BY <1>2
<1>6. l \in [at : {"own", "flat"}, p : Params, off : Nat]
  BY <1>4, <1>5
<1> QED BY <1>2, <1>4, <1>6 DEF Places

\* What is read is a gradient's length of cells.
LEMMA ReadFacts ==
  ASSUME StreamTypes, NEW l \in Places
  PROVE  Read(l) \in Seq(Cells) /\ Len(Read(l)) = Numel[l.p]
<1>1. /\ l.p \in Params /\ l.off \in Nat /\ l.at \in {"own", "flat"}
      /\ l.at = "flat" => l.off + Numel[l.p] <= BucketSize
  BY DEF Places
<1>2. Numel[l.p] \in Nat
  BY <1>1, Weights
<1>3. CASE l.at = "flat"
  <2>1. flat \in Seq(Cells) /\ Len(flat) = BucketSize
    BY DEF StreamTypes
  <2>2. Fits(flat, l.off, Numel[l.p])
    BY <1>1, <1>3, <2>1 DEF Fits
  <2>3. Narrow(flat, l.off, Numel[l.p]) \in Seq(Cells) /\ Len(Narrow(flat, l.off, Numel[l.p])) = Numel[l.p]
    BY <1>1, <1>2, <2>1, <2>2, NarrowFacts
  <2> QED BY <1>3, <2>3 DEF Read
<1>4. CASE l.at # "flat"
  <2>1. own[l.p] \in Seq(Cells) /\ Len(own[l.p]) = Numel[l.p]
    BY <1>1 DEF StreamTypes
  <2> QED BY <1>4, <2>1 DEF Read
<1> QED BY <1>3, <1>4

\* The gradients of a bucket can be read.
LEMMA LocsType ==
  ASSUME BucketTypes
  PROVE  /\ Bucket \in Seq(Params) /\ Len(Bucket) = Len(ipg)
         /\ Locs(Bucket) \in Seq(Places) /\ Len(Locs(Bucket)) = Len(ipg)
<1>1. ipg \in Seq(Params) /\ IsInjective(ipg) /\ \A i \in 1 .. Len(ipg) : loc[ipg[i]].at # "none"
  BY DEF BucketTypes
<1>2. /\ Bucket \in Seq(Params) /\ Len(Bucket) = Len(ipg) /\ DOMAIN Bucket = 1 .. Len(ipg)
      /\ \A i \in 1 .. Len(ipg) : \E k \in 1 .. Len(ipg) : Bucket[i] = ipg[k]
  BY <1>1, BucketFacts
<1>3. \A i \in 1 .. Len(ipg) : loc[Bucket[i]] \in Places
  <2>1. ASSUME NEW i \in 1 .. Len(ipg) PROVE loc[Bucket[i]] \in Places
    <3>1. Bucket[i] \in Params /\ loc[Bucket[i]].at # "none"
      BY <1>1, <1>2
    <3> QED BY <3>1, LocIsPlace
  <2> QED BY <2>1
<1>4. Len(ipg) \in Nat /\ Locs(Bucket) = [i \in 1 .. Len(ipg) |-> loc[Bucket[i]]]
  BY <1>1, <1>2 DEF Locs
<1>5. Locs(Bucket) \in [1 .. Len(ipg) -> Places]
  BY <1>3, <1>4
<1> QED BY <1>2, <1>4, <1>5, FunctionIsSeq

\* What is queued on the reduce stream.
LEMMA OpTypes ==
  /\ \A n \in Nat : WaitOp(n) \in QueueOps /\ WaitOp(n).op # "copy"
  /\ \A l \in Places : CopyOp(l) \in QueueOps /\ Len(CopyOp(l).src) = 1
  /\ \A ls \in Seq(Places) : CatOp(ls) \in QueueOps /\ CatOp(ls).op # "copy"
  /\ DivOp \in QueueOps /\ DivOp.op # "copy"
<1>1. <<>> \in Seq(Places) /\ 0 \in Nat
  OBVIOUS
<1>2. ASSUME NEW n \in Nat PROVE WaitOp(n) \in QueueOps /\ WaitOp(n).op # "copy"
  BY <1>1 DEF WaitOp, QueueOps
<1>3. ASSUME NEW l \in Places PROVE CopyOp(l) \in QueueOps /\ Len(CopyOp(l).src) = 1
  <2>1. <<l>> \in Seq(Places) /\ Len(<<l>>) = 1
    OBVIOUS
  <2> QED BY <1>1, <2>1 DEF CopyOp, QueueOps
<1>4. ASSUME NEW ls \in Seq(Places) PROVE CatOp(ls) \in QueueOps /\ CatOp(ls).op # "copy"
  BY <1>1 DEF CatOp, QueueOps
<1>5. DivOp \in QueueOps /\ DivOp.op # "copy"
  BY <1>1 DEF DivOp, QueueOps
<1> QED BY <1>2, <1>3, <1>4, <1>5

\* The reduce stream of a bucket that is packed.
LEMMA PackedQueue ==
  ASSUME Queue(rsQ), cuPos \in Nat, cuQ \in Seq(Params \X Nat), NEW l \in Places
  PROVE  Queue(rsQ \o PackOps(l))
<1>1. cuPos + Len(cuQ) \in Nat
  OBVIOUS
<1> DEFINE a == WaitOp(cuPos + Len(cuQ))
           b == CopyOp(l)
<1>2. a \in QueueOps /\ a.op # "copy" /\ b \in QueueOps /\ Len(b.src) = 1
  BY <1>1, OpTypes
<1>3. PackOps(l) = <<a>> \o (IF l.at = "flat" THEN <<b>> ELSE <<>>)
  BY DEF PackOps
<1> HIDE DEF a, b
<1>4. PICK t \in Seq(QueueOps) : /\ t = PackOps(l)
                                 /\ \A i \in 1 .. Len(t) : t[i].op = "copy" => Len(t[i].src) = 1
  <2>1. CASE l.at = "flat"
    <3>1. <<a>> \in Seq(QueueOps) /\ Len(<<a>>) = 1 /\ <<b>> \in Seq(QueueOps) /\ Len(<<b>>) = 1
          /\ <<a>>[1] = a /\ <<b>>[1] = b
      BY <1>2
    <3> DEFINE x == <<a>>
               y == <<b>>
               u == x \o y
    <3>2. x \in Seq(QueueOps) /\ Len(x) = 1 /\ y \in Seq(QueueOps) /\ Len(y) = 1 /\ x[1] = a /\ y[1] = b
      BY <3>1
    <3>3. PackOps(l) = u
      BY <1>3, <2>1
    <3> HIDE DEF x, y
    <3>4. u \in Seq(QueueOps) /\ Len(u) = 2 /\ u[1] = a /\ u[2] = b
      <4>1. ConcatIs(x, y, QueueOps)
        BY <3>2, ConcatFacts
      <4>2. /\ u \in Seq(QueueOps) /\ Len(u) = Len(x) + Len(y)
            /\ \A i \in 1 .. Len(x) : u[i] = x[i]
            /\ \A i \in 1 .. Len(y) : u[Len(x) + i] = y[i]
        BY <4>1 DEF ConcatIs
      <4>3. 1 \in 1 .. Len(x) /\ 1 \in 1 .. Len(y) /\ Len(x) + 1 = 2
        BY <3>2
      <4> QED BY <3>2, <4>2, <4>3
    <3>5. \A i \in 1 .. 2 : i = 1 \/ i = 2
      OBVIOUS
    <3> HIDE DEF u
    <3> QED BY <1>2, <3>3, <3>4, <3>5
  <2>2. CASE l.at # "flat"
    <3>1. <<a>> \o <<>> = <<a>> /\ <<a>> \in Seq(QueueOps) /\ Len(<<a>>) = 1
      BY <1>2
    <3>2. \A i \in 1 .. 1 : <<a>>[i] = a
      OBVIOUS
    <3> QED BY <1>2, <1>3, <2>2, <3>1, <3>2
  <2> QED BY <2>1, <2>2
<1> DEFINE q == rsQ
<1>5. q \in Seq(QueueOps) /\ \A i \in 1 .. Len(q) : q[i].op = "copy" => Len(q[i].src) = 1
  BY DEF Queue
<1> HIDE DEF q
<1>6. ConcatIs(q, t, QueueOps)
  BY <1>5, ConcatFacts
<1>7. Queue(q \o t)
  <2>1. /\ q \o t \in Seq(QueueOps) /\ Len(q \o t) = Len(q) + Len(t) /\ Len(q) \in Nat /\ Len(t) \in Nat
        /\ \A i \in 1 .. Len(q) : (q \o t)[i] = q[i]
        /\ \A i \in 1 .. Len(t) : (q \o t)[Len(q) + i] = t[i]
    BY <1>5, <1>6 DEF ConcatIs
  <2>2. ASSUME NEW i \in 1 .. Len(q \o t), (q \o t)[i].op = "copy" PROVE Len((q \o t)[i].src) = 1
    <3>1. CASE i <= Len(q)
      BY <1>5, <2>1, <2>2, <3>1
    <3>2. CASE ~ (i <= Len(q))
      <4>1. i - Len(q) \in 1 .. Len(t) /\ Len(q) + (i - Len(q)) = i
        BY <2>1, <3>2
      <4>2. (q \o t)[i] = t[i - Len(q)]
        BY <2>1, <4>1
      <4> QED BY <1>4, <2>2, <4>1, <4>2
    <3> QED BY <3>1, <3>2
  <2> QED BY <2>1, <2>2 DEF Queue
<1> QED BY <1>4, <1>7 DEF q

\* One more operation.
LEMMA AppendedQueue ==
  ASSUME NEW q, Queue(q), NEW o \in QueueOps, o.op = "copy" => Len(o.src) = 1
  PROVE  Queue(Append(q, o))
<1>1. q \in Seq(QueueOps) /\ Len(q) \in Nat /\ \A i \in 1 .. Len(q) : q[i].op = "copy" => Len(q[i].src) = 1
  BY DEF Queue
<1>2. /\ Append(q, o) \in Seq(QueueOps) /\ Len(Append(q, o)) = Len(q) + 1
      /\ \A i \in 1 .. Len(q) + 1 : Append(q, o)[i] = IF i = Len(q) + 1 THEN o ELSE q[i]
  BY <1>1
<1>3. ASSUME NEW i \in 1 .. Len(q) + 1, Append(q, o)[i].op = "copy" PROVE Len(Append(q, o)[i].src) = 1
  <2>1. CASE i = Len(q) + 1
    BY <1>2, <1>3, <2>1
  <2>2. CASE i # Len(q) + 1
    <3>1. i \in 1 .. Len(q) /\ Append(q, o)[i] = q[i]
      BY <1>1, <1>2, <2>2
    <3> QED BY <1>1, <1>3, <3>1
  <2> QED BY <2>1, <2>2
<1> QED BY <1>2, <1>3 DEF Queue

\* One executed.
LEMMA TailQueue ==
  ASSUME NEW q, Queue(q), q # <<>>
  PROVE  Queue(Tail(q)) /\ Head(q) \in QueueOps /\ (Head(q).op = "copy" => Len(Head(q).src) = 1)
<1>1. q \in Seq(QueueOps) /\ Len(q) \in Nat /\ \A i \in 1 .. Len(q) : q[i].op = "copy" => Len(q[i].src) = 1
  BY DEF Queue
<1>2. /\ Tail(q) \in Seq(QueueOps) /\ Len(Tail(q)) = Len(q) - 1 /\ Len(q) >= 1
      /\ \A i \in 1 .. Len(Tail(q)) : Tail(q)[i] = q[i + 1]
  BY <1>1
<1>3. \A i \in 1 .. Len(Tail(q)) : i + 1 \in 1 .. Len(q)
  BY <1>1, <1>2
<1>4. Head(q) = q[1] /\ Head(q) \in QueueOps /\ 1 \in 1 .. Len(q)
  BY <1>1, <1>2
<1> QED BY <1>1, <1>2, <1>3, <1>4 DEF Queue

-----------------------------------------------------------------------------
(* The types are an invariant *)

\* Initially nothing is queued and nothing is in the bucket.
LEMMA TypInit == ASSUME Init PROVE TypInv
<1>1. /\ pc = "start" /\ order \in Orders /\ micro = 0 /\ ipg = <<>> /\ loc = [p \in Params |-> NoGrad]
      /\ gradPart = Blank(SumPart(AllParams)) /\ next = 1 /\ iter = 0
      /\ own = [p \in Params |-> Blank(Numel[p])] /\ flat = Blank(BucketSize) /\ cat = <<>>
      /\ cuQ = <<>> /\ cuPos = 0 /\ rsQ = <<>> /\ rsPos = 0
  BY DEF Init
<1>2. BucketSize \in Nat /\ AllParams \in Seq(Params) /\ World \in Nat \ {0}
  BY ReduceAssumption, LayoutAssumption, AllParamsFacts
<1>3. SumPart(AllParams) \in Nat /\ \A p \in Params : Numel[p] \in Nat
  BY <1>2, SumPartIs, Weights
<1>4. StreamTypes
  <2>1. \A p \in Params : Blank(Numel[p]) \in Seq(Cells) /\ Len(Blank(Numel[p])) = Numel[p]
    BY <1>3, BlankFacts
  <2>2. own \in [Params -> Seq(Cells)] /\ \A p \in Params : Len(own[p]) = Numel[p]
    BY <1>1, <2>1
  <2>3. flat \in Seq(Cells) /\ Len(flat) = BucketSize
    BY <1>1, <1>2, BlankFacts
  <2>4. cat \in Seq(Cells) /\ Len(cat) = 0
    BY <1>1
  <2>5. 0 % World = 0
    BY <1>2
  <2>6. Queue(rsQ)
    BY <1>1 DEF Queue
  <2>7. cuQ \in Seq(Params \X Nat) /\ cuPos \in Nat /\ rsPos \in Nat
    BY <1>1
  <2> QED BY <2>2, <2>3, <2>4, <2>5, <2>6, <2>7 DEF StreamTypes
<1>5. BucketTypes
  <2>1. LocTypes(loc)
    BY <1>1, <1>2 DEF LocTypes, Locations, NoGrad
  <2>2. ipg \in Seq(Params) /\ Len(ipg) = 0 /\ DOMAIN ipg = {}
    BY <1>1
  <2>3. IsInjective(ipg)
    BY <2>2 DEF IsInjective
  <2> QED BY <1>1, <2>1, <2>2, <2>3 DEF BucketTypes, InBackward
<1>6. MicroTypes
  BY <1>1 DEF MicroTypes
<1>7. DOMAIN gradPart = 1 .. SumPart(AllParams)
  BY <1>1, <1>3, BlankFacts
<1> QED BY <1>4, <1>5, <1>6, <1>7 DEF TypInv

\* A step of another process or of a stream leaves the bucket alone.
LEMMA BucketFrame ==
  ASSUME BucketTypes, UNCHANGED <<pc, order, next, ipg, loc>>
  PROVE  BucketTypes'
BY DEF BucketTypes, InBackward

\* So do the steps of the host outside the backward pass, which only release gradients.
LEMMA OutsideBackward ==
  ASSUME BucketTypes, pc \notin InBackward, pc' # "hook", order' = order, ipg' = ipg,
         \A p \in Params : loc'[p] \in {loc[p], NoGrad}, loc' \in [Params -> {loc'[p] : p \in Params}]
  PROVE  BucketTypes'
<1>1. ipg = <<>> /\ Len(ipg) = 0 /\ LocTypes(loc) /\ ipg \in Seq(Params) /\ IsInjective(ipg) /\ order \in Orders
  BY DEF BucketTypes
<1>2. LocTypes(loc')
  <2>1. NoGrad \in Locations /\ NoGrad.at = "none"
    BY ReduceAssumption DEF NoGrad, Locations
  <2>2. /\ loc \in [Params -> Locations]
        /\ \A p \in Params : /\ loc[p].at = "flat" => loc[p].off + Numel[p] <= BucketSize
                             /\ loc[p].at # "none" => loc[p].p = p
    BY <1>1 DEF LocTypes
  <2>3. \A p \in Params : loc'[p] \in Locations
    BY <2>1, <2>2
  <2>4. loc' \in [Params -> Locations]
    BY <2>3
  <2>5. ASSUME NEW p \in Params
        PROVE  /\ loc'[p].at = "flat" => loc'[p].off + Numel[p] <= BucketSize
               /\ loc'[p].at # "none" => loc'[p].p = p
    <3>1. CASE loc'[p] = loc[p]
      BY <2>2, <3>1
    <3>2. CASE loc'[p] = NoGrad
      BY <2>1, <3>2
    <3> QED BY <3>1, <3>2
  <2> QED BY <2>4, <2>5 DEF LocTypes
<1>3. LocTypes(loc)' <=> LocTypes(loc')
  BY DEF LocTypes, Locations
<1>4. IsInjective(ipg') /\ Len(ipg') = 0 /\ ipg' = <<>> /\ ipg' \in Seq(Params) /\ order' \in Orders
  BY <1>1
<1> QED BY <1>2, <1>3, <1>4 DEF BucketTypes, InBackward

\* The release of the parameters of a reduce-scatter.
LEMMA ReleasedFacts ==
  ASSUME loc' = Released
  PROVE  /\ \A p \in Params : loc'[p] \in {loc[p], NoGrad}
         /\ loc' \in [Params -> {loc'[p] : p \in Params}]
BY DEF Released

\* Streams nobody moves.
LEMMA StreamFrame ==
  ASSUME StreamTypes, UNCHANGED streamVars
  PROVE  StreamTypes'
<1>1. UNCHANGED <<own, flat, cat, cuQ, cuPos, rsQ, rsPos>>
  BY DEF streamVars
<1>2. Queue(rsQ)' <=> Queue(rsQ')
  BY DEF Queue, QueueOps, Places
<1> QED BY <1>1, <1>2 DEF StreamTypes

\* The kernel of a gradient is queued.
LEMMA KernelTypes == ASSUME LoopInv, TypInv, GradKernel PROVE TypInv'
<1>1. /\ pc = "backward" /\ next <= Len(order) /\ pc' = "hook"
      /\ cuQ' = Append(cuQ, <<order[next], iter>>)
      /\ loc' = [loc EXCEPT ![order[next]] = Own(order[next])]
      /\ UNCHANGED <<order, iter, next, micro, ipg, gradPart, own, flat, cat, cuPos, rsQ, rsPos>>
  BY DEF GradKernel, resultVars
<1>2. StreamTypes /\ BucketTypes /\ MicroTypes /\ DOMAIN gradPart = 1 .. SumPart(AllParams)
  BY DEF TypInv
<1>3. next \in Nat \ {0} /\ iter \in Nat
  BY ReduceAssumption DEF LoopInv, CtlTypes
<1>4. PICK p \in Params : p = order[next]
  <2>1. order \in Orders
    BY <1>2 DEF BucketTypes
  <2>2. order \in Seq(Params) /\ Len(order) \in Nat
    BY <2>1, OrderFacts
  <2>3. next \in 1 .. Len(order)
    BY <1>1, <1>3, <2>2
  <2> QED BY <2>2, <2>3
<1>5. StreamTypes'
  <2>1. cuQ' \in Seq(Params \X Nat)
    BY <1>1, <1>2, <1>3, <1>4 DEF StreamTypes
  <2>2. Queue(rsQ)' <=> Queue(rsQ')
    BY DEF Queue, QueueOps, Places
  <2> QED BY <1>1, <1>2, <2>1, <2>2 DEF StreamTypes
<1>6. LocTypes(loc')
  <2>1. Own(p) \in Locations /\ Own(p).at = "own" /\ Own(p).p = p
    BY ReduceAssumption DEF Own, Locations
  <2>2. loc' = [loc EXCEPT ![p] = Own(p)] /\ LocTypes(loc)
    BY <1>1, <1>2, <1>4 DEF BucketTypes
  <2> QED BY <2>1, <2>2 DEF LocTypes
<1>7. BucketTypes'
  <2>1. LocTypes(loc)' <=> LocTypes(loc')
    BY DEF LocTypes, Locations
  <2>2. IsInjective(ipg)' <=> IsInjective(ipg)
    BY <1>1 DEF IsInjective
  <2>3. \A i \in 1 .. Len(ipg') : loc'[ipg'[i]].at # "none"
    <3>1. \A i \in 1 .. Len(ipg) : loc[ipg[i]].at # "none" /\ ipg[i] \in Params
      BY <1>2 DEF BucketTypes
    <3>2. loc' = [loc EXCEPT ![p] = Own(p)] /\ loc \in [Params -> Locations] /\ Own(p).at = "own"
      BY <1>1, <1>2, <1>4 DEF BucketTypes, LocTypes, Own
    <3> QED BY <1>1, <3>1, <3>2
  <2> QED BY <1>1, <1>2, <1>6, <2>1, <2>2, <2>3 DEF BucketTypes, InBackward
<1>8. MicroTypes'
  BY <1>1, <1>2 DEF MicroTypes, InBackward
<1> QED BY <1>1, <1>2, <1>5, <1>7, <1>8 DEF TypInv

-----------------------------------------------------------------------------

\* A gradient is packed.
LEMMA AddTypes == ASSUME LoopInv, TypInv, AddGrad PROVE TypInv'
<1>1. /\ pc = "hook" /\ next' = next + 1 /\ pc' = (IF next < Len(order) THEN "backward" ELSE "epilogue")
      /\ rsQ' = rsQ \o PackOps(Place(order[next]))
      /\ loc' = [loc EXCEPT ![order[next]] = Place(order[next])]
      /\ ipg' = Append(ipg, order[next])
      /\ UNCHANGED <<order, iter, micro, gradPart, own, flat, cat, cuQ, cuPos, rsPos>>
  BY DEF AddGrad, resultVars
<1>2. StreamTypes /\ BucketTypes /\ MicroTypes /\ DOMAIN gradPart = 1 .. SumPart(AllParams)
  BY DEF TypInv
<1>3. next \in Nat \ {0} /\ next \in 1 .. Len(order)
  <2>1. next \in Nat \ {0}
    BY DEF LoopInv, CtlTypes
  <2>2. order \in Orders /\ next <= Len(order)
    BY <1>1, <1>2 DEF BucketTypes
  <2>3. Len(order) \in Nat
    BY <2>2, OrderFacts
  <2> QED BY <2>1, <2>2, <2>3
<1>4. /\ order \in Seq(Params) /\ Len(order) \in Nat
      /\ \A i, j \in 1 .. Len(order) : order[i] = order[j] => i = j
  <2>1. order \in Orders
    BY <1>2 DEF BucketTypes
  <2> QED BY <2>1, OrderFacts
<1>5. PICK p \in Params : p = order[next]
  BY <1>3, <1>4
<1>6. ipg \in Seq(Params) /\ Len(ipg) \in Nat
  BY <1>2 DEF BucketTypes
<1>7. /\ Place(p) \in Locations /\ Place(p) \in Places /\ Place(p).p = p /\ Place(p).at # "none"
      /\ Place(p).at = "flat" => Place(p).off + Numel[p] <= BucketSize
  BY <1>6, PlaceType
<1>8. StreamTypes'
  <2>1. Queue(rsQ)
    BY <1>2 DEF StreamTypes
  <2>2. cuPos \in Nat /\ cuQ \in Seq(Params \X Nat)
    BY <1>2 DEF StreamTypes
  <2>3. Queue(rsQ \o PackOps(Place(p)))
    BY <1>7, <2>1, <2>2, PackedQueue
  <2>4. Queue(rsQ)' <=> Queue(rsQ')
    BY DEF Queue, QueueOps, Places
  <2>5. Queue(rsQ')
    BY <1>1, <1>5, <2>3
  <2> QED BY <1>1, <1>2, <2>4, <2>5 DEF StreamTypes
<1>9. BucketTypes'
  <2>1. /\ loc' = [loc EXCEPT ![p] = Place(p)] /\ loc \in [Params -> Locations]
        /\ \A q \in Params : /\ loc[q].at = "flat" => loc[q].off + Numel[q] <= BucketSize
                             /\ loc[q].at # "none" => loc[q].p = q
    BY <1>1, <1>2, <1>5 DEF BucketTypes, LocTypes
  <2>2. LocTypes(loc')
    BY <1>7, <2>1 DEF LocTypes
  <2>3. LocTypes(loc)' <=> LocTypes(loc')
    BY DEF LocTypes, Locations
  <2>4. /\ \A i \in 1 .. Len(ipg) : loc[ipg[i]].at # "none" /\ ipg[i] \in Params
        /\ \A i \in 1 .. Len(ipg) : \E j \in 1 .. next - 1 : j <= Len(order) /\ order[j] = ipg[i]
        /\ \A i, j \in 1 .. Len(ipg) : ipg[i] = ipg[j] => i = j
    <3>1. DOMAIN ipg = 1 .. Len(ipg)
      BY <1>6
    <3>2. IsInjective(ipg)
      BY <1>2 DEF BucketTypes
    <3>3. \A i, j \in 1 .. Len(ipg) : ipg[i] = ipg[j] => i = j
      BY <3>1, <3>2, Zenon DEF IsInjective
    <3>4. \A i \in 1 .. Len(ipg) : loc[ipg[i]].at # "none" /\ ipg[i] \in Params
      BY <1>2 DEF BucketTypes
    <3>5. \A i \in 1 .. Len(ipg) : \E j \in 1 .. next - 1 : j <= Len(order) /\ order[j] = ipg[i]
      BY <1>1, <1>2 DEF BucketTypes, InBackward
    <3> QED BY <3>3, <3>4, <3>5
  <2>5. PICK n \in Nat : n = Len(ipg)
    BY <1>6
  <2>6. /\ ipg' \in Seq(Params) /\ Len(ipg') = n + 1 /\ DOMAIN ipg' = 1 .. n + 1 /\ ipg'[n + 1] = p
        /\ \A i \in 1 .. n : ipg'[i] = ipg[i]
    BY <1>1, <1>5, <1>6, <2>5
  <2>7. \A i \in 1 .. n + 1 : i = n + 1 \/ i \in 1 .. n
    OBVIOUS
  <2>8. \A i \in 1 .. n : ipg[i] # p
    <3>1. ASSUME NEW i \in 1 .. n, ipg[i] = p PROVE FALSE
      <4>1. PICK j \in 1 .. next - 1 : j <= Len(order) /\ order[j] = p
        BY <2>4, <2>5, <3>1
      <4>2. j \in 1 .. Len(order) /\ j # next
        BY <1>3, <1>4, <4>1
      <4> QED BY <1>3, <1>4, <1>5, <4>1, <4>2
    <3> QED BY <3>1
  <2>9. \A i, j \in 1 .. n + 1 : ipg'[i] = ipg'[j] => i = j
    <3>1. ASSUME NEW i \in 1 .. n + 1, NEW j \in 1 .. n + 1, ipg'[i] = ipg'[j] PROVE i = j
      <4>1. CASE i = n + 1 /\ j = n + 1
        BY <4>1
      <4>2. CASE i = n + 1 /\ j \in 1 .. n
        BY <2>6, <2>8, <3>1, <4>2
      <4>3. CASE i \in 1 .. n /\ j = n + 1
        BY <2>6, <2>8, <3>1, <4>3
      <4>4. CASE i \in 1 .. n /\ j \in 1 .. n
        BY <2>4, <2>5, <2>6, <3>1, <4>4
      <4> QED BY <2>7, <4>1, <4>2, <4>3, <4>4
    <3> QED BY <3>1
  <2>10. IsInjective(ipg')
    BY <2>6, <2>9 DEF IsInjective
  <2>11. IsInjective(ipg)' <=> IsInjective(ipg')
    BY DEF IsInjective
  <2>12. ASSUME NEW i \in 1 .. n + 1
         PROVE  loc'[ipg'[i]].at # "none" /\ \E j \in 1 .. next' - 1 : j <= Len(order') /\ order'[j] = ipg'[i]
    <3>0. next' - 1 = next /\ order' = order
      BY <1>1, <1>3
    <3>1. CASE i = n + 1
      <4>1. loc'[p].at # "none"
        BY <1>7, <2>1
      <4> QED BY <1>3, <1>4, <1>5, <2>6, <3>0, <3>1, <4>1
    <3>2. CASE i \in 1 .. n
      <4>1. ipg'[i] = ipg[i] /\ ipg[i] # p
        BY <2>6, <2>8, <3>2
      <4>2. loc'[ipg[i]].at # "none"
        BY <2>1, <2>4, <2>5, <3>2, <4>1
      <4>3. PICK j \in 1 .. next - 1 : j <= Len(order) /\ order[j] = ipg[i]
        BY <2>4, <2>5, <3>2
      <4>4. j \in 1 .. next
        BY <1>3, <4>3
      <4> QED BY <3>0, <4>1, <4>2, <4>3, <4>4
    <3> QED BY <2>7, <3>1, <3>2
  <2>13. order' \in Orders /\ pc' \in InBackward /\ pc' # "hook"
    BY <1>1, <1>2 DEF BucketTypes, InBackward
  <2> QED BY <2>2, <2>3, <2>6, <2>10, <2>11, <2>12, <2>13 DEF BucketTypes
<1>10. MicroTypes'
  BY <1>1, <1>2 DEF MicroTypes, InBackward
<1> QED BY <1>1, <1>2, <1>8, <1>9, <1>10 DEF TypInv

\* The bucket is reduced.
LEMMA ReduceTypes ==
  ASSUME TypInv, ReduceIpg, UNCHANGED <<order, iter, next, micro, own, flat, cuQ, cuPos, rsPos>>,
         pc \in {"hook", "epilogue"}, pc' = (IF pc = "hook" THEN "hook" ELSE "sync")
  PROVE  TypInv'
<1>1. /\ loc' = Released /\ ipg' = <<>>
      /\ rsQ' = Append(rsQ, IF AsIs(Bucket) THEN DivOp ELSE CatOp(Locs(Bucket)))
      /\ cat' = IF AsIs(Bucket) THEN cat ELSE Blank(World * SumPart(Bucket))
  BY DEF ReduceIpg
<1>2. StreamTypes /\ BucketTypes /\ MicroTypes /\ DOMAIN gradPart = 1 .. SumPart(AllParams)
  BY DEF TypInv
<1>3. DOMAIN gradPart' = DOMAIN gradPart
  BY DEF ReduceIpg, PartitionGrads
<1>4. Bucket \in Seq(Params) /\ Locs(Bucket) \in Seq(Places)
  BY <1>2, LocsType
<1>5. StreamTypes'
  <2>1. Queue(rsQ)
    BY <1>2 DEF StreamTypes
  <2> DEFINE o == IF AsIs(Bucket) THEN DivOp ELSE CatOp(Locs(Bucket))
  <2>2. o \in QueueOps /\ o.op # "copy"
    BY <1>4, OpTypes
  <2>3. rsQ' = Append(rsQ, o)
    BY <1>1
  <2> HIDE DEF o
  <2>4. Queue(rsQ')
    BY <2>1, <2>2, <2>3, AppendedQueue
  <2>5. Queue(rsQ)' <=> Queue(rsQ')
    BY DEF Queue, QueueOps, Places
  <2>6. cat' \in Seq(Cells) /\ Len(cat') % World = 0
    <3>1. World \in Nat \ {0} /\ SumPart(Bucket) \in Nat
      BY <1>4, LayoutAssumption, SumPartIs
    <3>2. PICK m \in Nat : m = SumPart(Bucket)
      BY <3>1
    <3>3. World * m \in Nat /\ World * m + 0 = World * m /\ 0 \in 0 .. World - 1
      BY <3>1
    <3>4. (World * m + 0) % World = 0
      BY <3>1, <3>3, DivUnique
    <3>5. Blank(World * m) \in Seq(Cells) /\ Len(Blank(World * m)) = World * m
      BY <3>3, BlankFacts
    <3>6. cat \in Seq(Cells) /\ Len(cat) % World = 0
      BY <1>2 DEF StreamTypes
    <3> QED BY <1>1, <3>2, <3>3, <3>4, <3>5, <3>6
  <2>7. /\ own \in [Params -> Seq(Cells)] /\ \A p \in Params : Len(own[p]) = Numel[p]
        /\ flat \in Seq(Cells) /\ Len(flat) = BucketSize
        /\ cuQ \in Seq(Params \X Nat) /\ cuPos \in Nat /\ rsPos \in Nat
    BY <1>2 DEF StreamTypes
  <2> QED BY <2>4, <2>5, <2>6, <2>7 DEF StreamTypes, Cells
<1>6. BucketTypes'
  <2>1. LocTypes(loc) /\ order \in Orders /\ (pc = "hook" => next <= Len(order))
    BY <1>2 DEF BucketTypes
  <2>2. LocTypes(loc')
    <3>1. NoGrad \in Locations /\ NoGrad.at = "none"
      BY ReduceAssumption DEF NoGrad, Locations
    <3>2. /\ loc' \in [Params -> Locations]
          /\ \A p \in Params : loc'[p] = loc[p] \/ loc'[p] = NoGrad
      <4>1. loc \in [Params -> Locations]
        BY <2>1 DEF LocTypes
      <4> HIDE DEF NoGrad
      <4> QED BY <1>1, <3>1, <4>1 DEF Released
    <3> QED BY <2>1, <3>1, <3>2 DEF LocTypes
  <2>3. LocTypes(loc)' <=> LocTypes(loc')
    BY DEF LocTypes, Locations
  <2>4. ipg' \in Seq(Params) /\ Len(ipg') = 0 /\ DOMAIN ipg' = {}
    BY <1>1
  <2>5. IsInjective(ipg)'
    BY <2>4 DEF IsInjective
  <2> QED BY <1>1, <2>1, <2>2, <2>3, <2>4, <2>5 DEF BucketTypes
<1>7. MicroTypes'
  BY <1>2 DEF MicroTypes, InBackward
<1> QED BY <1>2, <1>3, <1>5, <1>6, <1>7 DEF TypInv

\* Either way a bucket is reduced.
LEMMA BucketReduced == ASSUME TypInv, ReduceFullBucket \/ ReduceLastBucket PROVE TypInv'
<1>1. CASE ReduceFullBucket
  <2>1. /\ pc = "hook" /\ pc' = "hook" /\ ReduceIpg
        /\ UNCHANGED <<order, iter, next, micro, own, flat, cuQ, cuPos, rsPos>>
    BY <1>1 DEF ReduceFullBucket
  <2> QED BY <2>1, ReduceTypes
<1>2. CASE ReduceLastBucket
  <2>1. /\ pc = "epilogue" /\ pc' = "sync" /\ ReduceIpg
        /\ UNCHANGED <<order, iter, next, micro, own, flat, cuQ, cuPos, rsPos>>
    BY <1>2 DEF ReduceLastBucket
  <2> QED BY <2>1, ReduceTypes
<1> QED BY <1>1, <1>2

-----------------------------------------------------------------------------

\* The steps of the host outside the backward pass.
LEMMA LoopTypes ==
  ASSUME LoopInv, TypInv,
         StartAdam \/ BeginIteration \/ EpilogueSync \/ PartitionAll \/ Step \/ UpdateNewParams \/ StopAdam \/ JoinAdam
  PROVE  TypInv'
<1>1. /\ StreamTypes /\ BucketTypes /\ MicroTypes /\ DOMAIN gradPart = 1 .. SumPart(AllParams)
      /\ iter \in Nat /\ iter \in 0 .. MaxIters /\ MaxIters \in Nat
  BY ReduceAssumption DEF TypInv, LoopInv, CtlTypes
<1>2. /\ pc \notin InBackward /\ pc' # "hook" /\ order' = order /\ ipg' = ipg
      /\ loc' = loc \/ loc' = Released \/ loc' = [p \in Params |-> NoGrad]
  <2>1. CASE StartAdam
    BY <2>1 DEF StartAdam, InBackward, bucketVars
  <2>2. CASE BeginIteration
    BY <2>2, Zenon DEF BeginIteration, InBackward
  <2>3. CASE EpilogueSync
    BY <2>3 DEF EpilogueSync, InBackward
  <2>4. CASE PartitionAll
    BY <2>4 DEF PartitionAll, InBackward
  <2>5. CASE Step
    BY <2>5 DEF Step, StepBegin, StepSubGroup, StepEnd, InBackward, bucketVars
  <2>6. CASE UpdateNewParams
    BY <2>6 DEF UpdateNewParams, InBackward, bucketVars
  <2>7. CASE StopAdam \/ JoinAdam
    BY <2>7 DEF StopAdam, JoinAdam, InBackward, bucketVars
  <2> QED BY <2>1, <2>2, <2>3, <2>4, <2>5, <2>6, <2>7
<1>3. UNCHANGED streamVars /\ DOMAIN gradPart' = DOMAIN gradPart
  <2>1. CASE PartitionAll \/ StepBegin
    BY <2>1 DEF PartitionAll, StepBegin, Flush, PartitionGrads
  <2>2. CASE StartAdam \/ BeginIteration \/ EpilogueSync \/ StepSubGroup \/ StepEnd \/ UpdateNewParams \/ StopAdam \/ JoinAdam
    BY <2>2 DEF StartAdam, BeginIteration, EpilogueSync, StepSubGroup, StepEnd, UpdateNewParams, StopAdam, JoinAdam, resultVars
  <2> QED BY <2>1, <2>2 DEF Step
<1>4. StreamTypes'
  BY <1>1, <1>3, StreamFrame
<1>5. BucketTypes'
  <2>1. /\ \A p \in Params : loc'[p] \in {loc[p], NoGrad}
        /\ loc' \in [Params -> {loc'[p] : p \in Params}]
    <3>1. CASE loc' = loc
      <4>1. loc \in [Params -> Locations]
        BY <1>1 DEF BucketTypes, LocTypes
      <4> QED BY <3>1, <4>1
    <3>2. CASE loc' = Released
      BY <3>2, ReleasedFacts
    <3>3. CASE loc' = [p \in Params |-> NoGrad]
      BY <3>3
    <3> QED BY <1>2, <3>1, <3>2, <3>3
  <2> QED BY <1>1, <1>2, <2>1, OutsideBackward
<1>6. MicroTypes'
  <2>0. SyncIters' = SyncIters /\ SyncIters \in Nat /\ (pc \in {"start", "sync"} => micro = 0) /\ micro \in {0, 1}
    BY <1>1, SyncFacts DEF SyncIters, Synchronous, MicroTypes
  <2>1. CASE StartAdam
    BY <2>0, <2>1 DEF StartAdam, bucketVars, MicroTypes, InBackward
  <2>2. CASE BeginIteration
    <3>1. /\ pc = "loop" /\ iter < MaxIters /\ iter' = iter + 1 /\ pc' = "backward"
          /\ Synchronous(iter') => micro' = micro
          /\ ~ Synchronous(iter') => micro' = 0
      BY <2>2 DEF BeginIteration
    <3>2. Synchronous(iter') => iter < SyncIters
      BY <1>1, <2>0, <3>1, SyncFacts
    <3>3. micro' = 0
      BY <1>1, <3>1, <3>2 DEF MicroTypes
    <3> QED BY <3>1, <3>3 DEF MicroTypes
  <2>3. CASE EpilogueSync
    BY <2>0, <2>3 DEF EpilogueSync, MicroTypes, InBackward
  <2>4. CASE PartitionAll
    BY <2>0, <2>4 DEF PartitionAll, MicroTypes, InBackward
  <2>5. CASE Step
    <3>1. CASE StepBegin
      BY <3>1 DEF StepBegin, MicroTypes, InBackward
    <3>2. CASE StepSubGroup
      BY <2>0, <3>2 DEF StepSubGroup, bucketVars, MicroTypes, InBackward
    <3>3. CASE StepEnd
      BY <3>3 DEF StepEnd, MicroTypes, InBackward
    <3> QED BY <2>5, <3>1, <3>2, <3>3 DEF Step
  <2>6. CASE UpdateNewParams
    <3>1. pc = "update" /\ pc' = "loop" /\ iter' = iter /\ micro' = micro
      BY <2>6 DEF UpdateNewParams, bucketVars
    <3>2. iter > SyncIters
      BY <1>1, <2>0, <3>1 DEF LoopInv, InSync, InIteration
    <3> QED BY <1>1, <2>0, <3>1, <3>2 DEF MicroTypes, InBackward
  <2>7. CASE StopAdam \/ JoinAdam
    BY <2>0, <2>7 DEF StopAdam, JoinAdam, bucketVars, MicroTypes, InBackward
  <2> QED BY <2>1, <2>2, <2>3, <2>4, <2>5, <2>6, <2>7
<1> QED BY <1>1, <1>3, <1>4, <1>5, <1>6 DEF TypInv

\* What is unchanged by a stream, the DPU or the worker.
LEMMA OtherFrame ==
  ASSUME TypInv, StreamTypes', UNCHANGED <<pc, order, next, iter, micro, ipg, loc>>, DOMAIN gradPart' = DOMAIN gradPart
  PROVE  TypInv'
<1>1. BucketTypes'
  BY BucketFrame DEF TypInv
<1>2. MicroTypes'
  BY DEF TypInv, MicroTypes, SyncIters, Synchronous
<1> QED BY <1>1, <1>2 DEF TypInv

\* A kernel is executed.
LEMMA ComputeTypes == ASSUME TypInv, ComputeStream PROVE TypInv'
<1>1. /\ cuQ # <<>> /\ own' = [own EXCEPT ![Head(cuQ)[1]] = Gradient(Head(cuQ)[1], Head(cuQ)[2])]
      /\ cuQ' = Tail(cuQ) /\ cuPos' = cuPos + 1
      /\ UNCHANGED <<pc, order, next, iter, micro, ipg, loc, gradPart, flat, cat, rsQ, rsPos>>
  BY DEF ComputeStream, hostVars, bucketVars, resultVars
<1>2. StreamTypes
  BY DEF TypInv
<1>3. cuQ \in Seq(Params \X Nat) /\ cuPos \in Nat
  BY <1>2 DEF StreamTypes
<1>4. Head(cuQ) \in Params \X Nat /\ Tail(cuQ) \in Seq(Params \X Nat)
  BY <1>1, <1>3
<1>5. PICK p \in Params, k \in Nat : p = Head(cuQ)[1] /\ k = Head(cuQ)[2]
  BY <1>4
<1>6. Gradient(p, k) \in Seq(Cells) /\ Len(Gradient(p, k)) = Numel[p]
  <2>1. Numel[p] \in Nat /\ p \in Nat
    BY Weights, LayoutAssumption
  <2>2. \A i \in 1 .. Numel[p] : {<<p, i, k>>} \in Cells
    BY <2>1 DEF Cells
  <2>3. Gradient(p, k) \in [1 .. Numel[p] -> Cells]
    BY <2>2 DEF Gradient
  <2> QED BY <2>1, <2>3, FunctionIsSeq
<1>7. own' \in [Params -> Seq(Cells)] /\ \A q \in Params : Len(own'[q]) = Numel[q]
  <2>1. own \in [Params -> Seq(Cells)] /\ \A q \in Params : Len(own[q]) = Numel[q]
    BY <1>2 DEF StreamTypes
  <2>2. own' = [own EXCEPT ![p] = Gradient(p, k)]
    BY <1>1, <1>5
  <2> QED BY <1>6, <2>1, <2>2
<1>8. StreamTypes'
  <2>1. Queue(rsQ)' <=> Queue(rsQ')
    BY DEF Queue, QueueOps, Places
  <2> QED BY <1>1, <1>2, <1>3, <1>4, <1>7, <2>1 DEF StreamTypes
<1> QED BY <1>1, <1>8, OtherFrame

\* An operation of the reduce stream is executed.
LEMMA ReduceStreamTypes == ASSUME TypInv, ReduceStream PROVE TypInv'
<1>1. /\ rsQ # <<>> /\ rsQ' = Tail(rsQ) /\ rsPos' = rsPos + 1
      /\ UNCHANGED <<pc, order, next, iter, micro, ipg, loc, gradPart, own, cuQ, cuPos>>
  BY DEF ReduceStream, hostVars, bucketVars, resultVars
<1>2. StreamTypes
  BY DEF TypInv
<1>3. /\ own \in [Params -> Seq(Cells)] /\ \A p \in Params : Len(own[p]) = Numel[p]
      /\ flat \in Seq(Cells) /\ Len(flat) = BucketSize
      /\ cat \in Seq(Cells) /\ Len(cat) % World = 0
      /\ cuQ \in Seq(Params \X Nat) /\ cuPos \in Nat /\ rsPos \in Nat
      /\ Queue(rsQ) /\ BucketSize \in Nat
  BY <1>2, ReduceAssumption DEF StreamTypes
<1>4. Queue(Tail(rsQ)) /\ Head(rsQ) \in QueueOps /\ (Head(rsQ).op = "copy" => Len(Head(rsQ).src) = 1)
  BY <1>1, <1>3, TailQueue
<1>5. PICK o \in QueueOps : o = Head(rsQ)
  BY <1>4
<1>6. o.src \in Seq(Places)
  BY DEF QueueOps
<1>7. \/ UNCHANGED <<flat, cat>>
      \/ /\ o.op = "copy" /\ cat' = cat
         /\ flat' = [c \in DOMAIN flat |->
                      IF c - o.src[1].off \in 1 .. Numel[o.src[1].p] THEN own[o.src[1].p][c - o.src[1].off] ELSE flat[c]]
      \/ /\ flat' = flat /\ cat' = Interleaved([i \in DOMAIN o.src |-> Read(o.src[i])])
  BY <1>5, Zenon DEF ReduceStream
<1>8. flat' \in Seq(Cells) /\ Len(flat') = BucketSize /\ cat' \in Seq(Cells) /\ Len(cat') % World = 0
  <2>1. CASE UNCHANGED <<flat, cat>>
    BY <1>3, <2>1
  <2>2. CASE /\ o.op = "copy" /\ cat' = cat
             /\ flat' = [c \in DOMAIN flat |->
                          IF c - o.src[1].off \in 1 .. Numel[o.src[1].p] THEN own[o.src[1].p][c - o.src[1].off] ELSE flat[c]]
    <3>1. PICK l \in Places : l = o.src[1]
      BY <1>4, <1>5, <1>6, <2>2
    <3>2. l.p \in Params /\ l.off \in Nat
      BY DEF Places
    <3>3. own[l.p] \in Seq(Cells) /\ Len(own[l.p]) = Numel[l.p] /\ Numel[l.p] \in Nat
      BY <1>3, <3>2, Weights
    <3>4. DOMAIN flat = 1 .. BucketSize /\ \A c \in 1 .. BucketSize : flat[c] \in Cells
      BY <1>3
    <3>5. \A x \in 1 .. Numel[l.p] : own[l.p][x] \in Cells
      BY <3>3
    <3>6. flat' = [c \in 1 .. BucketSize |-> IF c - l.off \in 1 .. Numel[l.p] THEN own[l.p][c - l.off] ELSE flat[c]]
      BY <2>2, <3>1, <3>4
    <3>7. flat' \in [1 .. BucketSize -> Cells]
      BY <3>4, <3>5, <3>6
    <3>8. flat' \in Seq(Cells) /\ Len(flat') = BucketSize
      BY <1>3, <3>7, FunctionIsSeq
    <3> QED BY <1>3, <2>2, <3>8
  <2>3. CASE flat' = flat /\ cat' = Interleaved([i \in DOMAIN o.src |-> Read(o.src[i])])
    <3> DEFINE ts == [i \in DOMAIN o.src |-> Read(o.src[i])]
    <3>1. Len(o.src) \in Nat /\ DOMAIN o.src = 1 .. Len(o.src)
      BY <1>6
    <3>2. \A i \in 1 .. Len(o.src) : Read(o.src[i]) \in Seq(Cells)
      BY <1>2, <1>6, ReadFacts
    <3>3. ts \in [1 .. Len(o.src) -> Seq(Cells)]
      BY <3>1, <3>2
    <3> HIDE DEF ts
    <3>4. ts \in Seq(Seq(Cells))
      BY <3>1, <3>3, FunctionIsSeq
    <3>5. PadCell \in Cells
      BY DEF PadCell, Cells
    <3>6. Interleaved(ts) \in Seq(Cells) /\ Len(Interleaved(ts)) % World = 0
      BY <3>4, <3>5, InterleavedDivides
    <3> QED BY <1>3, <2>3, <3>6 DEF ts
  <2> QED BY <1>7, <2>1, <2>2, <2>3
<1>9. StreamTypes'
  <2>1. Queue(rsQ)' <=> Queue(rsQ')
    BY DEF Queue, QueueOps, Places
  <2> QED BY <1>1, <1>3, <1>4, <1>8, <2>1 DEF StreamTypes, Cells
<1> QED BY <1>1, <1>9, OtherFrame

\* What the DPU and the worker leave alone.
LEMMA ElsewhereTypes == ASSUME TypInv, DpuReduceScatter \/ Adam \/ UNCHANGED vars PROVE TypInv'
<1>1. /\ UNCHANGED streamVars /\ UNCHANGED <<pc, order, next, iter, micro, ipg, loc>>
      /\ DOMAIN gradPart' = DOMAIN gradPart
  <2>1. CASE DpuReduceScatter
    <3>1. UNCHANGED <<pc, order, iter, next, bucketVars, streamVars>>
      BY <2>1 DEF DpuReduceScatter
    <3>2. DOMAIN gradPart' = DOMAIN gradPart
      BY <2>1 DEF DpuReduceScatter
    <3> QED BY <3>1, <3>2 DEF bucketVars
  <2>2. CASE Adam
    BY <2>2 DEF Adam, AdamReady, AdamCommand, AdamSubGroup, AdamDone, hostVars, bucketVars, resultVars
  <2>3. CASE UNCHANGED vars
    BY <2>3 DEF vars, hostVars, bucketVars, resultVars
  <2> QED BY <2>1, <2>2, <2>3
<1>2. StreamTypes'
  BY <1>1, StreamFrame DEF TypInv
<1> QED BY <1>1, <1>2, OtherFrame

\* Every step keeps the types.
LEMMA TypNext == ASSUME LoopInv, TypInv, [Next]_vars PROVE TypInv'
<1>1. CASE Host
  <2>1. CASE GradKernel
    BY <2>1, KernelTypes
  <2>2. CASE AddGrad
    BY <2>2, AddTypes
  <2>3. CASE ReduceFullBucket \/ ReduceLastBucket
    BY <2>3, BucketReduced
  <2>4. CASE StartAdam \/ BeginIteration \/ EpilogueSync \/ PartitionAll \/ Step \/ UpdateNewParams \/ StopAdam \/ JoinAdam
    BY <2>4, LoopTypes
  <2> QED BY <1>1, <2>1, <2>2, <2>3, <2>4 DEF Host
<1>2. CASE ComputeStream
  BY <1>2, ComputeTypes
<1>3. CASE ReduceStream
  BY <1>3, ReduceStreamTypes
<1>4. CASE DpuReduceScatter \/ Adam \/ UNCHANGED vars
  BY <1>4, ElsewhereTypes
<1> QED BY <1>1, <1>2, <1>3, <1>4 DEF Next

\* The invariant of the loop bounds the pipe and the replies.
LEMMA TypesOfState == LoopInv /\ TypInv => TypeOK
<1> SUFFICES ASSUME LoopInv, TypInv PROVE TypeOK
  OBVIOUS
<1>1. CtlTypes /\ StreamTypes /\ BucketTypes /\ MicroTypes /\ DOMAIN gradPart = 1 .. SumPart(AllParams)
  BY DEF LoopInv, TypInv
<1>2. /\ pc \in {"start", "loop", "backward", "hook", "epilogue", "sync", "step", "groups", "flush", "update", "join", "end"}
      /\ iter \in 0 .. MaxIters /\ dpuSteps \in 0 .. iter /\ micro \in {0, 1} /\ switch \in {0, 1}
  BY <1>1 DEF CtlTypes, MicroTypes, InIteration
<1>3. /\ loc \in [Params -> Locations]
      /\ \A p \in Params : loc[p].at = "flat" => loc[p].off + Numel[p] <= BucketSize
      /\ IsInjective(ipg)
  BY <1>1 DEF BucketTypes, LocTypes
<1>4. ToSet(ipg) \subseteq Params
  <2>1. ipg \in Seq(Params)
    BY <1>1 DEF BucketTypes
  <2> QED BY <2>1 DEF ToSet
<1>5. Len(cat) % World = 0 /\ DOMAIN flat = 1 .. BucketSize
  BY <1>1 DEF StreamTypes
<1>6. Len(pipe) <= 2 /\ Len(replies) <= 1
  <2> DEFINE Short == Len(pipe) <= 2 /\ Len(replies) <= 1
             Few(x, y, w) == pipe \in {<<>>, <<x>>, <<y>>, <<x, y>>} /\ replies \in {<<>>, <<w>>}
  <2>0. ASSUME NEW x, NEW y, NEW z
        PROVE  z \in {<<>>, <<x>>, <<x, y>>} => Len(z) <= 2
    <3>1. z = <<>> => Len(z) <= 2
      OBVIOUS
    <3>2. z = <<x>> => Len(z) <= 2
      OBVIOUS
    <3>3. z = <<x, y>> => Len(z) <= 2
      OBVIOUS
    <3> QED BY <3>1, <3>2, <3>3, Zenon
  <2>a. ASSUME NEW x, NEW z
        PROVE  z \in {<<>>, <<x>>} => Len(z) <= 1
    <3>1. z = <<>> => Len(z) <= 1
      OBVIOUS
    <3>2. z = <<x>> => Len(z) <= 1
      OBVIOUS
    <3> QED BY <3>1, <3>2, Zenon
  <2>1. Short
    <3>1. pc = "start" => pipe = <<>> /\ replies \in {<<>>, <<"ready">>}
      BY DEF LoopInv, Starting
    <3>2. Quiet => pipe \in {<<>>, <<Affinity>>} /\ replies = <<>>
      BY DEF Quiet
    <3>3. pc \in {"join", "end"} => pipe \in {<<>>, <<Shutdown>>, <<Affinity, Shutdown>>} /\ replies = <<>>
      BY DEF LoopInv, Ending
    <3>4. ASSUME NEW n \in Int, StepSent(n) \/ StepTaken(n) \/ StepDone(n)
          PROVE  /\ pipe \in {<<>>, <<StepOn(1 - switch)>>, <<Affinity, StepOn(1 - switch)>>}
                 /\ replies \in {<<>>, <<"done">>}
      BY <3>4 DEF StepSent, StepTaken, StepDone
    <3>5. 1 - switch \in {0, 1} /\ iter \in Nat /\ SyncIters \in Nat
      BY <1>1, SyncFacts, ReduceAssumption DEF CtlTypes
    <3>6. \/ pc \in {"start", "join", "end"} \/ Quiet
          \/ \E n \in Int : StepSent(n) \/ StepTaken(n) \/ StepDone(n)
      <4>1. pc \in InIteration \cup {"start", "loop", "join", "end"}
        BY <1>1 DEF CtlTypes
      <4>2. CASE pc = "loop"
        BY <4>2 DEF LoopInv, Between
      <4>3. CASE pc \in InIteration
        <5>1. iter <= SyncIters \/ iter = SyncIters + 1 \/ iter > SyncIters + 1
          BY <3>5
        <5>2. iter - 2 \in Int
          BY <3>5
        <5>3. iter > SyncIters + 1 => StepSent(iter - 2) \/ StepTaken(iter - 2) \/ StepDone(iter - 2)
          BY <4>3 DEF LoopInv, InDelayed
        <5>4. iter <= SyncIters \/ iter = SyncIters + 1 => Quiet
          BY <4>3 DEF LoopInv, InSync, InFirstDelayed
        <5> QED BY <5>1, <5>2, <5>3, <5>4
      <4> QED BY <4>1, <4>2, <4>3
    <3>7. ASSUME NEW x, NEW y, NEW w, Few(x, y, w)
          PROVE  Short
      <4>1. pipe \in {<<>>, <<x>>, <<x, y>>} \/ pipe \in {<<>>, <<y>>, <<y, x>>}
        BY <3>7
      <4>2. Len(pipe) <= 2
        BY <2>0, <4>1
      <4>3. Len(replies) <= 1
        BY <2>a, <3>7
      <4> QED BY <4>2, <4>3
    <3> HIDE DEF Short
    <3>8. \E x, y, w : Few(x, y, w)
      <4>1. CASE pc \in {"start", "join", "end"}
        <5>1. Few(Affinity, Shutdown, "ready")
          BY <3>1, <3>3, <4>1
        <5> HIDE DEF Few
        <5> QED BY <5>1, Zenon
      <4>2. CASE Quiet
        <5>1. Few(Affinity, Affinity, "ready")
          BY <3>2, <4>2
        <5> HIDE DEF Few
        <5> QED BY <5>1, Zenon
      <4>3. CASE \E n \in Int : StepSent(n) \/ StepTaken(n) \/ StepDone(n)
        <5>1. Few(Affinity, StepOn(1 - switch), "done")
          BY <3>4, <4>3
        <5> HIDE DEF Few
        <5> QED BY <5>1, Zenon
      <4> QED BY <3>6, <4>1, <4>2, <4>3
    <3> QED BY <3>7, <3>8
  <2> QED BY <2>1
<1> QED BY <1>1, <1>2, <1>3, <1>4, <1>5, <1>6 DEF TypeOK

\* The types of the optimizer's state: every gradient packed in the flat buffer
\* fits in it, the bucket never holds a parameter twice, what the DPU is handed
\* divides among the ranks, the pipe and the replies of the Adam worker stay
\* within two and one (__add_grad_to_ipg_bucket, reduce_scatter_coalesced,
\* _adam_worker).
THEOREM OptimizerTypeCorrect == Spec => []TypeOK
<1>1. Init => TypInv
  BY TypInit
<1>2. LoopInv /\ TypInv /\ [Next]_vars => TypInv'
  BY TypNext
<1> QED BY <1>1, <1>2, TypesOfState, LoopInvariance, PTL DEF Spec

-----------------------------------------------------------------------------
(* The invariant of the gradients: what the streams have still to do for the *)
(* buckets of this iteration, and what the banks and the weights hold.  It   *)
(* is claimed while nothing made a gradient inexact (odd).                   *)

InGrad == InBackward \cup {"sync", "step", "flush"}

\* The gradients of this iteration whose kernels have been queued; the kernel
\* of the j-th is the operation Base + j of the compute stream.
Queued == IF pc = "backward" THEN next - 1 ELSE IF pc = "hook" THEN next ELSE Len(order)
Base == cuPos + Len(cuQ) - Queued

\* A kernel has been executed, or is in its place in the queue.
KernelsInv ==
  /\ pc \in InGrad =>
       /\ Len(cuQ) <= Queued
       /\ \A j \in 1 .. Queued :
            IF Base + j <= cuPos THEN own[order[j]] = Gradient(order[j], iter)
            ELSE cuQ[Base + j - cuPos] = <<order[j], iter>>
  /\ pc = "backward" => next <= Len(order)
  /\ pc \notin InBackward \cup {"sync"} => cuQ = <<>> /\ rsQ = <<>>
  /\ pc \notin InGrad => pending = NoRs

\* After i operations of the reduce stream n operations of the compute stream
\* have been executed, and the gradient of p computed.
ReachedAt(n, i) == n <= cuPos \/ \E x \in 1 .. i : rsQ[x].op = "wait" /\ rsQ[x].n >= n
Made(p, i) == \E j \in 1 .. Queued : order[j] = p /\ ReachedAt(Base + j, i)

\* Two places of the flat buffer that do not overlap.
Apart(l, m) == l.off + Numel[l.p] <= m.off \/ m.off + Numel[m.p] <= l.off

\* The operations after the y-th up to the i-th leave l alone.
Clear(l, y, i) == \A x \in y + 1 .. i : rsQ[x].op = "copy" => Apart(l, rsQ[x].src[1])
InFlat(l) == \A c \in 1 .. Numel[l.p] : flat[l.off + c] = {<<l.p, c, iter>>}
CopiedAt(l, y) == IF y = 0 THEN InFlat(l) ELSE rsQ[y].op = "copy" /\ rsQ[y].src[1] = l

\* l holds its gradient of this iteration after i operations.
Held(l, i) == IF l.at = "flat" THEN \E y \in 0 .. i : CopiedAt(l, y) /\ Clear(l, y, i) ELSE Made(l.p, i)

\* A gradient is copied once it has been computed; all have been computed when
\* the reduce stream has nothing left to do.
CopiesInv ==
  /\ \A i \in 1 .. Len(rsQ) : rsQ[i].op = "copy" => Made(rsQ[i].src[1].p, i - 1)
  /\ pc \in {"epilogue", "sync"} => ReachedAt(Base + Len(order), Len(rsQ))

BucketInv ==
  \A i \in 1 .. Len(ipg) :
    /\ Held(loc[ipg[i]], Len(rsQ))
    /\ loc[ipg[i]].at = "flat" => loc[ipg[i]].off = SumNumel(SubSeq(ipg, 1, i - 1))

\* The operations still to be executed before the input of the pending
\* reduce-scatter is there.
Ahead == IF pending.pos > rsPos THEN pending.pos - rsPos ELSE 0
NoCat == \A i \in 1 .. Len(rsQ) : rsQ[i].op # "cat"

\* A gradient sent as it is stays where it is ...
SentOne(ps) ==
  /\ pending.src \in Seq(Places) /\ Len(pending.src) = 1 /\ pending.src[1].p = ps[1]
  /\ Held(pending.src[1], Ahead)
  /\ pending.src[1].at = "flat" => \A x \in Ahead + 1 .. Len(rsQ) : rsQ[x].op # "copy"
  /\ NoCat

\* ... several are put together by the last operation.
SentMany(ps) ==
  /\ pending.src = <<>>
  /\ \A i \in 1 .. Len(rsQ) : rsQ[i].op = "cat" => i = Ahead
  /\ Ahead # 0 =>
       /\ rsQ[Ahead].op = "cat" /\ Len(rsQ[Ahead].src) = Len(ps)
       /\ \A k \in 1 .. Len(ps) : rsQ[Ahead].src[k].p = ps[k] /\ Held(rsQ[Ahead].src[k], Ahead - 1)
  /\ Ahead = 0 => cat = Reduction(ps)

SentInv(ps) ==
  /\ Ahead <= Len(rsQ)
  /\ IF AsIs(ps) THEN SentOne(ps) ELSE SentMany(ps)

\* The cell of the j-th element of p's shard, in iteration k.
CellOf(p, j, k) == {<<p, Rank * PartNumel[p] + j, k>>}

\* out has the shard of every parameter of ps.
ScatterIs(out, ps) ==
  /\ out \in Seq(Cells) /\ Len(out) = SumPart(ps)
  /\ \A i \in 1 .. Len(ps) : \A j \in 1 .. ViewNumel[ps[i]] : out[ViewOffset(ps, i) + j] = CellOf(ps[i], j, iter)

\* The shards of ps are where the DPU writes them.
ScatteredInv(ps) ==
  IF pending.direct
  THEN \A i \in 1 .. Len(ps) : \A j \in 1 .. ViewNumel[ps[i]] : gradPart[GradOffset[ps[i]] + j] = CellOf(ps[i], j, iter)
  ELSE ScatterIs(rsOut, ps)

\* Parameters in the order of their ids.
Increasing(ps) == \A i, j \in 1 .. Len(ps) : i < j => ps[i] < ps[j]

PendingTypes ==
  /\ DOMAIN pending = DOMAIN NoRs
  /\ pending.ps \in Seq(Params) /\ pending.ps # <<>> /\ Increasing(pending.ps)
  /\ pending.done \in BOOLEAN /\ pending.pos \in Nat
  /\ pending.direct = Contiguous(pending.ps)
  /\ pending.direct => pending.at = GradOffset[pending.ps[1]]
  /\ pc \in {"sync", "step", "flush"} => pending.direct

PendingInv ==
  IF pending = NoRs THEN NoCat
  ELSE /\ PendingTypes
       /\ ~ pending.done => SentInv(pending.ps)
       /\ pending.done => ScatteredInv(pending.ps) /\ NoCat

\* p's part of the bank b is its gradient of iteration k.
PartExact(b, p, k) == \A j \in 1 .. ViewNumel[p] : bank[b][GroupOf[p]][GradPosition[p] + j] = CellOf(p, j, k)
BankExact(b, k) == \A p \in Params : PartExact(b, p, k)

\* A gradient that has been packed is in the bucket, in the pending
\* reduce-scatter or in the bank.
Packed == IF pc \in {"backward", "hook"} THEN next - 1 ELSE Len(order)
Within(ps, p) == \E i \in 1 .. Len(ps) : ps[i] = p
PackedInv ==
  pc \in InGrad => \A j \in 1 .. Packed :
    Within(ipg, order[j]) \/ Within(pending.ps, order[j]) \/ PartExact(switch, order[j], iter)

\* Two banks, each with a buffer for each sub-group.
BankShape == bank = [b \in {0, 1} |-> [g \in Groups |-> [c \in 1 .. GroupNumel[g] |-> bank[b][g][c]]]]

BankInv ==
  /\ BankShape
  /\ PackedInv
  /\ pc \in {"groups", "update"} => BankExact(switch, iter)
  /\ pc \in InIteration /\ iter > SyncIters + 1 => BankExact(1 - switch, iter - 1)
  /\ pc = "loop" /\ iter > SyncIters => BankExact(1 - switch, iter)
  /\ (pc \in {"start", "loop"} \cup InIteration) /\ iter <= SyncIters => switch = 0

\* The weights that have been updated.
MastersInv == \A g \in Groups : HasElement(g) => \A i \in DOMAIN master[g] : master[g][i] = i

StreamInv == KernelsInv /\ CopiesInv /\ BucketInv /\ PendingInv
GradInv == odd = {} => StreamInv /\ BankInv /\ MastersInv

\* The part of p in gradPart (__param_id_to_grad_offset).
LEMMA GradOffsetFacts ==
  ASSUME NEW p \in Params
  PROVE  /\ GradOffset[p] \in Nat /\ GradOffset[p] + PartNumel[p] <= SumPart(AllParams)
         /\ \A q \in Params : p < q => GradOffset[p] + PartNumel[p] <= GradOffset[q]
<1> DEFINE s == AllParams
<1>1. /\ s \in Seq(Params) /\ Len(s) \in Nat
      /\ \A i, j \in 1 .. Len(s) : i < j => s[i] < s[j]
      /\ \A x \in Params : \E i \in 1 .. Len(s) : s[i] = x
  BY AllParamsFacts
<1>2. ASSUME NEW x \in Params
      PROVE  /\ IndexOf(s, x) \in 1 .. Len(s) /\ s[IndexOf(s, x)] = x
             /\ GradOffset[x] = PartOffset(s, IndexOf(s, x))
  <2>1. \E i \in DOMAIN s : s[i] = x
    BY <1>1
  <2>2. IndexOf(s, x) \in DOMAIN s /\ s[IndexOf(s, x)] = x
    BY <2>1 DEF IndexOf
  <2>3. GradOffset[x] = PartOffset(s, IndexOf(s, x))
    BY DEF GradOffset, PartOffset
  <2> QED BY <1>1, <2>2, <2>3
<1> HIDE DEF s
<1>3. GradOffset[p] \in Nat /\ GradOffset[p] + PartNumel[p] <= SumPart(s)
  <2>1. PICK i \in 1 .. Len(s) : s[i] = p /\ GradOffset[p] = PartOffset(s, i)
    BY <1>2
  <2> QED BY <1>1, <2>1, PartOffsetFacts
<1>4. ASSUME NEW q \in Params, p < q PROVE GradOffset[p] + PartNumel[p] <= GradOffset[q]
  <2> DEFINE i == IndexOf(s, p)
             k == IndexOf(s, q)
  <2>1. i \in 1 .. Len(s) /\ k \in 1 .. Len(s) /\ s[i] = p /\ s[k] = q
    BY <1>2
  <2>2. GradOffset[p] = PartOffset(s, i) /\ GradOffset[q] = PartOffset(s, k)
    BY <1>2
  <2> HIDE DEF i, k
  <2>3. i < k
    <3>1. p \in Nat /\ q \in Nat
      BY LayoutAssumption
    <3>2. ~ (k < i) /\ k # i
      BY <1>1, <1>4, <2>1, <3>1
    <3> QED BY <1>1, <2>1, <3>2
  <2> QED BY <1>1, <2>1, <2>2, <2>3, PartsApart
<1> QED BY <1>3, <1>4 DEF s

\* How far the parameters of ps are from being one after the other in gradPart.
Gap(ps, i) == GradOffset[ps[i]] - PartOffset(ps, i)

\* The gaps add up.
LEMMA GapsGrow ==
  ASSUME NEW ps \in Seq(Params), Increasing(ps)
  PROVE  \A i, k \in 1 .. Len(ps) : i <= k => Gap(ps, i) <= Gap(ps, k)
<1>1. /\ Len(ps) \in Nat /\ PartNumel \in [Params -> Nat] /\ \A i \in 1 .. Len(ps) : ps[i] \in Params
      /\ \A i \in 1 .. Len(ps) : GradOffset[ps[i]] \in Nat /\ PartOffset(ps, i) \in Nat /\ PartNumel[ps[i]] \in Nat
  <2>1. ASSUME NEW i \in 1 .. Len(ps)
        PROVE  GradOffset[ps[i]] \in Nat /\ PartOffset(ps, i) \in Nat /\ PartNumel[ps[i]] \in Nat
    <3>1. ps[i] \in Params
      OBVIOUS
    <3> QED BY <3>1, GradOffsetFacts, PartOffsetFacts
  <2> QED BY <2>1, Weights
<1>2. ASSUME NEW i \in 1 .. Len(ps), i + 1 \in 1 .. Len(ps) PROVE Gap(ps, i) <= Gap(ps, i + 1)
  <2>1. GradOffset[ps[i]] + PartNumel[ps[i]] <= GradOffset[ps[i + 1]]
    <3>1. ps[i] < ps[i + 1] /\ ps[i] \in Params /\ ps[i + 1] \in Params
      BY <1>1, <1>2 DEF Increasing
    <3> QED BY <3>1, GradOffsetFacts
  <2>2. PartOffset(ps, i + 1) = PartOffset(ps, i) + PartNumel[ps[i]]
    <3>1. PartOffset(ps, i) = Sums(PartNumel, ps)[i - 1]
      BY PartOffsetFacts
    <3>2. PartOffset(ps, i + 1) = Sums(PartNumel, ps)[(i + 1) - 1]
      BY <1>2, PartOffsetFacts
    <3>3. (i + 1) - 1 = i
      OBVIOUS
    <3>4. SumsAre(PartNumel, ps)
      BY <1>1, SumsFacts
    <3>5. Sums(PartNumel, ps)[i] = Sums(PartNumel, ps)[i - 1] + PartNumel[ps[i]]
      BY <3>4 DEF SumsAre
    <3> QED BY <3>1, <3>2, <3>3, <3>5
  <2>3. GradOffset[ps[i + 1]] \in Nat
    BY <1>1, <1>2
  <2>4. \A a, b, c, d \in Nat : a + c <= b => a - d <= b - (d + c)
    OBVIOUS
  <2>5. Gap(ps, i) = GradOffset[ps[i]] - PartOffset(ps, i)
    BY DEF Gap
  <2>6. Gap(ps, i + 1) = GradOffset[ps[i + 1]] - (PartOffset(ps, i) + PartNumel[ps[i]])
    BY <2>2 DEF Gap
  <2>7. GradOffset[ps[i]] \in Nat /\ PartOffset(ps, i) \in Nat /\ PartNumel[ps[i]] \in Nat
    BY <1>1
  <2> QED BY ONLY <2>1, <2>3, <2>4, <2>5, <2>6, <2>7
<1>3. \A i \in 1 .. Len(ps) : Gap(ps, i) \in Int
  BY <1>1 DEF Gap
<1> DEFINE T == {d \in Nat : \A i \in 1 .. Len(ps) : i + d \in 1 .. Len(ps) => Gap(ps, i) <= Gap(ps, i + d)}
<1>4. 0 \in T
  <2>1. \A i \in 1 .. Len(ps) : i + 0 = i /\ Gap(ps, i) <= Gap(ps, i)
    BY <1>3
  <2> QED BY <2>1
<1>5. ASSUME NEW d \in Nat, d \in T PROVE d + 1 \in T
  <2> SUFFICES ASSUME NEW i \in 1 .. Len(ps), i + (d + 1) \in 1 .. Len(ps)
               PROVE  Gap(ps, i) <= Gap(ps, i + (d + 1))
    OBVIOUS
  <2>1. i + d \in 1 .. Len(ps) /\ (i + d) + 1 = i + (d + 1)
    BY <1>1
  <2>2. Gap(ps, i) <= Gap(ps, i + d)
    BY <1>5, <2>1
  <2>3. Gap(ps, i + d) <= Gap(ps, i + (d + 1))
    BY <1>2, <2>1
  <2> QED BY <1>3, <2>1, <2>2, <2>3
<1>6. \A d \in Nat : d \in T
  <2> HIDE DEF T
  <2> QED BY <1>4, <1>5, Induction
<1>7. ASSUME NEW i \in 1 .. Len(ps), NEW k \in 1 .. Len(ps), i <= k PROVE Gap(ps, i) <= Gap(ps, k)
  <2>1. PICK d \in Nat : k = i + d
    <3>1. k - i \in Nat /\ k = i + (k - i)
      BY <1>7
    <3> QED BY <3>1
  <2>2. d \in T
    BY <1>6
  <2> QED BY <2>1, <2>2
<1> QED BY <1>7

\* The parameters of a bucket for whose parts the DPU writes in gradPart are one
\* after the other there.
LEMMA ContiguousFacts ==
  ASSUME NEW ps \in Seq(Params), Increasing(ps), ps # <<>>, Contiguous(ps)
  PROVE  /\ GradOffset[ps[1]] \in Nat /\ GradOffset[ps[1]] + SumPart(ps) <= SumPart(AllParams)
         /\ \A i \in 1 .. Len(ps) : GradOffset[ps[1]] + ViewOffset(ps, i) = GradOffset[ps[i]]
<1> DEFINE n == Len(ps)
<1>1. n \in Nat /\ 1 \in 1 .. n /\ n \in 1 .. n /\ \A i \in 1 .. n : ps[i] \in Params
  OBVIOUS
<1>2. \A i \in 1 .. n : GradOffset[ps[i]] \in Nat /\ PartOffset(ps, i) \in Nat /\ PartNumel[ps[i]] \in Nat
  BY <1>1, GradOffsetFacts, PartOffsetFacts
<1>3. SumPart(ps) = PartOffset(ps, n) + PartNumel[ps[n]] /\ PartOffset(ps, 1) = 0
  <2>1. SumsAre(PartNumel, ps)
    BY Weights, SumsFacts
  <2>2. Sums(PartNumel, ps)[n] = Sums(PartNumel, ps)[n - 1] + PartNumel[ps[n]] /\ Sums(PartNumel, ps)[0] = 0
    BY <1>1, <2>1 DEF SumsAre
  <2>3. PartOffset(ps, n) = Sums(PartNumel, ps)[n - 1] /\ PartOffset(ps, 1) = Sums(PartNumel, ps)[1 - 1]
    BY <1>1, PartOffsetFacts
  <2>4. SumPart(ps) = Sums(PartNumel, ps)[n]
    BY SumPartIs DEF Total
  <2>5. 1 - 1 = 0
    OBVIOUS
  <2> QED BY <2>2, <2>3, <2>4, <2>5
<1>4. GradOffset[ps[1]] + SumPart(ps) = GradOffset[ps[n]] + PartNumel[ps[n]]
  BY DEF Contiguous, Last
<1>5. Gap(ps, 1) = Gap(ps, n)
  <2>1. \A a, b, c, d \in Nat : a + (d + c) = b + c => a - 0 = b - d
    OBVIOUS
  <2>2. /\ GradOffset[ps[1]] \in Nat /\ GradOffset[ps[n]] \in Nat /\ PartOffset(ps, n) \in Nat
        /\ PartNumel[ps[n]] \in Nat
    BY <1>1, <1>2
  <2>3. Gap(ps, 1) = GradOffset[ps[1]] - 0 /\ Gap(ps, n) = GradOffset[ps[n]] - PartOffset(ps, n)
    BY <1>3 DEF Gap
  <2> HIDE DEF n
  <2> QED BY ONLY <1>3, <1>4, <2>1, <2>2, <2>3
<1>6. ASSUME NEW i \in 1 .. n PROVE GradOffset[ps[1]] + ViewOffset(ps, i) = GradOffset[ps[i]]
  <2>1. Gap(ps, 1) <= Gap(ps, i) /\ Gap(ps, i) <= Gap(ps, n)
    BY <1>1, GapsGrow
  <2>2. Gap(ps, i) \in Int /\ Gap(ps, 1) \in Int
    BY <1>1, <1>2 DEF Gap
  <2>3. Gap(ps, i) = Gap(ps, 1)
    BY <1>5, <2>1, <2>2
  <2>4. ViewOffset(ps, i) = PartOffset(ps, i)
    BY Weights DEF ViewOffset, PartOffset, SumPart
  <2> QED BY <1>1, <1>2, <1>3, <2>3, <2>4 DEF Gap
<1>7. GradOffset[ps[n]] + PartNumel[ps[n]] <= SumPart(AllParams)
  BY <1>1, GradOffsetFacts
<1> QED BY <1>1, <1>2, <1>4, <1>6, <1>7

-----------------------------------------------------------------------------
(* The output of a reduce-scatter *)

\* The part of this rank.
LEMMA RankPart ==
  ASSUME NEW S, NEW v \in Seq(S), NEW m \in Nat, Len(v) = World * m
  PROVE  /\ ReduceScattered(v) \in Seq(S) /\ Len(ReduceScattered(v)) = m
         /\ \A j \in 1 .. m : ReduceScattered(v)[j] = v[Rank * m + j]
<1>0. World \in Nat \ {0} /\ Rank \in 0 .. World - 1 /\ Rank \in Nat
  BY LayoutAssumption
<1>1. Len(v) \div World = m
  <2>1. World * m = World * m + 0 /\ 0 \in 0 .. World - 1
    BY <1>0
  <2>2. (World * m + 0) \div World = m
    BY <1>0, <2>1, DivUnique
  <2> QED BY <2>1, <2>2
<1>2. PICK a \in Nat : a = Rank * m
  BY <1>0
<1>3. Fits(v, a, m)
  <2>1. PICK d \in Nat : World = Rank + 1 + d
    <3>1. World - (Rank + 1) \in Nat /\ World = Rank + 1 + (World - (Rank + 1))
      BY <1>0
    <3> QED BY <3>1
  <2>2. World * m = Rank * m + m + d * m /\ d * m \in Nat
    BY <1>0, <2>1
  <2> QED BY <1>0, <1>2, <2>2 DEF Fits
<1>4. /\ Narrow(v, a, m) \in Seq(S) /\ Len(Narrow(v, a, m)) = m
      /\ \A j \in 1 .. m : Narrow(v, a, m)[j] = v[a + j]
  BY <1>3, NarrowFacts
<1>5. ReduceScattered(v) = Narrow(v, a, m)
  BY <1>1, <1>2 DEF ReduceScattered
<1> QED BY <1>2, <1>4, <1>5

\* The gradient of an iteration.
LEMMA GradientFacts ==
  ASSUME NEW p \in Params, NEW k \in Nat
  PROVE  /\ Gradient(p, k) \in Seq(Cells) /\ Len(Gradient(p, k)) = Numel[p] /\ DOMAIN Gradient(p, k) = 1 .. Numel[p]
         /\ \A i \in 1 .. Numel[p] : Gradient(p, k)[i] = {<<p, i, k>>}
<1>1. Numel[p] \in Nat /\ p \in Nat
  BY LayoutAssumption
<1>2. \A i \in 1 .. Numel[p] : {<<p, i, k>>} \in Cells
  BY <1>1 DEF Cells
<1>3. Gradient(p, k) \in [1 .. Numel[p] -> Cells]
  BY <1>2 DEF Gradient
<1>4. Gradient(p, k) \in Seq(Cells) /\ Len(Gradient(p, k)) = Numel[p] /\ DOMAIN Gradient(p, k) = 1 .. Numel[p]
  BY <1>1, <1>3, FunctionIsSeq
<1> QED BY <1>4 DEF Gradient

\* What is sent as it is: one parameter, whose gradient divides.
Divides(n) == n % World = 0
\* A bucket sent as it is has one parameter, and its gradient divides.
LEMMA AsIsFacts ==
  ASSUME NEW ps \in Seq(Params), AsIs(ps)
  PROVE  Len(ps) = 1 /\ Divides(Numel[ps[1]])
<1> DEFINE ns == [i \in DOMAIN ps |-> Numel[ps[i]]]
           n == Len(ps)
<1>1. n \in Nat /\ DOMAIN ps = 1 .. n /\ \A i \in 1 .. n : Numel[ps[i]] \in Nat
  BY Weights
<1>2. ns \in [1 .. n -> Nat]
  BY <1>1
<1>3. Len(ns) = n
  BY <1>1, <1>2, FunctionIsSeq
<1>4. Len(ns) = 1 /\ Divides(ns[1])
  BY Zenon DEF AsIs, SentAsIs, Divides
<1>5. ns[1] = Numel[ps[1]]
  <2>1. 1 \in DOMAIN ps
    BY <1>1, <1>3, <1>4
  <2> QED BY <2>1
<1> QED BY <1>3, <1>4, <1>5

\* A gradient sent as it is.
LEMMA OneScattered ==
  ASSUME NEW ps \in Seq(Params), AsIs(ps), iter \in Nat
  PROVE  ScatterIs(ReduceScattered(Gradient(ps[1], iter)), ps)
<1> DEFINE p == ps[1]
           v == Gradient(p, iter)
           m == PartNumel[p]
<1>1. Len(ps) = 1 /\ Divides(Numel[ps[1]]) /\ p \in Params
  <2>1. Len(ps) = 1 /\ Divides(Numel[ps[1]])
    BY AsIsFacts
  <2> QED BY <2>1
<1>2. /\ World \in Nat \ {0} /\ Numel[p] \in Nat /\ m \in Nat /\ m = CeilDiv(Numel[p])
  BY <1>1, Weights, LayoutAssumption
<1>3. Numel[p] = World * m
  <2>1. PICK n \in Nat : n = Numel[p]
    BY <1>2
  <2>2. PICK q \in Nat : n = World * q + (n % World)
    BY <1>2, DivFacts
  <2>3. n % World = 0
    BY <1>1, <2>1 DEF Divides
  <2>4. n = World * q
    <3>1. PICK w \in Nat : w = World * q
      BY <1>2
    <3> QED BY ONLY <2>2, <2>3, <3>1
  <2>5. World * m >= n /\ World * m < n + World
    BY <1>2, <2>1, PartFacts
  <2> HIDE DEF m
  <2>6. m = q
    <3>1. World * m >= World * q /\ World * m < World * (q + 1)
      BY <1>2, <2>4, <2>5
    <3>2. ~ (m < q)
      <4>1. ASSUME m < q PROVE FALSE
        <5>1. PICK d \in Nat : q = m + 1 + d
          <6>1. q - (m + 1) \in Nat /\ q = m + 1 + (q - (m + 1))
            BY <1>2, <4>1
          <6> QED BY <6>1
        <5>2. World * q = World * m + World + World * d /\ World * d \in Nat /\ World * m \in Nat
          BY <1>2, <5>1
        <5> QED BY <1>2, <3>1, <5>2
      <4> QED BY <4>1
    <3>3. ~ (q < m)
      <4>1. ASSUME q < m PROVE FALSE
        <5>1. PICK d \in Nat : m = (q + 1) + d
          <6>1. m - (q + 1) \in Nat /\ m = q + 1 + (m - (q + 1))
            BY <1>2, <4>1
          <6> QED BY <6>1
        <5>2. World * m = World * (q + 1) + World * d /\ World * d \in Nat /\ World * (q + 1) \in Nat
          BY <1>2, <5>1
        <5> QED BY <1>2, <3>1, <5>2
      <4> QED BY <4>1
    <3> QED BY <1>2, <3>2, <3>3
  <2> QED BY <2>1, <2>4, <2>6
<1>4. v \in Seq(Cells) /\ Len(v) = Numel[p] /\ \A i \in 1 .. Numel[p] : v[i] = {<<p, i, iter>>}
  BY <1>1, GradientFacts
<1> HIDE DEF p, v, m
<1>5. /\ ReduceScattered(v) \in Seq(Cells) /\ Len(ReduceScattered(v)) = m
      /\ \A j \in 1 .. m : ReduceScattered(v)[j] = v[Rank * m + j]
  <2>1. Len(v) = World * m
    BY <1>3, <1>4
  <2> QED BY <1>2, <1>4, <2>1, RankPart
<1>6. SumPart(ps) = m /\ ViewOffset(ps, 1) = 0
  <2>1. SumsAre(PartNumel, ps)
    BY Weights, SumsFacts
  <2>2. Sums(PartNumel, ps)[0] = 0 /\ Sums(PartNumel, ps)[1] = Sums(PartNumel, ps)[1 - 1] + PartNumel[ps[1]]
    BY <1>1, <2>1 DEF SumsAre
  <2>3. Sums(PartNumel, ps)[1] = m
    BY <1>2, <2>2 DEF m, p
  <2>4. SumPart(ps) = Sums(PartNumel, ps)[1]
    <3>1. SumPart(ps) = Total(PartNumel, ps)
      BY SumPartIs
    <3> QED BY <1>1, <3>1 DEF Total
  <2>5. PartOffset(ps, 1) = Sums(PartNumel, ps)[1 - 1]
    <3>1. 1 \in 1 .. Len(ps)
      BY <1>1
    <3> QED BY <3>1, PartOffsetFacts
  <2>6. ViewOffset(ps, 1) = PartOffset(ps, 1)
    BY Weights DEF ViewOffset, PartOffset, SumPart
  <2> QED BY <2>2, <2>3, <2>4, <2>5, <2>6
<1>7. ASSUME NEW j \in 1 .. ViewNumel[p] PROVE ReduceScattered(v)[ViewOffset(ps, 1) + j] = CellOf(p, j, iter)
  <2>1. j \in 1 .. m /\ Rank * m + j \in 1 .. Numel[p]
    BY <1>1, ShardNotEmpty DEF m
  <2>2. ReduceScattered(v)[j] = {<<p, Rank * m + j, iter>>}
    BY <1>4, <1>5, <2>1
  <2>3. ViewOffset(ps, 1) + j = j
    BY <1>6, <2>1
  <2> QED BY <2>2, <2>3 DEF CellOf, m
<1>8. \A i \in 1 .. Len(ps) : i = 1
  BY <1>1
<1> QED BY <1>5, <1>6, <1>7, <1>8 DEF ScatterIs, p, v

\* Several gradients, or one that does not divide.
LEMMA ManyScattered ==
  ASSUME NEW ps \in Seq(Params), iter \in Nat
  PROVE  ScatterIs(ReduceScattered(Interleaved([i \in DOMAIN ps |-> Gradient(ps[i], iter)])), ps)
<1> DEFINE ts == [i \in DOMAIN ps |-> Gradient(ps[i], iter)]
           n == Len(ps)
           f == Sums(PartNumel, ps)
<1>1. n \in Nat /\ DOMAIN ps = 1 .. n /\ \A i \in 1 .. n : ps[i] \in Params
  OBVIOUS
<1>2. /\ f \in [0 .. n -> Nat] /\ f[0] = 0 /\ f[n] = SumPart(ps) /\ SumPart(ps) \in Nat
      /\ \A i \in 1 .. n : f[i] = f[i - 1] + PartNumel[ps[i]]
  <2>1. SumsAre(PartNumel, ps)
    BY Weights, SumsFacts
  <2>2. IsSums(f, PartNumel, ps)
    BY <2>1 DEF SumsAre
  <2>3. f[n] = SumPart(ps) /\ SumPart(ps) \in Nat
    BY SumPartIs DEF Total
  <2> QED BY <2>2, <2>3 DEF IsSums
<1>3. ASSUME NEW i \in 1 .. n
      PROVE  /\ ts[i] = Gradient(ps[i], iter) /\ ts[i] \in Seq(Cells) /\ Len(ts[i]) = Numel[ps[i]]
             /\ CeilDiv(Len(ts[i])) = PartNumel[ps[i]]
             /\ \A j \in 1 .. Numel[ps[i]] : ts[i][j] = {<<ps[i], j, iter>>}
  <2>1. ts[i] = Gradient(ps[i], iter) /\ ps[i] \in Params
    BY <1>1
  <2> QED BY <2>1, GradientFacts, Weights
<1>4. ts \in Seq(Seq(Cells)) /\ Len(ts) = n
  <2>1. ts \in [1 .. n -> Seq(Cells)]
    BY <1>1, <1>3
  <2> QED BY <1>1, <2>1, FunctionIsSeq
<1>5. \A i \in 1 .. n : ViewOffset(ps, i) = f[i - 1]
  <2>1. ASSUME NEW i \in 1 .. n PROVE ViewOffset(ps, i) = f[i - 1]
    <3>1. PartOffset(ps, i) = f[i - 1]
      BY PartOffsetFacts
    <3>2. ViewOffset(ps, i) = PartOffset(ps, i)
      BY Weights DEF ViewOffset, PartOffset, SumPart
    <3> QED BY <3>1, <3>2
  <2> QED BY <2>1
<1> HIDE DEF ts, n, f
<1>6. PartsAt(f, ts)
  BY <1>2, <1>3, <1>4 DEF PartsAt
<1>7. PadCell \in Cells
  BY DEF PadCell, Cells
<1>8. InterleavedIs(ts, f, Cells)
  BY <1>4, <1>6, <1>7, InterleavedFacts
<1> DEFINE v == Interleaved(ts)
<1>9. /\ v \in Seq(Cells) /\ Len(v) = World * f[n]
      /\ \A i \in 1 .. n : \A j \in 1 .. PartNumel[ps[i]] :
           /\ f[i - 1] + j \in 1 .. f[n]
           /\ v[Rank * f[n] + (f[i - 1] + j)] = PieceOf(ts[i], PartNumel[ps[i]], Rank)[j]
  <2>1. Rank \in Ranks
    BY LayoutAssumption DEF Ranks
  <2>2. v \in Seq(Cells) /\ Len(v) = World * f[n]
    BY <1>4, <1>8 DEF InterleavedIs
  <2>3. ASSUME NEW i \in 1 .. n, NEW j \in 1 .. PartNumel[ps[i]]
        PROVE  /\ f[i - 1] + j \in 1 .. f[n]
               /\ v[Rank * f[n] + (f[i - 1] + j)] = PieceOf(ts[i], PartNumel[ps[i]], Rank)[j]
    <3>1. CeilDiv(Len(ts[i])) = PartNumel[ps[i]]
      BY <1>3
    <3> QED BY <1>4, <1>8, <2>1, <3>1 DEF InterleavedIs
  <2> QED BY <2>2, <2>3
<1> HIDE DEF v
<1>10. /\ ReduceScattered(v) \in Seq(Cells) /\ Len(ReduceScattered(v)) = f[n]
       /\ \A j \in 1 .. f[n] : ReduceScattered(v)[j] = v[Rank * f[n] + j]
  <2>1. f[n] \in Nat
    BY <1>2
  <2> QED BY <1>9, <2>1, RankPart
<1>11. ASSUME NEW i \in 1 .. n, NEW j \in 1 .. ViewNumel[ps[i]]
       PROVE  ReduceScattered(v)[ViewOffset(ps, i) + j] = CellOf(ps[i], j, iter)
  <2> DEFINE p == ps[i]
  <2>1. p \in Params
    BY <1>1
  <2>2. j \in 1 .. PartNumel[p] /\ Rank * PartNumel[p] + j \in 1 .. Numel[p]
    BY <2>1, ShardNotEmpty
  <2>3. ReduceScattered(v)[f[i - 1] + j] = PieceOf(ts[i], PartNumel[p], Rank)[j]
    BY <1>9, <1>10, <2>2
  <2>4. PieceOf(ts[i], PartNumel[p], Rank)[j] = ts[i][Rank * PartNumel[p] + j]
    <3>1. Rank * PartNumel[p] + j <= Len(ts[i])
      BY <1>3, <2>2
    <3> QED BY <2>2, <3>1 DEF PieceOf
  <2>5. ts[i][Rank * PartNumel[p] + j] = {<<p, Rank * PartNumel[p] + j, iter>>}
    BY <1>3, <2>2
  <2>6. ViewOffset(ps, i) = f[i - 1]
    BY <1>5
  <2> QED BY <2>3, <2>4, <2>5, <2>6 DEF CellOf
<1> QED BY <1>2, <1>10, <1>11 DEF ScatterIs, v, ts, n

\* The reduce-scatter of a bucket gives each of its parameters its shard
\* (reduce_scatter_coalesced).
LEMMA ReductionScattered ==
  ASSUME NEW ps \in Seq(Params), iter \in Nat
  PROVE  ScatterIs(ReduceScattered(Reduction(ps)), ps)
<1>1. CASE AsIs(ps)
  <2>1. Len(ps) = 1 /\ DOMAIN ps = 1 .. 1
    BY <1>1, AsIsFacts
  <2>2. Reduction(ps) = Gradient(ps[1], iter)
    BY <1>1, <2>1 DEF Reduction
  <2> QED BY <1>1, <2>2, OneScattered
<1>2. CASE ~ AsIs(ps)
  <2>1. Reduction(ps) = Interleaved([i \in DOMAIN ps |-> Gradient(ps[i], iter)])
    BY <1>2, Zenon DEF Reduction
  <2> QED BY <2>1, ManyScattered
<1> QED BY <1>1, <1>2

-----------------------------------------------------------------------------
(* The queues: what is held stays held *)

QueueTypes ==
  /\ cuPos \in Nat /\ cuQ \in Seq(Params \X Nat) /\ Len(cuQ) \in Nat /\ Queued \in Nat /\ Base \in Int /\ iter \in Nat
  /\ Queued <= Len(order) /\ order \in Seq(Params) /\ Len(order) \in Nat
  /\ \A j \in 1 .. Queued : order[j] \in Params

\* The counters of the host thread.
LEMMA QueueFacts ==
  ASSUME LoopInv, TypInv, KernelsInv, pc \in InGrad
  PROVE  QueueTypes
<1>1. order \in Seq(Params) /\ Len(order) \in Nat
  BY OrderFacts DEF TypInv, BucketTypes
<1>2. cuPos \in Nat /\ cuQ \in Seq(Params \X Nat) /\ next \in Nat \ {0} /\ iter \in Nat
  BY DEF TypInv, StreamTypes, LoopInv, CtlTypes
<1>3. Len(cuQ) \in Nat
  BY <1>2
<1>4. Queued \in Nat /\ Queued <= Len(order)
  BY <1>1, <1>2 DEF Queued, KernelsInv, TypInv, BucketTypes
<1>5. Base \in Int
  BY <1>2, <1>3, <1>4 DEF Base
<1>6. \A j \in 1 .. Queued : order[j] \in Params
  BY <1>1, <1>4
<1> QED BY <1>1, <1>2, <1>3, <1>4, <1>5, <1>6 DEF QueueTypes

\* A step within an iteration that executes nothing on the reduce stream.
Onward ==
  /\ order' = order /\ iter' = iter /\ Base' = Base
  /\ cuPos' \in Nat /\ cuPos <= cuPos' /\ Queued' \in Nat /\ Queued <= Queued'

\* The gradient of p is still computed after the same operations, or more.
LEMMA MadeKept ==
  ASSUME QueueTypes, Onward, NEW p, NEW i \in Nat, NEW k \in Nat, i <= k,
         \A x \in 1 .. i : rsQ'[x] = rsQ[x], Made(p, i)
  PROVE  Made(p, k)'
<1>1. PICK j \in 1 .. Queued : order[j] = p /\ ReachedAt(Base + j, i)
  BY DEF Made
<1>2. j \in 1 .. Queued' /\ order'[j] = p /\ Base' + j = Base + j /\ Base + j \in Int
  BY <1>1 DEF Onward, QueueTypes
<1>3. ReachedAt(Base + j, k)'
  <2>1. CASE Base + j <= cuPos
    BY <1>2, <2>1 DEF Onward, QueueTypes, ReachedAt
  <2>2. CASE \E x \in 1 .. i : rsQ[x].op = "wait" /\ rsQ[x].n >= Base + j
    <3>1. PICK x \in 1 .. i : rsQ[x].op = "wait" /\ rsQ[x].n >= Base + j
      BY <2>2
    <3>2. x \in 1 .. k /\ rsQ'[x] = rsQ[x]
      BY <3>1
    <3> QED BY <1>2, <3>1, <3>2 DEF ReachedAt
  <2> QED BY <1>1, <2>1, <2>2 DEF ReachedAt
<1> QED BY <1>2, <1>3 DEF Made

\* So is what l holds, if what is added does not overwrite it.
LEMMA HeldKept ==
  ASSUME QueueTypes, Onward, flat' = flat, NEW l, NEW i \in Nat, NEW k \in Nat, i <= k,
         \A x \in 1 .. i : rsQ'[x] = rsQ[x],
         l.at = "flat" => \A x \in i + 1 .. k : rsQ'[x].op = "copy" => Apart(l, rsQ'[x].src[1]),
         Held(l, i)
  PROVE  Held(l, k)'
<1>1. CASE l.at = "flat"
  <2>1. PICK y \in 0 .. i : CopiedAt(l, y) /\ Clear(l, y, i)
    BY <1>1 DEF Held
  <2>2. y \in 0 .. k
    BY <2>1
  <2>3. CopiedAt(l, y)'
    <3>1. CASE y = 0
      <4>1. InFlat(l)
        BY <2>1, <3>1 DEF CopiedAt
      <4>2. InFlat(l)'
        BY <4>1 DEF InFlat, Onward
      <4> QED BY <3>1, <4>2 DEF CopiedAt
    <3>2. CASE y # 0
      <4>1. y \in 1 .. i
        BY <3>2
      <4> QED BY <2>1, <3>2, <4>1 DEF CopiedAt
    <3> QED BY <3>1, <3>2
  <2>4. Clear(l, y, k)'
    <3> SUFFICES ASSUME NEW x \in y + 1 .. k, rsQ'[x].op = "copy"
                 PROVE  Apart(l, rsQ'[x].src[1])
      BY DEF Clear, Apart
    <3>1. CASE x <= i
      <4>1. x \in 1 .. i /\ x \in y + 1 .. i
        BY <2>1, <3>1
      <4> QED BY <2>1, <4>1 DEF Clear
    <3>2. CASE ~ (x <= i)
      <4>1. x \in i + 1 .. k
        BY <2>1, <3>2
      <4> QED BY <1>1, <4>1
    <3> QED BY <3>1, <3>2
  <2> QED BY <1>1, <2>2, <2>3, <2>4 DEF Held
<1>2. CASE l.at # "flat"
  <2>1. Made(l.p, i)
    BY <1>2 DEF Held
  <2>2. Made(l.p, k)'
    BY <2>1, MadeKept
  <2> QED BY <1>2, <2>2 DEF Held
<1> QED BY <1>1, <1>2

\* What is held now can be read.
LEMMA HeldRead ==
  ASSUME LoopInv, TypInv, KernelsInv, pc \in InGrad, NEW l \in Places, Held(l, 0)
  PROVE  Read(l) = Gradient(l.p, iter)
<1>1. QueueTypes
  BY QueueFacts
<1>2. l.p \in Params /\ l.off \in Nat /\ Numel[l.p] \in Nat /\ iter \in Nat
  BY <1>1, Weights DEF Places, QueueTypes
<1>3. CASE l.at = "flat"
  <2>1. CopiedAt(l, 0)
    BY <1>3 DEF Held
  <2>2. \A c \in 1 .. Numel[l.p] : flat[l.off + c] = {<<l.p, c, iter>>}
    BY <2>1 DEF CopiedAt, InFlat
  <2>3. flat \in Seq(Cells) /\ Fits(flat, l.off, Numel[l.p])
    BY <1>3 DEF TypInv, StreamTypes, Places, Fits
  <2>4. /\ Narrow(flat, l.off, Numel[l.p]) \in Seq(Cells) /\ Len(Narrow(flat, l.off, Numel[l.p])) = Numel[l.p]
        /\ \A c \in 1 .. Numel[l.p] : Narrow(flat, l.off, Numel[l.p])[c] = flat[l.off + c]
    BY <1>2, <2>3, NarrowFacts
  <2>5. Narrow(flat, l.off, Numel[l.p]) = Gradient(l.p, iter)
    <3> DEFINE s == Narrow(flat, l.off, Numel[l.p])
               t == Gradient(l.p, iter)
               n == Numel[l.p]
    <3>1. s \in Seq(Cells) /\ Len(s) = n /\ \A c \in 1 .. n : s[c] = {<<l.p, c, iter>>}
      BY <2>2, <2>4
    <3>2. t \in Seq(Cells) /\ Len(t) = n /\ \A c \in 1 .. n : t[c] = {<<l.p, c, iter>>}
      BY <1>2, GradientFacts
    <3> HIDE DEF s, t, n
    <3>3. s = t
      BY <3>1, <3>2, SameSeq
    <3> QED BY <3>3 DEF s, t, n
  <2> QED BY <1>3, <2>5 DEF Read
<1>4. CASE l.at # "flat"
  <2>1. PICK j \in 1 .. Queued : order[j] = l.p /\ ReachedAt(Base + j, 0)
    BY <1>4 DEF Held, Made
  <2>2. Base + j <= cuPos
    BY <2>1 DEF ReachedAt
  <2>3. own[order[j]] = Gradient(order[j], iter)
    BY <2>1, <2>2 DEF KernelsInv
  <2> QED BY <1>4, <2>1, <2>3 DEF Read
<1> QED BY <1>3, <1>4

-----------------------------------------------------------------------------
(* The reduce stream executes an operation *)

\* The first operation is executed, the others move up.
Shifted ==
  /\ UNCHANGED <<order, iter, own, cuPos>> /\ Base' = Base /\ Queued' = Queued
  /\ Len(rsQ) \in Nat \ {0} /\ Len(rsQ') = Len(rsQ) - 1
  /\ \A x \in 1 .. Len(rsQ) - 1 : rsQ'[x] = rsQ[x + 1]
  /\ \A x \in 1 .. Len(rsQ) : /\ rsQ[x] \in QueueOps /\ rsQ[x].n \in Nat
                              /\ rsQ[x].op = "copy" => Len(rsQ[x].src) = 1 /\ rsQ[x].src[1] \in Places
  /\ rsQ[1].op = "wait" => cuPos >= rsQ[1].n
  /\ rsQ[1].op # "copy" => flat' = flat
  /\ rsQ[1].op = "copy" =>
       LET l == rsQ[1].src[1] IN
       flat' = [c \in DOMAIN flat |-> IF c - l.off \in 1 .. Numel[l.p] THEN own[l.p][c - l.off] ELSE flat[c]]

\* An operation of the reduce stream takes the first one off the queue.
LEMMA ShiftFacts ==
  ASSUME TypInv, ReduceStream
  PROVE  Shifted
<1>1. rsQ \in Seq(QueueOps) /\ \A x \in 1 .. Len(rsQ) : rsQ[x].op = "copy" => Len(rsQ[x].src) = 1
  BY DEF TypInv, StreamTypes, Queue
<1>2. rsQ # <<>> /\ rsQ' = Tail(rsQ)
  BY DEF ReduceStream
<1>3. /\ Len(rsQ) \in Nat \ {0} /\ Len(rsQ') = Len(rsQ) - 1 /\ Head(rsQ) = rsQ[1]
      /\ \A x \in 1 .. Len(rsQ) - 1 : rsQ'[x] = rsQ[x + 1]
  BY <1>1, <1>2
<1>4. ASSUME NEW x \in 1 .. Len(rsQ)
      PROVE  /\ rsQ[x] \in QueueOps /\ rsQ[x].n \in Nat
             /\ rsQ[x].op = "copy" => Len(rsQ[x].src) = 1 /\ rsQ[x].src[1] \in Places
  <2>1. rsQ[x] \in QueueOps
    BY <1>1
  <2>2. rsQ[x].n \in Nat /\ rsQ[x].src \in Seq(Places)
    BY <2>1 DEF QueueOps
  <2> QED BY <1>1, <2>1, <2>2
<1>5. UNCHANGED <<pc, order, next, iter, own, cuQ, cuPos>>
  BY DEF ReduceStream, hostVars
<1>6. Base' = Base /\ Queued' = Queued
  BY <1>5 DEF Base, Queued
<1>7. /\ rsQ[1].op = "wait" => cuPos >= rsQ[1].n
      /\ rsQ[1].op # "copy" => flat' = flat
      /\ rsQ[1].op = "copy" =>
           LET l == rsQ[1].src[1] IN
           flat' = [c \in DOMAIN flat |-> IF c - l.off \in 1 .. Numel[l.p] THEN own[l.p][c - l.off] ELSE flat[c]]
  BY <1>3 DEF ReduceStream
<1> QED BY <1>3, <1>4, <1>5, <1>6, <1>7 DEF Shifted

\* n operations of the compute stream are executed after one operation less.
LEMMA ReachedShift ==
  ASSUME QueueTypes, Shifted, NEW n \in Int, NEW i \in Nat, i + 1 <= Len(rsQ), ReachedAt(n, i + 1)
  PROVE  ReachedAt(n, i)'
<1>1. CASE n <= cuPos
  BY <1>1 DEF Shifted, ReachedAt
<1>2. CASE \E x \in 1 .. i + 1 : rsQ[x].op = "wait" /\ rsQ[x].n >= n
  <2>1. PICK x \in 1 .. i + 1 : rsQ[x].op = "wait" /\ rsQ[x].n >= n
    BY <1>2
  <2>2. CASE x = 1
    <3>1. n <= cuPos
      <4>1. 1 \in 1 .. Len(rsQ) /\ rsQ[1].op = "wait" /\ rsQ[1].n >= n
        BY <2>1, <2>2 DEF Shifted
      <4>2. PICK m \in Nat : m = rsQ[1].n
        BY <4>1 DEF Shifted
      <4>3. cuPos >= m /\ m >= n /\ cuPos \in Nat
        BY <4>1, <4>2 DEF Shifted, QueueTypes
      <4>4. n \in Int
        OBVIOUS
      <4> QED BY ONLY <4>2, <4>3, <4>4
    <3> QED BY <3>1 DEF Shifted, ReachedAt
  <2>3. CASE x # 1
    <3>1. PICK y \in 1 .. i : y + 1 = x /\ y \in 1 .. Len(rsQ) - 1
      <4>1. x - 1 \in 1 .. i /\ x - 1 \in 1 .. Len(rsQ) - 1 /\ (x - 1) + 1 = x
        BY <2>1, <2>3 DEF Shifted
      <4> QED BY <4>1
    <3>2. rsQ'[y] = rsQ[x]
      BY <3>1 DEF Shifted
    <3> QED BY <2>1, <3>1, <3>2 DEF ReachedAt
  <2> QED BY <2>2, <2>3
<1> QED BY <1>1, <1>2 DEF ReachedAt

\* So is the gradient of p.
LEMMA MadeShift ==
  ASSUME QueueTypes, Shifted, NEW p, NEW i \in Nat, i + 1 <= Len(rsQ), Made(p, i + 1)
  PROVE  Made(p, i)'
<1>1. PICK j \in 1 .. Queued : order[j] = p /\ ReachedAt(Base + j, i + 1)
  BY DEF Made
<1>2. PICK n \in Int : n = Base + j
  BY <1>1 DEF QueueTypes
<1>3. ReachedAt(n, i)'
  BY <1>1, <1>2, ReachedShift
<1>4. j \in 1 .. Queued' /\ order'[j] = p /\ Base' + j = n
  BY <1>1, <1>2 DEF Shifted
<1> QED BY <1>3, <1>4 DEF Made

\* What a copy puts in its place is the gradient.
LEMMA CopiedNow ==
  ASSUME TypInv, QueueTypes, Shifted, KernelsInv, CopiesInv, pc \in InGrad,
         NEW l \in Places, rsQ[1].op = "copy", rsQ[1].src[1] = l, l.at = "flat"
  PROVE  InFlat(l)'
<1>1. l \in Places /\ Len(rsQ) \in Nat \ {0} /\ 1 \in 1 .. Len(rsQ)
  BY DEF Shifted
<1>2. l.p \in Params /\ l.off \in Nat /\ Numel[l.p] \in Nat /\ l.off + Numel[l.p] <= BucketSize
  BY <1>1, Weights DEF Places
<1>3. own[l.p] = Gradient(l.p, iter)
  <2>1. Made(l.p, 1 - 1)
    BY <1>1 DEF CopiesInv
  <2>2. PICK j \in 1 .. Queued : order[j] = l.p /\ ReachedAt(Base + j, 0)
    BY <2>1 DEF Made
  <2>3. Base + j <= cuPos
    BY <2>2 DEF ReachedAt
  <2>4. own[order[j]] = Gradient(order[j], iter)
    BY <2>2, <2>3 DEF KernelsInv
  <2> QED BY <2>2, <2>4
<1>4. DOMAIN flat = 1 .. BucketSize /\ BucketSize \in Nat
  BY ReduceAssumption DEF TypInv, StreamTypes
<1>5. flat' = [c \in DOMAIN flat |-> IF c - l.off \in 1 .. Numel[l.p] THEN own[l.p][c - l.off] ELSE flat[c]]
  BY DEF Shifted
<1>6. ASSUME NEW c \in 1 .. Numel[l.p] PROVE flat'[l.off + c] = {<<l.p, c, iter>>}
  <2>1. l.off + c \in DOMAIN flat /\ (l.off + c) - l.off = c
    BY <1>2, <1>4
  <2>2. flat'[l.off + c] = own[l.p][c]
    BY <1>5, <2>1
  <2>3. Gradient(l.p, iter)[c] = {<<l.p, c, iter>>}
    BY <1>2, GradientFacts DEF QueueTypes
  <2> QED BY <1>3, <2>2, <2>3
<1>7. iter' = iter
  BY DEF Shifted
<1>8. \A c \in 1 .. Numel[l.p] : flat'[l.off + c] = {<<l.p, c, iter'>>}
  BY <1>6, <1>7
<1> QED BY <1>8 DEF InFlat

\* What is in the flat buffer stays there if nothing is copied over it.
LEMMA KeptNow ==
  ASSUME TypInv, Shifted, NEW l \in Places, l.at = "flat", InFlat(l),
         rsQ[1].op = "copy" => Apart(l, rsQ[1].src[1])
  PROVE  InFlat(l)'
<1>1. l.p \in Params /\ l.off \in Nat /\ Numel[l.p] \in Nat /\ l.off + Numel[l.p] <= BucketSize
  BY Weights DEF Places
<1>2. DOMAIN flat = 1 .. BucketSize /\ BucketSize \in Nat
  BY ReduceAssumption DEF TypInv, StreamTypes
<1>3. iter' = iter
  BY DEF Shifted
<1>4. CASE rsQ[1].op # "copy"
  BY <1>3, <1>4 DEF Shifted, InFlat
<1>5. CASE rsQ[1].op = "copy"
  <2> DEFINE m == rsQ[1].src[1]
  <2>1. m \in Places /\ Apart(l, m)
    BY <1>5 DEF Shifted
  <2>2. m.p \in Params /\ m.off \in Nat /\ Numel[m.p] \in Nat
    BY <2>1, Weights DEF Places
  <2>3. flat' = [c \in DOMAIN flat |-> IF c - m.off \in 1 .. Numel[m.p] THEN own[m.p][c - m.off] ELSE flat[c]]
    BY <1>5 DEF Shifted
  <2> HIDE DEF m
  <2>4. ASSUME NEW c \in 1 .. Numel[l.p] PROVE flat'[l.off + c] = flat[l.off + c]
    <3>1. l.off + c \in DOMAIN flat
      BY <1>1, <1>2
    <3>2. (l.off + c) - m.off \notin 1 .. Numel[m.p]
      BY <1>1, <2>1, <2>2 DEF Apart
    <3> QED BY <2>3, <3>1, <3>2
  <2>5. \A c \in 1 .. Numel[l.p] : flat'[l.off + c] = {<<l.p, c, iter'>>}
    BY <1>3, <2>4 DEF InFlat
  <2> QED BY <2>5 DEF InFlat
<1> QED BY <1>4, <1>5

\* What l holds after i + 1 operations it now holds after i.
LEMMA HeldShift ==
  ASSUME TypInv, QueueTypes, Shifted, KernelsInv, CopiesInv, pc \in InGrad,
         NEW l \in Places, NEW i \in Nat, i + 1 <= Len(rsQ), Held(l, i + 1)
  PROVE  Held(l, i)'
<1>0. Len(rsQ) \in Nat \ {0} /\ 1 \in 1 .. Len(rsQ)
  BY DEF Shifted
<1>1. CASE l.at # "flat"
  <2>1. Made(l.p, i + 1)
    BY <1>1 DEF Held
  <2>2. Made(l.p, i)'
    BY <2>1, MadeShift
  <2> QED BY <1>1, <2>2 DEF Held
<1>2. CASE l.at = "flat"
  <2>1. PICK y \in 0 .. i + 1 : CopiedAt(l, y) /\ Clear(l, y, i + 1)
    BY <1>2 DEF Held
  <2>2. ASSUME NEW z \in 0 .. i, z >= y - 1 PROVE Clear(l, z, i)'
    <3> SUFFICES ASSUME NEW x \in z + 1 .. i, rsQ'[x].op = "copy" PROVE Apart(l, rsQ'[x].src[1])
      BY DEF Clear, Apart
    <3>1. x \in 1 .. Len(rsQ) - 1 /\ x + 1 \in y + 1 .. i + 1
      BY <1>0, <2>1, <2>2
    <3>2. rsQ'[x] = rsQ[x + 1]
      BY <3>1 DEF Shifted
    <3> QED BY <2>1, <3>1, <3>2 DEF Clear
  <2>3. CASE y >= 2
    <3>1. y - 1 \in 0 .. i /\ y - 1 # 0 /\ y # 0 /\ y - 1 \in 1 .. Len(rsQ) - 1 /\ (y - 1) + 1 = y
      BY <1>0, <2>1, <2>3
    <3>2. rsQ'[y - 1] = rsQ[y]
      BY <3>1 DEF Shifted
    <3>3. CopiedAt(l, y - 1)'
      BY <2>1, <3>1, <3>2 DEF CopiedAt
    <3>4. Clear(l, y - 1, i)'
      BY <2>2, <3>1
    <3> QED BY <1>2, <3>1, <3>3, <3>4 DEF Held
  <2>4. CASE y = 1
    <3>1. rsQ[1].op = "copy" /\ rsQ[1].src[1] = l
      BY <2>1, <2>4 DEF CopiedAt
    <3>2. InFlat(l)'
      BY <1>2, <3>1, CopiedNow
    <3>3. CopiedAt(l, 0)' /\ 0 \in 0 .. i
      BY <3>2 DEF CopiedAt
    <3>4. Clear(l, 0, i)'
      BY <2>2, <2>4, <3>3
    <3> QED BY <1>2, <3>3, <3>4 DEF Held
  <2>5. CASE y = 0
    <3>1. InFlat(l)
      BY <2>1, <2>5 DEF CopiedAt
    <3>2. rsQ[1].op = "copy" => Apart(l, rsQ[1].src[1])
      <4>1. 1 \in y + 1 .. i + 1
        BY <2>5
      <4> QED BY <2>1, <4>1 DEF Clear
    <3>3. InFlat(l)'
      BY <1>2, <3>1, <3>2, KeptNow
    <3>4. CopiedAt(l, 0)' /\ 0 \in 0 .. i
      BY <3>3 DEF CopiedAt
    <3>5. Clear(l, 0, i)'
      BY <2>2, <2>5, <3>4
    <3> QED BY <1>2, <3>4, <3>5 DEF Held
  <2> QED BY <2>1, <2>3, <2>4, <2>5
<1> QED BY <1>1, <1>2

\* Where the gradients of the bucket are.
LEMMA BucketPlaces ==
  ASSUME TypInv, NEW i \in 1 .. Len(ipg)
  PROVE  loc[ipg[i]] \in Places /\ ipg[i] \in Params /\ loc[ipg[i]].p = ipg[i]
<1>1. ipg[i] \in Params /\ loc[ipg[i]].at # "none" /\ BucketTypes
  BY DEF TypInv, BucketTypes
<1>2. loc[ipg[i]].p = ipg[i]
  BY <1>1 DEF BucketTypes, LocTypes
<1> QED BY <1>1, <1>2, LocIsPlace

\* The reduce stream has something to do during the backward pass and its end only.
LEMMA StreamBusy ==
  ASSUME LoopInv, TypInv, KernelsInv, rsQ # <<>>
  PROVE  pc \in InBackward \cup {"sync"} /\ pc \in InGrad /\ QueueTypes
<1>1. pc \in InBackward \cup {"sync"}
  BY DEF KernelsInv
<1>2. pc \in InGrad
  BY <1>1 DEF InGrad
<1> QED BY <1>1, <1>2, QueueFacts

\* The reduce stream keeps the order of the copies after the kernels ...
LEMMA CopiesShift ==
  ASSUME LoopInv, TypInv, KernelsInv, CopiesInv, ReduceStream
  PROVE  CopiesInv'
<1>1. rsQ # <<>> /\ UNCHANGED <<pc, order>>
  BY DEF ReduceStream, hostVars
<1>2. QueueTypes /\ Shifted
  BY <1>1, StreamBusy, ShiftFacts
<1>3. Len(rsQ) \in Nat \ {0} /\ Len(rsQ') = Len(rsQ) - 1 /\ Base' = Base
  BY <1>2 DEF Shifted
<1>4. ASSUME NEW i \in 1 .. Len(rsQ'), rsQ'[i].op = "copy" PROVE Made(rsQ[i].src[1].p, i - 1)'
  <2>1. rsQ'[i] = rsQ[i + 1] /\ i + 1 \in 1 .. Len(rsQ)
    BY <1>2, <1>3 DEF Shifted
  <2>2. PICK k \in Nat : k = i - 1 /\ k + 1 = i
    <3>1. i - 1 \in Nat /\ (i - 1) + 1 = i
      OBVIOUS
    <3> QED BY <3>1
  <2>3. Made(rsQ[i + 1].src[1].p, (i + 1) - 1) /\ (i + 1) - 1 = k + 1
    BY <1>4, <2>1, <2>2 DEF CopiesInv
  <2> DEFINE p == rsQ[i + 1].src[1].p
  <2>4. Made(p, k + 1)
    BY <2>3
  <2>5. k + 1 <= Len(rsQ)
    BY <1>3, <2>1, <2>2
  <2>6. PICK x \in {p} : x = rsQ[i + 1].src[1].p
    OBVIOUS
  <2>7. Made(x, k)'
    BY <1>2, <2>4, <2>5, <2>6, MadeShift
  <2>8. x = rsQ'[i].src[1].p
    BY <2>1, <2>6
  <2> QED BY <2>2, <2>7, <2>8
<1>5. ASSUME pc' \in {"epilogue", "sync"} PROVE ReachedAt(Base + Len(order), Len(rsQ))'
  <2>1. ReachedAt(Base + Len(order), Len(rsQ))
    BY <1>1, <1>5 DEF CopiesInv
  <2>2. PICK n \in Int : n = Base + Len(order)
    BY <1>2 DEF QueueTypes
  <2>3. PICK k \in Nat : k + 1 = Len(rsQ) /\ k = Len(rsQ')
    BY <1>3
  <2>4. ReachedAt(n, k + 1) /\ k + 1 <= Len(rsQ)
    BY <1>3, <2>1, <2>2, <2>3
  <2>5. ReachedAt(n, k)'
    BY <1>2, <2>4, ReachedShift
  <2>6. n = Base' + Len(order')
    BY <1>1, <1>3, <2>2
  <2> QED BY <2>3, <2>5, <2>6
<1> QED BY <1>4, <1>5 DEF CopiesInv

\* ... the gradients of the bucket where they are held ...
LEMMA BucketShift ==
  ASSUME LoopInv, TypInv, KernelsInv, CopiesInv, BucketInv, ReduceStream
  PROVE  BucketInv'
<1>1. rsQ # <<>> /\ UNCHANGED <<ipg, loc>>
  BY DEF ReduceStream, bucketVars
<1>2. QueueTypes /\ Shifted /\ pc \in InGrad
  BY <1>1, StreamBusy, ShiftFacts
<1>3. PICK k \in Nat : k + 1 = Len(rsQ) /\ k = Len(rsQ')
  BY <1>2 DEF Shifted
<1>4. ASSUME NEW i \in 1 .. Len(ipg) PROVE Held(loc[ipg[i]], Len(rsQ))'
  <2>1. PICK l \in Places : l = loc[ipg[i]]
    BY BucketPlaces
  <2>2. Held(l, k + 1) /\ k + 1 <= Len(rsQ)
    BY <1>3, <2>1 DEF BucketInv
  <2>3. Held(l, k)'
    BY <1>2, <2>2, HeldShift
  <2> QED BY <1>1, <1>3, <2>1, <2>3
<1> QED BY <1>1, <1>4 DEF BucketInv

\* The input of the pending reduce-scatter.
PendingPlaces ==
  /\ pending.pos \in Nat /\ rsPos \in Nat /\ pending.ps \in Seq(Params) /\ Ahead \in Nat
  /\ Ahead = IF pending.pos > rsPos THEN pending.pos - rsPos ELSE 0

\* How many operations are ahead of the pending reduce-scatter.
LEMMA AheadFacts ==
  ASSUME TypInv, PendingInv, pending # NoRs
  PROVE  PendingPlaces
<1>1. pending.pos \in Nat /\ pending.ps \in Seq(Params)
  BY DEF PendingInv, PendingTypes
<1>2. rsPos \in Nat
  BY DEF TypInv, StreamTypes
<1>3. Ahead \in Nat
  BY <1>1, <1>2 DEF Ahead
<1> QED BY <1>1, <1>2, <1>3 DEF PendingPlaces, Ahead

\* What a gradient sent as it is holds.
LEMMA OneShift ==
  ASSUME LoopInv, TypInv, KernelsInv, CopiesInv, PendingInv, pending # NoRs, NEW ps, SentOne(ps), Ahead <= Len(rsQ),
         ReduceStream
  PROVE  SentOne(ps)'
<1>1. rsQ # <<>> /\ pending' = pending /\ rsPos' = rsPos + 1
  BY DEF ReduceStream
<1>2. QueueTypes /\ Shifted /\ pc \in InGrad
  BY <1>1, StreamBusy, ShiftFacts
<1>3. PendingPlaces
  BY AheadFacts
<1>4. Len(rsQ) \in Nat \ {0} /\ Len(rsQ') = Len(rsQ) - 1 /\ \A x \in 1 .. Len(rsQ) - 1 : rsQ'[x] = rsQ[x + 1]
  BY <1>2 DEF Shifted
<1>5. PICK l \in Places : l = pending.src[1]
  BY DEF SentOne
<1>6. Ahead' = IF Ahead = 0 THEN 0 ELSE Ahead - 1
  BY <1>1, <1>3 DEF PendingPlaces, Ahead
<1>7. NoCat'
  BY <1>4 DEF SentOne, NoCat
<1>8. Held(l, Ahead)'
  <2>1. CASE Ahead # 0
    <3>1. PICK k \in Nat : k + 1 = Ahead /\ k = Ahead'
      BY <1>3, <1>6, <2>1 DEF PendingPlaces
    <3>2. Held(l, k + 1) /\ k + 1 <= Len(rsQ)
      BY <1>5, <3>1 DEF SentOne
    <3>3. Held(l, k)'
      BY <1>2, <3>2, HeldShift
    <3> QED BY <3>1, <3>3
  <2>2. CASE Ahead = 0
    <3>1. Held(l, 0) /\ Ahead' = 0
      BY <1>5, <1>6, <2>2 DEF SentOne
    <3>2. CASE l.at = "flat"
      <4>1. InFlat(l)
        <5>1. CopiedAt(l, 0)
          BY <3>1, <3>2 DEF Held
        <5> QED BY <5>1 DEF CopiedAt
      <4>2. rsQ[1].op # "copy"
        <5>1. 1 \in Ahead + 1 .. Len(rsQ)
          BY <1>4, <2>2
        <5> QED BY <1>5, <3>2, <5>1 DEF SentOne
      <4>3. InFlat(l)'
        BY <1>2, <3>2, <4>1, <4>2, KeptNow
      <4>4. CopiedAt(l, 0)' /\ Clear(l, 0, 0)'
        BY <4>3 DEF CopiedAt, Clear
      <4> QED BY <3>1, <3>2, <4>4 DEF Held
    <3>3. CASE l.at # "flat"
      <4>1. Made(l.p, 0)
        BY <3>1, <3>3 DEF Held
      <4>2. PICK j \in 1 .. Queued : order[j] = l.p /\ Base + j <= cuPos
        BY <4>1 DEF Made, ReachedAt
      <4>3. Made(l.p, 0)'
        BY <1>2, <4>2 DEF Shifted, Made, ReachedAt
      <4> QED BY <3>1, <3>3, <4>3 DEF Held
    <3> QED BY <3>2, <3>3
  <2> QED BY <2>1, <2>2
<1>9. l.at = "flat" => \A x \in Ahead' + 1 .. Len(rsQ') : rsQ'[x].op # "copy"
  <2> SUFFICES ASSUME l.at = "flat", NEW x \in Ahead' + 1 .. Len(rsQ') PROVE rsQ'[x].op # "copy"
    OBVIOUS
  <2>1. x \in 1 .. Len(rsQ) - 1 /\ x + 1 \in Ahead + 1 .. Len(rsQ)
    BY <1>3, <1>4, <1>6 DEF PendingPlaces
  <2>2. rsQ[x + 1].op # "copy"
    BY <1>5, <2>1 DEF SentOne
  <2> QED BY <1>4, <2>1, <2>2
<1> QED BY <1>1, <1>5, <1>7, <1>8, <1>9 DEF SentOne

\* What torch.cat has put together, or still finds.
LEMMA ManyShift ==
  ASSUME LoopInv, TypInv, KernelsInv, CopiesInv, PendingInv, pending # NoRs, SentMany(pending.ps), ~ AsIs(pending.ps),
         Ahead <= Len(rsQ), ReduceStream
  PROVE  SentMany(pending.ps)'
<1>1. rsQ # <<>> /\ pending' = pending /\ rsPos' = rsPos + 1 /\ iter' = iter
  BY DEF ReduceStream, hostVars
<1>2. QueueTypes /\ Shifted /\ pc \in InGrad
  BY <1>1, StreamBusy, ShiftFacts
<1>3. PendingPlaces
  BY AheadFacts
<1>4. Len(rsQ) \in Nat \ {0} /\ Len(rsQ') = Len(rsQ) - 1 /\ \A x \in 1 .. Len(rsQ) - 1 : rsQ'[x] = rsQ[x + 1]
  BY <1>2 DEF Shifted
<1>6. Ahead' = IF Ahead = 0 THEN 0 ELSE Ahead - 1
  BY <1>1, <1>3 DEF PendingPlaces, Ahead
<1> DEFINE ps == pending.ps
<1>7. ps \in Seq(Params) /\ pending.src = <<>>
  BY <1>3 DEF PendingPlaces, SentMany
<1>8. \A i \in 1 .. Len(rsQ') : rsQ'[i].op = "cat" => i = Ahead'
  <2> SUFFICES ASSUME NEW i \in 1 .. Len(rsQ'), rsQ'[i].op = "cat" PROVE i = Ahead'
    OBVIOUS
  <2>1. rsQ[i + 1].op = "cat" /\ i + 1 \in 1 .. Len(rsQ)
    BY <1>4
  <2>2. i + 1 = Ahead
    BY <2>1 DEF SentMany
  <2> QED BY <1>3, <1>6, <2>2 DEF PendingPlaces
<1>9. ASSUME Ahead' # 0
      PROVE  /\ rsQ'[Ahead'].op = "cat" /\ Len(rsQ'[Ahead'].src) = Len(ps)
             /\ \A k \in 1 .. Len(ps) : rsQ'[Ahead'].src[k].p = ps[k] /\ Held(rsQ[Ahead].src[k], Ahead - 1)'
  <2>1. PICK m \in Nat : m + 2 = Ahead /\ m + 1 = Ahead'
    <3>1. Ahead >= 2 /\ Ahead \in Nat
      BY <1>3, <1>6, <1>9 DEF PendingPlaces
    <3>2. Ahead - 2 \in Nat /\ (Ahead - 2) + 2 = Ahead /\ (Ahead - 2) + 1 = Ahead - 1
      BY <3>1
    <3> QED BY <1>6, <3>1, <3>2
  <2>2. m + 1 \in 1 .. Len(rsQ) - 1 /\ (m + 1) + 1 = m + 2 /\ m + 2 \in 1 .. Len(rsQ)
    BY <1>4, <2>1
  <2>3. rsQ'[m + 1] = rsQ[m + 2]
    BY <1>4, <2>2
  <2>4. Ahead # 0 /\ Ahead - 1 = m + 1 /\ Ahead' - 1 = m
    BY <2>1
  <2>5. /\ rsQ[m + 2].op = "cat" /\ Len(rsQ[m + 2].src) = Len(ps)
        /\ \A k \in 1 .. Len(ps) : rsQ[m + 2].src[k].p = ps[k] /\ Held(rsQ[m + 2].src[k], m + 1)
    BY <2>1, <2>4 DEF SentMany
  <2>6. ASSUME NEW k \in 1 .. Len(ps) PROVE Held(rsQ[Ahead].src[k], Ahead - 1)'
    <3>1. PICK l \in Places : l = rsQ[m + 2].src[k]
      <4>1. rsQ[m + 2].src \in Seq(Places)
        BY <1>2, <2>2 DEF Shifted, QueueOps
      <4>2. rsQ[m + 2].src[k] \in Places
        BY <2>5, <4>1
      <4> QED BY <4>2
    <3>2. Held(l, m + 1) /\ m + 1 <= Len(rsQ)
      BY <1>4, <2>2, <2>5, <3>1
    <3>3. Held(l, m)'
      BY <1>2, <3>2, HeldShift
    <3>4. l = rsQ'[Ahead'].src[k]
      BY <2>1, <2>3, <3>1
    <3> QED BY <2>4, <3>3, <3>4
  <2> QED BY <2>1, <2>3, <2>5, <2>6
<1>10. ASSUME Ahead' = 0 PROVE cat' = Reduction(ps)
  <2>1. CASE Ahead = 0
    <3>1. cat = Reduction(ps)
      BY <2>1 DEF SentMany
    <3>2. rsQ[1].op # "cat"
      BY <1>4, <2>1 DEF SentMany
    <3>3. cat' = cat
      <4>1. Head(rsQ) = rsQ[1]
        BY <1>4
      <4> QED BY <3>2, <4>1 DEF ReduceStream
    <3> QED BY <3>1, <3>3
  <2>2. CASE Ahead # 0
    <3>1. Ahead = 1
      BY <1>3, <1>6, <1>10, <2>2 DEF PendingPlaces
    <3>2. /\ rsQ[1].op = "cat" /\ Len(rsQ[1].src) = Len(ps)
          /\ \A k \in 1 .. Len(ps) : rsQ[1].src[k].p = ps[k] /\ Held(rsQ[1].src[k], 0)
      BY <3>1 DEF SentMany
    <3>3. rsQ[1].src \in Seq(Places) /\ DOMAIN rsQ[1].src = 1 .. Len(ps) /\ DOMAIN ps = 1 .. Len(ps)
      <4>1. rsQ[1].src \in Seq(Places)
        BY <1>2, <1>4 DEF Shifted, QueueOps
      <4> QED BY <1>7, <3>2, <4>1
    <3>4. ASSUME NEW k \in 1 .. Len(ps) PROVE Read(rsQ[1].src[k]) = Gradient(ps[k], iter)
      <4>1. PICK l \in Places : l = rsQ[1].src[k]
        BY <3>3
      <4>2. Held(l, 0) /\ l.p = ps[k]
        BY <3>2, <4>1
      <4>3. Read(l) = Gradient(l.p, iter)
        BY <1>2, <4>2, HeldRead
      <4> QED BY <4>1, <4>2, <4>3
    <3>5. cat' = Interleaved([i \in DOMAIN rsQ[1].src |-> Read(rsQ[1].src[i])])
      <4>1. Head(rsQ) = rsQ[1]
        BY <1>4
      <4> QED BY <3>2, <4>1 DEF ReduceStream
    <3>6. [i \in DOMAIN rsQ[1].src |-> Read(rsQ[1].src[i])] = [i \in DOMAIN ps |-> Gradient(ps[i], iter)]
      BY <3>3, <3>4
    <3>7. Reduction(ps) = Interleaved([i \in DOMAIN ps |-> Gradient(ps[i], iter)])
      BY Zenon DEF Reduction
    <3> QED BY <3>5, <3>6, <3>7
  <2> QED BY <2>1, <2>2
<1>11. ps = pending'.ps /\ pending'.src = <<>> /\ Reduction(ps) = Reduction(pending.ps)'
  BY <1>1, <1>7 DEF Reduction, AsIs
<1> QED BY <1>8, <1>9, <1>10, <1>11 DEF SentMany

\* ... and what the pending reduce-scatter will read.
LEMMA PendingShift ==
  ASSUME LoopInv, TypInv, KernelsInv, CopiesInv, PendingInv, ReduceStream
  PROVE  PendingInv'
<1>1. /\ rsQ # <<>> /\ pending' = pending /\ rsPos' = rsPos + 1
      /\ UNCHANGED <<pc, iter, gradPart, rsOut>>
  BY DEF ReduceStream, hostVars, resultVars
<1>2. Shifted
  BY ShiftFacts
<1>3. Len(rsQ) \in Nat \ {0} /\ Len(rsQ') = Len(rsQ) - 1 /\ \A x \in 1 .. Len(rsQ) - 1 : rsQ'[x] = rsQ[x + 1]
  BY <1>2 DEF Shifted
<1>4. NoCat => NoCat'
  BY <1>3 DEF NoCat
<1>5. CASE pending = NoRs
  BY <1>1, <1>4, <1>5 DEF PendingInv
<1>6. CASE pending # NoRs
  <2>1. PendingTypes'
    BY <1>1, <1>6 DEF PendingInv, PendingTypes
  <2>2. ASSUME ~ pending.done PROVE SentInv(pending.ps)'
    <3>1. Ahead <= Len(rsQ) /\ IF AsIs(pending.ps) THEN SentOne(pending.ps) ELSE SentMany(pending.ps)
      BY <1>6, <2>2 DEF PendingInv, SentInv
    <3>2. Ahead' <= Len(rsQ')
      <4>1. PendingPlaces
        BY <1>6, AheadFacts
      <4>2. Ahead' = IF Ahead = 0 THEN 0 ELSE Ahead - 1
        BY <1>1, <4>1 DEF PendingPlaces, Ahead
      <4> QED BY <1>3, <3>1, <4>1, <4>2 DEF PendingPlaces
    <3>3. CASE AsIs(pending.ps)
      <4>1. PICK ps \in {pending.ps} : ps = pending.ps
        OBVIOUS
      <4>2. SentOne(ps)'
        BY <1>6, <3>1, <3>3, <4>1, OneShift
      <4>3. AsIs(ps)' /\ ps = pending'.ps
        BY <1>1, <3>3, <4>1 DEF AsIs
      <4> QED BY <3>2, <4>2, <4>3 DEF SentInv
    <3>4. CASE ~ AsIs(pending.ps)
      <4>1. SentMany(pending.ps)'
        BY <1>6, <3>1, <3>4, ManyShift
      <4>2. ~ AsIs(pending.ps)'
        BY <1>1, <3>4 DEF AsIs
      <4> QED BY <3>2, <4>1, <4>2 DEF SentInv
    <3> QED BY <3>3, <3>4
  <2>3. ASSUME pending.done PROVE ScatteredInv(pending.ps)' /\ NoCat'
    BY <1>1, <1>4, <1>6, <2>3 DEF PendingInv, ScatteredInv, ScatterIs
  <2> QED BY <1>1, <1>6, <2>1, <2>2, <2>3 DEF PendingInv
<1> QED BY <1>5, <1>6

\* An operation of the reduce stream keeps the invariant of the streams.
LEMMA ReduceStreamData ==
  ASSUME LoopInv, TypInv, StreamInv, ReduceStream
  PROVE  StreamInv'
<1>1. KernelsInv /\ CopiesInv /\ BucketInv /\ PendingInv
  BY DEF StreamInv
<1>2. KernelsInv'
  <2>1. rsQ # <<>> /\ UNCHANGED <<pc, next, order, iter, cuQ, cuPos, own, pending>>
    BY DEF ReduceStream, hostVars
  <2>2. pc \in InBackward \cup {"sync"} /\ pc \in InGrad
    BY <1>1, <2>1, StreamBusy
  <2>3. Base' = Base /\ Queued' = Queued
    BY <2>1 DEF Base, Queued
  <2> QED BY <1>1, <2>1, <2>2, <2>3 DEF KernelsInv, Gradient
<1> QED BY <1>1, <1>2, CopiesShift, BucketShift, PendingShift DEF StreamInv

-----------------------------------------------------------------------------
(* The other steps of an iteration only add to the queues *)

\* The queue of the reduce stream, and what may have been added to it.
Extended ==
  /\ Len(rsQ) \in Nat /\ Len(rsQ') \in Nat /\ Len(rsQ) <= Len(rsQ')
  /\ \A x \in 1 .. Len(rsQ) : rsQ'[x] = rsQ[x]

\* The copies that were queued.
LEMMA CopiesKept ==
  ASSUME QueueTypes, Onward, Extended, CopiesInv, NEW i \in 1 .. Len(rsQ), rsQ'[i].op = "copy"
  PROVE  Made(rsQ[i].src[1].p, i - 1)'
<1>1. rsQ'[i] = rsQ[i] /\ i - 1 \in Nat
  BY DEF Extended
<1>2. PICK k \in Nat : k = i - 1
  BY <1>1
<1>3. PICK p \in {rsQ[i].src[1].p} : p = rsQ[i].src[1].p
  OBVIOUS
<1>4. Made(p, k)
  BY <1>1, <1>2, <1>3 DEF CopiesInv
<1>5. \A x \in 1 .. k : rsQ'[x] = rsQ[x]
  BY <1>2 DEF Extended
<1>6. Made(p, k)'
  BY <1>4, <1>5, MadeKept
<1> QED BY <1>1, <1>2, <1>3, <1>6

\* All gradients have still been computed when the reduce stream is idle.
LEMMA LastKept ==
  ASSUME QueueTypes, Onward, Extended, ReachedAt(Base + Len(order), Len(rsQ))
  PROVE  ReachedAt(Base + Len(order), Len(rsQ))'
<1>1. PICK n \in Int : n = Base + Len(order)
  BY DEF QueueTypes
<1>2. n = Base' + Len(order')
  BY <1>1 DEF Onward
<1>3. CASE n <= cuPos
  <2>1. n <= cuPos'
    BY <1>3 DEF Onward, QueueTypes
  <2> QED BY <1>2, <2>1 DEF ReachedAt
<1>4. CASE \E x \in 1 .. Len(rsQ) : rsQ[x].op = "wait" /\ rsQ[x].n >= n
  <2>1. PICK x \in 1 .. Len(rsQ) : rsQ[x].op = "wait" /\ rsQ[x].n >= n
    BY <1>4
  <2>2. x \in 1 .. Len(rsQ') /\ rsQ'[x] = rsQ[x]
    BY DEF Extended
  <2> QED BY <1>2, <2>1, <2>2 DEF ReachedAt
<1> QED BY <1>1, <1>3, <1>4 DEF ReachedAt

\* A gradient of the bucket.
LEMMA BucketKept ==
  ASSUME TypInv, QueueTypes, Onward, Extended, BucketInv, flat' = flat, NEW i \in 1 .. Len(ipg),
         ipg'[i] = ipg[i], loc'[ipg[i]] = loc[ipg[i]],
         loc[ipg[i]].at = "flat" =>
           \A x \in Len(rsQ) + 1 .. Len(rsQ') : rsQ'[x].op = "copy" => Apart(loc[ipg[i]], rsQ'[x].src[1])
  PROVE  Held(loc[ipg[i]], Len(rsQ))'
<1>1. PICK l \in Places : l = loc[ipg[i]]
  BY BucketPlaces
<1>2. PICK m \in Nat : m = Len(rsQ)
  BY DEF Extended
<1>3. PICK k \in Nat : k = Len(rsQ') /\ m <= k
  BY <1>2 DEF Extended
<1>4. Held(l, m) /\ \A x \in 1 .. m : rsQ'[x] = rsQ[x]
  BY <1>1, <1>2 DEF BucketInv, Extended
<1>5. l.at = "flat" => \A x \in m + 1 .. k : rsQ'[x].op = "copy" => Apart(l, rsQ'[x].src[1])
  BY <1>1, <1>2, <1>3
<1>6. Held(l, k)'
  BY <1>3, <1>4, <1>5, HeldKept
<1>7. l = loc'[ipg'[i]]
  BY <1>1
<1> QED BY <1>3, <1>6, <1>7

\* What the pending reduce-scatter needs.
LEMMA PendingKept ==
  ASSUME TypInv, QueueTypes, Onward, Extended, PendingInv, UNCHANGED <<flat, cat, rsPos, pending, gradPart, rsOut>>,
         \A x \in Len(rsQ) + 1 .. Len(rsQ') : rsQ'[x].op # "cat",
         pending # NoRs /\ ~ pending.done /\ pending.src # <<>> /\ pending.src[1].at = "flat" =>
           \A x \in Len(rsQ) + 1 .. Len(rsQ') : rsQ'[x].op # "copy",
         pc' \in {"sync", "step", "flush"} => pc \in {"sync", "step", "flush"}
  PROVE  PendingInv'
<1>1. NoCat => NoCat'
  <2> SUFFICES ASSUME NoCat, NEW x \in 1 .. Len(rsQ') PROVE rsQ'[x].op # "cat"
    BY DEF NoCat
  <2>1. CASE x \in 1 .. Len(rsQ)
    BY <2>1 DEF NoCat, Extended
  <2>2. CASE x \notin 1 .. Len(rsQ)
    BY <2>2 DEF Extended
  <2> QED BY <2>1, <2>2
<1>2. CASE pending = NoRs
  BY <1>1, <1>2 DEF PendingInv
<1>3. CASE pending # NoRs
  <2>1. PendingTypes'
    BY <1>3 DEF PendingInv, PendingTypes
  <2>2. PICK a \in Nat : a = Ahead /\ a = Ahead'
    <3>1. Ahead \in Nat /\ Ahead' = Ahead
      BY <1>3, AheadFacts DEF PendingPlaces, Ahead
    <3> QED BY <3>1
  <2>3. PICK ps \in Seq(Params) : ps = pending.ps
    BY <1>3, AheadFacts DEF PendingPlaces
  <2>4. AsIs(ps)' <=> AsIs(ps)
    BY DEF AsIs
  <2>5. Reduction(ps)' = Reduction(ps)
    BY DEF Reduction, AsIs, Onward
  <2>6. ASSUME ~ pending.done, AsIs(ps) PROVE SentOne(ps)' /\ a <= Len(rsQ')
    <3>1. SentOne(ps) /\ a <= Len(rsQ)
      BY <1>3, <2>2, <2>3, <2>6 DEF PendingInv, SentInv
    <3>2. PICK l \in Places : l = pending.src[1] /\ pending.src # <<>> /\ Len(pending.src) = 1 /\ pending.src \in Seq(Places)
      BY <3>1 DEF SentOne
    <3>3. Held(l, a) /\ \A x \in 1 .. a : rsQ'[x] = rsQ[x]
      BY <2>2, <3>1, <3>2 DEF SentOne, Extended
    <3>4. Held(l, a)'
      BY <3>3, HeldKept
    <3>5. l.at = "flat" => \A x \in a + 1 .. Len(rsQ') : rsQ'[x].op # "copy"
      <4> SUFFICES ASSUME l.at = "flat", NEW x \in a + 1 .. Len(rsQ') PROVE rsQ'[x].op # "copy"
        OBVIOUS
      <4>1. CASE x \in 1 .. Len(rsQ)
        <5>1. x \in a + 1 .. Len(rsQ)
          BY <4>1
        <5> QED BY <2>2, <3>1, <3>2, <4>1, <5>1 DEF SentOne, Extended
      <4>2. CASE x \notin 1 .. Len(rsQ)
        <5>1. x \in Len(rsQ) + 1 .. Len(rsQ')
          BY <4>2 DEF Extended
        <5> QED BY <1>3, <2>6, <3>2, <5>1
      <4> QED BY <4>1, <4>2
    <3>6. NoCat' /\ l.p = ps[1]
      BY <1>1, <3>1, <3>2 DEF SentOne
    <3>7. a <= Len(rsQ')
      BY <3>1 DEF Extended
    <3>8. pending' = pending
      OBVIOUS
    <3> QED BY <2>2, <3>2, <3>4, <3>5, <3>6, <3>7, <3>8 DEF SentOne
  <2>7. ASSUME ~ pending.done, ~ AsIs(ps) PROVE SentMany(ps)' /\ a <= Len(rsQ')
    <3>1. SentMany(ps) /\ a <= Len(rsQ)
      BY <1>3, <2>2, <2>3, <2>7 DEF PendingInv, SentInv
    <3>2. \A i \in 1 .. Len(rsQ') : rsQ'[i].op = "cat" => i = a
      <4> SUFFICES ASSUME NEW i \in 1 .. Len(rsQ'), rsQ'[i].op = "cat" PROVE i = a
        OBVIOUS
      <4>1. CASE i \in 1 .. Len(rsQ)
        BY <2>2, <3>1, <4>1 DEF SentMany, Extended
      <4>2. CASE i \notin 1 .. Len(rsQ)
        BY <4>2 DEF Extended
      <4> QED BY <4>1, <4>2
    <3>3. ASSUME a # 0
          PROVE  /\ rsQ'[a].op = "cat" /\ Len(rsQ'[a].src) = Len(ps)
                 /\ \A k \in 1 .. Len(ps) : rsQ'[a].src[k].p = ps[k] /\ Held(rsQ[a].src[k], a - 1)'
      <4>1. a \in 1 .. Len(rsQ) /\ rsQ'[a] = rsQ[a]
        BY <3>1, <3>3 DEF Extended
      <4>2. PICK b \in Nat : b = a - 1
        <5>1. a - 1 \in Nat
          BY <3>3
        <5> QED BY <5>1
      <4>3. \A x \in 1 .. b : rsQ'[x] = rsQ[x]
        BY <4>1, <4>2 DEF Extended
      <4>4. ASSUME NEW k \in 1 .. Len(ps) PROVE Held(rsQ[a].src[k], a - 1)'
        <5>1. PICK l \in {rsQ[a].src[k]} : l = rsQ[a].src[k]
          OBVIOUS
        <5>2. Held(l, b)
          BY <2>2, <3>1, <3>3, <4>2, <5>1 DEF SentMany
        <5>3. Held(l, b)'
          BY <4>3, <5>2, HeldKept
        <5>4. l = rsQ'[a].src[k]
          BY <4>1, <5>1
        <5> QED BY <4>2, <5>3, <5>4
      <4> QED BY <2>2, <3>1, <3>3, <4>1, <4>4 DEF SentMany
    <3>4. a = 0 => cat' = Reduction(ps)'
      BY <2>2, <2>5, <3>1 DEF SentMany
    <3>5. a <= Len(rsQ')
      BY <3>1 DEF Extended
    <3>6. pending'.src = <<>>
      BY <3>1 DEF SentMany
    <3> QED BY <2>2, <3>2, <3>3, <3>4, <3>5, <3>6 DEF SentMany
  <2>8. ASSUME ~ pending.done PROVE SentInv(pending.ps)'
    <3>1. SentInv(ps)'
      BY <2>2, <2>4, <2>6, <2>7, <2>8 DEF SentInv
    <3> QED BY <2>3, <3>1
  <2>9. ASSUME pending.done PROVE ScatteredInv(pending.ps)' /\ NoCat'
    BY <1>1, <1>3, <2>9 DEF PendingInv, ScatteredInv, ScatterIs, Onward
  <2> QED BY <1>3, <2>1, <2>8, <2>9 DEF PendingInv
<1> QED BY <1>2, <1>3

\* An operation of the compute stream keeps it.
LEMMA ComputeData ==
  ASSUME LoopInv, TypInv, StreamInv, ComputeStream
  PROVE  StreamInv'
<1>1. KernelsInv /\ CopiesInv /\ BucketInv /\ PendingInv
  BY DEF StreamInv
<1>2. /\ cuQ # <<>> /\ cuQ' = Tail(cuQ) /\ cuPos' = cuPos + 1
      /\ own' = [own EXCEPT ![Head(cuQ)[1]] = Gradient(Head(cuQ)[1], Head(cuQ)[2])]
      /\ UNCHANGED <<pc, order, iter, next, ipg, loc, pending, gradPart, rsOut, flat, cat, rsQ, rsPos>>
  BY DEF ComputeStream, hostVars, bucketVars, resultVars
<1>3. pc \in InBackward \cup {"sync"} /\ pc \in InGrad
  <2>1. pc \in InBackward \cup {"sync"}
    BY <1>1, <1>2 DEF KernelsInv
  <2> QED BY <2>1 DEF InGrad
<1>4. QueueTypes
  BY <1>1, <1>3, QueueFacts
<1>5. /\ Len(cuQ) \in Nat \ {0} /\ Len(cuQ') = Len(cuQ) - 1 /\ Head(cuQ) = cuQ[1]
      /\ \A x \in 1 .. Len(cuQ) - 1 : cuQ'[x] = cuQ[x + 1]
  BY <1>2, <1>4 DEF QueueTypes
<1>6. Queued' = Queued /\ Base' = Base
  <2>1. Queued' = Queued
    BY <1>2 DEF Queued
  <2>2. PICK q \in Nat : q = Queued
    BY <1>4 DEF QueueTypes
  <2> QED BY <1>2, <1>4, <1>5, <2>1, <2>2 DEF Base, QueueTypes
<1>7. Onward /\ Extended
  <2>1. Len(rsQ) \in Nat
    BY DEF TypInv, StreamTypes, Queue
  <2> QED BY <1>2, <1>4, <1>6, <2>1 DEF Onward, Extended, QueueTypes
<1>8. Len(cuQ) <= Queued
  BY <1>1, <1>3 DEF KernelsInv
<1>9. PICK p \in Params : cuQ[1] = <<p, iter>>
  <2>1. PICK q \in Nat : q = Queued
    BY <1>4 DEF QueueTypes
  <2>2. PICK n \in Nat \ {0} : n = Len(cuQ)
    BY <1>5
  <2>3. PICK j \in 1 .. q : j = q - n + 1
    <3>1. q - n + 1 \in 1 .. q
      BY <1>8, <2>1, <2>2
    <3> QED BY <3>1
  <2>4. Base + j = cuPos + 1
    <3>1. Base = cuPos + n - q /\ cuPos \in Nat
      BY <1>4, <2>1, <2>2 DEF Base, QueueTypes
    <3> QED BY <2>3, <3>1
  <2>5. ~ (Base + j <= cuPos) /\ Base + j - cuPos = 1
    BY <1>4, <2>4 DEF QueueTypes
  <2>6. cuQ[1] = <<order[j], iter>>
    BY <1>1, <1>3, <2>1, <2>5 DEF KernelsInv
  <2>7. order[j] \in Params
    BY <1>4, <2>1 DEF QueueTypes
  <2> QED BY <2>6, <2>7
<1>10. own' = [own EXCEPT ![p] = Gradient(p, iter)] /\ DOMAIN own = Params
  <2>1. Head(cuQ)[1] = p /\ Head(cuQ)[2] = iter
    BY <1>5, <1>9
  <2>2. own' = [own EXCEPT ![p] = Gradient(p, iter)]
    BY <1>2, <2>1
  <2>3. own \in [Params -> Seq(Cells)]
    BY DEF TypInv, StreamTypes
  <2> QED BY <2>2, <2>3
<1>11. ASSUME NEW j \in 1 .. Queued
       PROVE  IF Base + j <= cuPos + 1 THEN own'[order[j]] = Gradient(order[j], iter)
              ELSE cuQ'[Base + j - (cuPos + 1)] = <<order[j], iter>>
  <2>1. order[j] \in Params
    BY <1>4 DEF QueueTypes
  <2>2. IF Base + j <= cuPos THEN own[order[j]] = Gradient(order[j], iter)
        ELSE cuQ[Base + j - cuPos] = <<order[j], iter>>
    BY <1>1, <1>3 DEF KernelsInv
  <2>3. CASE Base + j <= cuPos
    <3>1. Base + j <= cuPos + 1
      BY <1>4, <2>3 DEF QueueTypes
    <3> QED BY <1>10, <2>1, <2>2, <2>3, <3>1
  <2>4. CASE Base + j = cuPos + 1
    <3>1. ~ (Base + j <= cuPos) /\ Base + j - cuPos = 1 /\ Base + j <= cuPos + 1
      BY <1>4, <2>4 DEF QueueTypes
    <3>2. order[j] = p
      BY <1>9, <2>2, <3>1
    <3> QED BY <1>10, <2>1, <3>1, <3>2
  <2>5. CASE ~ (Base + j <= cuPos + 1)
    <3>1. PICK b \in Int : b = Base
      BY <1>4 DEF QueueTypes
    <3>2. cuPos \in Nat
      BY <1>4 DEF QueueTypes
    <3>3. PICK x \in Nat \ {0} : x = b + j - (cuPos + 1) /\ x + 1 = b + j - cuPos
      <4>1. b + j - (cuPos + 1) \in Nat \ {0} /\ (b + j - (cuPos + 1)) + 1 = b + j - cuPos
        BY <2>5, <3>1, <3>2
      <4> QED BY <4>1
    <3>4. x \in 1 .. Len(cuQ) - 1
      <4>1. PICK q \in Nat : q = Queued /\ j <= q
        BY <1>4 DEF QueueTypes
      <4>2. PICK n \in Nat : n = Len(cuQ)
        BY <1>5
      <4>3. PICK c \in Nat : c = cuPos
        BY <3>2
      <4>4. b = c + n - q
        BY <3>1, <4>1, <4>2, <4>3 DEF Base
      <4>5. x = b + j - (c + 1) /\ j \in Int
        BY <3>3, <4>3
      <4>6. x \in 1 .. n - 1
        BY ONLY <4>1, <4>2, <4>3, <4>4, <4>5, b \in Int, x \in Nat \ {0}
      <4> QED BY <4>2, <4>6
    <3>5. ~ (Base + j <= cuPos)
      BY <2>5, <3>1, <3>2
    <3>6. cuQ[x + 1] = <<order[j], iter>>
      BY <2>2, <3>1, <3>3, <3>5
    <3> QED BY <1>5, <2>5, <3>1, <3>3, <3>4, <3>6
  <2>6. Base + j \in Int /\ cuPos \in Nat
    BY <1>4 DEF QueueTypes
  <2> QED BY <2>3, <2>4, <2>5, <2>6
<1>12. KernelsInv'
  <2>1. Len(cuQ') <= Queued'
    BY <1>4, <1>5, <1>6, <1>8 DEF QueueTypes
  <2>2. \A j \in 1 .. Queued' : IF Base' + j <= cuPos' THEN own'[order'[j]] = Gradient(order[j], iter)'
                                ELSE cuQ'[Base' + j - cuPos'] = <<order'[j], iter'>>
    BY <1>2, <1>6, <1>11 DEF Gradient
  <2> QED BY <1>1, <1>2, <1>3, <2>1, <2>2 DEF KernelsInv
<1>13. CopiesInv'
  <2>1. \A i \in 1 .. Len(rsQ) : rsQ[i].op = "copy" => Made(rsQ[i].src[1].p, i - 1)'
    BY <1>1, <1>2, <1>4, <1>7, CopiesKept
  <2>2. pc \in {"epilogue", "sync"} => ReachedAt(Base + Len(order), Len(rsQ))'
    BY <1>1, <1>4, <1>7, LastKept DEF CopiesInv
  <2> QED BY <1>2, <2>1, <2>2 DEF CopiesInv
<1>14. BucketInv'
  <2>1. ASSUME NEW i \in 1 .. Len(ipg) PROVE Held(loc[ipg[i]], Len(rsQ))'
    <3>1. \A x \in Len(rsQ) + 1 .. Len(rsQ') : FALSE
      BY <1>2, <1>7 DEF Extended
    <3> QED BY <1>1, <1>2, <1>4, <1>7, <3>1, BucketKept
  <2> QED BY <1>1, <1>2, <2>1 DEF BucketInv, SumNumel
<1>15. PendingInv'
  <2>1. \A x \in Len(rsQ) + 1 .. Len(rsQ') : FALSE
    BY <1>2, <1>7 DEF Extended
  <2> QED BY <1>1, <1>2, <1>4, <1>7, <2>1, PendingKept
<1> QED BY <1>12, <1>13, <1>14, <1>15 DEF StreamInv

\* The gradient whose hook is next is not in the bucket.
LEMMA NotPacked ==
  ASSUME TypInv, pc \in {"backward", "hook"}, next \in Nat \ {0}, next <= Len(order), NEW i \in 1 .. Len(ipg)
  PROVE  ipg[i] # order[next]
<1>1. order \in Orders /\ \E j \in 1 .. next - 1 : j <= Len(order) /\ order[j] = ipg[i]
  BY DEF TypInv, BucketTypes, InBackward
<1>2. PICK j \in 1 .. next - 1 : j <= Len(order) /\ order[j] = ipg[i]
  BY <1>1
<1>3. j \in 1 .. Len(order) /\ next \in 1 .. Len(order) /\ j # next
  BY <1>1, <1>2, OrderFacts
<1> QED BY <1>1, <1>2, <1>3, OrderFacts

\* Queueing the kernel of a gradient keeps it.
LEMMA KernelData ==
  ASSUME LoopInv, TypInv, StreamInv, GradKernel
  PROVE  StreamInv'
<1>1. KernelsInv /\ CopiesInv /\ BucketInv /\ PendingInv
  BY DEF StreamInv
<1>2. /\ pc = "backward" /\ pc' = "hook" /\ next <= Len(order) /\ cuQ' = Append(cuQ, <<order[next], iter>>)
      /\ loc' = [loc EXCEPT ![order[next]] = Own(order[next])]
      /\ UNCHANGED <<order, iter, next, ipg, pending, gradPart, rsOut, own, flat, cat, cuPos, rsQ, rsPos>>
  BY DEF GradKernel, resultVars
<1>3. pc \in InGrad
  BY <1>2 DEF InGrad, InBackward
<1>4. QueueTypes /\ next \in Nat \ {0}
  BY <1>1, <1>3, QueueFacts DEF LoopInv, CtlTypes
<1>5. /\ Len(cuQ) \in Nat /\ Len(cuQ') = Len(cuQ) + 1 /\ cuQ'[Len(cuQ) + 1] = <<order[next], iter>>
      /\ \A x \in 1 .. Len(cuQ) : cuQ'[x] = cuQ[x]
  BY <1>2, <1>4 DEF QueueTypes
<1>6. Queued = next - 1 /\ Queued' = next /\ Base' = Base /\ Base = cuPos + Len(cuQ) - (next - 1)
  <2>1. Queued = next - 1 /\ Queued' = next
    BY <1>2 DEF Queued
  <2> QED BY <1>2, <1>4, <1>5, <2>1 DEF Base, QueueTypes
<1>7. Onward /\ Extended
  <2>1. Len(rsQ) \in Nat
    BY DEF TypInv, StreamTypes, Queue
  <2> QED BY <1>2, <1>4, <1>6, <2>1 DEF Onward, Extended, QueueTypes
<1>8. Len(cuQ) <= next - 1
  BY <1>1, <1>3, <1>6 DEF KernelsInv
<1>9. ASSUME NEW j \in 1 .. next
      PROVE  IF Base + j <= cuPos THEN own[order[j]] = Gradient(order[j], iter)
             ELSE cuQ'[Base + j - cuPos] = <<order[j], iter>>
  <2>1. cuPos \in Nat /\ j \in Nat
    BY <1>4 DEF QueueTypes
  <2>2. CASE j = next
    <3>1. ~ (Base + j <= cuPos) /\ Base + j - cuPos = Len(cuQ) + 1
      BY <1>4, <1>5, <1>6, <2>1, <2>2
    <3> QED BY <1>5, <2>2, <3>1
  <2>3. CASE j # next
    <3>1. j \in 1 .. Queued
      BY <1>4, <1>6, <2>3
    <3>2. IF Base + j <= cuPos THEN own[order[j]] = Gradient(order[j], iter)
          ELSE cuQ[Base + j - cuPos] = <<order[j], iter>>
      BY <1>1, <1>3, <3>1 DEF KernelsInv
    <3>3. ~ (Base + j <= cuPos) => Base + j - cuPos \in 1 .. Len(cuQ)
      BY <1>4, <1>5, <1>6, <2>1, <3>1
    <3> QED BY <1>5, <3>2, <3>3
  <2> QED BY <2>2, <2>3
<1>10. KernelsInv'
  <2>1. Len(cuQ') <= Queued'
    BY <1>4, <1>5, <1>6, <1>8
  <2>2. \A j \in 1 .. Queued' : IF Base' + j <= cuPos' THEN own'[order'[j]] = Gradient(order[j], iter)'
                                ELSE cuQ'[Base' + j - cuPos'] = <<order'[j], iter'>>
    BY <1>2, <1>6, <1>9 DEF Gradient
  <2>3. pc' \in InBackward /\ pc' \in InGrad
    BY <1>2 DEF InGrad, InBackward
  <2> QED BY <1>2, <2>1, <2>2, <2>3 DEF KernelsInv
<1>11. CopiesInv'
  <2>1. \A i \in 1 .. Len(rsQ) : rsQ[i].op = "copy" => Made(rsQ[i].src[1].p, i - 1)'
    BY <1>1, <1>2, <1>4, <1>7, CopiesKept
  <2> QED BY <1>2, <2>1 DEF CopiesInv
<1>12. \A i \in 1 .. Len(ipg) : loc'[ipg[i]] = loc[ipg[i]]
  <2>1. ASSUME NEW i \in 1 .. Len(ipg) PROVE loc'[ipg[i]] = loc[ipg[i]]
    <3>1. ipg[i] # order[next] /\ ipg[i] \in Params
      BY <1>2, <1>4, NotPacked, BucketPlaces
    <3>2. DOMAIN loc = Params
      BY DEF TypInv, BucketTypes, LocTypes
    <3> QED BY <1>2, <3>1, <3>2
  <2> QED BY <2>1
<1>13. BucketInv'
  <2>1. ASSUME NEW i \in 1 .. Len(ipg) PROVE Held(loc[ipg[i]], Len(rsQ))'
    <3>1. \A x \in Len(rsQ) + 1 .. Len(rsQ') : FALSE
      BY <1>2, <1>7 DEF Extended
    <3> QED BY <1>1, <1>2, <1>4, <1>7, <1>12, <3>1, BucketKept
  <2> QED BY <1>1, <1>2, <1>12, <2>1 DEF BucketInv, SumNumel
<1>14. PendingInv'
  <2>1. \A x \in Len(rsQ) + 1 .. Len(rsQ') : FALSE
    BY <1>2, <1>7 DEF Extended
  <2> QED BY <1>1, <1>2, <1>4, <1>7, <2>1, PendingKept
<1> QED BY <1>10, <1>11, <1>13, <1>14 DEF StreamInv

\* The end of the backward pass: nothing is left in the queues.
LEMMA SyncData ==
  ASSUME LoopInv, TypInv, StreamInv, EpilogueSync
  PROVE  StreamInv'
<1>1. KernelsInv /\ CopiesInv /\ BucketInv /\ PendingInv
  BY DEF StreamInv
<1>2. /\ pc = "sync" /\ pc' \in {"step", "flush"} /\ rsQ = <<>>
      /\ UNCHANGED <<order, iter, next, ipg, loc, pending, gradPart, rsOut, own, flat, cat, cuQ, cuPos, rsQ, rsPos>>
  BY DEF EpilogueSync, resultVars, streamVars
<1>3. pc \in InGrad /\ pc' \in InGrad /\ pc' \notin InBackward \cup {"sync"}
  BY <1>2 DEF InGrad, InBackward
<1>4. QueueTypes
  BY <1>1, <1>3, QueueFacts
<1>5. Queued = Len(order) /\ Queued' = Queued /\ Base' = Base
  BY <1>2 DEF Queued, Base
<1>6. Onward /\ Extended /\ Len(rsQ) = 0
  <2>1. Len(rsQ) \in Nat /\ Len(rsQ) = 0
    BY <1>2
  <2> QED BY <1>2, <1>4, <1>5, <2>1 DEF Onward, Extended, QueueTypes
<1>7. cuQ = <<>>
  <2>1. Base + Len(order) <= cuPos
    BY <1>1, <1>2, <1>6 DEF CopiesInv, ReachedAt
  <2>2. Len(cuQ) = 0
    <3>1. PICK n \in Nat : n = Len(order)
      BY <1>4 DEF QueueTypes
    <3>2. Base = cuPos + Len(cuQ) - n
      BY <1>5, <3>1 DEF Base
    <3> QED BY <1>4, <2>1, <3>1, <3>2 DEF QueueTypes
  <2> QED BY <1>4, <2>2 DEF QueueTypes
<1>8. KernelsInv'
  <2>1. \A j \in 1 .. Queued' : IF Base' + j <= cuPos' THEN own'[order'[j]] = Gradient(order[j], iter)'
                                ELSE cuQ'[Base' + j - cuPos'] = <<order'[j], iter'>>
    BY <1>1, <1>2, <1>3, <1>5 DEF KernelsInv, Gradient
  <2>2. Len(cuQ') <= Queued'
    BY <1>1, <1>2, <1>3, <1>5 DEF KernelsInv
  <2> QED BY <1>2, <1>3, <1>7, <2>1, <2>2 DEF KernelsInv
<1>9. CopiesInv'
  BY <1>2, <1>6 DEF CopiesInv
<1>10. BucketInv'
  <2>1. ipg = <<>>
    BY <1>2 DEF TypInv, BucketTypes, InBackward
  <2> QED BY <1>2, <2>1 DEF BucketInv
<1>11. PendingInv'
  <2>1. \A x \in Len(rsQ) + 1 .. Len(rsQ') : FALSE
    BY <1>2, <1>6 DEF Extended
  <2> QED BY <1>1, <1>2, <1>4, <1>6, <2>1, PendingKept
<1> QED BY <1>8, <1>9, <1>10, <1>11 DEF StreamInv

\* The beginning of a bucket to which a gradient is added.
LEMMA PrefixOfAppend ==
  ASSUME NEW S, NEW s \in Seq(S), NEW p \in S
  PROVE  /\ Append(s, p) \in Seq(S) /\ Len(Append(s, p)) = Len(s) + 1 /\ Append(s, p)[Len(s) + 1] = p
         /\ \A i \in 1 .. Len(s) : Append(s, p)[i] = s[i]
         /\ \A k \in 0 .. Len(s) : SubSeq(Append(s, p), 1, k) = SubSeq(s, 1, k)
         /\ SubSeq(s, 1, Len(s)) = s
<1>1. /\ Append(s, p) \in Seq(S) /\ Len(Append(s, p)) = Len(s) + 1 /\ Append(s, p)[Len(s) + 1] = p
      /\ \A i \in 1 .. Len(s) : Append(s, p)[i] = s[i]
  OBVIOUS
<1>2. ASSUME NEW k \in 0 .. Len(s) PROVE SubSeq(Append(s, p), 1, k) = SubSeq(s, 1, k)
  <2>1. PICK t \in Seq(S) : t = Append(s, p) /\ Len(t) = Len(s) + 1
    BY <1>1
  <2>2. /\ SubSeq(t, 1, k) \in Seq(S) /\ Len(SubSeq(t, 1, k)) = k /\ \A i \in 1 .. k : SubSeq(t, 1, k)[i] = t[i]
    BY <2>1
  <2>3. /\ SubSeq(s, 1, k) \in Seq(S) /\ Len(SubSeq(s, 1, k)) = k /\ \A i \in 1 .. k : SubSeq(s, 1, k)[i] = s[i]
    OBVIOUS
  <2>4. \A i \in 1 .. k : SubSeq(t, 1, k)[i] = SubSeq(s, 1, k)[i]
    BY <1>1, <2>1, <2>2, <2>3
  <2>5. SubSeq(t, 1, k) = SubSeq(s, 1, k)
    BY <2>2, <2>3, <2>4, SameSeq
  <2> QED BY <2>1, <2>5
<1>3. SubSeq(s, 1, Len(s)) = s
  OBVIOUS
<1> QED BY <1>1, <1>2, <1>3

\* What the hook of a gradient adds to the reduce stream.
AddedOps(p) ==
  /\ Len(rsQ) \in Nat /\ Len(rsQ') = (IF Place(p).at = "flat" THEN Len(rsQ) + 2 ELSE Len(rsQ) + 1)
  /\ \A x \in 1 .. Len(rsQ) : rsQ'[x] = rsQ[x]
  /\ rsQ'[Len(rsQ) + 1] = WaitOp(cuPos + Len(cuQ))
  /\ Place(p).at = "flat" => rsQ'[Len(rsQ) + 2] = CopyOp(Place(p))

\* The hook adds the operations that pack the gradient to the end of the stream.
LEMMA AddedFacts ==
  ASSUME TypInv, NEW p \in Params, rsQ' = rsQ \o PackOps(Place(p))
  PROVE  AddedOps(p)
<1>1. rsQ \in Seq(QueueOps) /\ cuPos + Len(cuQ) \in Nat
  BY DEF TypInv, StreamTypes, Queue
<1>2. Place(p) \in Places
  BY PlaceType DEF TypInv, BucketTypes
<1> DEFINE a == WaitOp(cuPos + Len(cuQ))
           b == CopyOp(Place(p))
<1>3. a \in QueueOps /\ b \in QueueOps
  BY <1>1, <1>2, OpTypes
<1>4. PackOps(Place(p)) = <<a>> \o (IF Place(p).at = "flat" THEN <<b>> ELSE <<>>)
  BY Zenon DEF PackOps
<1> HIDE DEF a, b
<1>5. CASE Place(p).at = "flat"
  <2>1. PackOps(Place(p)) = <<a>> \o <<b>>
    BY <1>4, <1>5
  <2>2. rsQ' = rsQ \o (<<a>> \o <<b>>)
    BY <2>1
  <2>3. Len(rsQ') = Len(rsQ) + 2 /\ Len(rsQ) \in Nat /\ rsQ'[Len(rsQ) + 1] = a /\ rsQ'[Len(rsQ) + 2] = b
        /\ \A x \in 1 .. Len(rsQ) : rsQ'[x] = rsQ[x]
    BY <1>1, <1>3, <2>2
  <2> QED BY <1>5, <2>3 DEF AddedOps, a, b
<1>6. CASE Place(p).at # "flat"
  <2>1. PackOps(Place(p)) = <<a>>
    BY <1>3, <1>4, <1>6
  <2>2. rsQ' = rsQ \o <<a>>
    BY <2>1
  <2>3. Len(rsQ') = Len(rsQ) + 1 /\ Len(rsQ) \in Nat /\ rsQ'[Len(rsQ) + 1] = a
        /\ \A x \in 1 .. Len(rsQ) : rsQ'[x] = rsQ[x]
    BY <1>1, <1>3, <2>2
  <2> QED BY <1>6, <2>3 DEF AddedOps, a
<1> QED BY <1>5, <1>6

\* A gradient of the bucket in the flat buffer lies before what is packed next.
LEMMA PackedBefore ==
  ASSUME TypInv, BucketInv, NEW p \in Params, Place(p).at = "flat", NEW i \in 1 .. Len(ipg), loc[ipg[i]].at = "flat"
  PROVE  Apart(loc[ipg[i]], Place(p))
<1>1. ipg \in Seq(Params)
  BY DEF TypInv, BucketTypes
<1>2. ipg[i] \in Params /\ loc[ipg[i]].p = ipg[i]
  BY BucketPlaces
<1>3. loc[ipg[i]].off = SumNumel(SubSeq(ipg, 1, i - 1))
  BY DEF BucketInv
<1>4. Place(p).off = SumNumel(ipg)
  <2>1. Place(p) = Flat(p, SumNumel(ipg)) \/ Place(p) = Own(p)
    BY DEF Place
  <2>2. Own(p).at = "own" /\ Flat(p, SumNumel(ipg)).off = SumNumel(ipg)
    BY DEF Own, Flat
  <2> QED BY <2>1, <2>2
<1>5. Numel \in [Params -> Nat]
  BY Weights
<1>6. i - 1 \in 0 .. Len(ipg) /\ i \in 0 .. Len(ipg) /\ Len(ipg) \in i .. Len(ipg)
  BY <1>1
<1>7. SumNumel(SubSeq(ipg, 1, i - 1)) = Sums(Numel, ipg)[i - 1]
  <2>1. PICK n \in 0 .. Len(ipg) : n = i - 1
    BY <1>6
  <2>2. SubSeq(ipg, 1, n) \in Seq(Params) /\ Total(Numel, SubSeq(ipg, 1, n)) = Sums(Numel, ipg)[n]
    BY <1>1, <1>5, SumsPrefix
  <2> QED BY <2>1, <2>2, SumNumelIs
<1>8. SumNumel(ipg) = Sums(Numel, ipg)[Len(ipg)]
  BY <1>1, SumNumelIs DEF Total
<1>9. Sums(Numel, ipg)[i] = Sums(Numel, ipg)[i - 1] + Numel[ipg[i]]
  <2>1. SumsAre(Numel, ipg)
    BY <1>1, <1>5, SumsFacts
  <2> QED BY <2>1 DEF SumsAre
<1>10. Sums(Numel, ipg)[i] <= Sums(Numel, ipg)[Len(ipg)]
  BY <1>1, <1>5, <1>6, SumsMonotone
<1>11. loc[ipg[i]].off + Numel[loc[ipg[i]].p] <= Place(p).off
  BY <1>2, <1>3, <1>4, <1>7, <1>8, <1>9, <1>10
<1> QED BY <1>11 DEF Apart

\* The hook of a gradient keeps the invariant of the streams.
LEMMA AddData ==
  ASSUME LoopInv, TypInv, StreamInv, AddGrad, odd' = {}
  PROVE  StreamInv'
<1>1. KernelsInv /\ CopiesInv /\ BucketInv /\ PendingInv
  BY DEF StreamInv
<1>2. PICK p \in {order[next]} : p = order[next]
  OBVIOUS
<1>3. /\ pc = "hook" /\ pc' = (IF next < Len(order) THEN "backward" ELSE "epilogue") /\ next' = next + 1
      /\ rsQ' = rsQ \o PackOps(Place(p)) /\ loc' = [loc EXCEPT ![p] = Place(p)] /\ ipg' = Append(ipg, p)
      /\ odd' = IF Place(p).at = "flat" /\ ~ pending.done /\ pending.src # <<>> /\ pending.src[1].at = "flat"
                THEN odd \cup {"overwritten"} ELSE odd
      /\ UNCHANGED <<order, iter, pending, gradPart, rsOut, own, flat, cat, cuQ, cuPos, rsPos>>
  BY <1>2 DEF AddGrad, resultVars
<1>4. pc \in InGrad /\ pc' \in InGrad /\ next <= Len(order)
  BY <1>3 DEF InGrad, InBackward, TypInv, BucketTypes
<1>5. QueueTypes /\ next \in Nat \ {0} /\ p \in Params
  <2>1. QueueTypes /\ next \in Nat \ {0}
    BY <1>1, <1>4, QueueFacts DEF LoopInv, CtlTypes
  <2>2. next \in 1 .. Len(order)
    BY <1>4, <2>1 DEF QueueTypes
  <2> QED BY <1>2, <2>1, <2>2 DEF QueueTypes
<1>6. Queued = next /\ Queued' = next /\ Base' = Base /\ Base + next = cuPos + Len(cuQ)
  <2>1. Queued = next
    BY <1>3 DEF Queued
  <2>2. Queued' = next
    BY <1>3, <1>4, <1>5 DEF Queued, QueueTypes
  <2>3. PICK l \in Nat : l = Len(cuQ)
    BY <1>5 DEF QueueTypes
  <2> QED BY <1>3, <1>5, <2>1, <2>2, <2>3 DEF Base, QueueTypes
<1>7. AddedOps(p)
  BY <1>3, <1>5, AddedFacts
<1>8. Onward /\ Extended
  BY <1>3, <1>5, <1>6, <1>7 DEF Onward, Extended, QueueTypes, AddedOps
<1>9. PICK m \in Nat : m = Len(rsQ)
  BY <1>7 DEF AddedOps
<1>10. PICK k \in Nat : k = Len(rsQ') /\ m + 1 <= k /\ (Place(p).at = "flat" => k = m + 2) /\ (Place(p).at # "flat" => k = m + 1)
  BY <1>7, <1>9 DEF AddedOps
<1>11. rsQ'[m + 1] = WaitOp(Base + next) /\ (Place(p).at = "flat" => rsQ'[m + 2] = CopyOp(Place(p)))
  BY <1>6, <1>7, <1>9 DEF AddedOps
<1>12. \A x \in m + 1 .. k : x = m + 1 \/ (x = m + 2 /\ Place(p).at = "flat")
  BY <1>10
<1>13. WaitOp(Base + next).op = "wait" /\ WaitOp(Base + next).n = Base + next
       /\ CopyOp(Place(p)).op = "copy" /\ CopyOp(Place(p)).src[1] = Place(p)
  BY DEF WaitOp, CopyOp
<1>14. PICK b \in Int : b = Base + next /\ b = Base' + next
  BY <1>5, <1>6 DEF QueueTypes
<1>15. \A i \in Nat : m + 1 <= i => ReachedAt(b, i)'
  <2> SUFFICES ASSUME NEW i \in Nat, m + 1 <= i PROVE ReachedAt(b, i)'
    OBVIOUS
  <2>1. m + 1 \in 1 .. i /\ rsQ'[m + 1].op = "wait" /\ rsQ'[m + 1].n >= b
    BY <1>11, <1>13, <1>14
  <2> QED BY <2>1 DEF ReachedAt
<1>16. \A i \in Nat : m + 1 <= i => Made(p, i)'
  <2> SUFFICES ASSUME NEW i \in Nat, m + 1 <= i PROVE Made(p, i)'
    OBVIOUS
  <2>1. PICK j \in 1 .. Queued' : j = next
    BY <1>5, <1>6
  <2>2. ReachedAt(b, i)' /\ b = Base' + j /\ order'[j] = p
    BY <1>2, <1>3, <1>14, <1>15, <2>1
  <2> QED BY <2>2 DEF Made
<1>17. KernelsInv'
  <2>1. Len(cuQ') <= Queued'
    BY <1>1, <1>3, <1>4, <1>6 DEF KernelsInv
  <2>2. \A j \in 1 .. Queued' : IF Base' + j <= cuPos' THEN own'[order'[j]] = Gradient(order[j], iter)'
                                ELSE cuQ'[Base' + j - cuPos'] = <<order'[j], iter'>>
    BY <1>1, <1>3, <1>4, <1>6 DEF KernelsInv, Gradient
  <2>3. pc' = "backward" => next' <= Len(order')
    BY <1>3, <1>5 DEF QueueTypes
  <2>4. pc' \in InBackward
    BY <1>3 DEF InBackward
  <2> QED BY <1>4, <2>1, <2>2, <2>3, <2>4 DEF KernelsInv
<1>18. CopiesInv'
  <2>1. ASSUME NEW i \in 1 .. k, rsQ'[i].op = "copy" PROVE Made(rsQ[i].src[1].p, i - 1)'
    <3>1. CASE i \in 1 .. m
      <4>1. Made(rsQ[i].src[1].p, i - 1)' /\ rsQ'[i] = rsQ[i]
        BY <1>1, <1>5, <1>7, <1>8, <1>9, <2>1, <3>1, CopiesKept DEF AddedOps
      <4> QED BY <4>1
    <3>2. CASE i \notin 1 .. m
      <4>1. i = m + 2 /\ Place(p).at = "flat"
        <5>1. i = m + 1 \/ (i = m + 2 /\ Place(p).at = "flat")
          BY <1>12, <3>2
        <5> QED BY <1>11, <1>13, <2>1, <5>1
      <4>2. rsQ'[i].src[1] = Place(p) /\ Place(p).p = p
        BY <1>5, <1>11, <1>13, <4>1, PlaceType DEF TypInv, BucketTypes
      <4>3. PICK n \in Nat : n = i - 1 /\ m + 1 <= n
        <5>1. i - 1 \in Nat /\ m + 1 <= i - 1
          BY <4>1
        <5> QED BY <5>1
      <4>4. Made(p, n)'
        BY <1>16, <4>3
      <4>5. p = rsQ'[i].src[1].p
        BY <4>2
      <4> QED BY <4>3, <4>4, <4>5
    <3> QED BY <3>1, <3>2
  <2>2. ASSUME pc' \in {"epilogue", "sync"} PROVE ReachedAt(Base + Len(order), Len(rsQ))'
    <3>1. next = Len(order)
      BY <1>3, <1>4, <1>5, <2>2 DEF QueueTypes
    <3>2. b = Base' + Len(order')
      BY <1>3, <1>14, <3>1
    <3>3. ReachedAt(b, k)'
      BY <1>10, <1>15
    <3> QED BY <1>10, <3>2, <3>3
  <2> QED BY <1>10, <2>1, <2>2 DEF CopiesInv
<1>19. ipg \in Seq(Params) /\ DOMAIN loc = Params
  BY DEF TypInv, BucketTypes, LocTypes
<1>20. /\ Len(ipg) \in Nat /\ Len(ipg') = Len(ipg) + 1 /\ ipg'[Len(ipg) + 1] = p
       /\ \A i \in 1 .. Len(ipg) : ipg'[i] = ipg[i]
       /\ \A n \in 0 .. Len(ipg) : SubSeq(ipg', 1, n) = SubSeq(ipg, 1, n)
       /\ SubSeq(ipg', 1, Len(ipg)) = ipg
  <2>1. ipg' = Append(ipg, p) /\ Len(ipg) \in Nat
    BY <1>3, <1>19
  <2>2. /\ Len(ipg') = Len(ipg) + 1 /\ ipg'[Len(ipg) + 1] = p
        /\ \A i \in 1 .. Len(ipg) : ipg'[i] = ipg[i]
        /\ \A n \in 0 .. Len(ipg) : SubSeq(ipg', 1, n) = SubSeq(ipg, 1, n)
        /\ SubSeq(ipg, 1, Len(ipg)) = ipg
    BY <1>5, <1>19, <2>1, PrefixOfAppend
  <2>3. SubSeq(ipg', 1, Len(ipg)) = SubSeq(ipg, 1, Len(ipg))
    <3>1. Len(ipg) \in 0 .. Len(ipg)
      BY <2>1
    <3> QED BY <2>2, <3>1
  <2> QED BY <2>1, <2>2, <2>3
<1>21. \A i \in 1 .. Len(ipg) : loc'[ipg[i]] = loc[ipg[i]]
  <2> SUFFICES ASSUME NEW i \in 1 .. Len(ipg) PROVE loc'[ipg[i]] = loc[ipg[i]]
    OBVIOUS
  <2>1. ipg[i] # p /\ ipg[i] \in Params
    BY <1>2, <1>3, <1>4, <1>5, NotPacked, BucketPlaces
  <2> QED BY <1>3, <1>19, <2>1
<1>22. loc'[p] = Place(p)
  BY <1>3, <1>5, <1>19
<1>23. BucketInv'
  <2>1. ASSUME NEW i \in 1 .. Len(ipg)
        PROVE  /\ Held(loc[ipg[i]], Len(rsQ))'
               /\ loc'[ipg'[i]].at = "flat" => loc'[ipg'[i]].off = SumNumel(SubSeq(ipg', 1, i - 1))
    <3>1. loc[ipg[i]].at = "flat" =>
            \A x \in Len(rsQ) + 1 .. Len(rsQ') : rsQ'[x].op = "copy" => Apart(loc[ipg[i]], rsQ'[x].src[1])
      <4> SUFFICES ASSUME loc[ipg[i]].at = "flat", NEW x \in m + 1 .. k, rsQ'[x].op = "copy"
                   PROVE  Apart(loc[ipg[i]], rsQ'[x].src[1])
        BY <1>9, <1>10
      <4>1. x = m + 2 /\ Place(p).at = "flat"
        <5>1. x = m + 1 \/ (x = m + 2 /\ Place(p).at = "flat")
          BY <1>12
        <5> QED BY <1>11, <1>13, <5>1
      <4>2. rsQ'[x].src[1] = Place(p)
        BY <1>11, <1>13, <4>1
      <4>3. Apart(loc[ipg[i]], Place(p))
        BY <1>1, <1>5, <4>1, PackedBefore
      <4> QED BY <4>2, <4>3
    <3>2. ipg'[i] = ipg[i] /\ loc'[ipg[i]] = loc[ipg[i]]
      BY <1>20, <1>21
    <3>3. Held(loc[ipg[i]], Len(rsQ))'
      BY <1>1, <1>3, <1>5, <1>8, <3>1, <3>2, BucketKept
    <3>4. SubSeq(ipg', 1, i - 1) = SubSeq(ipg, 1, i - 1)
      <4>1. i - 1 \in 0 .. Len(ipg)
        BY <1>20
      <4> QED BY <1>20, <4>1
    <3> QED BY <1>1, <3>2, <3>3, <3>4 DEF BucketInv
  <2>2. PICK l \in Places : l = Place(p) /\ l.p = p
    BY <1>5, <1>19, PlaceType
  <2>3. Held(l, k)'
    <3>1. CASE l.at = "flat"
      <4>1. k = m + 2 /\ k \in 0 .. k /\ k # 0
        BY <1>10, <2>2, <3>1
      <4>2. rsQ'[k].op = "copy" /\ rsQ'[k].src[1] = l
        BY <1>11, <1>13, <2>2, <3>1, <4>1
      <4>3. CopiedAt(l, k)'
        BY <4>1, <4>2 DEF CopiedAt
      <4>4. Clear(l, k, k)'
        BY DEF Clear
      <4> QED BY <3>1, <4>1, <4>3, <4>4 DEF Held
    <3>2. CASE l.at # "flat"
      <4>1. Made(p, k)'
        BY <1>10, <1>16
      <4> QED BY <2>2, <3>2, <4>1 DEF Held
    <3> QED BY <3>1, <3>2
  <2>4. Place(p).at = "flat" => Place(p).off = SumNumel(ipg)
    <3>1. Place(p) = Flat(p, SumNumel(ipg)) \/ Place(p) = Own(p)
      BY DEF Place
    <3>2. Own(p).at = "own" /\ Flat(p, SumNumel(ipg)).off = SumNumel(ipg)
      BY DEF Own, Flat
    <3> QED BY <3>1, <3>2
  <2>5. ASSUME NEW i \in 1 .. Len(ipg')
        PROVE  /\ Held(loc[ipg[i]], Len(rsQ))'
               /\ loc'[ipg'[i]].at = "flat" => loc'[ipg'[i]].off = SumNumel(SubSeq(ipg', 1, i - 1))
    <3>1. CASE i \in 1 .. Len(ipg)
      BY <2>1, <3>1
    <3>2. CASE i \notin 1 .. Len(ipg)
      <4>1. i = Len(ipg) + 1 /\ i - 1 = Len(ipg)
        BY <1>20, <3>2
      <4>2. ipg'[i] = p /\ SubSeq(ipg', 1, i - 1) = ipg
        BY <1>20, <4>1
      <4>3. l = loc'[ipg'[i]]
        BY <1>22, <2>2, <4>2
      <4> QED BY <1>10, <2>2, <2>3, <2>4, <4>2, <4>3
    <3> QED BY <3>1, <3>2
  <2> QED BY <2>5 DEF BucketInv, SumNumel
<1>24. PendingInv'
  <2>1. \A x \in Len(rsQ) + 1 .. Len(rsQ') : rsQ'[x].op # "cat"
    BY <1>9, <1>10, <1>11, <1>12, <1>13
  <2>2. ASSUME ~ pending.done, pending.src # <<>>, pending.src[1].at = "flat"
        PROVE  \A x \in Len(rsQ) + 1 .. Len(rsQ') : rsQ'[x].op # "copy"
    <3>1. Place(p).at # "flat"
      BY <1>3, <2>2
    <3> QED BY <1>9, <1>10, <1>11, <1>12, <1>13, <3>1
  <2>3. pc' \notin {"sync", "step", "flush"}
    BY <1>3
  <2> QED BY <1>1, <1>3, <1>5, <1>8, <2>1, <2>2, <2>3, PendingKept
<1> QED BY <1>17, <1>18, <1>23, <1>24 DEF StreamInv

-----------------------------------------------------------------------------
(* The bucket is sent *)

\* What sending the bucket changes, but for the result of the reduce-scatter before it.
SentBucket(o) ==
  /\ pc \in {"hook", "epilogue"} /\ pc' = (IF pc = "hook" THEN "hook" ELSE "sync")
  /\ ipg # <<>> /\ ipg' = <<>>
  /\ pending # NoRs => pending.done
  /\ rsQ' = Append(rsQ, o)
  /\ o = IF AsIs(Bucket) THEN DivOp ELSE CatOp(Locs(Bucket))
  /\ pending' = [ps |-> Bucket, src |-> IF AsIs(Bucket) THEN Locs(Bucket) ELSE <<>>,
                 direct |-> Contiguous(Bucket),
                 at |-> IF Contiguous(Bucket) THEN GradOffset[Bucket[1]] ELSE 0,
                 pos |-> rsPos + Len(Append(rsQ, o)), done |-> FALSE]
  /\ pc = "epilogue" /\ ~ Contiguous(Bucket) => odd' # {}
  /\ UNCHANGED <<order, iter, next, micro, own, flat, cuQ, cuPos, rsPos, switch, rsOut, adamVars>>
  /\ loc' = Released

\* Sending the bucket queues one operation and makes it the pending one.
LEMMA SentFacts ==
  ASSUME ReduceFullBucket \/ ReduceLastBucket
  PROVE  \E o \in {rsQ'[Len(rsQ) + 1]} \cup {DivOp, CatOp(Locs(Bucket))} : SentBucket(o)
<1> DEFINE o == IF AsIs(Bucket) THEN DivOp ELSE CatOp(Locs(Bucket))
<1>1. /\ pc \in {"hook", "epilogue"} /\ pc' = (IF pc = "hook" THEN "hook" ELSE "sync")
      /\ ReduceIpg /\ UNCHANGED <<order, iter, next, micro, own, flat, cuQ, cuPos, rsPos, adamVars>>
  BY DEF ReduceFullBucket, ReduceLastBucket
<1>2. SentBucket(o)
  BY <1>1 DEF SentBucket, ReduceIpg, RsReady
<1> QED BY <1>2

\* The gradients of the bucket, in the order of their ids.
LEMMA BucketHeld ==
  ASSUME TypInv, BucketInv, NEW i \in 1 .. Len(Bucket)
  PROVE  loc[Bucket[i]] \in Places /\ loc[Bucket[i]].p = Bucket[i] /\ Held(loc[Bucket[i]], Len(rsQ))
<1>1. ipg \in Seq(Params) /\ IsInjective(ipg)
  BY DEF TypInv, BucketTypes
<1>2. PICK k \in 1 .. Len(ipg) : Bucket[i] = ipg[k]
  BY <1>1, BucketFacts
<1>3. Held(loc[ipg[k]], Len(rsQ))
  BY DEF BucketInv
<1> QED BY <1>2, <1>3, BucketPlaces

\* Sending the bucket keeps the invariant of the streams.
LEMMA SendData ==
  ASSUME LoopInv, TypInv, StreamInv, NEW o, SentBucket(o), odd' = {}
  PROVE  StreamInv'
<1>1. KernelsInv /\ CopiesInv /\ BucketInv /\ PendingInv
  BY DEF StreamInv
<1>2. /\ pc \in {"hook", "epilogue"} /\ pc' = (IF pc = "hook" THEN "hook" ELSE "sync")
      /\ ipg # <<>> /\ ipg' = <<>> /\ rsQ' = Append(rsQ, o) /\ o = IF AsIs(Bucket) THEN DivOp ELSE CatOp(Locs(Bucket))
      /\ UNCHANGED <<order, iter, next, own, flat, cuQ, cuPos, rsPos>>
  BY DEF SentBucket
<1>3. pc \in InGrad /\ pc' \in InGrad
  BY <1>2 DEF InGrad, InBackward
<1>4. QueueTypes
  BY <1>1, <1>3, QueueFacts
<1>5. Queued' = Queued /\ Base' = Base
  <2>1. Queued' = Queued
    BY <1>2 DEF Queued
  <2> QED BY <1>2, <2>1 DEF Base
<1>6. rsQ \in Seq(QueueOps) /\ rsPos \in Nat
  BY DEF TypInv, StreamTypes, Queue
<1>7. PICK m \in Nat : m = Len(rsQ)
  BY <1>6
<1>8. PICK ps \in Seq(Params) : ps = Bucket
  BY LocsType DEF TypInv
<1>9. /\ Locs(ps) \in Seq(Places) /\ Len(Locs(ps)) = Len(ps) /\ Len(ps) \in Nat \ {0}
      /\ \A k \in 1 .. Len(ps) : Locs(ps)[k] = loc[ps[k]]
  <2>1. ipg \in Seq(Params) /\ Len(ipg) # 0
    BY <1>2 DEF TypInv, BucketTypes
  <2>2. Locs(ps) \in Seq(Places) /\ Len(Locs(ps)) = Len(ps) /\ Len(ps) = Len(ipg)
    BY <1>8, LocsType DEF TypInv
  <2> QED BY <2>1, <2>2 DEF Locs
<1>10. o \in QueueOps /\ o.op \in {"div", "cat"} /\ (AsIs(ps) => o.op = "div")
       /\ (~ AsIs(ps) => o.op = "cat" /\ o.src = Locs(ps))
  <2>1. DivOp \in QueueOps /\ DivOp.op = "div"
    BY OpTypes DEF DivOp
  <2>2. CatOp(Locs(ps)) \in QueueOps /\ CatOp(Locs(ps)).op = "cat" /\ CatOp(Locs(ps)).src = Locs(ps)
    BY <1>9, OpTypes DEF CatOp
  <2> QED BY <1>2, <1>8, <2>1, <2>2
<1>11. Len(rsQ') = m + 1 /\ rsQ'[m + 1] = o /\ \A x \in 1 .. m : rsQ'[x] = rsQ[x]
  BY <1>2, <1>6, <1>7, <1>10
<1>12. Onward /\ Extended
  BY <1>2, <1>4, <1>5, <1>7, <1>11 DEF Onward, Extended, QueueTypes
<1>13. KernelsInv'
  <2>1. Len(cuQ') <= Queued'
    BY <1>1, <1>2, <1>3, <1>5 DEF KernelsInv
  <2>2. \A j \in 1 .. Queued' : IF Base' + j <= cuPos' THEN own'[order'[j]] = Gradient(order[j], iter)'
                                ELSE cuQ'[Base' + j - cuPos'] = <<order'[j], iter'>>
    BY <1>1, <1>2, <1>3, <1>5 DEF KernelsInv, Gradient
  <2>3. pc' \in InBackward \cup {"sync"} /\ pc' # "backward"
    BY <1>2 DEF InBackward
  <2> QED BY <1>3, <2>1, <2>2, <2>3 DEF KernelsInv
<1>14. CopiesInv'
  <2>1. ASSUME NEW i \in 1 .. Len(rsQ'), rsQ'[i].op = "copy" PROVE Made(rsQ[i].src[1].p, i - 1)'
    <3>1. i \in 1 .. Len(rsQ)
      BY <1>7, <1>10, <1>11, <2>1
    <3> QED BY <1>1, <1>4, <1>12, <2>1, <3>1, CopiesKept
  <2>2. pc' \in {"epilogue", "sync"} => ReachedAt(Base + Len(order), Len(rsQ))'
    BY <1>1, <1>2, <1>4, <1>12, LastKept DEF CopiesInv
  <2> QED BY <2>1, <2>2 DEF CopiesInv
<1>15. BucketInv'
  BY <1>2 DEF BucketInv
<1>16. /\ pending'.ps = ps /\ pending'.src = (IF AsIs(ps) THEN Locs(ps) ELSE <<>>) /\ pending'.direct = Contiguous(ps)
       /\ pending'.at = (IF Contiguous(ps) THEN GradOffset[ps[1]] ELSE 0)
       /\ pending'.pos = rsPos + (m + 1) /\ pending'.done = FALSE
  BY <1>2, <1>8, <1>11 DEF SentBucket
<1>17. pending' # NoRs /\ ps # <<>>
  BY <1>9, <1>16 DEF NoRs
<1>18. Ahead' = m + 1
  BY <1>2, <1>6, <1>16 DEF Ahead
<1>19. NoCat
  BY <1>1 DEF PendingInv, SentBucket
<1>20. ASSUME NEW k \in 1 .. Len(ps), NEW n \in Nat, m <= n, n <= m + 1
       PROVE  Held(loc[ps[k]], m) /\ \A l \in Places : l = loc[ps[k]] => Held(l, n)'
  <2>1. loc[ps[k]] \in Places /\ Held(loc[ps[k]], m)
    BY <1>1, <1>7, <1>8, BucketHeld
  <2>2. ASSUME NEW l \in Places, l = loc[ps[k]] PROVE Held(l, n)'
    <3>1. Held(l, m)
      BY <2>1, <2>2
    <3>2. \A x \in m + 1 .. n : rsQ'[x].op = "copy" => Apart(l, rsQ'[x].src[1])
      <4> SUFFICES ASSUME NEW x \in m + 1 .. n PROVE rsQ'[x].op # "copy"
        OBVIOUS
      <4>1. x = m + 1
        BY <1>20
      <4> QED BY <1>10, <1>11, <4>1
    <3> QED BY <1>2, <1>4, <1>11, <1>12, <1>20, <3>1, <3>2, HeldKept
  <2> QED BY <2>1, <2>2
<1>21. PendingTypes'
  <2>1. Increasing(ps)
    <3>1. ipg \in Seq(Params) /\ IsInjective(ipg)
      BY DEF TypInv, BucketTypes
    <3> QED BY <1>8, <3>1, BucketFacts DEF Increasing
  <2>2. Contiguous(ps) \in BOOLEAN
    BY DEF Contiguous
  <2>3. pc' \in {"sync", "step", "flush"} => Contiguous(ps)
    BY <1>2, <1>8 DEF SentBucket
  <2>4. (Contiguous(pending.ps)' <=> Contiguous(ps)) /\ (Increasing(pending.ps)' <=> Increasing(ps))
    BY <1>16 DEF Contiguous, Increasing
  <2>5. pending'.direct = Contiguous(pending.ps)'
    BY <1>16, <2>2, <2>4
  <2>6. pending'.direct => pending'.at = GradOffset[ps[1]]
    BY <1>16
  <2>7. pending'.ps \in Seq(Params) /\ pending'.ps # <<>> /\ Increasing(pending.ps)'
    BY <1>16, <1>17, <2>1, <2>4
  <2>8. pending'.done \in BOOLEAN /\ pending'.pos \in Nat
    <3>1. pending'.done \in BOOLEAN
      <4>1. FALSE \in BOOLEAN
        OBVIOUS
      <4>2. pending'.done = FALSE
        BY <1>16
      <4> QED BY ONLY <4>1, <4>2, Zenon
    <3>2. pending'.pos = rsPos + (m + 1)
      BY <1>16
    <3> QED BY <1>6, <3>1, <3>2
  <2>9. pending'.direct => pending'.at = GradOffset[pending'.ps[1]]
    BY <1>16, <2>6
  <2>10. pc' \in {"sync", "step", "flush"} => pending'.direct
    BY <1>16, <2>3
  <2>11. DOMAIN pending' = DOMAIN NoRs
    BY DEF SentBucket, NoRs
  <2> QED BY <2>5, <2>7, <2>8, <2>9, <2>10, <2>11 DEF PendingTypes
<1>22. ASSUME AsIs(ps) PROVE SentOne(ps)'
  <2>1. Len(ps) = 1 /\ 1 \in 1 .. Len(ps)
    BY <1>22, AsIsFacts
  <2>2. PICK l \in Places : l = loc[ps[1]] /\ l.p = ps[1]
    BY <1>1, <1>8, <2>1, BucketHeld
  <2>3. pending'.src = Locs(ps) /\ Locs(ps)[1] = l
    BY <1>9, <1>16, <1>22, <2>1, <2>2
  <2>4. PICK n \in Nat : n = m + 1
    OBVIOUS
  <2>5. Held(l, n)' /\ n = Ahead'
    BY <1>18, <1>20, <2>1, <2>2, <2>4
  <2>6. NoCat'
    <3> SUFFICES ASSUME NEW x \in 1 .. m + 1 PROVE rsQ'[x].op # "cat"
      BY <1>11 DEF NoCat
    <3>1. CASE x = m + 1
      BY <1>10, <1>11, <1>22, <3>1
    <3>2. CASE x # m + 1
      BY <1>7, <1>11, <1>19, <3>2 DEF NoCat
    <3> QED BY <3>1, <3>2
  <2>7. \A x \in Ahead' + 1 .. Len(rsQ') : FALSE
    BY <1>11, <1>18
  <2>8. l = pending'.src[1] /\ pending'.src \in Seq(Places) /\ Len(pending'.src) = 1
    BY <1>9, <2>1, <2>3
  <2> QED BY <2>2, <2>5, <2>6, <2>7, <2>8 DEF SentOne
<1>23. ASSUME ~ AsIs(ps) PROVE SentMany(ps)'
  <2>1. pending'.src = <<>>
    BY <1>16, <1>23
  <2>2. \A i \in 1 .. Len(rsQ') : rsQ'[i].op = "cat" => i = Ahead'
    <3> SUFFICES ASSUME NEW i \in 1 .. m + 1, i # m + 1 PROVE rsQ'[i].op # "cat"
      BY <1>11, <1>18
    <3> QED BY <1>7, <1>11, <1>19 DEF NoCat
  <2>3. rsQ'[Ahead'].op = "cat" /\ rsQ'[Ahead'].src = Locs(ps) /\ Len(Locs(ps)) = Len(ps)
    BY <1>9, <1>10, <1>11, <1>18, <1>23
  <2>4. ASSUME NEW k \in 1 .. Len(ps)
        PROVE  rsQ'[Ahead'].src[k].p = ps[k] /\ Held(rsQ[Ahead].src[k], Ahead - 1)'
    <3>1. PICK l \in Places : l = loc[ps[k]] /\ l.p = ps[k]
      BY <1>1, <1>8, BucketHeld
    <3>2. Held(l, m)'
      <4>1. m \in Nat /\ m <= m /\ m <= m + 1
        OBVIOUS
      <4> QED BY <1>20, <3>1, <4>1
    <3>3. l = rsQ'[Ahead'].src[k] /\ m = Ahead' - 1
      BY <1>9, <1>18, <2>3, <3>1
    <3> QED BY <3>1, <3>2, <3>3
  <2>5. Ahead' # 0
    BY <1>18
  <2> QED BY <2>1, <2>2, <2>3, <2>4, <2>5 DEF SentMany
<1>24. SentInv(ps)'
  <2>1. AsIs(ps)' <=> AsIs(ps)
    BY DEF AsIs
  <2>2. Ahead' <= Len(rsQ')
    BY <1>11, <1>18
  <2> QED BY <1>22, <1>23, <2>1, <2>2 DEF SentInv
<1>25. PendingInv'
  <2>1. SentInv(pending.ps)'
    BY <1>16, <1>24
  <2> QED BY <1>16, <1>17, <1>21, <2>1 DEF PendingInv
<1> QED BY <1>13, <1>14, <1>15, <1>25 DEF StreamInv

-----------------------------------------------------------------------------
(* The DPU reduces and scatters *)

\* Where the shard of a parameter is in the result, and in gradPart.
LEMMA ScatteredPlaces ==
  ASSUME NEW ps \in Seq(Params), NEW i \in 1 .. Len(ps), NEW j \in 1 .. ViewNumel[ps[i]]
  PROVE  /\ ps[i] \in Params /\ ViewOffset(ps, i) \in Nat /\ j \in Nat \ {0} /\ SumPart(ps) \in Nat
         /\ ViewOffset(ps, i) + j \in 1 .. SumPart(ps) /\ ViewOffset(ps, i) + ViewNumel[ps[i]] <= SumPart(ps)
         /\ GradOffset[ps[i]] \in Nat /\ GradOffset[ps[i]] + j \in 1 .. SumPart(AllParams)
<1>1. ps[i] \in Params
  OBVIOUS
<1>2. ViewOffset(ps, i) = PartOffset(ps, i)
  BY Weights DEF ViewOffset, PartOffset, SumPart
<1>3. /\ PartOffset(ps, i) \in Nat /\ PartNumel[ps[i]] \in Nat /\ SumPart(ps) \in Nat
      /\ PartOffset(ps, i) + PartNumel[ps[i]] <= SumPart(ps)
  BY PartOffsetFacts
<1>4. ViewNumel[ps[i]] \in 0 .. PartNumel[ps[i]]
  BY <1>1, ViewFacts
<1>5. GradOffset[ps[i]] \in Nat /\ GradOffset[ps[i]] + PartNumel[ps[i]] <= SumPart(AllParams)
  BY <1>1, GradOffsetFacts
<1>6. SumPart(AllParams) \in Nat
  BY AllParamsFacts, SumPartIs
<1>7. j \in Nat \ {0} /\ j <= ViewNumel[ps[i]]
  BY <1>4
<1>8. PICK m \in Nat : m = PartNumel[ps[i]]
  BY <1>3
<1>9. PICK a \in Nat : a = PartOffset(ps, i) /\ a + m <= SumPart(ps)
  BY <1>3, <1>8
<1>10. PICK b \in Nat : b = GradOffset[ps[i]] /\ b + m <= SumPart(AllParams)
  BY <1>5, <1>8
<1>11. PICK v \in Nat : v = ViewNumel[ps[i]] /\ v <= m /\ j <= v
  BY <1>4, <1>7, <1>8
<1>12. PICK s \in Nat : s = SumPart(ps)
  BY <1>3
<1>13. PICK t \in Nat : t = SumPart(AllParams)
  BY <1>6
<1>14. a + m <= s /\ b + m <= t /\ v <= m /\ j <= v /\ j \in Nat \ {0}
  BY <1>7, <1>9, <1>10, <1>11, <1>12, <1>13
<1>15. a + j \in 1 .. s /\ a + v <= s /\ b + j \in 1 .. t
  <2>1. a \in Nat /\ b \in Nat /\ m \in Nat /\ v \in Nat /\ s \in Nat /\ t \in Nat
    OBVIOUS
  <2> QED BY ONLY <1>14, <2>1
<1> QED BY <1>1, <1>2, <1>7, <1>9, <1>10, <1>11, <1>12, <1>13, <1>15

\* Behind the reduce stream, it reads the gradients of the iteration.
LEMMA ReadsReduction ==
  ASSUME LoopInv, TypInv, StreamInv, DpuReduceScatter, odd' = {}
  PROVE  RsInput = Reduction(pending.ps) /\ NoCat /\ PendingTypes /\ pc \in InGrad
<1>1. KernelsInv /\ CopiesInv /\ BucketInv /\ PendingInv
  BY DEF StreamInv
<1>2. pending # NoRs /\ ~ pending.done /\ rsPos >= pending.pos
  <2>1. rsPos >= pending.pos
    <3>1. odd' = IF rsPos >= pending.pos THEN odd ELSE odd \cup {"early"}
      BY DEF DpuReduceScatter
    <3> QED BY <3>1
  <2> QED BY <2>1 DEF DpuReduceScatter
<1>3. pc \in InGrad
  BY <1>1, <1>2 DEF KernelsInv
<1>4. PendingTypes /\ SentInv(pending.ps)
  BY <1>1, <1>2 DEF PendingInv
<1>5. Ahead = 0
  <2>1. pending.pos \in Nat /\ rsPos \in Nat
    BY <1>4 DEF PendingTypes, TypInv, StreamTypes
  <2> QED BY <1>2, <2>1 DEF Ahead
<1>6. PICK ps \in Seq(Params) : ps = pending.ps /\ ps # <<>>
  BY <1>4 DEF PendingTypes
<1>7. CASE AsIs(ps)
  <2>1. SentOne(ps) /\ Held(pending.src[1], 0)
    BY <1>4, <1>5, <1>6, <1>7 DEF SentInv, SentOne
  <2>2. PICK l \in Places : l = pending.src[1] /\ l.p = ps[1] /\ pending.src # <<>>
    BY <2>1 DEF SentOne
  <2>3. Read(l) = Gradient(l.p, iter)
    BY <1>1, <1>3, <2>1, <2>2, HeldRead
  <2>4. RsInput = Gradient(ps[1], iter)
    BY <2>2, <2>3 DEF RsInput
  <2>5. Reduction(ps) = Gradient(ps[1], iter)
    <3>1. DOMAIN ps = 1 .. 1
      BY <1>7, AsIsFacts
    <3> QED BY <1>7, <3>1 DEF Reduction
  <2> QED BY <1>3, <1>4, <1>6, <2>1, <2>4, <2>5 DEF SentOne
<1>8. CASE ~ AsIs(ps)
  <2>1. SentMany(ps)
    BY <1>4, <1>6, <1>8 DEF SentInv
  <2>2. RsInput = Reduction(ps)
    BY <1>5, <2>1 DEF SentMany, RsInput
  <2>3. NoCat
    BY <1>5, <2>1 DEF SentMany, NoCat
  <2> QED BY <1>3, <1>4, <1>6, <2>2, <2>3
<1> QED BY <1>7, <1>8

\* The reduce-scatter of the DPU keeps the invariant of the streams.
LEMMA DpuData ==
  ASSUME LoopInv, TypInv, StreamInv, DpuReduceScatter, odd' = {}
  PROVE  StreamInv'
<1>1. KernelsInv /\ CopiesInv /\ BucketInv /\ PendingInv
  BY DEF StreamInv
<1>2. PICK out \in {ReduceScattered(RsInput)} :
        /\ out = ReduceScattered(RsInput)
        /\ pending.direct => gradPart' = [c \in DOMAIN gradPart |->
              IF c - pending.at \in 1 .. Len(out) THEN out[c - pending.at] ELSE gradPart[c]]
        /\ ~ pending.direct => rsOut' = out
  BY DEF DpuReduceScatter
<1>3. /\ pending # NoRs /\ pending' = [pending EXCEPT !.done = TRUE]
      /\ UNCHANGED <<pc, order, iter, next, ipg, loc, own, flat, cat, cuQ, cuPos, rsQ, rsPos>>
  BY DEF DpuReduceScatter, bucketVars, streamVars
<1>4. RsInput = Reduction(pending.ps) /\ NoCat /\ PendingTypes /\ pc \in InGrad
  BY ReadsReduction
<1>5. PICK ps \in Seq(Params) : ps = pending.ps /\ ps # <<>> /\ Increasing(ps)
  BY <1>4 DEF PendingTypes
<1>6. ScatterIs(out, ps)
  <2>1. iter \in Nat
    BY DEF LoopInv, CtlTypes
  <2> QED BY <1>2, <1>4, <1>5, <2>1, ReductionScattered
<1>7. /\ pending'.ps = ps /\ pending'.done = TRUE /\ pending'.pos = pending.pos /\ pending'.src = pending.src
      /\ pending'.direct = pending.direct /\ pending'.at = pending.at /\ DOMAIN pending' = DOMAIN pending
  <2>1. DOMAIN pending = {"ps", "src", "direct", "at", "pos", "done"}
    BY <1>4 DEF PendingTypes, NoRs
  <2> QED BY <1>3, <1>5, <2>1
<1>8. Base' = Base /\ Queued' = Queued
  BY <1>3 DEF Base, Queued
<1>9. KernelsInv'
  <2>1. \A j \in 1 .. Queued' : IF Base' + j <= cuPos' THEN own'[order'[j]] = Gradient(order[j], iter)'
                                ELSE cuQ'[Base' + j - cuPos'] = <<order'[j], iter'>>
    BY <1>1, <1>3, <1>4, <1>8 DEF KernelsInv, Gradient
  <2> QED BY <1>1, <1>3, <1>4, <1>8, <2>1 DEF KernelsInv
<1>10. CopiesInv'
  BY <1>1, <1>3, <1>8 DEF CopiesInv, Made, ReachedAt
<1>11. BucketInv'
  BY <1>1, <1>3, <1>8 DEF BucketInv, Held, Made, ReachedAt, CopiedAt, Clear, InFlat, Apart, SumNumel
<1>12. PendingTypes'
  <2>1. pending'.done \in BOOLEAN
    BY <1>7, Zenon
  <2>2. (Contiguous(pending.ps)' <=> Contiguous(ps)) /\ (Increasing(pending.ps)' <=> Increasing(ps))
    BY <1>7 DEF Contiguous, Increasing
  <2> QED BY <1>3, <1>4, <1>5, <1>7, <2>1, <2>2 DEF PendingTypes
<1>13. ScatteredInv(pending.ps)'
  <2>1. CASE pending.direct
    <3>1. Contiguous(ps) /\ pending.at = GradOffset[ps[1]] /\ GradOffset[ps[1]] \in Nat
      <4>1. Contiguous(ps) /\ pending.at = GradOffset[ps[1]]
        BY <1>4, <1>5, <2>1 DEF PendingTypes
      <4> QED BY <1>5, <4>1, ContiguousFacts
    <3>2. ASSUME NEW i \in 1 .. Len(ps), NEW j \in 1 .. ViewNumel[ps[i]]
          PROVE  gradPart'[GradOffset[ps[i]] + j] = CellOf(ps[i], j, iter)
      <4>1. /\ ViewOffset(ps, i) \in Nat /\ j \in Nat \ {0} /\ ViewOffset(ps, i) + j \in 1 .. SumPart(ps)
            /\ GradOffset[ps[i]] \in Nat /\ GradOffset[ps[i]] + j \in 1 .. SumPart(AllParams)
        BY ScatteredPlaces
      <4>2. pending.at + ViewOffset(ps, i) = GradOffset[ps[i]]
        BY <1>5, <3>1, ContiguousFacts
      <4>3. PICK a \in Nat : a = pending.at
        BY <3>1
      <4>4. PICK v \in Nat : v = ViewOffset(ps, i)
        BY <4>1
      <4>5. PICK c \in DOMAIN gradPart : c = GradOffset[ps[i]] + j
        BY <4>1 DEF TypInv
      <4>6. PICK d \in 1 .. Len(out) : d = v + j /\ out[d] = CellOf(ps[i], j, iter)
        <5>1. Len(out) = SumPart(ps) /\ out[ViewOffset(ps, i) + j] = CellOf(ps[i], j, iter)
          BY <1>6 DEF ScatterIs
        <5> QED BY <4>1, <4>4, <5>1
      <4>7. c - a = d
        <5>1. c = a + v + j
          BY <4>2, <4>3, <4>4, <4>5
        <5>2. j \in Nat
          BY <4>1
        <5> QED BY ONLY <4>3, <4>4, <4>6, <5>1, <5>2
      <4>8. gradPart'[c] = out[d]
        BY <1>2, <2>1, <4>3, <4>7
      <4> QED BY <4>5, <4>6, <4>8
    <3>3. \A i \in 1 .. Len(ps) : \A j \in 1 .. ViewNumel[ps[i]] : gradPart'[GradOffset[ps[i]] + j] = CellOf(ps[i], j, iter)'
      BY <1>3, <3>2 DEF CellOf
    <3> QED BY <1>7, <2>1, <3>3 DEF ScatteredInv
  <2>2. CASE ~ pending.direct
    <3>1. rsOut' = out
      BY <1>2, <2>2
    <3>2. ScatterIs(rsOut, pending.ps)'
      BY <1>3, <1>6, <1>7, <3>1 DEF ScatterIs, CellOf
    <3> QED BY <1>7, <2>2, <3>2 DEF ScatteredInv
  <2> QED BY <2>1, <2>2
<1>14. PendingInv'
  <2>1. pending' # NoRs
    BY <1>7 DEF NoRs
  <2>2. NoCat'
    BY <1>3, <1>4 DEF NoCat
  <2> QED BY <1>7, <1>12, <1>13, <2>1, <2>2 DEF PendingInv
<1> QED BY <1>9, <1>10, <1>11, <1>14 DEF StreamInv

-----------------------------------------------------------------------------
(* Between two backward passes the streams are idle *)

\* The steps of the host outside the backward pass keep it.
LEMMA IdleData ==
  ASSUME LoopInv, TypInv, StreamInv,
         StartAdam \/ BeginIteration \/ PartitionAll \/ Step \/ UpdateNewParams \/ StopAdam \/ JoinAdam
  PROVE  StreamInv'
<1>1. KernelsInv
  BY DEF StreamInv
<1>2. /\ pc \notin InBackward \cup {"sync"} /\ UNCHANGED <<order, cuQ, rsQ, ipg>>
      /\ \/ pc \notin InGrad /\ pending' = pending /\ (pc' \notin InGrad \/ (pc' = "backward" /\ next' = 1))
         \/ pending' = NoRs /\ pc' \in {"update", "groups"}
  BY DEF StartAdam, BeginIteration, PartitionAll, Step, StepBegin, StepSubGroup, StepEnd, UpdateNewParams, StopAdam, JoinAdam,
         Flush, InGrad, InBackward, bucketVars, resultVars, streamVars
<1>3. cuQ' = <<>> /\ rsQ' = <<>> /\ pending' = NoRs
  BY <1>1, <1>2 DEF KernelsInv
<1>4. ipg' = <<>>
  BY <1>2 DEF TypInv, BucketTypes
<1>5. pc' \notin InGrad \/ (pc' = "backward" /\ next' = 1)
  BY <1>2 DEF InGrad, InBackward
<1>6. Len(cuQ') = 0 /\ Len(rsQ') = 0 /\ Len(ipg') = 0
  BY <1>3, <1>4
<1>7. KernelsInv'
  <2>1. pc' \in InGrad => Queued' = 0
    BY <1>5 DEF Queued
  <2>2. pc' = "backward" => next' <= Len(order')
    <3>1. pc' = "backward" => next' = 1
      BY <1>5 DEF InGrad, InBackward
    <3>2. Len(order) \in Nat \ {0}
      <4>1. order \in Orders
        BY DEF TypInv, BucketTypes
      <4>2. Len(order) = Cardinality(Params)
        BY <4>1, ReduceAssumption
      <4>3. Cardinality(Params) \in Nat \ {0}
        BY LayoutAssumption, FS_CardinalityType, FS_EmptySet
      <4> QED BY <4>2, <4>3
    <3> QED BY <1>2, <3>1, <3>2
  <2>3. \A j \in 1 .. 0 : FALSE
    OBVIOUS
  <2> QED BY <1>3, <1>6, <2>1, <2>2, <2>3 DEF KernelsInv
<1>8. CopiesInv' /\ BucketInv' /\ PendingInv'
  <2>1. \A i \in 1 .. 0 : FALSE
    OBVIOUS
  <2>2. pc' \notin {"epilogue", "sync"}
    BY <1>5 DEF InGrad, InBackward
  <2> QED BY <1>3, <1>6, <2>1, <2>2 DEF CopiesInv, BucketInv, PendingInv, NoCat
<1> QED BY <1>7, <1>8 DEF StreamInv

\* The worker, and a step that changes nothing.
LEMMA AdamData ==
  ASSUME StreamInv, Adam \/ UNCHANGED vars
  PROVE  StreamInv'
<1>1. UNCHANGED <<pc, order, iter, next, ipg, loc, pending, gradPart, rsOut, own, flat, cat, cuQ, cuPos, rsQ, rsPos>>
  BY DEF vars, Adam, AdamReady, AdamCommand, AdamSubGroup, AdamDone, hostVars, bucketVars, resultVars, streamVars
<1>2. Queued' = Queued /\ Base' = Base /\ Ahead' = Ahead
  BY <1>1 DEF Queued, Base, Ahead
<1>3. KernelsInv'
  BY <1>1, <1>2 DEF StreamInv, KernelsInv, Gradient
<1>4. CopiesInv'
  BY <1>1, <1>2 DEF StreamInv, CopiesInv, Made, ReachedAt
<1>5. BucketInv'
  BY <1>1, <1>2 DEF StreamInv, BucketInv, Held, Made, ReachedAt, CopiedAt, Clear, InFlat, Apart, SumNumel
<1>6. PendingInv'
  <2>1. NoCat' <=> NoCat
    BY <1>1 DEF NoCat
  <2>2. SentOne(pending.ps) => SentOne(pending.ps)'
    BY <1>1, <1>2, <2>1 DEF SentOne, Held, Made, ReachedAt, CopiedAt, Clear, InFlat, Apart
  <2>8. \A k \in 1 .. Len(pending.ps) : Held(rsQ[Ahead].src[k], Ahead - 1) => Held(rsQ[Ahead].src[k], Ahead - 1)'
    BY <1>1, <1>2 DEF Held, Made, ReachedAt, CopiedAt, Clear, InFlat, Apart
  <2>9. Reduction(pending.ps)' = Reduction(pending.ps)
    BY <1>1 DEF Reduction, AsIs, Gradient
  <2>3. SentMany(pending.ps) => SentMany(pending.ps)'
    BY <1>1, <1>2, <2>8, <2>9 DEF SentMany
  <2>4. AsIs(pending.ps)' <=> AsIs(pending.ps)
    BY <1>1 DEF AsIs
  <2>5. SentInv(pending.ps) => SentInv(pending.ps)'
    BY <1>1, <1>2, <2>2, <2>3, <2>4 DEF SentInv
  <2>6. ScatteredInv(pending.ps) => ScatteredInv(pending.ps)'
    BY <1>1 DEF ScatteredInv, ScatterIs, CellOf
  <2>7. PendingTypes => PendingTypes'
    BY <1>1 DEF PendingTypes, Contiguous, Increasing
  <2> QED BY <1>1, <2>1, <2>5, <2>6, <2>7 DEF StreamInv, PendingInv
<1> QED BY <1>3, <1>4, <1>5, <1>6 DEF StreamInv

\* What the streams have still to do, in every step.
LEMMA StreamNext ==
  ASSUME LoopInv, TypInv, StreamInv, [Next]_vars, odd' = {}
  PROVE  StreamInv'
<1>1. CASE Host
  <2>1. CASE ReduceFullBucket \/ ReduceLastBucket
    <3>1. PICK o \in {rsQ'[Len(rsQ) + 1]} \cup {DivOp, CatOp(Locs(Bucket))} : SentBucket(o)
      BY <2>1, SentFacts
    <3> QED BY <3>1, SendData
  <2>2. CASE ~ (ReduceFullBucket \/ ReduceLastBucket)
    BY <1>1, <2>2, IdleData, KernelData, AddData, SyncData DEF Host
  <2> QED BY <2>1, <2>2
<1>2. CASE ComputeStream
  BY <1>2, ComputeData
<1>3. CASE ReduceStream
  BY <1>3, ReduceStreamData
<1>4. CASE DpuReduceScatter
  BY <1>4, DpuData
<1>5. CASE Adam \/ UNCHANGED vars
  BY <1>5, AdamData
<1> QED BY <1>1, <1>2, <1>3, <1>4, <1>5 DEF Next

-----------------------------------------------------------------------------
(* The result of a reduce-scatter goes to the bank *)

\* The parameter of the pending reduce-scatter a cell of a sub-group belongs to.
Hit(g, c, i) == GroupOf[pending.ps[i]] = g /\ c - GradPosition[pending.ps[i]] \in 1 .. ViewNumel[pending.ps[i]]
HitPart(g, c) == CHOOSE i \in ToPartition : Hit(g, c, i)
CellAfter(b, g, c) ==
  IF b = switch /\ \E i \in ToPartition : Hit(g, c, i)
  THEN Stored(pending.ps[HitPart(g, c)], HitPart(g, c), c - GradPosition[pending.ps[HitPart(g, c)]])
  ELSE bank[b][g][c]

\* What __partition_grads makes of the banks.
LEMMA PartitionedBank ==
  ASSUME BankShape, PartitionGrads, switch \in {0, 1}
  PROVE  /\ BankShape'
         /\ \A b \in {0, 1} : \A g \in Groups : \A c \in 1 .. GroupNumel[g] : bank'[b][g][c] = CellAfter(b, g, c)
<1>1. bank' = [bank EXCEPT ![switch] = [g \in Groups |-> [c \in DOMAIN bank[switch][g] |-> CellAfter(switch, g, c)]]]
  BY DEF PartitionGrads, CellAfter, HitPart, Hit
<1>2. DOMAIN bank = {0, 1} /\ \A b \in {0, 1} : DOMAIN bank[b] = Groups /\ \A g \in Groups : DOMAIN bank[b][g] = 1 .. GroupNumel[g]
  BY DEF BankShape
<1>3. \A b \in {0, 1} : b # switch => \A g, c : CellAfter(b, g, c) = bank[b][g][c]
  BY DEF CellAfter
<1>4. bank' = [b \in {0, 1} |-> [g \in Groups |-> [c \in 1 .. GroupNumel[g] |-> CellAfter(b, g, c)]]]
  <2>1. ASSUME NEW b \in {0, 1} PROVE bank'[b] = [g \in Groups |-> [c \in 1 .. GroupNumel[g] |-> CellAfter(b, g, c)]]
    <3>1. CASE b = switch
      BY <1>1, <1>2, <3>1
    <3>2. CASE b # switch
      <4>1. bank'[b] = bank[b]
        BY <1>1, <1>2, <3>2
      <4>2. bank[b] = [g \in Groups |-> [c \in 1 .. GroupNumel[g] |-> bank[b][g][c]]]
        BY DEF BankShape
      <4> QED BY <1>3, <3>2, <4>1, <4>2
    <3> QED BY <3>1, <3>2
  <2>2. DOMAIN bank' = {0, 1} /\ bank' = [b \in DOMAIN bank' |-> bank'[b]]
    BY <1>1, <1>2
  <2> QED BY <2>1, <2>2
<1> QED BY <1>4 DEF BankShape

\* The cells of p in the buffer of its sub-group.
LEMMA CellPlaces ==
  ASSUME NEW p \in Params, NEW j \in 1 .. ViewNumel[p]
  PROVE  /\ GroupOf[p] \in Groups /\ GradPosition[p] \in Nat /\ j \in Nat
         /\ GradPosition[p] + j \in 1 .. GroupNumel[GroupOf[p]] /\ GradPosition[p] + j - GradPosition[p] = j
<1>1. GroupOf[p] \in Groups /\ SubGroups[GroupOf[p]] \in Seq(Params)
  BY PositionFacts
<1>2. /\ GradPosition[p] \in Nat /\ PartNumel[p] \in Nat
      /\ GradPosition[p] + PartNumel[p] <= SumPart(SubGroups[GroupOf[p]])
  BY GradPositionFacts
<1>3. j \in 1 .. PartNumel[p]
  BY ShardNotEmpty
<1>4. SumPart(SubGroups[GroupOf[p]]) \in Nat /\ GroupNumel[GroupOf[p]] = SumPart(SubGroups[GroupOf[p]])
  BY <1>1, SumPartIs DEF GroupNumel
<1> QED BY <1>1, <1>2, <1>3, <1>4

\* A cell belongs to one parameter.
LEMMA HitOnlyOwn ==
  ASSUME pending.ps \in Seq(Params), NEW p \in Params, NEW j \in 1 .. ViewNumel[p],
         NEW i \in 1 .. Len(pending.ps), Hit(GroupOf[p], GradPosition[p] + j, i)
  PROVE  pending.ps[i] = p
<1>1. PICK q \in Params : q = pending.ps[i]
  OBVIOUS
<1>2. GroupOf[q] = GroupOf[p] /\ (GradPosition[p] + j) - GradPosition[q] \in 1 .. ViewNumel[q]
  <2>1. GroupOf[pending.ps[i]] = GroupOf[p] /\ (GradPosition[p] + j) - GradPosition[pending.ps[i]] \in 1 .. ViewNumel[pending.ps[i]]
    BY Zenon DEF Hit
  <2> QED BY <1>1, <2>1
<1>3. PICK k \in 1 .. ViewNumel[q] : k = (GradPosition[p] + j) - GradPosition[q]
  BY <1>2
<1>4. j \in 1 .. PartNumel[p] /\ k \in 1 .. PartNumel[q]
  BY ShardNotEmpty
<1>5. ASSUME q # p PROVE FALSE
  <2>1. PICK a \in Nat : a = GradPosition[p]
    BY GradPositionFacts
  <2>2. PICK b \in Nat : b = GradPosition[q]
    BY GradPositionFacts
  <2>3. PICK m \in Nat : m = PartNumel[p]
    BY GradPositionFacts
  <2>4. PICK n \in Nat : n = PartNumel[q]
    BY GradPositionFacts
  <2>5. a + m <= b \/ b + n <= a
    BY <1>2, <1>5, <2>1, <2>2, <2>3, <2>4, GradPositionFacts
  <2>6. k = a + j - b /\ j \in 1 .. m /\ k \in 1 .. n
    BY <1>3, <1>4, <2>1, <2>2, <2>3, <2>4
  <2>7. a \in Nat /\ b \in Nat /\ m \in Nat /\ n \in Nat
    OBVIOUS
  <2> QED BY ONLY <2>5, <2>6, <2>7
<1> QED BY <1>1, <1>5

\* What __partition_grads stores is the shard of the reduced gradient.
LEMMA StoredExact ==
  ASSUME PendingTypes, ScatteredInv(pending.ps), pending.direct \/ micro = 0,
         NEW i \in 1 .. Len(pending.ps), NEW p \in Params, pending.ps[i] = p, NEW j \in 1 .. ViewNumel[p]
  PROVE  Stored(p, i, j) = CellOf(p, j, iter)
<1>1. PICK ps \in Seq(Params) : ps = pending.ps /\ ps # <<>> /\ Increasing(ps)
  BY DEF PendingTypes
<1>2. i \in 1 .. Len(ps) /\ ps[i] = p
  BY <1>1
<1>3. CASE pending.direct
  <2>1. Contiguous(ps) /\ pending.at = GradOffset[ps[1]]
    BY <1>1, <1>3 DEF PendingTypes
  <2>2. pending.at + ViewOffset(ps, i) = GradOffset[ps[i]]
    BY <1>1, <1>2, <2>1, ContiguousFacts
  <2>3. SameBuffer(i)
    BY <1>1, <1>3, <2>2 DEF SameBuffer
  <2>4. gradPart[GradOffset[p] + j] = CellOf(p, j, iter)
    BY <1>1, <1>2, <1>3 DEF ScatteredInv
  <2> QED BY <2>3, <2>4 DEF Stored
<1>4. CASE ~ pending.direct
  <2>1. micro = 0 /\ ~ SameBuffer(i)
    BY <1>4 DEF SameBuffer
  <2>2. ScatterIs(rsOut, ps)
    BY <1>1, <1>4 DEF ScatteredInv
  <2>3. ViewOffset(ps, i) \in Nat /\ ViewNumel[p] \in Nat /\ ViewOffset(ps, i) + ViewNumel[p] <= SumPart(ps)
    <3>1. ViewNumel[p] \in Nat
      BY ViewFacts, Weights
    <3> QED BY <1>2, <3>1, ScatteredPlaces
  <2>4. rsOut \in Seq(Cells) /\ Fits(rsOut, ViewOffset(ps, i), ViewNumel[p])
    BY <2>2, <2>3 DEF ScatterIs, Fits
  <2>5. Narrow(rsOut, ViewOffset(ps, i), ViewNumel[p])[j] = rsOut[ViewOffset(ps, i) + j]
    <3>1. PICK o \in Nat : o = ViewOffset(ps, i)
      BY <2>3
    <3>2. PICK n \in Nat : n = ViewNumel[p]
      BY <2>3
    <3>3. Narrow(rsOut, o, n)[j] = rsOut[o + j]
      <4>1. rsOut \in Seq(Cells) /\ Fits(rsOut, o, n) /\ j \in 1 .. n
        BY <2>4, <3>1, <3>2
      <4> QED BY <4>1, NarrowFacts
    <3> QED BY <3>1, <3>2, <3>3
  <2>6. View(i) = Narrow(rsOut, ViewOffset(ps, i), ViewNumel[p])
    <3>1. View(i) = Narrow(rsOut, 0 + ViewOffset(ps, i), ViewNumel[p])
      BY <1>1, <1>2, <1>4 DEF View
    <3>2. 0 + ViewOffset(ps, i) = ViewOffset(ps, i)
      BY <2>3
    <3> QED BY <3>1, <3>2
  <2>7. rsOut[ViewOffset(ps, i) + j] = CellOf(p, j, iter)
    BY <1>2, <2>2 DEF ScatterIs
  <2> QED BY <2>1, <2>5, <2>6, <2>7 DEF Stored
<1> QED BY <1>3, <1>4

\* The parts of the parameters that are not in the pending reduce-scatter, and the other bank, stay.
LEMMA PartKept ==
  ASSUME BankShape, PartitionGrads, switch \in {0, 1}, pending.ps \in Seq(Params),
         NEW b \in {0, 1}, NEW p \in Params, NEW k, PartExact(b, p, k), b # switch \/ ~ Within(pending.ps, p)
  PROVE  PartExact(b, p, k)'
<1>1. ASSUME NEW j \in 1 .. ViewNumel[p] PROVE bank'[b][GroupOf[p]][GradPosition[p] + j] = CellOf(p, j, k)
  <2>1. GroupOf[p] \in Groups /\ GradPosition[p] + j \in 1 .. GroupNumel[GroupOf[p]]
    BY CellPlaces
  <2>2. bank'[b][GroupOf[p]][GradPosition[p] + j] = CellAfter(b, GroupOf[p], GradPosition[p] + j)
    BY <2>1, PartitionedBank
  <2>3. ASSUME b = switch, NEW i \in ToPartition, Hit(GroupOf[p], GradPosition[p] + j, i) PROVE FALSE
    <3>1. i \in 1 .. Len(pending.ps)
      BY DEF ToPartition
    <3>2. pending.ps[i] = p
      BY <2>3, <3>1, HitOnlyOwn
    <3> QED BY <2>3, <3>1, <3>2 DEF Within
  <2>4. CellAfter(b, GroupOf[p], GradPosition[p] + j) = bank[b][GroupOf[p]][GradPosition[p] + j]
    BY <2>3 DEF CellAfter
  <2> QED BY <2>2, <2>4 DEF PartExact
<1> QED BY <1>1 DEF PartExact, CellOf

\* The parts of the parameters in it become those of the reduced gradients.
LEMMA PartStored ==
  ASSUME BankShape, PartitionGrads, switch \in {0, 1}, PendingTypes, ScatteredInv(pending.ps),
         pending.direct \/ micro = 0, NEW p \in Params, Within(pending.ps, p)
  PROVE  PartExact(switch, p, iter)' \/ switch' # switch \/ iter' # iter
<1> SUFFICES ASSUME switch' = switch, iter' = iter PROVE PartExact(switch, p, iter)'
  OBVIOUS
<1>1. pending.ps \in Seq(Params)
  BY DEF PendingTypes
<1>2. PICK h \in 1 .. Len(pending.ps) : pending.ps[h] = p
  BY DEF Within
<1>3. ASSUME NEW j \in 1 .. ViewNumel[p] PROVE bank'[switch][GroupOf[p]][GradPosition[p] + j] = CellOf(p, j, iter)
  <2>1. /\ GroupOf[p] \in Groups /\ GradPosition[p] + j \in 1 .. GroupNumel[GroupOf[p]]
        /\ GradPosition[p] \in Nat /\ j \in Nat
    BY CellPlaces
  <2>2. bank'[switch][GroupOf[p]][GradPosition[p] + j] = CellAfter(switch, GroupOf[p], GradPosition[p] + j)
    BY <2>1, PartitionedBank
  <2>3. h \in ToPartition /\ Hit(GroupOf[p], GradPosition[p] + j, h)
    <3>1. p \notin EmptyShards
      BY ShardNotEmpty
    <3>2. h \in ToPartition
      BY <1>1, <1>2, <3>1 DEF ToPartition
    <3>3. (GradPosition[p] + j) - GradPosition[p] \in 1 .. ViewNumel[p]
      <4>1. (GradPosition[p] + j) - GradPosition[p] = j
        BY <2>1
      <4> QED BY <4>1
    <3>4. (GradPosition[p] + j) - GradPosition[pending.ps[h]] \in 1 .. ViewNumel[pending.ps[h]]
      BY <1>2, <3>3, Zenon
    <3> QED BY <1>2, <3>2, <3>4 DEF Hit
  <2>4. PICK i \in ToPartition : i = HitPart(GroupOf[p], GradPosition[p] + j) /\ Hit(GroupOf[p], GradPosition[p] + j, i)
    BY <2>3 DEF HitPart
  <2>5. i \in 1 .. Len(pending.ps)
    BY <1>1 DEF ToPartition
  <2>6. pending.ps[i] = p
    BY <1>1, <2>4, <2>5, HitOnlyOwn
  <2>7. CellAfter(switch, GroupOf[p], GradPosition[p] + j) = Stored(p, i, j)
    <3>1. CellAfter(switch, GroupOf[p], GradPosition[p] + j) =
            Stored(pending.ps[i], i, (GradPosition[p] + j) - GradPosition[pending.ps[i]])
      BY <2>3, <2>4, Zenon DEF CellAfter
    <3>2. (GradPosition[p] + j) - GradPosition[pending.ps[i]] = j
      BY <2>1, <2>6
    <3> QED BY <2>6, <3>1, <3>2
  <2>8. Stored(p, i, j) = CellOf(p, j, iter)
    BY <2>5, <2>6, StoredExact
  <2> QED BY <2>2, <2>7, <2>8
<1> QED BY <1>3 DEF PartExact, CellOf

-----------------------------------------------------------------------------
(* The banks hold the gradients of one iteration *)

\* A step that writes no bank.
LEMMA BankSame ==
  ASSUME bank' = bank
  PROVE  /\ BankShape' <=> BankShape
         /\ \A b, p, k : PartExact(b, p, k)' <=> PartExact(b, p, k)
         /\ \A b, k : BankExact(b, k)' <=> BankExact(b, k)
<1>1. BankShape' <=> BankShape
  BY DEF BankShape
<1>2. \A b, p, k : PartExact(b, p, k)' <=> PartExact(b, p, k)
  BY DEF PartExact, CellOf
<1> QED BY <1>1, <1>2 DEF BankExact

\* Every gradient comes in a backward pass.
LEMMA OrderCovers ==
  ASSUME TypInv, NEW p \in Params
  PROVE  Len(order) \in Nat /\ \E j \in 1 .. Len(order) : order[j] = p
<1>1. order \in Orders
  BY DEF TypInv, BucketTypes
<1>2. order \in Seq(Params) /\ ToSet(order) = Params
  BY <1>1, ReduceAssumption
<1> QED BY <1>2 DEF ToSet

\* The result that is partitioned is there.
LEMMA Partitionable ==
  ASSUME LoopInv, TypInv, StreamInv, pending # NoRs => pending.done, pc \in InGrad \ {"sync"}
  PROVE  /\ pending.ps \in Seq(Params)
         /\ pending = NoRs => pending.ps = <<>>
         /\ pending # NoRs => PendingTypes /\ ScatteredInv(pending.ps) /\ (pending.direct \/ micro = 0)
<1>1. pending = NoRs => pending.ps = <<>> /\ pending.ps \in Seq(Params)
  BY DEF NoRs
<1>2. ASSUME pending # NoRs
      PROVE  PendingTypes /\ ScatteredInv(pending.ps) /\ (pending.direct \/ micro = 0)
  <2>1. PendingTypes /\ ScatteredInv(pending.ps)
    BY <1>2 DEF StreamInv, PendingInv
  <2>2. CASE pc \in InBackward
    BY <2>1, <2>2 DEF TypInv, MicroTypes
  <2>3. CASE pc \notin InBackward
    BY <2>1, <2>3 DEF InGrad, PendingTypes
  <2> QED BY <2>1, <2>2, <2>3
<1> QED BY <1>1, <1>2 DEF PendingTypes

\* What a partition of the result does to a bank.
LEMMA PartitionedParts ==
  ASSUME LoopInv, TypInv, StreamInv, BankShape, PartitionGrads, pending # NoRs => pending.done, pc \in InGrad \ {"sync"},
         switch' = switch, iter' = iter
  PROVE  /\ BankShape'
         /\ \A p \in Params : Within(pending.ps, p) \/ PartExact(switch, p, iter) => PartExact(switch, p, iter)'
         /\ \A k : BankExact(1 - switch, k) => BankExact(1 - switch, k)'
<1>1. switch \in {0, 1} /\ 1 - switch \in {0, 1} /\ 1 - switch # switch
  BY DEF LoopInv, CtlTypes
<1>2. /\ pending.ps \in Seq(Params)
      /\ pending = NoRs => pending.ps = <<>>
      /\ pending # NoRs => PendingTypes /\ ScatteredInv(pending.ps) /\ (pending.direct \/ micro = 0)
  BY Partitionable
<1>3. BankShape'
  BY <1>1, PartitionedBank
<1>4. ASSUME NEW p \in Params, Within(pending.ps, p) PROVE PartExact(switch, p, iter)'
  <2>1. pending # NoRs
    BY <1>2, <1>4 DEF Within
  <2> QED BY <1>1, <1>2, <1>4, <2>1, PartStored
<1>5. ASSUME NEW p \in Params, PartExact(switch, p, iter), ~ Within(pending.ps, p) PROVE PartExact(switch, p, iter)'
  <2>1. PICK b \in {0, 1} : b = switch
    BY <1>1
  <2>2. PICK k \in {iter} : k = iter
    OBVIOUS
  <2>3. PartExact(b, p, k)'
    BY <1>1, <1>2, <1>5, <2>1, <2>2, PartKept
  <2>4. b = switch' /\ k = iter'
    BY <2>1, <2>2
  <2> QED BY <2>3, <2>4
<1>6. ASSUME NEW k, BankExact(1 - switch, k) PROVE BankExact(1 - switch, k)'
  <2>1. PICK b \in {0, 1} : b = 1 - switch /\ b # switch
    BY <1>1
  <2>2. ASSUME NEW p \in Params PROVE PartExact(b, p, k)'
    <3>1. PartExact(b, p, k)
      BY <1>6, <2>1 DEF BankExact
    <3> QED BY <1>1, <1>2, <2>1, <3>1, PartKept
  <2>3. BankExact(b, k)'
    BY <2>2 DEF BankExact
  <2>4. b = 1 - switch'
    BY <2>1
  <2> QED BY <2>3, <2>4
<1> QED BY <1>3, <1>4, <1>5, <1>6

\* The bucket is sent: the result of the one before is in the bank.
LEMMA SendBank ==
  ASSUME LoopInv, TypInv, StreamInv, BankInv, NEW o, SentBucket(o), PartitionGrads
  PROVE  BankInv'
<1>1. /\ pc \in {"hook", "epilogue"} /\ pc' = (IF pc = "hook" THEN "hook" ELSE "sync")
      /\ ipg' = <<>> /\ pending'.ps = Bucket /\ (pending # NoRs => pending.done)
      /\ UNCHANGED <<order, iter, next, switch>>
  BY DEF SentBucket
<1>2. pc \in InGrad \ {"sync"} /\ pc' \in InGrad /\ pc \in InIteration
  BY <1>1 DEF InGrad, InBackward, InIteration
<1>3. /\ BankShape'
      /\ \A p \in Params : Within(pending.ps, p) \/ PartExact(switch, p, iter) => PartExact(switch, p, iter)'
      /\ \A k : BankExact(1 - switch, k) => BankExact(1 - switch, k)'
  BY <1>1, <1>2, PartitionedParts DEF BankInv
<1>4. Packed' = Packed
  BY <1>1 DEF Packed
<1>5. PackedInv'
  <2> SUFFICES ASSUME NEW j \in 1 .. Packed
               PROVE  Within(ipg', order[j]) \/ Within(pending'.ps, order[j]) \/ PartExact(switch, order[j], iter)'
    BY <1>1, <1>4 DEF PackedInv, PartExact, CellOf, Within
  <2>1. Within(ipg, order[j]) \/ Within(pending.ps, order[j]) \/ PartExact(switch, order[j], iter)
    BY <1>2 DEF BankInv, PackedInv
  <2>2. order[j] \in Params
    <3>1. order \in Seq(Params) /\ Len(order) \in Nat
      BY OrderFacts DEF TypInv, BucketTypes
    <3>2. j \in 1 .. Len(order)
      <4>1. pc = "hook" => next <= Len(order) /\ next \in Nat
        BY DEF TypInv, BucketTypes, LoopInv, CtlTypes
      <4> QED BY <1>1, <3>1, <4>1 DEF Packed
    <3> QED BY <3>1, <3>2
  <2>3. CASE Within(ipg, order[j])
    <3>1. ipg \in Seq(Params) /\ IsInjective(ipg)
      BY DEF TypInv, BucketTypes
    <3>2. PICK k \in 1 .. Len(ipg) : ipg[k] = order[j]
      BY <2>3 DEF Within
    <3>3. PICK i \in 1 .. Len(ipg) : Bucket[i] = ipg[k]
      BY <3>1, BucketFacts
    <3>4. Len(Bucket) = Len(ipg)
      BY <3>1, BucketFacts
    <3>5. Bucket[i] = order[j] /\ i \in 1 .. Len(Bucket)
      BY <3>2, <3>3, <3>4
    <3>6. Within(Bucket, order[j])
      BY <3>5 DEF Within
    <3> QED BY <1>1, <3>6
  <2>4. CASE Within(pending.ps, order[j]) \/ PartExact(switch, order[j], iter)
    <3>1. PICK p \in Params : p = order[j]
      BY <2>2
    <3>2. PartExact(switch, p, iter)'
      BY <1>3, <2>4, <3>1
    <3>3. p = order'[j]
      BY <1>1, <3>1
    <3>4. \A i \in 1 .. ViewNumel[p] : bank'[switch'][GroupOf[p]][GradPosition[p] + i] = CellOf(p, i, iter')
      BY <3>2 DEF PartExact, CellOf
    <3>5. PartExact(switch, order[j], iter)'
      BY <3>3, <3>4 DEF PartExact, CellOf
    <3> QED BY <3>5
  <2> QED BY <2>1, <2>3, <2>4
<1>6. iter' > SyncIters' + 1 => BankExact(1 - switch, iter - 1)'
  <2>1. SyncIters' = SyncIters
    BY DEF SyncIters, Synchronous
  <2>2. PICK k \in {iter - 1} : k = iter - 1
    OBVIOUS
  <2>3. iter > SyncIters + 1 => BankExact(1 - switch, k)
    BY <1>2, <2>2 DEF BankInv
  <2>4. iter > SyncIters + 1 => BankExact(1 - switch, k)'
    BY <1>3, <2>3
  <2>5. k = iter' - 1
    BY <1>1, <2>2
  <2> QED BY <1>1, <2>1, <2>4, <2>5
<1>7. SyncIters' = SyncIters
  BY DEF SyncIters, Synchronous
<1> QED BY <1>1, <1>2, <1>3, <1>5, <1>6, <1>7 DEF BankInv

\* The last result is partitioned: the bank is the gradient of the iteration.
LEMMA FlushBank ==
  ASSUME LoopInv, TypInv, StreamInv, BankInv, PartitionAll \/ StepBegin
  PROVE  BankInv'
<1>1. /\ pc \in {"flush", "step"} /\ pc' \in {"update", "groups"} /\ Flush
      /\ UNCHANGED <<order, iter, switch>>
  BY DEF PartitionAll, StepBegin
<1>2. (pending # NoRs => pending.done) /\ PartitionGrads
  BY <1>1 DEF Flush, RsReady
<1>3. pc \in InGrad \ {"sync"} /\ pc' \notin InGrad /\ pc \in InIteration
  BY <1>1 DEF InGrad, InBackward, InIteration
<1>4. /\ BankShape'
      /\ \A p \in Params : Within(pending.ps, p) \/ PartExact(switch, p, iter) => PartExact(switch, p, iter)'
      /\ \A k : BankExact(1 - switch, k) => BankExact(1 - switch, k)'
  BY <1>1, <1>2, <1>3, PartitionedParts DEF BankInv
<1>5. BankExact(switch, iter)'
  <2>1. ASSUME NEW p \in Params PROVE PartExact(switch, p, iter)'
    <3>1. PICK j \in 1 .. Len(order) : order[j] = p
      BY OrderCovers
    <3>2. Packed = Len(order)
      BY <1>1 DEF Packed
    <3>3. Within(ipg, p) \/ Within(pending.ps, p) \/ PartExact(switch, p, iter)
      BY <1>3, <3>1, <3>2 DEF BankInv, PackedInv
    <3>4. ipg = <<>>
      BY <1>1 DEF TypInv, BucketTypes, InBackward
    <3>5. ~ Within(ipg, p)
      BY <3>4 DEF Within
    <3> QED BY <1>4, <3>3, <3>5
  <2> QED BY <2>1 DEF BankExact
<1>6. SyncIters' = SyncIters
  BY DEF SyncIters, Synchronous
<1>7. iter' > SyncIters' + 1 => BankExact(1 - switch, iter - 1)'
  <2>1. PICK k \in {iter - 1} : k = iter - 1
    OBVIOUS
  <2>2. iter > SyncIters + 1 => BankExact(1 - switch, k)'
    BY <1>3, <1>4, <2>1 DEF BankInv
  <2>3. k = iter' - 1
    BY <1>1, <2>1
  <2> QED BY <1>1, <1>6, <2>2, <2>3
<1>8. PackedInv'
  BY <1>3 DEF PackedInv
<1> QED BY <1>1, <1>3, <1>4, <1>5, <1>6, <1>7, <1>8 DEF BankInv

\* The clauses about the banks in a step that writes none and stays in the same iteration.
LEMMA SameIteration ==
  ASSUME bank' = bank, iter' = iter, switch' = switch
  PROVE  /\ BankShape => BankShape'
         /\ BankExact(switch, iter) => BankExact(switch, iter)'
         /\ BankExact(1 - switch, iter - 1) => BankExact(1 - switch, iter - 1)'
         /\ BankExact(1 - switch, iter) => BankExact(1 - switch, iter)'
         /\ SyncIters' = SyncIters
<1>1. BankShape => BankShape'
  BY DEF BankShape
<1>2. BankExact(switch, iter) => BankExact(switch, iter)'
  BY DEF BankExact, PartExact, CellOf
<1>3. BankExact(1 - switch, iter - 1) => BankExact(1 - switch, iter - 1)'
  BY DEF BankExact, PartExact, CellOf
<1>4. BankExact(1 - switch, iter) => BankExact(1 - switch, iter)'
  BY DEF BankExact, PartExact, CellOf
<1> QED BY <1>1, <1>2, <1>3, <1>4 DEF SyncIters, Synchronous

\* The streams, the DPU, the worker, and a step that changes nothing.
LEMMA QuietBank ==
  ASSUME BankInv, UNCHANGED <<pc, order, iter, next, switch, bank, ipg>>, pending'.ps = pending.ps
  PROVE  BankInv'
<1>1. Packed' = Packed
  BY DEF Packed
<1>2. PackedInv'
  BY <1>1 DEF BankInv, PackedInv, PartExact, CellOf, Within
<1> QED BY <1>2, SameIteration DEF BankInv

\* Queueing a kernel leaves the banks as they are.
LEMMA KernelBank ==
  ASSUME BankInv, GradKernel
  PROVE  BankInv'
<1>1. pc = "backward" /\ pc' = "hook" /\ UNCHANGED <<order, iter, next, switch, bank, ipg, pending>>
  BY DEF GradKernel, resultVars
<1>2. Packed' = Packed /\ pc \in InGrad
  BY <1>1 DEF Packed, InGrad, InBackward
<1>3. PackedInv'
  BY <1>1, <1>2 DEF BankInv, PackedInv, PartExact, CellOf, Within
<1> QED BY <1>1, <1>3, SameIteration DEF BankInv, InIteration

\* A gradient that has been packed is in the bucket.
LEMMA AddBank ==
  ASSUME LoopInv, TypInv, BankInv, AddGrad
  PROVE  BankInv'
<1>1. /\ pc = "hook" /\ pc' = (IF next < Len(order) THEN "backward" ELSE "epilogue") /\ next' = next + 1
      /\ ipg' = Append(ipg, order[next]) /\ UNCHANGED <<order, iter, switch, bank, pending>>
  BY DEF AddGrad, resultVars
<1>2. next <= Len(order) /\ next \in Nat \ {0} /\ ipg \in Seq(Params) /\ order \in Seq(Params) /\ Len(order) \in Nat
  BY <1>1, OrderFacts DEF TypInv, BucketTypes, LoopInv, CtlTypes
<1>3. order[next] \in Params
  <2>1. next \in 1 .. Len(order)
    BY <1>2
  <2> QED BY <1>2, <2>1
<1>4. /\ Len(ipg) \in Nat /\ Len(ipg') = Len(ipg) + 1 /\ ipg'[Len(ipg) + 1] = order[next]
      /\ \A i \in 1 .. Len(ipg) : ipg'[i] = ipg[i]
  BY <1>1, <1>2, <1>3
<1>5. Packed = next - 1 /\ Packed' = next /\ pc \in InGrad
  BY <1>1, <1>2 DEF Packed, InGrad, InBackward
<1>6. order' = order /\ pending' = pending
  BY <1>1
<1>7. PackedInv'
  <2> SUFFICES ASSUME NEW j \in 1 .. next
               PROVE  Within(ipg', order[j]) \/ Within(pending.ps, order[j]) \/ PartExact(switch, order[j], iter)'
    BY <1>5, <1>6 DEF PackedInv, PartExact, CellOf, Within
  <2>1. CASE j = next
    <3>1. Len(ipg) + 1 \in 1 .. Len(ipg')
      BY <1>4
    <3> QED BY <1>4, <2>1, <3>1 DEF Within
  <2>2. CASE j # next
    <3>1. j \in 1 .. Packed
      BY <1>2, <1>5, <2>2
    <3>2. Within(ipg, order[j]) \/ Within(pending.ps, order[j]) \/ PartExact(switch, order[j], iter)
      BY <1>5, <3>1 DEF BankInv, PackedInv
    <3>3. Within(ipg, order[j]) => Within(ipg', order[j])
      <4> SUFFICES ASSUME NEW i \in 1 .. Len(ipg), ipg[i] = order[j] PROVE Within(ipg', order[j])
        BY DEF Within
      <4>1. i \in 1 .. Len(ipg') /\ ipg'[i] = order[j]
        BY <1>4
      <4> QED BY <4>1 DEF Within
    <3>4. PartExact(switch, order[j], iter) => PartExact(switch, order[j], iter)'
      BY <1>1 DEF PartExact, CellOf
    <3> QED BY <3>2, <3>3, <3>4
  <2> QED BY <2>1, <2>2
<1> QED BY <1>1, <1>7, SameIteration DEF BankInv, InIteration

\* The steps of the loop around the backward pass.
LEMMA LoopBank ==
  ASSUME LoopInv, TypInv, BankInv,
         StartAdam \/ BeginIteration \/ EpilogueSync \/ StepSubGroup \/ StepEnd \/ UpdateNewParams \/ StopAdam \/ JoinAdam
  PROVE  BankInv'
<1>0. bank' = bank /\ SyncIters \in Nat /\ SyncIters' = SyncIters /\ iter \in Nat /\ switch \in {0, 1}
  BY SyncFacts DEF StartAdam, BeginIteration, EpilogueSync, StepSubGroup, StepEnd, UpdateNewParams, StopAdam, JoinAdam,
         resultVars, LoopInv, CtlTypes, SyncIters, Synchronous
<1>1. CASE StartAdam
  <2>1. pc = "start" /\ pc' = "loop" /\ UNCHANGED <<iter, switch>> /\ iter = 0
    BY <1>1 DEF StartAdam, resultVars, LoopInv, Starting
  <2> QED BY <1>0, <2>1, SameIteration DEF BankInv, PackedInv, InGrad, InBackward, InIteration
<1>2. CASE BeginIteration
  <2>1. pc = "loop" /\ pc' = "backward" /\ iter' = iter + 1 /\ next' = 1 /\ switch' = switch
    BY <1>2 DEF BeginIteration, resultVars
  <2>2. Packed' = 0
    BY <2>1 DEF Packed
  <2>3. PackedInv'
    <3>1. \A j \in 1 .. 0 : FALSE
      OBVIOUS
    <3> QED BY <2>2, <3>1 DEF PackedInv
  <2>4. iter' > SyncIters' + 1 => BankExact(1 - switch, iter - 1)'
    <3> SUFFICES ASSUME iter' > SyncIters' + 1 PROVE BankExact(1 - switch, iter - 1)'
      OBVIOUS
    <3>1. iter > SyncIters /\ iter' - 1 = iter
      BY <1>0, <2>1
    <3>2. BankExact(1 - switch, iter)
      BY <2>1, <3>1 DEF BankInv
    <3> QED BY <1>0, <2>1, <3>1, <3>2 DEF BankExact, PartExact, CellOf
  <2>5. iter' <= SyncIters' => switch' = 0
    BY <1>0, <2>1 DEF BankInv
  <2>6. BankShape'
    BY <1>0 DEF BankInv, BankShape
  <2> QED BY <2>1, <2>3, <2>4, <2>5, <2>6 DEF BankInv
<1>3. CASE EpilogueSync
  <2>1. pc = "sync" /\ pc' \in {"step", "flush"} /\ UNCHANGED <<order, iter, switch, ipg, pending>>
    BY <1>3 DEF EpilogueSync, resultVars
  <2>2. Packed' = Packed /\ pc \in InGrad
    BY <2>1 DEF Packed, InGrad
  <2>3. PackedInv'
    BY <1>0, <2>1, <2>2 DEF BankInv, PackedInv, PartExact, CellOf, Within
  <2> QED BY <1>0, <2>1, <2>3, SameIteration DEF BankInv, InIteration
<1>4. CASE StepSubGroup
  <2>1. pc = "groups" /\ pc' = "groups" /\ UNCHANGED <<iter, switch>>
    BY <1>4 DEF StepSubGroup, resultVars
  <2> QED BY <1>0, <2>1, SameIteration DEF BankInv, PackedInv, InGrad, InBackward
<1>5. CASE StepEnd
  <2>1. pc = "groups" /\ pc' = "loop" /\ UNCHANGED <<iter, switch>>
    BY <1>5 DEF StepEnd, resultVars
  <2>2. iter <= SyncIters
    BY <1>0, <2>1 DEF LoopInv, InFirstDelayed, InDelayed, InIteration
  <2> QED BY <1>0, <2>1, <2>2, SameIteration DEF BankInv, PackedInv, InGrad, InBackward, InIteration
<1>6. CASE UpdateNewParams
  <2>1. pc = "update" /\ pc' = "loop" /\ iter' = iter /\ switch' = 1 - switch
    BY <1>6 DEF UpdateNewParams
  <2>2. iter > SyncIters
    BY <1>0, <2>1 DEF LoopInv, InSync, InIteration
  <2>3. BankExact(switch, iter) /\ 1 - switch' = switch
    BY <1>0, <2>1 DEF BankInv
  <2>4. BankExact(1 - switch, iter)'
    BY <1>0, <2>1, <2>3 DEF BankExact, PartExact, CellOf
  <2>5. BankShape' /\ PackedInv'
    BY <1>0, <2>1 DEF BankInv, BankShape, PackedInv, InGrad, InBackward
  <2> QED BY <1>0, <2>1, <2>2, <2>4, <2>5 DEF BankInv, InIteration
<1>7. CASE StopAdam \/ JoinAdam
  <2>1. pc' \in {"join", "end"}
    BY <1>7 DEF StopAdam, JoinAdam
  <2>2. BankShape'
    BY <1>0 DEF BankInv, BankShape
  <2> QED BY <2>1, <2>2 DEF BankInv, PackedInv, InGrad, InBackward, InIteration
<1> QED BY <1>1, <1>2, <1>3, <1>4, <1>5, <1>6, <1>7

\* The banks, in every step.
LEMMA BankNext ==
  ASSUME LoopInv, TypInv, StreamInv, BankInv, [Next]_vars
  PROVE  BankInv'
<1>1. CASE Host
  <2>1. CASE ReduceFullBucket \/ ReduceLastBucket
    <3>1. PICK o \in {rsQ'[Len(rsQ) + 1]} \cup {DivOp, CatOp(Locs(Bucket))} : SentBucket(o)
      BY <2>1, SentFacts
    <3>2. PartitionGrads
      BY <2>1 DEF ReduceFullBucket, ReduceLastBucket, ReduceIpg
    <3> QED BY <3>1, <3>2, SendBank
  <2>2. CASE PartitionAll \/ StepBegin
    BY <2>2, FlushBank
  <2>3. CASE GradKernel \/ AddGrad
    BY <2>3, KernelBank, AddBank
  <2>4. CASE StartAdam \/ BeginIteration \/ EpilogueSync \/ StepSubGroup \/ StepEnd \/ UpdateNewParams \/ StopAdam \/ JoinAdam
    BY <2>4, LoopBank
  <2> QED BY <1>1, <2>1, <2>2, <2>3, <2>4 DEF Host, Step
<1>2. CASE ComputeStream \/ ReduceStream \/ Adam \/ UNCHANGED vars
  <2>1. UNCHANGED <<pc, order, iter, next, switch, bank, ipg, pending>>
    BY <1>2 DEF ComputeStream, ReduceStream, Adam, AdamReady, AdamCommand, AdamSubGroup, AdamDone, vars,
                hostVars, bucketVars, resultVars
  <2> QED BY <2>1, QuietBank
<1>3. CASE DpuReduceScatter
  <2>1. UNCHANGED <<pc, order, iter, next, switch, bank, ipg>> /\ pending' = [pending EXCEPT !.done = TRUE]
    BY <1>3 DEF DpuReduceScatter, hostVars, bucketVars
  <2>2. DOMAIN pending = DOMAIN NoRs
    <3>1. pending # NoRs
      BY <1>3 DEF DpuReduceScatter
    <3> QED BY <3>1 DEF StreamInv, PendingInv, PendingTypes
  <2>3. pending'.ps = pending.ps
    BY <2>1, <2>2 DEF NoRs
  <2> QED BY <2>1, <2>3, QuietBank
<1> QED BY <1>1, <1>2, <1>3 DEF Next

-----------------------------------------------------------------------------
(* The weights *)

\* A bank that holds the gradients of iteration k updates the weights with them.
LEMMA AppliedIs ==
  ASSUME BankShape, iter \in Nat, NEW b \in {0, 1}, NEW k \in 1 .. iter, BankExact(b, k), NEW g \in Groups, HasElement(g)
  PROVE  Applied(bank[b][g], g) = k
<1>1. DOMAIN bank[b][g] = 1 .. GroupNumel[g]
  BY DEF BankShape
<1>2. /\ DOMAIN WeightLayout[g] = 1 .. SumPart(SubGroups[g]) /\ GroupNumel[g] = SumPart(SubGroups[g])
      /\ \A c \in 1 .. SumPart(SubGroups[g]) : WeightLayout[g][c] # PadElem =>
           \E p \in Params : \E j \in 1 .. ViewNumel[p] :
             /\ GroupOf[p] = g /\ c = GradPosition[p] + j
             /\ WeightLayout[g][c] = <<p, Rank * PartNumel[p] + j>>
  BY WeightFacts DEF GroupNumel
<1>3. ASSUME NEW c \in DOMAIN bank[b][g], WeightLayout[g][c] # PadElem
      PROVE  bank[b][g][c] = {<<WeightLayout[g][c][1], WeightLayout[g][c][2], k>>}
  <2>1. PICK p \in Params, j \in Nat :
          /\ j \in 1 .. ViewNumel[p] /\ GroupOf[p] = g /\ c = GradPosition[p] + j
          /\ WeightLayout[g][c] = <<p, Rank * PartNumel[p] + j>>
    <3>1. PICK p \in Params : \E j \in 1 .. ViewNumel[p] :
             /\ GroupOf[p] = g /\ c = GradPosition[p] + j
             /\ WeightLayout[g][c] = <<p, Rank * PartNumel[p] + j>>
      BY <1>1, <1>2, <1>3
    <3>2. PICK j \in 1 .. ViewNumel[p] :
             /\ GroupOf[p] = g /\ c = GradPosition[p] + j
             /\ WeightLayout[g][c] = <<p, Rank * PartNumel[p] + j>>
      BY <3>1
    <3> QED BY <3>2
  <2>2. bank[b][GroupOf[p]][GradPosition[p] + j] = CellOf(p, j, k)
    BY <2>1 DEF BankExact, PartExact
  <2>3. bank[b][g][c] = {<<p, Rank * PartNumel[p] + j, k>>}
    BY <2>1, <2>2 DEF CellOf
  <2>4. WeightLayout[g][c][1] = p /\ WeightLayout[g][c][2] = Rank * PartNumel[p] + j
    BY <2>1
  <2> QED BY <2>3, <2>4
<1>4. ExactFor(bank[b][g], g, k)
  BY <1>3 DEF ExactFor
<1>5. ASSUME NEW n \in 1 .. iter, ExactFor(bank[b][g], g, n) PROVE n = k
  <2>1. PICK c \in DOMAIN WeightLayout[g] : WeightLayout[g][c] # PadElem
    BY DEF HasElement
  <2>2. c \in DOMAIN bank[b][g]
    BY <1>1, <1>2
  <2>3. bank[b][g][c] = {<<WeightLayout[g][c][1], WeightLayout[g][c][2], k>>}
    BY <1>3, <2>1, <2>2
  <2>4. \A d \in DOMAIN bank[b][g] : WeightLayout[g][d] # PadElem =>
          bank[b][g][d] = {<<WeightLayout[g][d][1], WeightLayout[g][d][2], n>>}
    BY <1>5, Zenon DEF ExactFor
  <2>5. bank[b][g][c] = {<<WeightLayout[g][c][1], WeightLayout[g][c][2], n>>}
    BY <2>1, <2>2, <2>4
  <2>6. ASSUME NEW x, NEW y, NEW m, NEW o, {<<x, y, m>>} = {<<x, y, o>>} PROVE m = o
    <3>1. <<x, y, m>> = <<x, y, o>>
      BY <2>6
    <3> QED BY <3>1
  <2> QED BY <2>3, <2>5, <2>6
<1> QED BY <1>4, <1>5 DEF Applied

\* A synchronous step updates the weights with the gradients of the iteration.
LEMMA SubGroupMaster ==
  ASSUME LoopInv, BankInv, MastersInv, StepSubGroup
  PROVE  MastersInv'
<1>1. /\ pc = "groups" /\ next \in Groups
      /\ master' = [master EXCEPT ![next] = Append(@, Applied(bank[0][next], next))]
  BY DEF StepSubGroup
<1>2. SyncIters \in Nat /\ iter \in Nat /\ next \in Nat \ {0} /\ master \in [Groups -> Seq(Nat)]
  BY SyncFacts DEF LoopInv, CtlTypes
<1>3. iter <= SyncIters
  BY <1>1, <1>2 DEF LoopInv, InFirstDelayed, InDelayed, InIteration
<1>4. switch = 0 /\ BankExact(0, iter) /\ BankShape
  BY <1>1, <1>3 DEF BankInv, InIteration
<1>5. iter >= 1 /\ Len(master[next]) = iter - 1
  BY <1>1, <1>2, <1>3 DEF LoopInv, InSync, InIteration
<1>6. PICK a \in Nat : a = Applied(bank[0][next], next)
  BY <1>2, AppliedType
<1>7. HasElement(next) => a = iter
  <2>1. iter \in 1 .. iter /\ 0 \in {0, 1}
    BY <1>2, <1>5
  <2> QED BY <1>1, <1>2, <1>4, <1>6, <2>1, AppliedIs
<1>8. ASSUME NEW g \in Groups, HasElement(g), NEW i \in DOMAIN master'[g] PROVE master'[g][i] = i
  <2>1. CASE g # next
    BY <1>1, <1>2, <1>8, <2>1 DEF MastersInv
  <2>2. CASE g = next
    <3>1. master[g] \in Seq(Nat) /\ master'[g] = Append(master[g], a) /\ Len(master[g]) = iter - 1
      BY <1>1, <1>2, <1>5, <1>6, <2>2
    <3>2. CASE i \in 1 .. Len(master[g])
      <4>1. master'[g][i] = master[g][i] /\ i \in DOMAIN master[g]
        BY <3>1, <3>2
      <4> QED BY <1>8, <4>1 DEF MastersInv
    <3>3. CASE i \notin 1 .. Len(master[g])
      <4>1. i = Len(master[g]) + 1
        BY <3>1, <3>3
      <4>2. master'[g][i] = a /\ i = iter
        BY <1>2, <3>1, <4>1
      <4> QED BY <1>7, <1>8, <2>2, <4>2
    <3> QED BY <3>2, <3>3
  <2> QED BY <2>1, <2>2
<1> QED BY <1>8 DEF MastersInv, HasElement

\* The worker updates them with those of the iteration before.
LEMMA WorkerMaster ==
  ASSUME LoopInv, BankInv, MastersInv, AdamSubGroup
  PROVE  MastersInv'
<1>1. PICK g0 \in Groups :
        /\ g0 = worker.group /\ worker.st = "step"
        /\ master' = [master EXCEPT ![g0] = Append(@, Applied(bank[worker.idx][g0], g0))]
  BY DEF AdamSubGroup
<1>2. /\ SyncIters \in Nat /\ iter \in Nat /\ master \in [Groups -> Seq(Nat)] /\ switch \in {0, 1}
  BY SyncFacts DEF LoopInv, CtlTypes
<1>3. /\ pc \in InIteration /\ iter > SyncIters + 1 /\ worker.idx = 1 - switch
      /\ Len(master[g0]) = iter - 2
  <2>1. pc \in InIteration /\ iter > SyncIters + 1
    <3>1. pc \in InIteration \cup {"start", "loop", "join", "end"}
      BY DEF LoopInv, CtlTypes
    <3>2. pc \notin {"start", "loop", "join", "end"}
      BY <1>1 DEF LoopInv, Starting, Between, Ending, Quiet
    <3>3. ~ (iter <= SyncIters) /\ iter # SyncIters + 1
      BY <1>1, <3>1, <3>2 DEF LoopInv, InSync, InFirstDelayed, Quiet
    <3> QED BY <1>2, <3>1, <3>2, <3>3
  <2>2. StepTaken(iter - 2)
    BY <1>1, <2>1 DEF LoopInv, InDelayed, StepSent, StepDone
  <2> QED BY <1>1, <2>1, <2>2, SubGroupsFacts DEF StepTaken
<1>4. BankExact(1 - switch, iter - 1) /\ BankShape
  BY <1>3 DEF BankInv
<1>5. PICK b \in {0, 1} : b = 1 - switch
  BY <1>2
<1>6. PICK k \in 1 .. iter : k = iter - 1
  BY <1>2, <1>3
<1>7. PICK a \in Nat : a = Applied(bank[b][g0], g0)
  BY <1>2, AppliedType
<1>8. HasElement(g0) => a = k
  <2>1. BankExact(b, k)
    BY <1>4, <1>5, <1>6
  <2> QED BY <1>2, <1>4, <1>7, <2>1, AppliedIs
<1>9. ASSUME NEW g \in Groups, HasElement(g), NEW i \in DOMAIN master'[g] PROVE master'[g][i] = i
  <2>1. CASE g # g0
    BY <1>1, <1>2, <1>9, <2>1 DEF MastersInv
  <2>2. CASE g = g0
    <3>1. master[g] \in Seq(Nat) /\ master'[g] = Append(master[g], a) /\ Len(master[g]) = iter - 2
      BY <1>1, <1>2, <1>3, <1>5, <1>7, <2>2
    <3>2. CASE i \in 1 .. Len(master[g])
      <4>1. master'[g][i] = master[g][i] /\ i \in DOMAIN master[g]
        BY <3>1, <3>2
      <4> QED BY <1>9, <4>1 DEF MastersInv
    <3>3. CASE i \notin 1 .. Len(master[g])
      <4>1. i = Len(master[g]) + 1
        BY <3>1, <3>3
      <4>2. master'[g][i] = a /\ i = k
        BY <1>2, <1>6, <3>1, <4>1
      <4> QED BY <1>8, <1>9, <2>2, <4>2
    <3> QED BY <3>2, <3>3
  <2> QED BY <2>1, <2>2
<1> QED BY <1>9 DEF MastersInv, HasElement

\* No other step updates the weights.
LEMMA MastersNext ==
  ASSUME LoopInv, BankInv, MastersInv, [Next]_vars
  PROVE  MastersInv'
<1>1. CASE StepSubGroup
  BY <1>1, SubGroupMaster
<1>2. CASE AdamSubGroup
  BY <1>2, WorkerMaster
<1>3. CASE ~ StepSubGroup /\ ~ AdamSubGroup
  <2>1. master' = master
    BY <1>3 DEF Next, Host, StartAdam, BeginIteration, GradKernel, ReduceFullBucket, AddGrad, ReduceLastBucket,
           EpilogueSync, PartitionAll, Step, StepBegin, StepEnd, UpdateNewParams, StopAdam, JoinAdam,
           ComputeStream, ReduceStream, DpuReduceScatter, Adam, AdamReady, AdamCommand, AdamDone, adamVars, vars
  <2> QED BY <2>1 DEF MastersInv, HasElement
<1> QED BY <1>1, <1>2, <1>3

-----------------------------------------------------------------------------
(* The gradients are exact *)

\* What made a gradient inexact is not forgotten.
LEMMA OddGrows == ASSUME [Next]_vars, odd' = {} PROVE odd = {}
<1>1. CASE AddGrad
  <2>1. odd \subseteq odd'
    BY <1>1 DEF AddGrad
  <2> QED BY <2>1
<1>2. CASE ReduceFullBucket \/ ReduceLastBucket
  <2>1. odd \subseteq odd'
    BY <1>2 DEF ReduceFullBucket, ReduceLastBucket, ReduceIpg
  <2> QED BY <2>1
<1>3. CASE DpuReduceScatter
  <2>1. odd \subseteq odd'
    BY <1>3 DEF DpuReduceScatter
  <2> QED BY <2>1
<1>4. CASE ~ AddGrad /\ ~ ReduceFullBucket /\ ~ ReduceLastBucket /\ ~ DpuReduceScatter
  <2>1. odd' = odd
    BY <1>4 DEF Next, Host, StartAdam, BeginIteration, GradKernel,
           EpilogueSync, PartitionAll, Step, StepBegin, StepSubGroup, StepEnd, UpdateNewParams, StopAdam, JoinAdam,
           ComputeStream, ReduceStream, Adam, AdamReady, AdamCommand, AdamSubGroup, AdamDone,
           hostVars, vars
  <2> QED BY <2>1
<1> QED BY <1>1, <1>2, <1>3, <1>4

\* Nothing is in the streams, and no weight has been updated, at the start.
LEMMA GradInit == ASSUME Init PROVE GradInv
<1>1. /\ pc = "start" /\ iter = 0 /\ ipg = <<>> /\ pending = NoRs /\ bank = ZeroBanks /\ switch = 0
      /\ cuQ = <<>> /\ rsQ = <<>> /\ master = [g \in Groups |-> <<>>]
  BY DEF Init
<1>2. Len(ipg) = 0 /\ Len(rsQ) = 0 /\ \A i \in 1 .. 0 : FALSE
  BY <1>1
<1>3. KernelsInv /\ CopiesInv /\ BucketInv /\ PendingInv
  BY <1>1, <1>2 DEF KernelsInv, CopiesInv, BucketInv, PendingInv, NoCat, InGrad, InBackward
<1>4. BankShape
  BY <1>1 DEF BankShape, ZeroBanks, Blank
<1>5. SyncIters \in Nat
  BY SyncFacts
<1>6. BankInv
  BY <1>1, <1>4, <1>5 DEF BankInv, PackedInv, InGrad, InBackward, InIteration
<1>7. MastersInv
  <2> SUFFICES ASSUME NEW g \in Groups, NEW i \in DOMAIN master[g] PROVE FALSE
    BY DEF MastersInv
  <2>1. DOMAIN master[g] = {}
    BY <1>1
  <2> QED BY <2>1
<1> QED BY <1>3, <1>6, <1>7 DEF GradInv, StreamInv

\* Every step keeps the invariant while no gradient is inexact.
LEMMA GradNext == ASSUME LoopInv, TypInv, GradInv, [Next]_vars PROVE GradInv'
<1> SUFFICES ASSUME odd' = {} PROVE (StreamInv /\ BankInv /\ MastersInv)'
  BY DEF GradInv
<1>1. StreamInv /\ BankInv /\ MastersInv
  BY OddGrows DEF GradInv
<1> QED BY <1>1, StreamNext, BankNext, MastersNext

\* The invariant of the optimizer: the host's loop, the types and, as long as
\* no gradient has been read early, overwritten or added to another one, what
\* is a gradient where.
THEOREM GradInvariance == Spec => [](LoopInv /\ TypInv /\ GradInv)
<1>1. Init => LoopInv /\ TypInv /\ GradInv
  BY LoopInit, TypInit, GradInit
<1>2. LoopInv /\ TypInv /\ GradInv /\ [Next]_vars => (LoopInv /\ TypInv /\ GradInv)'
  BY LoopNext, TypNext, GradNext
<1> QED BY <1>1, <1>2, PTL DEF Spec

\* Every weight is updated with its own gradient of each iteration, whatever
\* the parameters, ranks, sub-groups and bucket, unless the DPU has read a
\* bucket early, or one has been packed over or partitioned late.
THEOREM OptimizerGradientsExact == Spec => []GradientsExact
<1>1. GradInv => GradientsExact
  BY DEF GradInv, MastersInv, GradientsExact
<1> QED BY <1>1, GradInvariance, PTL

-----------------------------------------------------------------------------
(* The delayed update.  These are theorems about DelayedUpdate itself, for   *)
(* every value of its constants; what GradReduce keeps in the variables of   *)
(* the same name plays no part.  The invariant says what the banks, the fp32 *)
(* and the fp16 weights hold in each phase of an iteration.                  *)

CONSTANTS
  SomeShards, SomeGroups, SomeInGroup,  \* any shards and sub-groups
  SomeSyncIters                         \* any number of synchronous iterations

VARIABLES
  busy,  \* an iteration is under way
  adam   \* the step sent to the worker

A == INSTANCE DelayedUpdate WITH
  Shards <- SomeShards, Groups <- SomeGroups, InGroup <- SomeInGroup, SyncIters <- SomeSyncIters

\* Between the iterations up to SyncIters everything is up to date ...
IdleSync ==
  ~ busy /\ iter <= SomeSyncIters =>
    /\ adam = A!NoStep /\ switch = 0
    /\ \A p \in SomeShards : bank[0][p] = iter /\ master[p] = iter /\ fp16[p] = iter

\* ... between later ones the last gradients are in the other bank.
IdleDelayed ==
  ~ busy /\ iter > SomeSyncIters =>
    /\ adam = A!NoStep
    /\ \A p \in SomeShards : bank[1 - switch][p] = iter /\ master[p] = iter - 1 /\ fp16[p] = iter - 1

\* Until the first delayed iteration ends, the worker has had no step.
BusySync ==
  busy /\ iter <= SomeSyncIters + 1 =>
    /\ adam = A!NoStep /\ switch = 0 /\ iter >= 1
    /\ \A p \in SomeShards : master[p] = iter - 1 /\ fp16[p] = iter - 1

\* Later the worker brings the fp32 weights one gradient forward, sub-group by
\* sub-group, from the bank the backward pass does not write.
BusyDelayed ==
  busy /\ iter > SomeSyncIters + 1 =>
    /\ adam.st \in {"busy", "done"} /\ adam.idx = 1 - switch
    /\ adam.st = "done" => adam.todo = {}
    /\ \A p \in SomeShards :
         /\ bank[1 - switch][p] = iter - 1 /\ fp16[p] = iter - 2
         /\ master[p] = IF SomeInGroup[p] \in adam.todo THEN iter - 2 ELSE iter - 1

Inv == A!TypeOK /\ IdleSync /\ IdleDelayed /\ BusySync /\ BusyDelayed

-----------------------------------------------------------------------------
\* What the reduction of a bucket leaves in the banks (__partition_grads).
LEMMA ReducedBank ==
  ASSUME Inv, NEW S \in SUBSET SomeShards, bank' = A!WithReduced(S)
  PROVE  /\ bank' \in [{0, 1} -> [SomeShards -> Nat]]
         /\ bank'[1 - switch] = bank[1 - switch]
         /\ \A p \in S : bank'[switch][p] = iter
<1>1. iter \in Nat /\ bank \in [{0, 1} -> [SomeShards -> Nat]] /\ switch \in {0, 1}
  BY DEF Inv, A!TypeOK
<1>2. bank' = [b \in {0, 1} |-> IF b = switch
                                THEN [p \in SomeShards |-> IF p \in S THEN iter ELSE bank[switch][p]]
                                ELSE bank[b]]
  BY <1>1 DEF A!WithReduced
<1>3. bank' \in [{0, 1} -> [SomeShards -> Nat]]
  BY <1>1, <1>2
<1>4. 1 - switch \in {0, 1} /\ 1 - switch # switch
  BY <1>1
<1>5. bank'[1 - switch] = bank[1 - switch]
  BY <1>2, <1>4
<1>6. \A p \in S : bank'[switch][p] = iter
  BY <1>1, <1>2
<1> QED BY <1>3, <1>5, <1>6

\* Nothing has been computed yet.
LEMMA InitInv == ASSUME A!UpdateAssumption, A!Init PROVE Inv
<1>1. /\ iter = 0 /\ ~ busy /\ busy \in BOOLEAN /\ switch = 0 /\ adam = A!NoStep /\ SomeSyncIters \in Nat
      /\ bank = [b \in {0, 1} |-> [p \in SomeShards |-> 0]]
      /\ master = [p \in SomeShards |-> 0] /\ fp16 = [p \in SomeShards |-> 0]
  BY DEF A!UpdateAssumption, A!Init, A!Zero
<1>2. A!NoStep \in [st : {"none", "busy", "done"}, idx : {0, 1}, todo : SUBSET SomeGroups]
  BY DEF A!NoStep
<1>3. bank \in [{0, 1} -> [SomeShards -> Nat]] /\ master \in [SomeShards -> Nat] /\ fp16 \in [SomeShards -> Nat]
  BY <1>1
<1>4. A!TypeOK
  BY <1>1, <1>2, <1>3 DEF A!TypeOK
<1>5. IdleSync
  BY <1>1 DEF IdleSync
<1>6. IdleDelayed /\ BusySync /\ BusyDelayed
  BY <1>1 DEF IdleDelayed, BusySync, BusyDelayed
<1> QED BY <1>4, <1>5, <1>6 DEF Inv

\* Every step of the loop and of the worker preserves the invariant.
LEMMA StepInv ==
  ASSUME A!UpdateAssumption, Inv, [A!Next]_(A!vars)
  PROVE  Inv'
<1>1. /\ iter \in Nat /\ busy \in BOOLEAN /\ SomeSyncIters \in Nat
      /\ bank \in [{0, 1} -> [SomeShards -> Nat]] /\ switch \in {0, 1}
      /\ adam \in [st : {"none", "busy", "done"}, idx : {0, 1}, todo : SUBSET SomeGroups]
      /\ master \in [SomeShards -> Nat] /\ fp16 \in [SomeShards -> Nat]
      /\ SomeInGroup \in [SomeShards -> SomeGroups]
  BY DEF Inv, A!TypeOK, A!UpdateAssumption
<1>2. 1 - switch \in {0, 1} /\ A!NoStep \in [st : {"none", "busy", "done"}, idx : {0, 1}, todo : SUBSET SomeGroups]
  BY <1>1 DEF A!NoStep
<1>3. CASE A!Begin
  <2>1. /\ ~ busy /\ busy' /\ iter' = iter + 1
        /\ UNCHANGED <<bank, switch, master, fp16>>
        /\ adam' = IF iter > SomeSyncIters THEN [st |-> "busy", idx |-> 1 - switch, todo |-> SomeGroups] ELSE A!NoStep
    BY <1>3 DEF A!Begin
  <2>2. A!TypeOK'
    BY <1>1, <1>2, <1>3, <2>1 DEF A!Begin, A!TypeOK
  <2>3. CASE iter <= SomeSyncIters
    BY <1>1, <2>1, <2>2, <2>3 DEF Inv, IdleSync, IdleDelayed, BusySync, BusyDelayed
  <2>4. CASE iter > SomeSyncIters
    <3>1. adam' = [st |-> "busy", idx |-> 1 - switch, todo |-> SomeGroups] /\ iter' > SomeSyncIters + 1
      BY <1>1, <2>1, <2>4
    <3>2. \A p \in SomeShards : bank[1 - switch][p] = iter /\ master[p] = iter - 1 /\ fp16[p] = iter - 1
      BY <2>1, <2>4 DEF Inv, IdleDelayed
    <3>3. BusyDelayed'
      BY <1>1, <2>1, <3>1, <3>2 DEF BusyDelayed
    <3> QED BY <1>1, <2>1, <2>2, <3>1, <3>3 DEF Inv, IdleSync, IdleDelayed, BusySync
  <2> QED BY <1>1, <2>3, <2>4
<1>4. ASSUME NEW S \in SUBSET SomeShards, A!Reduce(S) PROVE Inv'
  <2>1. busy /\ UNCHANGED <<iter, busy, switch, adam, master, fp16>> /\ bank' = A!WithReduced(S)
    BY <1>4 DEF A!Reduce
  <2>2. bank' \in [{0, 1} -> [SomeShards -> Nat]] /\ bank'[1 - switch] = bank[1 - switch]
    BY <2>1, ReducedBank
  <2> QED BY <2>1, <2>2 DEF Inv, A!TypeOK, IdleSync, IdleDelayed, BusySync, BusyDelayed
<1>5. CASE A!Step
  <2>1. /\ busy /\ iter <= SomeSyncIters /\ busy' = FALSE /\ bank' = A!WithReduced(SomeShards)
        /\ master' = bank'[0] /\ fp16' = bank'[0] /\ UNCHANGED <<iter, switch, adam>>
    BY <1>5 DEF A!Step, A!Synchronous
  <2>2. adam = A!NoStep /\ switch = 0
    BY <1>1, <2>1 DEF Inv, BusySync
  <2>3. /\ bank' \in [{0, 1} -> [SomeShards -> Nat]]
        /\ \A p \in SomeShards : bank'[switch][p] = iter
    BY <2>1, ReducedBank
  <2>4. A!TypeOK'
    BY <1>1, <2>1, <2>3 DEF A!TypeOK
  <2> QED BY <1>1, <2>1, <2>2, <2>3, <2>4 DEF Inv, IdleSync, IdleDelayed, BusySync, BusyDelayed
<1>6. ASSUME NEW g \in SomeGroups, A!AdamGroup(g) PROVE Inv'
  <2>1. /\ adam.st = "busy" /\ g \in adam.todo
        /\ master' = [p \in SomeShards |-> IF SomeInGroup[p] = g THEN bank[adam.idx][p] ELSE master[p]]
        /\ adam' = [st |-> "busy", idx |-> adam.idx, todo |-> adam.todo \ {g}]
        /\ UNCHANGED <<iter, busy, bank, switch, fp16>>
    BY <1>6 DEF A!AdamGroup
  <2>2. busy /\ iter > SomeSyncIters + 1
    BY <1>1, <2>1 DEF Inv, IdleSync, IdleDelayed, BusySync, A!NoStep
  <2>3. /\ adam.idx = 1 - switch
        /\ \A p \in SomeShards :
             /\ bank[1 - switch][p] = iter - 1 /\ fp16[p] = iter - 2
             /\ master[p] = IF SomeInGroup[p] \in adam.todo THEN iter - 2 ELSE iter - 1
    BY <2>2 DEF Inv, BusyDelayed
  <2>4. /\ adam'.st = "busy" /\ adam'.idx = adam.idx /\ adam'.todo = adam.todo \ {g}
        /\ adam' \in [st : {"none", "busy", "done"}, idx : {0, 1}, todo : SUBSET SomeGroups]
    BY <1>1, <2>1
  <2>5. master' \in [SomeShards -> Nat]
    BY <1>1, <2>1
  <2>6. A!TypeOK'
    BY <1>1, <2>1, <2>4, <2>5 DEF A!TypeOK
  <2>7. \A p \in SomeShards : master'[p] = IF SomeInGroup[p] \in adam'.todo THEN iter - 2 ELSE iter - 1
    BY <1>1, <2>1, <2>3, <2>4
  <2>8. BusyDelayed'
    BY <2>1, <2>3, <2>4, <2>7 DEF BusyDelayed
  <2> QED BY <1>1, <2>1, <2>2, <2>6, <2>8 DEF Inv, IdleSync, IdleDelayed, BusySync
<1>7. CASE A!AdamDone
  <2>1. /\ adam.st = "busy" /\ adam.todo = {}
        /\ adam' = [st |-> "done", idx |-> adam.idx, todo |-> {}]
        /\ UNCHANGED <<iter, busy, bank, switch, master, fp16>>
    BY <1>7 DEF A!AdamDone
  <2>2. busy /\ iter > SomeSyncIters + 1
    BY <1>1, <2>1 DEF Inv, IdleSync, IdleDelayed, BusySync, A!NoStep
  <2>3. /\ adam'.st = "done" /\ adam'.idx = adam.idx /\ adam'.todo = adam.todo
        /\ adam' \in [st : {"none", "busy", "done"}, idx : {0, 1}, todo : SUBSET SomeGroups]
    BY <1>1, <2>1
  <2>4. A!TypeOK'
    BY <1>1, <2>1, <2>3 DEF A!TypeOK
  <2>5. BusyDelayed'
    BY <2>1, <2>2, <2>3 DEF Inv, BusyDelayed
  <2> QED BY <1>1, <2>1, <2>2, <2>4, <2>5 DEF Inv, IdleSync, IdleDelayed, BusySync
<1>8. CASE A!Update
  <2>1. /\ busy /\ iter > SomeSyncIters /\ adam.st # "busy" /\ busy' = FALSE
        /\ fp16' = master /\ switch' = 1 - switch /\ adam' = A!NoStep
        /\ UNCHANGED <<iter, bank, master>>
    BY <1>1, <1>8 DEF A!Update, A!Synchronous
  <2>2. \A p \in SomeShards : bank[switch][p] = iter
    BY <1>8 DEF A!Update, A!Reduced
  <2>3. \A p \in SomeShards : master[p] = iter - 1
    <3>1. CASE iter = SomeSyncIters + 1
      BY <1>1, <2>1, <3>1 DEF Inv, BusySync
    <3>2. CASE iter > SomeSyncIters + 1
      BY <2>1, <3>2 DEF Inv, BusyDelayed
    <3> QED BY <1>1, <2>1, <3>1, <3>2
  <2>4. A!TypeOK'
    BY <1>1, <1>2, <2>1 DEF A!TypeOK
  <2>5. 1 - switch' = switch
    BY <1>1, <2>1
  <2> QED BY <1>1, <2>1, <2>2, <2>3, <2>4, <2>5 DEF Inv, IdleSync, IdleDelayed, BusySync, BusyDelayed
<1>9. CASE UNCHANGED A!vars
  BY <1>9 DEF A!vars, Inv, A!TypeOK, IdleSync, IdleDelayed, BusySync, BusyDelayed
<1> QED BY <1>3, <1>4, <1>5, <1>6, <1>7, <1>8, <1>9 DEF A!Next

\* The invariant holds in every reachable state.
LEMMA Invariance ==
  ASSUME A!UpdateAssumption
  PROVE  A!Spec => []Inv
<1>1. A!Init => Inv
  BY InitInv
<1>2. Inv /\ [A!Next]_(A!vars) => Inv'
  BY StepInv
<1> QED BY <1>1, <1>2, PTL DEF A!Spec

\* The variables keep their types.
THEOREM TypeCorrect ==
  ASSUME A!UpdateAssumption
  PROVE  A!Spec => []A!TypeOK
<1>1. Inv => A!TypeOK
  BY DEF Inv
<1> QED BY <1>1, Invariance, PTL

\* During an iteration the weights are late by exactly one update on the delayed
\* path and by none before (run_zero.py, the two branches of the loop).
THEOREM Delay ==
  ASSUME A!UpdateAssumption
  PROVE  A!Spec => []A!DelayedByOne
<1>1. ASSUME Inv PROVE A!DelayedByOne
  <2> SUFFICES ASSUME busy, NEW p \in SomeShards PROVE fp16[p] = A!Applied
    BY DEF A!DelayedByOne
  <2>1. iter \in Nat /\ SomeSyncIters \in Nat
    BY <1>1 DEF Inv, A!TypeOK, A!UpdateAssumption
  <2>2. CASE iter <= SomeSyncIters + 1
    BY <1>1, <2>2 DEF Inv, BusySync, A!Applied
  <2>3. CASE iter > SomeSyncIters + 1
    BY <1>1, <2>1, <2>3 DEF Inv, BusyDelayed, A!Applied
  <2> QED BY <2>1, <2>2, <2>3
<1> QED BY <1>1, Invariance, PTL

\* No gradient is applied twice, skipped or applied out of order, by step or by
\* the worker (_optimizer_step, _adam_worker).
THEOREM InOrder ==
  ASSUME A!UpdateAssumption
  PROVE  A!Spec => A!AppliedInOrder
<1>1. ASSUME Inv, [A!Next]_(A!vars), NEW p \in SomeShards, master'[p] # master[p]
      PROVE  master'[p] = master[p] + 1
  <2>1. /\ iter \in Nat /\ SomeSyncIters \in Nat /\ switch \in {0, 1} /\ master \in [SomeShards -> Nat]
        /\ busy \in BOOLEAN
    BY <1>1 DEF Inv, A!TypeOK, A!UpdateAssumption
  <2>2. CASE A!Step
    <3>1. busy /\ iter <= SomeSyncIters /\ bank' = A!WithReduced(SomeShards) /\ master' = bank'[0]
      BY <2>2 DEF A!Step, A!Synchronous
    <3>2. switch = 0 /\ master[p] = iter - 1
      BY <1>1, <2>1, <3>1 DEF Inv, BusySync
    <3>3. bank'[switch][p] = iter
      BY <1>1, <3>1, ReducedBank
    <3> QED BY <2>1, <3>1, <3>2, <3>3
  <2>3. ASSUME NEW g \in SomeGroups, A!AdamGroup(g) PROVE master'[p] = master[p] + 1
    <3>1. /\ adam.st = "busy" /\ g \in adam.todo
          /\ master'[p] = IF SomeInGroup[p] = g THEN bank[adam.idx][p] ELSE master[p]
      BY <2>3 DEF A!AdamGroup
    <3>2. busy /\ iter > SomeSyncIters + 1
      BY <1>1, <2>1, <3>1 DEF Inv, IdleSync, IdleDelayed, BusySync, A!NoStep
    <3>3. /\ adam.idx = 1 - switch /\ bank[1 - switch][p] = iter - 1
          /\ master[p] = IF SomeInGroup[p] \in adam.todo THEN iter - 2 ELSE iter - 1
      BY <1>1, <3>2 DEF Inv, BusyDelayed
    <3> QED BY <1>1, <2>1, <3>1, <3>3
  <2> QED BY <1>1, <2>2, <2>3 DEF A!Next, A!vars, A!Begin, A!AdamDone, A!Update, A!Reduce
<1>2. Inv /\ [A!Next]_(A!vars) =>
        [\A p \in SomeShards : master'[p] # master[p] => master'[p] = master[p] + 1]_(A!vars)
  BY <1>1
<1> QED BY <1>2, Invariance, PTL DEF A!Spec, A!AppliedInOrder

\* While the worker reads a bank nobody writes it (grad_buf_switch).
THEOREM Stable ==
  ASSUME A!UpdateAssumption
  PROVE  A!Spec => A!BankStable
<1>1. ASSUME Inv, [A!Next]_(A!vars), adam.st = "busy"
      PROVE  bank'[adam.idx] = bank[adam.idx]
  <2>1. iter \in Nat /\ SomeSyncIters \in Nat /\ switch \in {0, 1} /\ busy \in BOOLEAN
    BY <1>1 DEF Inv, A!TypeOK, A!UpdateAssumption
  <2>2. busy /\ iter > SomeSyncIters + 1
    BY <1>1, <2>1 DEF Inv, IdleSync, IdleDelayed, BusySync, A!NoStep
  <2>3. adam.idx = 1 - switch
    BY <1>1, <2>2 DEF Inv, BusyDelayed
  <2>4. ASSUME NEW S \in SUBSET SomeShards, A!Reduce(S) PROVE bank'[adam.idx] = bank[adam.idx]
    BY <1>1, <2>3, <2>4, ReducedBank DEF A!Reduce
  <2>5. ~ A!Step
    BY <2>1, <2>2 DEF A!Step, A!Synchronous
  <2> QED BY <1>1, <2>4, <2>5 DEF A!Next, A!vars, A!Begin, A!AdamDone, A!AdamGroup, A!Update
<1>2. Inv /\ [A!Next]_(A!vars) => [adam.st = "busy" => bank'[adam.idx] = bank[adam.idx]]_(A!vars)
  BY <1>1
<1> QED BY <1>2, Invariance, PTL DEF A!Spec, A!BankStable
=============================================================================
