--------------------------- MODULE ParamGatherProofs ---------------------------
(***************************************************************************)
(* What holds of module ParamGather for every set of parameters and        *)
(* submodules and every schedule of forward scripts.                       *)
(*                                                                         *)
(* The control: where the host thread is in its script fixes what is       *)
(* gathered, in flight and in use.  From it follow that no release takes   *)
(* a parameter from a submodule that uses it, and that the coordinator     *)
(* implements the life of the parameters of module ParamLifecycle.         *)
(*                                                                         *)
(* The data: every step does one of a few things to the queues, blocks     *)
(* and handles (DataStep), and each of those keeps their types.            *)
(*                                                                         *)
(* The contents: a block has one owner (a parameter, a gather not waited   *)
(* for, a queued free), what is written to it is ordered before what       *)
(* reads it, and it holds its parameter or will when that is read          *)
(* (DataInv).  From it follows that kernels read their parameters.         *)
(***************************************************************************)
EXTENDS ParamGather, FiniteSetTheorems, WellFoundedInduction, TLAPS

-----------------------------------------------------------------------------
(* Induction over the naturals, as a principle about sets of numbers *)

LessThan == {ss \in Nat \X Nat : ss[1] < ss[2]}

\* Every set of naturals has a smallest element.
LEMMA Least ==
  ASSUME NEW T \in SUBSET Nat, T # {}
  PROVE  \E n \in T : \A k \in T : n <= k
<1>1. IsWellFoundedOn(LessThan, Nat)
  <2>1. IsWellFoundedOn(OpToRel(<, Nat), Nat)
    BY NatLessThanWellFounded
  <2>2. OpToRel(<, Nat) = LessThan
    BY Zenon DEF OpToRel, LessThan
  <2> QED BY <2>1, <2>2, Zenon
<1>2. \E x \in T : \A y \in T : ~ (<<y, x>> \in LessThan)
  BY <1>1, WFMin
<1>3. PICK n \in T : \A y \in T : ~ (<<y, n>> \in LessThan)
  BY <1>2
<1>4. ASSUME NEW k \in T PROVE n <= k
  <2>1. k \in Nat /\ n \in Nat
    OBVIOUS
  <2>2. <<k, n>> \notin LessThan
    BY <1>3
  <2>3. ~ (k < n)
    BY <2>1, <2>2 DEF LessThan
  <2> QED BY <2>1, <2>3
<1> QED BY <1>4

\* A set of numbers that holds 0, and with n also n + 1, holds them all.
LEMMA Induction ==
  ASSUME NEW T, 0 \in T, \A n \in Nat : n \in T => n + 1 \in T
  PROVE  \A n \in Nat : n \in T
<1> SUFFICES ASSUME Nat \ T # {} PROVE FALSE
  OBVIOUS
<1>1. PICK n \in Nat \ T : \A k \in Nat \ T : n <= k
  BY Least
<1>2. n # 0 /\ n - 1 \in Nat
  BY <1>1
<1>3. n - 1 \in T
  BY <1>1, <1>2
<1> QED BY <1>1, <1>2, <1>3

-----------------------------------------------------------------------------
(* A set of numbers in ascending order *)

Below(S, x) == {y \in S : y < x}

\* Of two elements the larger has more elements below it, by one at least.
LEMMA BelowNext ==
  ASSUME NEW S, S \subseteq Nat, IsFiniteSet(S), NEW x \in S, NEW y \in S, x < y
  PROVE  /\ Cardinality(Below(S, x)) \in Nat /\ Cardinality(Below(S, y)) \in Nat
         /\ Cardinality(Below(S, x)) + 1 <= Cardinality(Below(S, y))
         /\ Cardinality(Below(S, y)) + 1 <= Cardinality(S)
<1>1. IsFiniteSet(Below(S, x)) /\ IsFiniteSet(Below(S, y))
  BY FS_Subset DEF Below
<1>2. Below(S, x) \cup {x} \subseteq Below(S, y)
  <2> SUFFICES ASSUME NEW z \in Below(S, x) \cup {x} PROVE z \in S /\ z < y
    BY DEF Below
  <2>1. x \in Nat /\ y \in Nat /\ z \in S /\ z \in Nat /\ (z < x \/ z = x)
    BY DEF Below
  <2> QED BY <2>1
<1>3. Below(S, y) \cup {y} \subseteq S
  BY DEF Below
<1>4. x \notin Below(S, x) /\ y \notin Below(S, y)
  BY DEF Below
<1>5. /\ IsFiniteSet(Below(S, x) \cup {x}) /\ IsFiniteSet(Below(S, y) \cup {y})
      /\ Cardinality(Below(S, x) \cup {x}) = Cardinality(Below(S, x)) + 1
      /\ Cardinality(Below(S, y) \cup {y}) = Cardinality(Below(S, y)) + 1
  BY <1>1, <1>4, FS_AddElement
<1>6. /\ Cardinality(Below(S, x) \cup {x}) <= Cardinality(Below(S, y))
      /\ Cardinality(Below(S, y) \cup {y}) <= Cardinality(S)
  BY <1>1, <1>2, <1>3, <1>5, FS_Subset
<1>7. Cardinality(Below(S, x)) \in Nat /\ Cardinality(Below(S, y)) \in Nat
  BY <1>1, FS_CardinalityType
<1> QED BY <1>5, <1>6, <1>7

\* The numbering of a finite set of naturals by size is one to one.
LEMMA NthExists ==
  ASSUME NEW S, S \subseteq Nat, IsFiniteSet(S), NEW n \in 1 .. Cardinality(S)
  PROVE  \E x \in S : Cardinality(Below(S, x)) = n - 1
<1> DEFINE T == {k \in Nat : k < Cardinality(S) => \E x \in S : Cardinality(Below(S, x)) = k}
<1>0. Cardinality(S) \in Nat
  BY FS_CardinalityType
<1>1. 0 \in T
  <2> SUFFICES ASSUME 0 < Cardinality(S) PROVE \E x \in S : Cardinality(Below(S, x)) = 0
    OBVIOUS
  <2>1. S # {}
    BY FS_EmptySet
  <2>2. PICK x \in S : \A y \in S : x <= y
    BY <2>1, Least
  <2>3. Below(S, x) = {}
    <3> SUFFICES ASSUME NEW y \in S, y < x PROVE FALSE
      BY DEF Below
    <3>1. x \in Nat /\ y \in Nat /\ x <= y
      BY <2>2
    <3> QED BY <3>1
  <2> QED BY <2>3, FS_EmptySet
<1>2. ASSUME NEW k \in Nat, k \in T PROVE k + 1 \in T
  <2> SUFFICES ASSUME k + 1 < Cardinality(S) PROVE \E x \in S : Cardinality(Below(S, x)) = k + 1
    OBVIOUS
  <2>1. k < Cardinality(S)
    BY <1>0
  <2>2. PICK x \in S : Cardinality(Below(S, x)) = k
    BY <1>2, <2>1
  <2>3. IsFiniteSet(Below(S, x)) /\ x \notin Below(S, x)
    BY FS_Subset DEF Below
  <2>4. IsFiniteSet(Below(S, x) \cup {x}) /\ Cardinality(Below(S, x) \cup {x}) = k + 1
    BY <2>2, <2>3, FS_AddElement
  <2> DEFINE R == {y \in S : x < y}
  <2>5. R # {}
    <3> SUFFICES ASSUME R = {} PROVE FALSE
      OBVIOUS
    <3>1. ASSUME NEW z \in S PROVE z \in Below(S, x) \cup {x}
      <4>1. x \in Nat /\ z \in Nat /\ ~ (x < z)
        OBVIOUS
      <4>2. z < x \/ z = x
        BY <4>1
      <4> QED BY <4>2 DEF Below
    <3>2. S = Below(S, x) \cup {x}
      BY <3>1 DEF Below
    <3> QED BY <2>4, <3>2, <1>0
  <2>6. PICK y \in R : \A z \in R : y <= z
    BY <2>5, Least
  <2>7. Below(S, y) = Below(S, x) \cup {x}
    <3>1. ASSUME NEW z \in S PROVE z < y <=> z < x \/ z = x
      BY <2>6
    <3> QED BY <2>6, <3>1 DEF Below
  <2> QED BY <2>4, <2>6, <2>7
<1>3. \A k \in Nat : k \in T
  <2> HIDE DEF T
  <2> QED BY <1>1, <1>2, Induction
<1> QED BY <1>0, <1>3

\* The n-th element is one with n - 1 below it; two of them differ.
LEMMA NthFacts ==
  ASSUME NEW S, S \subseteq Nat, IsFiniteSet(S)
  PROVE  /\ Cardinality(S) \in Nat
         /\ \A n \in 1 .. Cardinality(S) : Nth(S, n) \in S
         /\ \A n, k \in 1 .. Cardinality(S) : n # k => Nth(S, n) # Nth(S, k)
         /\ \A x \in S : \E n \in 1 .. Cardinality(S) : Nth(S, n) = x
<1>0. Cardinality(S) \in Nat
  BY FS_CardinalityType
<1>1. ASSUME NEW n \in 1 .. Cardinality(S)
      PROVE  Nth(S, n) \in S /\ Cardinality(Below(S, Nth(S, n))) = n - 1
  <2>1. \E x \in S : Cardinality({y \in S : y < x}) = n - 1
    BY NthExists DEF Below
  <2> QED BY <2>1 DEF Nth, Below
<1>2. ASSUME NEW n \in 1 .. Cardinality(S), NEW k \in 1 .. Cardinality(S), n # k
      PROVE  Nth(S, n) # Nth(S, k)
  <2>1. Cardinality(Below(S, Nth(S, n))) = n - 1 /\ Cardinality(Below(S, Nth(S, k))) = k - 1
    BY <1>1
  <2> QED BY <1>2, <2>1
<1>3. ASSUME NEW x \in S PROVE \E n \in 1 .. Cardinality(S) : Nth(S, n) = x
  <2>1. IsFiniteSet(Below(S, x)) /\ x \notin Below(S, x) /\ Below(S, x) \cup {x} \subseteq S
    BY FS_Subset DEF Below
  <2>2. Cardinality(Below(S, x)) \in Nat /\ Cardinality(Below(S, x)) + 1 <= Cardinality(S)
    BY <2>1, FS_CardinalityType, FS_AddElement, FS_Subset
  <2> DEFINE n == Cardinality(Below(S, x)) + 1
  <2>3. n \in 1 .. Cardinality(S)
    BY <1>0, <2>2
  <2>4. Nth(S, n) \in S /\ Cardinality(Below(S, Nth(S, n))) = n - 1
    BY <1>1, <2>3
  <2>5. Cardinality(Below(S, Nth(S, n))) = Cardinality(Below(S, x))
    BY <2>2, <2>4
  <2> DEFINE z == Nth(S, n)
  <2>6. z \in S /\ Cardinality(Below(S, z)) = Cardinality(Below(S, x))
    BY <2>4, <2>5
  <2> HIDE DEF z
  <2>7. ~ (z < x)
    <3> SUFFICES ASSUME z < x PROVE FALSE
      OBVIOUS
    <3>1. Cardinality(Below(S, z)) + 1 <= Cardinality(Below(S, x))
      BY <2>6, BelowNext
    <3> QED BY <2>2, <2>6, <3>1
  <2>9. ~ (x < z)
    <3> SUFFICES ASSUME x < z PROVE FALSE
      OBVIOUS
    <3>1. Cardinality(Below(S, x)) + 1 <= Cardinality(Below(S, z))
      BY <2>6, BelowNext
    <3> QED BY <2>2, <2>6, <3>1
  <2>10. x \in Nat /\ z \in Nat
    BY <2>6
  <2>8. z = x
    BY <2>7, <2>9, <2>10
  <2> QED BY <2>3, <2>8 DEF z
<1> QED BY <1>0, <1>1, <1>2, <1>3
-----------------------------------------------------------------------------
(* The concatenation of a sequence of sequences *)

\* The elements of a concatenation.
LEMMA ConcatFacts ==
  ASSUME NEW S, NEW s \in Seq(S), NEW t \in Seq(S)
  PROVE  /\ s \o t \in Seq(S) /\ Len(s \o t) = Len(s) + Len(t) /\ Len(s) \in Nat /\ Len(t) \in Nat
         /\ \A i \in 1 .. Len(s) : (s \o t)[i] = s[i]
         /\ \A i \in 1 .. Len(t) : (s \o t)[Len(s) + i] = t[i]
<1>1. s \o t \in Seq(S) /\ Len(s \o t) = Len(s) + Len(t) /\ Len(s) \in Nat /\ Len(t) \in Nat
  OBVIOUS
<1>2. ASSUME NEW i \in 1 .. Len(s) PROVE (s \o t)[i] = s[i]
  OBVIOUS
<1>3. ASSUME NEW i \in 1 .. Len(t) PROVE (s \o t)[Len(s) + i] = t[i]
  OBVIOUS
<1> QED BY <1>1, <1>2, <1>3

\* The partial concatenations.
IsFlatten(f, ss, n) == f = [i \in 1 .. n |-> IF i = 1 THEN ss[i] ELSE f[i - 1] \o ss[i]]

\* The partial concatenations of a sequence of sequences exist.
LEMMA FlattenExists ==
  ASSUME NEW ss, NEW n \in Nat
  PROVE  \E f : IsFlatten(f, ss, n)
<1> DEFINE T == {k \in Nat : \E f : IsFlatten(f, ss, k)}
<1>1. 0 \in T
  <2> DEFINE e == [i \in 1 .. 0 |-> ss[i]]
  <2>1. IsFlatten(e, ss, 0)
    BY DEF IsFlatten
  <2> QED BY <2>1
<1>2. ASSUME NEW k \in Nat, k \in T PROVE k + 1 \in T
  <2>1. PICK f : IsFlatten(f, ss, k)
    BY <1>2
  <2> DEFINE g == [i \in 1 .. k + 1 |-> IF i <= k THEN f[i] ELSE IF i = 1 THEN ss[i] ELSE f[k] \o ss[i]]
  <2>2. ASSUME NEW i \in 1 .. k + 1
        PROVE  g[i] = IF i = 1 THEN ss[i] ELSE g[i - 1] \o ss[i]
    <3>1. CASE i <= k
      <4>1. i \in 1 .. k /\ g[i] = f[i]
        BY <3>1
      <4>2. f[i] = IF i = 1 THEN ss[i] ELSE f[i - 1] \o ss[i]
        BY <2>1, <4>1 DEF IsFlatten
      <4>3. i # 1 => g[i - 1] = f[i - 1]
        BY <4>1
      <4> QED BY <4>1, <4>2, <4>3
    <3>2. CASE ~ (i <= k)
      <4>1. i = k + 1
        BY <3>2
      <4>2. CASE i = 1
        BY <3>2, <4>2
      <4>3. CASE i # 1
        <5>1. k \in 1 .. k + 1 /\ g[k] = f[k] /\ i - 1 = k
          BY <4>1, <4>3
        <5>2. g[i] = f[k] \o ss[i]
          BY <3>2, <4>3
        <5> QED BY <4>3, <5>1, <5>2
      <4> QED BY <4>2, <4>3
    <3> QED BY <3>1, <3>2
  <2>3. g = [i \in 1 .. k + 1 |-> g[i]]
    OBVIOUS
  <2> HIDE DEF g
  <2>4. IsFlatten(g, ss, k + 1)
    BY <2>2, <2>3 DEF IsFlatten
  <2> QED BY <2>4
<1>3. \A k \in Nat : k \in T
  <2> HIDE DEF T
  <2> QED BY <1>1, <1>2, Induction
<1> QED BY <1>3

\* FlattenSeq is the last of the partial concatenations.
LEMMA FlattenFacts ==
  ASSUME NEW S, NEW ss \in Seq(Seq(S)), ss # <<>>
  PROVE  \E f \in [1 .. Len(ss) -> Seq(S)] :
           /\ f[1] = ss[1]
           /\ \A i \in 1 .. Len(ss) : i # 1 => f[i] = f[i - 1] \o ss[i]
           /\ FlattenSeq(ss) = f[Len(ss)]
<1> DEFINE n == Len(ss)
<1>1. n \in Nat /\ n # 0
  OBVIOUS
<1> DEFINE f == CHOOSE g : IsFlatten(g, ss, n)
<1>2. IsFlatten(f, ss, n)
  <2>1. \E g : IsFlatten(g, ss, n)
    BY <1>1, FlattenExists
  <2> QED BY <2>1
<1>3. FlattenSeq(ss) = f[n]
  BY <1>1, Zenon DEF FlattenSeq, IsFlatten
<1> HIDE DEF f
<1>4. /\ f = [i \in 1 .. n |-> f[i]]
      /\ f[1] = ss[1]
      /\ \A i \in 1 .. n : i # 1 => f[i] = f[i - 1] \o ss[i]
  <2>1. f = [i \in 1 .. n |-> IF i = 1 THEN ss[i] ELSE f[i - 1] \o ss[i]]
    BY <1>2 DEF IsFlatten
  <2>2. \A i \in 1 .. n : f[i] = IF i = 1 THEN ss[i] ELSE f[i - 1] \o ss[i]
    BY <2>1
  <2>3. 1 \in 1 .. n
    BY <1>1
  <2>4. f = [i \in 1 .. n |-> f[i]]
    BY <2>1
  <2> QED BY <2>2, <2>3, <2>4
<1> DEFINE T == {k \in Nat : k + 1 <= n => f[k + 1] \in Seq(S)}
<1>5. 0 \in T
  BY <1>1, <1>4
<1>6. ASSUME NEW k \in Nat, k \in T PROVE k + 1 \in T
  <2> SUFFICES ASSUME k + 1 + 1 <= n PROVE f[k + 1 + 1] \in Seq(S)
    OBVIOUS
  <2>1. f[k + 1] \in Seq(S)
    BY <1>1, <1>6
  <2>2. k + 2 \in 1 .. n /\ k + 2 # 1 /\ (k + 2) - 1 = k + 1
    BY <1>1
  <2>3. f[k + 2] = f[(k + 2) - 1] \o ss[k + 2]
    BY <1>4, <2>2
  <2>4. ss[k + 2] \in Seq(S)
    BY <2>2
  <2>5. f[k + 1] \o ss[k + 2] \in Seq(S)
    BY <2>1, <2>4
  <2>6. f[k + 2] \in Seq(S)
    BY <2>2, <2>3, <2>5
  <2>7. k + 1 + 1 = k + 2
    OBVIOUS
  <2> QED BY <2>6, <2>7
<1>7. \A k \in Nat : k \in T
  <2> HIDE DEF T
  <2> QED BY <1>5, <1>6, Induction
<1>8. \A i \in 1 .. n : f[i] \in Seq(S)
  <2> SUFFICES ASSUME NEW i \in 1 .. n PROVE f[i] \in Seq(S)
    OBVIOUS
  <2>1. i - 1 \in Nat /\ (i - 1) + 1 = i /\ i <= n
    BY <1>1
  <2> QED BY <1>7, <2>1
<1>9. f \in [1 .. n -> Seq(S)]
  BY <1>4, <1>8
<1> QED BY <1>3, <1>4, <1>9

\* Concatenating sequences over S gives a sequence over S.
LEMMA FlattenType ==
  ASSUME NEW S, NEW ss \in Seq(Seq(S))
  PROVE  FlattenSeq(ss) \in Seq(S)
<1>1. CASE ss = <<>>
  BY <1>1 DEF FlattenSeq
<1>2. CASE ss # <<>>
  <2>0. \E f \in [1 .. Len(ss) -> Seq(S)] : FlattenSeq(ss) = f[Len(ss)]
    <3> DEFINE P(f) == FlattenSeq(ss) = f[Len(ss)]
    <3>1. PICK f \in [1 .. Len(ss) -> Seq(S)] :
             /\ f[1] = ss[1]
             /\ \A i \in 1 .. Len(ss) : i # 1 => f[i] = f[i - 1] \o ss[i]
             /\ P(f)
      BY <1>2, FlattenFacts, Zenon
    <3> QED BY ONLY <3>1, Zenon
  <2>1. PICK f \in [1 .. Len(ss) -> Seq(S)] : FlattenSeq(ss) = f[Len(ss)]
    BY ONLY <2>0, Zenon
  <2>2. Len(ss) \in 1 .. Len(ss)
    BY <1>2
  <2> QED BY ONLY <2>1, <2>2
<1> QED BY <1>1, <1>2

-----------------------------------------------------------------------------
(* The blocks of the allocator *)

\* A finite set has its n lowest elements.
LEMMA LowestExist ==
  ASSUME NEW F, F \subseteq Nat, IsFiniteSet(F), NEW n \in Nat, n <= Cardinality(F)
  PROVE  \E S \in SUBSET F : Cardinality(S) = n /\ \A b \in S, c \in F \ S : b < c
<1> DEFINE T == {k \in Nat : k <= Cardinality(F) =>
                   \E S \in SUBSET F : Cardinality(S) = k /\ \A b \in S, c \in F \ S : b < c}
<1>0. Cardinality(F) \in Nat
  BY FS_CardinalityType
<1>1. 0 \in T
  <2>1. Cardinality({}) = 0
    BY FS_EmptySet
  <2> QED BY <2>1
<1>2. ASSUME NEW k \in Nat, k \in T PROVE k + 1 \in T
  <2> SUFFICES ASSUME k + 1 <= Cardinality(F)
               PROVE  \E S \in SUBSET F : Cardinality(S) = k + 1 /\ \A b \in S, c \in F \ S : b < c
    OBVIOUS
  <2>1. PICK S \in SUBSET F : Cardinality(S) = k /\ \A b \in S, c \in F \ S : b < c
    BY <1>0, <1>2
  <2>2. F \ S # {}
    <3>1. F \ S = {} => S = F
      OBVIOUS
    <3>2. S # F
      BY <1>0, <2>1
    <3> QED BY <3>1, <3>2
  <2>3. PICK m \in F \ S : \A c \in F \ S : m <= c
    BY <2>2, Least
  <2>4. IsFiniteSet(S)
    BY FS_Subset
  <2>5. Cardinality(S \cup {m}) = k + 1
    BY <2>1, <2>4, FS_AddElement
  <2>6. ASSUME NEW b \in S \cup {m}, NEW c \in F \ (S \cup {m}) PROVE b < c
    <3>1. CASE b \in S
      BY <2>1, <3>1
    <3>2. CASE b = m
      <4>1. m <= c /\ m # c /\ m \in Nat /\ c \in Nat
        BY <2>3
      <4> QED BY <3>2, <4>1
    <3> QED BY <3>1, <3>2
  <2> QED BY <2>5, <2>6
<1>3. \A k \in Nat : k \in T
  <2> HIDE DEF T
  <2> QED BY <1>1, <1>2, Induction
<1> QED BY <1>3

\* As long as enough blocks are free, those the allocator hands out are free.
LEMMA FreshFacts ==
  ASSUME NEW n \in Nat, n <= Cardinality(Block \ held)
  PROVE  /\ FreshBlocks(n) \subseteq Block \ held
         /\ IsFiniteSet(FreshBlocks(n)) /\ Cardinality(FreshBlocks(n)) = n
<1>1. IsFiniteSet(Block)
  BY FS_Interval, StreamsAssumption DEF Block
<1>2. Block \ held \subseteq Nat /\ IsFiniteSet(Block \ held)
  BY <1>1, FS_Subset, StreamsAssumption DEF Block
<1>3. \E S \in SUBSET (Block \ held) : Cardinality(S) = n /\ \A b \in S, c \in (Block \ held) \ S : b < c
  BY <1>2, LowestExist
<1>4. FreshBlocks(n) \in SUBSET (Block \ held) /\ Cardinality(FreshBlocks(n)) = n
  BY <1>3 DEF FreshBlocks
<1>5. IsFiniteSet(FreshBlocks(n))
  BY <1>2, <1>4, FS_Subset
<1> QED BY <1>4, <1>5

LP == INSTANCE ParamLifecycleProofs WITH at <- fetching, gathers <- UnderWay

-----------------------------------------------------------------------------
(* The host thread's program *)

StartEvents == {Event(kind, p) : kind \in {"convert", "gather", "add_hook"}, p \in Params}
HookEvents == {Event(kind, m) : kind \in {"pre_fwd", "use", "post_fwd", "pre_bwd", "post_bwd"}, m \in Mods}
EndEvents == {Event(kind, NoMod) : kind \in {"reset_step", "epilogue", "release_all", "update"}}
HostEvents == StartEvents \cup HookEvents \cup EndEvents

\* What the host thread runs before the first iteration, and in the n-th.
Script(n) == IF n = 0 THEN BringUp ELSE schedule[n] \o Backward(schedule[n]) \o EndOfStep

\* The events of the script that it has run.
Done == Len(Script(iter)) - Len(todo)

AtScript ==
  /\ schedule \in Schedules /\ iter \in 0 .. Len(schedule)
  /\ todo \in Seq(HostEvents) /\ Done \in Nat
  /\ \A i \in 1 .. Len(todo) : todo[i] = Script(iter)[Done + i]

-----------------------------------------------------------------------------
(* The trace *)

IsTrace(t) ==
  /\ t = [mode |-> t.mode, submodule_order |-> t.submodule_order, param_order |-> t.param_order,
          recent |-> t.recent, fetched_for |-> t.fetched_for, queue |-> t.queue, step_id |-> t.step_id]
  /\ t.mode \in {"RECORD", "COMPLETE", "INVALID"}
  /\ t.submodule_order \in Seq(Mods)
  /\ t.param_order \in Seq(Use) /\ t.queue \in Seq(Use)
  /\ t.fetched_for \in [Mods -> Seq(Nat)] /\ t.step_id \in Nat
  /\ t.mode = "RECORD" => \A m \in Mods :
       Len(t.fetched_for[m]) = Cardinality({j \in 1 .. Len(t.submodule_order) : t.submodule_order[j] = m})
  /\ t.mode = "INVALID" => t.submodule_order = <<>>

-----------------------------------------------------------------------------
(* Gathers and fetches *)

\* The parameters gathered together are in flight together, with one handle.
InFlightTogether ==
  /\ registry = [p \in Params |-> registry[p]]
  /\ \A p \in Params : status[p] = "INFLIGHT" =>
       /\ p \in registry[p].ps /\ registry[p].ps \subseteq Params
       /\ \A q \in registry[p].ps : status[q] = "INFLIGHT" /\ registry[q] = registry[p]

\* fetch_sub_module has taken the parameters it no longer waits for.
FetchUnderWay ==
  /\ fetching = NoMod => waiting = {}
  /\ fetching # NoMod =>
       /\ waiting \subseteq ParamsOf[fetching]
       /\ \A p \in ParamsOf[fetching] \ waiting : fetching \in active[p]
       /\ Running => todo # <<>> /\ todo[1].m = fetching /\ todo[1].ev \in {"pre_fwd", "pre_bwd"}

\* The preparation: converted one after the other, then gathered and hooked.
BeforeLoop ==
  Running /\ iter = 0 =>
    /\ fetching = NoMod
    /\ \A p \in Params : active[p] = {} /\ registry[p] = NoHandle
    /\ \A i \in 1 .. Cardinality(Params) :
         status[Nth(Params, i)] = IF i > Done \/ Done = Cardinality(Params) + 2 * i - 1
                                  THEN "AVAILABLE" ELSE "NOT_AVAILABLE"

\* Between release_and_reset_all and the next iteration nothing is gathered.
Released ==
  Running /\ iter > 0 /\ Len(todo) <= 1 =>
    \A p \in Params : status[p] = "NOT_AVAILABLE" /\ ~ InRegistry(p)

CtlInv == IsTrace(tr) /\ AtScript /\ InFlightTogether /\ FetchUnderWay /\ BeforeLoop /\ Released /\ LP!Inv

-----------------------------------------------------------------------------
(* The host thread's script *)

BackwardEvents == {Event(kind, m) : kind \in {"use", "pre_bwd", "post_bwd"}, m \in Mods}

\* What autograd runs for an event of a forward pass is a sequence of hooks.
LEMMA UndoType ==
  ASSUME NEW e \in ForwardEvents
  PROVE  Undo(e) \in Seq(BackwardEvents) /\ e \in HookEvents
<1>1. PICK kind \in {"pre_fwd", "use", "post_fwd"}, m \in Mods : e = Event(kind, m)
  BY DEF ForwardEvents
<1>2. e.ev = kind /\ e.m = m
  BY <1>1 DEF Event
<1>3. e \in HookEvents
  BY <1>1 DEF HookEvents
<1>4. Event("pre_bwd", m) \in BackwardEvents /\ Event("post_bwd", m) \in BackwardEvents /\ Event("use", m) \in BackwardEvents
  BY DEF BackwardEvents
<1>5. Outputs[m] \in Nat
  BY OffloadAssumption
<1>6. CASE kind = "post_fwd"
  <2>1. Undo(e) = [i \in 1 .. Outputs[m] |-> Event("pre_bwd", m)]
    BY <1>2, <1>6 DEF Undo
  <2> QED BY <1>3, <1>4, <1>5, <2>1
<1>7. CASE kind = "pre_fwd"
  <2>1. Undo(e) = IF m \in NoGradIn THEN <<>> ELSE <<Event("post_bwd", m)>>
    BY <1>2, <1>7 DEF Undo
  <2> QED BY <1>3, <1>4, <2>1
<1>8. CASE kind = "use"
  <2>1. Undo(e) = <<e>>
    BY <1>2, <1>8 DEF Undo
  <2>2. e \in BackwardEvents
    BY <1>1, <1>4, <1>8
  <2>3. <<e>> \in Seq(BackwardEvents)
    BY ONLY <2>2
  <2> QED BY <1>3, <2>1, <2>3
<1> QED BY <1>1, <1>6, <1>7, <1>8

\* The backward pass of a forward script is a script of backward events.
LEMMA BackwardType ==
  ASSUME NEW f \in Seq(ForwardEvents)
  PROVE  Backward(f) \in Seq(BackwardEvents) /\ Backward(f) \in Seq(HookEvents) /\ f \in Seq(HookEvents)
<1> DEFINE g == [i \in DOMAIN f |-> Undo(f[Len(f) + 1 - i])]
<1>1. g = [i \in 1 .. Len(f) |-> Undo(f[Len(f) + 1 - i])] /\ Len(f) \in Nat
  OBVIOUS
<1>2. ASSUME NEW i \in 1 .. Len(f) PROVE Undo(f[Len(f) + 1 - i]) \in Seq(BackwardEvents)
  <2>1. Len(f) + 1 - i \in 1 .. Len(f)
    OBVIOUS
  <2>2. f[Len(f) + 1 - i] \in ForwardEvents
    BY <2>1
  <2> QED BY <2>2, UndoType
<1>3. g \in Seq(Seq(BackwardEvents))
  BY <1>1, <1>2
<1>4. Backward(f) \in Seq(BackwardEvents)
  <2> HIDE DEF g
  <2>1. FlattenSeq(g) \in Seq(BackwardEvents)
    BY <1>3, FlattenType
  <2> QED BY <2>1 DEF Backward, g
<1>5. f \in Seq(HookEvents)
  BY UndoType
<1>6. BackwardEvents \subseteq HookEvents
  BY DEF BackwardEvents, HookEvents
<1> QED BY <1>4, <1>5, <1>6

\* A script ends with the four events of the end of a step; those before are hooks.
LEMMA LoopScript ==
  ASSUME schedule \in Schedules, NEW n \in 1 .. Len(schedule)
  PROVE  /\ Script(n) \in Seq(HostEvents) /\ Len(Script(n)) >= 4
         /\ \A i \in 1 .. Len(Script(n)) - 4 : Script(n)[i] \in HookEvents
         /\ Script(n)[Len(Script(n)) - 3] = Event("reset_step", NoMod)
         /\ Script(n)[Len(Script(n)) - 2] = Event("epilogue", NoMod)
         /\ Script(n)[Len(Script(n)) - 1] = Event("release_all", NoMod)
         /\ Script(n)[Len(Script(n))] = Event("update", NoMod)
<1> DEFINE f == schedule[n]
<1> DEFINE b == Backward(f)
<1>1. f \in Seq(ForwardEvents)
  BY ScheduleAssumption
<1> HIDE DEF f
<1>2. b \in Seq(HookEvents) /\ f \in Seq(HookEvents)
  BY <1>1, BackwardType
<1>3. Script(n) = f \o b \o EndOfStep
  <2>1. n # 0
    OBVIOUS
  <2> QED BY <2>1 DEF Script, f
<1> HIDE DEF b
<1>4. /\ EndOfStep \in Seq(EndEvents) /\ Len(EndOfStep) = 4
      /\ EndOfStep[1] = Event("reset_step", NoMod) /\ EndOfStep[2] = Event("epilogue", NoMod)
      /\ EndOfStep[3] = Event("release_all", NoMod) /\ EndOfStep[4] = Event("update", NoMod)
  <2>1. \A k \in {"reset_step", "epilogue", "release_all", "update"} : Event(k, NoMod) \in EndEvents
    BY DEF EndEvents
  <2> QED BY <2>1 DEF EndOfStep
<1> DEFINE h == f \o b
<1>5. h \in Seq(HookEvents) /\ Script(n) = h \o EndOfStep
  BY <1>2, <1>3
<1> HIDE DEF h
<1>6. /\ Len(Script(n)) = Len(h) + 4 /\ Len(h) \in Nat
      /\ \A i \in 1 .. Len(h) : Script(n)[i] = h[i]
      /\ \A i \in 1 .. 4 : Script(n)[Len(h) + i] = EndOfStep[i]
  <2>1. h \in Seq(HostEvents) /\ EndOfStep \in Seq(HostEvents)
    BY <1>4, <1>5 DEF HostEvents
  <2>2. /\ Len(h \o EndOfStep) = Len(h) + Len(EndOfStep) /\ Len(h) \in Nat
        /\ \A i \in 1 .. Len(h) : (h \o EndOfStep)[i] = h[i]
        /\ \A i \in 1 .. Len(EndOfStep) : (h \o EndOfStep)[Len(h) + i] = EndOfStep[i]
    BY <2>1, ConcatFacts
  <2>3. h \o EndOfStep = Script(n) /\ Len(EndOfStep) = 4
    BY <1>4, <1>5
  <2> QED BY <2>2, <2>3
<1>7. Script(n) \in Seq(HostEvents)
  <2>1. h \in Seq(HostEvents) /\ EndOfStep \in Seq(HostEvents)
    BY <1>4, <1>5 DEF HostEvents
  <2> QED BY <1>5, <2>1
<1>8. \A i \in 1 .. Len(h) : Script(n)[i] \in HookEvents
  BY <1>5, <1>6
<1>9. /\ Len(Script(n)) - 3 = Len(h) + 1 /\ Len(Script(n)) - 2 = Len(h) + 2
      /\ Len(Script(n)) - 1 = Len(h) + 3 /\ Len(Script(n)) = Len(h) + 4
      /\ Len(Script(n)) - 4 = Len(h)
  BY <1>6
<1> QED BY <1>4, <1>6, <1>7, <1>8, <1>9

\* The preparation converts the parameters, then gathers and hooks each.
LEMMA StartScript ==
  /\ Script(0) \in Seq(HostEvents) /\ Cardinality(Params) \in Nat
  /\ Len(Script(0)) = 3 * Cardinality(Params)
  /\ \A i \in 1 .. Cardinality(Params) :
       /\ Script(0)[i] = Event("convert", Nth(Params, i))
       /\ Script(0)[Cardinality(Params) + 2 * i - 1] = Event("gather", Nth(Params, i))
       /\ Script(0)[Cardinality(Params) + 2 * i] = Event("add_hook", Nth(Params, i))
<1> DEFINE n == Cardinality(Params)
<1>0. n \in Nat /\ \A i \in 1 .. n : Nth(Params, i) \in Params
  BY NthFacts, StreamsAssumption
<1> HIDE DEF n
<1> DEFINE c == [i \in 1 .. n |-> Event("convert", Nth(Params, i))]
           g == [i \in 1 .. n |-> <<Event("gather", Nth(Params, i)), Event("add_hook", Nth(Params, i))>>]
<1>1. Script(0) = c \o FlattenSeq(g)
  <2>1. /\ Ascending(Params) = [i \in 1 .. n |-> Nth(Params, i)]
        /\ DOMAIN Ascending(Params) = 1 .. n
        /\ \A i \in 1 .. n : Ascending(Params)[i] = Nth(Params, i)
    BY DEF Ascending, n
  <2>2. [i \in DOMAIN Ascending(Params) |-> Event("convert", Ascending(Params)[i])] = c
    BY <2>1
  <2>3. [i \in DOMAIN Ascending(Params) |-> <<Event("gather", Ascending(Params)[i]), Event("add_hook", Ascending(Params)[i])>>] = g
    BY <2>1
  <2> HIDE DEF c, g
  <2>4. BringUp = c \o FlattenSeq(g)
    BY <2>2, <2>3 DEF BringUp
  <2> QED BY <2>4 DEF Script
<1>2. c \in Seq(HostEvents) /\ Len(c) = n /\ \A i \in 1 .. n : c[i] = Event("convert", Nth(Params, i))
  <2>1. \A p \in Params : Event("convert", p) \in HostEvents
    BY DEF HostEvents, StartEvents
  <2> QED BY <1>0, <2>1
<1>3. /\ g \in Seq(Seq(HostEvents)) /\ Len(g) = n
      /\ \A i \in 1 .. n : g[i] = <<Event("gather", Nth(Params, i)), Event("add_hook", Nth(Params, i))>>
  <2>1. \A p \in Params : Event("gather", p) \in HostEvents /\ Event("add_hook", p) \in HostEvents
    BY DEF HostEvents, StartEvents
  <2>2. ASSUME NEW i \in 1 .. n
        PROVE  <<Event("gather", Nth(Params, i)), Event("add_hook", Nth(Params, i))>> \in Seq(HostEvents)
    BY <1>0, <2>1
  <2> QED BY <1>0, <2>2
<1> HIDE DEF c, g
<1>4. /\ FlattenSeq(g) \in Seq(HostEvents)
      /\ Len(FlattenSeq(g)) = 2 * n
      /\ \A i \in 1 .. n : /\ FlattenSeq(g)[2 * i - 1] = Event("gather", Nth(Params, i))
                           /\ FlattenSeq(g)[2 * i] = Event("add_hook", Nth(Params, i))
  <2>1. CASE n = 0
    BY <1>3, <2>1 DEF FlattenSeq
  <2>2. CASE n # 0
    <3>1. PICK f \in [1 .. n -> Seq(HostEvents)] :
            /\ f[1] = g[1]
            /\ \A i \in 1 .. n : i # 1 => f[i] = f[i - 1] \o g[i]
            /\ FlattenSeq(g) = f[n]
      <4>1. g # <<>>
        BY <1>0, <1>3, <2>2
      <4> QED BY <1>3, <4>1, FlattenFacts
    <3> DEFINE Pairs(k) == /\ Len(f[k]) = 2 * k
                           /\ \A i \in 1 .. k : /\ f[k][2 * i - 1] = Event("gather", Nth(Params, i))
                                                /\ f[k][2 * i] = Event("add_hook", Nth(Params, i))
               T == {k \in Nat : k + 1 <= n => Pairs(k + 1)}
    <3>2. 0 \in T
      <4>1. 1 \in 1 .. n
        BY <1>0, <2>2
      <4>2. f[1] = <<Event("gather", Nth(Params, 1)), Event("add_hook", Nth(Params, 1))>>
        BY <1>3, <3>1, <4>1
      <4>3. Len(f[1]) = 2 /\ f[1][1] = Event("gather", Nth(Params, 1)) /\ f[1][2] = Event("add_hook", Nth(Params, 1))
        BY <4>2
      <4> QED BY <4>3
    <3>3. ASSUME NEW k \in Nat, k \in T PROVE k + 1 \in T
      <4> SUFFICES ASSUME k + 1 + 1 <= n PROVE Pairs(k + 1 + 1)
        OBVIOUS
      <4>1. PICK j \in Nat : j = k + 1
        OBVIOUS
      <4>2. j \in 1 .. n /\ j + 1 \in 1 .. n /\ j + 1 # 1 /\ (j + 1) - 1 = j /\ k + 1 + 1 = j + 1
        BY <1>0, <4>1
      <4>3. Pairs(j)
        BY <1>0, <3>3, <4>1, <4>2
      <4>4. f[j] \in Seq(HostEvents) /\ f[j + 1] = f[j] \o g[j + 1]
        BY <3>1, <4>2
      <4>5. g[j + 1] = <<Event("gather", Nth(Params, j + 1)), Event("add_hook", Nth(Params, j + 1))>>
        BY <1>3, <4>2
      <4>6. /\ Len(f[j + 1]) = Len(f[j]) + 2
            /\ \A i \in 1 .. Len(f[j]) : f[j + 1][i] = f[j][i]
            /\ f[j + 1][Len(f[j]) + 1] = Event("gather", Nth(Params, j + 1))
            /\ f[j + 1][Len(f[j]) + 2] = Event("add_hook", Nth(Params, j + 1))
        BY <4>4, <4>5
      <4>7. Len(f[j + 1]) = 2 * (j + 1)
        BY <4>3, <4>6
      <4>8. ASSUME NEW i \in 1 .. j + 1
            PROVE  /\ f[j + 1][2 * i - 1] = Event("gather", Nth(Params, i))
                   /\ f[j + 1][2 * i] = Event("add_hook", Nth(Params, i))
        <5>1. CASE i = j + 1
          <6>1. 2 * i - 1 = Len(f[j]) + 1 /\ 2 * i = Len(f[j]) + 2
            BY <4>3, <5>1
          <6> QED BY <4>6, <5>1, <6>1
        <5>2. CASE i # j + 1
          <6>1. i \in 1 .. j /\ 2 * i - 1 \in 1 .. Len(f[j]) /\ 2 * i \in 1 .. Len(f[j])
            BY <4>3, <5>2
          <6>2. f[j][2 * i - 1] = Event("gather", Nth(Params, i)) /\ f[j][2 * i] = Event("add_hook", Nth(Params, i))
            BY <4>3, <6>1
          <6> QED BY <4>6, <6>1, <6>2
        <5> QED BY <5>1, <5>2
      <4> QED BY <4>2, <4>7, <4>8
    <3>4. \A k \in Nat : k \in T
      <4> HIDE DEF T
      <4> QED BY <3>2, <3>3, Induction
    <3>5. Pairs(n)
      <4>1. PICK k \in Nat : n = k + 1
        BY <1>0, <2>2
      <4> QED BY <3>4, <4>1
    <3> QED BY <1>0, <2>2, <3>1, <3>5
  <2> QED BY <2>1, <2>2
<1> DEFINE q == FlattenSeq(g)
<1>5. /\ Script(0) = c \o q /\ q \in Seq(HostEvents) /\ Len(q) = 2 * n
      /\ \A i \in 1 .. n : q[2 * i - 1] = Event("gather", Nth(Params, i)) /\ q[2 * i] = Event("add_hook", Nth(Params, i))
  BY <1>1, <1>4
<1> HIDE DEF q
<1>6. /\ Script(0) \in Seq(HostEvents) /\ Len(Script(0)) = n + 2 * n
      /\ \A i \in 1 .. n : Script(0)[i] = c[i]
      /\ \A i \in 1 .. 2 * n : Script(0)[n + i] = q[i]
  <2>1. /\ c \o q \in Seq(HostEvents) /\ Len(c \o q) = Len(c) + Len(q)
        /\ \A i \in 1 .. Len(c) : (c \o q)[i] = c[i]
        /\ \A i \in 1 .. Len(q) : (c \o q)[Len(c) + i] = q[i]
    <3>1. c \in Seq(HostEvents) /\ q \in Seq(HostEvents)
      BY <1>2, <1>5
    <3> QED BY <3>1, ConcatFacts
  <2>2. c \o q = Script(0) /\ Len(c) = n /\ Len(q) = 2 * n
    BY <1>2, <1>5
  <2> QED BY <2>1, <2>2
<1>7. ASSUME NEW i \in 1 .. n
      PROVE  /\ Script(0)[n + 2 * i - 1] = Event("gather", Nth(Params, i))
             /\ Script(0)[n + 2 * i] = Event("add_hook", Nth(Params, i))
  <2>1. 2 * i - 1 \in 1 .. 2 * n /\ 2 * i \in 1 .. 2 * n /\ n + 2 * i - 1 = n + (2 * i - 1)
    BY <1>0
  <2> QED BY <1>5, <1>6, <2>1
<1>8. n + 2 * n = 3 * n
  BY <1>0
<1> QED BY <1>0, <1>2, <1>6, <1>7, <1>8 DEF n

-----------------------------------------------------------------------------
(* The trace *)

\* The coordinator starts with a trace.
LEMMA TraceInit == IsTrace(EmptyTrace)
<1> DEFINE t == EmptyTrace
<1>1. /\ t = [mode |-> t.mode, submodule_order |-> t.submodule_order, param_order |-> t.param_order,
          recent |-> t.recent, fetched_for |-> t.fetched_for, queue |-> t.queue, step_id |-> t.step_id]
      /\ t.mode = "RECORD" /\ t.submodule_order = <<>> /\ t.param_order = <<>> /\ t.queue = <<>>
      /\ t.fetched_for = [m \in Mods |-> <<>>] /\ t.step_id = 0
  BY DEF EmptyTrace
<1> HIDE DEF t
<1>2. t.submodule_order \in Seq(Mods) /\ t.param_order \in Seq(Use) /\ t.queue \in Seq(Use)
  BY <1>1
<1>3. t.fetched_for \in [Mods -> Seq(Nat)]
  BY <1>1
<1>4. ASSUME NEW m \in Mods
      PROVE  Len(t.fetched_for[m]) = Cardinality({j \in 1 .. Len(t.submodule_order) : t.submodule_order[j] = m})
  <2>1. {j \in 1 .. Len(t.submodule_order) : t.submodule_order[j] = m} = {}
    BY <1>1
  <2>2. t.fetched_for[m] = <<>>
    BY <1>1
  <2> QED BY <2>1, <2>2, FS_EmptySet
<1>5. IsTrace(t)
  BY <1>1, <1>2, <1>3, <1>4 DEF IsTrace
<1> QED BY <1>5 DEF t

\* A submodule the trace does not expect makes it invalid.
LEMMA PrologueTrace ==
  ASSUME NEW t, IsTrace(t), NEW m \in Mods
  PROVE  IsTrace(Prologue(t, m))
<1>1. CASE Prologue(t, m) = t
  BY <1>1
<1>2. CASE Prologue(t, m) # t
  <2> DEFINE u == Invalidated(t)
  <2>1. Prologue(t, m) = u
    BY <1>2 DEF Prologue
  <2> DEFINE R(a, b, c, d, q) ==
               [mode |-> a, submodule_order |-> b, param_order |-> c, recent |-> d,
                fetched_for |-> t.fetched_for, queue |-> q, step_id |-> t.step_id]
             never == [p \in Params |-> Never]
  <2>5. t = R(t.mode, t.submodule_order, t.param_order, t.recent, t.queue)
    BY DEF IsTrace
  <2> DEFINE a == [t EXCEPT !.mode = "INVALID"]
             b == [a EXCEPT !.submodule_order = <<>>]
             c == [b EXCEPT !.param_order = <<>>]
             d == [c EXCEPT !.recent = never]
  <2>6. u = [d EXCEPT !.queue = <<>>]
    BY DEF Invalidated
  <2> HIDE DEF u
  <2>7. a = R("INVALID", t.submodule_order, t.param_order, t.recent, t.queue)
    BY <2>5
  <2> HIDE DEF a
  <2>8. b = R("INVALID", <<>>, t.param_order, t.recent, t.queue)
    BY <2>7
  <2> HIDE DEF b
  <2>9. c = R("INVALID", <<>>, <<>>, t.recent, t.queue)
    BY <2>8
  <2> HIDE DEF c
  <2>10. d = R("INVALID", <<>>, <<>>, never, t.queue)
    BY <2>9
  <2> HIDE DEF d
  <2>11. u = R("INVALID", <<>>, <<>>, never, <<>>)
    BY <2>6, <2>10
  <2>2. /\ u = [mode |-> u.mode, submodule_order |-> u.submodule_order, param_order |-> u.param_order,
            recent |-> u.recent, fetched_for |-> u.fetched_for, queue |-> u.queue, step_id |-> u.step_id]
        /\ u.mode = "INVALID" /\ u.submodule_order = <<>> /\ u.param_order = <<>> /\ u.queue = <<>>
        /\ u.fetched_for = t.fetched_for /\ u.step_id = t.step_id
    BY <2>11
  <2>3. u.submodule_order \in Seq(Mods) /\ u.param_order \in Seq(Use) /\ u.queue \in Seq(Use)
    BY <2>2
  <2>4. IsTrace(u)
    BY <2>2, <2>3 DEF IsTrace
  <2> QED BY <2>1, <2>4
<1> QED BY <1>1, <1>2

\* Recording a submodule keeps one step for each of its entries in the order.
LEMMA RecordedTrace ==
  ASSUME NEW t, IsTrace(t), NEW m \in Mods
  PROVE  IsTrace(Recorded(t, m))
<1>1. CASE t.mode # "RECORD"
  BY <1>1 DEF Recorded
<1>2. CASE t.mode = "RECORD"
  <2> DEFINE u == Recorded(t, m)
             o == t.submodule_order
             f == t.fetched_for
  <2>1. /\ u = [mode |-> u.mode, submodule_order |-> u.submodule_order, param_order |-> u.param_order,
            recent |-> u.recent, fetched_for |-> u.fetched_for, queue |-> u.queue, step_id |-> u.step_id]
        /\ u.mode = "RECORD" /\ u.submodule_order = Append(o, m) /\ u.param_order = t.param_order /\ u.queue = t.queue
        /\ u.fetched_for = [f EXCEPT ![m] = Append(@, t.step_id)] /\ u.step_id = t.step_id
    BY <1>2 DEF IsTrace, Recorded
  <2>2. /\ o \in Seq(Mods) /\ f \in [Mods -> Seq(Nat)] /\ t.step_id \in Nat /\ Len(o) \in Nat
        /\ t.param_order \in Seq(Use) /\ t.queue \in Seq(Use)
        /\ \A k \in Mods : Len(f[k]) = Cardinality({j \in 1 .. Len(o) : o[j] = k})
    BY <1>2 DEF IsTrace
  <2> HIDE DEF u, o, f
  <2>3. u.submodule_order \in Seq(Mods) /\ u.fetched_for \in [Mods -> Seq(Nat)]
    BY <2>1, <2>2
  <2>4. ASSUME NEW k \in Mods
        PROVE  Len(u.fetched_for[k]) = Cardinality({j \in 1 .. Len(u.submodule_order) : u.submodule_order[j] = k})
    <3> DEFINE A == {j \in 1 .. Len(o) : o[j] = k}
               B == {j \in 1 .. Len(u.submodule_order) : u.submodule_order[j] = k}
    <3>1. /\ Len(u.submodule_order) = Len(o) + 1 /\ u.submodule_order[Len(o) + 1] = m
          /\ \A j \in 1 .. Len(o) : u.submodule_order[j] = o[j]
      BY <2>1, <2>2
    <3>2. IsFiniteSet(1 .. Len(o)) /\ A \subseteq 1 .. Len(o)
      BY <2>2, FS_Interval
    <3>3. IsFiniteSet(A) /\ Cardinality(A) \in Nat
      BY <3>2, FS_Subset, FS_CardinalityType
    <3>4. Len(o) + 1 \notin A /\ Len(f[k]) = Cardinality(A) /\ f[k] \in Seq(Nat)
      BY <2>2
    <3>5. CASE k = m
      <4>1. B = A \cup {Len(o) + 1}
        BY <2>2, <3>1, <3>5
      <4>2. Cardinality(B) = Cardinality(A) + 1
        BY <3>3, <3>4, <4>1, FS_AddElement
      <4>3. u.fetched_for[k] = Append(f[k], t.step_id)
        BY <2>1, <2>2, <3>5
      <4>4. Len(u.fetched_for[k]) = Len(f[k]) + 1
        BY <3>4, <4>3, <2>2
      <4> QED BY <3>4, <4>2, <4>4
    <3>6. CASE k # m
      <4>1. B = A
        BY <2>2, <3>1, <3>6
      <4>2. u.fetched_for[k] = f[k]
        BY <2>1, <2>2, <3>6
      <4> QED BY <3>4, <4>1, <4>2
    <3> QED BY <3>5, <3>6
  <2>5. IsTrace(u)
    BY <2>1, <2>2, <2>3, <2>4 DEF IsTrace
  <2> QED BY <2>5 DEF u
<1> QED BY <1>1, <1>2

\* The uses of the trace have a parameter and a step each.
LEMMA ParamTraceType ==
  ASSUME NEW t, IsTrace(t), t.mode = "RECORD"
  PROVE  ParamTrace(t) \in Seq(Use)
<1> DEFINE o == t.submodule_order
           f == t.fetched_for
           us == [i \in DOMAIN o |-> UsesAt(t, i)]
<1>1. /\ o \in Seq(Mods) /\ Len(o) \in Nat /\ DOMAIN o = 1 .. Len(o)
      /\ f \in [Mods -> Seq(Nat)]
      /\ \A m \in Mods : Len(f[m]) = Cardinality({j \in 1 .. Len(o) : o[j] = m})
  BY DEF IsTrace
<1>2. ASSUME NEW i \in 1 .. Len(o)
      PROVE  UsesAt(t, i) \in Seq(Use)
  <2> DEFINE m == o[i]
             nth == Cardinality({j \in 1 .. i : o[j] = m})
             ps == Ascending(ParamsOf[m])
  <2>1. m \in Mods
    BY <1>1
  <2>2. nth \in 1 .. Len(f[m])
    <3> DEFINE A == {j \in 1 .. i : o[j] = m}
               B == {j \in 1 .. Len(o) : o[j] = m}
    <3>1. IsFiniteSet(1 .. Len(o)) /\ B \subseteq 1 .. Len(o) /\ A \subseteq B /\ i \in A
      <4>1. 1 .. i \subseteq 1 .. Len(o) /\ i \in 1 .. i
        BY <1>1
      <4>2. IsFiniteSet(1 .. Len(o))
        <5>1. Len(o) \in Int /\ 1 \in Int
          BY <1>1
        <5> HIDE DEF o
        <5> QED BY ONLY <5>1, FS_Interval
      <4> QED BY <4>1, <4>2
    <3>2. IsFiniteSet(B) /\ IsFiniteSet(A) /\ Cardinality(A) <= Cardinality(B)
      BY <3>1, FS_Subset
    <3>3. Cardinality(A) \in Nat /\ Cardinality(B) \in Nat /\ Cardinality(A) # 0
      BY <3>1, <3>2, FS_CardinalityType, FS_EmptySet
    <3>4. Len(f[m]) = Cardinality(B)
      BY <1>1, <2>1
    <3> QED BY <3>2, <3>3, <3>4
  <2>3. f[m][nth] \in Nat
    <3>1. f[m] \in Seq(Nat)
      BY <1>1, <2>1
    <3> HIDE DEF nth, m
    <3> QED BY <2>2, <3>1
  <2>4. /\ Cardinality(ParamsOf[m]) \in Nat
        /\ ps = [n \in 1 .. Cardinality(ParamsOf[m]) |-> Nth(ParamsOf[m], n)]
        /\ \A n \in 1 .. Cardinality(ParamsOf[m]) : Nth(ParamsOf[m], n) \in Params
    <3>1. ParamsOf[m] \subseteq Params
      BY <2>1, CoordinatorAssumption
    <3>2. ParamsOf[m] \subseteq Nat /\ IsFiniteSet(ParamsOf[m])
      BY <3>1, StreamsAssumption, FS_Subset
    <3> HIDE DEF m
    <3>3. /\ Cardinality(ParamsOf[m]) \in Nat
          /\ \A n \in 1 .. Cardinality(ParamsOf[m]) : Nth(ParamsOf[m], n) \in ParamsOf[m]
      BY <3>2, NthFacts
    <3> QED BY <3>1, <3>3 DEF Ascending
  <2>5. UsesAt(t, i) = [k \in DOMAIN ps |-> [p |-> ps[k], step |-> f[m][nth]]]
    BY DEF UsesAt
  <2> DEFINE st == f[m][nth]
             n == Cardinality(ParamsOf[m])
  <2>6. DOMAIN ps = 1 .. n /\ n \in Nat /\ st \in Nat /\ \A k \in 1 .. n : ps[k] \in Params
    BY <2>3, <2>4
  <2>7. UsesAt(t, i) = [k \in 1 .. n |-> [p |-> ps[k], step |-> st]]
    BY <2>5, <2>6
  <2> HIDE DEF n, st, ps
  <2> QED BY <2>6, <2>7 DEF Use
<1>3. us \in Seq(Seq(Use))
  BY <1>1, <1>2
<1> HIDE DEF us
<1>4. FlattenSeq(us) \in Seq(Use)
  BY <1>3, FlattenType
<1> QED BY <1>4 DEF ParamTrace, us

\* reset_step leaves a complete trace, or one to be recorded from nothing.
LEMMA NextTraceType ==
  ASSUME NEW t, IsTrace(t)
  PROVE  IsTrace(NextTrace(t))
<1> DEFINE u == NextTrace(t)
           order == IF t.mode = "RECORD" THEN ParamTrace(t) ELSE t.param_order
<1>1. order \in Seq(Use)
  BY ParamTraceType DEF IsTrace
<1>2. u = [mode |-> IF t.mode = "INVALID" THEN "RECORD" ELSE "COMPLETE",
       submodule_order |-> t.submodule_order, param_order |-> order,
       recent |-> [p \in Params |-> Never], fetched_for |-> [m \in Mods |-> <<>>],
       queue |-> order, step_id |-> 0]
  BY DEF NextTrace
<1> HIDE DEF u, order
<1>3. /\ u = [mode |-> u.mode, submodule_order |-> u.submodule_order, param_order |-> u.param_order,
          recent |-> u.recent, fetched_for |-> u.fetched_for, queue |-> u.queue, step_id |-> u.step_id]
      /\ u.mode = IF t.mode = "INVALID" THEN "RECORD" ELSE "COMPLETE"
      /\ u.submodule_order = t.submodule_order /\ u.param_order = order /\ u.queue = order
      /\ u.fetched_for = [m \in Mods |-> <<>>] /\ u.step_id = 0
  BY <1>2
<1>4. u.fetched_for \in [Mods -> Seq(Nat)] /\ u.submodule_order \in Seq(Mods)
  BY <1>3 DEF IsTrace
<1>5. ASSUME u.mode = "RECORD", NEW m \in Mods
      PROVE  Len(u.fetched_for[m]) = Cardinality({j \in 1 .. Len(u.submodule_order) : u.submodule_order[j] = m})
  <2>1. t.mode = "INVALID" /\ u.submodule_order = <<>>
    BY <1>3, <1>5 DEF IsTrace
  <2>2. {j \in 1 .. Len(u.submodule_order) : u.submodule_order[j] = m} = {}
    BY <2>1
  <2>3. u.fetched_for[m] = <<>>
    BY <1>3
  <2> QED BY <2>2, <2>3, FS_EmptySet
<1>6. u.mode \in {"RECORD", "COMPLETE"}
  BY <1>3
<1>7. IsTrace(u)
  BY <1>1, <1>3, <1>4, <1>5, <1>6 DEF IsTrace
<1> QED BY <1>7 DEF u

\* The end of a fetch goes on to the next step, with the rest of the queue.
LEMMA StepTrace ==
  ASSUME NEW t, IsTrace(t)
  PROVE  /\ IsTrace([t EXCEPT !.step_id = @ + 1])
         /\ \A r : \A q \in Seq(Use) :
              IsTrace([t EXCEPT !.step_id = @ + 1, !.recent = r, !.queue = q])
<1>1. IsTrace([t EXCEPT !.step_id = @ + 1])
  <2> DEFINE u == [t EXCEPT !.step_id = @ + 1]
  <2>1. /\ u = [mode |-> u.mode, submodule_order |-> u.submodule_order, param_order |-> u.param_order,
            recent |-> u.recent, fetched_for |-> u.fetched_for, queue |-> u.queue, step_id |-> u.step_id]
        /\ u.mode = t.mode /\ u.submodule_order = t.submodule_order /\ u.param_order = t.param_order
        /\ u.queue = t.queue /\ u.fetched_for = t.fetched_for /\ u.step_id = t.step_id + 1
    <3>1. t = [mode |-> t.mode, submodule_order |-> t.submodule_order, param_order |-> t.param_order,
               recent |-> t.recent, fetched_for |-> t.fetched_for, queue |-> t.queue, step_id |-> t.step_id]
      BY DEF IsTrace
    <3>2. u = [mode |-> t.mode, submodule_order |-> t.submodule_order, param_order |-> t.param_order,
               recent |-> t.recent, fetched_for |-> t.fetched_for, queue |-> t.queue, step_id |-> t.step_id + 1]
      BY <3>1
    <3> HIDE DEF u
    <3> QED BY <3>2
  <2> HIDE DEF u
  <2>2. IsTrace(u)
    BY <2>1 DEF IsTrace
  <2> QED BY <2>2 DEF u
<1>2. ASSUME NEW r, NEW q \in Seq(Use)
      PROVE  IsTrace([t EXCEPT !.step_id = @ + 1, !.recent = r, !.queue = q])
  <2> DEFINE u == [t EXCEPT !.step_id = @ + 1, !.recent = r, !.queue = q]
  <2>1. /\ u = [mode |-> u.mode, submodule_order |-> u.submodule_order, param_order |-> u.param_order,
            recent |-> u.recent, fetched_for |-> u.fetched_for, queue |-> u.queue, step_id |-> u.step_id]
        /\ u.mode = t.mode /\ u.submodule_order = t.submodule_order /\ u.param_order = t.param_order
        /\ u.queue = q /\ u.fetched_for = t.fetched_for /\ u.step_id = t.step_id + 1
    <3> DEFINE v == [t EXCEPT !.step_id = @ + 1]
               w == [v EXCEPT !.recent = r]
    <3>1. t = [mode |-> t.mode, submodule_order |-> t.submodule_order, param_order |-> t.param_order,
               recent |-> t.recent, fetched_for |-> t.fetched_for, queue |-> t.queue, step_id |-> t.step_id]
      BY DEF IsTrace
    <3>2. v = [mode |-> t.mode, submodule_order |-> t.submodule_order, param_order |-> t.param_order,
               recent |-> t.recent, fetched_for |-> t.fetched_for, queue |-> t.queue, step_id |-> t.step_id + 1]
      BY <3>1
    <3>3. u = [w EXCEPT !.queue = q]
      OBVIOUS
    <3> HIDE DEF u, v
    <3>4. w = [mode |-> t.mode, submodule_order |-> t.submodule_order, param_order |-> t.param_order,
               recent |-> r, fetched_for |-> t.fetched_for, queue |-> t.queue, step_id |-> t.step_id + 1]
      BY <3>2
    <3> HIDE DEF w
    <3>5. u = [mode |-> t.mode, submodule_order |-> t.submodule_order, param_order |-> t.param_order,
               recent |-> r, fetched_for |-> t.fetched_for, queue |-> q, step_id |-> t.step_id + 1]
      BY <3>3, <3>4
    <3> QED BY <3>5
  <2> HIDE DEF u
  <2>2. IsTrace(u)
    BY <2>1 DEF IsTrace
  <2> QED BY <2>2 DEF u
<1> QED BY <1>1, <1>2

\* Where the queue is cut is a position of it.
LEMMA QueueCuts ==
  ASSUME IsTrace(tr), NEW m
  PROVE  /\ Discarded(m) \in 0 .. Len(tr.queue)
         /\ Scanned(m) \in Discarded(m) .. Len(tr.queue)
         /\ ParamsIn(tr.queue, Discarded(m) + 1, Scanned(m)) \subseteq Params
         /\ SubSeq(tr.queue, Scanned(m) + 1, Len(tr.queue)) \in Seq(Use)
<1> DEFINE q == tr.queue
<1>1. q \in Seq(Use) /\ Len(q) \in Nat
  BY DEF IsTrace
<1>2. ASSUME NEW Ok, NEW from \in 0 .. Len(q)
      PROVE  \E k \in from .. Len(q) : (k \in Ok \/ k = Len(q)) /\ \A j \in from .. k - 1 : ~ j \in Ok
  <2> DEFINE T == {k \in from .. Len(q) : k \in Ok \/ k = Len(q)}
  <2>1. T \subseteq Nat /\ T # {}
    BY <1>1
  <2>2. PICK k \in T : \A j \in T : k <= j
    BY <2>1, Least
  <2>3. ASSUME NEW j \in from .. k - 1 PROVE ~ j \in Ok
    <3>1. j \in from .. Len(q) /\ ~ (k <= j)
      BY <1>1, <2>2
    <3> QED BY <2>2, <3>1
  <2> QED BY <2>2, <2>3
<1>3. Discarded(m) \in 0 .. Len(q)
  <2> DEFINE Ok == {k \in Nat : Cardinality(ParamsIn(tr.queue, 1, k)) >= Cardinality(NotFetched(m))}
  <2>1. \E k \in 0 .. Len(q) : (k \in Ok \/ k = Len(q)) /\ \A j \in 0 .. k - 1 : ~ j \in Ok
    <3> HIDE DEF Ok
    <3>1. 0 \in 0 .. Len(q)
      BY <1>1
    <3> QED BY <1>2, <3>1
  <2>2. \E k \in 0 .. Len(q) :
          /\ Cardinality(ParamsIn(tr.queue, 1, k)) >= Cardinality(NotFetched(m)) \/ k = Len(q)
          /\ \A j \in 0 .. k - 1 : ~ Cardinality(ParamsIn(tr.queue, 1, j)) >= Cardinality(NotFetched(m))
    BY <1>1, <2>1
  <2> QED BY <2>2 DEF Discarded, Shortest
<1> HIDE DEF q
<1>4. Scanned(m) \in Discarded(m) .. Len(q)
  <2>1. CASE PrefetchBucket = 0
    BY <1>1, <1>3, <2>1 DEF Scanned
  <2>2. CASE PrefetchBucket # 0
    <3> DEFINE d == Discarded(m)
    <3> DEFINE Ok == {k \in Nat : NumelOf(NotAvailable(ParamsIn(tr.queue, d + 1, k))) >= PrefetchRoom}
    <3>1. \E k \in d .. Len(q) : (k \in Ok \/ k = Len(q)) /\ \A j \in d .. k - 1 : ~ j \in Ok
      <4> HIDE DEF Ok, d
      <4> QED BY <1>2, <1>3 DEF d
    <3>2. \E k \in d .. Len(q) :
            /\ NumelOf(NotAvailable(ParamsIn(tr.queue, d + 1, k))) >= PrefetchRoom \/ k = Len(q)
            /\ \A j \in d .. k - 1 : ~ NumelOf(NotAvailable(ParamsIn(tr.queue, d + 1, j))) >= PrefetchRoom
      <4> HIDE DEF d
      <4>0. d \in Nat
        BY <1>3 DEF d
      <4> QED BY <1>1, <3>1, <4>0
    <3> QED BY <2>2, <3>2 DEF Scanned, Shortest, q
  <2> QED BY <2>1, <2>2
<1>5. ParamsIn(tr.queue, Discarded(m) + 1, Scanned(m)) \subseteq Params
  <2> SUFFICES ASSUME NEW k \in Discarded(m) + 1 .. Scanned(m) PROVE tr.queue[k].p \in Params
    BY DEF ParamsIn
  <2>1. k \in 1 .. Len(q)
    BY <1>1, <1>3, <1>4
  <2>2. q[k] \in Use
    BY <1>1, <2>1
  <2> QED BY <2>2 DEF Use, q
<1>6. SubSeq(tr.queue, Scanned(m) + 1, Len(tr.queue)) \in Seq(Use)
  BY <1>1, <1>3, <1>4 DEF q
<1> QED BY <1>3, <1>4, <1>5, <1>6 DEF q

-----------------------------------------------------------------------------
(* Where the host thread is *)

NetworkFacts == 
  /\ NoMod \notin Mods /\ ParamsOf \in [Mods -> SUBSET Params]
  /\ Cardinality(Params) \in Nat
  /\ \A i \in 1 .. Cardinality(Params) : Nth(Params, i) \in Params
  /\ \A i, j \in 1 .. Cardinality(Params) : i # j => Nth(Params, i) # Nth(Params, j)
  /\ \A p \in Params : \E i \in 1 .. Cardinality(Params) : Nth(Params, i) = p

\* What the assumptions say of the submodules and of the enumeration of the
\* parameters.
LEMMA Network == NetworkFacts
BY CoordinatorAssumption, NthFacts, StreamsAssumption DEF NetworkFacts, NoMod

\* The fields of the events.
LEMMA EventFields ==
  /\ \A e \in StartEvents : e.ev \in {"convert", "gather", "add_hook"} /\ e.m \in Params
  /\ \A e \in HookEvents : e.ev \in {"pre_fwd", "use", "post_fwd", "pre_bwd", "post_bwd"} /\ e.m \in Mods
  /\ \A e \in EndEvents : e.ev \in {"reset_step", "epilogue", "release_all", "update"} /\ e.m = NoMod
  /\ \A kind, m : Event(kind, m).ev = kind /\ Event(kind, m).m = m
BY DEF StartEvents, HookEvents, EndEvents, Event

\* The kind of the next event tells where in the script the host thread is.
LEMMA NowLoop ==
  ASSUME AtScript, NEW kind, todo # <<>>, Head(todo).ev = kind
  PROVE  /\ kind \in {"convert", "gather", "add_hook"} => iter = 0
         /\ kind \in {"pre_fwd", "use", "post_fwd", "pre_bwd", "post_bwd"} =>
              iter > 0 /\ Mod \in Mods /\ Len(todo) > 4
         /\ kind = "reset_step" => iter > 0 /\ Len(todo) = 4
         /\ kind = "epilogue" => iter > 0 /\ Len(todo) = 3
         /\ kind = "release_all" => iter > 0 /\ Len(todo) = 2
         /\ kind = "update" => iter > 0 /\ Len(todo) = 1
<1>1. /\ todo # <<>> /\ todo \in Seq(HostEvents) /\ Head(todo) = todo[1] /\ todo[1].ev = kind
      /\ Done \in Nat /\ todo[1] = Script(iter)[Done + 1]
      /\ iter \in Nat /\ schedule \in Schedules /\ iter \in 0 .. Len(schedule)
  BY ScheduleAssumption DEF AtScript
<1>2. Len(todo) \in Nat /\ Len(todo) # 0 /\ todo[1] \in HostEvents
  BY <1>1
<1>3. CASE iter = 0
  <2>1. Len(Script(0)) = 3 * Cardinality(Params) /\ Cardinality(Params) \in Nat /\ Script(0) \in Seq(HostEvents)
    BY StartScript
  <2>2. Done + 1 \in 1 .. 3 * Cardinality(Params)
    BY <1>1, <1>2, <1>3, <2>1 DEF Done
  <2>3. kind \in {"convert", "gather", "add_hook"}
    <3> DEFINE N == Cardinality(Params)
    <3>1. CASE Done + 1 <= N
      <4>1. Done + 1 \in 1 .. N
        BY <1>1, <2>1, <3>1
      <4>2. Script(0)[Done + 1] = Event("convert", Nth(Params, Done + 1))
        BY <4>1, StartScript
      <4> QED BY <1>1, <1>3, <4>2, EventFields
    <3>2. CASE Done + 1 > N
      <4>1. PICK x \in 1 .. 2 * N : Done + 1 = N + x
        <5>1. Done + 1 - N \in 1 .. 2 * N /\ Done + 1 = N + (Done + 1 - N)
          BY <1>1, <2>1, <2>2, <3>2
        <5> QED BY <5>1
      <4>2. PICK i \in 1 .. N : x = 2 * i - 1 \/ x = 2 * i
        <5>1. (x + 1) \div 2 \in 1 .. N /\ (x = 2 * ((x + 1) \div 2) - 1 \/ x = 2 * ((x + 1) \div 2))
          BY <2>1
        <5> QED BY <5>1
      <4>3. /\ Script(0)[N + 2 * i - 1] = Event("gather", Nth(Params, i))
            /\ Script(0)[N + 2 * i] = Event("add_hook", Nth(Params, i))
        BY StartScript
      <4>4. Done + 1 = N + 2 * i - 1 \/ Done + 1 = N + 2 * i
        BY <2>1, <4>1, <4>2
      <4> QED BY <1>1, <1>3, <4>3, <4>4, EventFields
    <3> QED BY <1>1, <2>1, <3>1, <3>2
  <2> QED BY <1>3, <2>3
<1>4. CASE iter # 0
  <2> DEFINE K == Len(Script(iter))
  <2>1. /\ K \in Nat /\ K >= 4 /\ \A i \in 1 .. K - 4 : Script(iter)[i] \in HookEvents
        /\ Script(iter)[K - 3] = Event("reset_step", NoMod)
        /\ Script(iter)[K - 2] = Event("epilogue", NoMod)
        /\ Script(iter)[K - 1] = Event("release_all", NoMod)
        /\ Script(iter)[K] = Event("update", NoMod)
    BY <1>1, <1>4, LoopScript
  <2>2. Done = K - Len(todo)
    BY DEF Done
  <2> HIDE DEF K
  <2>3. \/ Done + 1 \in 1 .. K - 4 /\ Len(todo) > 4
        \/ Done + 1 = K - 3 /\ Len(todo) = 4
        \/ Done + 1 = K - 2 /\ Len(todo) = 3
        \/ Done + 1 = K - 1 /\ Len(todo) = 2
        \/ Done + 1 = K /\ Len(todo) = 1
    <3>1. PICK k \in Nat : k = Len(todo) /\ k # 0 /\ Done = K - k
      BY <1>2, <2>2
    <3>2. k > 4 \/ k = 4 \/ k = 3 \/ k = 2 \/ k = 1
      BY <3>1
    <3>3. K \in Nat /\ K >= 4 /\ Done \in Nat
      BY <1>1, <2>1
    <3>4. CASE k > 4
      <4>1. Done + 1 \in 1 .. K - 4
        BY ONLY <3>1, <3>3, <3>4
      <4> QED BY <3>1, <3>4, <4>1
    <3> QED BY ONLY <3>1, <3>2, <3>3, <3>4
  <2>4. iter > 0
    BY <1>1, <1>4
  <2>5. CASE Done + 1 \in 1 .. K - 4 /\ Len(todo) > 4
    <3>1. todo[1] \in HookEvents
      BY <1>1, <2>1, <2>5
    <3>2. kind \in {"pre_fwd", "use", "post_fwd", "pre_bwd", "post_bwd"} /\ Mod \in Mods
      BY <1>1, <3>1, EventFields DEF Mod
    <3> QED BY <2>4, <2>5, <3>2
  <2>6. CASE Done + 1 = K - 3 /\ Len(todo) = 4
    <3>1. todo[1] = Event("reset_step", NoMod)
      BY <1>1, <2>1, <2>6
    <3>2. kind = "reset_step"
      BY <1>1, <3>1, EventFields
    <3> QED BY <2>4, <2>6, <3>2
  <2>7. CASE Done + 1 = K - 2 /\ Len(todo) = 3
    <3>1. todo[1] = Event("epilogue", NoMod)
      BY <1>1, <2>1, <2>7
    <3>2. kind = "epilogue"
      BY <1>1, <3>1, EventFields
    <3> QED BY <2>4, <2>7, <3>2
  <2>8. CASE Done + 1 = K - 1 /\ Len(todo) = 2
    <3>1. todo[1] = Event("release_all", NoMod)
      BY <1>1, <2>1, <2>8
    <3>2. kind = "release_all"
      BY <1>1, <3>1, EventFields
    <3> QED BY <2>4, <2>8, <3>2
  <2>9. CASE Done + 1 = K /\ Len(todo) = 1
    <3>1. todo[1] = Event("update", NoMod)
      BY <1>1, <2>1, <2>9
    <3>2. kind = "update"
      BY <1>1, <3>1, EventFields
    <3> QED BY <2>4, <2>9, <3>2
  <2> QED BY <2>3, <2>5, <2>6, <2>7, <2>8, <2>9
<1> QED BY <1>3, <1>4

\* ... and of the preparation, with which parameter.
LEMMA NowStart ==
  ASSUME AtScript, NEW kind \in {"convert", "gather", "add_hook"}, Now(kind)
  PROVE  /\ iter = 0 /\ Mod \in Params
         /\ \E i \in 1 .. Cardinality(Params) :
              /\ Mod = Nth(Params, i)
              /\ Done = CASE kind = "convert" -> i - 1
                          [] kind = "gather" -> Cardinality(Params) + 2 * i - 2
                          [] kind = "add_hook" -> Cardinality(Params) + 2 * i - 1
<1> DEFINE N == Cardinality(Params)
<1>1. /\ todo # <<>> /\ todo \in Seq(HostEvents) /\ Head(todo) = todo[1] /\ todo[1].ev = kind
      /\ Done \in Nat /\ todo[1] = Script(iter)[Done + 1]
      /\ iter \in Nat /\ schedule \in Schedules /\ iter \in 0 .. Len(schedule)
  BY ScheduleAssumption DEF Now, AtScript
<1>2. Done + 1 \in 1 .. Len(Script(iter)) /\ Len(Script(iter)) \in Nat
  <2>1. Script(iter) \in Seq(HostEvents)
    <3>1. CASE iter = 0
      BY <3>1, StartScript
    <3>2. CASE iter # 0
      BY <1>1, <3>2, LoopScript
    <3> QED BY <3>1, <3>2
  <2>2. Len(todo) \in Nat /\ Len(todo) # 0 /\ Len(Script(iter)) \in Nat
    BY <1>1, <2>1
  <2> QED BY <1>1, <2>2 DEF Done
<1>3. iter = 0
  BY NowLoop DEF Now
<1>4. N \in Nat /\ Len(Script(0)) = 3 * N /\ NetworkFacts
  BY StartScript, Network
<1>5. CASE Done + 1 <= N
  <2>1. Done + 1 \in 1 .. N
    BY <1>1, <1>4, <1>5
  <2>2. Script(0)[Done + 1] = Event("convert", Nth(Params, Done + 1))
    BY <2>1, StartScript
  <2>3. kind = "convert" /\ Mod = Nth(Params, Done + 1)
    BY <1>1, <1>3, <2>2, EventFields DEF Mod
  <2> QED BY <1>1, <1>3, <1>4, <2>1, <2>3 DEF NetworkFacts
<1>6. CASE Done + 1 > N
  <2>1. PICK x \in 1 .. 2 * N : Done + 1 = N + x
    <3>1. Done + 1 - N \in 1 .. 2 * N /\ Done + 1 = N + (Done + 1 - N)
      BY <1>1, <1>2, <1>3, <1>4, <1>6
    <3> QED BY <3>1
  <2>2. PICK i \in 1 .. N : x = 2 * i - 1 \/ x = 2 * i
    <3>1. (x + 1) \div 2 \in 1 .. N /\ (x = 2 * ((x + 1) \div 2) - 1 \/ x = 2 * ((x + 1) \div 2))
      BY <1>4
    <3> QED BY <3>1
  <2>3. /\ Script(0)[N + 2 * i - 1] = Event("gather", Nth(Params, i))
        /\ Script(0)[N + 2 * i] = Event("add_hook", Nth(Params, i))
    BY StartScript
  <2>4. CASE x = 2 * i - 1
    <3>1. Done + 1 = N + 2 * i - 1 /\ Done = N + 2 * i - 2
      <4>1. Done \in Nat /\ N \in Nat /\ i \in Nat
        BY <1>1, <1>4
      <4> HIDE DEF N
      <4> QED BY ONLY <2>1, <2>4, <4>1
    <3>2. kind = "gather" /\ Mod = Nth(Params, i)
      BY <1>1, <1>3, <2>3, <3>1, EventFields DEF Mod
    <3> QED BY <1>3, <1>4, <3>1, <3>2 DEF NetworkFacts
  <2>5. CASE x = 2 * i
    <3>1. Done + 1 = N + 2 * i /\ Done = N + 2 * i - 1
      <4>1. Done \in Nat /\ N \in Nat /\ i \in Nat
        BY <1>1, <1>4
      <4> HIDE DEF N
      <4> QED BY ONLY <2>1, <2>5, <4>1
    <3>2. kind = "add_hook" /\ Mod = Nth(Params, i)
      BY <1>1, <1>3, <2>3, <3>1, EventFields DEF Mod
    <3> QED BY <1>3, <1>4, <3>1, <3>2 DEF NetworkFacts
  <2> QED BY <2>2, <2>4, <2>5
<1> QED BY <1>1, <1>4, <1>5, <1>6

\* One event more of the script is run, or none.
LEMMA ScriptStep ==
  ASSUME AtScript, UNCHANGED loopVars, todo' = todo \/ (todo # <<>> /\ todo' = Tail(todo))
  PROVE  /\ AtScript' /\ Script(iter)' = Script(iter) /\ Len(todo) \in Nat
         /\ todo' = todo => Done' = Done
         /\ todo' # todo => Done' = Done + 1 /\ Len(todo)' = Len(todo) - 1
<1>1. schedule' = schedule /\ iter' = iter
  BY DEF loopVars
<1>2. Script(iter)' = Script(iter)
  BY <1>1 DEF Script
<1>3. todo \in Seq(HostEvents) /\ Len(todo) \in Nat /\ Done \in Nat
  BY DEF AtScript
<1>4. Len(Script(iter)) \in Nat
  <2>1. schedule \in Schedules /\ iter \in 0 .. Len(schedule)
    BY DEF AtScript
  <2>2. CASE iter = 0
    BY <2>2, StartScript
  <2>3. CASE iter # 0
    <3>1. iter \in 1 .. Len(schedule)
      BY <2>1, <2>3, ScheduleAssumption
    <3> QED BY <2>1, <3>1, LoopScript
  <2> QED BY <2>2, <2>3
<1>5. CASE todo' = todo
  <2>1. Done' = Done
    BY <1>2, <1>5 DEF Done
  <2> QED BY <1>1, <1>2, <1>3, <1>5, <2>1 DEF AtScript
<1>6. CASE todo # <<>> /\ todo' = Tail(todo)
  <2>1. /\ todo' \in Seq(HostEvents) /\ Len(todo') = Len(todo) - 1 /\ Len(todo) # 0
        /\ \A i \in 1 .. Len(todo') : todo'[i] = todo[i + 1] /\ i + 1 \in 1 .. Len(todo)
    BY <1>3, <1>6
  <2>2. Done' = Done + 1
    BY <1>2, <1>3, <1>4, <2>1 DEF Done
  <2>3. ASSUME NEW i \in 1 .. Len(todo') PROVE todo'[i] = Script(iter)[Done + 1 + i]
    <3>1. todo[i + 1] = Script(iter)[Done + (i + 1)]
      BY <2>1 DEF AtScript
    <3>2. Done + (i + 1) = Done + 1 + i
      BY <1>3, <2>1
    <3> QED BY <2>1, <3>1, <3>2
  <2>4. Done' \in Nat
    BY <1>3, <2>2
  <2>5. AtScript'
    BY <1>1, <1>2, <2>1, <2>2, <2>3, <2>4 DEF AtScript
  <2>6. todo' # todo
    BY <1>3, <2>1
  <2> QED BY <1>2, <1>3, <2>1, <2>2, <2>5, <2>6
<1> QED BY <1>5, <1>6

-----------------------------------------------------------------------------
(* Gathers, waits and releases seen as steps of the life of the parameters *)

StatusType ==
  /\ status \in [Params -> {"NOT_AVAILABLE", "INFLIGHT", "AVAILABLE"}]
  /\ active \in [Params -> SUBSET Mods] /\ fetching \in Mods \cup {NoMod} /\ weights \in Nat

LEMMA LifeType ==
  ASSUME LP!Inv
  PROVE  /\ StatusType
         /\ \A p \in Params : active[p] # {} => status[p] = "AVAILABLE"
         /\ fetching # NoMod => \A p \in ParamsOf[fetching] : status[p] # "NOT_AVAILABLE"
BY DEF LP!Inv, LP!TypeOK, LP!ActiveAvailable, LP!FetchedStays, LP!NoMod, NoMod, StatusType

\* A gather takes what is not available, under one handle (__all_gather_params).
LEMMA GatherMapped ==
  ASSUME InFlightTogether, StatusType, NEW S \in SUBSET Params, AllGatherParams(S)
  PROVE  /\ InFlightTogether' /\ LP!Gather(S)
         /\ status' \in [Params -> {"NOT_AVAILABLE", "INFLIGHT", "AVAILABLE"}]
         /\ \A p \in Params : status[p] # "NOT_AVAILABLE" => status'[p] = status[p] /\ registry'[p] = registry[p]
         /\ NotAvailable(S) = {} => UNCHANGED <<status, registry>>
<1> DEFINE ps == NotAvailable(S)
<1>1. ps \in SUBSET Params /\ LP!NotAvailable(S) = ps /\ \A p \in ps : status[p] = "NOT_AVAILABLE"
  BY DEF NotAvailable, LP!NotAvailable
<1>2. CASE ps = {}
  <2>1. UNCHANGED <<status, registry>>
    BY <1>2 DEF AllGatherParams
  <2>2. UnderWay' = UnderWay
    BY <2>1 DEF UnderWay
  <2>3. LP!WithStatus({}, "INFLIGHT") = status
    BY DEF LP!WithStatus, StatusType
  <2>4. LP!Gather(S)
    BY <1>1, <1>2, <2>1, <2>2, <2>3 DEF LP!Gather
  <2> QED BY <2>1, <2>4 DEF InFlightTogether, StatusType
<1>3. CASE ps # {}
  <2> DEFINE h == IF ps \subseteq cpuFull THEN HostHandle(ps) ELSE NewHandle(ps)
  <2>1. h.ps = ps
    BY DEF HostHandle, NewHandle
  <2>2. /\ registry' = [p \in Params |-> IF p \in ps THEN h ELSE registry[p]]
        /\ status' = [p \in Params |-> IF p \in ps THEN "INFLIGHT" ELSE status[p]]
    BY <1>3 DEF AllGatherParams
  <2> HIDE DEF h, ps
  <2>3. \A p \in Params : status[p] = "INFLIGHT" => registry[p].ps \cap ps = {}
    <3> SUFFICES ASSUME NEW p \in Params, status[p] = "INFLIGHT", NEW q \in registry[p].ps, q \in ps PROVE FALSE
      OBVIOUS
    <3> QED BY <1>1 DEF InFlightTogether
  <2>4. InFlightTogether'
    <3>1. registry' = [p \in Params |-> registry'[p]]
      BY <2>2
    <3>2. ASSUME NEW p \in Params, status'[p] = "INFLIGHT"
          PROVE  /\ p \in registry'[p].ps /\ registry'[p].ps \subseteq Params
                 /\ \A q \in registry'[p].ps : status'[q] = "INFLIGHT" /\ registry'[q] = registry'[p]
      <4>1. CASE p \in ps
        BY <1>1, <2>1, <2>2, <4>1
      <4>2. CASE p \notin ps
        <5>1. status[p] = "INFLIGHT" /\ registry'[p] = registry[p]
          BY <2>2, <3>2, <4>2
        <5>2. /\ p \in registry[p].ps /\ registry[p].ps \subseteq Params
              /\ \A q \in registry[p].ps : status[q] = "INFLIGHT" /\ registry[q] = registry[p] /\ q \notin ps
          BY <2>3, <5>1 DEF InFlightTogether
        <5> QED BY <2>2, <5>1, <5>2
      <4> QED BY <4>1, <4>2
    <3> QED BY <3>1, <3>2 DEF InFlightTogether
  <2>5. UnderWay' = UnderWay \cup {ps}
    <3>1. ASSUME NEW T \in UnderWay' PROVE T \in UnderWay \cup {ps}
      <4>1. PICK p \in Params : status'[p] = "INFLIGHT" /\ T = registry'[p].ps
        BY DEF UnderWay
      <4>2. CASE p \in ps
        BY <2>1, <2>2, <4>1, <4>2
      <4>3. CASE p \notin ps
        BY <2>2, <4>1, <4>3 DEF UnderWay
      <4> QED BY <4>2, <4>3
    <3>2. ASSUME NEW T \in UnderWay PROVE T \in UnderWay'
      <4>1. PICK p \in Params : status[p] = "INFLIGHT" /\ T = registry[p].ps
        BY DEF UnderWay
      <4>2. p \notin ps
        BY <1>1, <4>1
      <4>3. status'[p] = "INFLIGHT" /\ T = registry'[p].ps
        BY <2>2, <4>1, <4>2
      <4> QED BY <4>3 DEF UnderWay
    <3>3. ps \in UnderWay'
      <4>1. PICK p \in ps : TRUE
        BY <1>3
      <4>2. p \in Params /\ status'[p] = "INFLIGHT" /\ registry'[p].ps = ps
        BY <1>1, <2>1, <2>2
      <4> QED BY <4>2 DEF UnderWay
    <3> QED BY <3>1, <3>2, <3>3
  <2>6. UnderWay' = UnderWay \cup ({ps} \ {{}})
    BY <1>3, <2>5
  <2>7. status' = LP!WithStatus(ps, "INFLIGHT")
    BY <2>2 DEF LP!WithStatus
  <2>8. LP!Gather(S)
    BY <1>1, <2>6, <2>7 DEF LP!Gather
  <2>9. \A p \in Params : status[p] # "NOT_AVAILABLE" => status'[p] = status[p] /\ registry'[p] = registry[p]
    BY <1>1, <2>2
  <2>10. status' \in [Params -> {"NOT_AVAILABLE", "INFLIGHT", "AVAILABLE"}]
    BY <2>2 DEF StatusType
  <2> QED BY <1>3, <2>4, <2>8, <2>9, <2>10 DEF ps
<1> QED BY <1>2, <1>3

\* A round of the wait loop takes the handle of the parameter, for all of its
\* parameters, and never finds one that is not available.
LEMMA WaitMapped ==
  ASSUME InFlightTogether, FetchUnderWay, LP!Inv, NEW p \in Params, p \in waiting, WaitRound(p)
  PROVE  /\ InFlightTogether' /\ LP!Take(p) /\ err' = err
         /\ fetching \in Mods /\ p \in ParamsOf[fetching]
         /\ status[p] # "NOT_AVAILABLE"
         /\ status' = [q \in Params |-> IF status[p] = "INFLIGHT" /\ q \in registry[p].ps THEN "AVAILABLE" ELSE status[q]]
         /\ registry' = [registry EXCEPT ![p] = NoHandle]
<1>1. StatusType /\ fetching # NoMod /\ fetching \in Mods /\ p \in ParamsOf[fetching] /\ status[p] # "NOT_AVAILABLE"
  BY LifeType DEF FetchUnderWay, StatusType
<1>2. registry = [q \in Params |-> registry[q]]
  BY DEF InFlightTogether
<1>3. status[p] = "INFLIGHT" => InRegistry(p)
  BY DEF InFlightTogether, InRegistry, NoHandle
<1>4. status' = [q \in Params |-> IF status[p] = "INFLIGHT" /\ q \in registry[p].ps THEN "AVAILABLE" ELSE status[q]]
  <2>1. CASE status[p] = "INFLIGHT"
    BY <1>3, <2>1 DEF WaitRound
  <2>2. CASE status[p] # "INFLIGHT"
    <3>1. status' = status
      BY <2>2 DEF WaitRound, QueueNoWait
    <3> QED BY <1>1, <2>2, <3>1 DEF StatusType
  <2> QED BY <2>1, <2>2
<1>5. registry' = [registry EXCEPT ![p] = NoHandle]
  <2>1. CASE InRegistry(p)
    BY <2>1 DEF WaitRound
  <2>2. CASE ~ InRegistry(p)
    <3>1. registry' = registry /\ registry[p] = NoHandle
      BY <2>2 DEF WaitRound, InRegistry
    <3> QED BY <1>2, <3>1
  <2> QED BY <2>1, <2>2
<1>6. active' = [active EXCEPT ![p] = @ \cup {fetching}] /\ UNCHANGED <<fetching, weights>>
  BY DEF WaitRound
<1>7. err' = err
  <2>1. status'[p] = "AVAILABLE"
    BY <1>1, <1>4 DEF InFlightTogether, StatusType
  <2> QED BY <2>1 DEF WaitRound
<1> DEFINE S == IF status[p] = "INFLIGHT" THEN registry[p].ps ELSE {}
<1>8. status' = [q \in Params |-> IF q \in S THEN "AVAILABLE" ELSE status[q]]
  BY <1>4
<1>9. /\ \A q \in S : q \in Params /\ status[q] = "INFLIGHT" /\ registry[q].ps = S
      /\ status[p] = "INFLIGHT" => p \in S
      /\ S # {} => status[p] = "INFLIGHT"
  BY DEF InFlightTogether
<1> HIDE DEF S
<1>10. \A q \in Params : status'[q] = "INFLIGHT" <=> status[q] = "INFLIGHT" /\ q \notin S
  BY <1>8
<1>11. \A q \in Params : status'[q] = "INFLIGHT" => registry'[q] = registry[q] /\ q # p
  BY <1>2, <1>5, <1>9, <1>10
<1>12. \A q \in Params : status[q] = "INFLIGHT" /\ q \notin S => registry[q].ps \cap S = {}
  <2> SUFFICES ASSUME NEW q \in Params, status[q] = "INFLIGHT", q \notin S, NEW r \in registry[q].ps, r \in S PROVE FALSE
    OBVIOUS
  <2>1. registry[r].ps = registry[q].ps /\ q \in registry[q].ps
    BY DEF InFlightTogether
  <2> QED BY <1>9, <2>1
<1>13. InFlightTogether'
  <2>1. registry' = [q \in Params |-> registry'[q]]
    BY <1>2, <1>5
  <2>2. ASSUME NEW q \in Params, status'[q] = "INFLIGHT"
        PROVE  /\ q \in registry'[q].ps /\ registry'[q].ps \subseteq Params
               /\ \A r \in registry'[q].ps : status'[r] = "INFLIGHT" /\ registry'[r] = registry'[q]
    <3>1. status[q] = "INFLIGHT" /\ q \notin S /\ registry'[q] = registry[q]
      BY <1>10, <1>11, <2>2
    <3>2. /\ q \in registry[q].ps /\ registry[q].ps \subseteq Params
          /\ \A r \in registry[q].ps : status[r] = "INFLIGHT" /\ registry[r] = registry[q] /\ r \notin S
      BY <1>12, <3>1 DEF InFlightTogether
    <3> QED BY <1>10, <1>11, <3>1, <3>2
  <2> QED BY <2>1, <2>2 DEF InFlightTogether
<1>14. UnderWay' = {T \in UnderWay : p \notin T}
  <2>1. ASSUME NEW T \in UnderWay' PROVE T \in UnderWay /\ p \notin T
    <3>1. PICK q \in Params : status'[q] = "INFLIGHT" /\ T = registry'[q].ps
      BY DEF UnderWay
    <3>2. status[q] = "INFLIGHT" /\ q \notin S /\ T = registry[q].ps
      BY <1>10, <1>11, <3>1
    <3>3. p \notin T
      <4> SUFFICES ASSUME p \in T PROVE FALSE
        OBVIOUS
      <4>1. status[p] = "INFLIGHT"
        BY <3>2 DEF InFlightTogether
      <4> QED BY <1>9, <1>12, <3>2, <4>1
    <3> QED BY <3>2, <3>3 DEF UnderWay
  <2>2. ASSUME NEW T \in UnderWay, p \notin T PROVE T \in UnderWay'
    <3>1. PICK q \in Params : status[q] = "INFLIGHT" /\ T = registry[q].ps
      BY DEF UnderWay
    <3>2. q \notin S
      <4> SUFFICES ASSUME q \in S PROVE FALSE
        OBVIOUS
      <4>1. T = S /\ p \in S
        BY <1>9, <3>1
      <4> QED BY <2>2, <4>1
    <3>3. status'[q] = "INFLIGHT" /\ T = registry'[q].ps
      BY <1>10, <1>11, <3>1, <3>2
    <3> QED BY <3>3 DEF UnderWay
  <2> QED BY <2>1, <2>2
<1>15. S = UNION {T \in UnderWay : p \in T}
  <2>1. CASE status[p] = "INFLIGHT"
    <3>1. S \in UnderWay /\ p \in S
      BY <1>9, <2>1 DEF UnderWay
    <3>2. ASSUME NEW T \in UnderWay, p \in T PROVE T = S
      <4>1. PICK q \in Params : status[q] = "INFLIGHT" /\ T = registry[q].ps
        BY DEF UnderWay
      <4> QED BY <1>9, <1>12, <3>1, <3>2, <4>1
    <3> QED BY <3>1, <3>2
  <2>2. CASE status[p] # "INFLIGHT"
    <3>1. S = {}
      BY <1>9, <2>2
    <3>2. ASSUME NEW T \in UnderWay, p \in T PROVE FALSE
      <4>1. PICK q \in Params : status[q] = "INFLIGHT" /\ T = registry[q].ps
        BY DEF UnderWay
      <4> QED BY <2>2, <3>2, <4>1 DEF InFlightTogether
    <3> QED BY <3>1, <3>2
  <2> QED BY <2>1, <2>2
<1>16. LP!Take(p)
  <2>1. status' = LP!WithStatus(S, "AVAILABLE")
    BY <1>8 DEF LP!WithStatus
  <2> QED BY <1>1, <1>6, <1>14, <1>15, <2>1 DEF LP!Take, LP!NoMod, NoMod
<1> QED BY <1>1, <1>4, <1>5, <1>7, <1>13, <1>16

\* Partitioning available parameters leaves the gathers under way alone.
LEMMA PartitionMapped ==
  ASSUME InFlightTogether, StatusType, UNCHANGED registry, NEW R \in SUBSET Params, \A p \in R : status[p] = "AVAILABLE",
         status' = [p \in Params |-> IF p \in R THEN "NOT_AVAILABLE" ELSE status[p]]
  PROVE  /\ InFlightTogether' /\ UnderWay' = UnderWay
         /\ status' \in [Params -> {"NOT_AVAILABLE", "INFLIGHT", "AVAILABLE"}]
         /\ status' = LP!WithStatus(R, "NOT_AVAILABLE")
<1>1. \A p \in Params : status'[p] = "INFLIGHT" <=> status[p] = "INFLIGHT"
  OBVIOUS
<1>2. UnderWay' = UnderWay
  BY <1>1 DEF UnderWay
<1>3. InFlightTogether'
  BY <1>1 DEF InFlightTogether
<1> QED BY <1>2, <1>3 DEF LP!WithStatus, StatusType

-----------------------------------------------------------------------------
(* Steps that leave the trace or the parameters *)

\* A step of the life of the parameters, or one it does not see.
LifeStep == [LP!Next]_(LP!vars)

LEMMA LifeKept ==
  ASSUME LP!Inv, LifeStep
  PROVE  LP!Inv'
BY LP!StepInv, CoordinatorAssumption DEF LifeStep, LP!LifecycleAssumption

\* An exception leaves the parameters as they are.
LEMMA RaiseStep ==
  ASSUME CtlInv, UNCHANGED loopVars, todo' = todo \/ (todo # <<>> /\ todo' = Tail(todo)),
         NEW e, e # "none", Raise(e)
  PROVE  CtlInv' /\ err' # "none"
<1>1. UNCHANGED <<tr, registry, status, active, fetching, waiting, weights>> /\ err' = e
  BY DEF Raise, streamVars
<1>2. AtScript'
  BY ScriptStep DEF CtlInv
<1>3. ~ Running'
  BY <1>1 DEF Running
<1>4. IsTrace(tr)'
  BY <1>1 DEF CtlInv, IsTrace
<1>5. InFlightTogether' /\ UnderWay' = UnderWay
  BY <1>1 DEF CtlInv, InFlightTogether, UnderWay
<1>6. FetchUnderWay'
  BY <1>1, <1>3 DEF CtlInv, FetchUnderWay
<1>7. BeforeLoop' /\ Released'
  BY <1>3 DEF BeforeLoop, Released
<1>8. LifeStep
  BY <1>1, <1>5 DEF LifeStep, LP!vars
<1>9. LP!Inv'
  BY <1>8, LifeKept DEF CtlInv
<1> QED BY <1>1, <1>2, <1>4, <1>5, <1>6, <1>7, <1>9 DEF CtlInv

\* What stays true of a step of the host that leaves the coordinator's state.
LEMMA IdleStep ==
  ASSUME CtlInv, UNCHANGED loopVars, Running, iter > 0, Len(todo) # 2,
         todo' = todo \/ (todo # <<>> /\ todo' = Tail(todo)), fetching = NoMod \/ todo' = todo,
         UNCHANGED <<registry, status, active, fetching, waiting, weights, err>>, IsTrace(tr')
  PROVE  CtlInv' /\ LifeStep
<1>1. AtScript' /\ Len(todo) \in Nat /\ (todo' # todo => Len(todo)' = Len(todo) - 1)
  BY ScriptStep DEF CtlInv
<1>0. iter' = iter /\ iter # 0
  BY DEF loopVars
<1>2. IsTrace(tr)'
  OBVIOUS
<1>3. InFlightTogether' /\ UnderWay' = UnderWay
  BY DEF CtlInv, InFlightTogether, UnderWay
<1>4. FetchUnderWay'
  BY DEF CtlInv, FetchUnderWay, Running
<1>5. BeforeLoop'
  BY <1>0 DEF BeforeLoop
<1>6. Released'
  <2> SUFFICES ASSUME Len(todo)' <= 1 PROVE \A p \in Params : status'[p] = "NOT_AVAILABLE" /\ ~ InRegistry(p)'
    BY DEF Released
  <2>1. Len(todo) <= 1
    <3>1. PICK k \in Nat : k = Len(todo) /\ k # 2
      BY <1>1
    <3>2. CASE todo' = todo
      BY <3>2
    <3>3. CASE todo' # todo
      <4>1. k - 1 <= 1
        BY <1>1, <3>1, <3>3
      <4> QED BY <3>1, <4>1
    <3> QED BY <3>2, <3>3
  <2>2. \A p \in Params : status[p] = "NOT_AVAILABLE" /\ ~ InRegistry(p)
    BY <2>1 DEF CtlInv, Released
  <2> QED BY <2>2 DEF InRegistry
<1>7. LifeStep
  BY <1>3 DEF LifeStep, LP!vars
<1>8. LP!Inv'
  BY <1>7, LifeKept DEF CtlInv
<1> QED BY <1>1, <1>2, <1>3, <1>4, <1>5, <1>6, <1>7, <1>8 DEF CtlInv

\* _convert_to_zero_parameters partitions a parameter that is there.
LEMMA ConvertStep ==
  ASSUME CtlInv, Running, UNCHANGED loopVars, ConvertParam
  PROVE  CtlInv' /\ LifeStep
<1> DEFINE N == Cardinality(Params)
<1>0. NetworkFacts /\ N \in Nat
  BY Network DEF NetworkFacts
<1>1. AtScript /\ Now("convert")
  BY DEF ConvertParam, CtlInv
<1>2. iter = 0 /\ Mod \in Params
  BY <1>1, NowStart
<1>3. PICK i \in 1 .. N : Mod = Nth(Params, i) /\ Done = i - 1
  BY <1>1, NowStart
<1>4. todo # <<>> /\ todo' = Tail(todo) /\ fetching = NoMod
      /\ UNCHANGED <<tr, registry, active, fetching, waiting, err, weights, iter>>
      /\ status' = [p \in Params |-> IF p \in {Mod} THEN "NOT_AVAILABLE" ELSE status[p]]
  BY DEF ConvertParam, Now, PartitionParams, loopVars
<1>5. /\ \A p \in Params : active[p] = {} /\ registry[p] = NoHandle
      /\ \A j \in 1 .. N : status[Nth(Params, j)] = IF j > Done \/ Done = N + 2 * j - 1
                                                    THEN "AVAILABLE" ELSE "NOT_AVAILABLE"
  BY <1>2 DEF CtlInv, BeforeLoop
<1>6. status[Mod] = "AVAILABLE"
  BY <1>3, <1>5
<1>7. StatusType
  BY LifeType DEF CtlInv
<1>8. /\ InFlightTogether' /\ UnderWay' = UnderWay
      /\ status' = LP!WithStatus({Mod}, "NOT_AVAILABLE")
  BY <1>2, <1>4, <1>6, <1>7, PartitionMapped DEF CtlInv
<1>9. LP!PartitionParam(Mod)
  BY <1>2, <1>4, <1>5, <1>6, <1>8 DEF LP!PartitionParam, LP!Partition, LP!NoMod, NoMod
<1>10. LifeStep
  BY <1>2, <1>9 DEF LifeStep, LP!Next
<1>11. LP!Inv'
  BY <1>10, LifeKept DEF CtlInv
<1>12. AtScript' /\ Done' = Done + 1
  <2>1. todo' # todo
    BY <1>1, <1>4 DEF AtScript
  <2> QED BY <1>1, <1>4, <2>1, ScriptStep
<1>13. BeforeLoop'
  <2>1. Done' = i
    BY <1>3, <1>12
  <2>2. ASSUME NEW j \in 1 .. N
        PROVE  status'[Nth(Params, j)] = IF j > i \/ i = N + 2 * j - 1 THEN "AVAILABLE" ELSE "NOT_AVAILABLE"
    <3>1. Nth(Params, j) \in Params
      BY <1>0 DEF NetworkFacts
    <3>2. i # N + 2 * j - 1 /\ Done # N + 2 * j - 1
      BY <1>0, <1>3
    <3>3. CASE j = i
      BY <1>3, <1>4, <3>1, <3>2, <3>3
    <3>4. CASE j # i
      <4>1. Nth(Params, j) # Mod
        BY <1>0, <1>3, <3>4 DEF NetworkFacts
      <4>2. j > Done <=> j > i
        BY <1>3, <3>4
      <4> QED BY <1>4, <1>5, <3>1, <3>2, <4>1, <4>2
    <3> QED BY <3>3, <3>4
  <2> QED BY <1>4, <1>5, <2>1, <2>2 DEF BeforeLoop
<1>14. IsTrace(tr)' /\ FetchUnderWay' /\ Released'
  BY <1>2, <1>4 DEF CtlInv, IsTrace, FetchUnderWay, Released
<1> QED BY <1>8, <1>10, <1>11, <1>12, <1>13, <1>14 DEF CtlInv

\* all_gather() of the hook installation finds its parameter partitioned.
LEMMA GatherStep ==
  ASSUME CtlInv, Running, UNCHANGED loopVars, GatherForHook
  PROVE  CtlInv' /\ LifeStep
<1> DEFINE N == Cardinality(Params)
<1>0. NetworkFacts /\ N \in Nat
  BY Network DEF NetworkFacts
<1>1. AtScript /\ Now("gather")
  BY DEF GatherForHook, CtlInv
<1>2. iter = 0 /\ Mod \in Params
  BY <1>1, NowStart
<1>3. PICK i \in 1 .. N : Mod = Nth(Params, i) /\ Done = N + 2 * i - 2
  BY <1>1, NowStart
<1>7. StatusType
  BY LifeType DEF CtlInv
<1>4. todo # <<>> /\ todo' = Tail(todo) /\ fetching = NoMod
      /\ UNCHANGED <<tr, registry, active, fetching, waiting, err, weights, iter>>
      /\ status' = [p \in Params |-> IF p \in {Mod} THEN "AVAILABLE" ELSE status[p]]
  BY <1>7 DEF GatherForHook, Now, loopVars, StatusType
<1>5. /\ \A p \in Params : active[p] = {} /\ registry[p] = NoHandle
      /\ \A j \in 1 .. N : status[Nth(Params, j)] = IF j > Done \/ Done = N + 2 * j - 1
                                                    THEN "AVAILABLE" ELSE "NOT_AVAILABLE"
  BY <1>2 DEF CtlInv, BeforeLoop
<1>6. status[Mod] = "NOT_AVAILABLE"
  BY <1>0, <1>3, <1>5
<1>8. /\ InFlightTogether' /\ UnderWay' = UnderWay
  <2>1. \A p \in Params : status'[p] = "INFLIGHT" <=> status[p] = "INFLIGHT"
    BY <1>4, <1>6
  <2>2. UnderWay' = UnderWay
    BY <1>4, <2>1 DEF UnderWay
  <2>3. InFlightTogether'
    BY <1>4, <2>1 DEF CtlInv, InFlightTogether
  <2> QED BY <2>2, <2>3
<1>9. LP!AllGather(Mod)
  BY <1>2, <1>4, <1>6, <1>8 DEF LP!AllGather, LP!WithStatus, LP!NoMod, NoMod
<1>10. LifeStep
  BY <1>2, <1>9 DEF LifeStep, LP!Next
<1>11. LP!Inv'
  BY <1>10, LifeKept DEF CtlInv
<1>12. AtScript' /\ Done' = Done + 1
  <2>1. todo' # todo
    BY <1>1, <1>4 DEF AtScript
  <2> QED BY <1>1, <1>4, <2>1, ScriptStep
<1>13. BeforeLoop'
  <2>1. Done' = N + 2 * i - 1
    BY <1>0, <1>3, <1>12
  <2>2. ASSUME NEW j \in 1 .. N
        PROVE  status'[Nth(Params, j)] = IF j > Done' \/ Done' = N + 2 * j - 1 THEN "AVAILABLE" ELSE "NOT_AVAILABLE"
    <3>1. Nth(Params, j) \in Params
      BY <1>0 DEF NetworkFacts
    <3>2. ~ j > Done /\ ~ j > Done' /\ Done # N + 2 * j - 1
      BY <1>0, <1>3, <2>1
    <3>3. CASE j = i
      BY <1>3, <1>4, <2>1, <3>1, <3>2, <3>3
    <3>4. CASE j # i
      <4>1. Nth(Params, j) # Mod
        BY <1>0, <1>3, <3>4 DEF NetworkFacts
      <4>2. Done' # N + 2 * j - 1
        BY <1>0, <2>1, <3>4
      <4> QED BY <1>4, <1>5, <3>1, <3>2, <4>1, <4>2
    <3> QED BY <3>3, <3>4
  <2> QED BY <1>4, <1>5, <2>2 DEF BeforeLoop
<1>14. IsTrace(tr)' /\ FetchUnderWay' /\ Released'
  BY <1>2, <1>4 DEF CtlInv, IsTrace, FetchUnderWay, Released
<1> QED BY <1>8, <1>10, <1>11, <1>12, <1>13, <1>14 DEF CtlInv

\* partition() after it finds it gathered.
LEMMA AddHookStep ==
  ASSUME CtlInv, Running, UNCHANGED loopVars, AddHook
  PROVE  CtlInv' /\ LifeStep
<1> DEFINE N == Cardinality(Params)
<1>0. NetworkFacts /\ N \in Nat
  BY Network DEF NetworkFacts
<1>1. AtScript /\ Now("add_hook")
  BY DEF AddHook, CtlInv
<1>2. iter = 0 /\ Mod \in Params
  BY <1>1, NowStart
<1>3. PICK i \in 1 .. N : Mod = Nth(Params, i) /\ Done = N + 2 * i - 1
  BY <1>1, NowStart
<1>4. todo # <<>> /\ todo' = Tail(todo) /\ fetching = NoMod
      /\ UNCHANGED <<tr, registry, active, fetching, waiting, err, weights, iter>>
      /\ status' = [p \in Params |-> IF p \in {Mod} THEN "NOT_AVAILABLE" ELSE status[p]]
  BY DEF AddHook, Now, PartitionParams, loopVars
<1>5. /\ \A p \in Params : active[p] = {} /\ registry[p] = NoHandle
      /\ \A j \in 1 .. N : status[Nth(Params, j)] = IF j > Done \/ Done = N + 2 * j - 1
                                                    THEN "AVAILABLE" ELSE "NOT_AVAILABLE"
  BY <1>2 DEF CtlInv, BeforeLoop
<1>6. status[Mod] = "AVAILABLE"
  BY <1>3, <1>5
<1>7. StatusType
  BY LifeType DEF CtlInv
<1>8. /\ InFlightTogether' /\ UnderWay' = UnderWay
      /\ status' = LP!WithStatus({Mod}, "NOT_AVAILABLE")
  BY <1>2, <1>4, <1>6, <1>7, PartitionMapped DEF CtlInv
<1>9. LP!PartitionParam(Mod)
  BY <1>2, <1>4, <1>5, <1>6, <1>8 DEF LP!PartitionParam, LP!Partition, LP!NoMod, NoMod
<1>10. LifeStep
  BY <1>2, <1>9 DEF LifeStep, LP!Next
<1>11. LP!Inv'
  BY <1>10, LifeKept DEF CtlInv
<1>12. AtScript' /\ Done' = Done + 1
  <2>1. todo' # todo
    BY <1>1, <1>4 DEF AtScript
  <2> QED BY <1>1, <1>4, <2>1, ScriptStep
<1>13. BeforeLoop'
  <2>1. Done' = N + 2 * i
    BY <1>0, <1>3, <1>12
  <2>2. ASSUME NEW j \in 1 .. N
        PROVE  status'[Nth(Params, j)] = IF j > Done' \/ Done' = N + 2 * j - 1 THEN "AVAILABLE" ELSE "NOT_AVAILABLE"
    <3>1. Nth(Params, j) \in Params
      BY <1>0 DEF NetworkFacts
    <3>2. ~ j > Done /\ ~ j > Done' /\ Done' # N + 2 * j - 1
      BY <1>0, <1>3, <2>1
    <3>3. CASE j = i
      BY <1>3, <1>4, <3>1, <3>2, <3>3
    <3>4. CASE j # i
      <4>1. Nth(Params, j) # Mod
        BY <1>0, <1>3, <3>4 DEF NetworkFacts
      <4>2. Done # N + 2 * j - 1
        BY <1>0, <1>3, <3>4
      <4> QED BY <1>4, <1>5, <3>1, <3>2, <4>1, <4>2
    <3> QED BY <3>3, <3>4
  <2> QED BY <1>4, <1>5, <2>2 DEF BeforeLoop
<1>14. IsTrace(tr)' /\ FetchUnderWay' /\ Released'
  BY <1>2, <1>4 DEF CtlInv, IsTrace, FetchUnderWay, Released
<1> QED BY <1>8, <1>10, <1>11, <1>12, <1>13, <1>14 DEF CtlInv

-----------------------------------------------------------------------------
(* The steps of the coordinator *)

\* fetch_sub_module begins by gathering what the submodule lacks.
LEMMA BeginStep ==
  ASSUME CtlInv, Running, UNCHANGED loopVars, todo' = todo,
         NEW kind \in {"pre_fwd", "pre_bwd"}, Now(kind), BeginFetch(Mod)
  PROVE  CtlInv' /\ (err' = "none" => LifeStep)
<1>1. /\ todo # <<>> /\ fetching = NoMod /\ Head(todo).ev = kind /\ Head(todo) = todo[1]
      /\ iter > 0 /\ Mod \in Mods /\ Len(todo) > 4
  BY NowLoop DEF Now, CtlInv, AtScript
<1>2. CASE Complete /\ tr.step_id >= Len(tr.submodule_order)
  <2>1. Raise("IndexError")
    BY <1>2 DEF BeginFetch
  <2> QED BY <2>1, RaiseStep
<1>3. CASE ~ (Complete /\ tr.step_id >= Len(tr.submodule_order))
  <2>1. /\ tr' = Recorded(Prologue(tr, Mod), Mod) /\ AllGatherParams(ParamsOf[Mod])
        /\ fetching' = Mod /\ waiting' = ParamsOf[Mod]
        /\ UNCHANGED <<active, err, weights>>
    BY <1>3 DEF BeginFetch
  <2>2. IsTrace(tr')
    BY <1>1, <2>1, PrologueTrace, RecordedTrace DEF CtlInv
  <2>3. StatusType /\ ParamsOf[Mod] \in SUBSET Params /\ Mod # NoMod
    BY <1>1, LifeType, Network DEF CtlInv, NetworkFacts
  <2>4. InFlightTogether' /\ LP!Gather(ParamsOf[Mod])
    BY <2>1, <2>3, GatherMapped DEF CtlInv
  <2>5. LP!Fetch(Mod)
    BY <1>1, <2>1, <2>4 DEF LP!Fetch, LP!NoMod, NoMod
  <2>6. LifeStep
    BY <1>1, <2>5 DEF LifeStep, LP!Next
  <2>7. LP!Inv'
    BY <2>6, LifeKept DEF CtlInv
  <2>8. AtScript'
    BY ScriptStep DEF CtlInv
  <2>9. FetchUnderWay'
    BY <1>1, <2>1, <2>3 DEF FetchUnderWay, Mod
  <2>10. BeforeLoop' /\ Released'
    <3>1. iter' = iter /\ iter # 0 /\ ~ Len(todo) <= 1 /\ ~ Len(todo') <= 1
      BY <1>1 DEF loopVars, CtlInv, AtScript
    <3> QED BY <3>1 DEF BeforeLoop, Released
  <2> QED BY <2>2, <2>4, <2>6, <2>7, <2>8, <2>9, <2>10 DEF CtlInv
<1> QED BY <1>2, <1>3

\* Where the host thread is while a fetch is under way.
LEMMA NowFetch ==
  ASSUME CtlInv, Running, fetching # NoMod
  PROVE  todo # <<>> /\ iter > 0 /\ Len(todo) > 4 /\ fetching \in Mods /\ waiting \subseteq ParamsOf[fetching]
<1>1. todo # <<>> /\ todo[1].ev \in {"pre_fwd", "pre_bwd"} /\ Head(todo) = todo[1]
  BY DEF CtlInv, FetchUnderWay, AtScript
<1>2. iter > 0 /\ Len(todo) > 4
  BY <1>1, NowLoop DEF CtlInv
<1>3. fetching \in Mods
  BY LifeType DEF CtlInv, StatusType
<1> QED BY <1>1, <1>2, <1>3 DEF CtlInv, FetchUnderWay

\* One parameter of the wait loop.
LEMMA WaitStep ==
  ASSUME CtlInv, Running, UNCHANGED loopVars, FetchParam
  PROVE  CtlInv' /\ (err' = "none" => LifeStep)
<1>1. PICK p \in Params : WaitParam(p)
  BY DEF FetchParam
<1>2. todo' = todo /\ p \in waiting
  BY <1>1 DEF FetchParam, hookVars, WaitParam
<1>3. CASE CopyMissing(p)
  <2>1. Raise("cpu_full_param is None")
    BY <1>1, <1>3 DEF WaitParam
  <2> QED BY <1>2, <2>1, RaiseStep
<1>4. CASE ~ CopyMissing(p)
  <2>1. WaitRound(p)
    BY <1>1, <1>4 DEF WaitParam
  <2>2. InFlightTogether' /\ LP!Take(p) /\ err' = err /\ fetching \in Mods
    BY <1>2, <2>1, WaitMapped DEF CtlInv
  <2>3. waiting' = waiting \ {p} /\ active' = [active EXCEPT ![p] = @ \cup {fetching}]
        /\ UNCHANGED <<tr, fetching, weights>>
    BY <2>1 DEF WaitRound
  <2>4. fetching # NoMod /\ iter > 0 /\ Len(todo) > 4 /\ iter' = iter
    BY <1>2, <2>2, NowFetch, Network DEF NetworkFacts, loopVars
  <2>5. LifeStep
    BY <2>2 DEF LifeStep, LP!Next
  <2>6. LP!Inv'
    BY <2>5, LifeKept DEF CtlInv
  <2>7. AtScript'
    BY <1>2, ScriptStep DEF CtlInv
  <2>8. active \in [Params -> SUBSET Mods]
    BY LifeType DEF CtlInv, StatusType
  <2>9. FetchUnderWay'
    <3>1. ASSUME NEW q \in ParamsOf[fetching] \ waiting' PROVE fetching \in active'[q]
      <4>1. q \in Params
        BY <2>2, Network DEF NetworkFacts
      <4>2. CASE q = p
        BY <2>3, <2>8, <4>1, <4>2
      <4>3. CASE q # p
        <5>1. q \notin waiting
          BY <2>3, <4>3
        <5>2. fetching \in active[q]
          BY <2>4, <5>1 DEF CtlInv, FetchUnderWay
        <5> QED BY <2>3, <2>8, <4>1, <4>3, <5>2
      <4> QED BY <4>2, <4>3
    <3>2. waiting \subseteq ParamsOf[fetching] /\ todo # <<>> /\ todo[1].m = fetching
          /\ todo[1].ev \in {"pre_fwd", "pre_bwd"}
      BY <2>4 DEF CtlInv, FetchUnderWay
    <3> QED BY <1>2, <2>3, <2>4, <3>1, <3>2 DEF FetchUnderWay
  <2>10. BeforeLoop' /\ Released'
    <3>1. iter' # 0 /\ ~ Len(todo') <= 1
      BY <1>2, <2>4 DEF CtlInv, AtScript
    <3> QED BY <3>1 DEF BeforeLoop, Released
  <2>11. IsTrace(tr)'
    BY <2>3 DEF CtlInv, IsTrace
  <2> QED BY <2>2, <2>5, <2>6, <2>7, <2>9, <2>10, <2>11 DEF CtlInv
<1> QED BY <1>3, <1>4

\* The end of fetch_sub_module: every parameter of the submodule is in use.
LEMMA EndStep ==
  ASSUME CtlInv, Running, UNCHANGED loopVars, FetchDone
  PROVE  CtlInv' /\ (err' = "none" => LifeStep)
<1>1. /\ fetching # NoMod /\ waiting = {} /\ todo' = Tail(todo)
      /\ todo # <<>> /\ iter > 0 /\ Len(todo) > 4 /\ fetching \in Mods
  BY NowFetch DEF FetchDone, EndFetch
<1> DEFINE Bad == Complete /\ ParamsIn(tr.queue, 1, Discarded(fetching)) # NotFetched(fetching)
<1>2. CASE Bad
  <2>1. Raise("tracing error")
    BY <1>2 DEF FetchDone, EndFetch
  <2> QED BY <1>1, <2>1, RaiseStep
<1>3. CASE ~ Bad
  <2> DEFINE S == IF Complete THEN ParamsIn(tr.queue, Discarded(fetching) + 1, Scanned(fetching)) ELSE {}
  <2>1. /\ tr' = IF Complete THEN [tr EXCEPT !.step_id = @ + 1, !.recent = RecentAfter(fetching),
                                       !.queue = SubSeq(@, Scanned(fetching) + 1, Len(@))]
                             ELSE [tr EXCEPT !.step_id = @ + 1]
        /\ AllGatherParams(S) /\ fetching' = NoMod
        /\ UNCHANGED <<active, waiting, err, weights>>
    BY <1>3 DEF FetchDone, EndFetch
  <2>2. S \in SUBSET Params
    BY QueueCuts DEF CtlInv
  <2>3. IsTrace(tr)'
    <3>1. SubSeq(tr.queue, Scanned(fetching) + 1, Len(tr.queue)) \in Seq(Use)
      BY QueueCuts DEF CtlInv
    <3>2. IsTrace(tr')
      BY <2>1, <3>1, StepTrace DEF CtlInv
    <3> QED BY <3>2
  <2> HIDE DEF S
  <2>4. StatusType
    BY LifeType DEF CtlInv
  <2>5. InFlightTogether' /\ LP!Gather(S)
    BY <2>1, <2>2, <2>4, GatherMapped DEF CtlInv
  <2>6. \A p \in ParamsOf[fetching] : fetching \in active[p]
    BY <1>1 DEF CtlInv, FetchUnderWay
  <2>7. LP!Fetched(S)
    BY <1>1, <2>1, <2>5, <2>6 DEF LP!Fetched, LP!NoMod, NoMod
  <2>8. LifeStep
    BY <2>2, <2>7 DEF LifeStep, LP!Next
  <2>9. LP!Inv'
    BY <2>8, LifeKept DEF CtlInv
  <2>10. AtScript' /\ Len(todo)' = Len(todo) - 1 /\ iter' = iter
    <3>1. todo' # todo
      BY <1>1 DEF CtlInv, AtScript
    <3> QED BY <1>1, <3>1, ScriptStep DEF CtlInv, loopVars
  <2>11. FetchUnderWay'
    BY <1>1, <2>1 DEF FetchUnderWay
  <2>12. BeforeLoop' /\ Released'
    <3>1. iter' # 0 /\ ~ Len(todo)' <= 1
      BY <1>1, <2>10 DEF CtlInv, AtScript
    <3> QED BY <3>1 DEF BeforeLoop, Released
  <2> QED BY <2>3, <2>5, <2>8, <2>9, <2>10, <2>11, <2>12 DEF CtlInv
<1> QED BY <1>2, <1>3

-----------------------------------------------------------------------------
(* Every step *)

\* release_sub_module gives back parameters that are there and in no other use.
LEMMA ReleaseStep ==
  ASSUME CtlInv, Running, UNCHANGED loopVars, todo # <<>>, todo' = Tail(todo),
         NEW kind \in {"post_fwd", "post_bwd"}, Now(kind), NEW ops, ReleaseSubModule(Mod, ops)
  PROVE  CtlInv' /\ LifeStep
<1>1. fetching = NoMod /\ iter > 0 /\ Mod \in Mods /\ Len(todo) > 4
  BY NowLoop DEF Now, CtlInv
<1> DEFINE R == Releasable(ParamsToRelease(Mod), active')
<1>2. /\ active' = [p \in Params |-> IF p \in ParamsOf[Mod] THEN active[p] \ {Mod} ELSE active[p]]
      /\ status' = [p \in Params |-> IF p \in R THEN "NOT_AVAILABLE" ELSE status[p]]
      /\ UNCHANGED <<tr, registry, fetching, waiting, err, weights>>
  BY DEF ReleaseSubModule, Partition, PartitionParams
<1>3. R \in SUBSET Params /\ \A p \in R : status[p] = "AVAILABLE" /\ active'[p] = {}
  BY <1>1, Network DEF Releasable, ParamsToRelease, NetworkFacts
<1> HIDE DEF R
<1>4. StatusType
  BY LifeType DEF CtlInv
<1>5. InFlightTogether' /\ UnderWay' = UnderWay /\ status' = LP!WithStatus(R, "NOT_AVAILABLE")
  BY <1>2, <1>3, <1>4, PartitionMapped DEF CtlInv
<1>6. LP!Leave(Mod, R)
  BY <1>1, <1>2, <1>3, <1>5 DEF LP!Leave, LP!Partition, LP!NoMod, NoMod
<1>7. LifeStep
  BY <1>1, <1>3, <1>6 DEF LifeStep, LP!Next
<1>8. LP!Inv'
  BY <1>7, LifeKept DEF CtlInv
<1>9. AtScript' /\ Len(todo)' = Len(todo) - 1 /\ iter' = iter
  <2>1. todo' # todo
    BY <1>1 DEF CtlInv, AtScript
  <2> QED BY <2>1, ScriptStep DEF CtlInv, loopVars
<1>10. FetchUnderWay' /\ IsTrace(tr)'
  BY <1>1, <1>2 DEF FetchUnderWay, CtlInv, IsTrace
<1>11. BeforeLoop' /\ Released'
  <2>1. iter' # 0 /\ ~ Len(todo)' <= 1
    BY <1>1, <1>9 DEF CtlInv, AtScript
  <2> QED BY <2>1 DEF BeforeLoop, Released
<1> QED BY <1>5, <1>7, <1>8, <1>9, <1>10, <1>11 DEF CtlInv

\* release_and_reset_all finds nothing in flight, or raises.
LEMMA ReleaseAllStep ==
  ASSUME CtlInv, Running, UNCHANGED loopVars, ReleaseAll
  PROVE  CtlInv' /\ (err' = "none" => LifeStep)
<1>1. /\ todo # <<>> /\ todo' = Tail(todo) /\ fetching = NoMod /\ iter > 0 /\ Len(todo) = 2
      /\ ReleaseAndResetAll
  BY NowLoop DEF ReleaseAll, Now, CtlInv
<1>2. CASE \E p \in Params : InRegistry(p)
  <2>1. Raise("still in flight")
    BY <1>1, <1>2 DEF ReleaseAndResetAll
  <2> QED BY <1>1, <2>1, RaiseStep
<1>3. CASE ~ \E p \in Params : InRegistry(p)
  <2>1. /\ active' = [p \in Params |-> {}]
        /\ status' = [p \in Params |-> IF p \in Releasable(Params, active') THEN "NOT_AVAILABLE" ELSE status[p]]
        /\ UNCHANGED <<tr, registry, fetching, waiting, err, weights>>
    BY <1>1, <1>3 DEF ReleaseAndResetAll, Partition, PartitionParams
  <2>2. StatusType
    BY LifeType DEF CtlInv
  <2>3. \A p \in Params : status[p] # "INFLIGHT"
    BY <1>3 DEF CtlInv, InFlightTogether, InRegistry, NoHandle
  <2>4. \A p \in Params : p \in Releasable(Params, active') <=> status[p] = "AVAILABLE"
    BY <2>1 DEF Releasable
  <2>5. status' = [p \in Params |-> "NOT_AVAILABLE"]
    BY <2>1, <2>2, <2>3, <2>4 DEF StatusType
  <2>6. UnderWay = {} /\ UnderWay' = {} /\ InFlightTogether'
    <3>1. {p \in Params : status[p] = "INFLIGHT"} = {} /\ {p \in Params : status'[p] = "INFLIGHT"} = {}
      BY <2>3, <2>5
    <3>2. UnderWay = {} /\ UnderWay' = {}
      BY <3>1 DEF UnderWay
    <3>3. registry' = [p \in Params |-> registry'[p]]
      BY <2>1 DEF CtlInv, InFlightTogether
    <3> QED BY <2>5, <3>2, <3>3 DEF InFlightTogether
  <2>7. LP!ReleaseAll
    BY <1>1, <2>1, <2>5, <2>6 DEF LP!ReleaseAll, LP!NoMod, NoMod
  <2>8. LifeStep
    BY <2>7 DEF LifeStep, LP!Next
  <2>9. LP!Inv'
    BY <2>8, LifeKept DEF CtlInv
  <2>10. AtScript' /\ iter' = iter
    BY <1>1, ScriptStep DEF CtlInv, loopVars
  <2>11. FetchUnderWay' /\ IsTrace(tr)'
    BY <1>1, <2>1 DEF FetchUnderWay, CtlInv, IsTrace
  <2>12. BeforeLoop' /\ Released'
    <3>1. iter' # 0
      BY <1>1, <2>10 DEF CtlInv, AtScript
    <3> QED BY <1>3, <2>1, <2>5, <3>1 DEF BeforeLoop, Released, InRegistry
  <2> QED BY <2>6, <2>8, <2>9, <2>10, <2>11, <2>12 DEF CtlInv
<1> QED BY <1>2, <1>3

\* update_new_params comes when every parameter has been released.
LEMMA UpdateStep ==
  ASSUME CtlInv, Running, UNCHANGED loopVars, UpdateShards
  PROVE  /\ CtlInv' /\ LifeStep
         /\ \A p \in Params : status[p] = "NOT_AVAILABLE" /\ ~ InRegistry(p)
<1>1. /\ todo # <<>> /\ todo' = Tail(todo) /\ fetching = NoMod /\ iter > 0 /\ Len(todo) = 1
      /\ weights' = weights + 1
      /\ UNCHANGED <<tr, registry, status, active, fetching, waiting, err>>
  BY NowLoop DEF UpdateShards, Now, CtlInv, coordVars
<1>2. \A p \in Params : status[p] = "NOT_AVAILABLE" /\ ~ InRegistry(p)
  BY <1>1 DEF CtlInv, Released
<1>3. InFlightTogether' /\ UnderWay' = UnderWay
  BY <1>1 DEF CtlInv, InFlightTogether, UnderWay
<1>4. LP!Update
  BY <1>1, <1>2, <1>3 DEF LP!Update
<1>5. LifeStep
  BY <1>4 DEF LifeStep, LP!Next
<1>6. LP!Inv'
  BY <1>5, LifeKept DEF CtlInv
<1>7. AtScript' /\ iter' = iter
  BY <1>1, ScriptStep DEF CtlInv, loopVars
<1>8. FetchUnderWay' /\ IsTrace(tr)'
  BY <1>1 DEF FetchUnderWay, CtlInv, IsTrace
<1>9. BeforeLoop' /\ Released'
  <2>1. iter' # 0
    BY <1>1, <1>7 DEF CtlInv, AtScript
  <2> QED BY <1>1, <1>2, <2>1 DEF BeforeLoop, Released, InRegistry
<1> QED BY <1>2, <1>3, <1>5, <1>6, <1>7, <1>8, <1>9 DEF CtlInv

\* The next iteration begins with a new script.
LEMMA IterationStep ==
  ASSUME CtlInv, Running, StartIteration
  PROVE  CtlInv' /\ LifeStep
<1>1. /\ todo = <<>> /\ iter < Len(schedule) /\ iter' = iter + 1 /\ schedule' = schedule
      /\ todo' = schedule[iter'] \o Backward(schedule[iter']) \o EndOfStep
      /\ UNCHANGED <<tr, registry, status, active, fetching, waiting, weights>>
  BY DEF StartIteration, coordVars, streamVars
<1>2. schedule \in Schedules /\ iter \in 0 .. Len(schedule)
  BY DEF CtlInv, AtScript
<1>3. iter' \in 1 .. Len(schedule) /\ iter' # 0
  <2>1. Len(schedule) \in Nat
    BY <1>2, ScheduleAssumption
  <2> QED BY <1>1, <1>2, <2>1
<1>4. todo' = Script(iter')
  BY <1>1, <1>3 DEF Script
<1>5. Script(iter') \in Seq(HostEvents) /\ Len(Script(iter')) >= 4
  BY <1>2, <1>3, LoopScript
<1>6. Script(iter)' = Script(iter')
  BY <1>1 DEF Script
<1>7. AtScript'
  <2>1. Len(todo') \in Nat /\ Done' = 0
    BY <1>4, <1>5, <1>6 DEF Done
  <2>2. \A i \in 1 .. Len(todo') : todo'[i] = Script(iter)'[Done' + i]
    BY <1>4, <1>6, <2>1
  <2> QED BY <1>1, <1>2, <1>3, <1>4, <1>5, <2>1, <2>2 DEF AtScript
<1>8. fetching = NoMod
  BY <1>1 DEF CtlInv, FetchUnderWay
<1>9. FetchUnderWay' /\ IsTrace(tr)'
  BY <1>1, <1>8 DEF CtlInv, FetchUnderWay, IsTrace
<1>10. BeforeLoop' /\ Released'
  <2>1. ~ Len(todo') <= 1
    BY <1>4, <1>5
  <2> QED BY <1>3, <2>1 DEF BeforeLoop, Released
<1>11. InFlightTogether' /\ UnderWay' = UnderWay
  BY <1>1 DEF CtlInv, InFlightTogether, UnderWay
<1>12. LifeStep
  BY <1>1, <1>11 DEF LifeStep, LP!vars
<1>13. LP!Inv'
  BY <1>12, LifeKept DEF CtlInv
<1> QED BY <1>7, <1>9, <1>10, <1>11, <1>12, <1>13 DEF CtlInv

\* Nothing the DPU and the streams do is seen by the coordinator.
LEMMA DeviceStep ==
  ASSUME CtlInv, UNCHANGED <<tr, registry, status, active, fetching, waiting, weights, err, todo, schedule, iter>>
  PROVE  CtlInv' /\ LifeStep
<1>1. AtScript'
  BY DEF CtlInv, AtScript, Done, Script
<1>2. IsTrace(tr)' /\ InFlightTogether' /\ UnderWay' = UnderWay
  <2>1. UnderWay' = UnderWay
    BY DEF UnderWay
  <2>2. IsTrace(tr)'
    BY DEF CtlInv, IsTrace
  <2>3. InFlightTogether'
    BY DEF CtlInv, InFlightTogether
  <2> QED BY <2>1, <2>2, <2>3
<1>3. FetchUnderWay'
  BY DEF CtlInv, FetchUnderWay, Running
<1>4. BeforeLoop'
  <2>1. Done' = Done
    BY DEF Done, Script
  <2> QED BY <2>1 DEF CtlInv, BeforeLoop, Running
<1>5. Released'
  BY DEF CtlInv, Released, Running, InRegistry
<1>6. LifeStep
  BY <1>2 DEF LifeStep, LP!vars
<1>7. LP!Inv'
  BY <1>6, LifeKept DEF CtlInv
<1> QED BY <1>1, <1>2, <1>3, <1>4, <1>5, <1>6, <1>7 DEF CtlInv

\* Every step of the host, the DPU and the streams.
LEMMA CtlStep ==
  ASSUME CtlInv, [Next]_vars
  PROVE  CtlInv' /\ (err' = "none" => LifeStep)
<1>1. CASE UNCHANGED vars
  BY <1>1, DeviceStep DEF vars
<1>2. CASE Device
  <2>1. UNCHANGED <<coordVars, hookVars, loopVars, weights>>
    BY <1>2 DEF Device, DpuGather, AllGatherStream, ComputeStream
  <2> QED BY <2>1, DeviceStep DEF coordVars, hookVars, loopVars
<1>3. CASE Host
  <2>0. Running
    BY <1>3 DEF Host
  <2>1. CASE StartIteration
    BY <2>0, <2>1, IterationStep
  <2>2. ASSUME (Start \/ Hooks \/ Loop), UNCHANGED loopVars PROVE CtlInv' /\ (err' = "none" => LifeStep)
    <3>1. CASE ConvertParam
      BY <2>0, <2>2, <3>1, ConvertStep
    <3>2. CASE GatherForHook
      BY <2>0, <2>2, <3>2, GatherStep
    <3>3. CASE AddHook
      BY <2>0, <2>2, <3>3, AddHookStep
    <3>4. CASE PreForward
      BY <2>0, <2>2, <3>4, BeginStep DEF PreForward
    <3>5. CASE PreBackward
      <4>1. CASE AlreadyFetched(hook[Mod])
        <5>1. /\ Now("pre_bwd") /\ todo # <<>> /\ fetching = NoMod /\ todo' = Tail(todo)
              /\ UNCHANGED <<tr, registry, status, active, fetching, waiting, weights, err>>
          BY <3>5, <4>1 DEF PreBackward, Now, coordVars, streamVars
        <5>2. iter > 0 /\ Len(todo) > 4
          BY <5>1, NowLoop DEF Now, CtlInv
        <5>3. IsTrace(tr') /\ Len(todo) # 2
          BY <5>1, <5>2 DEF CtlInv, AtScript
        <5> QED BY <2>0, <2>2, <5>1, <5>2, <5>3, IdleStep
      <4>2. CASE ~ AlreadyFetched(hook[Mod])
        BY <2>0, <2>2, <3>5, <4>2, BeginStep DEF PreBackward
      <4> QED BY <4>1, <4>2
    <3>6. CASE UseParams
      <4>1. Now("use") /\ todo # <<>> /\ fetching = NoMod /\ todo' = Tail(todo)
        BY <3>6 DEF UseParams, Now
      <4>2. iter > 0 /\ Len(todo) > 4
        BY <4>1, NowLoop DEF Now, CtlInv
      <4>3. CASE \A p \in ParamsOf[Mod] : status[p] = "AVAILABLE"
        <5>1. UNCHANGED <<tr, registry, status, active, fetching, waiting, weights, err>>
          BY <3>6, <4>3 DEF UseParams, coordVars
        <5>2. IsTrace(tr') /\ Len(todo) # 2
          BY <4>2, <5>1 DEF CtlInv, AtScript
        <5> QED BY <2>0, <2>2, <4>1, <4>2, <5>1, <5>2, IdleStep
      <4>4. CASE ~ \A p \in ParamsOf[Mod] : status[p] = "AVAILABLE"
        <5>1. Raise("use of a partitioned parameter")
          BY <3>6, <4>4 DEF UseParams
        <5> QED BY <2>2, <4>1, <5>1, RaiseStep
      <4> QED BY <4>3, <4>4
    <3>7. CASE PostForward
      <4>1. Now("post_fwd") /\ todo # <<>> /\ todo' = Tail(todo) /\ ReleaseSubModule(Mod, SaveOps(ToSave(Mod)))
        BY <3>7 DEF PostForward, Now
      <4> QED BY <2>0, <2>2, <4>1, ReleaseStep
    <3>8. CASE PostBackward
      <4>1. Now("post_bwd") /\ todo # <<>> /\ fetching = NoMod /\ todo' = Tail(todo)
        BY <3>8 DEF PostBackward, Now
      <4>2. CASE hook[Mod].gradsLeft = 1
        BY <2>0, <2>2, <3>8, <4>1, <4>2, ReleaseStep DEF PostBackward
      <4>3. CASE hook[Mod].gradsLeft # 1
        <5>1. UNCHANGED <<tr, registry, status, active, fetching, waiting, weights, err>>
          BY <3>8, <4>3 DEF PostBackward, coordVars, streamVars
        <5>2. iter > 0 /\ Len(todo) > 4
          BY <4>1, NowLoop DEF Now, CtlInv
        <5>3. IsTrace(tr') /\ Len(todo) # 2
          BY <5>1, <5>2 DEF CtlInv, AtScript
        <5> QED BY <2>0, <2>2, <4>1, <5>1, <5>2, <5>3, IdleStep
      <4> QED BY <4>2, <4>3
    <3>9. CASE FetchParam
      BY <2>0, <2>2, <3>9, WaitStep
    <3>10. CASE FetchDone
      BY <2>0, <2>2, <3>10, EndStep
    <3>11. CASE StepReset
      <4>1. /\ todo # <<>> /\ fetching = NoMod /\ todo' = Tail(todo) /\ ResetStep
            /\ iter > 0 /\ Len(todo) = 4
        BY <3>11, NowLoop DEF StepReset, Now, CtlInv
      <4>2. CASE \E p \in Params : InRegistry(p)
        <5>1. Raise("still have inflight params")
          BY <4>1, <4>2 DEF ResetStep
        <5> QED BY <2>2, <4>1, <5>1, RaiseStep
      <4>3. CASE ~ \E p \in Params : InRegistry(p)
        <5>1. /\ UNCHANGED <<registry, status, active, fetching, waiting, weights, err>>
              /\ tr' = NextTrace(tr)
          BY <4>1, <4>3 DEF ResetStep, streamVars
        <5>2. IsTrace(tr') /\ Len(todo) # 2
          BY <4>1, <5>1, NextTraceType DEF CtlInv
        <5> QED BY <2>0, <2>2, <4>1, <5>1, <5>2, IdleStep
      <4> QED BY <4>2, <4>3
    <3>12. CASE Epilogue
      <4>1. /\ todo # <<>> /\ fetching = NoMod /\ todo' = Tail(todo)
            /\ iter > 0 /\ Len(todo) = 3
            /\ UNCHANGED <<tr, registry, status, active, fetching, waiting, weights, err>>
        BY <3>12, NowLoop DEF Epilogue, Now, CtlInv, coordVars, streamVars
      <4>2. IsTrace(tr') /\ Len(todo) # 2
        BY <4>1 DEF CtlInv
      <4> QED BY <2>0, <2>2, <4>1, <4>2, IdleStep
    <3>13. CASE ReleaseAll
      BY <2>0, <2>2, <3>13, ReleaseAllStep
    <3>14. CASE UpdateShards
      BY <2>0, <2>2, <3>14, UpdateStep
    <3> QED BY <2>2, <3>1, <3>2, <3>3, <3>4, <3>5, <3>6, <3>7, <3>8, <3>9, <3>10, <3>11, <3>12, <3>13, <3>14
            DEF Start, Hooks, Loop
  <2> QED BY <1>3, <2>1, <2>2 DEF Host
<1> QED BY <1>1, <1>2, <1>3 DEF Next

\* The model before it is partitioned.
LEMMA CtlInit ==
  ASSUME Init
  PROVE  CtlInv /\ LP!Init
<1> DEFINE N == Cardinality(Params)
<1>1. /\ tr = EmptyTrace /\ registry = [p \in Params |-> NoHandle]
      /\ status = [p \in Params |-> "AVAILABLE"] /\ active = [p \in Params |-> {}]
      /\ fetching = NoMod /\ waiting = {} /\ err = "none" /\ weights = 1
      /\ todo = BringUp /\ schedule \in Schedules /\ iter = 0
  BY DEF Init, StreamsInit, CoordinatorInit
<1>2. IsTrace(tr)
  BY <1>1, TraceInit
<1>3. todo = Script(0) /\ todo \in Seq(HostEvents) /\ Len(todo) = 3 * N /\ N \in Nat
  BY <1>1, StartScript DEF Script
<1>4. AtScript /\ Done = 0
  <2>1. Done = 0 /\ Len(todo) \in Nat
    BY <1>1, <1>3 DEF Done
  <2>2. iter \in 0 .. Len(schedule)
    BY <1>1, ScheduleAssumption
  <2> QED BY <1>1, <1>3, <2>1, <2>2 DEF AtScript
<1>5. UnderWay = {} /\ InFlightTogether
  BY <1>1 DEF UnderWay, InFlightTogether
<1>6. FetchUnderWay /\ Released
  BY <1>1 DEF FetchUnderWay, Released
<1>7. BeforeLoop
  <2>1. \A i \in 1 .. N : Nth(Params, i) \in Params /\ i > Done
    BY <1>3, <1>4, Network DEF NetworkFacts
  <2> QED BY <1>1, <2>1 DEF BeforeLoop
<1>8. LP!Init
  BY <1>1, <1>5 DEF LP!Init, LP!NoMod, NoMod
<1>9. LP!Inv
  BY <1>8, LP!InitInv
<1> QED BY <1>2, <1>4, <1>5, <1>6, <1>7, <1>8, <1>9 DEF CtlInv

\* The invariant of the host thread's control.
THEOREM ControlInvariance == Spec => []CtlInv
<1>1. Init => CtlInv
  BY CtlInit
<1>2. CtlInv /\ [Next]_vars => CtlInv'
  BY CtlStep
<1> QED BY <1>1, <1>2, PTL DEF Spec

\* No release takes a parameter from a submodule that still uses it.
THEOREM ActiveParametersStay == Spec => []ActiveAvailable
<1>1. CtlInv => ActiveAvailable
  BY DEF CtlInv, LP!Inv, LP!ActiveAvailable, ActiveAvailable, L!ActiveAvailable
<1> QED BY <1>1, ControlInvariance, PTL

\* The coordinator with the streams implements the life of the parameters.
THEOREM CoordinatorImplementsLifecycle == Spec => ImplementsLifecycle
<1>1. Init => L!Init
  BY CtlInit DEF LP!Init, L!Init, LP!NoMod, L!NoMod
<1>2. CtlInv /\ [Next]_vars => [err' = "none" => L!Next]_(L!vars)
  <2> SUFFICES ASSUME CtlInv, [Next]_vars, err' = "none", L!vars' # L!vars PROVE L!Next
    OBVIOUS
  <2>1. LifeStep
    BY CtlStep
  <2>2. LP!Next
    BY <2>1 DEF LifeStep, LP!vars, L!vars
  <2> QED BY <2>2 DEF LP!Next, L!Next, LP!ReleaseAll, L!ReleaseAll, LP!Update, L!Update, LP!PartitionParam,
       L!PartitionParam, LP!AllGather, L!AllGather, LP!Take, L!Take, LP!Fetch, L!Fetch, LP!Fetched, L!Fetched,
       LP!Leave, L!Leave, LP!Gather, L!Gather, LP!Partition, L!Partition, LP!WithStatus, L!WithStatus,
       LP!NotAvailable, L!NotAvailable, LP!NoMod, L!NoMod
<1> QED BY <1>1, <1>2, ControlInvariance, PTL DEF Spec, ImplementsLifecycle

-----------------------------------------------------------------------------
(* What the forward script runs next *)

\* What the forward script runs next: a submodule that returns has been called
\* and has its parameters.
Calls ==
  iter > 0 => LET f == schedule[iter] IN
    \A y \in Done + 1 .. Len(f) :
      f[y].ev = "post_fwd" /\ (\A x \in Done + 1 .. y - 1 : f[x] # Event("pre_fwd", f[y].m)) =>
        \A p \in ParamsOf[f[y].m] : f[y].m \in active[p]

\* A script begins with the forward pass.
LEMMA PassScript ==
  ASSUME schedule \in Schedules, NEW n \in 1 .. Len(schedule)
  PROVE  /\ schedule[n] \in Seq(ForwardEvents) /\ Called(schedule[n]) /\ Len(schedule[n]) \in Nat
         /\ \A y \in 1 .. Len(schedule[n]) : Script(n)[y] = schedule[n][y]
         /\ \A y \in 1 .. Len(Script(n)) : y > Len(schedule[n]) => Script(n)[y] \in BackwardEvents \cup EndEvents
<1>1. schedule[n] \in Seq(ForwardEvents) /\ n # 0
  BY ScheduleAssumption
<1>2. Called(schedule[n])
  BY CallAssumption, ScheduleAssumption
<1>3. /\ Backward(schedule[n]) \in Seq(HookEvents) /\ schedule[n] \in Seq(HookEvents)
      /\ EndOfStep \in Seq(EndEvents)
  BY <1>1, BackwardType DEF EndOfStep, EndEvents
<1> DEFINE f == schedule[n]
           b == Backward(f)
<1>4. f \in Seq(HostEvents) /\ b \in Seq(HostEvents) /\ EndOfStep \in Seq(HostEvents)
  BY <1>3 DEF HostEvents
<1>5. Script(n) = (f \o b) \o EndOfStep
  BY <1>1 DEF Script
<1> HIDE DEF f, b
<1>6. ASSUME NEW y \in 1 .. Len(f) PROVE Script(n)[y] = f[y]
  <2>1. /\ f \o b \in Seq(HostEvents) /\ y \in 1 .. Len(f \o b) /\ (f \o b)[y] = f[y]
    <3>1. Len(f \o b) = Len(f) + Len(b) /\ Len(f) \in Nat /\ Len(b) \in Nat
      BY <1>4, ConcatFacts
    <3> QED BY <1>4, <3>1, ConcatFacts
  <2>2. ((f \o b) \o EndOfStep)[y] = (f \o b)[y]
    BY <1>4, <2>1, ConcatFacts
  <2> QED BY <1>5, <2>1, <2>2
<1>7. ASSUME NEW y \in 1 .. Len(Script(n)), y > Len(f) PROVE Script(n)[y] \in BackwardEvents \cup EndEvents
  <2> DEFINE W == BackwardEvents \cup EndEvents
  <2>1. b \in Seq(BackwardEvents)
    BY <1>1, BackwardType DEF f, b
  <2>2. b \in Seq(W) /\ EndOfStep \in Seq(W)
    BY <1>3, <2>1
  <2> HIDE DEF W
  <2>3. /\ Len(f \o b) = Len(f) + Len(b) /\ Len(f) \in Nat /\ Len(b) \in Nat /\ f \o b \in Seq(HostEvents)
        /\ \A i \in 1 .. Len(b) : (f \o b)[Len(f) + i] = b[i]
    BY <1>4, ConcatFacts
  <2>4. /\ Len(Script(n)) = Len(f \o b) + Len(EndOfStep) /\ Len(EndOfStep) \in Nat
        /\ \A i \in 1 .. Len(f \o b) : Script(n)[i] = (f \o b)[i]
        /\ \A i \in 1 .. Len(EndOfStep) : Script(n)[Len(f \o b) + i] = EndOfStep[i]
    BY <1>4, <1>5, <2>3, ConcatFacts
  <2>5. CASE y <= Len(f) + Len(b)
    <3>1. y - Len(f) \in 1 .. Len(b) /\ Len(f) + (y - Len(f)) = y /\ y \in 1 .. Len(f \o b)
      BY <1>7, <2>3, <2>5
    <3>2. Script(n)[y] = b[y - Len(f)]
      BY <2>3, <2>4, <3>1
    <3> QED BY <2>2, <3>1, <3>2 DEF W
  <2>6. CASE y > Len(f) + Len(b)
    <3>0. PICK k \in Nat : k = Len(f \o b) /\ k = Len(f) + Len(b)
      BY <2>3
    <3>1. y - k \in 1 .. Len(EndOfStep) /\ k + (y - k) = y
      BY <1>7, <2>4, <2>6, <3>0
    <3>2. Script(n)[y] = EndOfStep[y - k]
      BY <2>4, <3>0, <3>1
    <3> QED BY <2>2, <3>1, <3>2 DEF W
  <2> QED BY <1>7, <2>3, <2>5, <2>6
<1> QED BY <1>1, <1>2, <1>6, <1>7 DEF f

\* Where in the forward pass the host thread is.
LEMMA AtPass ==
  ASSUME AtScript, iter > 0
  PROVE  LET f == schedule[iter] IN
         /\ f \in Seq(ForwardEvents) /\ Called(f) /\ Len(f) \in Nat
         /\ todo # <<>> /\ Done + 1 <= Len(f) => todo[1] = f[Done + 1]
         /\ todo # <<>> /\ todo[1].ev \notin {"pre_fwd", "use", "post_fwd"} => Done + 1 > Len(f)
         /\ todo # <<>> /\ todo[1].ev \in {"pre_fwd", "post_fwd"} => Done + 1 <= Len(f)
<1> DEFINE f == schedule[iter]
<1>1. iter \in 1 .. Len(schedule) /\ schedule \in Schedules /\ Done \in Nat
  BY ScheduleAssumption DEF AtScript
<1>2. f \in Seq(ForwardEvents) /\ Called(f) /\ Len(f) \in Nat /\ \A y \in 1 .. Len(f) : Script(iter)[y] = f[y]
  BY <1>1, PassScript
<1> HIDE DEF f
<1>3. ASSUME todo # <<>>, Done + 1 <= Len(f) PROVE todo[1] = f[Done + 1] /\ f[Done + 1] \in ForwardEvents
  <2>1. 1 \in 1 .. Len(todo) /\ Done + 1 \in 1 .. Len(f)
    BY <1>1, <1>2, <1>3 DEF AtScript
  <2>2. todo[1] = Script(iter)[Done + 1]
    BY <2>1 DEF AtScript
  <2> QED BY <1>2, <2>1, <2>2
<1>4. \A e \in ForwardEvents : e.ev \in {"pre_fwd", "use", "post_fwd"}
  BY DEF ForwardEvents, Event
<1>5. ASSUME todo # <<>>, Done + 1 > Len(f) PROVE todo[1].ev \notin {"pre_fwd", "post_fwd"}
  <2>1. 1 \in 1 .. Len(todo) /\ todo[1] = Script(iter)[Done + 1]
    BY <1>5 DEF AtScript
  <2>2. Len(Script(iter)) = Done + Len(todo) /\ Len(todo) \in Nat /\ Len(Script(iter)) \in Nat
    <3>1. Len(Script(iter)) \in Nat
      BY <1>1, LoopScript
    <3> QED BY <1>1, <3>1 DEF Done, AtScript
  <2>3. Done + 1 \in 1 .. Len(Script(iter))
    BY <1>1, <2>1, <2>2
  <2>4. todo[1] \in BackwardEvents \cup EndEvents
    BY <1>1, <1>5, <2>1, <2>3, PassScript DEF f
  <2> QED BY <2>4 DEF BackwardEvents, EndEvents, Event
<1> QED BY <1>1, <1>2, <1>3, <1>4, <1>5 DEF f

\* As long as the script stands still no submodule gives up its parameters.
LEMMA CallsStay ==
  ASSUME AtScript, Calls, todo' = todo, UNCHANGED loopVars, \A p \in Params : active[p] \subseteq active'[p]
  PROVE  Calls'
<1>1. Done' = Done /\ schedule' = schedule /\ iter' = iter
  BY DEF Done, Script, loopVars
<1> SUFFICES ASSUME iter > 0, NEW y \in Done + 1 .. Len(schedule[iter]), schedule[iter][y].ev = "post_fwd",
                    \A x \in Done + 1 .. y - 1 : schedule[iter][x] # Event("pre_fwd", schedule[iter][y].m),
                    NEW p \in ParamsOf[schedule[iter][y].m]
             PROVE  schedule[iter][y].m \in active'[p]
  BY <1>1 DEF Calls
<1>2. schedule[iter][y].m \in active[p]
  BY DEF Calls
<1>3. schedule[iter][y].m \in Mods
  <2>1. schedule[iter] \in Seq(ForwardEvents) /\ Len(schedule[iter]) \in Nat /\ Done \in Nat
    BY AtPass DEF AtScript
  <2>2. schedule[iter][y] \in ForwardEvents
    BY <2>1
  <2> QED BY <2>2 DEF ForwardEvents, Event
<1> QED BY <1>2, <1>3, Network DEF NetworkFacts

\* When it goes on, a submodule that was called has its parameters, and one
\* that returned is called again before it returns again.
LEMMA CallsNext ==
  ASSUME AtScript, Calls, todo # <<>>, todo' = Tail(todo), UNCHANGED loopVars,
         todo[1].ev \in {"pre_fwd", "use", "post_fwd"} =>
           \A m \in Mods : \A p \in ParamsOf[m] :
             /\ m \in active[p] /\ todo[1] # Event("post_fwd", m) => m \in active'[p]
             /\ todo[1] = Event("pre_fwd", m) => m \in active'[p]
  PROVE  Calls'
<1>1. Done' = Done + 1 /\ schedule' = schedule /\ iter' = iter /\ Done \in Nat
  <2>1. todo' # todo
    BY DEF AtScript
  <2> QED BY <2>1, ScriptStep DEF loopVars, AtScript
<1> SUFFICES ASSUME iter > 0 PROVE Calls'
  BY <1>1 DEF Calls
<1> DEFINE f == schedule[iter]
<1>2. /\ f \in Seq(ForwardEvents) /\ Called(f) /\ Len(f) \in Nat
      /\ Done + 1 <= Len(f) => todo[1] = f[Done + 1]
      /\ todo[1].ev \notin {"pre_fwd", "use", "post_fwd"} => Done + 1 > Len(f)
  BY AtPass
<1>3. ASSUME NEW y \in Done + 2 .. Len(f), f[y].ev = "post_fwd",
             \A x \in Done + 2 .. y - 1 : f[x] # Event("pre_fwd", f[y].m),
             NEW p \in ParamsOf[f[y].m]
      PROVE  f[y].m \in active'[p]
  <2> HIDE DEF f
  <2>1. Done + 1 \in 1 .. Len(f) /\ y \in 1 .. Len(f)
    BY <1>1, <1>2
  <2>2. f[y] \in ForwardEvents /\ todo[1] = f[Done + 1] /\ todo[1] \in ForwardEvents
    BY <1>2, <2>1
  <2> DEFINE m == f[y].m
  <2>3. m \in Mods /\ todo[1].ev \in {"pre_fwd", "use", "post_fwd"} /\ f[y] = Event("post_fwd", m)
    <3>1. \A e \in ForwardEvents : e.ev \in {"pre_fwd", "use", "post_fwd"} /\ e.m \in Mods /\ e = Event(e.ev, e.m)
      BY DEF ForwardEvents, Event
    <3> QED BY <1>3, <2>2, <3>1
  <2>4. CASE todo[1] = Event("post_fwd", m)
    <3>1. PICK i \in DOMAIN f : IsCall(f, i, y)
      BY <1>2, <1>3, <2>1 DEF Called
    <3>2. /\ i < y /\ f[i] = Event("pre_fwd", m) /\ \A k \in i + 1 .. y - 1 : f[k] # f[y]
      BY <3>1 DEF IsCall, Event
    <3>3. i \in 1 .. Len(f)
      BY <1>2
    <3>4. f[Done + 1] = f[y] /\ f[i] # f[Done + 1]
      BY <2>2, <2>3, <2>4, <3>2 DEF Event
    <3>5. Done + 1 \in i + 1 .. y - 1 \/ i \in Done + 2 .. y - 1
      <4>1. i # Done + 1
        BY <3>4
      <4> QED BY <1>1, <3>2, <3>3, <4>1
    <3> QED BY <1>3, <3>2, <3>4, <3>5
  <2>5. CASE todo[1] = Event("pre_fwd", m)
    BY <2>3, <2>5
  <2>6. CASE todo[1] # Event("post_fwd", m) /\ todo[1] # Event("pre_fwd", m)
    <3>1. \A x \in Done + 1 .. y - 1 : f[x] # Event("pre_fwd", f[y].m)
      <4> SUFFICES ASSUME NEW x \in Done + 1 .. y - 1 PROVE f[x] # Event("pre_fwd", f[y].m)
        OBVIOUS
      <4>1. x = Done + 1 \/ x \in Done + 2 .. y - 1
        BY <1>1
      <4> QED BY <1>3, <2>2, <2>6, <4>1
    <3>2. y \in Done + 1 .. Len(f)
      BY <1>1, <2>1
    <3>3. m \in active[p]
      BY <1>3, <3>1, <3>2 DEF Calls, f
    <3> QED BY <2>3, <2>6, <3>3
  <2> QED BY <2>4, <2>5, <2>6
<1>4. Done + 1 + 1 = Done + 2
  BY <1>1
<1> QED BY <1>1, <1>3, <1>4 DEF Calls

\* The next iteration begins with calls.
LEMMA CallsBegin ==
  ASSUME CtlInv, Running, StartIteration
  PROVE  Calls'
<1>1. Done' = 0 /\ schedule' = schedule /\ schedule \in Schedules /\ iter' \in 1 .. Len(schedule)
  <2>1. CtlInv' /\ iter \in 0 .. Len(schedule) /\ schedule \in Schedules
    BY IterationStep DEF CtlInv, AtScript
  <2>2. iter' \in 1 .. Len(schedule) /\ schedule' = schedule
    BY <2>1, ScheduleAssumption DEF StartIteration
  <2>3. todo' = Script(iter)'
    <3>1. todo' = schedule[iter'] \o Backward(schedule[iter']) \o EndOfStep
      BY DEF StartIteration
    <3>2. iter' # 0
      BY <2>1, <2>2, ScheduleAssumption
    <3> QED BY <2>2, <3>1, <3>2 DEF Script
  <2>4. Len(todo)' \in Nat
    BY <2>1 DEF CtlInv, AtScript
  <2>5. Len(Script(iter))' = Len(todo)'
    BY <2>3
  <2> QED BY <2>5, <2>4, <2>1, <2>2, <2>3 DEF Done
<1>2. schedule'[iter'] \in Seq(ForwardEvents) /\ Called(schedule'[iter']) /\ Len(schedule'[iter']) \in Nat
  BY <1>1, PassScript
<1> DEFINE f == schedule'[iter']
<1>3. ASSUME NEW y \in 1 .. Len(f), f[y].ev = "post_fwd"
      PROVE  \E x \in 1 .. y - 1 : f[x] = Event("pre_fwd", f[y].m)
  <2>1. PICK i \in DOMAIN f : IsCall(f, i, y)
    BY <1>2, <1>3 DEF Called
  <2>2. i < y /\ f[i] = Event("pre_fwd", f[y].m)
    BY <2>1 DEF IsCall, Event
  <2>3. i \in 1 .. y - 1
    BY <1>2, <2>2
  <2> QED BY <2>2, <2>3
<1> QED BY <1>1, <1>3 DEF Calls

\* A submodule that returns has all its parameters (PostForward).
LEMMA ReturnHasParams ==
  ASSUME CtlInv, Calls, Now("post_fwd")
  PROVE  Mod \in Mods /\ \A p \in ParamsOf[Mod] : p \in Params /\ Mod \in active[p] /\ status[p] = "AVAILABLE"
<1>1. todo # <<>> /\ Head(todo).ev = "post_fwd" /\ Head(todo) = todo[1] /\ todo[1] = Script(iter)[Done + 1] /\ Done \in Nat
  BY DEF Now, CtlInv, AtScript
<1>2. iter > 0 /\ Mod \in Mods /\ Len(todo) > 4
  BY <1>1, NowLoop DEF CtlInv
<1> DEFINE f == schedule[iter]
<1>3. /\ f \in Seq(ForwardEvents) /\ Called(f) /\ Len(f) \in Nat
      /\ Done + 1 <= Len(f) => todo[1] = f[Done + 1]
  BY <1>1, <1>2, AtPass DEF CtlInv
<1>4. Done + 1 \in Done + 1 .. Len(f) /\ todo[1] = f[Done + 1] /\ f[Done + 1].ev = "post_fwd" /\ f[Done + 1].m = Mod
  <2>1. Done + 1 <= Len(f)
    BY <1>1, <1>2, AtPass DEF CtlInv
  <2> QED BY <1>1, <1>3, <2>1 DEF Mod
<1>5. \A x \in Done + 1 .. (Done + 1) - 1 : FALSE
  BY <1>1
<1>6. \A p \in ParamsOf[Mod] : Mod \in active[p]
  <2> HIDE DEF f
  <2>1. \A p \in ParamsOf[f[Done + 1].m] : f[Done + 1].m \in active[p]
    BY <1>2, <1>4, <1>5 DEF Calls, f
  <2> QED BY <1>4, <2>1
<1>7. \A p \in ParamsOf[Mod] : p \in Params
  BY <1>2, Network DEF NetworkFacts
<1> QED BY <1>2, <1>6, <1>7, LifeType DEF CtlInv

\* Every step keeps it: a release leaves the submodules that are still to
\* return their parameters.
LEMMA CallsStep ==
  ASSUME CtlInv, Calls, [Next]_vars
  PROVE  Calls'
<1>0. AtScript /\ StatusType
  BY LifeType DEF CtlInv
<1>1. CASE UNCHANGED vars
  BY <1>0, <1>1, CallsStay DEF vars, loopVars
<1>2. CASE Device
  BY <1>0, <1>2, CallsStay DEF Device, hookVars, loopVars, coordVars
<1>3. CASE Host
  <2>0. Running
    BY <1>3 DEF Host
  <2>1. CASE StartIteration
    BY <2>0, <2>1, CallsBegin
  <2>2. ASSUME (Start \/ Hooks \/ Loop), UNCHANGED loopVars PROVE Calls'
    <3>1. ASSUME todo' = todo, \A p \in Params : active[p] \subseteq active'[p] PROVE Calls'
      BY <1>0, <2>2, <3>1, CallsStay
    <3>2. ASSUME NEW kind, kind \notin {"pre_fwd", "use", "post_fwd"}, Now(kind), todo' = Tail(todo) PROVE Calls'
      <4>1. todo # <<>> /\ todo[1].ev = kind
        BY <1>0, <3>2 DEF Now, AtScript
      <4> QED BY <1>0, <2>2, <3>2, <4>1, CallsNext
    <3>3. CASE Start \/ Loop \/ PostBackward
      BY <3>2, <3>3 DEF Start, Loop, ConvertParam, GatherForHook, AddHook, StepReset, Epilogue, ReleaseAll, UpdateShards,
                        PostBackward
    <3>4. CASE PreForward
      BY <3>1, <3>4 DEF PreForward, BeginFetch, Raise
    <3>5. CASE PreBackward
      BY <3>1, <3>2, <3>5 DEF PreBackward, BeginFetch, Raise
    <3>6. CASE UseParams
      <4>0. active' = active
        BY <3>6 DEF UseParams, coordVars, Raise
      <4>3. Now("use") /\ todo' = Tail(todo)
        BY <3>6 DEF UseParams
      <4>1. todo # <<>> /\ todo[1].ev = "use"
        BY <1>0, <4>3 DEF Now, AtScript
      <4>2. \A m : todo[1] # Event("post_fwd", m) /\ todo[1] # Event("pre_fwd", m)
        BY <4>1 DEF Event
      <4> QED BY <1>0, <2>2, <4>0, <4>1, <4>2, <4>3, CallsNext
    <3>7. CASE PostForward
      <4>1. /\ todo # <<>> /\ todo[1].ev = "post_fwd" /\ Mod = todo[1].m /\ todo' = Tail(todo)
            /\ active' = [p \in Params |-> IF p \in ParamsOf[Mod] THEN active[p] \ {Mod} ELSE active[p]]
        BY <1>0, <3>7 DEF PostForward, Now, AtScript, Mod, ReleaseSubModule
      <4>2. ASSUME NEW m \in Mods, NEW p \in ParamsOf[m]
            PROVE  /\ m \in active[p] /\ todo[1] # Event("post_fwd", m) => m \in active'[p]
                   /\ todo[1] # Event("pre_fwd", m)
        <5>1. p \in Params
          BY Network DEF NetworkFacts
        <5>2. todo[1] \in HookEvents
          <6>1. Head(todo) = todo[1]
            BY <1>0, <4>1 DEF AtScript
          <6>2. todo[1] \in HostEvents
            BY <1>0, <4>1 DEF AtScript
          <6> QED BY <4>1, <6>2, EventFields DEF HostEvents
        <5>3. todo[1] = Event("post_fwd", Mod)
          BY <4>1, <5>2 DEF HookEvents, Event
        <5>4. m = Mod => todo[1] = Event("post_fwd", m)
          BY <5>3
        <5>5. todo[1] # Event("pre_fwd", m)
          BY <4>1 DEF Event
        <5> QED BY <4>1, <5>1, <5>4, <5>5
      <4> QED BY <1>0, <2>2, <4>1, <4>2, CallsNext
    <3>8. CASE FetchParam
      <4>1. PICK p \in Params : WaitParam(p) /\ todo' = todo
        BY <3>8 DEF FetchParam, hookVars
      <4>2. active' = active \/ active' = [active EXCEPT ![p] = @ \cup {fetching}]
        BY <4>1 DEF WaitParam, Raise, WaitRound
      <4>3. \A q \in Params : active[q] \subseteq active'[q]
        BY <1>0, <4>2 DEF StatusType
      <4> QED BY <3>1, <4>1, <4>3
    <3>9. CASE FetchDone
      <4>1. /\ fetching # NoMod /\ waiting = {} /\ todo' = Tail(todo) /\ active' = active
            /\ todo # <<>> /\ fetching \in Mods
        BY <2>0, <3>9, NowFetch DEF FetchDone, EndFetch, Raise
      <4>2. /\ todo[1].m = fetching /\ todo[1].ev \in {"pre_fwd", "pre_bwd"}
            /\ \A p \in ParamsOf[fetching] : fetching \in active[p]
        BY <2>0, <4>1 DEF CtlInv, FetchUnderWay
      <4>3. \A m : todo[1] # Event("post_fwd", m) /\ (todo[1] = Event("pre_fwd", m) => m = fetching)
        BY <4>2 DEF Event
      <4> QED BY <1>0, <2>2, <4>1, <4>2, <4>3, CallsNext
    <3> QED BY <2>2, <3>3, <3>4, <3>5, <3>6, <3>7, <3>8, <3>9 DEF Hooks
  <2> QED BY <1>3, <2>1, <2>2 DEF Host
<1> QED BY <1>1, <1>2, <1>3 DEF Next

-----------------------------------------------------------------------------
(* Sums of sizes *)

\* The sums over the subsets of S that the fold of a sum goes through.
IsSum(f, S) ==
  f = [s \in SUBSET S |-> IF s = {} THEN 0 ELSE Numel[CHOOSE x \in s : TRUE] + f[s \ {CHOOSE x \in s : TRUE}]]

\* There is such a function.
LEMMA SumExists ==
  ASSUME NEW S \in SUBSET Params
  PROVE  \E f : IsSum(f, S)
<1>1. IsFiniteSet(S) /\ \A s \in SUBSET S : IsFiniteSet(s) /\ Cardinality(s) \in Nat
  BY StreamsAssumption, FS_Subset, FS_CardinalityType
<1>2. \A x \in S : Numel[x] \in Nat
  BY CoordinatorAssumption
<1> DEFINE Rec(g, s) == IF s = {} THEN 0 ELSE Numel[CHOOSE x \in s : TRUE] + g[s \ {CHOOSE x \in s : TRUE}]
           T == {n \in Nat : \E g \in [SUBSET S -> Nat] : \A s \in SUBSET S : Cardinality(s) <= n => g[s] = Rec(g, s)}
<1>3. ASSUME NEW g \in [SUBSET S -> Nat], NEW s \in SUBSET S
      PROVE  Rec(g, s) \in Nat
  <2>1. s # {} => (CHOOSE x \in s : TRUE) \in S
    OBVIOUS
  <2>2. s # {} => Numel[CHOOSE x \in s : TRUE] \in Nat /\ g[s \ {CHOOSE x \in s : TRUE}] \in Nat
    BY <1>2, <2>1
  <2> QED BY <2>2
<1>4. 0 \in T
  <2> DEFINE g == [s \in SUBSET S |-> 0]
  <2>1. \A s \in SUBSET S : Cardinality(s) <= 0 => s = {}
    BY <1>1, FS_EmptySet
  <2>2. g \in [SUBSET S -> Nat] /\ \A s \in SUBSET S : Cardinality(s) <= 0 => g[s] = Rec(g, s)
    BY <2>1
  <2> QED BY <2>2
<1>5. ASSUME NEW n \in Nat, n \in T PROVE n + 1 \in T
  <2>1. PICK g \in [SUBSET S -> Nat] : \A s \in SUBSET S : Cardinality(s) <= n => g[s] = Rec(g, s)
    BY <1>5
  <2> DEFINE h == [s \in SUBSET S |-> Rec(g, s)]
  <2>2. h \in [SUBSET S -> Nat]
    BY <1>3
  <2>3. ASSUME NEW s \in SUBSET S, Cardinality(s) <= n + 1
        PROVE  h[s] = Rec(h, s)
    <3>1. CASE s = {}
      BY <3>1
    <3>2. CASE s # {}
      <4>1. PICK c \in s : c = CHOOSE x \in s : TRUE
        BY <3>2
      <4>2. Cardinality(s \ {c}) = Cardinality(s) - 1
        BY <1>1, FS_RemoveElement
      <4>3. Cardinality(s \ {c}) <= n /\ s \ {c} \in SUBSET S
        BY <1>1, <2>3, <4>2
      <4>4. g[s \ {c}] = Rec(g, s \ {c})
        BY <2>1, <4>3
      <4>5. h[s \ {c}] = Rec(g, s \ {c}) /\ h[s] = Rec(g, s)
        BY <4>3
      <4> HIDE DEF h
      <4> QED BY <3>2, <4>1, <4>4, <4>5
    <3> QED BY <3>1, <3>2
  <2> HIDE DEF h, Rec
  <2>4. \A s \in SUBSET S : Cardinality(s) <= n + 1 => h[s] = Rec(h, s)
    BY <2>3
  <2> QED BY <2>2, <2>4
<1>6. \A n \in Nat : n \in T
  <2> HIDE DEF T
  <2> QED BY <1>4, <1>5, Induction
<1>7. PICK g \in [SUBSET S -> Nat] : \A s \in SUBSET S : Cardinality(s) <= Cardinality(S) => g[s] = Rec(g, s)
  BY <1>1, <1>6
<1>8. \A s \in SUBSET S : g[s] = Rec(g, s)
  <2>1. \A s \in SUBSET S : Cardinality(s) <= Cardinality(S)
    BY <1>1, FS_Subset
  <2> QED BY <1>7, <2>1
<1>9. g = [s \in SUBSET S |-> Rec(g, s)]
  BY <1>8
<1>10. IsSum(g, S)
  BY <1>9 DEF IsSum
<1> QED BY <1>10

\* The size of a set of parameters is a number.
LEMMA NumelType ==
  ASSUME NEW S \in SUBSET Params
  PROVE  NumelOf(S) \in Nat
<1>1. IsFiniteSet(S) /\ \A s \in SUBSET S : IsFiniteSet(s) /\ Cardinality(s) \in Nat
  BY StreamsAssumption, FS_Subset, FS_CardinalityType
<1> DEFINE f == CHOOSE g : IsSum(g, S)
<1>2. NumelOf(S) = f[S]
  BY Zenon DEF NumelOf, SumFunctionOnSet, FoldFunctionOnSet, MapThenFoldSet, IsSum
<1>3. IsSum(f, S)
  BY SumExists
<1> HIDE DEF f
<1>4. \A s \in SUBSET S : f[s] = IF s = {} THEN 0 ELSE Numel[CHOOSE x \in s : TRUE] + f[s \ {CHOOSE x \in s : TRUE}]
  BY <1>3 DEF IsSum
<1> DEFINE T == {n \in Nat : \A s \in SUBSET S : Cardinality(s) <= n => f[s] \in Nat}
<1>5. 0 \in T
  <2>1. \A s \in SUBSET S : Cardinality(s) <= 0 => s = {}
    BY <1>1, FS_EmptySet
  <2>2. {} \in SUBSET S
    OBVIOUS
  <2>3. f[{}] = 0
    BY <1>4, <2>2, Zenon
  <2> QED BY ONLY <2>1, <2>3
<1>6. ASSUME NEW n \in Nat, n \in T PROVE n + 1 \in T
  <2> SUFFICES ASSUME NEW s \in SUBSET S, Cardinality(s) <= n + 1 PROVE f[s] \in Nat
    OBVIOUS
  <2>1. CASE s = {}
    <3>1. f[s] = 0
      BY <1>4, <2>1, Zenon
    <3> QED BY ONLY <3>1
  <2>2. CASE s # {}
    <3>1. PICK c \in s : c = CHOOSE x \in s : TRUE
      BY <2>2
    <3>2. Cardinality(s \ {c}) = Cardinality(s) - 1
      BY <1>1, FS_RemoveElement
    <3>3. Cardinality(s \ {c}) <= n /\ s \ {c} \in SUBSET S
      BY <1>1, <3>2
    <3>4. f[s \ {c}] \in Nat
      BY <1>6, <3>3
    <3>5. Numel[c] \in Nat
      BY CoordinatorAssumption
    <3>6. f[s] = Numel[c] + f[s \ {c}]
      BY <1>4, <2>2, <3>1, Zenon
    <3> QED BY ONLY <3>4, <3>5, <3>6
  <2> QED BY <2>1, <2>2
<1>7. \A n \in Nat : n \in T
  <2> HIDE DEF T
  <2> QED BY <1>5, <1>6, Induction
<1>8. Cardinality(S) \in T
  BY <1>1, <1>7
<1> QED BY <1>1, <1>2, <1>8

-----------------------------------------------------------------------------
(* The data of a parameter *)

AgOps == {WaitFlagOp(s, g) : s \in Slot, g \in Nat} \cup {WaitNcclOp}
           \cup {CatOp(p, b, c) : p \in Params, b \in Block, c \in Block}
           \cup {LoadOp(p, b) : p \in Params, b \in Block}
CuOps == {WaitStreamOp(n) : n \in Nat} \cup {KernelOp(p, b, v) : p \in Params, b \in Block, v \in Nat}
           \cup {SaveOp(p, b) : p \in Params, b \in Block} \cup {FreeOp(b) : b \in Block}

\* The operation of the allgather stream that waits for the gather h.
Awaits(o, h) ==
  \/ o.op = "wait_flag" /\ h.gen # NoFlag /\ o.src = h.slot /\ o.n = h.gen
  \/ o.op = "wait_nccl"

InFlight == {p \in Params : status[p] = "INFLIGHT"}
Available == {p \in Params : status[p] = "AVAILABLE"}

StreamTypes ==
  /\ transport \in {"flag", "copy", "host", "nccl"} /\ agPos \in Nat /\ weights \in Nat
  /\ agQ \in Seq(AgOps) /\ cuQ \in Seq(CuOps)
  /\ held \subseteq Block /\ mem \in [Block -> Content]
  /\ dpu \subseteq Handle /\ flag \in [Slot -> Nat] /\ gens \in [Slot -> Nat] /\ nextSlot \in Slot
  /\ odd \subseteq {"reused", "early"}

ParamTypes ==
  /\ registry \in [Params -> Handle] /\ data \in [Params -> 0 .. NBlocks]
  /\ \A p \in Params : IF status[p] = "AVAILABLE" THEN data[p] \in Block ELSE data[p] = NoBlock
  /\ cpuFull \subseteq Params /\ pinned \in [Params -> Nat]

DataTypes == StreamTypes /\ ParamTypes

\* Nothing is queued on the allgather stream before the first iteration.
Starting == iter = 0 => agQ = <<>> /\ (Done <= Cardinality(Params) => dpu = {})

\* Behind the epilogue no kernel is left, and behind the release no copy in
\* host memory.
AtUpdate ==
  Running /\ iter > 0 =>
    /\ Len(todo) <= 2 => KernelsDrained
    /\ Len(todo) <= 1 => cpuFull = {}

-----------------------------------------------------------------------------
(* What a step does to the data of the parameters *)

\* Everything but the compute stream's queue and the host's own data.
DeviceKept == UNCHANGED <<transport, dpu, flag, gens, nextSlot, agQ, agPos, held, mem, weights, pinned, odd>>

\* No queued copy is still to read from the block b.
Unread(b) == \A i \in 1 .. Len(agQ) : ~ (agQ[i].op = "cat" /\ agQ[i].src = b)

\* The blocks bs are given out.
OddGrows == odd \subseteq odd' /\ odd' \subseteq odd \cup {"reused"}
GivenOut(bs) == OddGrows /\ (odd' = {} => \A b \in bs : Unread(b))

Idle ==
  /\ DeviceKept /\ UNCHANGED <<cuQ, status, registry, data, cpuFull, fetching, iter>>

\* Kernels, copies to host memory and frees, in this order, are queued for
\* available parameters; those of R are released.
Launch(R, K) ==
  /\ R \subseteq Available /\ K \in Seq(CuOps) /\ cuQ' = cuQ \o K
  /\ \A i \in 1 .. Len(K) :
       /\ K[i].op \in {"kernel", "save", "free"}
       /\ K[i].op # "free" => iter > 0 /\ K[i].p \in Available /\ K[i].src = data[K[i].p]
       /\ K[i].op = "free" => \E p \in R : K[i].src = data[p]
       /\ K[i].op = "kernel" => K[i].n = weights
  /\ \A p \in R : \E i \in 1 .. Len(K) :
       K[i].op = "free" /\ K[i].src = data[p] /\ \A j \in 1 .. Len(K) : K[j].op # "free" => j < i
  /\ \A i, j \in 1 .. Len(K) : K[i].op = "free" /\ K[j].op = "free" /\ K[i].src = K[j].src => i = j
  /\ status' = [p \in Params |-> IF p \in R THEN "NOT_AVAILABLE" ELSE status[p]]
  /\ data' = [p \in Params |-> IF p \in R THEN NoBlock ELSE data[p]]
  /\ \A p \in cpuFull' : p \in cpuFull \/ \E i \in 1 .. Len(K) : K[i].op = "save" /\ K[i].p = p
  /\ fetching = NoMod /\ fetching' = NoMod /\ iter' = iter
  /\ iter = 0 => dpu = {} \/ Done <= Cardinality(Params)
  /\ DeviceKept /\ UNCHANGED registry

\* A gather, with nothing or the join of the streams queued behind it.
Joins(J) == J \in {<<>>, JoinOps} /\ cuQ' = cuQ \o J /\ iter > 0 /\ iter' = iter
            /\ IF fetching' = NoMod THEN J = JoinOps /\ LoadsDone ELSE J = <<>>

Ask(ps, h) ==
  /\ ps # {} /\ ps \subseteq Params /\ \A p \in ps : status[p] = "NOT_AVAILABLE"
  /\ h.ps = ps /\ h \in Handle
  /\ \/ FromHost(h) /\ UNCHANGED <<gens, nextSlot, held, dpu, odd>>
     \/ /\ h.out \in Block \ held /\ held' = held \cup {h.out} /\ dpu' = dpu \cup {h}
        /\ GivenOut({h.out})
        /\ IF flagPool THEN h.slot = Acquired.slot /\ h.gen = Acquired.gen /\ Acquire
           ELSE h.gen = NoFlag /\ UNCHANGED <<gens, nextSlot>>
  /\ registry' = [p \in Params |-> IF p \in ps THEN h ELSE registry[p]]
  /\ status' = [p \in Params |-> IF p \in ps THEN "INFLIGHT" ELSE status[p]]
  /\ UNCHANGED <<transport, flag, agQ, agPos, mem, weights, pinned, data, cpuFull>>

\* No gather is needed.
NoAsk == DeviceKept /\ UNCHANGED <<status, registry, data, cpuFull>>

\* A round of the wait loop that waits for the gather of p, with what it queues.
Take(p, W) ==
  LET h == registry[p] IN
  /\ p \in InFlight /\ W \in Seq(AgOps) /\ agQ' = agQ \o W
  /\ \A j \in 1 .. Len(W) : W[j].op \in {"cat", "load"} =>
       /\ W[j].p \in h.ps /\ W[j].dst = data'[W[j].p] /\ (W[j].op = "load" <=> FromHost(h))
       /\ W[j].op = "cat" => W[j].src = h.out
       /\ ~ Single(h) /\ \A i \in 1 .. Len(W) : W[i].op \in {"cat", "load"} /\ W[i].p = W[j].p => i = j
  /\ \A q \in h.ps : IF Single(h) THEN data'[q] = h.out
                     ELSE /\ data'[q] \in Block \ held
                          /\ \E j \in 1 .. Len(W) : W[j].op \in {"cat", "load"} /\ W[j].p = q
                          /\ \A r \in h.ps : data'[r] = data'[q] => r = q
  /\ h \in dpu /\ ~ FromHost(h) /\ (flagPool => h.gen # NoFlag) =>
       Len(W) > 0 /\ Awaits(W[1], h) /\ W[1].op # "cat"
  /\ FromHost(h) => h.ps \subseteq cpuFull
  /\ status' = [q \in Params |-> IF q \in h.ps THEN "AVAILABLE" ELSE status[q]]
  /\ data' = [q \in Params |-> IF q \in h.ps THEN data'[q] ELSE data[q]]
  /\ held' = (held \ (IF Single(h) THEN {} ELSE {h.out})) \cup {data'[q] : q \in h.ps}
  /\ OddGrows /\ (odd' = {} /\ ~ Single(h) => \A q \in h.ps : Unread(data'[q]))
  /\ registry' = [registry EXCEPT ![p] = NoHandle]
  /\ fetching # NoMod /\ fetching' = fetching /\ iter > 0 /\ iter' = iter
  /\ UNCHANGED <<transport, dpu, flag, gens, nextSlot, agPos, mem, weights, pinned, cuQ, cpuFull>>

\* One that finds its parameter gathered.
Took(p) ==
  /\ p \in Params /\ p \notin InFlight /\ registry' \in {registry, [registry EXCEPT ![p] = NoHandle]}
  /\ DeviceKept /\ UNCHANGED <<cuQ, status, data, cpuFull, fetching, iter>> /\ fetching # NoMod

\* all_gather() when the gradient hooks are installed.
Bring(p, h) ==
  /\ p \in Params /\ status[p] = "NOT_AVAILABLE" /\ h \in Handle /\ h.ps = {p} /\ h.gen = NoFlag
  /\ h.out \in Block \ held /\ held' = held \cup {h.out} /\ dpu' = dpu \cup {h}
  /\ GivenOut({h.out})
  /\ status' = [status EXCEPT ![p] = "AVAILABLE"] /\ data' = [data EXCEPT ![p] = h.out]
  /\ iter = 0 /\ iter' = iter /\ fetching' = fetching
  /\ UNCHANGED <<transport, flag, gens, nextSlot, agQ, agPos, cuQ, mem, weights, pinned, registry, cpuFull>>

Update ==
  /\ weights' = weights + 1 /\ Available = {} /\ InFlight = {} /\ KernelsDrained /\ cpuFull = {}
  /\ UNCHANGED <<transport, dpu, flag, gens, nextSlot, agQ, agPos, held, mem, pinned, odd>>
  /\ UNCHANGED <<cuQ, status, registry, data, cpuFull, fetching, iter>>

Begin ==
  /\ DeviceKept /\ UNCHANGED <<cuQ, status, registry, data, cpuFull, fetching>>
  /\ Available = {} /\ iter' = iter + 1 /\ (iter = 0 => dpu = {} /\ cuQ = <<>>)

HostKept == UNCHANGED <<status, registry, data, cpuFull, fetching, iter>>

\* A step of the data, with the blocks the allocator had left.
DataStep ==
  \/ Idle \/ Update \/ Begin
  \/ \E R \in SUBSET Params : \E K \in Seq(CuOps) : Launch(R, K)
  \/ \E J \in {<<>>, JoinOps} : Joins(J) /\ (NoAsk \/ \E ps \in SUBSET Params : \E h \in Handle : Ask(ps, h))
  \/ \E p \in Params : Took(p) \/ \E W \in Seq(AgOps) : Take(p, W)
  \/ \E p \in Params : \E h \in Handle : Bring(p, h)
  \/ HostKept /\ ((\E h \in dpu : DpuGather(h)) \/ AllGatherStream \/ ComputeStream)

-----------------------------------------------------------------------------
(* The queued operations *)

\* The fields of the queued operations.
LEMMA AgOpFacts ==
  /\ \A o \in AgOps : /\ o.op \in {"wait_flag", "wait_nccl", "cat", "load"}
                      /\ o.op \in {"cat", "load"} => o.p \in Params /\ o.dst \in Block
                      /\ o.op = "cat" => o.src \in Block
  /\ \A s \in Slot, g \in Nat : WaitFlagOp(s, g) \in AgOps
  /\ WaitNcclOp \in AgOps
  /\ \A p \in Params, b \in Block, c \in Block : CatOp(p, b, c) \in AgOps
  /\ \A p \in Params, b \in Block : LoadOp(p, b) \in AgOps
<1>1. ASSUME NEW o \in AgOps
      PROVE  /\ o.op \in {"wait_flag", "wait_nccl", "cat", "load"}
             /\ o.op \in {"cat", "load"} => o.p \in Params /\ o.dst \in Block
             /\ o.op = "cat" => o.src \in Block
  <2>1. CASE \E s \in Slot, g \in Nat : o = WaitFlagOp(s, g)
    BY <2>1 DEF WaitFlagOp, Op
  <2>2. CASE o = WaitNcclOp
    BY <2>2 DEF WaitNcclOp, Op
  <2>3. CASE \E p \in Params, b \in Block, c \in Block : o = CatOp(p, b, c)
    BY <2>3 DEF CatOp, Op
  <2>4. CASE \E p \in Params, b \in Block : o = LoadOp(p, b)
    BY <2>4 DEF LoadOp, Op
  <2> QED BY <2>1, <2>2, <2>3, <2>4 DEF AgOps
<1> QED BY <1>1 DEF AgOps

\* The same for the compute stream.
LEMMA CuOpFacts ==
  /\ \A o \in CuOps : /\ o.op \in {"wait_stream", "kernel", "save", "free"}
                      /\ o.op = "wait_stream" => o.n \in Nat
                      /\ o.op \in {"kernel", "save"} => o.p \in Params
                      /\ o.op \in {"kernel", "save", "free"} => o.src \in Block
  /\ \A n \in Nat : WaitStreamOp(n) \in CuOps
  /\ \A p \in Params, b \in Block : SaveOp(p, b) \in CuOps
  /\ \A p \in Params, b \in Block, v \in Nat : KernelOp(p, b, v) \in CuOps
  /\ \A b \in Block : FreeOp(b) \in CuOps
<1>1. ASSUME NEW o \in CuOps
      PROVE  /\ o.op \in {"wait_stream", "kernel", "save", "free"}
             /\ o.op = "wait_stream" => o.n \in Nat
             /\ o.op \in {"kernel", "save"} => o.p \in Params
             /\ o.op \in {"kernel", "save", "free"} => o.src \in Block
  <2>1. CASE \E n \in Nat : o = WaitStreamOp(n)
    BY <2>1 DEF WaitStreamOp, Op
  <2>2. CASE \E p \in Params, b \in Block, v \in Nat : o = KernelOp(p, b, v)
    BY <2>2 DEF KernelOp, Op
  <2>3. CASE \E p \in Params, b \in Block : o = SaveOp(p, b)
    BY <2>3 DEF SaveOp, Op
  <2>4. CASE \E b \in Block : o = FreeOp(b)
    BY <2>4 DEF FreeOp, Op
  <2> QED BY <2>1, <2>2, <2>3, <2>4 DEF CuOps
<1> QED BY <1>1 DEF CuOps

\* free_param of the parameters in the blocks B.
LEMMA FreesFacts ==
  ASSUME NEW B \in SUBSET Block
  PROVE  LET F == [i \in 1 .. Cardinality(B) |-> FreeOp(Nth(B, i))] IN
         /\ F \in Seq(CuOps)
         /\ \A i \in 1 .. Len(F) : F[i].op = "free" /\ F[i].src \in B
         /\ \A i, j \in 1 .. Len(F) : F[i].src = F[j].src => i = j
         /\ \A b \in B : \E i \in 1 .. Len(F) : F[i].src = b
<1>1. B \subseteq Nat /\ IsFiniteSet(B)
  <2>1. IsFiniteSet(Block) /\ Block \subseteq Nat
    BY FS_Interval, StreamsAssumption DEF Block
  <2> QED BY <2>1, FS_Subset
<1>2. /\ Cardinality(B) \in Nat
      /\ \A n \in 1 .. Cardinality(B) : Nth(B, n) \in B
      /\ \A n, k \in 1 .. Cardinality(B) : n # k => Nth(B, n) # Nth(B, k)
      /\ \A x \in B : \E n \in 1 .. Cardinality(B) : Nth(B, n) = x
  BY <1>1, NthFacts
<1> DEFINE N == Cardinality(B)
           F == [i \in 1 .. N |-> FreeOp(Nth(B, i))]
<1> HIDE DEF N
<1>3. \A i \in 1 .. N : FreeOp(Nth(B, i)) \in CuOps /\ FreeOp(Nth(B, i)).op = "free" /\ FreeOp(Nth(B, i)).src = Nth(B, i)
  BY <1>2, CuOpFacts DEF FreeOp, Op, N
<1>4. F \in Seq(CuOps) /\ Len(F) = N /\ \A i \in 1 .. N : F[i] = FreeOp(Nth(B, i))
  BY <1>2, <1>3 DEF N
<1> HIDE DEF F
<1>5. /\ F \in Seq(CuOps)
      /\ \A i \in 1 .. Len(F) : F[i].op = "free" /\ F[i].src \in B
      /\ \A i, j \in 1 .. Len(F) : F[i].src = F[j].src => i = j
      /\ \A b \in B : \E i \in 1 .. Len(F) : F[i].src = b
  BY <1>2, <1>3, <1>4 DEF N
<1> QED BY <1>5 DEF F, N

\* Where the elements of a concatenation come from.
LEMMA AppendFacts ==
  ASSUME NEW S, NEW s \in Seq(S), NEW t \in Seq(S)
  PROVE  /\ s \o t \in Seq(S) /\ Len(s \o t) = Len(s) + Len(t) /\ Len(s) \in Nat /\ Len(t) \in Nat
         /\ \A i \in 1 .. Len(s) : i \in 1 .. Len(s \o t) /\ (s \o t)[i] = s[i]
         /\ \A i \in 1 .. Len(t) : Len(s) + i \in 1 .. Len(s \o t) /\ (s \o t)[Len(s) + i] = t[i]
         /\ \A i \in 1 .. Len(s \o t) :
              \/ i \in 1 .. Len(s)
              \/ i > Len(s) /\ i - Len(s) \in 1 .. Len(t) /\ (s \o t)[i] = t[i - Len(s)]
<1>1. /\ s \o t \in Seq(S) /\ Len(s \o t) = Len(s) + Len(t) /\ Len(s) \in Nat /\ Len(t) \in Nat
      /\ \A i \in 1 .. Len(s) : (s \o t)[i] = s[i]
      /\ \A i \in 1 .. Len(t) : (s \o t)[Len(s) + i] = t[i]
  BY ConcatFacts
<1>2. ASSUME NEW i \in 1 .. Len(s \o t), i \notin 1 .. Len(s)
      PROVE  i > Len(s) /\ i - Len(s) \in 1 .. Len(t) /\ (s \o t)[i] = t[i - Len(s)]
  <2>1. i > Len(s) /\ i - Len(s) \in 1 .. Len(t) /\ Len(s) + (i - Len(s)) = i
    BY <1>1, <1>2
  <2> QED BY <1>1, <2>1
<1>3. \A i \in 1 .. Len(s) : i \in 1 .. Len(s \o t)
  BY <1>1
<1>4. \A i \in 1 .. Len(t) : Len(s) + i \in 1 .. Len(s \o t)
  BY <1>1
<1> QED BY <1>1, <1>2, <1>3, <1>4

\* Where the elements of the rest of a queue come from.
LEMMA TailFacts ==
  ASSUME NEW S, NEW s \in Seq(S), s # <<>>
  PROVE  /\ Tail(s) \in Seq(S) /\ Len(s) \in Nat /\ Len(Tail(s)) = Len(s) - 1 /\ Len(Tail(s)) \in Nat
         /\ Head(s) = s[1] /\ 1 \in 1 .. Len(s) /\ s[1] \in S
         /\ \A i \in 1 .. Len(Tail(s)) : i + 1 \in 1 .. Len(s) /\ Tail(s)[i] = s[i + 1] /\ i + 1 # 1
         /\ \A i \in 1 .. Len(s) : i = 1 \/ (i - 1 \in 1 .. Len(Tail(s)) /\ Tail(s)[i - 1] = s[i])
<1>1. Tail(s) \in Seq(S) /\ Len(s) \in Nat /\ Len(s) # 0 /\ Len(Tail(s)) = Len(s) - 1 /\ Head(s) = s[1]
  OBVIOUS
<1>2. 1 \in 1 .. Len(s) /\ s[1] \in S
  BY <1>1
<1>3. \A i \in 1 .. Len(s) - 1 : Tail(s)[i] = s[i + 1]
  OBVIOUS
<1>4. \A i \in 1 .. Len(Tail(s)) : i + 1 \in 1 .. Len(s) /\ Tail(s)[i] = s[i + 1] /\ i + 1 # 1
  BY <1>1, <1>3
<1>5. ASSUME NEW i \in 1 .. Len(s), i # 1 PROVE i - 1 \in 1 .. Len(Tail(s)) /\ Tail(s)[i - 1] = s[i]
  <2>1. i - 1 \in 1 .. Len(Tail(s)) /\ (i - 1) + 1 = i
    BY <1>1, <1>5
  <2> QED BY <1>4, <2>1
<1> QED BY <1>1, <1>2, <1>4, <1>5

\* Kernels or copies, then the release of the parameters R.
LEMMA LaunchFacts ==
  ASSUME DataTypes, NEW R \in SUBSET Available, NEW ops \in Seq(CuOps), PartitionParams(R, ops),
         \A i \in 1 .. Len(ops) : /\ ops[i].op \in {"kernel", "save"} /\ iter > 0
                                  /\ ops[i].p \in Available /\ ops[i].src = data[ops[i].p]
                                  /\ ops[i].op = "kernel" => ops[i].n = weights,
         \A p \in cpuFull' : p \in cpuFull \/ \E i \in 1 .. Len(ops) : ops[i].op = "save" /\ ops[i].p = p,
         fetching = NoMod, fetching' = NoMod, iter' = iter, iter = 0 => dpu = {} \/ Done <= Cardinality(Params),
         UNCHANGED <<transport, dpu, flag, gens, nextSlot, agQ, agPos, mem, weights, pinned, odd, registry>>
  PROVE  DataStep
<1> DEFINE B == {data[p] : p \in R}
           F == [i \in 1 .. Cardinality(B) |-> FreeOp(Nth(B, i))]
           K == ops \o F
<1>1. B \in SUBSET Block
  BY DEF DataTypes, ParamTypes, Available
<1>2. /\ F \in Seq(CuOps)
      /\ \A i \in 1 .. Len(F) : F[i].op = "free" /\ F[i].src \in B
      /\ \A i, j \in 1 .. Len(F) : F[i].src = F[j].src => i = j
      /\ \A b \in B : \E i \in 1 .. Len(F) : F[i].src = b
  BY <1>1, FreesFacts
<1>3. cuQ' = (cuQ \o ops) \o F /\ held' = held
  BY DEF PartitionParams, Free
<1> HIDE DEF F
<1>4. cuQ' = cuQ \o K
  <2>1. \A s, t, u \in Seq(CuOps) : (s \o t) \o u = s \o (t \o u)
    OBVIOUS
  <2>2. cuQ \in Seq(CuOps)
    BY DEF DataTypes, StreamTypes
  <2> QED BY <1>2, <1>3, <2>1, <2>2
<1>5. /\ K \in Seq(CuOps) /\ Len(ops) \in Nat
      /\ \A i \in 1 .. Len(ops) : i \in 1 .. Len(K) /\ K[i] = ops[i]
      /\ \A i \in 1 .. Len(F) : Len(ops) + i \in 1 .. Len(K) /\ K[Len(ops) + i] = F[i]
      /\ \A i \in 1 .. Len(K) :
           \/ i \in 1 .. Len(ops)
           \/ i > Len(ops) /\ i - Len(ops) \in 1 .. Len(F) /\ K[i] = F[i - Len(ops)]
  BY <1>2, AppendFacts
<1> HIDE DEF K
<1>6. ASSUME NEW i \in 1 .. Len(K)
      PROVE  /\ K[i].op \in {"kernel", "save", "free"}
             /\ K[i].op # "free" => i \in 1 .. Len(ops) /\ iter > 0 /\ K[i].p \in Available /\ K[i].src = data[K[i].p]
             /\ K[i].op = "free" => i > Len(ops) /\ \E p \in R : K[i].src = data[p]
             /\ K[i].op = "kernel" => K[i].n = weights
  <2>1. CASE i \in 1 .. Len(ops)
    BY <1>5, <2>1
  <2>2. CASE i > Len(ops) /\ i - Len(ops) \in 1 .. Len(F) /\ K[i] = F[i - Len(ops)]
    BY <1>2, <2>2
  <2> QED BY <1>5, <2>1, <2>2
<1>7. ASSUME NEW p \in R
      PROVE  \E i \in 1 .. Len(K) : K[i].op = "free" /\ K[i].src = data[p] /\ \A j \in 1 .. Len(K) : K[j].op # "free" => j < i
  <2>1. PICK i \in 1 .. Len(F) : F[i].src = data[p]
    BY <1>2
  <2>2. Len(ops) + i \in 1 .. Len(K) /\ K[Len(ops) + i] = F[i] /\ F[i].op = "free"
    BY <1>2, <1>5
  <2>3. \A j \in 1 .. Len(K) : K[j].op # "free" => j < Len(ops) + i
    BY <1>5, <1>6
  <2> QED BY <2>1, <2>2, <2>3
<1>8. ASSUME NEW i \in 1 .. Len(K), NEW j \in 1 .. Len(K), K[i].op = "free", K[j].op = "free", K[i].src = K[j].src
      PROVE  i = j
  <2>1. i > Len(ops) /\ j > Len(ops)
    BY <1>6, <1>8
  <2>2. i - Len(ops) \in 1 .. Len(F) /\ K[i] = F[i - Len(ops)] /\ j - Len(ops) \in 1 .. Len(F) /\ K[j] = F[j - Len(ops)]
    BY <1>5, <2>1
  <2>3. i - Len(ops) = j - Len(ops)
    BY <1>2, <1>8, <2>2
  <2> QED BY <1>5, <2>3
<1>9. \A p \in cpuFull' : p \in cpuFull \/ \E i \in 1 .. Len(K) : K[i].op = "save" /\ K[i].p = p
  BY <1>5
<1>10. Launch(R, K)
  BY <1>3, <1>4, <1>5, <1>6, <1>7, <1>8, <1>9 DEF Launch, PartitionParams, DeviceKept
<1> QED BY <1>5, <1>10 DEF DataStep, Available

-----------------------------------------------------------------------------
(* What a gather asks for *)

\* As long as the host goes on there are blocks for a gather of any parameters.
LEMMA FreshForGather ==
  ASSUME MemoryBound, NEW ps \in SUBSET Params
  PROVE  LET S == FreshBlocks(Cardinality(ps)) IN
         /\ IsFiniteSet(ps) /\ ps \subseteq Nat /\ Cardinality(ps) \in Nat
         /\ S \subseteq Block \ held /\ S \subseteq Nat /\ IsFiniteSet(S) /\ Cardinality(S) = Cardinality(ps)
<1>1. IsFiniteSet(ps) /\ ps \subseteq Nat /\ Cardinality(ps) \in Nat /\ Cardinality(ps) <= Cardinality(Params)
  BY StreamsAssumption, FS_Subset, FS_CardinalityType
<1>2. IsFiniteSet(Block \ held) /\ Block \subseteq Nat
  BY FS_Interval, FS_Subset, StreamsAssumption DEF Block
<1>3. Cardinality(Block \ held) \in Nat /\ Cardinality(Params) \in Nat
  BY <1>2, StreamsAssumption, FS_CardinalityType
<1>4. Cardinality(ps) <= Cardinality(Block \ held)
  BY <1>1, <1>3, MemoryAssumption DEF MemoryBound
<1>5. /\ FreshBlocks(Cardinality(ps)) \subseteq Block \ held
      /\ IsFiniteSet(FreshBlocks(Cardinality(ps))) /\ Cardinality(FreshBlocks(Cardinality(ps))) = Cardinality(ps)
  BY <1>1, <1>4, FreshFacts
<1> QED BY <1>1, <1>2, <1>5

\* A gather of one parameter has the lowest free block.
LEMMA FreshOne ==
  ASSUME MemoryBound, NEW q \in Params
  PROVE  (CHOOSE b \in FreshBlocks(1) : TRUE) \in Block \ held
<1>1. Cardinality({q}) = 1
  BY FS_Singleton
<1>2. FreshBlocks(1) \subseteq Block \ held /\ Cardinality(FreshBlocks(1)) = 1
  BY <1>1, FreshForGather
<1>3. FreshBlocks(1) # {}
  BY <1>2, FS_EmptySet
<1> QED BY <1>2, <1>3

\* Blocks whose reuse the history records are given out.
LEMMA GivenOutFacts ==
  ASSUME NEW bs, odd' = odd \cup Reused(bs)
  PROVE  GivenOut(bs)
<1>1. Reused(bs) \subseteq {"reused"}
  BY DEF Reused
<1>2. ASSUME odd' = {}, NEW b \in bs PROVE Unread(b)
  <2>1. Reused(bs) = {}
    BY <1>2
  <2> QED BY <2>1 DEF Reused, Unread
<1> QED BY <1>1, <1>2 DEF GivenOut, OddGrows

\* What __all_gather_params asks for.
LEMMA AskFacts ==
  ASSUME DataTypes, MemoryBound, NEW S \in SUBSET Params, AllGatherParams(S),
         UNCHANGED <<transport, flag, agQ, agPos, mem, weights, pinned, data, cpuFull>>
  PROVE  NoAsk \/ \E ps \in SUBSET Params : \E h \in Handle : Ask(ps, h)
<1> DEFINE ps == NotAvailable(S)
           h == IF ps \subseteq cpuFull THEN HostHandle(ps) ELSE NewHandle(ps)
<1>1. ps \in SUBSET Params /\ \A p \in ps : status[p] = "NOT_AVAILABLE"
  BY DEF NotAvailable
<1>2. CASE ps = {}
  BY <1>2 DEF AllGatherParams, NoAsk, DeviceKept
<1>3. CASE ps # {}
  <2>1. /\ IF FromHost(h) THEN UNCHANGED <<gens, nextSlot, held, dpu, odd>> ELSE EnqueueGather(h)
        /\ registry' = [p \in Params |-> IF p \in ps THEN h ELSE registry[p]]
        /\ status' = [p \in Params |-> IF p \in ps THEN "INFLIGHT" ELSE status[p]]
    BY <1>3 DEF AllGatherParams
  <2>2. NoBlock \in 0 .. NBlocks /\ 0 \in 0 .. PoolSize - 1 /\ 0 \notin Block
    BY StreamsAssumption DEF Block, NoBlock
  <2>3. CASE ps \subseteq cpuFull
    <3>1. h = [ps |-> ps, out |-> NoBlock, slot |-> 0, gen |-> NoFlag]
      BY <2>3 DEF HostHandle
    <3> HIDE DEF h, ps
    <3>2. h \in Handle /\ FromHost(h) /\ h.ps = ps
      BY <1>1, <2>2, <3>1 DEF Handle, FromHost, NoFlag
    <3>3. Ask(ps, h)
      BY <1>1, <1>3, <2>1, <3>2 DEF Ask
    <3> QED BY <1>1, <3>2, <3>3
  <2>4. CASE ~ ps \subseteq cpuFull
    <3> DEFINE b == CHOOSE x \in FreshBlocks(1) : TRUE
    <3>1. b \in Block \ held
      BY <1>1, <1>3, FreshOne
    <3> HIDE DEF b
    <3>2. h = [ps |-> ps, out |-> b, slot |-> nextSlot, gen |-> IF flagPool THEN gens[nextSlot] + 1 ELSE NoFlag]
      BY <2>4 DEF NewHandle, Acquired, b
    <3> HIDE DEF h, ps
    <3>3. /\ h.ps = ps /\ h.out = b /\ h.slot = nextSlot
          /\ h.gen = IF flagPool THEN gens[nextSlot] + 1 ELSE NoFlag
      BY <3>2
    <3>4. b \in 0 .. NBlocks /\ b # NoBlock
      BY <2>2, <3>1, StreamsAssumption DEF Block, NoBlock
    <3>5. nextSlot \in 0 .. PoolSize - 1 /\ gens[nextSlot] + 1 \in Nat
      BY DEF DataTypes, StreamTypes, Slot
    <3>6. h \in Handle
      BY <1>1, <3>2, <3>4, <3>5 DEF Handle, NoFlag
    <3>7. EnqueueGather(h)
      BY <2>1, <3>3, <3>4 DEF FromHost
    <3>8. GivenOut({h.out})
      BY <3>7, GivenOutFacts DEF EnqueueGather
    <3>9. Ask(ps, h)
      BY <1>1, <1>3, <2>1, <3>1, <3>3, <3>6, <3>7, <3>8 DEF Ask, EnqueueGather, Acquired
    <3> QED BY <1>1, <3>6, <3>9
  <2> QED BY <2>3, <2>4
<1> QED BY <1>2, <1>3

\* The copies wait() queues for a coalesced gather or one from host memory.
LEMMA CopyFacts ==
  ASSUME MemoryBound, NEW h \in Handle, ~ FromHost(h) => h.out \in Block
  PROVE  LET X == CatOps(h) IN
         /\ X \in Seq(AgOps)
         /\ \A i \in 1 .. Len(X) :
              /\ X[i].op = IF FromHost(h) THEN "load" ELSE "cat"
              /\ X[i].p \in h.ps /\ X[i].dst \in Block \ held
              /\ ~ FromHost(h) => X[i].src = h.out
         /\ \A i, j \in 1 .. Len(X) : X[i].p = X[j].p => i = j
         /\ \A i, j \in 1 .. Len(X) : X[i].dst = X[j].dst => i = j
         /\ \A q \in h.ps : \E i \in 1 .. Len(X) : X[i].p = q
         /\ ~ Single(h) => \A i \in 1 .. Len(X) : DataBlock(h, X[i].p) = X[i].dst
<1> DEFINE n == Cardinality(h.ps)
           D == FreshBlocks(n)
<1>0. h.ps \in SUBSET Params
  BY DEF Handle
<1>1. /\ IsFiniteSet(h.ps) /\ h.ps \subseteq Nat /\ n \in Nat
      /\ D \subseteq Block \ held /\ D \subseteq Nat /\ IsFiniteSet(D) /\ Cardinality(D) = n
  BY <1>0, FreshForGather
<1>2. /\ \A i \in 1 .. n : Nth(h.ps, i) \in h.ps
      /\ \A i, j \in 1 .. n : i # j => Nth(h.ps, i) # Nth(h.ps, j)
      /\ \A q \in h.ps : \E i \in 1 .. n : Nth(h.ps, i) = q
  BY <1>1, NthFacts
<1>3. /\ \A i \in 1 .. n : Nth(D, i) \in D
      /\ \A i, j \in 1 .. n : i # j => Nth(D, i) # Nth(D, j)
  BY <1>1, NthFacts
<1> DEFINE f(i) == IF FromHost(h) THEN LoadOp(Nth(h.ps, i), Nth(D, i)) ELSE CatOp(Nth(h.ps, i), h.out, Nth(D, i))
           X == [i \in 1 .. n |-> f(i)]
<1>4. CatOps(h) = X
  BY Zenon DEF CatOps
<1>5. ASSUME NEW i \in 1 .. n
      PROVE  /\ f(i) \in AgOps /\ f(i).p = Nth(h.ps, i) /\ f(i).dst = Nth(D, i)
             /\ f(i).op = IF FromHost(h) THEN "load" ELSE "cat"
             /\ ~ FromHost(h) => f(i).src = h.out
  <2>1. Nth(h.ps, i) \in Params /\ Nth(D, i) \in Block
    BY <1>0, <1>1, <1>2, <1>3
  <2> HIDE DEF D
  <2>2. CASE FromHost(h)
    <3>1. f(i) = LoadOp(Nth(h.ps, i), Nth(D, i))
      BY <2>2
    <3> HIDE DEF f
    <3> QED BY <2>1, <2>2, <3>1, AgOpFacts DEF LoadOp, Op
  <2>3. CASE ~ FromHost(h)
    <3>1. f(i) = CatOp(Nth(h.ps, i), h.out, Nth(D, i))
      BY <2>3
    <3> HIDE DEF f
    <3> QED BY <2>1, <2>3, <3>1, AgOpFacts DEF CatOp, Op
  <2> QED BY <2>2, <2>3
<1> HIDE DEF f, n, D
<1>6. X \in Seq(AgOps) /\ Len(X) = n /\ \A i \in 1 .. n : X[i] = f(i)
  BY <1>1, <1>5
<1>7. \A i \in 1 .. n : X[i].p = Nth(h.ps, i) /\ X[i].dst = Nth(D, i)
  BY <1>5, <1>6
<1> HIDE DEF X
<1>8. ASSUME ~ Single(h), NEW i \in 1 .. n PROVE DataBlock(h, X[i].p) = X[i].dst
  <2> DEFINE k == CHOOSE j \in DOMAIN X : X[j].p = X[i].p
  <2>1. DataBlock(h, X[i].p) = X[k].dst
    BY <1>4, <1>8, Zenon DEF DataBlock
  <2>2. DOMAIN X = 1 .. n
    BY <1>6
  <2>3. k \in 1 .. n /\ X[k].p = X[i].p
    BY <2>2
  <2> HIDE DEF k
  <2>4. k = i
    BY <1>2, <1>7, <2>3
  <2> QED BY <2>1, <2>4
<1>9. ASSUME NEW i \in 1 .. Len(X)
      PROVE  /\ X[i].op = IF FromHost(h) THEN "load" ELSE "cat"
             /\ X[i].p \in h.ps /\ X[i].dst \in Block \ held
             /\ ~ FromHost(h) => X[i].src = h.out
             /\ ~ Single(h) => DataBlock(h, X[i].p) = X[i].dst
  <2>1. i \in 1 .. n
    BY <1>6
  <2>2. X[i] = f(i) /\ X[i].p = Nth(h.ps, i) /\ X[i].dst = Nth(D, i)
    BY <1>6, <1>7, <2>1
  <2>3. X[i].op = IF FromHost(h) THEN "load" ELSE "cat"
    BY ONLY <1>5, <2>1, <2>2
  <2>4. ~ FromHost(h) => X[i].src = h.out
    BY ONLY <1>5, <2>1, <2>2
  <2>5. Nth(h.ps, i) \in h.ps /\ Nth(D, i) \in D
    BY ONLY <1>2, <1>3, <2>1
  <2>6. X[i].p \in h.ps /\ X[i].dst \in Block \ held
    BY ONLY <1>1, <2>2, <2>5
  <2>7. ~ Single(h) => DataBlock(h, X[i].p) = X[i].dst
    BY ONLY <1>8, <2>1
  <2> QED BY ONLY <2>3, <2>4, <2>6, <2>7
<1>10. ASSUME NEW i \in 1 .. Len(X), NEW j \in 1 .. Len(X)
       PROVE  (X[i].p = X[j].p => i = j) /\ (X[i].dst = X[j].dst => i = j)
  <2>1. i \in 1 .. n /\ j \in 1 .. n
    BY <1>6
  <2> QED BY ONLY <1>2, <1>3, <1>7, <2>1
<1>11. ASSUME NEW q \in h.ps PROVE \E i \in 1 .. Len(X) : X[i].p = q
  <2>1. PICK i \in 1 .. n : Nth(h.ps, i) = q
    BY <1>2
  <2>2. i \in 1 .. Len(X) /\ X[i].p = q
    BY <1>6, <1>7, <2>1
  <2> QED BY <2>2
<1> HIDE DEF X
<1>12. /\ \A i \in 1 .. Len(X) :
             /\ X[i].op = IF FromHost(h) THEN "load" ELSE "cat"
             /\ X[i].p \in h.ps /\ X[i].dst \in Block \ held
             /\ ~ FromHost(h) => X[i].src = h.out
       /\ ~ Single(h) => \A i \in 1 .. Len(X) : DataBlock(h, X[i].p) = X[i].dst
  BY ONLY <1>9, Zenon
<1>13. /\ \A i, j \in 1 .. Len(X) : X[i].p = X[j].p => i = j
       /\ \A i, j \in 1 .. Len(X) : X[i].dst = X[j].dst => i = j
  BY ONLY <1>10, Zenon
<1>14. \A q \in h.ps : \E i \in 1 .. Len(X) : X[i].p = q
  BY ONLY <1>11, Zenon
<1>15. X \in Seq(AgOps)
  BY <1>6
<1> QED BY <1>4, <1>12, <1>13, <1>14, <1>15, ZenonT(60)

-----------------------------------------------------------------------------
(* What a wait queues *)

\* What wait() queues.
LEMMA WaitOpsFacts ==
  ASSUME DataTypes, MemoryBound, NEW h \in Handle, ~ FromHost(h) => h.out \in Block
  PROVE  LET W == WaitOps(h) IN
         /\ W \in Seq(AgOps)
         /\ \A j \in 1 .. Len(W) : W[j].op \in {"cat", "load"} =>
              /\ W[j].p \in h.ps /\ W[j].dst = DataBlock(h, W[j].p) /\ (W[j].op = "load" <=> FromHost(h))
              /\ W[j].op = "cat" => W[j].src = h.out
              /\ ~ Single(h) /\ \A i \in 1 .. Len(W) : W[i].op \in {"cat", "load"} /\ W[i].p = W[j].p => i = j
         /\ ~ Single(h) => \A q \in h.ps :
              /\ DataBlock(h, q) \in Block \ held
              /\ \E j \in 1 .. Len(W) : W[j].op \in {"cat", "load"} /\ W[j].p = q
              /\ \A r \in h.ps : DataBlock(h, r) = DataBlock(h, q) => r = q
         /\ HostMayPass(h) /\ h \in dpu /\ ~ FromHost(h) /\ (flagPool => h.gen # NoFlag) =>
              Len(W) > 0 /\ Awaits(W[1], h) /\ W[1].op # "cat"
<1> DEFINE A == ArrivalOps(h)
           X == CatOps(h)
           W == WaitOps(h)
<1>1. /\ A \in Seq(AgOps) /\ Len(A) \in 0 .. 1
      /\ \A i \in 1 .. Len(A) : A[i].op \in {"wait_flag", "wait_nccl"}
      /\ HostMayPass(h) /\ h \in dpu /\ ~ FromHost(h) /\ (flagPool => h.gen # NoFlag) => Len(A) = 1 /\ Awaits(A[1], h)
  <2>1. h.slot \in Slot /\ h.gen \in Nat
    BY DEF Handle, Slot
  <2>2. CASE FromHost(h)
    <3>1. A = <<>>
      BY <2>2 DEF ArrivalOps
    <3> QED BY <2>2, <3>1
  <2>3. CASE ~ FromHost(h) /\ flagPool
    <3>1. A = <<WaitFlagOp(h.slot, h.gen)>>
      <4>1. transport # "nccl"
        BY <2>3 DEF flagPool
      <4> QED BY <2>3, <4>1, Zenon DEF ArrivalOps
    <3>2. WaitFlagOp(h.slot, h.gen) \in AgOps
      BY <2>1, AgOpFacts
    <3>3. /\ WaitFlagOp(h.slot, h.gen).op = "wait_flag" /\ WaitFlagOp(h.slot, h.gen).src = h.slot
          /\ WaitFlagOp(h.slot, h.gen).n = h.gen
      BY DEF WaitFlagOp, Op
    <3> DEFINE o == WaitFlagOp(h.slot, h.gen)
    <3> HIDE DEF o, A
    <3>4. A = <<o>> /\ o \in AgOps /\ o.op = "wait_flag" /\ o.src = h.slot /\ o.n = h.gen
      BY <3>1, <3>2, <3>3 DEF o
    <3>5. A \in Seq(AgOps) /\ Len(A) = 1 /\ A[1] = o
      BY <3>4
    <3> QED BY <2>3, <3>4, <3>5 DEF Awaits
  <2>4. CASE ~ FromHost(h) /\ ~ flagPool /\ transport = "nccl"
    <3>1. A = <<WaitNcclOp>>
      BY <2>4, Zenon DEF ArrivalOps
    <3>2. WaitNcclOp \in AgOps
      BY AgOpFacts
    <3>3. WaitNcclOp.op = "wait_nccl"
      BY DEF WaitNcclOp, Op
    <3> HIDE DEF A
    <3>4. A \in Seq(AgOps) /\ Len(A) = 1 /\ A[1] = WaitNcclOp
      BY <3>1, <3>2
    <3> QED BY <3>3, <3>4 DEF Awaits
  <2>5. CASE ~ FromHost(h) /\ ~ flagPool /\ transport # "nccl"
    <3>1. A = <<>>
      BY <2>5, Zenon DEF ArrivalOps
    <3>2. transport = "host"
      BY <2>5 DEF DataTypes, StreamTypes, flagPool
    <3> QED BY <3>1, <3>2 DEF HostMayPass
  <2> QED BY <2>2, <2>3, <2>4, <2>5
<1> HIDE DEF A
<1>2. CASE Single(h)
  <2>1. W = A
    <3>1. W = A \o <<>>
      BY <1>2, Zenon DEF WaitOps, CopyOps, A
    <3> QED BY <1>1, <3>1
  <2> HIDE DEF W
  <2>2. HostMayPass(h) /\ h \in dpu /\ ~ FromHost(h) /\ (flagPool => h.gen # NoFlag) =>
              Len(W) > 0 /\ Awaits(W[1], h) /\ W[1].op # "cat"
    BY <1>1, <2>1
  <2>3. W \in Seq(AgOps) /\ \A i \in 1 .. Len(W) : W[i].op \in {"wait_flag", "wait_nccl"}
    BY <1>1, <2>1
  <2>4. /\ \A j \in 1 .. Len(W) : W[j].op \in {"cat", "load"} =>
              /\ W[j].p \in h.ps /\ W[j].dst = DataBlock(h, W[j].p) /\ (W[j].op = "load" <=> FromHost(h))
              /\ W[j].op = "cat" => W[j].src = h.out
              /\ ~ Single(h) /\ \A i \in 1 .. Len(W) : W[i].op \in {"cat", "load"} /\ W[i].p = W[j].p => i = j
    BY <2>3
  <2> QED BY <1>2, <2>2, <2>3, <2>4 DEF W
<1>3. CASE ~ Single(h)
  <2>1. W = A \o X
    BY <1>3, Zenon DEF WaitOps, CopyOps, A
  <2>2. /\ X \in Seq(AgOps)
        /\ \A i \in 1 .. Len(X) :
             /\ X[i].op = IF FromHost(h) THEN "load" ELSE "cat"
             /\ X[i].p \in h.ps /\ X[i].dst \in Block \ held
             /\ ~ FromHost(h) => X[i].src = h.out
        /\ \A i, j \in 1 .. Len(X) : X[i].p = X[j].p => i = j
        /\ \A i, j \in 1 .. Len(X) : X[i].dst = X[j].dst => i = j
        /\ \A q \in h.ps : \E i \in 1 .. Len(X) : X[i].p = q
        /\ \A i \in 1 .. Len(X) : DataBlock(h, X[i].p) = X[i].dst
    BY <1>3, CopyFacts
  <2> HIDE DEF X, W
  <2>7. /\ W \in Seq(AgOps) /\ Len(W) = Len(A) + Len(X) /\ Len(A) \in Nat /\ Len(X) \in Nat
        /\ \A i \in 1 .. Len(A) : i \in 1 .. Len(W) /\ W[i] = A[i]
        /\ \A i \in 1 .. Len(X) : Len(A) + i \in 1 .. Len(W) /\ W[Len(A) + i] = X[i]
        /\ \A i \in 1 .. Len(W) : \/ i \in 1 .. Len(A)
                                  \/ i > Len(A) /\ i - Len(A) \in 1 .. Len(X) /\ W[i] = X[i - Len(A)]
    <3>1. A \in Seq(AgOps) /\ X \in Seq(AgOps)
      BY <1>1, <2>2
    <3> QED BY ONLY <2>1, <3>1, AppendFacts
  <2>8. PICK a \in Nat : a = Len(A)
    BY <2>7
  <2>9. PICK x \in Nat : x = Len(X)
    BY <2>7
  <2>10. Len(W) = a + x /\ Len(W) \in Nat
    BY <2>7, <2>8, <2>9
  <2>11. \A j \in 1 .. x : a + j \in 1 .. Len(W) /\ W[a + j] = X[j]
    BY <2>7, <2>8, <2>9
  <2>13. ASSUME NEW j \in 1 .. Len(W)
         PROVE  \/ j \in 1 .. a /\ W[j].op \in {"wait_flag", "wait_nccl"}
                \/ j > a /\ j - a \in 1 .. x /\ W[j] = X[j - a]
    <3>1. CASE j \in 1 .. Len(A)
      BY <1>1, <2>7, <2>8, <3>1
    <3>2. CASE j > Len(A) /\ j - Len(A) \in 1 .. Len(X) /\ W[j] = X[j - Len(A)]
      BY <2>8, <2>9, <3>2
    <3> QED BY <2>7, <3>1, <3>2
  <2>14. ASSUME NEW j \in 1 .. Len(W), W[j].op \in {"cat", "load"}
         PROVE  /\ j > a /\ j - a \in 1 .. x /\ W[j] = X[j - a]
                /\ W[j].p \in h.ps /\ W[j].dst = DataBlock(h, W[j].p) /\ (W[j].op = "load" <=> FromHost(h))
                /\ W[j].op = "cat" => W[j].src = h.out
    <3>1. j > a /\ j - a \in 1 .. x /\ W[j] = X[j - a]
      BY <2>13, <2>14
    <3>2. CASE FromHost(h)
      BY <2>2, <2>9, <3>1, <3>2
    <3>3. CASE ~ FromHost(h)
      BY <2>2, <2>9, <3>1, <3>3
    <3> QED BY <3>1, <3>2, <3>3
  <2>15. ASSUME NEW j \in 1 .. Len(W), W[j].op \in {"cat", "load"},
                NEW i \in 1 .. Len(W), W[i].op \in {"cat", "load"}, W[i].p = W[j].p
         PROVE  i = j
    <3>1. i - a \in 1 .. Len(X) /\ j - a \in 1 .. Len(X) /\ X[i - a].p = X[j - a].p
      BY <2>9, <2>14, <2>15
    <3>2. i - a = j - a
      BY ONLY <2>2, <3>1
    <3>3. i \in Int /\ j \in Int
      BY <2>10
    <3> QED BY ONLY <2>8, <3>2, <3>3
  <2>16. ASSUME NEW q \in h.ps
         PROVE  /\ DataBlock(h, q) \in Block \ held
                /\ \E j \in 1 .. Len(W) : W[j].op \in {"cat", "load"} /\ W[j].p = q
                /\ \A r \in h.ps : DataBlock(h, r) = DataBlock(h, q) => r = q
    <3>0. 1 .. x = 1 .. Len(X)
      BY <2>9
    <3>1. PICK k \in 1 .. x : X[k].p = q
      <4>1. \E k \in 1 .. Len(X) : X[k].p = q
        BY <2>2
      <4> QED BY <3>0, <4>1, Zenon
    <3>2. DataBlock(h, q) = X[k].dst /\ X[k].dst \in Block \ held /\ X[k].op \in {"cat", "load"}
      BY ONLY <2>2, <3>0, <3>1
    <3>3. a + k \in 1 .. Len(W) /\ W[a + k] = X[k]
      BY <2>11
    <3>4. ASSUME NEW r \in h.ps, DataBlock(h, r) = DataBlock(h, q) PROVE r = q
      <4>1. PICK l \in 1 .. x : X[l].p = r
        BY <2>2, <2>9
      <4>2. X[l].dst = X[k].dst
        BY <2>2, <2>9, <3>1, <3>4, <4>1
      <4>3. l = k
        BY <2>2, <2>9, <4>2
      <4> QED BY <3>1, <4>1, <4>3
    <3> QED BY <3>1, <3>2, <3>3, <3>4
  <2>19. HostMayPass(h) /\ h \in dpu /\ ~ FromHost(h) /\ (flagPool => h.gen # NoFlag) =>
              Len(W) > 0 /\ Awaits(W[1], h) /\ W[1].op # "cat"
    <3> SUFFICES ASSUME HostMayPass(h) /\ h \in dpu /\ ~ FromHost(h) /\ (flagPool => h.gen # NoFlag)
                 PROVE  Len(W) > 0 /\ Awaits(W[1], h) /\ W[1].op # "cat"
      OBVIOUS
    <3>1. Len(A) = 1 /\ Awaits(A[1], h) /\ A[1].op \in {"wait_flag", "wait_nccl"}
      BY <1>1
    <3>2. 1 \in 1 .. Len(W) /\ W[1] = A[1]
      BY <2>7, <3>1
    <3> QED BY <3>1, <3>2
  <2>20. /\ \A j \in 1 .. Len(W) : W[j].op \in {"cat", "load"} =>
              /\ W[j].p \in h.ps /\ W[j].dst = DataBlock(h, W[j].p) /\ (W[j].op = "load" <=> FromHost(h))
              /\ W[j].op = "cat" => W[j].src = h.out
              /\ ~ Single(h) /\ \A i \in 1 .. Len(W) : W[i].op \in {"cat", "load"} /\ W[i].p = W[j].p => i = j
    BY <1>3, <2>14, <2>15, Zenon
  <2> QED BY <1>3, <2>7, <2>16, <2>19, <2>20, Zenon DEF W
<1> QED BY <1>2, <1>3, Zenon

-----------------------------------------------------------------------------
(* The preparation, errors and the ends of a fetch as steps of the data *)

\* An exception changes no data.
LEMMA RaiseData ==
  ASSUME UNCHANGED loopVars, NEW e, Raise(e)
  PROVE  DataStep
BY DEF loopVars, Raise, streamVars, DataStep, Idle, DeviceKept

\* The conversion of a parameter, or its partition once it has its hook.
LEMMA StartData ==
  ASSUME CtlInv, DataTypes, Running, UNCHANGED loopVars, ConvertParam \/ AddHook
  PROVE  DataStep
<1> DEFINE N == Cardinality(Params)
<1>0. NetworkFacts /\ N \in Nat
  BY Network DEF NetworkFacts
<1>1. PICK kind \in {"convert", "add_hook"} : Now(kind) /\ (kind = "add_hook" => dpu = {})
  BY DEF ConvertParam, AddHook
<1>2. AtScript /\ iter = 0 /\ Mod \in Params
  BY <1>1, NowStart DEF CtlInv
<1>3. PICK i \in 1 .. N : Mod = Nth(Params, i) /\ Done = IF kind = "convert" THEN i - 1 ELSE N + 2 * i - 1
  BY <1>1, <1>2, NowStart
<1>4. \A j \in 1 .. N : status[Nth(Params, j)] = IF j > Done \/ Done = N + 2 * j - 1
                                                THEN "AVAILABLE" ELSE "NOT_AVAILABLE"
  BY <1>2 DEF CtlInv, BeforeLoop
<1>5. status[Mod] = "AVAILABLE" /\ (kind = "convert" => Done <= N)
  BY <1>0, <1>1, <1>3, <1>4
<1>6. /\ PartitionParams({Mod}, <<>>) /\ fetching = NoMod /\ iter' = iter
      /\ UNCHANGED <<registry, fetching, cpuFull>>
      /\ UNCHANGED <<transport, dpu, flag, gens, nextSlot, agQ, agPos, mem, weights, pinned, odd>>
  BY <1>1 DEF ConvertParam, AddHook, Now, loopVars
<1>7. {Mod} \in SUBSET Available
  BY <1>2, <1>5 DEF Available
<1>8. <<>> \in Seq(CuOps) /\ Len(<<>>) = 0
  OBVIOUS
<1>9. dpu = {} \/ Done <= Cardinality(Params)
  BY <1>1, <1>5
<1>10. /\ \A j \in 1 .. Len(<<>>) : FALSE
       /\ \A p \in cpuFull' : p \in cpuFull
       /\ fetching = NoMod /\ fetching' = NoMod /\ iter' = iter
       /\ UNCHANGED <<transport, dpu, flag, gens, nextSlot, agQ, agPos, mem, weights, pinned, odd, registry>>
  BY <1>6, <1>8
<1> QED BY <1>6, <1>7, <1>8, <1>9, <1>10, LaunchFacts, Zenon

\* The gather of a parameter for its hook.
LEMMA BringData ==
  ASSUME CtlInv, DataTypes, Running, MemoryBound, UNCHANGED loopVars, GatherForHook
  PROVE  DataStep
<1> DEFINE N == Cardinality(Params)
           b == CHOOSE x \in FreshBlocks(1) : TRUE
           h == ListHandle(Mod)
<1>0. NetworkFacts /\ N \in Nat
  BY Network DEF NetworkFacts
<1>1. AtScript /\ Now("gather")
  BY DEF GatherForHook, CtlInv
<1>2. iter = 0 /\ Mod \in Params
  BY <1>1, NowStart
<1>3. PICK i \in 1 .. N : Mod = Nth(Params, i) /\ Done = N + 2 * i - 2
  BY <1>1, NowStart
<1>4. \A j \in 1 .. N : status[Nth(Params, j)] = IF j > Done \/ Done = N + 2 * j - 1
                                                THEN "AVAILABLE" ELSE "NOT_AVAILABLE"
  BY <1>2 DEF CtlInv, BeforeLoop
<1>5. status[Mod] = "NOT_AVAILABLE"
  BY <1>0, <1>3, <1>4
<1>6. b \in Block \ held
  BY <1>2, FreshOne
<1>7. h = [ps |-> {Mod}, out |-> b, slot |-> 0, gen |-> NoFlag]
  BY DEF ListHandle
<1> HIDE DEF b, h
<1>8. b \in 0 .. NBlocks /\ 0 \in 0 .. PoolSize - 1
  BY <1>6, StreamsAssumption DEF Block
<1>9. h \in Handle /\ h.ps = {Mod} /\ h.gen = NoFlag /\ h.out = b
  BY <1>2, <1>7, <1>8 DEF Handle, NoFlag
<1>10. /\ dpu' = dpu \cup {h} /\ held' = held \cup {h.out}
       /\ status' = [status EXCEPT ![Mod] = "AVAILABLE"] /\ data' = [data EXCEPT ![Mod] = h.out]
       /\ iter' = iter /\ fetching' = fetching
       /\ UNCHANGED <<transport, flag, gens, nextSlot, agQ, agPos, cuQ, mem, weights, pinned, registry, cpuFull>>
  BY DEF GatherForHook, EnqueueList, h, loopVars
<1>11. GivenOut({h.out})
  <2>1. odd' = odd \cup Reused({h.out})
    BY DEF GatherForHook, EnqueueList, h
  <2> QED BY <2>1, GivenOutFacts
<1>12. Bring(Mod, h)
  BY <1>2, <1>5, <1>6, <1>9, <1>10, <1>11 DEF Bring
<1> QED BY <1>2, <1>9, <1>12 DEF DataStep

\* The gathers fetch_sub_module asks for.
LEMMA BeginData ==
  ASSUME CtlInv, DataTypes, MemoryBound, UNCHANGED loopVars,
         NEW kind \in {"pre_fwd", "pre_bwd"}, Now(kind), BeginFetch(Mod)
  PROVE  DataStep
<1>1. iter > 0 /\ Mod \in Mods /\ iter' = iter
  BY NowLoop DEF Now, CtlInv, loopVars
<1>2. CASE Complete /\ tr.step_id >= Len(tr.submodule_order)
  BY <1>2, RaiseData DEF BeginFetch
<1>3. CASE ~ (Complete /\ tr.step_id >= Len(tr.submodule_order))
  <2>1. /\ AllGatherParams(ParamsOf[Mod]) /\ fetching' = Mod
        /\ UNCHANGED <<transport, flag, agQ, agPos, cuQ, mem, weights, pinned, data, cpuFull>>
    BY <1>3 DEF BeginFetch
  <2>2. ParamsOf[Mod] \in SUBSET Params /\ Mod # NoMod
    BY <1>1, Network DEF NetworkFacts
  <2>3. NoAsk \/ \E ps \in SUBSET Params : \E h \in Handle : Ask(ps, h)
    BY <2>1, <2>2, AskFacts
  <2>4. cuQ' = cuQ \o <<>>
    BY <2>1 DEF DataTypes, StreamTypes
  <2>5. Joins(<<>>)
    BY <1>1, <2>1, <2>2, <2>4 DEF Joins
  <2> QED BY <2>3, <2>5 DEF DataStep
<1> QED BY <1>2, <1>3

\* The join of the streams and the prefetch.
LEMMA EndData ==
  ASSUME CtlInv, DataTypes, Running, MemoryBound, UNCHANGED loopVars, FetchDone
  PROVE  DataStep
<1>1. EndFetch /\ fetching # NoMod /\ iter' = iter
  BY DEF FetchDone, EndFetch, loopVars
<1>2. iter > 0
  BY <1>1, NowFetch
<1>3. CASE Complete /\ ParamsIn(tr.queue, 1, Discarded(fetching)) # NotFetched(fetching)
  BY <1>1, <1>3, RaiseData DEF EndFetch
<1>4. CASE ~ (Complete /\ ParamsIn(tr.queue, 1, Discarded(fetching)) # NotFetched(fetching))
  <2>1. /\ cuQ' = cuQ \o JoinOps /\ fetching' = NoMod /\ LoadsDone
        /\ UNCHANGED <<transport, flag, agQ, agPos, mem, weights, pinned, data, cpuFull>>
    BY <1>1, <1>4 DEF EndFetch
  <2>2. PICK S \in SUBSET Params : AllGatherParams(S)
    <3>1. CASE Complete
      <4>1. ParamsIn(tr.queue, Discarded(fetching) + 1, Scanned(fetching)) \in SUBSET Params
        BY QueueCuts DEF CtlInv
      <4>2. AllGatherParams(ParamsIn(tr.queue, Discarded(fetching) + 1, Scanned(fetching)))
        BY <1>1, <1>4, <3>1 DEF EndFetch
      <4> QED BY <4>1, <4>2
    <3>2. CASE ~ Complete
      BY <1>1, <3>2 DEF EndFetch
    <3> QED BY <3>1, <3>2
  <2>3. NoAsk \/ \E ps \in SUBSET Params : \E h \in Handle : Ask(ps, h)
    BY <2>1, <2>2, AskFacts
  <2>4. Joins(JoinOps)
    BY <1>1, <1>2, <2>1 DEF Joins
  <2> QED BY <2>3, <2>4 DEF DataStep
<1> QED BY <1>3, <1>4

-----------------------------------------------------------------------------
(* Computations and releases as steps of the data *)

\* The kernels of a submodule.
LEMMA UseData ==
  ASSUME CtlInv, DataTypes, UNCHANGED loopVars, UseParams
  PROVE  DataStep
<1>1. Now("use") /\ fetching = NoMod /\ iter' = iter
  BY DEF UseParams, Now, loopVars
<1>2. iter > 0 /\ Mod \in Mods
  BY <1>1, NowLoop DEF Now, CtlInv
<1>3. CASE ~ \A p \in ParamsOf[Mod] : status[p] = "AVAILABLE"
  BY <1>3, RaiseData DEF UseParams
<1>4. CASE \A p \in ParamsOf[Mod] : status[p] = "AVAILABLE"
  <2> DEFINE S == ParamsOf[Mod]
             f(i) == KernelOp(Nth(S, i), data[Nth(S, i)], weights)
             ops == [i \in 1 .. Cardinality(S) |-> f(i)]
             F == [i \in 1 .. Cardinality({}) |-> FreeOp(Nth({}, i))]
  <2>1. /\ cuQ' = cuQ \o ops
        /\ UNCHANGED <<transport, dpu, flag, gens, nextSlot, agQ, agPos, held, mem, weights, pinned, odd>>
        /\ UNCHANGED <<registry, status, data, fetching, cpuFull>>
    BY <1>4 DEF UseParams, coordVars
  <2>2. S \in SUBSET Params /\ S \in SUBSET Available /\ IsFiniteSet(S) /\ S \subseteq Nat /\ Cardinality(S) \in Nat
    <3>1. S \in SUBSET Params
      BY <1>2, Network DEF NetworkFacts
    <3> QED BY <1>4, <3>1, StreamsAssumption, FS_Subset, FS_CardinalityType DEF Available
  <2>3. \A i \in 1 .. Cardinality(S) : Nth(S, i) \in S
    BY <2>2, NthFacts
  <2>4. \A p \in S : p \in Params /\ data[p] \in Block
    BY <2>2 DEF DataTypes, ParamTypes, Available
  <2> HIDE DEF S
  <2>5. ASSUME NEW i \in 1 .. Cardinality(S)
        PROVE  f(i) \in CuOps /\ f(i).op = "kernel" /\ f(i).p \in Available /\ f(i).src = data[f(i).p] /\ f(i).n = weights
    <3>1. PICK q \in S : q = Nth(S, i)
      BY <2>3
    <3>2. f(i) = KernelOp(q, data[q], weights)
      BY <3>1
    <3>3. weights \in Nat
      BY DEF DataTypes, StreamTypes
    <3>4. KernelOp(q, data[q], weights) \in CuOps
      BY <2>4, <3>3, CuOpFacts
    <3>5. /\ KernelOp(q, data[q], weights).op = "kernel" /\ KernelOp(q, data[q], weights).p = q
          /\ KernelOp(q, data[q], weights).src = data[q] /\ KernelOp(q, data[q], weights).n = weights
      BY DEF KernelOp, Op
    <3> QED BY <2>2, <3>2, <3>4, <3>5
  <2> HIDE DEF f
  <2>6. ops \in Seq(CuOps) /\ Len(ops) = Cardinality(S) /\ \A i \in 1 .. Cardinality(S) : ops[i] = f(i)
    BY <2>2, <2>5
  <2> HIDE DEF ops
  <2>7. F = <<>>
    BY FS_EmptySet
  <2>8. {data[p] : p \in {}} = {}
    OBVIOUS
  <2>9. Free({data[p] : p \in {}}, ops)
    <3>1. Free({}, ops) <=> cuQ' = (cuQ \o ops) \o F /\ held' = held
      BY DEF Free
    <3>2. (cuQ \o ops) \o <<>> = cuQ \o ops
      BY <2>6 DEF DataTypes, StreamTypes
    <3> QED BY <2>1, <2>7, <2>8, <3>1, <3>2
  <2>10. /\ status' = [p \in Params |-> IF p \in {} THEN "NOT_AVAILABLE" ELSE status[p]]
         /\ data' = [p \in Params |-> IF p \in {} THEN NoBlock ELSE data[p]]
    <3>1. StatusType
      BY LifeType DEF CtlInv
    <3>2. status = [p \in Params |-> status[p]] /\ data = [p \in Params |-> data[p]]
      BY <3>1 DEF StatusType, DataTypes, ParamTypes
    <3> QED BY <2>1, <3>2
  <2>11. PartitionParams({}, ops)
    BY <2>9, <2>10 DEF PartitionParams
  <2>12. \A i \in 1 .. Len(ops) : /\ ops[i].op \in {"kernel", "save"} /\ iter > 0
                                  /\ ops[i].p \in Available /\ ops[i].src = data[ops[i].p]
                                  /\ ops[i].op = "kernel" => ops[i].n = weights
    BY <1>2, <2>5, <2>6
  <2> QED BY <1>1, <1>2, <2>1, <2>6, <2>11, <2>12, LaunchFacts
<1> QED BY <1>3, <1>4

\* The copies to host memory of the parameters to release, each from the
\* block it is in.
LEMMA SavesFacts ==
  ASSUME DataTypes, NEW ps \in SUBSET Available
  PROVE  /\ SaveOps(ps) \in Seq(CuOps)
         /\ \A i \in 1 .. Len(SaveOps(ps)) :
              LET o == SaveOps(ps)[i] IN o.op = "save" /\ o.p \in Available /\ o.src = data[o.p]
         /\ \A p \in ps : \E i \in 1 .. Len(SaveOps(ps)) : SaveOps(ps)[i].op = "save" /\ SaveOps(ps)[i].p = p
<1> DEFINE n == Cardinality(ps)
           f(i) == SaveOp(Nth(ps, i), data[Nth(ps, i)])
           ops == [i \in 1 .. n |-> f(i)]
<1>1. ps \in SUBSET Params /\ IsFiniteSet(ps) /\ ps \subseteq Nat /\ n \in Nat
  BY StreamsAssumption, FS_Subset, FS_CardinalityType DEF Available
<1>2. /\ \A i \in 1 .. n : Nth(ps, i) \in ps
      /\ \A q \in ps : \E i \in 1 .. n : Nth(ps, i) = q
  BY <1>1, NthFacts
<1>3. \A p \in ps : p \in Params /\ data[p] \in Block
  BY <1>1 DEF DataTypes, ParamTypes, Available
<1> HIDE DEF n
<1>4. ASSUME NEW i \in 1 .. n
      PROVE  f(i) \in CuOps /\ f(i).op = "save" /\ f(i).p = Nth(ps, i) /\ f(i).p \in Available /\ f(i).src = data[f(i).p]
  <2>1. PICK q \in ps : q = Nth(ps, i)
    BY <1>2
  <2>2. f(i) = SaveOp(q, data[q])
    BY <2>1
  <2>3. SaveOp(q, data[q]) \in CuOps
    BY <1>3, CuOpFacts
  <2>4. SaveOp(q, data[q]).op = "save" /\ SaveOp(q, data[q]).p = q /\ SaveOp(q, data[q]).src = data[q]
    BY DEF SaveOp, Op
  <2> QED BY <2>1, <2>2, <2>3, <2>4
<1>5. SaveOps(ps) = ops
  BY Zenon DEF SaveOps, n
<1> HIDE DEF f
<1>6. ops \in Seq(CuOps) /\ Len(ops) = n /\ \A i \in 1 .. n : ops[i] = f(i)
  BY <1>1, <1>4
<1> HIDE DEF ops
<1>7. \A i \in 1 .. Len(ops) : ops[i].op = "save" /\ ops[i].p \in Available /\ ops[i].src = data[ops[i].p]
  BY <1>4, <1>6
<1>8. ASSUME NEW p \in ps PROVE \E i \in 1 .. Len(ops) : ops[i].op = "save" /\ ops[i].p = p
  <2>1. PICK i \in 1 .. n : Nth(ps, i) = p
    BY <1>2
  <2> QED BY <1>4, <1>6, <2>1
<1> QED BY <1>5, <1>6, <1>7, <1>8

\* The release of a submodule's parameters.
LEMMA ReleaseData ==
  ASSUME CtlInv, Calls, DataTypes, UNCHANGED loopVars, PostForward \/ PostBackward
  PROVE  DataStep
<1>1. PICK kind \in {"post_fwd", "post_bwd"} : Now(kind) /\ (kind = "post_fwd" => PostForward) /\ (kind = "post_bwd" => PostBackward)
  BY DEF PostForward, PostBackward
<1>2. iter > 0 /\ Mod \in Mods /\ iter' = iter /\ fetching = NoMod
  BY <1>1, NowLoop DEF Now, CtlInv, loopVars
<1>3. CASE kind = "post_bwd" /\ hook[Mod].gradsLeft # 1
  BY <1>1, <1>3 DEF PostBackward, coordVars, streamVars, loopVars, DataStep, Idle, DeviceKept
<1>4. CASE ~ (kind = "post_bwd" /\ hook[Mod].gradsLeft # 1)
  <2> DEFINE R == Releasable(ParamsToRelease(Mod), active')
  <2>1. ParamsToRelease(Mod) \subseteq ParamsOf[Mod] /\ ParamsOf[Mod] \subseteq Params
    BY <1>2, Network DEF NetworkFacts, ParamsToRelease
  <2>2. R \in SUBSET Available
    BY <2>1 DEF Releasable, Available
  <2>3. PICK ops \in Seq(CuOps) :
          /\ ReleaseSubModule(Mod, ops)
          /\ \A i \in 1 .. Len(ops) : ops[i].op = "save" /\ ops[i].p \in Available /\ ops[i].src = data[ops[i].p]
          /\ \A p \in cpuFull' : p \in cpuFull \/ \E i \in 1 .. Len(ops) : ops[i].op = "save" /\ ops[i].p = p
    <3>1. CASE kind = "post_fwd"
      <4>1. /\ ReleaseSubModule(Mod, SaveOps(ToSave(Mod)))
            /\ cpuFull' = cpuFull \cup ToSave(Mod)
        BY <1>1, <3>1 DEF PostForward
      <4>2. ToSave(Mod) \in SUBSET Available
        <5>1. \A p \in ParamsOf[Mod] : p \in Available
          BY <1>1, <3>1, ReturnHasParams DEF Available
        <5> QED BY <2>1, <5>1 DEF ToSave
      <4> QED BY <4>1, <4>2, SavesFacts
    <3>2. CASE kind = "post_bwd"
      <4>1. /\ ReleaseSubModule(Mod, <<>>) /\ cpuFull' = cpuFull \ ParamsToRelease(Mod)
        BY <1>1, <1>4, <3>2 DEF PostBackward
      <4>2. <<>> \in Seq(CuOps) /\ \A i \in 1 .. Len(<<>>) : FALSE
        OBVIOUS
      <4> QED BY <4>1, <4>2
    <3> QED BY <3>1, <3>2
  <2>4. /\ PartitionParams(R, ops) /\ UNCHANGED <<registry, fetching>>
        /\ UNCHANGED <<transport, dpu, flag, gens, nextSlot, agQ, agPos, mem, weights, pinned, odd>>
    BY <2>3 DEF ReleaseSubModule, Partition
  <2>5. \A i \in 1 .. Len(ops) : /\ ops[i].op \in {"kernel", "save"} /\ iter > 0
                                 /\ ops[i].p \in Available /\ ops[i].src = data[ops[i].p]
                                 /\ ops[i].op = "kernel" => ops[i].n = weights
    BY <1>2, <2>3
  <2> HIDE DEF R
  <2> QED BY <1>2, <2>2, <2>3, <2>4, <2>5, LaunchFacts
<1> QED BY <1>3, <1>4

\* The release of every parameter.
LEMMA ReleaseAllData ==
  ASSUME CtlInv, DataTypes, UNCHANGED loopVars, ReleaseAll
  PROVE  DataStep
<1>1. Now("release_all") /\ ReleaseAndResetAll
  BY DEF ReleaseAll
<1>2. iter > 0 /\ iter' = iter /\ fetching = NoMod
  BY <1>1, NowLoop DEF Now, CtlInv, loopVars
<1>3. CASE \E p \in Params : InRegistry(p)
  BY <1>1, <1>3, RaiseData DEF ReleaseAndResetAll
<1>4. CASE ~ \E p \in Params : InRegistry(p)
  <2> DEFINE R == Releasable(Params, active')
  <2>1. R \in SUBSET Available
    BY DEF Releasable, Available
  <2>2. /\ PartitionParams(R, <<>>) /\ cpuFull' = {} /\ UNCHANGED <<registry, fetching>>
        /\ UNCHANGED <<transport, dpu, flag, gens, nextSlot, agQ, agPos, mem, weights, pinned, odd>>
    BY <1>1, <1>4 DEF ReleaseAndResetAll, Partition
  <2>3. /\ <<>> \in Seq(CuOps) /\ \A i \in 1 .. Len(<<>>) : FALSE
        /\ \A p \in cpuFull' : p \in cpuFull
        /\ fetching = NoMod /\ fetching' = NoMod /\ iter' = iter
        /\ UNCHANGED <<transport, dpu, flag, gens, nextSlot, agQ, agPos, mem, weights, pinned, odd, registry>>
        /\ iter = 0 => dpu = {} \/ Done <= Cardinality(Params)
    BY <1>2, <2>2
  <2> HIDE DEF R
  <2> QED BY <2>1, <2>2, <2>3, LaunchFacts, Zenon
<1> QED BY <1>3, <1>4

-----------------------------------------------------------------------------
(* Waits, iterations and updates as steps of the data *)

\* A handle in flight that is not one of host memory has a buffer.
LEMMA InFlightHandle ==
  ASSUME CtlInv, DataTypes, NEW p \in InFlight
  PROVE  /\ p \in Params /\ registry[p] \in Handle /\ p \in registry[p].ps /\ registry[p] # NoHandle
         /\ ~ FromHost(registry[p]) => registry[p].out \in Block
         /\ \A q \in registry[p].ps : q \in InFlight /\ registry[q] = registry[p]
<1>1. p \in Params /\ status[p] = "INFLIGHT"
  BY DEF InFlight
<1>2. registry[p] \in Handle
  BY <1>1 DEF DataTypes, ParamTypes
<1>3. p \in registry[p].ps /\ registry[p].ps \subseteq Params
      /\ \A q \in registry[p].ps : status[q] = "INFLIGHT" /\ registry[q] = registry[p]
  BY <1>1 DEF CtlInv, InFlightTogether
<1>4. NoHandle.ps = {}
  BY DEF NoHandle
<1>5. ~ FromHost(registry[p]) => registry[p].out \in Block
  BY <1>2, StreamsAssumption DEF Handle, FromHost, NoBlock, Block
<1> QED BY <1>1, <1>2, <1>3, <1>4, <1>5 DEF InFlight

\* A round of the wait loop.
LEMMA FetchData ==
  ASSUME CtlInv, DataTypes, Running, MemoryBound, UNCHANGED loopVars, FetchParam
  PROVE  DataStep
<1>1. PICK p \in Params : WaitParam(p)
  BY DEF FetchParam
<1>2. fetching # NoMod
  BY <1>1 DEF CtlInv, FetchUnderWay, WaitParam
<1>3. iter > 0 /\ iter' = iter
  BY <1>2, NowFetch DEF loopVars
<1>4. CASE CopyMissing(p)
  BY <1>1, <1>4, RaiseData DEF WaitParam
<1>5. CASE ~ CopyMissing(p)
  <2>1. WaitRound(p) /\ (InRegistry(p) => HostMayPass(registry[p]))
    BY <1>1, <1>5 DEF WaitParam
  <2> DEFINE h == registry[p]
             W == WaitOps(h)
  <2>2. /\ fetching' = fetching
        /\ UNCHANGED <<transport, dpu, flag, gens, nextSlot, agPos, mem, weights, pinned, cuQ, cpuFull>>
    BY <2>1 DEF WaitRound
  <2>3. CASE p \in InFlight
    <3>1. /\ h \in Handle /\ InRegistry(p) /\ status[p] = "INFLIGHT" /\ (~ FromHost(h) => h.out \in Block)
      BY <2>3, InFlightHandle DEF InRegistry, InFlight
    <3>2. /\ QueueWait(h) /\ registry' = [registry EXCEPT ![p] = NoHandle]
          /\ status' = [q \in Params |-> IF q \in h.ps THEN "AVAILABLE" ELSE status[q]]
          /\ data' = [q \in Params |-> IF q \in h.ps THEN DataBlock(h, q) ELSE data[q]]
      BY <2>1, <3>1 DEF WaitRound
    <3>3. h.ps \subseteq Params
      BY <3>1 DEF Handle
    <3>4. FromHost(h) => h.ps \subseteq cpuFull
      BY <1>5, <3>1 DEF CopyMissing
    <3>5. HostMayPass(h)
      BY <2>1, <3>1
    <3> HIDE DEF h, W
    <3>6. /\ agQ' = agQ \o W
          /\ held' = (held \ (IF Single(h) THEN {} ELSE {h.out})) \cup {DataBlock(h, q) : q \in h.ps}
      BY <3>2 DEF QueueWait, W
    <3>7. \A q \in h.ps : data'[q] = DataBlock(h, q)
      BY <3>2, <3>3
    <3>8. /\ data' = [q \in Params |-> IF q \in h.ps THEN data'[q] ELSE data[q]]
          /\ held' = (held \ (IF Single(h) THEN {} ELSE {h.out})) \cup {data'[q] : q \in h.ps}
      <4>1. \A q \in Params : data'[q] = IF q \in h.ps THEN data'[q] ELSE data[q]
        BY <3>2
      <4>2. data' = [q \in Params |-> data'[q]]
        BY <3>2
      <4>3. {DataBlock(h, q) : q \in h.ps} = {data'[q] : q \in h.ps}
        BY <3>7
      <4>4. data' = [q \in Params |-> IF q \in h.ps THEN data'[q] ELSE data[q]]
        BY <4>1, <4>2
      <4> QED BY <3>6, <4>3, <4>4
    <3>9. /\ W \in Seq(AgOps)
          /\ \A j \in 1 .. Len(W) : W[j].op \in {"cat", "load"} =>
               /\ W[j].p \in h.ps /\ W[j].dst = DataBlock(h, W[j].p) /\ (W[j].op = "load" <=> FromHost(h))
               /\ W[j].op = "cat" => W[j].src = h.out
               /\ ~ Single(h) /\ \A i \in 1 .. Len(W) : W[i].op \in {"cat", "load"} /\ W[i].p = W[j].p => i = j
          /\ ~ Single(h) => \A q \in h.ps :
               /\ DataBlock(h, q) \in Block \ held
               /\ \E j \in 1 .. Len(W) : W[j].op \in {"cat", "load"} /\ W[j].p = q
               /\ \A r \in h.ps : DataBlock(h, r) = DataBlock(h, q) => r = q
          /\ h \in dpu /\ ~ FromHost(h) /\ (flagPool => h.gen # NoFlag) =>
               Len(W) > 0 /\ Awaits(W[1], h) /\ W[1].op # "cat"
      BY <3>1, <3>5, WaitOpsFacts DEF W, h
    <3>10. Single(h) => \A q \in h.ps : DataBlock(h, q) = h.out
      BY DEF DataBlock
    <3>11. \A j \in 1 .. Len(W) : W[j].op \in {"cat", "load"} =>
               /\ W[j].p \in h.ps /\ W[j].dst = data'[W[j].p] /\ (W[j].op = "load" <=> FromHost(h))
               /\ W[j].op = "cat" => W[j].src = h.out
               /\ ~ Single(h) /\ \A i \in 1 .. Len(W) : W[i].op \in {"cat", "load"} /\ W[i].p = W[j].p => i = j
      <4>1. ASSUME NEW j \in 1 .. Len(W), W[j].op \in {"cat", "load"}
            PROVE  W[j].p \in h.ps /\ W[j].dst = data'[W[j].p]
        <5>1. W[j].p \in h.ps /\ W[j].dst = DataBlock(h, W[j].p)
          BY <3>9, <4>1, Zenon
        <5>2. DataBlock(h, W[j].p) = data'[W[j].p]
          BY ONLY <3>7, <5>1, Zenon
        <5> QED BY ONLY <5>1, <5>2
      <4> QED BY <3>9, <4>1, Zenon
    <3>12. \A q \in h.ps : IF Single(h) THEN data'[q] = h.out
                     ELSE /\ data'[q] \in Block \ held
                          /\ \E j \in 1 .. Len(W) : W[j].op \in {"cat", "load"} /\ W[j].p = q
                          /\ \A r \in h.ps : data'[r] = data'[q] => r = q
      <4>1. CASE Single(h)
        BY <3>7, <3>10, <4>1
      <4>2. CASE ~ Single(h)
        <5>1. ASSUME NEW q \in h.ps
              PROVE  /\ data'[q] \in Block \ held
                     /\ \E j \in 1 .. Len(W) : W[j].op \in {"cat", "load"} /\ W[j].p = q
          <6>1. /\ DataBlock(h, q) \in Block \ held
                /\ \E j \in 1 .. Len(W) : W[j].op \in {"cat", "load"} /\ W[j].p = q
            BY <3>9, <4>2, Zenon
          <6>2. data'[q] = DataBlock(h, q)
            BY <3>7
          <6> QED BY ONLY <6>1, <6>2, Zenon
        <5>2. ASSUME NEW q \in h.ps, NEW r \in h.ps, data'[r] = data'[q] PROVE r = q
          <6>1. data'[q] = DataBlock(h, q) /\ data'[r] = DataBlock(h, r)
            BY <3>7
          <6>2. DataBlock(h, r) = DataBlock(h, q)
            BY ONLY <5>2, <6>1
          <6> QED BY <3>9, <4>2, <6>2, Zenon
        <5> QED BY <4>2, <5>1, <5>2, Zenon
      <4> QED BY <4>1, <4>2, Zenon
    <3>13. h \in dpu /\ ~ FromHost(h) /\ (flagPool => h.gen # NoFlag) =>
               Len(W) > 0 /\ Awaits(W[1], h) /\ W[1].op # "cat"
      BY <3>9, Zenon
    <3>14. OddGrows /\ (odd' = {} /\ ~ Single(h) => \A q \in h.ps : Unread(data'[q]))
      <4>1. odd' = odd \cup (IF Single(h) THEN {} ELSE Reused({DataBlock(h, q) : q \in h.ps}))
        BY <3>2 DEF QueueWait
      <4>2. CASE Single(h)
        BY <4>1, <4>2 DEF OddGrows
      <4>3. CASE ~ Single(h)
        <5>1. GivenOut({DataBlock(h, q) : q \in h.ps})
          BY <4>1, <4>3, GivenOutFacts
        <5> QED BY <3>7, <5>1 DEF GivenOut
      <4> QED BY <4>2, <4>3
    <3>15. /\ p \in InFlight /\ W \in Seq(AgOps) /\ agQ' = agQ \o W
           /\ FromHost(h) => h.ps \subseteq cpuFull
           /\ status' = [q \in Params |-> IF q \in h.ps THEN "AVAILABLE" ELSE status[q]]
           /\ registry' = [registry EXCEPT ![p] = NoHandle]
           /\ fetching # NoMod /\ fetching' = fetching /\ iter > 0 /\ iter' = iter
           /\ UNCHANGED <<transport, dpu, flag, gens, nextSlot, agPos, mem, weights, pinned, cuQ, cpuFull>>
      BY <1>2, <1>3, <2>2, <2>3, <3>2, <3>4, <3>6, <3>9
    <3>16. Take(p, W)
      BY <3>8, <3>11, <3>12, <3>13, <3>14, <3>15, Zenon DEF Take, h
    <3> QED BY <3>15, <3>16, Zenon DEF DataStep
  <2>4. CASE p \notin InFlight
    <3>1. status[p] # "INFLIGHT"
      BY <2>4 DEF InFlight
    <3>2. UNCHANGED <<agQ, held, odd, status, data>> /\ registry' \in {registry, [registry EXCEPT ![p] = NoHandle]}
      BY <2>1, <3>1 DEF WaitRound, QueueNoWait
    <3>3. Took(p)
      BY <1>2, <1>3, <2>2, <2>4, <3>2 DEF Took, DeviceKept
    <3> QED BY <3>3 DEF DataStep
  <2> QED BY <2>3, <2>4
<1> QED BY <1>4, <1>5

\* An iteration begins with no parameter gathered.
LEMMA IterationData ==
  ASSUME CtlInv, Running, StartIteration
  PROVE  DataStep
<1>1. /\ todo = <<>> /\ iter' = iter + 1 /\ Prepared
      /\ UNCHANGED coordVars /\ UNCHANGED streamVars
  BY DEF StartIteration
<1>2. \A p \in Params : status[p] = "NOT_AVAILABLE"
  <2>1. CASE iter = 0
    <3> DEFINE N == Cardinality(Params)
    <3>1. NetworkFacts /\ N \in Nat
      BY Network DEF NetworkFacts
    <3>2. Done = 3 * N
      <4>1. Len(todo) = 0
        BY <1>1
      <4>2. Script(iter) = Script(0)
        BY <2>1
      <4> QED BY <4>1, <4>2, <3>1, StartScript DEF Done
    <3>3. \A i \in 1 .. N : status[Nth(Params, i)] = IF i > Done \/ Done = N + 2 * i - 1
                                                     THEN "AVAILABLE" ELSE "NOT_AVAILABLE"
      BY <2>1 DEF CtlInv, BeforeLoop
    <3>4. ASSUME NEW p \in Params PROVE status[p] = "NOT_AVAILABLE"
      <4>1. PICK i \in 1 .. N : Nth(Params, i) = p
        BY <3>1 DEF NetworkFacts
      <4>2. ~ (i > Done) /\ Done # N + 2 * i - 1
        BY <3>1, <3>2, <4>1
      <4> QED BY <3>3, <4>1, <4>2
    <3> QED BY <3>4
  <2>2. CASE iter # 0
    <3>1. iter > 0 /\ Len(todo) <= 1
      BY <1>1, <2>2 DEF CtlInv, AtScript
    <3> QED BY <3>1 DEF CtlInv, Released
  <2> QED BY <2>1, <2>2
<1>3. Available = {}
  BY <1>2 DEF Available
<1>4. Begin
  BY <1>1, <1>3 DEF Begin, coordVars, streamVars, DeviceKept, Prepared
<1> QED BY <1>4 DEF DataStep

\* The shards change when nothing is gathered or in flight.
LEMMA UpdateData ==
  ASSUME CtlInv, AtUpdate, Running, UNCHANGED loopVars, UpdateShards
  PROVE  DataStep
<1>1. \A p \in Params : status[p] = "NOT_AVAILABLE"
  BY UpdateStep
<1>2. Now("update") /\ iter > 0 /\ Len(todo) = 1
  <2>1. Now("update")
    BY DEF UpdateShards
  <2> QED BY <2>1, NowLoop DEF Now, CtlInv
<1>3. KernelsDrained /\ cpuFull = {}
  BY <1>2 DEF AtUpdate
<1>4. Available = {} /\ InFlight = {}
  BY <1>1 DEF Available, InFlight
<1>5. Update
  BY <1>3, <1>4 DEF UpdateShards, Update, coordVars, loopVars
<1> QED BY <1>5 DEF DataStep

-----------------------------------------------------------------------------
(* Every step as a step of the data *)

\* Before the first iteration only the preparation gathers, after the
\* conversion.
LEMMA StartingStep ==
  ASSUME CtlInv, Starting, [Next]_vars
  PROVE  Starting'
<1> DEFINE N == Cardinality(Params)
<1>0. iter \in Nat /\ N \in Nat /\ AtScript
  <2>1. N \in Nat
    BY Network DEF NetworkFacts
  <2> QED BY <2>1 DEF CtlInv, AtScript
<1> SUFFICES ASSUME iter' = 0 PROVE agQ' = <<>> /\ (Done' <= N => dpu' = {})
  BY DEF Starting
<1>1. CASE Host
  <2>1. ~ StartIteration /\ UNCHANGED loopVars /\ (Start \/ Hooks \/ Loop) /\ Running
    <3>1. ~ StartIteration
      <4>1. StartIteration => iter' = iter + 1
        BY DEF StartIteration
      <4> QED BY <1>0, <4>1
    <3> QED BY <1>1, <3>1, Zenon DEF Host
  <2>2. iter = 0 /\ agQ = <<>> /\ (Done <= N => dpu = {})
    BY <2>1 DEF loopVars, Starting
  <2>3. \A kind : Now(kind) => kind \notin {"pre_fwd", "use", "post_fwd", "pre_bwd", "post_bwd", "reset_step", "epilogue", "release_all", "update"}
    BY <1>0, <2>2, NowLoop DEF Now
  <2>4. fetching = NoMod /\ waiting = {}
    BY <2>1, <2>2, NowFetch DEF CtlInv, FetchUnderWay
  <2>5. ~ (Hooks \/ Loop)
    BY <2>3, <2>4, Zenon DEF Hooks, Loop, PreForward, UseParams, PostForward, PreBackward, PostBackward, FetchParam, FetchDone,
            StepReset, Epilogue, ReleaseAll, UpdateShards, WaitParam, EndFetch
  <2>6. PICK kind \in {"convert", "gather", "add_hook"} :
          /\ Now(kind) /\ todo # <<>> /\ todo' = Tail(todo) /\ agQ' = agQ
          /\ kind # "gather" => dpu' = dpu /\ (kind = "add_hook" => dpu = {})
    BY <2>1, <2>5 DEF Start, ConvertParam, GatherForHook, AddHook, Now
  <2>7. Done' = Done + 1
    <3>1. todo' # todo
      BY <1>0, <2>6 DEF AtScript
    <3> QED BY <1>0, <2>1, <2>6, <3>1, ScriptStep
  <2>8. Done \in Nat
    BY <1>0 DEF AtScript
  <2>9. CASE kind = "gather"
    <3>1. PICK i \in 1 .. N : Done = N + 2 * i - 2
      BY <1>0, <2>6, <2>9, NowStart
    <3>2. ~ (Done' <= N)
      BY <1>0, <2>7, <2>8, <3>1
    <3> QED BY <2>2, <2>6, <3>2
  <2>10. CASE kind # "gather"
    BY <1>0, <2>2, <2>6, <2>7, <2>8, <2>10
  <2> QED BY <2>9, <2>10
<1>2. CASE Device \/ UNCHANGED vars
  <2>1. UNCHANGED <<todo, loopVars>>
    BY <1>2 DEF Device, hookVars, vars, loopVars
  <2>2. iter = 0 /\ agQ = <<>> /\ (Done <= N => dpu = {})
    BY <2>1 DEF loopVars, Starting
  <2>3. Done' = Done
    BY <1>0, <2>1, ScriptStep
  <2>4. agQ' = agQ /\ (dpu = {} => dpu' = {})
    BY <1>2, <2>2 DEF Device, vars, DpuGather, AllGatherStream, ComputeStream
  <2> QED BY <2>2, <2>3, <2>4
<1> QED BY <1>1, <1>2 DEF Next

\* The epilogue waits for the kernels, and the release drops every copy in
\* host memory.
LEMMA AtUpdateStep ==
  ASSUME CtlInv, AtUpdate, DataTypes, [Next]_vars
  PROVE  AtUpdate'
<1>0. iter \in Nat /\ AtScript
  BY DEF CtlInv, AtScript
<1>1. CASE Host
  <2>0. Running
    BY <1>1 DEF Host
  <2>1. CASE StartIteration
    <3>1. /\ iter < Len(schedule) /\ iter' = iter + 1
          /\ todo' = schedule[iter'] \o Backward(schedule[iter']) \o EndOfStep
      BY <2>1 DEF StartIteration
    <3>2. Len(schedule) \in Nat /\ schedule \in Schedules
      BY <1>0, ScheduleAssumption DEF AtScript
    <3>3. iter' \in 1 .. Len(schedule) /\ iter' # 0
      BY <1>0, <3>1, <3>2
    <3>4. todo' = Script(iter')
      BY <3>1, <3>3 DEF Script
    <3>5. ~ (Len(todo') <= 2) /\ ~ (Len(todo') <= 1)
      <4>1. Script(iter') \in Seq(HostEvents) /\ Len(Script(iter')) >= 4
        BY <3>2, <3>3, LoopScript
      <4>2. Len(Script(iter')) \in Nat
        BY <4>1
      <4> QED BY <3>4, <4>1, <4>2
    <3> QED BY <3>5 DEF AtUpdate
  <2>2. CASE (Start \/ Hooks \/ Loop) /\ UNCHANGED loopVars
    <3>1. todo' = todo \/ (todo # <<>> /\ todo' = Tail(todo))
      <4>1. Start \/ Loop => todo # <<>> /\ todo' = Tail(todo)
        BY Zenon DEF Start, Loop, ConvertParam, GatherForHook, AddHook, StepReset, Epilogue, ReleaseAll, UpdateShards, Now
      <4>2. UseParams \/ PostForward \/ PostBackward => todo # <<>> /\ todo' = Tail(todo)
        BY Zenon DEF UseParams, PostForward, PostBackward, Now
      <4>3. PreForward \/ PreBackward => todo' = todo \/ (todo # <<>> /\ todo' = Tail(todo))
        BY DEF PreForward, PreBackward, Now
      <4>4. FetchParam => todo' = todo
        BY DEF FetchParam, hookVars
      <4>5. FetchDone => todo # <<>> /\ todo' = Tail(todo)
        BY <2>0, NowFetch DEF FetchDone, EndFetch
      <4> QED BY <2>2, <4>1, <4>2, <4>3, <4>4, <4>5 DEF Hooks
    <3>2. Len(todo) \in Nat /\ (todo' = todo \/ Len(todo') = Len(todo) - 1)
      BY <1>0, <3>1 DEF AtScript
    <3>3. CASE Len(todo) > 3 \/ iter = 0
      BY <2>2, <3>2, <3>3 DEF AtUpdate, loopVars
    <3>4. CASE Len(todo) <= 3 /\ iter # 0
      <4>1. \A kind : Now(kind) => kind \notin {"convert", "gather", "add_hook", "pre_fwd", "use", "post_fwd", "pre_bwd", "post_bwd", "reset_step"}
        <5> SUFFICES ASSUME NEW kind, Now(kind)
                     PROVE  kind \notin {"convert", "gather", "add_hook", "pre_fwd", "use", "post_fwd", "pre_bwd", "post_bwd", "reset_step"}
          OBVIOUS
        <5>1. todo # <<>> /\ Head(todo).ev = kind
          BY DEF Now
        <5>2. Len(todo) \in Nat /\ iter \in Nat
          BY <1>0, <3>2
        <5>3. /\ kind \in {"convert", "gather", "add_hook"} => iter = 0
              /\ kind \in {"pre_fwd", "use", "post_fwd", "pre_bwd", "post_bwd"} => Len(todo) > 4
              /\ kind = "reset_step" => Len(todo) = 4
          BY ONLY <1>0, <5>1, NowLoop, Zenon
        <5>4. ~ (Len(todo) > 4) /\ Len(todo) # 4
          BY ONLY <3>4, <5>2
        <5> QED BY ONLY <3>4, <5>3, <5>4, Zenon
      <4>2. fetching = NoMod /\ waiting = {}
        BY <2>0, <3>2, <3>4, NowFetch DEF CtlInv, FetchUnderWay
      <4>3. Epilogue \/ ReleaseAll \/ UpdateShards
        BY <2>2, <4>1, <4>2, Zenon DEF Start, Hooks, Loop, ConvertParam, GatherForHook, AddHook, PreForward, UseParams, PostForward,
             PreBackward, PostBackward, FetchParam, FetchDone, StepReset, WaitParam, EndFetch
      <4>4. CASE Epilogue
        <5>1. KernelsDrained /\ UNCHANGED <<cuQ, cpuFull>> /\ Len(todo) = 3 /\ todo' = Tail(todo)
          BY <1>0, <4>4, NowLoop DEF Epilogue, Now, coordVars, streamVars
        <5>2. Len(todo') = 2
          <6>1. todo \in Seq(HostEvents)
            BY <1>0 DEF AtScript
          <6>2. \A s \in Seq(HostEvents) : s # <<>> => Len(Tail(s)) = Len(s) - 1
            OBVIOUS
          <6>3. todo # <<>>
            BY <5>1
          <6>4. Len(Tail(todo)) = Len(todo) - 1
            BY ONLY <6>1, <6>2, <6>3, Zenon
          <6>5. Len(todo') = Len(Tail(todo)) /\ Len(todo) = 3
            BY ONLY <5>1, Zenon
          <6>6. Len(todo') = 3 - 1
            BY ONLY <6>4, <6>5, Zenon
          <6> QED BY ONLY <6>6
        <5>3. KernelsDrained'
          BY <5>1 DEF KernelsDrained
        <5>4. ~ (Len(todo') <= 1)
          BY ONLY <5>2
        <5> QED BY ONLY <5>3, <5>4, Zenon DEF AtUpdate
      <4>5. CASE ReleaseAll
        <5>1. Len(todo) = 2
          BY <1>0, <4>5, NowLoop DEF ReleaseAll, Now
        <5>2. CASE \E p \in Params : InRegistry(p)
          BY <4>5, <5>2 DEF ReleaseAll, ReleaseAndResetAll, Raise, AtUpdate, Running
        <5>3. CASE ~ \E p \in Params : InRegistry(p)
          <6> DEFINE B == {data[p] : p \in Releasable(Params, active')}
                     F == [i \in 1 .. Cardinality(B) |-> FreeOp(Nth(B, i))]
          <6>1. cuQ' = cuQ \o <<>> \o F /\ cpuFull' = {}
            BY <4>5, <5>3 DEF ReleaseAll, ReleaseAndResetAll, Partition, PartitionParams, Free
          <6>2. B \in SUBSET Block
            BY DEF DataTypes, ParamTypes, Releasable
          <6>3. F \in Seq(CuOps) /\ \A i \in 1 .. Len(F) : F[i].op = "free"
            BY <6>2, FreesFacts
          <6> HIDE DEF F
          <6>4. cuQ' = cuQ \o F /\ cuQ \in Seq(CuOps)
            BY <6>1 DEF DataTypes, StreamTypes
          <6>5. KernelsDrained
            BY <2>0, <3>4, <5>1, <1>0 DEF AtUpdate
          <6>6. \A i \in 1 .. Len(cuQ) : cuQ[i].op # "kernel"
            BY <6>4, <6>5 DEF KernelsDrained
          <6>7. cuQ' \in Seq(CuOps) /\ \A i \in 1 .. Len(cuQ') : cuQ'[i].op # "kernel"
            BY <6>3, <6>4, <6>6, AppendFacts
          <6>8. KernelsDrained'
            BY <6>7 DEF KernelsDrained
          <6> QED BY <6>1, <6>8 DEF AtUpdate
        <5> QED BY <5>2, <5>3
      <4>6. CASE UpdateShards
        <5>1. UNCHANGED <<cuQ, cpuFull, err>> /\ Len(todo) = 1
          BY <1>0, <4>6, NowLoop DEF UpdateShards, Now, coordVars
        <5>2. KernelsDrained /\ cpuFull = {}
          BY <1>0, <2>0, <3>4, <5>1 DEF AtUpdate
        <5> QED BY <5>1, <5>2 DEF AtUpdate, KernelsDrained
      <4> QED BY <4>3, <4>4, <4>5, <4>6
    <3> QED BY <3>2, <3>3, <3>4
  <2> QED BY <1>1, <2>1, <2>2 DEF Host
<1>2. CASE Device \/ UNCHANGED vars
  <2>1. UNCHANGED <<todo, iter, cpuFull, err>>
    BY <1>2 DEF Device, hookVars, vars, loopVars, coordVars
  <2>2. KernelsDrained => KernelsDrained'
    <3>1. CASE cuQ' = cuQ
      BY <3>1 DEF KernelsDrained
    <3>2. CASE cuQ # <<>> /\ cuQ' = Tail(cuQ)
      <4>1. cuQ \in Seq(CuOps)
        BY DEF DataTypes, StreamTypes
      <4>2. /\ cuQ' \in Seq(CuOps) /\ Len(cuQ) \in Nat
            /\ \A i \in 1 .. Len(cuQ') : i + 1 \in 1 .. Len(cuQ) /\ cuQ'[i] = cuQ[i + 1]
        BY <3>2, <4>1, TailFacts
      <4> QED BY <4>1, <4>2 DEF KernelsDrained
    <3> QED BY <1>2, <3>1, <3>2 DEF Device, vars, DpuGather, AllGatherStream, ComputeStream
  <2> QED BY <2>1, <2>2 DEF AtUpdate, Running
<1> QED BY <1>1, <1>2 DEF Next

\* Every step does to the data one of the things that DataStep lists.
LEMMA DataSteps ==
  ASSUME CtlInv, Calls, AtUpdate, DataTypes, [Next]_vars
  PROVE  DataStep
<1>1. CASE UNCHANGED vars
  BY <1>1 DEF vars, DataStep, Idle, DeviceKept
<1>2. CASE Device
  BY <1>2 DEF Device, coordVars, loopVars, DataStep, HostKept
<1>3. CASE Host
  <2>0. Running /\ MemoryBound
    BY <1>3 DEF Host
  <2>1. CASE StartIteration
    BY <2>0, <2>1, IterationData
  <2>2. ASSUME (Start \/ Hooks \/ Loop), UNCHANGED loopVars PROVE DataStep
    <3>1. CASE ConvertParam \/ AddHook
      BY <2>0, <2>2, <3>1, StartData
    <3>2. CASE GatherForHook
      BY <2>0, <2>2, <3>2, BringData
    <3>3. CASE PreForward
      BY <2>0, <2>2, <3>3, BeginData DEF PreForward
    <3>4. CASE PreBackward
      <4>1. CASE AlreadyFetched(hook[Mod])
        BY <2>2, <3>4, <4>1 DEF PreBackward, coordVars, streamVars, loopVars, DataStep, Idle, DeviceKept
      <4>2. CASE ~ AlreadyFetched(hook[Mod])
        BY <2>0, <2>2, <3>4, <4>2, BeginData DEF PreBackward
      <4> QED BY <4>1, <4>2
    <3>5. CASE UseParams
      BY <2>2, <3>5, UseData
    <3>6. CASE PostForward \/ PostBackward
      BY <2>2, <3>6, ReleaseData
    <3>7. CASE FetchParam
      BY <2>0, <2>2, <3>7, FetchData
    <3>8. CASE FetchDone
      BY <2>0, <2>2, <3>8, EndData
    <3>9. CASE StepReset
      <4>1. ResetStep
        BY <3>9 DEF StepReset
      <4> QED BY <2>2, <4>1 DEF ResetStep, Raise, streamVars, loopVars, DataStep, Idle, DeviceKept
    <3>10. CASE Epilogue
      BY <2>2, <3>10 DEF Epilogue, coordVars, streamVars, loopVars, DataStep, Idle, DeviceKept
    <3>11. CASE ReleaseAll
      BY <2>2, <3>11, ReleaseAllData
    <3>12. CASE UpdateShards
      BY <2>0, <2>2, <3>12, UpdateData
    <3> QED BY <2>2, <3>1, <3>2, <3>3, <3>4, <3>5, <3>6, <3>7, <3>8, <3>9, <3>10, <3>11, <3>12 DEF Start, Hooks, Loop
  <2> QED BY <1>3, <2>1, <2>2 DEF Host
<1> QED BY <1>1, <1>2, <1>3 DEF Next

-----------------------------------------------------------------------------
(* The types of the data *)

\* The fields of a handle.
LEMMA HandleFacts ==
  /\ NoHandle \in Handle
  /\ \A h \in Handle : h.ps \in SUBSET Params /\ h.out \in 0 .. NBlocks /\ h.slot \in Slot /\ h.gen \in Nat
  /\ Block \subseteq 0 .. NBlocks /\ NoBlock \in 0 .. NBlocks /\ NoBlock \notin Block
  /\ \A h \in Handle : ~ FromHost(h) => h.out \in Block
<1>1. 0 \in 0 .. NBlocks /\ 0 \in 0 .. PoolSize - 1
  BY StreamsAssumption
<1>2. NoHandle \in Handle
  BY <1>1 DEF NoHandle, Handle, NoBlock
<1> QED BY <1>1, <1>2, StreamsAssumption DEF Handle, Slot, Block, NoBlock, FromHost

\* The queued operations, the blocks and the handles keep their types.
LEMMA LaunchTypes ==
  ASSUME DataTypes, NEW R, NEW K, Launch(R, K)
  PROVE  DataTypes'
<1>1. /\ K \in Seq(CuOps) /\ cuQ' = cuQ \o K /\ R \subseteq Params
      /\ status' = [p \in Params |-> IF p \in R THEN "NOT_AVAILABLE" ELSE status[p]]
      /\ data' = [p \in Params |-> IF p \in R THEN NoBlock ELSE data[p]]
      /\ \A p \in cpuFull' : p \in cpuFull \/ \E i \in 1 .. Len(K) : K[i].op = "save" /\ K[i].p = p
      /\ UNCHANGED registry
      /\ UNCHANGED <<transport, dpu, flag, gens, nextSlot, agQ, agPos, held, mem, weights, pinned, odd>>
  BY DEF Launch, DeviceKept, Available
<1>2. cuQ' \in Seq(CuOps)
  BY <1>1 DEF DataTypes, StreamTypes
<1>3. cpuFull' \subseteq Params
  <2>1. \A i \in 1 .. Len(K) : K[i] \in CuOps
    BY <1>1
  <2>2. \A i \in 1 .. Len(K) : K[i].op = "save" => K[i].p \in Params
    BY <2>1, CuOpFacts
  <2>3. cpuFull \subseteq Params
    BY DEF DataTypes, ParamTypes
  <2> QED BY <1>1, <2>2, <2>3
<1>4. StreamTypes'
  BY <1>1, <1>2 DEF DataTypes, StreamTypes
<1>5. ParamTypes'
  <2>1. data' \in [Params -> 0 .. NBlocks]
    BY <1>1, HandleFacts DEF DataTypes, ParamTypes
  <2>2. \A p \in Params : IF status'[p] = "AVAILABLE" THEN data'[p] \in Block ELSE data'[p] = NoBlock
    BY <1>1 DEF DataTypes, ParamTypes
  <2> QED BY <1>1, <1>3, <2>1, <2>2 DEF DataTypes, ParamTypes
<1> QED BY <1>4, <1>5 DEF DataTypes

\* So does a gather the coordinator asks for, ...
LEMMA AskTypes ==
  ASSUME DataTypes, NEW J, Joins(J), NoAsk \/ \E ps \in SUBSET Params : \E h \in Handle : Ask(ps, h)
  PROVE  DataTypes'
<1>1. cuQ' \in Seq(CuOps)
  <2>1. agPos + Len(agQ) \in Nat /\ cuQ \in Seq(CuOps)
    BY DEF DataTypes, StreamTypes
  <2>2. JoinOps \in Seq(CuOps) /\ <<>> \in Seq(CuOps)
    BY <2>1, CuOpFacts DEF JoinOps
  <2>3. J \in Seq(CuOps) /\ cuQ' = cuQ \o J
    BY <2>2 DEF Joins
  <2> QED BY <2>1, <2>3
<1>2. CASE NoAsk
  <2>1. StreamTypes' /\ ParamTypes'
    BY <1>1, <1>2 DEF NoAsk, DeviceKept, DataTypes, StreamTypes, ParamTypes
  <2> QED BY <2>1 DEF DataTypes
<1>3. ASSUME NEW ps \in SUBSET Params, NEW h \in Handle, Ask(ps, h) PROVE DataTypes'
  <2>1. /\ held' \subseteq Block /\ dpu' \subseteq Handle /\ gens' \in [Slot -> Nat] /\ nextSlot' \in Slot
        /\ UNCHANGED <<transport, flag, agQ, agPos, mem, weights, pinned, data, cpuFull>>
    <3>1. CASE UNCHANGED <<gens, nextSlot, held, dpu>>
      BY <1>3, <3>1 DEF Ask, DataTypes, StreamTypes
    <3>2. CASE /\ h.out \in Block \ held /\ held' = held \cup {h.out} /\ dpu' = dpu \cup {h}
               /\ UNCHANGED <<gens, nextSlot>> \/ Acquire
      <4>1. held' \subseteq Block /\ dpu' \subseteq Handle
        BY <3>2 DEF DataTypes, StreamTypes
      <4>2. Acquire => gens' \in [Slot -> Nat] /\ nextSlot' \in Slot
        <5>1. nextSlot \in 0 .. PoolSize - 1 /\ gens \in [Slot -> Nat] /\ PoolSize \in Nat /\ PoolSize > 0
          BY StreamsAssumption DEF DataTypes, StreamTypes, Slot
        <5>2. (nextSlot + 1) % PoolSize \in 0 .. PoolSize - 1
          BY <5>1
        <5> QED BY <5>1, <5>2 DEF Acquire, Slot
      <4> QED BY <1>3, <3>2, <4>1, <4>2 DEF Ask, DataTypes, StreamTypes
    <3> QED BY <1>3, <3>1, <3>2 DEF Ask
  <2>2. StreamTypes'
    <3>1. odd' \subseteq odd \cup {"reused"}
      BY <1>3 DEF Ask, GivenOut, OddGrows
    <3> QED BY <1>1, <2>1, <3>1 DEF DataTypes, StreamTypes
  <2>3. /\ \A p \in ps : status[p] = "NOT_AVAILABLE"
        /\ registry' = [p \in Params |-> IF p \in ps THEN h ELSE registry[p]]
        /\ status' = [p \in Params |-> IF p \in ps THEN "INFLIGHT" ELSE status[p]]
    BY <1>3 DEF Ask
  <2>4. ParamTypes'
    BY <2>1, <2>3 DEF DataTypes, ParamTypes
  <2> QED BY <2>2, <2>4 DEF DataTypes
<1> QED BY <1>2, <1>3

\* ... a round of the wait loop, ...
LEMMA TakeTypes ==
  ASSUME CtlInv, DataTypes, NEW p \in Params, NEW W, Take(p, W)
  PROVE  DataTypes'
<1> DEFINE h == registry[p]
<1>1. /\ p \in InFlight /\ W \in Seq(AgOps) /\ agQ' = agQ \o W
      /\ \A q \in h.ps : IF Single(h) THEN data'[q] = h.out ELSE data'[q] \in Block \ held
      /\ status' = [q \in Params |-> IF q \in h.ps THEN "AVAILABLE" ELSE status[q]]
      /\ data' = [q \in Params |-> IF q \in h.ps THEN data'[q] ELSE data[q]]
      /\ held' = (held \ (IF Single(h) THEN {} ELSE {h.out})) \cup {data'[q] : q \in h.ps}
      /\ registry' = [registry EXCEPT ![p] = NoHandle]
      /\ odd' \subseteq odd \cup {"reused"}
      /\ UNCHANGED <<transport, dpu, flag, gens, nextSlot, agPos, mem, weights, pinned, cuQ, cpuFull>>
  BY DEF Take, OddGrows
<1>2. h \in Handle /\ (~ FromHost(h) => h.out \in Block)
  BY <1>1, InFlightHandle
<1> HIDE DEF h
<1>3. \A q \in h.ps : data'[q] \in Block
  BY <1>1, <1>2 DEF Single
<1>4. agQ' \in Seq(AgOps) /\ held' \subseteq Block
  BY <1>1, <1>3 DEF DataTypes, StreamTypes
<1>5. StreamTypes'
  BY <1>1, <1>4 DEF DataTypes, StreamTypes
<1>6. registry' \in [Params -> Handle]
  BY <1>1, HandleFacts DEF DataTypes, ParamTypes
<1>7. /\ data' \in [Params -> 0 .. NBlocks]
      /\ \A q \in Params : IF status'[q] = "AVAILABLE" THEN data'[q] \in Block ELSE data'[q] = NoBlock
  <2>1. ASSUME NEW q \in Params
        PROVE  data'[q] \in 0 .. NBlocks /\ IF status'[q] = "AVAILABLE" THEN data'[q] \in Block ELSE data'[q] = NoBlock
    <3>1. CASE q \in h.ps
      BY <1>1, <1>3, <3>1, HandleFacts
    <3>2. CASE q \notin h.ps
      <4>1. data'[q] = data[q] /\ status'[q] = status[q]
        BY <1>1, <3>2
      <4> QED BY <4>1 DEF DataTypes, ParamTypes
    <3> QED BY <3>1, <3>2
  <2>2. data' = [q \in Params |-> data'[q]]
    BY <1>1
  <2> QED BY <2>1, <2>2
<1>8. ParamTypes'
  BY <1>1, <1>6, <1>7 DEF DataTypes, ParamTypes
<1> QED BY <1>5, <1>8 DEF DataTypes

\* ... a gather of the preparation, ...
LEMMA BringTypes ==
  ASSUME CtlInv, DataTypes, NEW p \in Params, NEW h \in Handle, Bring(p, h)
  PROVE  DataTypes'
<1>1. StatusType
  BY LifeType DEF CtlInv
<1>2. /\ h.out \in Block \ held /\ held' = held \cup {h.out} /\ dpu' = dpu \cup {h}
      /\ status' = [status EXCEPT ![p] = "AVAILABLE"] /\ data' = [data EXCEPT ![p] = h.out]
      /\ odd' \subseteq odd \cup {"reused"}
      /\ UNCHANGED <<transport, flag, gens, nextSlot, agQ, agPos, cuQ, mem, weights, pinned, registry, cpuFull>>
  BY DEF Bring, GivenOut, OddGrows
<1>3. StreamTypes'
  BY <1>2 DEF DataTypes, StreamTypes
<1>4. ParamTypes'
  BY <1>1, <1>2, HandleFacts DEF DataTypes, ParamTypes, StatusType
<1> QED BY <1>3, <1>4 DEF DataTypes

\* ... and a step of the DPU or of a stream.
LEMMA DeviceTypes ==
  ASSUME DataTypes, HostKept, (\E h \in dpu : DpuGather(h)) \/ AllGatherStream \/ ComputeStream
  PROVE  DataTypes'
<1>1. UNCHANGED <<status, registry, data, cpuFull>>
  BY DEF HostKept
<1>2. ASSUME NEW h \in dpu, DpuGather(h) PROVE DataTypes'
  <2>1. h \in Handle /\ h.ps \in SUBSET Params /\ h.gen \in Nat
    BY HandleFacts DEF DataTypes, StreamTypes
  <2>2. [ps |-> h.ps, ver |-> weights] \in Content
    BY <2>1 DEF DataTypes, StreamTypes, Content
  <2>3. mem' \in [Block -> Content] /\ flag' \in [Slot -> Nat] /\ dpu' \subseteq Handle
    BY <1>2, <2>1, <2>2 DEF DpuGather, DataTypes, StreamTypes
  <2>4. UNCHANGED <<transport, gens, nextSlot, agQ, agPos, cuQ, held, weights, pinned, odd>>
    BY <1>2 DEF DpuGather
  <2>5. StreamTypes' /\ ParamTypes'
    BY <1>1, <2>3, <2>4 DEF DataTypes, StreamTypes, ParamTypes
  <2> QED BY <2>5 DEF DataTypes
<1>3. CASE AllGatherStream
  <2> DEFINE o == Head(agQ)
  <2>1. /\ agQ # <<>> /\ agQ' = Tail(agQ) /\ agPos' = agPos + 1
        /\ \/ UNCHANGED mem
           \/ o.op = "cat" /\ mem' = [mem EXCEPT ![o.dst] = [ps |-> mem[o.src].ps \cap {o.p}, ver |-> mem[o.src].ver]]
           \/ o.op = "load" /\ mem' = [mem EXCEPT ![o.dst] = [ps |-> {o.p}, ver |-> pinned[o.p]]]
        /\ odd' \subseteq odd \cup {"early"}
        /\ UNCHANGED <<transport, dpu, flag, gens, nextSlot, cuQ, held, weights, pinned>>
    BY <1>3 DEF AllGatherStream
  <2>2. o \in AgOps /\ agQ' \in Seq(AgOps)
    BY <2>1 DEF DataTypes, StreamTypes
  <2>3. held' \subseteq Block /\ agPos' \in Nat
    BY <2>1 DEF DataTypes, StreamTypes
  <2>4. mem' \in [Block -> Content]
    <3>1. CASE o.op = "cat" /\ mem' = [mem EXCEPT ![o.dst] = [ps |-> mem[o.src].ps \cap {o.p}, ver |-> mem[o.src].ver]]
      <4>1. o.src \in Block
        BY <2>2, <3>1, AgOpFacts
      <4>2. mem[o.src] \in Content
        BY <4>1 DEF DataTypes, StreamTypes
      <4>3. [ps |-> mem[o.src].ps \cap {o.p}, ver |-> mem[o.src].ver] \in Content
        BY <4>2 DEF Content
      <4> HIDE DEF o
      <4> QED BY <3>1, <4>3 DEF DataTypes, StreamTypes
    <3>2. CASE o.op = "load" /\ mem' = [mem EXCEPT ![o.dst] = [ps |-> {o.p}, ver |-> pinned[o.p]]]
      <4>1. o.p \in Params
        BY <2>2, <3>2, AgOpFacts
      <4>2. [ps |-> {o.p}, ver |-> pinned[o.p]] \in Content
        BY <4>1 DEF DataTypes, ParamTypes, Content
      <4> HIDE DEF o
      <4> QED BY <3>2, <4>2 DEF DataTypes, StreamTypes
    <3>3. CASE mem' = mem
      BY <3>3 DEF DataTypes, StreamTypes
    <3> QED BY <2>1, <3>1, <3>2, <3>3
  <2> HIDE DEF o
  <2>5. StreamTypes' /\ ParamTypes'
    BY <1>1, <2>1, <2>2, <2>3, <2>4 DEF DataTypes, StreamTypes, ParamTypes
  <2> QED BY <2>5 DEF DataTypes
<1>4. CASE ComputeStream
  <2> DEFINE o == Head(cuQ)
  <2>1. /\ cuQ # <<>> /\ cuQ' = Tail(cuQ)
        /\ held' = held \/ held' = held \ {o.src}
        /\ pinned' = pinned \/ (o.op = "save" /\ pinned' = [pinned EXCEPT ![o.p] = mem[o.src].ver])
        /\ mem' = mem \/ (o.op = "free" /\ mem' = [mem EXCEPT ![o.src] = Nothing])
        /\ UNCHANGED <<transport, dpu, flag, gens, nextSlot, agQ, agPos, weights, odd>>
    BY <1>4 DEF ComputeStream
  <2>2. o \in CuOps /\ cuQ' \in Seq(CuOps)
    BY <2>1 DEF DataTypes, StreamTypes
  <2>3. held' \subseteq Block
    BY <2>1 DEF DataTypes, StreamTypes
  <2>4. pinned' \in [Params -> Nat]
    <3>1. o.op = "save" => mem[o.src].ver \in Nat
      <4>1. o.op = "save" => o.src \in Block
        BY <2>2, CuOpFacts
      <4> QED BY <4>1 DEF DataTypes, StreamTypes, Content
    <3> HIDE DEF o
    <3> QED BY <2>1, <3>1 DEF DataTypes, ParamTypes
  <2> HIDE DEF o
  <2>5. mem' \in [Block -> Content]
    <3>1. Nothing \in Content
      BY DEF Nothing, Content
    <3> QED BY <2>1, <3>1 DEF DataTypes, StreamTypes
  <2>6. StreamTypes' /\ ParamTypes'
    BY <1>1, <2>1, <2>2, <2>3, <2>4, <2>5 DEF DataTypes, StreamTypes, ParamTypes
  <2> QED BY <2>6 DEF DataTypes
<1> QED BY <1>2, <1>3, <1>4

\* No step of the data takes a variable out of its type.
LEMMA DataTypesStep ==
  ASSUME CtlInv, DataTypes, DataStep
  PROVE  DataTypes'
<1>1. CASE Idle \/ Begin
  <2>1. StreamTypes' /\ ParamTypes'
    BY <1>1 DEF Idle, Begin, DeviceKept, DataTypes, StreamTypes, ParamTypes
  <2> QED BY <2>1 DEF DataTypes
<1>2. CASE Update
  <2>1. StreamTypes' /\ ParamTypes'
    BY <1>2 DEF Update, DataTypes, StreamTypes, ParamTypes
  <2> QED BY <2>1 DEF DataTypes
<1>3. CASE \E R \in SUBSET Params : \E K \in Seq(CuOps) : Launch(R, K)
  BY <1>3, LaunchTypes
<1>4. CASE \E J \in {<<>>, JoinOps} : Joins(J) /\ (NoAsk \/ \E ps \in SUBSET Params : \E h \in Handle : Ask(ps, h))
  BY <1>4, AskTypes
<1>5. CASE \E p \in Params : \E W \in Seq(AgOps) : Take(p, W)
  BY <1>5, TakeTypes
<1>6. CASE \E p \in Params : Took(p)
  <2>1. registry' \in [Params -> Handle]
    BY <1>6, HandleFacts DEF Took, DataTypes, ParamTypes
  <2>2. StreamTypes' /\ ParamTypes'
    BY <1>6, <2>1 DEF Took, DeviceKept, DataTypes, StreamTypes, ParamTypes
  <2> QED BY <2>2 DEF DataTypes
<1>7. CASE \E p \in Params : \E h \in Handle : Bring(p, h)
  BY <1>7, BringTypes
<1>8. CASE HostKept /\ ((\E h \in dpu : DpuGather(h)) \/ AllGatherStream \/ ComputeStream)
  BY <1>8, DeviceTypes
<1> QED BY <1>1, <1>2, <1>3, <1>4, <1>5, <1>6, <1>7, <1>8 DEF DataStep

-----------------------------------------------------------------------------
(* The counters of the hooks and the types of all variables *)

\* The counters the hooks keep, and __n_available_params.
HookType == [calls : Nat, stack : Seq(Nat), current : Nat, lastPre : Nat, refs : Nat, gradsLeft : Int]
Counters == nAvail \in Int /\ hook \in [Mods -> HookType]

\* A hook with one of its fields changed.
LEMMA HookUpdates ==
  ASSUME NEW h \in HookType
  PROVE  /\ h.calls \in Nat /\ h.stack \in Seq(Nat) /\ h.lastPre \in Nat /\ h.refs \in Nat /\ h.gradsLeft \in Int
         /\ \A n \in Nat : [h EXCEPT !.calls = n] \in HookType
         /\ \A s \in Seq(Nat) : [h EXCEPT !.stack = s] \in HookType
         /\ \A n \in Nat : [h EXCEPT !.current = n] \in HookType
         /\ \A n \in Nat : [h EXCEPT !.lastPre = n] \in HookType
         /\ \A n \in Nat : [h EXCEPT !.refs = n] \in HookType
         /\ \A n \in Int : [h EXCEPT !.gradsLeft = n] \in HookType
<1> DEFINE S == Seq(Nat)
<1> HIDE DEF S
<1>1. h \in [calls : Nat, stack : S, current : Nat, lastPre : Nat, refs : Nat, gradsLeft : Int]
  BY DEF HookType, S
<1>2. HookType = [calls : Nat, stack : S, current : Nat, lastPre : Nat, refs : Nat, gradsLeft : Int]
  BY DEF HookType, S
<1>3. /\ h.calls \in Nat /\ h.stack \in S /\ h.lastPre \in Nat /\ h.refs \in Nat /\ h.gradsLeft \in Int
  BY ONLY <1>1
<1>4. /\ \A n \in Nat : [h EXCEPT !.calls = n] \in HookType
      /\ \A s \in S : [h EXCEPT !.stack = s] \in HookType
  BY ONLY <1>1, <1>2
<1>5. /\ \A n \in Nat : [h EXCEPT !.current = n] \in HookType
      /\ \A n \in Nat : [h EXCEPT !.lastPre = n] \in HookType
  BY ONLY <1>1, <1>2
<1>6. /\ \A n \in Nat : [h EXCEPT !.refs = n] \in HookType
      /\ \A n \in Int : [h EXCEPT !.gradsLeft = n] \in HookType
  BY ONLY <1>1, <1>2
<1> QED BY <1>3, <1>4, <1>5, <1>6 DEF S

\* Every hook of a submodule keeps the type of its counters.
LEMMA HooksStep ==
  ASSUME CtlInv, hook \in [Mods -> HookType], [Next]_vars
  PROVE  hook' \in [Mods -> HookType]
<1>1. CASE UNCHANGED hook
  BY <1>1
<1>2. CASE Device \/ UNCHANGED vars
  BY <1>1, <1>2 DEF Device, hookVars, vars
<1>3. ASSUME NEW kind \in {"pre_fwd", "post_fwd", "pre_bwd", "post_bwd"}, Now(kind) PROVE Mod \in Mods
  BY <1>3, NowLoop DEF Now, CtlInv
<1> DEFINE h == hook[Mod]
<1>4. ASSUME Mod \in Mods, NEW g \in HookType, hook' = [hook EXCEPT ![Mod] = g] PROVE hook' \in [Mods -> HookType]
  BY <1>4
<1>5. CASE PreForward
  <2>0. Mod \in Mods
    BY <1>3, <1>5 DEF PreForward
  <2>1. h \in HookType
    BY <2>0
  <2> DEFINE n == h.calls + 1
             s == Append(h.stack, h.calls + 1)
             d == IF Mod \in NoGradIn THEN 0 ELSE 1
             g1 == [h EXCEPT !.calls = n]
             g2 == [g1 EXCEPT !.stack = s]
             g == [g2 EXCEPT !.gradsLeft = d]
  <2>2. hook' = [hook EXCEPT ![Mod] = g]
    <3>1. hook' = [hook EXCEPT ![Mod] = [h EXCEPT !.calls = n, !.stack = s, !.gradsLeft = d]]
      BY <1>5, <2>0 DEF PreForward
    <3>2. [h EXCEPT !.calls = n, !.stack = s, !.gradsLeft = d] = g
      BY <2>1 DEF HookType
    <3> QED BY ONLY <3>1, <3>2
  <2> HIDE DEF h
  <2>4. n \in Nat /\ s \in Seq(Nat) /\ d \in Int
    <3>1. h.calls \in Nat /\ h.stack \in Seq(Nat)
      BY <2>1, HookUpdates
    <3> QED BY ONLY <3>1
  <2> HIDE DEF n, s, d
  <2>5. g1 \in HookType
    BY <2>1, <2>4, HookUpdates
  <2> HIDE DEF g1
  <2>6. g2 \in HookType
    BY <2>4, <2>5, HookUpdates
  <2> HIDE DEF g2
  <2>3. g \in HookType
    BY <2>4, <2>6, HookUpdates
  <2> HIDE DEF g
  <2> QED BY <1>4, <2>0, <2>2, <2>3
<1>6. CASE PostForward
  <2>0. Mod \in Mods
    BY <1>3, <1>6 DEF PostForward
  <2>1. h \in HookType /\ Outputs[Mod] \in Nat
    BY <2>0, OffloadAssumption
  <2> DEFINE g == [h EXCEPT !.refs = @ + Outputs[Mod]]
  <2>2. hook' = [hook EXCEPT ![Mod] = g]
    BY <1>6, <2>0 DEF PostForward
  <2> HIDE DEF h
  <2>3. g \in HookType
    <3>1. h.refs + Outputs[Mod] \in Nat
      BY <2>1, HookUpdates
    <3> QED BY <2>1, <3>1, HookUpdates
  <2> HIDE DEF g
  <2> QED BY <1>4, <2>0, <2>2, <2>3
<1>7. ASSUME NEW r \in HookType PROVE CurrentCall(r) \in Nat /\ (r.stack # <<>> => Last(r.stack) \in Nat)
  <2>1. r.stack \in Seq(Nat)
    BY DEF HookType
  <2>2. r.stack # <<>> => Last(r.stack) \in Nat
    BY <2>1 DEF Last
  <2> QED BY <2>2 DEF CurrentCall, None
<1>8. CASE PreBackward
  <2>0. Mod \in Mods
    BY <1>3, <1>8 DEF PreBackward
  <2>1. h \in HookType /\ CurrentCall(h) \in Nat /\ (h.stack # <<>> => Last(h.stack) \in Nat)
    BY <1>7, <2>0
  <2>2. CASE AlreadyFetched(h)
    <3> DEFINE g == [h EXCEPT !.current = CurrentCall(h)]
    <3>1. hook' = hook \/ hook' = [hook EXCEPT ![Mod] = g]
      BY <1>8, <2>0, <2>2 DEF PreBackward
    <3> DEFINE c == CurrentCall(h)
    <3> HIDE DEF h, c
    <3>2. g = [h EXCEPT !.current = c]
      BY DEF c
    <3>3. c \in Nat /\ h \in HookType
      BY <2>1 DEF c
    <3>4. g \in HookType
      BY ONLY <3>2, <3>3 DEF HookType
    <3> HIDE DEF g
    <3> QED BY <1>1, <1>4, <2>0, <3>1, <3>4
  <2>3. CASE ~ AlreadyFetched(h)
    <3> DEFINE c == CurrentCall(h)
               l == IF h.stack = <<>> THEN h.lastPre ELSE Last(h.stack)
               g == [h EXCEPT !.current = c, !.lastPre = l, !.refs = @ - 1]
    <3>1. hook' = [hook EXCEPT ![Mod] = g]
      BY <1>8, <2>0, <2>3 DEF PreBackward
    <3>2. h.refs # 0
      BY <2>3 DEF AlreadyFetched
    <3> HIDE DEF h
    <3>3. c \in Nat /\ l \in Nat
      BY <2>1 DEF HookType
    <3> HIDE DEF c, l
    <3>4. g \in HookType
      <4>1. h.refs \in Nat /\ h.refs - 1 \in Nat
        BY <2>1, <3>2 DEF HookType
      <4> QED BY ONLY <2>1, <3>3, <4>1 DEF HookType, g
    <3> HIDE DEF g
    <3> QED BY <1>4, <2>0, <3>1, <3>4
  <2> QED BY <2>2, <2>3
<1>9. CASE PostBackward
  <2>0. Mod \in Mods
    BY <1>3, <1>9 DEF PostBackward
  <2>1. h \in HookType
    BY <2>0
  <2>2. CASE h.gradsLeft = 1
    <3> DEFINE s == IF h.stack = <<>> THEN h.stack ELSE Front(h.stack)
               g == [h EXCEPT !.gradsLeft = 0, !.current = None, !.stack = s]
               g1 == [h EXCEPT !.gradsLeft = 0]
               g2 == [g1 EXCEPT !.current = None]
               g3 == [g2 EXCEPT !.stack = s]
    <3>1. hook' = [hook EXCEPT ![Mod] = g]
      BY <1>9, <2>0, <2>2 DEF PostBackward
    <3>4. g = g3
      BY <2>1 DEF HookType
    <3> HIDE DEF h
    <3>2. s \in Seq(Nat)
      <4>1. h.stack \in Seq(Nat)
        BY <2>1 DEF HookType
      <4> QED BY <4>1 DEF Front
    <3> HIDE DEF s, g
    <3>5. g1 \in HookType
      <4>1. 0 \in Int
        OBVIOUS
      <4> QED BY <2>1, <4>1, HookUpdates
    <3> HIDE DEF g1
    <3>6. g2 \in HookType
      BY <3>5, HookUpdates DEF None
    <3> HIDE DEF g2
    <3>3. g \in HookType
      BY <3>2, <3>4, <3>6, HookUpdates
    <3> HIDE DEF g
    <3> QED BY <1>4, <2>0, <3>1, <3>3
  <2>3. CASE h.gradsLeft # 1
    <3> DEFINE g == [h EXCEPT !.gradsLeft = @ - 1]
    <3>1. hook' = [hook EXCEPT ![Mod] = g]
      BY <1>9, <2>0, <2>3 DEF PostBackward
    <3> HIDE DEF h
    <3>2. g \in HookType
      <4>1. h.gradsLeft - 1 \in Int
        BY <2>1, HookUpdates
      <4> QED BY <2>1, <4>1, HookUpdates
    <3> HIDE DEF g
    <3> QED BY <1>4, <2>0, <3>1, <3>2
  <2> QED BY <2>2, <2>3
<1>10. CASE Host
  <2>1. StartIteration \/ UseParams \/ FetchParam \/ FetchDone \/ Start \/ Loop => UNCHANGED hook
    BY DEF StartIteration, UseParams, FetchParam, FetchDone, Start, Loop, ConvertParam, GatherForHook, AddHook,
           StepReset, Epilogue, ReleaseAll, UpdateShards, hookVars
  <2> QED BY <1>1, <1>5, <1>6, <1>8, <1>9, <1>10, <2>1 DEF Host, Hooks
<1> QED BY <1>2, <1>10 DEF Next

\* So does every step of the coordinator that counts what is gathered.
LEMMA CountersStep ==
  ASSUME CtlInv, Counters, [Next]_vars
  PROVE  Counters'
<1>1. hook' \in [Mods -> HookType]
  BY HooksStep DEF Counters
<1>2. nAvail \in Int
  BY DEF Counters
<1>3. ASSUME NEW S \in SUBSET Params, AllGatherParams(S) PROVE nAvail' \in Int
  <2>1. NumelOf(NotAvailable(S)) \in Nat
    BY NumelType DEF NotAvailable
  <2> QED BY <1>2, <1>3, <2>1 DEF AllGatherParams
<1>4. ASSUME NEW S \in SUBSET Params, NEW ops, Partition(S, ops) PROVE nAvail' \in Int
  <2>1. NumelOf(S) \in Nat
    BY NumelType
  <2> QED BY <1>2, <1>4, <2>1 DEF Partition
<1>5. \A m \in Mods : ParamsOf[m] \in SUBSET Params
  BY CoordinatorAssumption
<1>6. CASE Device \/ UNCHANGED vars
  BY <1>1, <1>2, <1>6 DEF Device, coordVars, vars, Counters
<1>7. ASSUME NEW kind \in {"pre_fwd", "post_fwd", "pre_bwd", "post_bwd"}, Now(kind) PROVE Mod \in Mods
  BY <1>7, NowLoop DEF Now, CtlInv
<1>8. ASSUME NEW e, Raise(e) PROVE nAvail' \in Int
  BY <1>2, <1>8 DEF Raise
<1>9. ASSUME NEW m \in Mods, BeginFetch(m) PROVE nAvail' \in Int
  BY <1>3, <1>5, <1>8, <1>9 DEF BeginFetch
<1>10. ASSUME NEW m \in Mods, NEW ops, ReleaseSubModule(m, ops) PROVE nAvail' \in Int
  <2>1. Releasable(ParamsToRelease(m), active') \in SUBSET Params
    BY <1>5 DEF Releasable, ParamsToRelease
  <2> QED BY <1>4, <1>10, <2>1 DEF ReleaseSubModule
<1>11. CASE Host
  <2> SUFFICES nAvail' \in Int
    BY <1>1 DEF Counters
  <2>1. CASE StartIteration \/ Start \/ Epilogue \/ UpdateShards
    BY <1>2, <2>1 DEF StartIteration, Start, ConvertParam, GatherForHook, AddHook, Epilogue, UpdateShards, coordVars
  <2>2. CASE PreForward
    BY <1>7, <1>9, <2>2 DEF PreForward
  <2>3. CASE PreBackward
    <3>1. CASE AlreadyFetched(hook[Mod])
      BY <1>2, <2>3, <3>1 DEF PreBackward, coordVars
    <3>2. CASE ~ AlreadyFetched(hook[Mod])
      BY <1>7, <1>9, <2>3, <3>2 DEF PreBackward
    <3> QED BY <3>1, <3>2
  <2>4. CASE UseParams
    BY <1>2, <1>8, <2>4 DEF UseParams, coordVars
  <2>5. CASE PostForward
    BY <1>7, <1>10, <2>5 DEF PostForward
  <2>6. CASE PostBackward
    <3>1. CASE hook[Mod].gradsLeft = 1
      BY <1>7, <1>10, <2>6, <3>1 DEF PostBackward
    <3>2. CASE hook[Mod].gradsLeft # 1
      BY <1>2, <2>6, <3>2 DEF PostBackward, coordVars
    <3> QED BY <3>1, <3>2
  <2>7. CASE FetchParam
    BY <1>2, <1>8, <2>7 DEF FetchParam, WaitParam, WaitRound
  <2>8. CASE FetchDone
    <3>1. EndFetch
      BY <2>8 DEF FetchDone
    <3>2. CASE Complete /\ ParamsIn(tr.queue, 1, Discarded(fetching)) # NotFetched(fetching)
      BY <1>8, <3>1, <3>2 DEF EndFetch
    <3>3. CASE ~ (Complete /\ ParamsIn(tr.queue, 1, Discarded(fetching)) # NotFetched(fetching))
      <4>1. CASE Complete
        <5>1. ParamsIn(tr.queue, Discarded(fetching) + 1, Scanned(fetching)) \in SUBSET Params
          BY QueueCuts DEF CtlInv
        <5>2. AllGatherParams(ParamsIn(tr.queue, Discarded(fetching) + 1, Scanned(fetching)))
          BY <3>1, <3>3, <4>1 DEF EndFetch
        <5> QED BY <1>3, <5>1, <5>2
      <4>2. CASE ~ Complete
        <5>1. AllGatherParams({})
          BY <3>1, <4>2 DEF EndFetch
        <5> QED BY <1>3, <5>1
      <4> QED BY <4>1, <4>2
    <3> QED BY <3>2, <3>3
  <2>9. CASE StepReset
    <3>1. ResetStep
      BY <2>9 DEF StepReset
    <3>2. CASE \E p \in Params : InRegistry(p)
      <4>1. Raise("still have inflight params")
        BY <3>1, <3>2 DEF ResetStep
      <4> QED BY <1>8, <4>1
    <3>3. CASE ~ \E p \in Params : InRegistry(p)
      <4>1. nAvail' = 0
        BY <3>1, <3>3 DEF ResetStep
      <4> QED BY <4>1
    <3> QED BY <3>2, <3>3
  <2>10. CASE ReleaseAll
    <3>1. Releasable(Params, active') \in SUBSET Params
      BY DEF Releasable
    <3> QED BY <1>4, <1>8, <2>10, <3>1 DEF ReleaseAll, ReleaseAndResetAll
  <2> QED BY <1>11, <2>1, <2>2, <2>3, <2>4, <2>5, <2>6, <2>7, <2>8, <2>9, <2>10 DEF Host, Hooks, Loop
<1> QED BY <1>6, <1>11 DEF Next

\* The model before it is partitioned, every parameter in a block of its own.
LEMMA ModelBlocks ==
  /\ ModelBlock \in [Params -> Block]
  /\ \A p, q \in Params : ModelBlock[p] = ModelBlock[q] => p = q
<1> DEFINE U(p) == {q \in Params : q <= p}
<1>1. Params \subseteq Nat /\ IsFiniteSet(Params) /\ NBlocks \in Nat /\ NBlocks >= Cardinality(Params) /\ Cardinality(Params) \in Nat
  BY StreamsAssumption, FS_CardinalityType
<1>2. ASSUME NEW p \in Params
      PROVE  /\ Cardinality(U(p)) = Cardinality(Below(Params, p)) + 1 /\ Cardinality(Below(Params, p)) \in Nat
             /\ Cardinality(U(p)) <= Cardinality(Params)
  <2>1. Below(Params, p) \subseteq Params /\ p \notin Below(Params, p) /\ U(p) \subseteq Params
    BY <1>1 DEF Below
  <2>2. U(p) = Below(Params, p) \cup {p}
    <3>1. \A q \in Params : q <= p <=> (q < p \/ q = p)
      BY <1>1
    <3> QED BY <3>1 DEF Below
  <2>3. IsFiniteSet(Below(Params, p)) /\ Cardinality(Below(Params, p)) \in Nat
    BY <1>1, <2>1, FS_Subset, FS_CardinalityType
  <2>4. Cardinality(U(p)) = Cardinality(Below(Params, p)) + 1
    BY <2>1, <2>2, <2>3, FS_AddElement
  <2>5. Cardinality(U(p)) <= Cardinality(Params)
    BY <1>1, <2>1, FS_Subset
  <2> QED BY <2>3, <2>4, <2>5
<1>3. ModelBlock = [p \in Params |-> Cardinality(U(p))]
  BY DEF ModelBlock
<1> HIDE DEF U
<1>4. \A p \in Params : ModelBlock[p] = Cardinality(U(p)) /\ ModelBlock[p] \in Block
  BY <1>1, <1>2, <1>3 DEF Block
<1>5. ASSUME NEW p \in Params, NEW q \in Params, p < q PROVE ModelBlock[p] # ModelBlock[q]
  <2>1. Cardinality(Below(Params, p)) + 1 <= Cardinality(Below(Params, q))
    BY <1>1, <1>5, BelowNext
  <2>2. /\ ModelBlock[p] = Cardinality(Below(Params, p)) + 1 /\ Cardinality(Below(Params, p)) \in Nat
        /\ ModelBlock[q] = Cardinality(Below(Params, q)) + 1 /\ Cardinality(Below(Params, q)) \in Nat
    BY <1>2, <1>4
  <2> QED BY ONLY <2>1, <2>2
<1>6. ASSUME NEW p \in Params, NEW q \in Params, ModelBlock[p] = ModelBlock[q] PROVE p = q
  <2>1. ~ (p < q) /\ ~ (q < p)
    BY <1>5, <1>6
  <2> QED BY <1>1, <2>1
<1> QED BY <1>3, <1>4, <1>6

\* The program starts with them.
LEMMA DataInit ==
  ASSUME Init
  PROVE  DataTypes /\ Counters /\ Calls /\ Starting /\ AtUpdate
<1>1. StreamTypes
  <2>1. /\ transport \in {"flag", "copy", "host", "nccl"} /\ dpu = {} /\ agQ = <<>> /\ cuQ = <<>> /\ agPos = 0 /\ weights = 1
        /\ flag = [s \in Slot |-> 0] /\ gens = [s \in Slot |-> 0] /\ nextSlot = 0
        /\ held = {ModelBlock[p] : p \in Params}
        /\ mem = [b \in Block |-> [ps |-> {p \in Params : ModelBlock[p] = b}, ver |-> 0]]
        /\ odd = {}
    BY DEF Init, StreamsInit
  <2>2. held \subseteq Block /\ mem \in [Block -> Content] /\ 0 \in Slot
    BY <2>1, ModelBlocks, StreamsAssumption DEF Content, Slot
  <2>3. agQ \in Seq(AgOps) /\ cuQ \in Seq(CuOps)
    BY <2>1
  <2>4. flag \in [Slot -> Nat] /\ gens \in [Slot -> Nat]
    BY <2>1
  <2> QED BY <2>1, <2>2, <2>3, <2>4 DEF StreamTypes
<1>2. ParamTypes
  <2>1. /\ registry = [p \in Params |-> NoHandle] /\ data = ModelBlock /\ status = [p \in Params |-> "AVAILABLE"]
        /\ cpuFull = {} /\ pinned = [p \in Params |-> 0]
    BY DEF Init, StreamsInit, CoordinatorInit
  <2> QED BY <2>1, ModelBlocks, HandleFacts DEF ParamTypes
<1>3. Counters
  <2>1. nAvail = 0 /\ hook = [m \in Mods |-> NoHooks]
    BY DEF Init, CoordinatorInit
  <2>2. NoHooks \in HookType
    <3>1. <<>> \in Seq(Nat)
      OBVIOUS
    <3> QED BY <3>1 DEF NoHooks, HookType, None
  <2> QED BY <2>1, <2>2 DEF Counters
<1>4. Calls /\ Starting /\ AtUpdate
  <2>1. iter = 0 /\ agQ = <<>> /\ dpu = {}
    BY DEF Init, StreamsInit
  <2> QED BY <2>1 DEF Calls, Starting, AtUpdate
<1> QED BY <1>1, <1>2, <1>3, <1>4 DEF DataTypes

\* The invariant of the types of the data.
TypeInv == CtlInv /\ Calls /\ Starting /\ AtUpdate /\ DataTypes /\ Counters

\* It is an invariant of the specification.
THEOREM TypeInvariance == Spec => []TypeInv
<1>1. Init => TypeInv
  BY CtlInit, DataInit DEF TypeInv
<1>2. TypeInv /\ [Next]_vars => TypeInv'
  <2> SUFFICES ASSUME TypeInv, [Next]_vars PROVE TypeInv'
    OBVIOUS
  <2>1. CtlInv /\ Calls /\ Starting /\ AtUpdate /\ DataTypes /\ Counters
    BY DEF TypeInv
  <2>2. CtlInv' /\ Calls' /\ Starting' /\ AtUpdate' /\ Counters'
    BY <2>1, CtlStep, CallsStep, StartingStep, AtUpdateStep, CountersStep
  <2>3. DataTypes'
    BY <2>1, DataSteps, DataTypesStep
  <2> QED BY <2>2, <2>3 DEF TypeInv
<1> QED BY <1>1, <1>2, PTL DEF Spec

\* The variables have the types of the data structures they stand for.
THEOREM TypeCorrect == Spec => []TypeOK
<1>1. TypeInv => TypeOK
  <2> SUFFICES ASSUME TypeInv PROVE TypeOK
    OBVIOUS
  <2>1. /\ transport \in {"flag", "copy", "host", "nccl"} /\ dpu \subseteq Handle
        /\ flag \in [Slot -> Nat] /\ gens \in [Slot -> Nat] /\ nextSlot \in Slot
        /\ agPos \in Nat /\ weights \in Nat
        /\ held \subseteq Block /\ (\A b \in Block : mem[b] \in Content) /\ odd \subseteq {"reused", "early"}
    BY DEF TypeInv, DataTypes, StreamTypes
  <2>2. /\ tr.mode \in {"RECORD", "COMPLETE", "INVALID"} /\ tr.step_id \in Nat
        /\ \A i \in DOMAIN tr.submodule_order : tr.submodule_order[i] \in Mods
        /\ \A i \in DOMAIN tr.queue : tr.queue[i] \in Use
    <3>1. IsTrace(tr)
      BY DEF TypeInv, CtlInv
    <3>2. tr.submodule_order \in Seq(Mods) /\ tr.queue \in Seq(Use)
      BY <3>1 DEF IsTrace
    <3> QED BY <3>1, <3>2 DEF IsTrace
  <2>3. /\ nAvail \in Int
        /\ \A m \in Mods : hook[m].calls \in Nat /\ hook[m].refs \in Nat /\ hook[m].gradsLeft \in Int
    BY DEF TypeInv, Counters, HookType
  <2>4. /\ registry \in [Params -> Handle] /\ data \in [Params -> 0 .. NBlocks]
        /\ cpuFull \subseteq Params /\ \A p \in Params : pinned[p] \in Nat
    BY DEF TypeInv, DataTypes, ParamTypes
  <2>5. /\ status \in [Params -> {"NOT_AVAILABLE", "INFLIGHT", "AVAILABLE"}]
        /\ active \in [Params -> SUBSET Mods]
        /\ fetching \in Mods \cup {NoMod} /\ waiting \subseteq Params
    <3>1. LP!Inv /\ FetchUnderWay
      BY DEF TypeInv, CtlInv
    <3>2. \A m \in Mods : ParamsOf[m] \subseteq Params
      BY CoordinatorAssumption
    <3> QED BY <3>1, <3>2 DEF LP!Inv, LP!TypeOK, LP!NoMod, NoMod, FetchUnderWay
  <2>6. /\ \A i \in DOMAIN todo : todo[i].ev \in Kinds
        /\ iter \in 0 .. Len(schedule)
    <3>1. AtScript
      BY DEF TypeInv, CtlInv
    <3>2. \A e \in HostEvents : e.ev \in Kinds
      BY EventFields DEF HostEvents, Kinds
    <3> QED BY <3>1, <3>2 DEF AtScript
  <2> QED BY <2>1, <2>2, <2>3, <2>4, <2>5, <2>6 DEF TypeOK
<1> QED BY <1>1, TypeInvariance, PTL

Ag == 1 .. Len(agQ)
Cu == 1 .. Len(cuQ)

-----------------------------------------------------------------------------
(* Who has a block, whatever the order of the streams' accesses *)

\* A parameter, a gather that has not been waited for, or a free that the
\* compute stream has not come to.
HasData(b) == \E p \in Available : data[p] = b
Gathering(b) == \E p \in InFlight : registry[p].out = b
CuFrees(b) == \E i \in Cu : cuQ[i].op = "free" /\ cuQ[i].src = b

\* A block has one owner, and the allocator knows.
Held == \A b \in Block : HasData(b) \/ Gathering(b) \/ CuFrees(b) => b \in held

OneOwner ==
  \A b \in Block :
    /\ HasData(b) => ~ Gathering(b) /\ ~ CuFrees(b)
    /\ Gathering(b) => ~ CuFrees(b)

OneParam == \A p, q \in Available : data[p] = data[q] => p = q
OneHandle ==
  \A p, q \in InFlight : registry[p].out = registry[q].out /\ registry[p].out \in Block => registry[p] = registry[q]
OneFree == \A i, j \in Cu : cuQ[i].op = "free" /\ cuQ[j].op = "free" /\ cuQ[i].src = cuQ[j].src => i = j

Ownership == Held /\ OneOwner /\ OneParam /\ OneHandle /\ OneFree

\* A flag tells of the last gather of its slot that the DPU has executed.
Flags ==
  /\ \A s \in Slot : flag[s] <= gens[s]
  /\ \A h \in dpu : h.out \in Block /\ (h.gen # NoFlag => h.gen <= gens[h.slot] /\ flag[h.slot] # h.gen)
  /\ \A h, g \in dpu : h = g \/ h.gen = NoFlag \/ h.slot # g.slot \/ h.gen # g.gen
  /\ flagPool => \A p \in InFlight : FromHost(registry[p]) \/ registry[p].gen # NoFlag

\* A gather the host has not waited for is in flight; the others the allgather
\* stream waits for.
Awaited ==
  \A h \in dpu : \/ \E p \in InFlight : registry[p] = h
                 \/ \E j \in Ag : Awaits(agQ[j], h)
                 \/ iter = 0

\* What the compute stream reads is freed behind it, or not yet.
Reads ==
  \A k \in Cu : cuQ[k].op \in {"kernel", "save"} =>
    HasData(cuQ[k].src) \/ \E i \in Cu : k < i /\ cuQ[i].op = "free" /\ cuQ[i].src = cuQ[k].src

\* fetch_sub_module leaves the compute stream behind the allgather stream.
Joined ==
  fetching = NoMod /\ agQ # <<>> =>
    \E k \in Cu : cuQ[k].op = "wait_stream" /\ cuQ[k].n >= agPos + Len(agQ)

BlockInv == Ownership /\ Flags /\ Awaited /\ Reads /\ Joined

-----------------------------------------------------------------------------
(* Order of what is queued, as long as no access has been out of order *)

\* Who fills a block, reads it or writes to it behind the host.
Filling(b) == \E h \in dpu : h.out = b
AgReads(b) == \E i \in Ag : agQ[i].op = "cat" /\ agQ[i].src = b
Writes(o, b) == o.op \in {"cat", "load"} /\ o.dst = b
Written(b) == \E j \in Ag : Writes(agQ[j], b)

\* The buffer of a coalesced gather is dropped before the copies from it, and
\* nobody else is filling a block that is free.
Dropped ==
  \A b \in Block : (AgReads(b) => b \notin held) /\ (Filling(b) => b \in held \/ AgReads(b))

OneGather ==
  /\ \A h, g \in dpu : h.out = g.out => h = g
  /\ \A p \in InFlight : \A h \in dpu : h.out = registry[p].out => h = registry[p]

\* The allgather stream waits for a gather before it copies from its buffer.
Arrived ==
  \A i \in Ag : \A h \in dpu :
    agQ[i].op = "cat" /\ h.out = agQ[i].src => \E j \in Ag : j < i /\ Awaits(agQ[j], h)

\* The k-th operation of the compute stream runs after the j-th of the
\* allgather stream.
Synced(k, j) == \E i \in Cu : i < k /\ cuQ[i].op = "wait_stream" /\ cuQ[i].n >= agPos + j

\* A copy goes to a block of a parameter and of no gather or other copy.
Copies ==
  /\ \A b \in Block : Written(b) => ~ Filling(b) /\ (HasData(b) \/ CuFrees(b))
  /\ \A b \in Block : \A i, j \in Ag : Writes(agQ[i], b) /\ Writes(agQ[j], b) => i = j

\* The compute stream comes to a block when what is written to it has been.
Ordered ==
  /\ \A k \in Cu : \A j \in Ag :
       cuQ[k].op \in {"kernel", "save", "free"} /\ Writes(agQ[j], cuQ[k].src) => Synced(k, j)
  /\ \A k \in Cu : \A h \in dpu :
       cuQ[k].op \in {"kernel", "save", "free"} /\ h.out = cuQ[k].src =>
         \E j \in Ag : Awaits(agQ[j], h) /\ Synced(k, j)

Order == Dropped /\ OneGather /\ Arrived /\ Copies /\ Ordered

-----------------------------------------------------------------------------
(* What the blocks hold, or will *)

Brought(p, b) ==
  \/ \E h \in dpu : h.out = b /\ p \in h.ps
  \/ ~ Filling(b) /\ p \in mem[b].ps /\ mem[b].ver = weights
Holds(p, b) ==
  /\ \A j \in Ag : Writes(agQ[j], b) => agQ[j].p = p /\ (agQ[j].op = "cat" => Brought(p, agQ[j].src))
  /\ Written(b) \/ Brought(p, b)

\* A gather brings its parameters, an available parameter is in its block, and
\* a kernel finds its parameter.
Contents ==
  /\ \A p \in InFlight : FromHost(registry[p]) \/ Brought(p, registry[p].out)
  /\ \A p \in Available : iter = 0 \/ Holds(p, data[p])
  /\ \A k \in Cu : cuQ[k].op = "kernel" => cuQ[k].n = weights /\ Holds(cuQ[k].p, cuQ[k].src)

\* Full parameter transfer: the last copy queued to host memory is of this
\* iteration's parameter, and what has been copied too.
Saving(p) == \E k \in Cu : cuQ[k].op = "save" /\ cuQ[k].p = p
Saved ==
  /\ \A k \in Cu : cuQ[k].op = "save" /\ cuQ[k].p \in cpuFull =>
       \/ Holds(cuQ[k].p, cuQ[k].src)
       \/ \E i \in Cu : k < i /\ cuQ[i].op = "save" /\ cuQ[i].p = cuQ[k].p
  /\ \A p \in cpuFull : Saving(p) \/ pinned[p] = weights
  /\ \A j \in Ag : agQ[j].op = "load" => fetching # NoMod /\ agQ[j].p \in cpuFull

StreamInv == Order /\ Contents /\ Saved

\* The invariant of the streams and the blocks.
DataInv == BlockInv /\ (odd = {} => StreamInv)

-----------------------------------------------------------------------------
(* The places of the queues *)

\* The places of a queue behind which something is appended, ...
LEMMA AgAppend ==
  ASSUME DataTypes, NEW W \in Seq(AgOps), agQ' = agQ \o W
  PROVE  /\ \A i \in Ag : i \in Ag' /\ agQ'[i] = agQ[i]
         /\ \A i \in Ag' : \/ i \in Ag /\ agQ'[i] = agQ[i]
                           \/ /\ i - Len(agQ) \in 1 .. Len(W) /\ agQ'[i] = W[i - Len(agQ)]
                              /\ \A j \in Ag : j < i
         /\ \A i \in 1 .. Len(W) : Len(agQ) + i \in Ag' /\ agQ'[Len(agQ) + i] = W[i] /\ \A j \in Ag : j < Len(agQ) + i
         /\ Len(agQ) \in Nat /\ Len(W) \in Nat /\ Len(agQ') = Len(agQ) + Len(W)
<1>1. agQ \in Seq(AgOps)
  BY DEF DataTypes, StreamTypes
<1>2. /\ Len(agQ \o W) = Len(agQ) + Len(W) /\ Len(agQ) \in Nat /\ Len(W) \in Nat
      /\ \A i \in 1 .. Len(agQ) : i \in 1 .. Len(agQ \o W) /\ (agQ \o W)[i] = agQ[i]
      /\ \A i \in 1 .. Len(W) : Len(agQ) + i \in 1 .. Len(agQ \o W) /\ (agQ \o W)[Len(agQ) + i] = W[i]
      /\ \A i \in 1 .. Len(agQ \o W) :
           \/ i \in 1 .. Len(agQ)
           \/ i > Len(agQ) /\ i - Len(agQ) \in 1 .. Len(W) /\ (agQ \o W)[i] = W[i - Len(agQ)]
  BY <1>1, AppendFacts
<1> DEFINE X == agQ \o W
<1>3. Ag = 1 .. Len(agQ) /\ Ag' = 1 .. Len(X) /\ agQ' = X
  BY DEF Ag
<1> HIDE DEF X
<1>4. \A i \in 1 .. Len(W) : \A j \in Ag : j < Len(agQ) + i
  BY <1>2, <1>3
<1>5. \A i \in Ag' : i > Len(agQ) => \A j \in Ag : j < i
  BY <1>2, <1>3
<1> QED BY <1>2, <1>3, <1>4, <1>5 DEF X

\* (so for the compute stream)
LEMMA CuAppend ==
  ASSUME DataTypes, NEW K \in Seq(CuOps), cuQ' = cuQ \o K
  PROVE  /\ \A i \in Cu : i \in Cu' /\ cuQ'[i] = cuQ[i]
         /\ \A i \in Cu' : \/ i \in Cu /\ cuQ'[i] = cuQ[i]
                           \/ /\ i - Len(cuQ) \in 1 .. Len(K) /\ cuQ'[i] = K[i - Len(cuQ)]
                              /\ \A j \in Cu : j < i
         /\ \A i \in 1 .. Len(K) : Len(cuQ) + i \in Cu' /\ cuQ'[Len(cuQ) + i] = K[i] /\ \A j \in Cu : j < Len(cuQ) + i
         /\ Len(cuQ) \in Nat /\ Len(K) \in Nat
<1>1. cuQ \in Seq(CuOps)
  BY DEF DataTypes, StreamTypes
<1>2. /\ Len(cuQ \o K) = Len(cuQ) + Len(K) /\ Len(cuQ) \in Nat /\ Len(K) \in Nat
      /\ \A i \in 1 .. Len(cuQ) : i \in 1 .. Len(cuQ \o K) /\ (cuQ \o K)[i] = cuQ[i]
      /\ \A i \in 1 .. Len(K) : Len(cuQ) + i \in 1 .. Len(cuQ \o K) /\ (cuQ \o K)[Len(cuQ) + i] = K[i]
      /\ \A i \in 1 .. Len(cuQ \o K) :
           \/ i \in 1 .. Len(cuQ)
           \/ i > Len(cuQ) /\ i - Len(cuQ) \in 1 .. Len(K) /\ (cuQ \o K)[i] = K[i - Len(cuQ)]
  BY <1>1, AppendFacts
<1> DEFINE X == cuQ \o K
<1>3. Cu = 1 .. Len(cuQ) /\ Cu' = 1 .. Len(X) /\ cuQ' = X
  BY DEF Cu
<1> HIDE DEF X
<1>4. \A i \in 1 .. Len(K) : \A j \in Cu : j < Len(cuQ) + i
  BY <1>2, <1>3
<1>5. \A i \in Cu' : i > Len(cuQ) => \A j \in Cu : j < i
  BY <1>2, <1>3
<1> QED BY <1>2, <1>3, <1>4, <1>5 DEF X

\* ... and of one whose head is executed.
LEMMA AgPop ==
  ASSUME DataTypes, agQ # <<>>, agQ' = Tail(agQ)
  PROVE  /\ \A i \in Ag' : i \in Nat /\ i + 1 \in Ag /\ i + 1 # 1 /\ agQ'[i] = agQ[i + 1]
         /\ \A i \in Ag : i \in Nat /\ (i = 1 \/ (i - 1 \in Ag' /\ agQ'[i - 1] = agQ[i]))
         /\ 1 \in Ag /\ Head(agQ) = agQ[1] /\ agQ[1] \in AgOps
         /\ Len(agQ) \in Nat /\ Len(agQ') = Len(agQ) - 1 /\ agPos \in Nat
<1>1. agQ \in Seq(AgOps) /\ agPos \in Nat
  BY DEF DataTypes, StreamTypes
<1> DEFINE X == Tail(agQ)
<1>2. /\ Len(agQ) \in Nat /\ Len(X) = Len(agQ) - 1 /\ Len(X) \in Nat
      /\ Head(agQ) = agQ[1] /\ 1 \in 1 .. Len(agQ) /\ agQ[1] \in AgOps
      /\ \A i \in 1 .. Len(X) : i + 1 \in 1 .. Len(agQ) /\ X[i] = agQ[i + 1] /\ i + 1 # 1
      /\ \A i \in 1 .. Len(agQ) : i = 1 \/ (i - 1 \in 1 .. Len(X) /\ X[i - 1] = agQ[i])
  BY <1>1, TailFacts
<1>3. Ag = 1 .. Len(agQ) /\ Ag' = 1 .. Len(X) /\ agQ' = X
  BY DEF Ag
<1> HIDE DEF X
<1>4. ASSUME NEW i \in Ag' PROVE i \in Nat /\ i + 1 \in Ag /\ i + 1 # 1 /\ agQ'[i] = agQ[i + 1]
  <2>1. i \in 1 .. Len(X)
    BY <1>3
  <2> QED BY <1>2, <1>3, <2>1
<1>5. ASSUME NEW i \in Ag PROVE i \in Nat /\ (i = 1 \/ (i - 1 \in Ag' /\ agQ'[i - 1] = agQ[i]))
  <2>1. i \in 1 .. Len(agQ) /\ i \in Nat
    BY <1>2, <1>3
  <2>2. i = 1 \/ (i - 1 \in 1 .. Len(X) /\ X[i - 1] = agQ[i])
    BY <1>2, <2>1
  <2> QED BY ONLY <1>3, <2>1, <2>2
<1> QED BY <1>1, <1>2, <1>3, <1>4, <1>5

\* (so for the compute stream)
LEMMA CuPop ==
  ASSUME DataTypes, cuQ # <<>>, cuQ' = Tail(cuQ)
  PROVE  /\ \A i \in Cu' : i \in Nat /\ i + 1 \in Cu /\ i + 1 # 1 /\ cuQ'[i] = cuQ[i + 1]
         /\ \A i \in Cu : i \in Nat /\ (i = 1 \/ (i - 1 \in Cu' /\ cuQ'[i - 1] = cuQ[i]))
         /\ 1 \in Cu /\ Head(cuQ) = cuQ[1] /\ cuQ[1] \in CuOps
<1>1. cuQ \in Seq(CuOps)
  BY DEF DataTypes, StreamTypes
<1> DEFINE X == Tail(cuQ)
<1>2. /\ Len(cuQ) \in Nat /\ Len(X) = Len(cuQ) - 1 /\ Len(X) \in Nat
      /\ Head(cuQ) = cuQ[1] /\ 1 \in 1 .. Len(cuQ) /\ cuQ[1] \in CuOps
      /\ \A i \in 1 .. Len(X) : i + 1 \in 1 .. Len(cuQ) /\ X[i] = cuQ[i + 1] /\ i + 1 # 1
      /\ \A i \in 1 .. Len(cuQ) : i = 1 \/ (i - 1 \in 1 .. Len(X) /\ X[i - 1] = cuQ[i])
  BY <1>1, TailFacts
<1>3. Cu = 1 .. Len(cuQ) /\ Cu' = 1 .. Len(X) /\ cuQ' = X
  BY DEF Cu
<1> HIDE DEF X
<1>4. ASSUME NEW i \in Cu' PROVE i \in Nat /\ i + 1 \in Cu /\ i + 1 # 1 /\ cuQ'[i] = cuQ[i + 1]
  <2>1. i \in 1 .. Len(X)
    BY <1>3
  <2> QED BY <1>2, <1>3, <2>1
<1>5. ASSUME NEW i \in Cu PROVE i \in Nat /\ (i = 1 \/ (i - 1 \in Cu' /\ cuQ'[i - 1] = cuQ[i]))
  <2>1. i \in 1 .. Len(cuQ) /\ i \in Nat
    BY <1>2, <1>3
  <2>2. i = 1 \/ (i - 1 \in 1 .. Len(X) /\ X[i - 1] = cuQ[i])
    BY <1>2, <2>1
  <2> QED BY ONLY <1>3, <2>1, <2>2
<1> QED BY <1>1, <1>2, <1>3, <1>4, <1>5

\* The blocks of what is queued and of who has one.
LEMMA BlockFacts ==
  ASSUME CtlInv, DataTypes
  PROVE  /\ \A i \in Ag : agQ[i] \in AgOps
         /\ \A i \in Ag : agQ[i].op = "cat" => agQ[i].src \in Block
         /\ \A i \in Ag : agQ[i].op \in {"cat", "load"} => agQ[i].dst \in Block /\ agQ[i].p \in Params
         /\ \A i \in Cu : cuQ[i] \in CuOps
         /\ \A i \in Cu : cuQ[i].op \in {"kernel", "save", "free"} => cuQ[i].src \in Block
         /\ \A i \in Cu : cuQ[i].op \in {"kernel", "save"} => cuQ[i].p \in Params
         /\ \A p \in Available : p \in Params /\ data[p] \in Block
         /\ \A p \in InFlight : p \in Params /\ (FromHost(registry[p]) \/ registry[p].out \in Block)
         /\ \A b \in Block : b # NoBlock
<1>1. agQ \in Seq(AgOps) /\ cuQ \in Seq(CuOps)
  BY DEF DataTypes, StreamTypes
<1>2. (\A i \in Ag : agQ[i] \in AgOps) /\ (\A i \in Cu : cuQ[i] \in CuOps)
  BY <1>1 DEF Ag, Cu
<1>3. \A p \in Available : p \in Params /\ data[p] \in Block
  BY DEF DataTypes, ParamTypes, Available
<1>4. \A p \in InFlight : p \in Params /\ (FromHost(registry[p]) \/ registry[p].out \in Block)
  BY InFlightHandle
<1>5. \A b \in Block : b # NoBlock
  BY HandleFacts
<1> QED BY <1>2, <1>3, <1>4, <1>5, AgOpFacts, CuOpFacts

\* The blocks that are in use are held, ...
LEMMA InUse ==
  ASSUME CtlInv, DataTypes, BlockInv
  PROVE  /\ \A p \in Available : data[p] \in held
         /\ \A p \in InFlight : FromHost(registry[p]) \/ registry[p].out \in held
         /\ \A k \in Cu : cuQ[k].op \in {"kernel", "save", "free"} => cuQ[k].src \in held
<1>1. \A b \in Block : HasData(b) \/ Gathering(b) \/ CuFrees(b) => b \in held
  BY DEF BlockInv, Ownership, Held
<1>2. \A p \in Available : data[p] \in held
  BY <1>1, BlockFacts DEF HasData
<1>3. \A p \in InFlight : FromHost(registry[p]) \/ registry[p].out \in held
  BY <1>1, BlockFacts DEF Gathering
<1>4. ASSUME NEW k \in Cu, cuQ[k].op \in {"kernel", "save", "free"} PROVE cuQ[k].src \in held
  <2>1. cuQ[k].src \in Block
    BY <1>4, BlockFacts
  <2>2. HasData(cuQ[k].src) \/ CuFrees(cuQ[k].src)
    BY <1>4 DEF BlockInv, Reads, CuFrees
  <2> QED BY <1>1, <2>1, <2>2
<1> QED BY <1>2, <1>3, <1>4

\* ... and so are those a copy writes to, but not those it reads from.
LEMMA InQueue ==
  ASSUME CtlInv, DataTypes, BlockInv, Order
  PROVE  /\ \A i \in Ag : agQ[i].op = "cat" => agQ[i].src \in Block /\ AgReads(agQ[i].src) /\ agQ[i].src \notin held
         /\ \A i \in Ag : agQ[i].op \in {"cat", "load"} => agQ[i].dst \in held
         /\ \A h \in dpu : h.out \in Block /\ (h.out \in held \/ AgReads(h.out))
         /\ \A b \in Block : AgReads(b) => ~ HasData(b) /\ ~ Gathering(b) /\ ~ CuFrees(b) /\ ~ Written(b)
<1>1. \A b \in Block : HasData(b) \/ Gathering(b) \/ CuFrees(b) => b \in held
  BY DEF BlockInv, Ownership, Held
<1>2. \A b \in Block : AgReads(b) => b \notin held
  BY DEF Order, Dropped
<1>3. \A b \in Block : Written(b) => HasData(b) \/ CuFrees(b)
  BY DEF Order, Copies
<1>4. ASSUME NEW i \in Ag, agQ[i].op = "cat"
      PROVE  agQ[i].src \in Block /\ AgReads(agQ[i].src) /\ agQ[i].src \notin held
  <2>1. agQ[i].src \in Block /\ AgReads(agQ[i].src)
    BY <1>4, BlockFacts DEF AgReads
  <2> QED BY <1>2, <2>1
<1>5. ASSUME NEW i \in Ag, agQ[i].op \in {"cat", "load"} PROVE agQ[i].dst \in held
  <2>1. agQ[i].dst \in Block /\ Written(agQ[i].dst)
    BY <1>5, BlockFacts DEF Writes, Written
  <2> QED BY <1>1, <1>3, <2>1
<1>6. ASSUME NEW h \in dpu PROVE h.out \in Block /\ (h.out \in held \/ AgReads(h.out))
  <2>1. h.out \in Block /\ Filling(h.out)
    BY DEF BlockInv, Flags, Filling
  <2> QED BY <2>1 DEF Order, Dropped
<1> QED BY <1>1, <1>2, <1>3, <1>4, <1>5, <1>6

-----------------------------------------------------------------------------
(* Steps that leave the queues and the blocks alone *)

\* Only the version of the shards changes, when no parameter is gathered, or
\* the iteration, or what the registry says of parameters that are not in flight.
Still ==
  /\ UNCHANGED <<transport, dpu, flag, gens, agQ, agPos, cuQ, held, mem, pinned, odd, status, data, cpuFull, fetching>>
  /\ \A p \in InFlight : registry'[p] = registry[p]
  /\ weights' = weights \/ (Available = {} /\ InFlight = {} /\ KernelsDrained /\ cpuFull = {})
  /\ iter' = iter \/ (Available = {} /\ (iter = 0 => dpu = {}))

\* They keep the invariant.
LEMMA StillKeeps ==
  ASSUME CtlInv, DataTypes, DataInv, Still
  PROVE  DataInv'
<1>1. /\ UNCHANGED <<transport, dpu, flag, gens, agQ, agPos, cuQ, held, mem, pinned, odd, status, data, cpuFull, fetching>>
      /\ \A p \in InFlight : registry'[p] = registry[p]
      /\ Ag' = Ag /\ Cu' = Cu /\ InFlight' = InFlight /\ Available' = Available
  BY DEF Still, Ag, Cu, InFlight, Available
<1>2. \A b : /\ HasData(b)' = HasData(b) /\ Gathering(b)' = Gathering(b) /\ AgReads(b)' = AgReads(b)
             /\ CuFrees(b)' = CuFrees(b) /\ Filling(b)' = Filling(b) /\ Written(b)' = Written(b)
  BY <1>1 DEF HasData, Gathering, AgReads, CuFrees, Filling, Written
<1>3. \A k, j : Synced(k, j)' = Synced(k, j)
  BY <1>1 DEF Synced
<1>4. BlockInv'
  <2>1. Ownership'
    BY <1>1, <1>2 DEF DataInv, BlockInv, Ownership, Held, OneOwner, OneParam, OneHandle, OneFree
  <2>2. Flags'
    BY <1>1 DEF DataInv, BlockInv, Flags, flagPool
  <2>3. Awaited'
    <3>1. iter = 0 /\ iter' # 0 => dpu = {}
      BY DEF Still
    <3> QED BY <1>1, <3>1 DEF DataInv, BlockInv, Awaited
  <2>4. Reads' /\ Joined'
    BY <1>1, <1>2 DEF DataInv, BlockInv, Reads, Joined
  <2> QED BY <2>1, <2>2, <2>3, <2>4 DEF BlockInv
<1>5. ASSUME odd' = {} PROVE StreamInv'
  <2>1. Order /\ Contents /\ Saved
    BY <1>1, <1>5 DEF DataInv, StreamInv
  <2>2. Order'
    <3>1. Dropped' /\ OneGather' /\ Arrived'
      BY <1>1, <1>2, <2>1 DEF Order, Dropped, OneGather, Arrived
    <3>2. Copies'
      BY <1>1, <1>2, <2>1 DEF Order, Copies
    <3>3. Ordered'
      BY <1>1, <1>3, <2>1 DEF Order, Ordered
    <3> QED BY <3>1, <3>2, <3>3 DEF Order
  <2>3. Contents' /\ Saved'
    <3>1. CASE weights' = weights
      <4>1. \A p, b : Brought(p, b)' = Brought(p, b)
        BY <1>1, <1>2, <3>1 DEF Brought
      <4>2. \A p, b : Holds(p, b)' = Holds(p, b)
        BY <1>1, <1>2, <4>1 DEF Holds
      <4>3. iter' = iter \/ Available = {}
        BY DEF Still
      <4>4. Contents'
        BY <1>1, <2>1, <3>1, <4>1, <4>2, <4>3 DEF Contents
      <4>5. Saved'
        BY <1>1, <2>1, <3>1, <4>2 DEF Saved, Saving
      <4> QED BY <4>4, <4>5
    <3>2. CASE Available = {} /\ InFlight = {} /\ KernelsDrained /\ cpuFull = {}
      <4>1. \A k \in Cu : cuQ[k].op # "kernel"
        <5>1. cuQ \in Seq(CuOps)
          BY DEF DataTypes, StreamTypes
        <5> QED BY <3>2, <5>1 DEF KernelsDrained, Cu
      <4>2. Contents'
        BY <1>1, <2>1, <3>2, <4>1 DEF Contents
      <4>3. Saved'
        BY <1>1, <2>1, <3>2 DEF Saved, Saving
      <4> QED BY <4>2, <4>3
    <3> QED BY <3>1, <3>2 DEF Still
  <2> QED BY <2>2, <2>3 DEF StreamInv
<1> QED BY <1>4, <1>5 DEF DataInv

-----------------------------------------------------------------------------
(* What the host queues on the compute stream *)

\* What is ordered stays so when something is queued behind it.
LEMMA SyncedKept ==
  ASSUME CtlInv, DataTypes, NEW K \in Seq(CuOps), cuQ' = cuQ \o K, agPos' = agPos
  PROVE  \A k \in Cu : \A j : Synced(k, j) => Synced(k, j)'
BY CuAppend DEF Synced

\* Computations, copies to host memory and frees of parameters.
LEMMA LaunchKeeps ==
  ASSUME CtlInv, DataTypes, Starting, DataInv, NEW R, NEW K, Launch(R, K)
  PROVE  DataInv'
<1> DEFINE Gone(b) == \E p \in R : data[p] = b
<1>1. /\ R \subseteq Available /\ K \in Seq(CuOps) /\ cuQ' = cuQ \o K
      /\ status' = [p \in Params |-> IF p \in R THEN "NOT_AVAILABLE" ELSE status[p]]
      /\ data' = [p \in Params |-> IF p \in R THEN NoBlock ELSE data[p]]
      /\ fetching = NoMod /\ fetching' = NoMod /\ iter' = iter
      /\ UNCHANGED <<transport, dpu, flag, gens, nextSlot, agQ, agPos, held, mem, weights, pinned, odd, registry>>
  BY DEF Launch, DeviceKept
<1>2. /\ \A i \in 1 .. Len(K) : K[i].op \in {"kernel", "save", "free"}
      /\ \A i \in 1 .. Len(K) : K[i].op # "free" => iter > 0 /\ K[i].p \in Available /\ K[i].src = data[K[i].p]
      /\ \A i \in 1 .. Len(K) : K[i].op = "free" => Gone(K[i].src)
      /\ \A i \in 1 .. Len(K) : K[i].op = "kernel" => K[i].n = weights
      /\ \A p \in R : \E i \in 1 .. Len(K) :
           K[i].op = "free" /\ K[i].src = data[p] /\ \A j \in 1 .. Len(K) : K[j].op # "free" => j < i
      /\ \A i, j \in 1 .. Len(K) : K[i].op = "free" /\ K[j].op = "free" /\ K[i].src = K[j].src => i = j
      /\ \A p \in cpuFull' : p \in cpuFull \/ \E i \in 1 .. Len(K) : K[i].op = "save" /\ K[i].p = p
      /\ iter = 0 => dpu = {}
  <2>1. \A i \in 1 .. Len(K) :
          /\ K[i].op \in {"kernel", "save", "free"}
          /\ K[i].op # "free" => iter > 0 /\ K[i].p \in Available /\ K[i].src = data[K[i].p]
          /\ K[i].op = "free" => \E p \in R : K[i].src = data[p]
          /\ K[i].op = "kernel" => K[i].n = weights
    BY DEF Launch
  <2>2. /\ \A p \in R : \E i \in 1 .. Len(K) :
             K[i].op = "free" /\ K[i].src = data[p] /\ \A j \in 1 .. Len(K) : K[j].op # "free" => j < i
        /\ \A i, j \in 1 .. Len(K) : K[i].op = "free" /\ K[j].op = "free" /\ K[i].src = K[j].src => i = j
        /\ \A p \in cpuFull' : p \in cpuFull \/ \E i \in 1 .. Len(K) : K[i].op = "save" /\ K[i].p = p
    BY DEF Launch
  <2>3. iter = 0 => dpu = {}
    BY DEF Launch, Starting
  <2>4. /\ \A i \in 1 .. Len(K) : K[i].op \in {"kernel", "save", "free"}
        /\ \A i \in 1 .. Len(K) : K[i].op # "free" => iter > 0 /\ K[i].p \in Available /\ K[i].src = data[K[i].p]
        /\ \A i \in 1 .. Len(K) : K[i].op = "kernel" => K[i].n = weights
    BY ONLY <2>1, Zenon
  <2>5. \A i \in 1 .. Len(K) : K[i].op = "free" => Gone(K[i].src)
    BY ONLY <2>1
  <2> HIDE DEF Gone
  <2> QED BY ONLY <2>2, <2>3, <2>4, <2>5
<1>3. /\ \A i \in Cu : i \in Cu' /\ cuQ'[i] = cuQ[i]
      /\ \A i \in Cu' : \/ i \in Cu /\ cuQ'[i] = cuQ[i]
                        \/ /\ i - Len(cuQ) \in 1 .. Len(K) /\ cuQ'[i] = K[i - Len(cuQ)]
                           /\ \A j \in Cu : j < i
      /\ \A i \in 1 .. Len(K) : Len(cuQ) + i \in Cu' /\ cuQ'[Len(cuQ) + i] = K[i] /\ \A j \in Cu : j < Len(cuQ) + i
      /\ Len(cuQ) \in Nat /\ Len(K) \in Nat
  BY <1>1, CuAppend
<1>4. /\ InFlight' = InFlight /\ Available' = Available \ R /\ Ag' = Ag
      /\ \A p \in Available' : p \in Available /\ p \notin R /\ data'[p] = data[p]
      /\ \A p \in Available : p \in R \/ (p \in Available' /\ data'[p] = data[p])
  BY <1>1 DEF InFlight, Available, Ag
<1>5. \A b : Gone(b) => HasData(b)
  BY <1>1 DEF HasData
<1>6. \A b : HasData(b)' <=> HasData(b) /\ ~ Gone(b)
  <2>1. OneParam
    BY DEF DataInv, BlockInv, Ownership
  <2> QED BY <1>1, <1>4, <2>1 DEF HasData, OneParam
<1>7. ASSUME NEW b PROVE CuFrees(b)' <=> CuFrees(b) \/ Gone(b)
  <2>1. CuFrees(b)' => CuFrees(b) \/ Gone(b)
    <3> SUFFICES ASSUME NEW i \in Cu', cuQ'[i].op = "free", cuQ'[i].src = b PROVE CuFrees(b) \/ Gone(b)
      BY DEF CuFrees
    <3>1. CASE i \in Cu
      BY <1>3, <3>1 DEF CuFrees
    <3>2. CASE i \notin Cu
      <4>1. i - Len(cuQ) \in 1 .. Len(K) /\ K[i - Len(cuQ)] = cuQ'[i]
        BY <1>3, <3>2
      <4> HIDE DEF Gone
      <4>2. Gone(K[i - Len(cuQ)].src)
        BY <1>2, <4>1
      <4> QED BY <4>1, <4>2
    <3> QED BY <3>1, <3>2
  <2>2. CuFrees(b) => CuFrees(b)'
    BY <1>3 DEF CuFrees
  <2>3. Gone(b) => CuFrees(b)'
    <3> SUFFICES ASSUME NEW p \in R, data[p] = b PROVE CuFrees(b)'
      OBVIOUS
    <3>1. PICK i \in 1 .. Len(K) : K[i].op = "free" /\ K[i].src = data[p]
      BY <1>2
    <3> QED BY <1>3, <3>1 DEF CuFrees
  <2> QED BY <2>1, <2>2, <2>3
<1>8. \A b : /\ Gathering(b)' = Gathering(b) /\ AgReads(b)' = AgReads(b)
             /\ Filling(b)' = Filling(b) /\ Written(b)' = Written(b)
  BY <1>1, <1>4 DEF Gathering, AgReads, Filling, Written
<1> HIDE DEF Gone
<1>9. Held /\ OneOwner /\ OneParam /\ OneHandle /\ OneFree
  BY DEF DataInv, BlockInv, Ownership
<1>10. ASSUME NEW i \in Cu', i \notin Cu
       PROVE  /\ cuQ'[i].op \in {"kernel", "save", "free"} /\ HasData(cuQ'[i].src) /\ cuQ'[i].src \in Block
              /\ cuQ'[i].op # "free" => iter > 0 /\ cuQ'[i].p \in Available /\ cuQ'[i].src = data[cuQ'[i].p]
              /\ cuQ'[i].op = "kernel" => cuQ'[i].n = weights
  <2>1. i - Len(cuQ) \in 1 .. Len(K) /\ cuQ'[i] = K[i - Len(cuQ)]
    BY <1>3, <1>10
  <2>2. /\ cuQ'[i].op \in {"kernel", "save", "free"}
        /\ cuQ'[i].op # "free" => iter > 0 /\ cuQ'[i].p \in Available /\ cuQ'[i].src = data[cuQ'[i].p]
        /\ cuQ'[i].op = "kernel" => cuQ'[i].n = weights
        /\ cuQ'[i].op = "free" => Gone(cuQ'[i].src)
    BY <1>2, <2>1
  <2>3. HasData(cuQ'[i].src)
    BY <1>5, <2>2 DEF HasData
  <2>4. cuQ'[i].src \in Block
    BY <2>3, BlockFacts DEF HasData
  <2> QED BY <2>2, <2>3, <2>4
<1>11. Ownership'
  <2>1. Held'
    BY <1>1, <1>5, <1>6, <1>7, <1>8, <1>9 DEF Held
  <2>2. OneOwner'
    BY <1>5, <1>6, <1>7, <1>8, <1>9 DEF OneOwner
  <2>3. OneParam'
    BY <1>4, <1>9 DEF OneParam
  <2>4. OneHandle'
    BY <1>1, <1>4, <1>9 DEF OneHandle
  <2>5. ASSUME NEW i \in Cu', NEW j \in Cu', cuQ'[i].op = "free", cuQ'[j].op = "free", cuQ'[i].src = cuQ'[j].src
        PROVE  i = j
    <3>1. CASE i \in Cu /\ j \in Cu
      BY <1>3, <1>9, <2>5, <3>1 DEF OneFree
    <3>2. \A k \in Cu' : k \in Cu /\ cuQ'[k].op = "free" => CuFrees(cuQ'[k].src) /\ cuQ'[k].src \in Block
      BY <1>3, BlockFacts DEF CuFrees
    <3>3. \A k \in Cu' : k \notin Cu => HasData(cuQ'[k].src) /\ cuQ'[k].src \in Block
      BY <1>10
    <3>4. ~ (i \in Cu /\ j \notin Cu) /\ ~ (i \notin Cu /\ j \in Cu)
      BY <1>9, <2>5, <3>2, <3>3 DEF OneOwner
    <3>5. CASE i \notin Cu /\ j \notin Cu
      <4>1. /\ i - Len(cuQ) \in 1 .. Len(K) /\ cuQ'[i] = K[i - Len(cuQ)]
            /\ j - Len(cuQ) \in 1 .. Len(K) /\ cuQ'[j] = K[j - Len(cuQ)]
        BY <1>3, <3>5
      <4>2. i - Len(cuQ) = j - Len(cuQ)
        BY <1>2, <2>5, <4>1
      <4>3. i \in Nat /\ j \in Nat
        BY DEF Cu
      <4> QED BY <1>3, <4>2, <4>3
    <3> QED BY <3>1, <3>4, <3>5
  <2> QED BY <2>1, <2>2, <2>3, <2>4, <2>5 DEF Ownership, OneFree
<1>12. Flags' /\ Awaited'
  <2>1. Flags'
    BY <1>1, <1>4 DEF DataInv, BlockInv, Flags, flagPool
  <2>2. Awaited'
    BY <1>1, <1>4 DEF DataInv, BlockInv, Awaited
  <2> QED BY <2>1, <2>2
<1>13. \A b : Gone(b) => \E i \in 1 .. Len(K) :
          K[i].op = "free" /\ K[i].src = b /\ \A j \in 1 .. Len(K) : K[j].op # "free" => j < i
  BY <1>2 DEF Gone
<1>14. \A b : HasData(b) => HasData(b)' \/ Gone(b)
  BY <1>6
<1>15. ASSUME NEW k \in Cu', k \notin Cu, NEW j \in Ag
       PROVE  Synced(k, j)'
  <2>1. agQ # <<>> /\ agPos \in Nat /\ Len(agQ) \in Nat /\ j \in Nat /\ j <= Len(agQ)
    BY DEF Ag, DataTypes, StreamTypes
  <2>2. PICK i \in Cu : cuQ[i].op = "wait_stream" /\ cuQ[i].n >= agPos + Len(agQ)
    BY <1>1, <2>1 DEF DataInv, BlockInv, Joined
  <2>3. cuQ[i].n \in Nat
    <3>1. cuQ[i] \in CuOps
      BY BlockFacts
    <3> QED BY <2>2, <3>1, CuOpFacts
  <2>4. cuQ[i].n >= agPos + j
    BY ONLY <2>1, <2>2, <2>3
  <2>5. i \in Cu' /\ cuQ'[i] = cuQ[i] /\ i < k
    BY <1>3, <1>15
  <2>6. agPos' = agPos
    BY <1>1
  <2> QED BY <2>2, <2>4, <2>5, <2>6 DEF Synced
<1>16. \A k \in Cu : \A j : Synced(k, j) => Synced(k, j)'
  BY <1>1, SyncedKept
<1>17. BlockInv'
  <2>1. Reads'
    <3> SUFFICES ASSUME NEW k \in Cu', cuQ'[k].op \in {"kernel", "save"}
                 PROVE  HasData(cuQ[k].src)' \/ \E i \in Cu' : k < i /\ cuQ'[i].op = "free" /\ cuQ'[i].src = cuQ'[k].src
      BY DEF Reads
    <3>1. CASE k \in Cu
      <4>1. cuQ'[k] = cuQ[k]
        BY <1>3, <3>1
      <4>2. HasData(cuQ[k].src) \/ \E i \in Cu : k < i /\ cuQ[i].op = "free" /\ cuQ[i].src = cuQ[k].src
        BY <3>1, <4>1 DEF DataInv, BlockInv, Reads
      <4>3. CASE Gone(cuQ[k].src)
        <5>1. PICK i \in 1 .. Len(K) : K[i].op = "free" /\ K[i].src = cuQ[k].src
          BY <1>13, <4>3
        <5>2. Len(cuQ) + i \in Cu' /\ cuQ'[Len(cuQ) + i] = K[i] /\ k < Len(cuQ) + i
          BY <1>3, <3>1
        <5>3. cuQ'[Len(cuQ) + i].op = "free" /\ cuQ'[Len(cuQ) + i].src = cuQ'[k].src
          BY <4>1, <5>1, <5>2
        <5> QED BY <5>2, <5>3
      <4> QED BY <1>3, <1>14, <4>1, <4>2, <4>3
    <3>2. CASE k \notin Cu
      <4>1. HasData(cuQ'[k].src)
        BY <1>10, <3>2
      <4>2. k - Len(cuQ) \in 1 .. Len(K) /\ cuQ'[k] = K[k - Len(cuQ)]
        BY <1>3, <3>2
      <4>3. CASE Gone(cuQ'[k].src)
        <5>1. PICK i \in 1 .. Len(K) : K[i].op = "free" /\ K[i].src = cuQ'[k].src /\ k - Len(cuQ) < i
          BY <1>13, <4>2, <4>3
        <5>2. k \in Nat
          BY DEF Cu
        <5>3. k < Len(cuQ) + i
          BY <1>3, <5>1, <5>2
        <5> QED BY <1>3, <5>1, <5>3
      <4> QED BY <1>14, <4>1, <4>3
    <3> QED BY <3>1, <3>2
  <2>2. Joined'
    <3> SUFFICES ASSUME agQ # <<>> PROVE \E k \in Cu' : cuQ'[k].op = "wait_stream" /\ cuQ'[k].n >= agPos + Len(agQ)
      BY <1>1 DEF Joined
    <3>1. PICK k \in Cu : cuQ[k].op = "wait_stream" /\ cuQ[k].n >= agPos + Len(agQ)
      BY <1>1 DEF DataInv, BlockInv, Joined
    <3> QED BY <1>3, <3>1
  <2> QED BY <1>11, <1>12, <2>1, <2>2 DEF BlockInv
<1>18. \A p, b : Brought(p, b)' = Brought(p, b)
  BY <1>1, <1>8 DEF Brought
<1>19. \A p, b : Holds(p, b)' = Holds(p, b)
  BY <1>1, <1>4, <1>8, <1>18 DEF Holds
<1>20. ASSUME odd' = {} PROVE StreamInv'
  <2>1. Order /\ Contents /\ Saved
    BY <1>1, <1>20 DEF DataInv, StreamInv
  <2>2. Dropped' /\ OneGather' /\ Arrived'
    BY <1>1, <1>4, <1>8, <2>1 DEF Order, Dropped, OneGather, Arrived
  <2>3. Copies'
    <3>1. \A b \in Block : Written(b)' => ~ Filling(b)' /\ (HasData(b)' \/ CuFrees(b)')
      BY <1>7, <1>8, <1>14, <2>1 DEF Order, Copies
    <3>2. \A b \in Block : \A i, j \in Ag' : Writes(agQ'[i], b) /\ Writes(agQ'[j], b) => i = j
      BY <1>1, <1>4, <2>1 DEF Order, Copies
    <3> QED BY <3>1, <3>2 DEF Copies, Writes
  <2>4. Ordered'
    <3>1. ASSUME NEW k \in Cu', NEW j \in Ag', cuQ'[k].op \in {"kernel", "save", "free"}, Writes(agQ'[j], cuQ'[k].src)
          PROVE  Synced(k, j)'
      <4>1. CASE k \in Cu
        <5>1. cuQ'[k] = cuQ[k] /\ agQ'[j] = agQ[j] /\ j \in Ag
          BY <1>1, <1>3, <1>4, <4>1
        <5>2. Synced(k, j)
          BY <3>1, <4>1, <5>1, <2>1 DEF Order, Ordered
        <5> QED BY <1>16, <4>1, <5>2
      <4> QED BY <1>4, <1>15, <4>1
    <3>2. ASSUME NEW k \in Cu', NEW h \in dpu', cuQ'[k].op \in {"kernel", "save", "free"}, h.out = cuQ'[k].src
          PROVE  \E j \in Ag' : Awaits(agQ'[j], h) /\ Synced(k, j)'
      <4>1. CASE k \in Cu
        <5>1. cuQ'[k] = cuQ[k] /\ h \in dpu
          BY <1>1, <1>3, <4>1
        <5>2. PICK j \in Ag : Awaits(agQ[j], h) /\ Synced(k, j)
          BY <3>2, <4>1, <5>1, <2>1 DEF Order, Ordered
        <5> QED BY <1>1, <1>4, <1>16, <4>1, <5>2
      <4>2. CASE k \notin Cu
        <5>1. HasData(cuQ'[k].src) /\ cuQ'[k].src \in Block /\ h \in dpu
          BY <1>1, <1>10, <4>2
        <5>2. ~ \E p \in InFlight : registry[p] = h
          BY <1>9, <3>2, <5>1 DEF OneOwner, Gathering
        <5>3. iter # 0
          BY <1>2, <5>1
        <5>4. PICK j \in Ag : Awaits(agQ[j], h)
          BY <5>1, <5>2, <5>3 DEF DataInv, BlockInv, Awaited
        <5> QED BY <1>1, <1>4, <1>15, <4>2, <5>4
      <4> QED BY <4>1, <4>2
    <3>3. \A k \in Cu' : \A j \in Ag' :
              cuQ'[k].op \in {"kernel", "save", "free"} /\ Writes(agQ'[j], cuQ'[k].src) => Synced(k, j)'
      BY <3>1
    <3>4. \A k \in Cu' : \A h \in dpu' :
              cuQ'[k].op \in {"kernel", "save", "free"} /\ h.out = cuQ'[k].src => \E j \in Ag' : Awaits(agQ'[j], h) /\ Synced(k, j)'
      BY <3>2
    <3> QED BY <3>3, <3>4 DEF Ordered, Writes, Awaits
  <2>5. ASSUME NEW k \in Cu', k \notin Cu, cuQ'[k].op # "free"
         PROVE  Holds(cuQ[k].p, cuQ[k].src)'
    <3>1. iter > 0 /\ cuQ'[k].p \in Available /\ cuQ'[k].src = data[cuQ'[k].p]
      BY <1>10, <2>5
    <3>2. Holds(cuQ'[k].p, cuQ'[k].src)
      BY <3>1, <2>1 DEF Contents
    <3> QED BY <1>19, <3>2
  <2>6. Contents'
    <3>1. \A p \in InFlight' : FromHost(registry'[p]) \/ Brought(p, registry[p].out)'
      BY <1>1, <1>4, <1>18, <2>1 DEF Contents
    <3>2. \A p \in Available' : iter' = 0 \/ Holds(p, data[p])'
      BY <1>1, <1>4, <1>19, <2>1 DEF Contents
    <3>3. ASSUME NEW k \in Cu', cuQ'[k].op = "kernel" PROVE cuQ'[k].n = weights' /\ Holds(cuQ[k].p, cuQ[k].src)'
      <4>1. CASE k \in Cu
        <5>1. cuQ'[k] = cuQ[k]
          BY <1>3, <4>1
        <5> QED BY <1>1, <1>19, <3>3, <4>1, <5>1, <2>1 DEF Contents
      <4>2. CASE k \notin Cu
        BY <1>1, <1>10, <2>5, <3>3, <4>2
      <4> QED BY <4>1, <4>2
    <3> QED BY <3>1, <3>2, <3>3 DEF Contents, FromHost
  <2>7. Saved'
    <3>1. \A p \in cpuFull' : p \notin cpuFull =>
            \E i \in Cu' : cuQ'[i].op = "save" /\ cuQ'[i].p = p /\ \A j \in Cu : j < i
      <4> SUFFICES ASSUME NEW p \in cpuFull', p \notin cpuFull
                   PROVE  \E i \in Cu' : cuQ'[i].op = "save" /\ cuQ'[i].p = p /\ \A j \in Cu : j < i
        OBVIOUS
      <4>1. PICK i \in 1 .. Len(K) : K[i].op = "save" /\ K[i].p = p
        BY <1>2
      <4> QED BY <1>3, <4>1
    <3>2. ASSUME NEW k \in Cu', cuQ'[k].op = "save", cuQ'[k].p \in cpuFull'
          PROVE  \/ Holds(cuQ[k].p, cuQ[k].src)'
                 \/ \E i \in Cu' : k < i /\ cuQ'[i].op = "save" /\ cuQ'[i].p = cuQ'[k].p
      <4>1. CASE k \in Cu
        <5>1. cuQ'[k] = cuQ[k]
          BY <1>3, <4>1
        <5>2. CASE cuQ[k].p \in cpuFull
          <6>1. \/ Holds(cuQ[k].p, cuQ[k].src)
                \/ \E i \in Cu : k < i /\ cuQ[i].op = "save" /\ cuQ[i].p = cuQ[k].p
            BY <3>2, <4>1, <5>1, <5>2, <2>1 DEF Saved
          <6> QED BY <1>3, <1>19, <5>1, <6>1
        <5>3. CASE cuQ[k].p \notin cpuFull
          BY <3>1, <3>2, <4>1, <5>1, <5>3
        <5> QED BY <5>2, <5>3
      <4>2. CASE k \notin Cu
        BY <2>5, <3>2, <4>2
      <4> QED BY <4>1, <4>2
    <3>3. \A p \in cpuFull' : Saving(p)' \/ pinned'[p] = weights'
      <4> SUFFICES ASSUME NEW p \in cpuFull' PROVE Saving(p)' \/ pinned'[p] = weights'
        OBVIOUS
      <4>1. CASE p \in cpuFull
        <5>1. Saving(p) \/ pinned[p] = weights
          BY <4>1, <2>1 DEF Saved
        <5> QED BY <1>1, <1>3, <5>1 DEF Saving
      <4>2. CASE p \notin cpuFull
        BY <3>1, <4>2 DEF Saving
      <4> QED BY <4>1, <4>2
    <3>4. \A j \in Ag' : agQ'[j].op # "load"
      BY <1>1, <1>4, <2>1 DEF Saved
    <3> QED BY <3>2, <3>3, <3>4 DEF Saved
  <2>8. Order'
    BY <2>2, <2>3, <2>4 DEF Order
  <2> QED BY <2>6, <2>7, <2>8 DEF StreamInv
<1> QED BY <1>17, <1>20 DEF DataInv

-----------------------------------------------------------------------------
(* Gathers *)

\* The gathers of N, one at most, are handed over, each to a block that was
\* free; the compute stream is left behind the allgather stream, or alone.
More(N, K) ==
  /\ UNCHANGED <<transport, flag, agQ, agPos, mem, weights, pinned, cpuFull, iter>>
  /\ K \in Seq(CuOps) /\ cuQ' = cuQ \o K /\ \A i \in 1 .. Len(K) : K[i].op = "wait_stream"
  /\ fetching' = NoMod /\ agQ # <<>> => \E k \in Cu' : cuQ'[k].op = "wait_stream" /\ cuQ'[k].n >= agPos + Len(agQ)
  /\ \A j \in Ag : agQ[j].op = "load" => fetching' # NoMod
  /\ dpu' = dpu \cup N /\ held' = held \cup {h.out : h \in N}
  /\ \A h, g \in N : h = g
  /\ \A h \in N : h.out \in Block \ held /\ h.slot \in Slot /\ h.gen \in Nat
  /\ odd \subseteq odd' /\ (odd' = {} => \A h \in N : Unread(h.out))
  /\ \A h \in N : h.gen # NoFlag => h.gen = gens[h.slot] + 1 /\ gens'[h.slot] = h.gen
  /\ \A s \in Slot : gens'[s] \in Nat /\ gens'[s] >= gens[s]
  /\ \A p \in InFlight : p \in InFlight' /\ registry'[p] = registry[p]
  /\ \A p \in InFlight' : \/ p \in InFlight
                          \/ FromHost(registry'[p])
                          \/ registry'[p] \in N /\ p \in registry'[p].ps /\ (flagPool => registry'[p].gen # NoFlag)
  /\ \A p \in Available : p \in Available' /\ data'[p] = data[p]
  /\ \A p \in Available' : p \in Available \/ (iter = 0 /\ \E h \in N : data'[p] = h.out)
  /\ \A p, q \in Available' : p \in Available \/ q \in Available \/ p = q
  /\ InFlight' = InFlight \/ Available' = Available
  /\ \A h \in N : iter = 0 \/ \E p \in InFlight' : registry'[p] = h

\* That keeps the invariant, for nobody had the block.
LEMMA MoreKeeps ==
  ASSUME CtlInv, DataTypes, DataInv, NEW N, NEW K, More(N, K)
  PROVE  DataInv'
<1> DEFINE New(b) == \E h \in N : h.out = b
<1>1. /\ UNCHANGED <<transport, flag, agQ, agPos, mem, weights, pinned, cpuFull, iter>>
      /\ K \in Seq(CuOps) /\ cuQ' = cuQ \o K /\ \A i \in 1 .. Len(K) : K[i].op = "wait_stream"
      /\ fetching' = NoMod /\ agQ # <<>> => \E k \in Cu' : cuQ'[k].op = "wait_stream" /\ cuQ'[k].n >= agPos + Len(agQ)
      /\ \A j \in Ag : agQ[j].op = "load" => fetching' # NoMod
  BY DEF More
<1>2. /\ dpu' = dpu \cup N /\ held' = held \cup {h.out : h \in N}
      /\ \A h, g \in N : h = g
      /\ \A h \in N : h.out \in Block \ held /\ h.slot \in Slot /\ h.gen \in Nat
      /\ \A h \in N : h.gen # NoFlag => h.gen = gens[h.slot] + 1 /\ gens'[h.slot] = h.gen
      /\ \A s \in Slot : gens'[s] \in Nat /\ gens'[s] >= gens[s]
      /\ \A h \in N : iter = 0 \/ \E p \in InFlight' : registry'[p] = h
  BY DEF More
<1>3. /\ \A p \in InFlight : p \in InFlight' /\ registry'[p] = registry[p]
      /\ \A p \in InFlight' : \/ p \in InFlight
                              \/ FromHost(registry'[p])
                              \/ registry'[p] \in N /\ p \in registry'[p].ps /\ (flagPool => registry'[p].gen # NoFlag)
      /\ \A p \in Available : p \in Available' /\ data'[p] = data[p]
      /\ \A p \in Available' : p \in Available \/ (iter = 0 /\ \E h \in N : data'[p] = h.out)
      /\ \A p, q \in Available' : p \in Available \/ q \in Available \/ p = q
      /\ InFlight' = InFlight \/ Available' = Available
  BY DEF More
<1>4. /\ Ag' = Ag
      /\ \A i \in Cu : i \in Cu' /\ cuQ'[i] = cuQ[i]
      /\ \A i \in Cu' : \/ i \in Cu /\ cuQ'[i] = cuQ[i]
                        \/ cuQ'[i].op = "wait_stream"
  <2>1. Ag' = Ag
    BY <1>1 DEF Ag
  <2>2. /\ \A i \in Cu : i \in Cu' /\ cuQ'[i] = cuQ[i]
        /\ \A i \in Cu' : \/ i \in Cu /\ cuQ'[i] = cuQ[i]
                          \/ i - Len(cuQ) \in 1 .. Len(K) /\ cuQ'[i] = K[i - Len(cuQ)]
    BY <1>1, CuAppend
  <2>3. \A i \in 1 .. Len(K) : K[i].op = "wait_stream"
    BY <1>1
  <2> QED BY ONLY <2>1, <2>2, <2>3
<1>5. /\ \A p \in Available : data[p] \in held
      /\ \A p \in InFlight : FromHost(registry[p]) \/ registry[p].out \in held
      /\ \A k \in Cu : cuQ[k].op \in {"kernel", "save", "free"} => cuQ[k].src \in held
  BY InUse DEF DataInv
<1>6. Held /\ OneOwner /\ OneParam /\ OneHandle /\ OneFree /\ Flags /\ Awaited /\ Reads
  BY DEF DataInv, BlockInv, Ownership
<1>7. \A b : New(b) => b \notin held /\ b \in Block
  BY <1>2
<1>8. \A b : /\ HasData(b) => HasData(b)'
             /\ HasData(b)' => HasData(b) \/ New(b)
             /\ AgReads(b)' = AgReads(b) /\ (CuFrees(b)' <=> CuFrees(b)) /\ Written(b)' = Written(b)
             /\ (Filling(b)' <=> Filling(b) \/ New(b))
  <2>1. \A b : (HasData(b) => HasData(b)') /\ (HasData(b)' => HasData(b) \/ New(b))
    <3>1. \A p \in Available' : p \in Available => data'[p] = data[p]
      BY <1>3
    <3> QED BY <1>3, <3>1 DEF HasData
  <2>2. \A b : AgReads(b)' = AgReads(b) /\ Written(b)' = Written(b)
    BY <1>1, <1>4 DEF AgReads, Written
  <2>3. \A b : CuFrees(b)' <=> CuFrees(b)
    BY <1>4 DEF CuFrees
  <2>4. \A b : Filling(b)' <=> Filling(b) \/ New(b)
    BY <1>2 DEF Filling
  <2> QED BY <2>1, <2>2, <2>3, <2>4
<1>9. \A b \in Block : Gathering(b)' => Gathering(b) \/ New(b)
  <2>1. \A b \in Block : b # NoBlock
    BY BlockFacts
  <2> QED BY <1>3, <2>1 DEF Gathering, FromHost
<1>10. \A b \in Block : ~ (HasData(b)' /\ Gathering(b)' /\ New(b))
  <2> SUFFICES ASSUME NEW b \in Block, HasData(b)', Gathering(b)', New(b) PROVE FALSE
    OBVIOUS
  <2>1. b \notin held /\ ~ HasData(b) /\ ~ Gathering(b)
    BY <1>6, <1>7 DEF Held
  <2>2. InFlight' = InFlight => Gathering(b)
    BY <1>3 DEF Gathering
  <2>3. Available' = Available => HasData(b)
    BY <1>3 DEF HasData
  <2> QED BY <1>3, <2>1, <2>2, <2>3
<1>11. \A p \in InFlight' : \/ p \in InFlight /\ registry'[p] = registry[p] /\ (FromHost(registry[p]) \/ registry[p].out \in held)
                            \/ FromHost(registry'[p])
                            \/ registry'[p] \in N /\ registry'[p].out \notin held
  BY <1>2, <1>3, <1>5
<1> HIDE DEF New
<1>12. Ownership'
  <2>1. Held'
    <3>1. \A b : New(b) => b \in held'
      BY <1>2 DEF New
    <3>2. held \subseteq held'
      BY <1>2
    <3> QED BY <1>6, <1>8, <1>9, <3>1, <3>2 DEF Held
  <2>2. OneOwner'
    <3> SUFFICES ASSUME NEW b \in Block
                 PROVE  /\ HasData(b)' => ~ Gathering(b)' /\ ~ CuFrees(b)'
                        /\ Gathering(b)' => ~ CuFrees(b)'
      BY DEF OneOwner
    <3>1. New(b) => ~ CuFrees(b) /\ ~ HasData(b) /\ ~ Gathering(b)
      BY <1>6, <1>7 DEF Held
    <3>2. /\ HasData(b) => ~ Gathering(b) /\ ~ CuFrees(b)
          /\ Gathering(b) => ~ CuFrees(b)
      BY <1>6 DEF OneOwner
    <3> QED BY <1>8, <1>9, <1>10, <3>1, <3>2
  <2>3. OneParam'
    <3> SUFFICES ASSUME NEW p \in Available', NEW q \in Available', data'[p] = data'[q] PROVE p = q
      BY DEF OneParam
    <3>1. \A r \in Available' : (r \in Available /\ data'[r] = data[r] /\ data[r] \in held) \/ (r \notin Available /\ New(data'[r]))
      BY <1>3, <1>5 DEF New
    <3>2. (p \in Available /\ q \in Available) \/ (p \notin Available /\ q \notin Available)
      BY <1>7, <3>1
    <3> QED BY <1>3, <1>6, <3>1, <3>2 DEF OneParam
  <2>4. \A p, q \in InFlight' : registry'[p].out = registry'[q].out /\ registry'[p].out \in Block => registry'[p] = registry'[q]
    <3> SUFFICES ASSUME NEW p \in InFlight', NEW q \in InFlight', registry'[p].out = registry'[q].out, registry'[p].out \in Block
                 PROVE  registry'[p] = registry'[q]
      OBVIOUS
    <3>1. ~ FromHost(registry'[p]) /\ ~ FromHost(registry'[q])
      BY BlockFacts DEF FromHost
    <3>2. \/ p \in InFlight /\ registry'[p] = registry[p] /\ registry[p].out \in held
          \/ registry'[p] \in N /\ registry'[p].out \notin held
      BY <1>11, <3>1
    <3>3. \/ q \in InFlight /\ registry'[q] = registry[q] /\ registry[q].out \in held
          \/ registry'[q] \in N /\ registry'[q].out \notin held
      BY <1>11, <3>1
    <3> QED BY <1>2, <1>6, <3>2, <3>3 DEF OneHandle
  <2>5. \A i, j \in Cu' : cuQ'[i].op = "free" /\ cuQ'[j].op = "free" /\ cuQ'[i].src = cuQ'[j].src => i = j
    BY <1>4, <1>6 DEF OneFree
  <2> QED BY <2>1, <2>2, <2>3, <2>4, <2>5 DEF Ownership, OneHandle, OneFree
<1>13. Flags'
  <2>1. /\ \A s \in Slot : flag[s] \in Nat /\ gens[s] \in Nat /\ flag[s] <= gens[s]
        /\ \A h \in dpu : h.slot \in Slot /\ h.gen \in Nat
    BY <1>6, HandleFacts DEF DataTypes, StreamTypes, Flags
  <2>2. \A s \in Slot : flag'[s] <= gens'[s]
    <3>1. flag' = flag /\ \A s \in Slot : gens'[s] \in Nat /\ gens'[s] >= gens[s]
      BY <1>1, <1>2
    <3> QED BY ONLY <2>1, <3>1
  <2>3. ASSUME NEW h \in dpu' PROVE h.out \in Block /\ (h.gen # NoFlag => h.gen <= gens'[h.slot] /\ flag'[h.slot] # h.gen)
    <3>1. CASE h \in dpu
      <4>1. h.out \in Block /\ (h.gen # NoFlag => h.gen <= gens[h.slot] /\ flag[h.slot] # h.gen)
        BY <1>6, <3>1 DEF Flags
      <4>2. gens'[h.slot] \in Nat /\ gens'[h.slot] >= gens[h.slot] /\ gens[h.slot] \in Nat /\ h.gen \in Nat /\ flag' = flag
        BY <1>1, <1>2, <2>1, <3>1
      <4> QED BY ONLY <4>1, <4>2
    <3>2. CASE h \in N
      <4>1. /\ h.out \in Block /\ h.slot \in Slot /\ h.gen \in Nat /\ flag' = flag
            /\ h.gen # NoFlag => h.gen = gens[h.slot] + 1 /\ gens'[h.slot] = h.gen
        BY <1>1, <1>2, <3>2
      <4>2. flag[h.slot] \in Nat /\ gens[h.slot] \in Nat /\ flag[h.slot] <= gens[h.slot]
        BY <2>1, <4>1
      <4> QED BY ONLY <4>1, <4>2
    <3> QED BY <1>2, <3>1, <3>2
  <2>4. ASSUME NEW h \in dpu', NEW g \in dpu' PROVE h = g \/ h.gen = NoFlag \/ h.slot # g.slot \/ h.gen # g.gen
    <3>1. \A e \in dpu : e.gen \in Nat /\ gens[e.slot] \in Nat /\ (e.gen # NoFlag => e.gen <= gens[e.slot])
      BY <1>6, <2>1 DEF Flags
    <3>2. \A e \in N : e.gen # NoFlag => e.gen = gens[e.slot] + 1
      BY <1>2
    <3>3. CASE h \in dpu /\ g \in dpu
      BY <1>6, <3>3 DEF Flags
    <3>4. CASE h \in N /\ g \in N
      BY <1>2, <3>4
    <3>5. CASE (h \in N /\ g \in dpu) \/ (h \in dpu /\ g \in N)
      BY <3>1, <3>2, <3>5
    <3> QED BY <1>2, <3>3, <3>4, <3>5
  <2>5. flagPool' => \A p \in InFlight' : FromHost(registry'[p]) \/ registry'[p].gen # NoFlag
    <3>1. flagPool' = flagPool
      BY <1>1 DEF flagPool
    <3> QED BY <1>3, <1>6, <3>1 DEF Flags
  <2> QED BY <2>2, <2>3, <2>4, <2>5 DEF Flags, FromHost
<1>14. Awaited'
  <2>1. ASSUME NEW h \in dpu'
        PROVE  \/ \E p \in InFlight' : registry'[p] = h
               \/ \E j \in Ag' : Awaits(agQ'[j], h)
               \/ iter' = 0
    <3>1. CASE h \in dpu
      <4>1. \/ \E p \in InFlight : registry[p] = h
            \/ \E j \in Ag : Awaits(agQ[j], h)
            \/ iter = 0
        BY <1>6, <3>1 DEF Awaited
      <4> QED BY <1>1, <1>3, <1>4, <4>1
    <3> QED BY <1>1, <1>2, <3>1
  <2> QED BY <2>1 DEF Awaited, Awaits
<1>15. \A k \in Cu : \A j : Synced(k, j) => Synced(k, j)'
  BY <1>1, SyncedKept
<1>16. \A k \in Cu' : cuQ'[k].op # "wait_stream" => k \in Cu /\ cuQ'[k] = cuQ[k]
  BY <1>4
<1>17. BlockInv'
  <2>1. Reads'
    <3> SUFFICES ASSUME NEW k \in Cu', cuQ'[k].op \in {"kernel", "save"}
                 PROVE  HasData(cuQ[k].src)' \/ \E i \in Cu' : k < i /\ cuQ'[i].op = "free" /\ cuQ'[i].src = cuQ'[k].src
      BY DEF Reads
    <3>1. k \in Cu /\ cuQ'[k] = cuQ[k]
      BY <1>16
    <3>2. HasData(cuQ[k].src) \/ \E i \in Cu : k < i /\ cuQ[i].op = "free" /\ cuQ[i].src = cuQ[k].src
      BY <1>6, <3>1 DEF Reads
    <3> QED BY <1>4, <1>8, <3>1, <3>2
  <2>2. Joined'
    BY <1>1 DEF Joined
  <2> QED BY <1>12, <1>13, <1>14, <2>1, <2>2 DEF BlockInv
<1>18. ASSUME odd' = {} PROVE StreamInv'
  <2>1. Order /\ Contents /\ Saved
    BY <1>18 DEF More, DataInv, StreamInv
  <2>2. /\ \A i \in Ag : agQ[i].op = "cat" => AgReads(agQ[i].src)
        /\ \A i \in Ag : agQ[i].op \in {"cat", "load"} => agQ[i].dst \in held
        /\ \A h \in dpu : h.out \in Block /\ (h.out \in held \/ AgReads(h.out))
    BY <2>1, InQueue DEF DataInv
  <2>3. \A h \in dpu' : \/ h \in dpu /\ (h.out \in held \/ AgReads(h.out))
                        \/ h \in N /\ h.out \notin held /\ h.out \in Block /\ ~ AgReads(h.out)
    <3>1. \A h \in N : h.out \notin held /\ h.out \in Block /\ Unread(h.out)
      BY <1>2, <1>18 DEF More
    <3>2. \A h \in N : ~ AgReads(h.out)
      BY <3>1 DEF Unread, AgReads, Ag
    <3> QED BY <1>2, <2>2, <3>1, <3>2
  <2>4. \A b : New(b) => ~ AgReads(b) /\ b \notin held
    BY <1>18, <1>7 DEF New, More, Unread, AgReads, Ag
  <2>5. \A b \in Block : Written(b) => b \in held
    BY <2>2 DEF Written, Writes
  <2>6. Dropped'
    <3> SUFFICES ASSUME NEW b \in Block PROVE (AgReads(b)' => b \notin held') /\ (Filling(b)' => b \in held' \/ AgReads(b)')
      BY DEF Dropped
    <3>1. (AgReads(b) => b \notin held) /\ (Filling(b) => b \in held \/ AgReads(b))
      BY <2>1 DEF Order, Dropped
    <3>2. b \in held' <=> b \in held \/ New(b)
      BY <1>2 DEF New
    <3> QED BY <1>8, <2>4, <3>1, <3>2
  <2>7. OneGather'
    <3>1. OneGather
      BY <2>1 DEF Order
    <3>2. \A h, g \in dpu' : h.out = g.out => h = g
      BY <1>2, <2>3, <3>1 DEF OneGather
    <3>3. ASSUME NEW p \in InFlight', NEW h \in dpu', h.out = registry'[p].out PROVE h = registry'[p]
      <4>1. h.out \in Block
        BY <2>3, <2>2
      <4>2. ~ FromHost(registry'[p])
        BY <3>3, <4>1, BlockFacts DEF FromHost
      <4>3. \/ p \in InFlight /\ registry'[p] = registry[p] /\ registry[p].out \in held
            \/ registry'[p] \in N /\ registry'[p].out \notin held
        BY <1>11, <4>2
      <4> QED BY <1>2, <2>3, <3>1, <3>3, <4>3 DEF OneGather
    <3> QED BY <3>2, <3>3 DEF OneGather
  <2>8. Arrived'
    <3> SUFFICES ASSUME NEW i \in Ag', NEW h \in dpu', agQ'[i].op = "cat", h.out = agQ'[i].src
                 PROVE  \E j \in Ag' : j < i /\ Awaits(agQ'[j], h)
      BY DEF Arrived, Awaits
    <3>1. i \in Ag /\ agQ' = agQ /\ Ag' = Ag
      BY <1>1, <1>4
    <3>2. AgReads(h.out)
      BY <3>1 DEF AgReads
    <3>3. h \in dpu
      BY <2>3, <3>2
    <3> QED BY <2>1, <3>1, <3>3 DEF Order, Arrived
  <2>9. Copies'
    <3>1. \A b \in Block : Written(b)' => ~ Filling(b)' /\ (HasData(b)' \/ CuFrees(b)')
      BY <1>7, <1>8, <2>5, <2>1 DEF Order, Copies
    <3>2. \A b \in Block : \A i, j \in Ag' : Writes(agQ'[i], b) /\ Writes(agQ'[j], b) => i = j
      BY <1>1, <1>4, <2>1 DEF Order, Copies
    <3> QED BY <3>1, <3>2 DEF Copies, Writes
  <2>10. Ordered'
    <3>1. ASSUME NEW k \in Cu', NEW j \in Ag', cuQ'[k].op \in {"kernel", "save", "free"}, Writes(agQ'[j], cuQ'[k].src)
          PROVE  Synced(k, j)'
      <4>1. k \in Cu /\ cuQ'[k] = cuQ[k] /\ agQ'[j] = agQ[j] /\ j \in Ag
        BY <1>1, <1>4, <1>16, <3>1
      <4>2. Synced(k, j)
        BY <2>1, <3>1, <4>1 DEF Order, Ordered
      <4> QED BY <1>15, <4>1, <4>2
    <3>2. ASSUME NEW k \in Cu', NEW h \in dpu', cuQ'[k].op \in {"kernel", "save", "free"}, h.out = cuQ'[k].src
          PROVE  \E j \in Ag' : Awaits(agQ'[j], h) /\ Synced(k, j)'
      <4>1. k \in Cu /\ cuQ'[k] = cuQ[k]
        BY <1>16, <3>2
      <4>2. h \in dpu
        BY <1>5, <2>3, <3>2, <4>1
      <4>3. PICK j \in Ag : Awaits(agQ[j], h) /\ Synced(k, j)
        BY <2>1, <3>2, <4>1, <4>2 DEF Order, Ordered
      <4> QED BY <1>1, <1>4, <1>15, <4>1, <4>3
    <3>3. \A k \in Cu' : \A j \in Ag' :
            cuQ'[k].op \in {"kernel", "save", "free"} /\ Writes(agQ'[j], cuQ'[k].src) => Synced(k, j)'
      BY <3>1
    <3>4. \A k \in Cu' : \A h \in dpu' :
            cuQ'[k].op \in {"kernel", "save", "free"} /\ h.out = cuQ'[k].src => \E j \in Ag' : Awaits(agQ'[j], h) /\ Synced(k, j)'
      BY <3>2
    <3> QED BY <3>3, <3>4 DEF Ordered, Writes, Awaits
  <2>11. \A p, b : ~ New(b) /\ Brought(p, b) => Brought(p, b)'
    BY <1>1, <1>2, <1>8 DEF Brought
  <2>12. \A p : \A b \in held : Holds(p, b) => Holds(p, b)'
    <3> SUFFICES ASSUME NEW p, NEW b \in held, Holds(p, b) PROVE Holds(p, b)'
      OBVIOUS
    <3>1. ASSUME NEW j \in Ag', Writes(agQ'[j], b)
          PROVE  agQ'[j].p = p /\ (agQ'[j].op = "cat" => Brought(p, agQ[j].src)')
      <4>1. j \in Ag /\ agQ'[j] = agQ[j]
        BY <1>1, <1>4
      <4>2. agQ[j].p = p /\ (agQ[j].op = "cat" => Brought(p, agQ[j].src))
        BY <3>1, <4>1 DEF Holds
      <4>3. agQ[j].op = "cat" => ~ New(agQ[j].src)
        BY <2>4, <2>2, <4>1
      <4>4. agQ[j].op = "cat" => Brought(p, agQ[j].src)'
        <5> DEFINE s == agQ[j].src
        <5>1. ~ New(s) => (Brought(p, s) => Brought(p, agQ[j].src)')
          BY <2>11, <4>1
        <5> QED BY <4>2, <4>3, <5>1
      <4> QED BY <4>1, <4>2, <4>4
    <3>2. Written(b)' \/ Brought(p, b)'
      BY <1>8, <2>4, <2>11 DEF Holds
    <3> QED BY <3>1, <3>2 DEF Holds, Writes
  <2>13. Contents'
    <3>1. ASSUME NEW p \in InFlight' PROVE FromHost(registry'[p]) \/ Brought(p, registry[p].out)'
      <4>1. CASE p \in InFlight
        <5>1. registry'[p] = registry[p]
          BY <1>3, <4>1
        <5>2. FromHost(registry[p]) \/ (registry[p].out \in held /\ Brought(p, registry[p].out))
          BY <1>5, <2>1, <4>1 DEF Contents
        <5> QED BY <2>4, <2>11, <5>1, <5>2
      <4>2. CASE p \notin InFlight /\ ~ FromHost(registry'[p])
        <5>1. registry'[p] \in dpu' /\ p \in registry'[p].ps
          BY <1>2, <1>3, <4>2
        <5> QED BY <5>1 DEF Brought
      <4> QED BY <4>1, <4>2
    <3>2. ASSUME NEW p \in Available' PROVE iter' = 0 \/ Holds(p, data[p])'
      <4>1. CASE p \in Available
        <5>1. data'[p] = data[p] /\ data[p] \in held /\ (iter = 0 \/ Holds(p, data[p])) /\ iter' = iter
          BY <1>1, <1>3, <1>5, <2>1, <4>1 DEF Contents
        <5> QED BY <2>12, <5>1
      <4> QED BY <1>1, <1>3, <4>1
    <3>3. ASSUME NEW k \in Cu', cuQ'[k].op = "kernel" PROVE cuQ'[k].n = weights' /\ Holds(cuQ[k].p, cuQ[k].src)'
      <4>1. k \in Cu /\ cuQ'[k] = cuQ[k]
        BY <1>16, <3>3
      <4>2. cuQ[k].n = weights /\ Holds(cuQ[k].p, cuQ[k].src) /\ cuQ[k].src \in held
        BY <1>5, <2>1, <3>3, <4>1 DEF Contents
      <4> QED BY <1>1, <2>12, <4>1, <4>2
    <3> QED BY <3>1, <3>2, <3>3 DEF Contents, FromHost
  <2>14. Saved'
    <3>1. ASSUME NEW k \in Cu', cuQ'[k].op = "save", cuQ'[k].p \in cpuFull'
          PROVE  \/ Holds(cuQ[k].p, cuQ[k].src)'
                 \/ \E i \in Cu' : k < i /\ cuQ'[i].op = "save" /\ cuQ'[i].p = cuQ'[k].p
      <4>1. k \in Cu /\ cuQ'[k] = cuQ[k] /\ cuQ[k].src \in held
        BY <1>5, <1>16, <3>1
      <4>2. \/ Holds(cuQ[k].p, cuQ[k].src)
            \/ \E i \in Cu : k < i /\ cuQ[i].op = "save" /\ cuQ[i].p = cuQ[k].p
        BY <1>1, <2>1, <3>1, <4>1 DEF Saved
      <4> QED BY <1>4, <2>12, <4>1, <4>2
    <3>2. ASSUME NEW p \in cpuFull' PROVE Saving(p)' \/ pinned'[p] = weights'
      <4>1. Saving(p) \/ pinned[p] = weights
        BY <1>1, <2>1 DEF Saved
      <4> QED BY <1>1, <1>4, <4>1 DEF Saving
    <3>3. \A j \in Ag' : agQ'[j].op = "load" => fetching' # NoMod /\ agQ'[j].p \in cpuFull'
      BY <1>1, <1>4, <2>1 DEF Saved
    <3> QED BY <3>1, <3>2, <3>3 DEF Saved
  <2>15. Order'
    BY <2>6, <2>7, <2>8, <2>9, <2>10 DEF Order
  <2> QED BY <2>15, <2>13, <2>14 DEF StreamInv
<1> QED BY <1>17, <1>18 DEF DataInv

\* The coordinator asks for a gather, or joins the streams, ...
LEMMA AskKeeps ==
  ASSUME CtlInv, DataTypes, DataInv, NEW J \in {<<>>, JoinOps}, Joins(J),
         NoAsk \/ \E ps \in SUBSET Params : \E h \in Handle : Ask(ps, h)
  PROVE  DataInv'
<1>1. agPos + Len(agQ) \in Nat /\ agQ \in Seq(AgOps) /\ cuQ \in Seq(CuOps)
  BY DEF DataTypes, StreamTypes
<1>2. /\ J \in Seq(CuOps) /\ \A i \in 1 .. Len(J) : J[i].op = "wait_stream"
      /\ J = JoinOps => 1 \in 1 .. Len(J) /\ J[1].op = "wait_stream" /\ J[1].n = agPos + Len(agQ)
  <2>1. CASE J = <<>>
    <3>1. J # JoinOps
      BY <2>1 DEF JoinOps
    <3> QED BY <2>1, <3>1
  <2>2. CASE J = JoinOps
    <3>1. J = <<WaitStreamOp(agPos + Len(agQ))>> /\ WaitStreamOp(agPos + Len(agQ)) \in CuOps
      BY <1>1, <2>2 DEF JoinOps, CuOps
    <3>2. /\ WaitStreamOp(agPos + Len(agQ)).op = "wait_stream"
          /\ WaitStreamOp(agPos + Len(agQ)).n = agPos + Len(agQ)
      BY DEF WaitStreamOp, Op
    <3> HIDE DEF WaitStreamOp
    <3>3. Len(J) = 1 /\ J[1] = WaitStreamOp(agPos + Len(agQ)) /\ J \in Seq(CuOps)
      BY <3>1
    <3>4. \A i \in 1 .. Len(J) : i = 1
      BY <3>3
    <3> QED BY <3>2, <3>3, <3>4
  <2> QED BY <2>1, <2>2
<1>3. /\ cuQ' = cuQ \o J /\ iter > 0 /\ iter' = iter
      /\ IF fetching' = NoMod THEN J = JoinOps /\ LoadsDone ELSE J = <<>>
  BY DEF Joins
<1>4. fetching' = NoMod /\ agQ # <<>> => \E k \in Cu' : cuQ'[k].op = "wait_stream" /\ cuQ'[k].n >= agPos + Len(agQ)
  <2> SUFFICES ASSUME fetching' = NoMod PROVE \E k \in Cu' : cuQ'[k].op = "wait_stream" /\ cuQ'[k].n >= agPos + Len(agQ)
    OBVIOUS
  <2>1. 1 \in 1 .. Len(J) /\ J[1].op = "wait_stream" /\ J[1].n = agPos + Len(agQ)
    BY <1>2, <1>3
  <2>2. Len(cuQ) + 1 \in Cu' /\ cuQ'[Len(cuQ) + 1] = J[1]
    BY <1>2, <1>3, <2>1, CuAppend
  <2>3. J[1].n >= agPos + Len(agQ)
    BY <1>1, <2>1
  <2> QED BY <2>1, <2>2, <2>3
<1>5. \A j \in Ag : agQ[j].op = "load" => fetching' # NoMod
  <2>1. Ag = DOMAIN agQ
    BY <1>1 DEF Ag
  <2> QED BY <1>3, <2>1 DEF LoadsDone
<1>6. CASE NoAsk
  <2>1. UNCHANGED <<transport, dpu, flag, gens, nextSlot, agQ, agPos, held, mem, weights, pinned, odd, status, registry, data, cpuFull>>
    BY <1>6 DEF NoAsk, DeviceKept
  <2>2. InFlight' = InFlight /\ Available' = Available
    BY <2>1 DEF InFlight, Available
  <2>3. gens \in [Slot -> Nat]
    BY DEF DataTypes, StreamTypes
  <2>4. /\ dpu' = dpu \cup {} /\ held' = held \cup {h.out : h \in {}} /\ odd \subseteq odd'
        /\ \A s \in Slot : gens'[s] \in Nat /\ gens'[s] >= gens[s]
    BY <2>1, <2>3
  <2>5. More({}, J)
    BY <1>2, <1>3, <1>4, <1>5, <2>1, <2>2, <2>4 DEF More
  <2> QED BY <2>5, MoreKeeps
<1>7. ASSUME NEW ps \in SUBSET Params, NEW h \in Handle, Ask(ps, h) PROVE DataInv'
  <2>1. /\ ps # {} /\ \A p \in ps : status[p] = "NOT_AVAILABLE"
        /\ h.ps = ps
        /\ registry' = [p \in Params |-> IF p \in ps THEN h ELSE registry[p]]
        /\ status' = [p \in Params |-> IF p \in ps THEN "INFLIGHT" ELSE status[p]]
        /\ UNCHANGED <<transport, flag, agQ, agPos, mem, weights, pinned, data, cpuFull>>
    BY <1>7 DEF Ask
  <2>2. /\ Available' = Available
        /\ \A p \in InFlight : p \in InFlight' /\ p \notin ps /\ registry'[p] = registry[p]
        /\ \A p \in InFlight' : p \in InFlight \/ (p \in ps /\ registry'[p] = h)
        /\ \A p \in ps : p \in InFlight' /\ registry'[p] = h
    <3>1. registry \in [Params -> Handle]
      BY DEF DataTypes, ParamTypes
    <3> QED BY <2>1, <3>1 DEF Available, InFlight
  <2>3. gens \in [Slot -> Nat] /\ nextSlot \in Slot
    BY DEF DataTypes, StreamTypes
  <2>4. CASE FromHost(h) /\ UNCHANGED <<gens, nextSlot, held, dpu, odd>>
    <3>1. /\ dpu' = dpu \cup {} /\ held' = held \cup {g.out : g \in {}} /\ odd \subseteq odd'
          /\ \A s \in Slot : gens'[s] \in Nat /\ gens'[s] >= gens[s]
      BY <2>3, <2>4
    <3>2. \A p \in InFlight' : p \in InFlight \/ FromHost(registry'[p])
      BY <2>2, <2>4
    <3>3. More({}, J)
      BY <1>2, <1>3, <1>4, <1>5, <2>1, <2>2, <3>1, <3>2 DEF More
    <3> QED BY <3>3, MoreKeeps
  <2>5. CASE /\ h.out \in Block \ held /\ held' = held \cup {h.out} /\ dpu' = dpu \cup {h}
             /\ GivenOut({h.out})
             /\ IF flagPool THEN h.slot = Acquired.slot /\ h.gen = Acquired.gen /\ Acquire
                ELSE h.gen = NoFlag /\ UNCHANGED <<gens, nextSlot>>
    <3>1. h.slot \in Slot /\ h.gen \in Nat
      BY HandleFacts
    <3>2. /\ h.gen # NoFlag => h.gen = gens[h.slot] + 1 /\ gens'[h.slot] = h.gen
          /\ flagPool => h.gen # NoFlag
          /\ \A s \in Slot : gens'[s] \in Nat /\ gens'[s] >= gens[s]
      <4>1. CASE flagPool
        <5>1. h.slot = nextSlot /\ h.gen = gens[nextSlot] + 1 /\ gens' = [gens EXCEPT ![nextSlot] = @ + 1]
          BY <2>5, <4>1 DEF Acquired, Acquire
        <5> QED BY <2>3, <5>1 DEF NoFlag
      <4>2. CASE ~ flagPool
        BY <2>3, <2>5, <4>2
      <4> QED BY <4>1, <4>2
    <3>3. \E p \in InFlight' : registry'[p] = h
      BY <2>1, <2>2
    <3>4. {g.out : g \in {h}} = {h.out}
      OBVIOUS
    <3>5. /\ UNCHANGED <<transport, flag, agQ, agPos, mem, weights, pinned, cpuFull, iter>>
          /\ dpu' = dpu \cup {h} /\ held' = held \cup {g.out : g \in {h}}
          /\ \A g \in {h} : g.out \in Block \ held /\ g.slot \in Slot /\ g.gen \in Nat
          /\ odd \subseteq odd' /\ (odd' = {} => \A g \in {h} : Unread(g.out))
          /\ \A g \in {h} : g.gen # NoFlag => g.gen = gens[g.slot] + 1 /\ gens'[g.slot] = g.gen
          /\ \A s \in Slot : gens'[s] \in Nat /\ gens'[s] >= gens[s]
      BY <1>3, <2>1, <2>5, <3>1, <3>2, <3>4 DEF GivenOut, OddGrows
    <3>6. /\ \A p \in InFlight : p \in InFlight' /\ registry'[p] = registry[p]
          /\ \A p \in InFlight' : \/ p \in InFlight
                                  \/ FromHost(registry'[p])
                                  \/ registry'[p] \in {h} /\ p \in registry'[p].ps /\ (flagPool => registry'[p].gen # NoFlag)
          /\ \A p \in Available : p \in Available' /\ data'[p] = data[p]
          /\ \A g \in {h} : iter = 0 \/ \E p \in InFlight' : registry'[p] = g
      BY <2>1, <2>2, <3>2, <3>3
    <3>7. More({h}, J)
      BY <1>2, <1>3, <1>4, <1>5, <2>2, <3>5, <3>6 DEF More
    <3> QED BY <3>7, MoreKeeps
  <2> QED BY <1>7, <2>4, <2>5 DEF Ask
<1> QED BY <1>6, <1>7

\* ... and a parameter is gathered to install its gradient hook.
LEMMA BringKeeps ==
  ASSUME CtlInv, DataTypes, Starting, DataInv, NEW p \in Params, NEW h \in Handle, Bring(p, h)
  PROVE  DataInv'
<1>1. /\ status[p] = "NOT_AVAILABLE" /\ h.gen = NoFlag
      /\ h.out \in Block \ held /\ held' = held \cup {h.out} /\ dpu' = dpu \cup {h}
      /\ GivenOut({h.out})
      /\ status' = [status EXCEPT ![p] = "AVAILABLE"] /\ data' = [data EXCEPT ![p] = h.out]
      /\ iter = 0 /\ iter' = iter /\ fetching' = fetching
      /\ UNCHANGED <<transport, flag, gens, nextSlot, agQ, agPos, cuQ, mem, weights, pinned, registry, cpuFull>>
  BY DEF Bring
<1>2. status \in [Params -> {"NOT_AVAILABLE", "INFLIGHT", "AVAILABLE"}] /\ data \in [Params -> 0 .. NBlocks]
  BY LifeType DEF CtlInv, StatusType, DataTypes, ParamTypes
<1>3. /\ InFlight' = InFlight
      /\ \A q \in Available : q \in Available' /\ data'[q] = data[q]
      /\ \A q \in Available' : q \in Available \/ (q = p /\ data'[q] = h.out)
  BY <1>1, <1>2 DEF InFlight, Available
<1>4. agQ = <<>> /\ \A j \in Ag : FALSE
  <2>1. agQ = <<>>
    BY <1>1 DEF Starting
  <2> QED BY <2>1 DEF Ag
<1>5. <<>> \in Seq(CuOps) /\ cuQ' = cuQ \o <<>> /\ \A i \in 1 .. Len(<<>>) : FALSE
  <2>1. cuQ \in Seq(CuOps)
    BY DEF DataTypes, StreamTypes
  <2> QED BY <1>1, <2>1
<1>6. h.slot \in Slot /\ h.gen \in Nat /\ gens \in [Slot -> Nat]
  BY HandleFacts DEF DataTypes, StreamTypes
<1>7. {g.out : g \in {h}} = {h.out}
  OBVIOUS
<1>8. /\ UNCHANGED <<transport, flag, agQ, agPos, mem, weights, pinned, cpuFull, iter>>
      /\ dpu' = dpu \cup {h} /\ held' = held \cup {g.out : g \in {h}}
      /\ \A g \in {h} : g.out \in Block \ held /\ g.slot \in Slot /\ g.gen \in Nat
      /\ odd \subseteq odd' /\ (odd' = {} => \A g \in {h} : Unread(g.out))
      /\ \A g \in {h} : g.gen # NoFlag => g.gen = gens[g.slot] + 1 /\ gens'[g.slot] = g.gen
      /\ \A s \in Slot : gens'[s] \in Nat /\ gens'[s] >= gens[s]
  BY <1>1, <1>6, <1>7 DEF GivenOut, OddGrows
<1>9. /\ \A q \in InFlight : q \in InFlight' /\ registry'[q] = registry[q]
      /\ \A q \in InFlight' : q \in InFlight
      /\ \A q \in Available' : q \in Available \/ (iter = 0 /\ \E g \in {h} : data'[q] = g.out)
      /\ \A q, r \in Available' : q \in Available \/ r \in Available \/ q = r
  BY <1>1, <1>3
<1>10. More({h}, <<>>)
  BY <1>1, <1>3, <1>4, <1>5, <1>8, <1>9 DEF More
<1> QED BY <1>10, MoreKeeps

\* A round of the wait loop: what a parameter of the gather gets, and what the
\* allgather stream is given to do.
LEMMA TakeBlocks ==
  ASSUME CtlInv, DataTypes, DataInv, NEW p \in Params, NEW W, Take(p, W)
  PROVE  LET h == registry[p] IN
         /\ p \in h.ps /\ (FromHost(h) \/ (h.out \in Block /\ h.out \in held /\ Gathering(h.out)))
         /\ \A q \in h.ps : q \in InFlight /\ registry[q] = h
         /\ InFlight' = InFlight \ h.ps /\ Available' = Available \cup h.ps /\ h.ps \cap Available = {}
         /\ \A q \in InFlight' : registry'[q] = registry[q] /\ (registry[q].out = h.out => FromHost(h))
         /\ \A q \in Available : data'[q] = data[q]
         /\ held' = (held \ (IF Single(h) THEN {} ELSE {h.out})) \cup {data'[q] : q \in h.ps}
         /\ \A q, r \in h.ps : data'[q] = data'[r] => q = r
         /\ \A q \in h.ps : IF Single(h) THEN data'[q] = h.out ELSE data'[q] \in Block \ held
<1> DEFINE h == registry[p]
<1>1. /\ p \in InFlight
      /\ \A q \in h.ps : IF Single(h) THEN data'[q] = h.out ELSE data'[q] \in Block \ held
      /\ \A q \in h.ps : ~ Single(h) => \A r \in h.ps : data'[r] = data'[q] => r = q
      /\ status' = [q \in Params |-> IF q \in h.ps THEN "AVAILABLE" ELSE status[q]]
      /\ data' = [q \in Params |-> IF q \in h.ps THEN data'[q] ELSE data[q]]
      /\ held' = (held \ (IF Single(h) THEN {} ELSE {h.out})) \cup {data'[q] : q \in h.ps}
      /\ registry' = [registry EXCEPT ![p] = NoHandle]
  BY DEF Take
<1>2. /\ p \in h.ps /\ h.ps \subseteq Params
      /\ \A q \in h.ps : q \in InFlight /\ registry[q] = h
      /\ \A q \in InFlight : q \in registry[q].ps
  BY <1>1 DEF CtlInv, InFlightTogether, InFlight
<1>3. FromHost(h) \/ (h.out \in Block /\ h.out \in held /\ Gathering(h.out))
  BY <1>1, BlockFacts, InUse DEF Gathering, DataInv
<1>4. InFlight' = InFlight \ h.ps /\ Available' = Available \cup h.ps /\ h.ps \cap Available = {}
  <2>1. \A q \in Params : status'[q] = IF q \in h.ps THEN "AVAILABLE" ELSE status[q]
    BY <1>1
  <2> HIDE DEF h
  <2>2. \A q \in h.ps : q \in Params /\ status[q] = "INFLIGHT"
    BY <1>2 DEF InFlight
  <2> QED BY <2>1, <2>2 DEF InFlight, Available
<1>5. \A q \in InFlight' : registry'[q] = registry[q] /\ (registry[q].out = h.out => FromHost(h))
  <2> SUFFICES ASSUME NEW q \in InFlight' PROVE registry'[q] = registry[q] /\ (registry[q].out = h.out => FromHost(h))
    OBVIOUS
  <2>1. q \in InFlight /\ q \notin h.ps /\ q # p
    BY <1>2, <1>4
  <2>2. registry \in [Params -> Handle] /\ q \in Params
    BY <2>1 DEF DataTypes, ParamTypes, InFlight
  <2>3. registry'[q] = registry[q]
    BY <1>1, <2>1, <2>2
  <2>4. registry[q].out = h.out /\ h.out \in Block => registry[q] = h
    BY <1>1, <2>1 DEF DataInv, BlockInv, Ownership, OneHandle
  <2> QED BY <1>2, <1>3, <2>1, <2>3, <2>4
<1>6. \A q \in Available : data'[q] = data[q]
  <2>1. \A q \in Available : q \in Params /\ q \notin h.ps
    BY <1>4 DEF Available
  <2> QED BY <1>1, <2>1
<1>7. held' = (held \ (IF Single(h) THEN {} ELSE {h.out})) \cup {data'[q] : q \in h.ps}
  BY <1>1
<1>8. \A q, r \in h.ps : data'[q] = data'[r] => q = r
  <2>1. CASE Single(h)
    <3>1. Cardinality(h.ps) = 1 /\ IsFiniteSet(h.ps)
      BY <1>2, <2>1, StreamsAssumption, FS_Subset DEF Single
    <3>2. \E x : h.ps = {x}
      BY <3>1, FS_Singleton
    <3> QED BY <3>2
  <2>2. CASE ~ Single(h)
    BY <1>1, <2>2
  <2> QED BY <2>1, <2>2
<1> HIDE DEF h
<1>9. \A q \in h.ps : IF Single(h) THEN data'[q] = h.out ELSE data'[q] \in Block \ held
  BY <1>1
<1> QED BY <1>2, <1>3, <1>4, <1>5, <1>6, <1>7, <1>8, <1>9 DEF h

\* It keeps the invariant: a single gather's buffer passes to its parameter, a
\* coalesced one's only to the copies from it.
LEMMA TakeKeeps ==
  ASSUME CtlInv, DataTypes, DataInv, NEW p \in Params, NEW W, Take(p, W)
  PROVE  DataInv'
<1> DEFINE h == registry[p]
           NewD(b) == \E q \in h.ps : data'[q] = b
           NewW(b) == \E j \in 1 .. Len(W) : Writes(W[j], b)
<1>1. /\ p \in h.ps /\ (FromHost(h) \/ (h.out \in Block /\ h.out \in held /\ Gathering(h.out)))
      /\ \A q \in h.ps : q \in InFlight /\ registry[q] = h
      /\ InFlight' = InFlight \ h.ps /\ Available' = Available \cup h.ps /\ h.ps \cap Available = {}
      /\ \A q \in InFlight' : registry'[q] = registry[q] /\ (registry[q].out = h.out => FromHost(h))
      /\ \A q \in Available : data'[q] = data[q]
      /\ held' = (held \ (IF Single(h) THEN {} ELSE {h.out})) \cup {data'[q] : q \in h.ps}
      /\ \A q, r \in h.ps : data'[q] = data'[r] => q = r
      /\ \A q \in h.ps : IF Single(h) THEN data'[q] = h.out ELSE data'[q] \in Block \ held
  <2> HIDE DEF h
  <2> QED BY TakeBlocks DEF h
<1>2. /\ p \in InFlight /\ W \in Seq(AgOps) /\ agQ' = agQ \o W
      /\ fetching # NoMod /\ fetching' = fetching /\ iter > 0 /\ iter' = iter
      /\ UNCHANGED <<transport, dpu, flag, gens, nextSlot, agPos, mem, weights, pinned, cuQ, cpuFull>>
      /\ odd \subseteq odd' /\ (odd' = {} /\ ~ Single(h) => \A q \in h.ps : Unread(data'[q]))
      /\ FromHost(h) => h.ps \subseteq cpuFull
      /\ h \in dpu /\ ~ FromHost(h) /\ (flagPool => h.gen # NoFlag) =>
           Len(W) > 0 /\ Awaits(W[1], h) /\ W[1].op # "cat"
  <2> HIDE DEF h
  <2> QED BY DEF Take, OddGrows, h
<1>3. /\ \A j \in 1 .. Len(W) : W[j].op \in {"cat", "load"} =>
           /\ W[j].p \in h.ps /\ W[j].dst = data'[W[j].p] /\ (W[j].op = "load" <=> FromHost(h))
           /\ W[j].op = "cat" => W[j].src = h.out
           /\ ~ Single(h) /\ \A i \in 1 .. Len(W) : W[i].op \in {"cat", "load"} /\ W[i].p = W[j].p => i = j
      /\ \A q \in h.ps : ~ Single(h) => \E j \in 1 .. Len(W) : W[j].op \in {"cat", "load"} /\ W[j].p = q
  <2> HIDE DEF h
  <2> QED BY DEF Take, h
<1> HIDE DEF h
<1>4. /\ Cu' = Cu /\ cuQ' = cuQ
      /\ \A i \in Ag : i \in Ag' /\ agQ'[i] = agQ[i]
      /\ \A i \in Ag' : \/ i \in Ag /\ agQ'[i] = agQ[i]
                        \/ /\ i - Len(agQ) \in 1 .. Len(W) /\ agQ'[i] = W[i - Len(agQ)]
                           /\ \A j \in Ag : j < i
      /\ \A i \in 1 .. Len(W) : Len(agQ) + i \in Ag' /\ agQ'[Len(agQ) + i] = W[i] /\ \A j \in Ag : j < Len(agQ) + i
      /\ Len(agQ) \in Nat /\ Len(W) \in Nat
  <2>1. Cu' = Cu /\ cuQ' = cuQ
    BY <1>2 DEF Cu
  <2> QED BY <1>2, <2>1, AgAppend
<1>5. /\ \A q \in Available : data[q] \in held
      /\ \A q \in InFlight : FromHost(registry[q]) \/ registry[q].out \in held
      /\ \A k \in Cu : cuQ[k].op \in {"kernel", "save", "free"} => cuQ[k].src \in held
  BY InUse DEF DataInv
<1>6. Held /\ OneOwner /\ OneParam /\ OneHandle /\ OneFree /\ Flags /\ Awaited /\ Reads
  BY DEF DataInv, BlockInv, Ownership
<1>7. \A b : NewD(b) => (b = h.out /\ Gathering(b) /\ Single(h)) \/ (b \in Block /\ b \notin held /\ ~ Single(h))
  BY <1>1 DEF Single
<1>8. \A b \in Block : /\ (b = h.out /\ ~ Single(h)) => b \in held /\ b \notin held' /\ Gathering(b) /\ ~ FromHost(h)
                       /\ b \in held' <=> (b \in held /\ ~ (b = h.out /\ ~ Single(h))) \/ NewD(b)
  <2>1. \A b \in Block : b # NoBlock
    BY BlockFacts
  <2>2. \A b \in Block : (b = h.out /\ ~ Single(h)) => b \in held /\ Gathering(b) /\ ~ FromHost(h) /\ ~ NewD(b)
    BY <1>1, <1>7, <2>1 DEF FromHost
  <2>3. \A b : b \in held' <=> (b \in held /\ ~ (b = h.out /\ ~ Single(h))) \/ NewD(b)
    BY <1>1
  <2> HIDE DEF NewD
  <2> QED BY <2>2, <2>3
<1>9. \A b : NewW(b) => NewD(b) /\ ~ Single(h)
  BY <1>3 DEF Writes
<1>10. \A b : HasData(b)' <=> HasData(b) \/ NewD(b)
  BY <1>1 DEF HasData
<1>11. \A b \in Block : Gathering(b)' => Gathering(b) /\ b # h.out
  <2>1. \A b \in Block : b # NoBlock
    BY BlockFacts
  <2> QED BY <1>1, <2>1 DEF Gathering, FromHost
<1>12. \A b : /\ AgReads(b) => AgReads(b)'
              /\ AgReads(b)' => AgReads(b) \/ (b = h.out /\ ~ Single(h) /\ ~ FromHost(h))
              /\ b = h.out /\ ~ Single(h) /\ ~ FromHost(h) => AgReads(b)'
              /\ Written(b)' <=> Written(b) \/ NewW(b)
              /\ CuFrees(b)' = CuFrees(b) /\ Filling(b)' = Filling(b)
  <2>1. ASSUME NEW b, AgReads(b)' PROVE AgReads(b) \/ (b = h.out /\ ~ Single(h) /\ ~ FromHost(h))
    <3>1. PICK i \in Ag' : agQ'[i].op = "cat" /\ agQ'[i].src = b
      BY <2>1 DEF AgReads
    <3>2. CASE i \in Ag
      BY <1>4, <3>1, <3>2 DEF AgReads
    <3>3. CASE i \notin Ag
      <4>1. i - Len(agQ) \in 1 .. Len(W) /\ agQ'[i] = W[i - Len(agQ)]
        BY <1>4, <3>3
      <4> QED BY <1>3, <3>1, <4>1
    <3> QED BY <3>2, <3>3
  <2>2. \A b : AgReads(b) => AgReads(b)'
    BY <1>4 DEF AgReads
  <2>3. ASSUME NEW b, b = h.out, ~ Single(h), ~ FromHost(h) PROVE AgReads(b)'
    <3>1. PICK j \in 1 .. Len(W) : W[j].op \in {"cat", "load"} /\ W[j].p = p
      BY <1>1, <1>3, <2>3
    <3>2. W[j].op = "cat" /\ W[j].src = b
      BY <1>3, <2>3, <3>1
    <3>3. \E i \in Ag' : agQ'[i].op = "cat" /\ agQ'[i].src = b
      BY <1>4, <3>2
    <3> QED BY <3>3 DEF AgReads
  <2>4. \A b : Written(b)' <=> Written(b) \/ NewW(b)
    BY <1>4 DEF Written
  <2>5. \A b : CuFrees(b)' = CuFrees(b) /\ Filling(b)' = Filling(b)
    BY <1>2, <1>4 DEF CuFrees, Filling
  <2> HIDE DEF NewW
  <2> QED BY ONLY <2>1, <2>2, <2>3, <2>4, <2>5
<1>13. ASSUME NEW b \in Block
       PROVE  /\ HasData(b) => ~ Gathering(b) /\ ~ CuFrees(b)
              /\ Gathering(b) => ~ CuFrees(b)
              /\ HasData(b) \/ Gathering(b) \/ CuFrees(b) => b \in held
  BY <1>6 DEF OneOwner, Held
<1>14. \A j \in 1 .. Len(W) : W[j].op \in {"cat", "load"} => NewW(W[j].dst)
  BY DEF Writes
<1>15. \A q \in Available : HasData(data[q]) /\ data[q] \in Block
  BY BlockFacts DEF HasData
<1>16. \A q \in h.ps : NewD(data'[q])
  OBVIOUS
<1> HIDE DEF NewD, NewW
<1>17. Ownership'
  <2>1. Held'
    <3> SUFFICES ASSUME NEW b \in Block, HasData(b)' \/ Gathering(b)' \/ CuFrees(b)' PROVE b \in held'
      BY DEF Held
    <3>1. HasData(b) \/ NewD(b) \/ (Gathering(b) /\ b # h.out) \/ CuFrees(b)
      BY <1>10, <1>11, <1>12
    <3>2. (b = h.out /\ ~ Single(h)) => Gathering(b)
      BY <1>8
    <3> QED BY <1>8, <1>13, <3>1, <3>2
  <2>2. OneOwner'
    <3> SUFFICES ASSUME NEW b \in Block
                 PROVE  (HasData(b)' => ~ Gathering(b)' /\ ~ CuFrees(b)') /\ (Gathering(b)' => ~ CuFrees(b)')
      BY DEF OneOwner
    <3> QED BY <1>7, <1>10, <1>11, <1>12, <1>13
  <2>3. OneParam'
    <3> SUFFICES ASSUME NEW q \in Available', NEW r \in Available', data'[q] = data'[r] PROVE q = r
      BY DEF OneParam
    <3>1. \A s \in Available' : (s \in Available /\ data'[s] = data[s] /\ HasData(data'[s]) /\ data'[s] \in Block) \/ (s \in h.ps /\ NewD(data'[s]))
      BY <1>1, <1>15, <1>16
    <3>2. \A b \in Block : ~ (HasData(b) /\ NewD(b))
      BY <1>7, <1>13
    <3>3. (q \in Available /\ r \in Available) \/ (q \in h.ps /\ r \in h.ps)
      BY <3>1, <3>2
    <3> QED BY <1>1, <1>6, <3>3 DEF OneParam
  <2>4. OneHandle'
    BY <1>1, <1>2, <1>6 DEF OneHandle
  <2>5. \A i, j \in Cu' : cuQ'[i].op = "free" /\ cuQ'[j].op = "free" /\ cuQ'[i].src = cuQ'[j].src => i = j
    BY <1>4, <1>6 DEF OneFree
  <2> QED BY <2>1, <2>2, <2>3, <2>4, <2>5 DEF Ownership, OneFree
<1>18. Flags'
  <2>1. flagPool' = flagPool
    BY <1>2 DEF flagPool
  <2>2. /\ \A s \in Slot : flag'[s] <= gens'[s]
        /\ \A g \in dpu' : g.out \in Block /\ (g.gen # NoFlag => g.gen <= gens'[g.slot] /\ flag'[g.slot] # g.gen)
        /\ \A e, g \in dpu' : e = g \/ e.gen = NoFlag \/ e.slot # g.slot \/ e.gen # g.gen
    BY <1>2, <1>6 DEF Flags
  <2>3. flagPool' => \A q \in InFlight' : FromHost(registry'[q]) \/ registry'[q].gen # NoFlag
    BY <1>1, <1>6, <2>1 DEF Flags
  <2> QED BY <2>2, <2>3 DEF Flags, FromHost
<1>19. h \in dpu => Len(W) > 0 /\ Awaits(W[1], h) /\ W[1].op # "cat"
  <2> SUFFICES ASSUME h \in dpu PROVE ~ FromHost(h) /\ (flagPool => h.gen # NoFlag)
    BY <1>2
  <2>1. h.out \in Block
    BY <1>6 DEF Flags
  <2>2. ~ FromHost(h)
    BY <2>1, BlockFacts DEF FromHost
  <2>3. flagPool => h.gen # NoFlag
    BY <1>1, <1>6, <2>2 DEF Flags
  <2> QED BY <2>2, <2>3
<1>20. Awaited'
  <2>1. ASSUME NEW g \in dpu'
        PROVE  \/ \E q \in InFlight' : registry'[q] = g
               \/ \E j \in Ag' : Awaits(agQ'[j], g)
               \/ iter' = 0
    <3>1. g \in dpu
      BY <1>2
    <3>2. \/ \E q \in InFlight : registry[q] = g
          \/ \E j \in Ag : Awaits(agQ[j], g)
          \/ iter = 0
      BY <1>6, <3>1 DEF Awaited
    <3>3. CASE g = h
      <4>1. 1 \in 1 .. Len(W) /\ Awaits(W[1], g)
        BY <1>4, <1>19, <3>1, <3>3
      <4> QED BY <1>4, <4>1
    <3> QED BY <1>1, <1>2, <1>4, <3>2, <3>3
  <2> QED BY <2>1 DEF Awaited, Awaits
<1>21. ASSUME NEW i \in Ag', i \notin Ag, agQ'[i].op \in {"cat", "load"}
       PROVE  /\ NewW(agQ'[i].dst) /\ agQ'[i].dst \notin held
              /\ agQ'[i].p \in h.ps /\ agQ'[i].dst = data'[agQ'[i].p] /\ (agQ'[i].op = "load" <=> FromHost(h))
              /\ agQ'[i].op = "cat" => agQ'[i].src = h.out
  <2>1. i - Len(agQ) \in 1 .. Len(W) /\ agQ'[i] = W[i - Len(agQ)]
    BY <1>4, <1>21
  <2>2. NewW(agQ'[i].dst) /\ agQ'[i].dst \notin held
    BY <1>7, <1>9, <1>14, <1>21, <2>1
  <2> QED BY <1>3, <1>21, <2>1, <2>2
<1>22. \A k, j : Synced(k, j) => Synced(k, j)'
  BY <1>2, <1>4 DEF Synced
<1>23. BlockInv'
  <2>1. Reads'
    <3> SUFFICES ASSUME NEW k \in Cu', cuQ'[k].op \in {"kernel", "save"}
                 PROVE  HasData(cuQ[k].src)' \/ \E i \in Cu' : k < i /\ cuQ'[i].op = "free" /\ cuQ'[i].src = cuQ'[k].src
      BY DEF Reads
    <3>1. HasData(cuQ[k].src) \/ \E i \in Cu : k < i /\ cuQ[i].op = "free" /\ cuQ[i].src = cuQ[k].src
      BY <1>4, <1>6 DEF Reads
    <3>2. cuQ[k].src = cuQ'[k].src
      BY <1>4
    <3> QED BY <1>4, <1>10, <3>1, <3>2
  <2>2. Joined'
    BY <1>2 DEF Joined
  <2> QED BY <1>17, <1>18, <1>20, <2>1, <2>2 DEF BlockInv
<1>24. ASSUME odd' = {} PROVE StreamInv'
  <2>1. Order /\ Contents /\ Saved
    BY <1>2, <1>24 DEF DataInv, StreamInv
  <2>2. ASSUME NEW b \in Block
         PROVE  /\ Written(b) => ~ Filling(b) /\ (HasData(b) \/ CuFrees(b)) /\ b \in held
                /\ AgReads(b) => b \notin held
                /\ Filling(b) => b \in held \/ AgReads(b)
    <3>1. (Written(b) => ~ Filling(b) /\ (HasData(b) \/ CuFrees(b))) /\ (AgReads(b) => b \notin held) /\ (Filling(b) => b \in held \/ AgReads(b))
      BY <2>1 DEF Order, Copies, Dropped
    <3> QED BY <1>13, <3>1
  <2>3. \A b : NewD(b) => ~ AgReads(b)
    <3>1. CASE Single(h)
      BY <1>1, <1>7, <1>13, <2>2, <3>1 DEF Single
    <3>2. CASE ~ Single(h)
      <4>1. \A q \in h.ps : Unread(data'[q])
        BY <1>2, <1>24, <3>2
      <4> QED BY <4>1 DEF NewD, Unread, AgReads, Ag
    <3> QED BY <3>1, <3>2
  <2>4. Dropped'
    <3> SUFFICES ASSUME NEW b \in Block PROVE (AgReads(b)' => b \notin held') /\ (Filling(b)' => b \in held' \/ AgReads(b)')
      BY DEF Dropped
    <3>1. AgReads(b)' => AgReads(b) \/ (b = h.out /\ ~ Single(h))
      BY <1>12
    <3>2. (b = h.out /\ ~ Single(h)) => AgReads(b)'
      <4>1. (b = h.out /\ ~ Single(h)) => ~ FromHost(h)
        BY <1>8
      <4> QED BY <1>12, <4>1
    <3>3. Filling(b)' = Filling(b) /\ (AgReads(b) => AgReads(b)')
      BY <1>12
    <3>4. ((b = h.out /\ ~ Single(h)) => b \in held /\ b \notin held') /\ (b \in held' <=> (b \in held /\ ~ (b = h.out /\ ~ Single(h))) \/ NewD(b))
      BY <1>8
    <3>5. (NewD(b) => ~ AgReads(b)) /\ (AgReads(b) => b \notin held) /\ (Filling(b) => b \in held \/ AgReads(b))
      BY <2>2, <2>3
    <3> QED BY ONLY <3>1, <3>2, <3>3, <3>4, <3>5
  <2>5. OneGather'
    BY <1>1, <1>2, <2>1 DEF Order, OneGather
  <2>6. Arrived'
    <3>1. ASSUME NEW i \in Ag', NEW g \in dpu', agQ'[i].op = "cat", g.out = agQ'[i].src
          PROVE  \E j \in Ag' : j < i /\ Awaits(agQ'[j], g)
      <4>1. g \in dpu
        BY <1>2
      <4>2. CASE i \in Ag
        <5>1. agQ'[i] = agQ[i]
          BY <1>4, <4>2
        <5>2. PICK j \in Ag : j < i /\ Awaits(agQ[j], g)
          BY <2>1, <3>1, <4>1, <4>2, <5>1 DEF Order, Arrived
        <5> QED BY <1>4, <5>2
      <4>3. CASE i \notin Ag
        <5>1. i - Len(agQ) \in 1 .. Len(W) /\ agQ'[i] = W[i - Len(agQ)]
          BY <1>4, <4>3
        <5>2. g.out = h.out
          BY <1>3, <3>1, <5>1
        <5>3. g = h
          BY <1>1, <1>2, <2>1, <4>1, <5>2 DEF Order, OneGather
        <5>4. i - Len(agQ) # 1 /\ Len(W) > 0 /\ Awaits(W[1], g)
          BY <1>19, <3>1, <4>1, <5>1, <5>3
        <5>5. i \in Nat
          BY DEF Ag
        <5>6. 1 \in 1 .. Len(W) /\ Len(agQ) + 1 < i
          BY <1>4, <5>1, <5>4, <5>5
        <5> QED BY <1>4, <5>4, <5>6
      <4> QED BY <4>2, <4>3
    <3> QED BY <3>1 DEF Arrived, Awaits
  <2>7. Copies'
    <3>1. \A b \in Block : Written(b)' => ~ Filling(b)' /\ (HasData(b)' \/ CuFrees(b)')
      <4> SUFFICES ASSUME NEW b \in Block, Written(b)' PROVE ~ Filling(b)' /\ (HasData(b)' \/ CuFrees(b)')
        OBVIOUS
      <4>1. CASE NewW(b)
        BY <1>7, <1>9, <1>10, <1>12, <2>2, <2>3, <4>1
      <4> QED BY <1>10, <1>12, <2>2, <4>1
    <3>2. ASSUME NEW b \in Block, NEW i \in Ag', NEW j \in Ag', Writes(agQ'[i], b), Writes(agQ'[j], b)
          PROVE  i = j
      <4>1. \A k \in Ag : Writes(agQ[k], b) => b \in held
        BY <2>2 DEF Written, Writes
      <4>2. \A k \in Ag' : k \notin Ag /\ Writes(agQ'[k], b) => b \notin held
        BY <1>21 DEF Writes
      <4>3. CASE i \in Ag /\ j \in Ag
        BY <1>4, <2>1, <3>2, <4>3 DEF Order, Copies
      <4>4. CASE i \notin Ag /\ j \notin Ag
        <5>1. /\ i - Len(agQ) \in 1 .. Len(W) /\ agQ'[i] = W[i - Len(agQ)]
              /\ j - Len(agQ) \in 1 .. Len(W) /\ agQ'[j] = W[j - Len(agQ)]
          BY <1>4, <4>4
        <5>2. /\ agQ'[i].op \in {"cat", "load"} /\ agQ'[i].dst = b
              /\ agQ'[j].op \in {"cat", "load"} /\ agQ'[j].dst = b
          BY <3>2 DEF Writes
        <5>3. agQ'[i].p \in h.ps /\ data'[agQ'[i].p] = b /\ agQ'[j].p \in h.ps /\ data'[agQ'[j].p] = b
          BY <1>3, <5>1, <5>2
        <5>4. agQ'[i].p = agQ'[j].p
          BY <1>1, <5>3
        <5>5. i - Len(agQ) = j - Len(agQ)
          BY <1>3, <5>1, <5>2, <5>4
        <5>6. i \in Nat /\ j \in Nat
          BY DEF Ag
        <5> QED BY <1>4, <5>5, <5>6
      <4> QED BY <1>4, <3>2, <4>1, <4>2, <4>3, <4>4
    <3>3. \A b \in Block : \A i, j \in Ag' : Writes(agQ'[i], b) /\ Writes(agQ'[j], b) => i = j
      BY <3>2
    <3> QED BY <3>1, <3>3 DEF Copies, Writes
  <2>8. Ordered'
    <3>1. ASSUME NEW k \in Cu', NEW j \in Ag', cuQ'[k].op \in {"kernel", "save", "free"}, Writes(agQ'[j], cuQ'[k].src)
          PROVE  Synced(k, j)'
      <4>1. k \in Cu /\ cuQ'[k] = cuQ[k] /\ cuQ[k].src \in held
        BY <1>4, <1>5, <3>1
      <4>2. j \in Ag /\ agQ'[j] = agQ[j]
        BY <1>4, <1>21, <3>1, <4>1 DEF Writes
      <4>3. Synced(k, j)
        BY <2>1, <3>1, <4>1, <4>2 DEF Order, Ordered
      <4> QED BY <1>22, <4>3
    <3>2. ASSUME NEW k \in Cu', NEW g \in dpu', cuQ'[k].op \in {"kernel", "save", "free"}, g.out = cuQ'[k].src
          PROVE  \E j \in Ag' : Awaits(agQ'[j], g) /\ Synced(k, j)'
      <4>1. k \in Cu /\ cuQ'[k] = cuQ[k] /\ g \in dpu
        BY <1>2, <1>4
      <4>2. PICK j \in Ag : Awaits(agQ[j], g) /\ Synced(k, j)
        BY <2>1, <3>2, <4>1 DEF Order, Ordered
      <4> QED BY <1>4, <1>22, <4>2
    <3>3. \A k \in Cu' : \A j \in Ag' :
            cuQ'[k].op \in {"kernel", "save", "free"} /\ Writes(agQ'[j], cuQ'[k].src) => Synced(k, j)'
      BY <3>1
    <3>4. \A k \in Cu' : \A g \in dpu' :
            cuQ'[k].op \in {"kernel", "save", "free"} /\ g.out = cuQ'[k].src => \E j \in Ag' : Awaits(agQ'[j], g) /\ Synced(k, j)'
      BY <3>2
    <3> QED BY <3>3, <3>4 DEF Ordered, Writes, Awaits
  <2>9. \A q, b : Brought(q, b)' = Brought(q, b)
    BY <1>2, <1>12 DEF Brought
  <2>10. ASSUME NEW q, NEW b \in held, Holds(q, b), NewW(b) => FALSE
         PROVE  Holds(q, b)'
    <3>1. ASSUME NEW j \in Ag', Writes(agQ'[j], b)
          PROVE  agQ'[j].p = q /\ (agQ'[j].op = "cat" => Brought(q, agQ[j].src)')
      <4>1. j \in Ag /\ agQ'[j] = agQ[j]
        BY <1>4, <1>21, <3>1 DEF Writes
      <4>2. agQ[j].p = q /\ (agQ[j].op = "cat" => Brought(q, agQ[j].src))
        BY <2>10, <3>1, <4>1 DEF Holds
      <4> QED BY <2>9, <4>1, <4>2
    <3>2. Written(b)' \/ Brought(q, b)'
      BY <1>12, <2>9, <2>10 DEF Holds
    <3> QED BY <3>1, <3>2 DEF Holds, Writes
  <2>11. \A q : \A b \in held : Holds(q, b) => Holds(q, b)'
    <3>1. \A b \in held : ~ NewW(b)
      BY <1>7, <1>9
    <3> QED BY <2>10, <3>1
  <2>12. ASSUME NEW q \in h.ps
         PROVE  Holds(q, data[q])'
    <3>1. FromHost(h) \/ Brought(q, h.out)
      BY <1>1, <2>1 DEF Contents
    <3>2. CASE Single(h)
      <4>1. h.out \in Block /\ Gathering(h.out) /\ Brought(q, h.out) /\ data'[q] = h.out
        BY <1>1, <3>1, <3>2 DEF Single
      <4>2. ~ Written(h.out)
        BY <1>13, <2>2, <4>1
      <4>3. \A b : NewW(b) => ~ Single(h)
        BY <1>9
      <4>4. ASSUME NEW b, b = data'[q] PROVE ~ Written(b)' /\ Brought(q, b)'
        <5>1. ~ Written(b) /\ ~ NewW(b) /\ Brought(q, b)
          BY <3>2, <4>1, <4>2, <4>3, <4>4
        <5> QED BY <1>12, <2>9, <5>1
      <4>5. ASSUME NEW b, b = data'[q] PROVE Holds(q, b)'
        <5>1. ~ Written(b)' /\ Brought(q, b)'
          BY <4>4, <4>5
        <5>2. \A j \in Ag' : ~ Writes(agQ'[j], b)
          BY <5>1 DEF Written, Writes
        <5> QED BY <5>1, <5>2 DEF Holds, Writes
      <4> QED BY <4>5
    <3>3. CASE ~ Single(h)
      <4> SUFFICES ASSUME NEW b, b = data'[q] PROVE Holds(q, b)'
        OBVIOUS
      <4>1. b \in Block \ held
        BY <1>1, <3>3
      <4>2. ASSUME NEW j \in Ag', Writes(agQ'[j], b)
            PROVE  agQ'[j].p = q /\ (agQ'[j].op = "cat" => Brought(q, agQ[j].src)')
        <5>1. j \notin Ag /\ agQ'[j].op \in {"cat", "load"} /\ agQ'[j].dst = b
          BY <1>4, <2>2, <4>1, <4>2 DEF Writes, Written
        <5>2. /\ agQ'[j].p \in h.ps /\ b = data'[agQ'[j].p] /\ (agQ'[j].op = "load" <=> FromHost(h))
              /\ agQ'[j].op = "cat" => agQ'[j].src = h.out
          BY <1>21, <5>1
        <5>3. agQ'[j].p = q
          BY <1>1, <5>2
        <5>4. ASSUME NEW c, c = agQ'[j].src, agQ'[j].op = "cat" PROVE Brought(q, c)'
          <6>1. Brought(q, c)
            BY <3>1, <5>2, <5>4
          <6> QED BY <2>9, <6>1
        <5> QED BY <5>3, <5>4
      <4>3. Written(b)'
        <5>1. PICK j \in 1 .. Len(W) : W[j].op \in {"cat", "load"} /\ W[j].p = q
          BY <1>3, <3>3
        <5>2. Writes(W[j], b)
          BY <1>3, <5>1 DEF Writes
        <5>3. NewW(b)
          BY <5>2 DEF NewW
        <5> QED BY <1>12, <5>3
      <4> QED BY <4>2, <4>3 DEF Holds, Writes
    <3> QED BY <3>2, <3>3
  <2>13. Contents'
    <3>1. \A q \in InFlight' : FromHost(registry'[q]) \/ Brought(q, registry[q].out)'
      <4> SUFFICES ASSUME NEW q \in InFlight' PROVE FromHost(registry'[q]) \/ Brought(q, registry[q].out)'
        OBVIOUS
      <4>1. q \in InFlight /\ registry'[q] = registry[q]
        BY <1>1
      <4>2. FromHost(registry[q]) \/ Brought(q, registry[q].out)
        BY <2>1, <4>1 DEF Contents
      <4> QED BY <2>9, <4>1, <4>2
    <3>2. ASSUME NEW q \in Available' PROVE iter' = 0 \/ Holds(q, data[q])'
      <4>1. CASE q \in Available
        <5>1. data'[q] = data[q] /\ data[q] \in held /\ (iter = 0 \/ Holds(q, data[q])) /\ iter' = iter
          BY <1>1, <1>2, <1>5, <2>1, <4>1 DEF Contents
        <5> QED BY <2>11, <5>1
      <4> QED BY <1>1, <2>12, <4>1
    <3>3. ASSUME NEW k \in Cu', cuQ'[k].op = "kernel" PROVE cuQ'[k].n = weights' /\ Holds(cuQ[k].p, cuQ[k].src)'
      <4>1. k \in Cu /\ cuQ'[k] = cuQ[k]
        BY <1>4
      <4>2. cuQ[k].n = weights /\ Holds(cuQ[k].p, cuQ[k].src) /\ cuQ[k].src \in held
        BY <1>5, <2>1, <3>3, <4>1 DEF Contents
      <4> QED BY <1>2, <2>11, <4>1, <4>2
    <3> QED BY <3>1, <3>2, <3>3 DEF Contents, FromHost
  <2>14. Saved'
    <3>1. ASSUME NEW k \in Cu', cuQ'[k].op = "save", cuQ'[k].p \in cpuFull'
          PROVE  \/ Holds(cuQ[k].p, cuQ[k].src)'
                 \/ \E i \in Cu' : k < i /\ cuQ'[i].op = "save" /\ cuQ'[i].p = cuQ'[k].p
      <4>1. k \in Cu /\ cuQ'[k] = cuQ[k] /\ cuQ[k].src \in held
        BY <1>4, <1>5, <3>1
      <4>2. \/ Holds(cuQ[k].p, cuQ[k].src)
            \/ \E i \in Cu : k < i /\ cuQ[i].op = "save" /\ cuQ[i].p = cuQ[k].p
        BY <1>2, <2>1, <3>1, <4>1 DEF Saved
      <4> QED BY <1>4, <2>11, <4>1, <4>2
    <3>2. ASSUME NEW q \in cpuFull' PROVE Saving(q)' \/ pinned'[q] = weights'
      <4>1. Saving(q) \/ pinned[q] = weights
        BY <1>2, <2>1 DEF Saved
      <4> QED BY <1>2, <1>4, <4>1 DEF Saving
    <3>3. ASSUME NEW j \in Ag', agQ'[j].op = "load" PROVE fetching' # NoMod /\ agQ'[j].p \in cpuFull'
      <4>1. CASE j \in Ag
        BY <1>2, <1>4, <2>1, <3>3, <4>1 DEF Saved
      <4>2. CASE j \notin Ag
        BY <1>2, <1>21, <3>3, <4>2
      <4> QED BY <4>1, <4>2
    <3> QED BY <3>1, <3>2, <3>3 DEF Saved
  <2>15. Order'
    BY <2>4, <2>5, <2>6, <2>7, <2>8 DEF Order
  <2> QED BY <2>15, <2>13, <2>14 DEF StreamInv
<1> QED BY <1>23, <1>24 DEF DataInv

-----------------------------------------------------------------------------
(* What runs behind the host *)

\* The DPU, or NCCL, executes a gather.
LEMMA GatherKeeps ==
  ASSUME CtlInv, DataTypes, DataInv, HostKept, NEW h \in dpu, DpuGather(h)
  PROVE  DataInv'
<1>1. /\ mem' = [mem EXCEPT ![h.out] = [ps |-> h.ps, ver |-> weights]]
      /\ flag' = IF h.gen # NoFlag THEN [flag EXCEPT ![h.slot] = h.gen] ELSE flag
      /\ dpu' = dpu \ {h}
      /\ UNCHANGED <<transport, gens, nextSlot, agQ, agPos, cuQ, held, weights, pinned, odd>>
      /\ UNCHANGED <<status, registry, data, cpuFull, fetching, iter>>
  BY DEF DpuGather, HostKept
<1>2. /\ Ag' = Ag /\ Cu' = Cu /\ InFlight' = InFlight /\ Available' = Available
      /\ \A k, j : Synced(k, j)' = Synced(k, j)
  BY <1>1 DEF Ag, Cu, InFlight, Available, Synced
<1>3. Held /\ OneOwner /\ OneParam /\ OneHandle /\ OneFree /\ Flags /\ Awaited /\ Reads /\ Joined
  BY DEF DataInv, BlockInv, Ownership
<1>4. \A b : /\ HasData(b)' = HasData(b) /\ Gathering(b)' = Gathering(b) /\ AgReads(b)' = AgReads(b)
             /\ CuFrees(b)' = CuFrees(b) /\ Written(b)' = Written(b)
  BY <1>1, <1>2 DEF HasData, Gathering, AgReads, CuFrees, Written
<1>5. Ownership'
  BY <1>1, <1>2, <1>3, <1>4 DEF Ownership, Held, OneOwner, OneParam, OneHandle, OneFree
<1>6. Flags'
  <2>1. h \in Handle /\ h.slot \in Slot /\ h.gen \in Nat /\ flag \in [Slot -> Nat] /\ gens \in [Slot -> Nat]
    BY HandleFacts DEF DataTypes, StreamTypes
  <2>2. \A s \in Slot : flag'[s] = IF h.gen # NoFlag /\ s = h.slot THEN h.gen ELSE flag[s]
    BY <1>1, <2>1
  <2>3. h.gen # NoFlag => h.gen <= gens[h.slot]
    BY <1>3 DEF Flags
  <2>4. \A s \in Slot : flag'[s] <= gens'[s]
    <3>1. gens' = gens /\ \A s \in Slot : flag[s] <= gens[s]
      BY <1>1, <1>3 DEF Flags
    <3> QED BY ONLY <2>2, <2>3, <3>1
  <2>5. ASSUME NEW g \in dpu' PROVE g.out \in Block /\ (g.gen # NoFlag => g.gen <= gens'[g.slot] /\ flag'[g.slot] # g.gen)
    <3>1. g \in dpu /\ g # h /\ g.slot \in Slot
      BY <1>1, HandleFacts DEF DataTypes, StreamTypes
    <3>2. g.out \in Block /\ (g.gen # NoFlag => g.gen <= gens[g.slot] /\ flag[g.slot] # g.gen)
      BY <1>3, <3>1 DEF Flags
    <3>3. g.gen # NoFlag => g.slot # h.slot \/ g.gen # h.gen
      BY <1>3, <3>1 DEF Flags
    <3> QED BY <1>1, <2>2, <3>1, <3>2, <3>3
  <2>6. /\ \A e, g \in dpu' : e = g \/ e.gen = NoFlag \/ e.slot # g.slot \/ e.gen # g.gen
        /\ flagPool' => \A q \in InFlight' : FromHost(registry'[q]) \/ registry'[q].gen # NoFlag
    <3>1. flagPool' = flagPool
      BY <1>1 DEF flagPool
    <3> QED BY <1>1, <1>2, <1>3, <3>1 DEF Flags
  <2> QED BY <2>4, <2>5, <2>6 DEF Flags, FromHost
<1>7. Awaited'
  BY <1>1, <1>2, <1>3 DEF Awaited
<1>8. BlockInv'
  <2>1. Reads'
    BY <1>1, <1>2, <1>3, <1>4 DEF Reads
  <2>2. Joined'
    BY <1>1, <1>2, <1>3 DEF Joined
  <2> QED BY <1>5, <1>6, <1>7, <2>1, <2>2 DEF BlockInv
<1>9. ASSUME odd' = {} PROVE StreamInv'
  <2>1. Order /\ Contents /\ Saved
    BY <1>1, <1>9 DEF DataInv, StreamInv
  <2>2. h.out \in Block /\ mem \in [Block -> Content] /\ \A g \in dpu : g.out = h.out => g = h
    BY <1>3, <2>1 DEF Flags, Order, OneGather, DataTypes, StreamTypes
  <2>3. \A b : Filling(b)' <=> Filling(b) /\ b # h.out
    BY <1>1, <2>2 DEF Filling
  <2>4. \A p, b : Brought(p, b) => Brought(p, b)'
    <3> SUFFICES ASSUME NEW p, NEW b, Brought(p, b) PROVE Brought(p, b)'
      OBVIOUS
    <3>1. CASE b = h.out
      <4>1. Filling(b)
        BY <3>1 DEF Filling
      <4>2. p \in h.ps
        BY <2>2, <3>1, <4>1 DEF Brought
      <4>3. ~ Filling(b)'
        BY <2>3, <3>1
      <4>4. mem'[b] = [ps |-> h.ps, ver |-> weights]
        BY <1>1, <2>2, <3>1
      <4> QED BY <1>1, <4>2, <4>3, <4>4 DEF Brought
    <3>2. CASE b # h.out
      <4>1. CASE \E g \in dpu : g.out = b /\ p \in g.ps
        BY <1>1, <3>2, <4>1 DEF Brought
      <4>2. CASE ~ Filling(b) /\ p \in mem[b].ps /\ mem[b].ver = weights
        <5>1. mem'[b] = mem[b]
          BY <1>1, <2>2, <3>2
        <5>2. ~ Filling(b)'
          BY <2>3, <4>2
        <5> QED BY <1>1, <4>2, <5>1, <5>2 DEF Brought
      <4> QED BY <4>1, <4>2 DEF Brought
    <3> QED BY <3>1, <3>2
  <2>5. \A p, b : Holds(p, b) => Holds(p, b)'
    <3> SUFFICES ASSUME NEW p, NEW b, Holds(p, b) PROVE Holds(p, b)'
      OBVIOUS
    <3>1. ASSUME NEW j \in Ag', Writes(agQ'[j], b)
          PROVE  agQ'[j].p = p /\ (agQ'[j].op = "cat" => Brought(p, agQ[j].src)')
      <4>1. j \in Ag /\ agQ'[j] = agQ[j]
        BY <1>1, <1>2
      <4>2. agQ[j].p = p /\ (agQ[j].op = "cat" => Brought(p, agQ[j].src))
        BY <3>1, <4>1 DEF Holds
      <4> QED BY <2>4, <4>1, <4>2
    <3>2. Written(b)' \/ Brought(p, b)'
      BY <1>4, <2>4 DEF Holds
    <3> QED BY <3>1, <3>2 DEF Holds, Writes
  <2>6. Dropped' /\ OneGather' /\ Arrived'
    BY <1>1, <1>2, <1>4, <2>3, <2>1 DEF Order, Dropped, OneGather, Arrived
  <2>7. Copies'
    BY <1>1, <1>2, <1>4, <2>3, <2>1 DEF Order, Copies
  <2>8. Ordered'
    BY <1>1, <1>2, <2>1 DEF Order, Ordered
  <2>9. Contents'
    <3>1. ASSUME NEW q \in InFlight' PROVE FromHost(registry'[q]) \/ Brought(q, registry[q].out)'
      <4>1. q \in InFlight /\ registry'[q] = registry[q]
        BY <1>1, <1>2
      <4>2. FromHost(registry[q]) \/ Brought(q, registry[q].out)
        BY <2>1, <4>1 DEF Contents
      <4> QED BY <2>4, <4>1, <4>2
    <3>2. ASSUME NEW q \in Available' PROVE iter' = 0 \/ Holds(q, data[q])'
      <4>1. data'[q] = data[q] /\ (iter = 0 \/ Holds(q, data[q])) /\ iter' = iter
        BY <1>1, <1>2, <2>1 DEF Contents
      <4> QED BY <2>5, <4>1
    <3>3. ASSUME NEW k \in Cu', cuQ'[k].op = "kernel" PROVE cuQ'[k].n = weights' /\ Holds(cuQ[k].p, cuQ[k].src)'
      <4>1. cuQ'[k] = cuQ[k] /\ cuQ[k].n = weights /\ Holds(cuQ[k].p, cuQ[k].src)
        BY <1>1, <1>2, <2>1, <3>3 DEF Contents
      <4> QED BY <1>1, <2>5, <4>1
    <3> QED BY <3>1, <3>2, <3>3 DEF Contents, FromHost
  <2>10. Saved'
    <3>1. ASSUME NEW k \in Cu', cuQ'[k].op = "save", cuQ'[k].p \in cpuFull'
          PROVE  \/ Holds(cuQ[k].p, cuQ[k].src)'
                 \/ \E i \in Cu' : k < i /\ cuQ'[i].op = "save" /\ cuQ'[i].p = cuQ'[k].p
      <4>1. k \in Cu /\ cuQ'[k] = cuQ[k]
        BY <1>1, <1>2
      <4>2. \/ Holds(cuQ[k].p, cuQ[k].src)
            \/ \E i \in Cu : k < i /\ cuQ[i].op = "save" /\ cuQ[i].p = cuQ[k].p
        BY <1>1, <2>1, <3>1, <4>1 DEF Saved
      <4> QED BY <1>1, <1>2, <2>5, <4>1, <4>2
    <3>2. /\ \A q \in cpuFull' : Saving(q)' \/ pinned'[q] = weights'
          /\ \A j \in Ag' : agQ'[j].op = "load" => fetching' # NoMod /\ agQ'[j].p \in cpuFull'
      BY <1>1, <1>2, <2>1 DEF Saved, Saving
    <3> QED BY <3>1, <3>2 DEF Saved
  <2>11. Order'
    BY <2>6, <2>7, <2>8 DEF Order
  <2> QED BY <2>11, <2>9, <2>10 DEF StreamInv
<1> QED BY <1>8, <1>9 DEF DataInv

\* The allgather stream executes its first operation.
LEMMA AgPopKeeps ==
  ASSUME CtlInv, DataTypes, DataInv, HostKept, AllGatherStream
  PROVE  DataInv'
<1> DEFINE o == agQ[1]
<1>1. /\ agQ # <<>> /\ agQ' = Tail(agQ) /\ agPos' = agPos + 1
      /\ UNCHANGED <<transport, dpu, flag, gens, nextSlot, cuQ, held, weights, pinned>>
      /\ UNCHANGED <<status, registry, data, cpuFull, fetching, iter>>
  BY DEF AllGatherStream, HostKept
<1>2. /\ \A i \in Ag' : i \in Nat /\ i + 1 \in Ag /\ i + 1 # 1 /\ agQ'[i] = agQ[i + 1]
      /\ \A i \in Ag : i \in Nat /\ (i = 1 \/ (i - 1 \in Ag' /\ agQ'[i - 1] = agQ[i]))
      /\ 1 \in Ag /\ Head(agQ) = o /\ o \in AgOps
      /\ Len(agQ) \in Nat /\ Len(agQ') = Len(agQ) - 1 /\ agPos \in Nat
  BY <1>1, AgPop
<1>3. \/ o.op = "wait_flag" /\ flag[o.src] = o.n /\ UNCHANGED <<mem, odd>>
      \/ o.op = "wait_nccl" /\ dpu = {} /\ UNCHANGED <<mem, odd>>
      \/ /\ o.op = "cat" /\ UNCHANGED odd
         /\ mem' = [mem EXCEPT ![o.dst] = [ps |-> mem[o.src].ps \cap {o.p}, ver |-> mem[o.src].ver]]
      \/ /\ o.op = "load" /\ odd' = odd \cup (IF SavePending(o.p) THEN {"early"} ELSE {})
         /\ mem' = [mem EXCEPT ![o.dst] = [ps |-> {o.p}, ver |-> pinned[o.p]]]
  <2> HIDE DEF o
  <2> QED BY <1>2 DEF AllGatherStream, FlagReached
<1> HIDE DEF o
<1>4. /\ Cu' = Cu /\ InFlight' = InFlight /\ Available' = Available
  BY <1>1 DEF Cu, InFlight, Available
<1>5. Held /\ OneOwner /\ OneParam /\ OneHandle /\ OneFree /\ Flags /\ Awaited /\ Reads /\ Joined
  BY DEF DataInv, BlockInv, Ownership
<1>6. agQ[1] = o
  BY DEF o
<1>7. \A b : /\ HasData(b)' = HasData(b) /\ Gathering(b)' = Gathering(b)
             /\ CuFrees(b)' = CuFrees(b) /\ Filling(b)' = Filling(b)
             /\ AgReads(b)' => AgReads(b)
             /\ AgReads(b) => AgReads(b)' \/ (o.op = "cat" /\ o.src = b)
             /\ Written(b)' => Written(b)
             /\ Written(b) => Written(b)' \/ Writes(o, b)
  <2>1. \A b : /\ HasData(b)' = HasData(b) /\ Gathering(b)' = Gathering(b)
               /\ CuFrees(b)' = CuFrees(b) /\ Filling(b)' = Filling(b)
    BY <1>1, <1>4 DEF HasData, Gathering, CuFrees, Filling
  <2>2. \A b : AgReads(b)' => AgReads(b)
    BY <1>2 DEF AgReads
  <2>3. ASSUME NEW b, AgReads(b) PROVE AgReads(b)' \/ (o.op = "cat" /\ o.src = b)
    <3>1. PICK i \in Ag : agQ[i].op = "cat" /\ agQ[i].src = b
      BY <2>3 DEF AgReads
    <3>2. i = 1 \/ (i - 1 \in Ag' /\ agQ'[i - 1] = agQ[i])
      BY <1>2
    <3> QED BY <1>6, <3>1, <3>2 DEF AgReads
  <2>4. \A b : Written(b)' => Written(b)
    BY <1>2 DEF Written
  <2>5. ASSUME NEW b, Written(b) PROVE Written(b)' \/ Writes(o, b)
    <3>1. PICK i \in Ag : Writes(agQ[i], b)
      BY <2>5 DEF Written
    <3>2. i = 1 \/ (i - 1 \in Ag' /\ Writes(agQ'[i - 1], b))
      BY <1>2, <3>1
    <3> QED BY <1>6, <3>1, <3>2 DEF Written
  <2> QED BY <2>1, <2>2, <2>4, <2>5, <2>3
<1>8. \A h \in dpu : ~ Awaits(o, h)
  <2>1. CASE o.op = "wait_flag" /\ flag[o.src] = o.n
    BY <1>5, <2>1 DEF Flags, Awaits
  <2>2. CASE o.op = "wait_nccl" /\ dpu = {}
    BY <2>2
  <2>3. CASE o.op \in {"cat", "load"}
    BY <2>3 DEF Awaits
  <2> QED BY <1>3, <2>1, <2>2, <2>3
<1>9. \A h \in dpu : \A i \in Ag : Awaits(agQ[i], h) => i # 1 /\ i - 1 \in Ag' /\ Awaits(agQ'[i - 1], h)
  BY <1>2, <1>6, <1>8
<1>10. Ownership'
  BY <1>1, <1>4, <1>5, <1>7 DEF Ownership, Held, OneOwner, OneParam, OneHandle, OneFree
<1>11. Flags'
  BY <1>1, <1>4, <1>5 DEF Flags, flagPool
<1>12. Awaited'
  <2>1. ASSUME NEW h \in dpu'
        PROVE  \/ \E p \in InFlight' : registry'[p] = h
               \/ \E j \in Ag' : Awaits(agQ'[j], h)
               \/ iter' = 0
    <3>1. \/ \E p \in InFlight : registry[p] = h
          \/ \E j \in Ag : Awaits(agQ[j], h)
          \/ iter = 0
      BY <1>1, <1>5 DEF Awaited
    <3> QED BY <1>1, <1>4, <1>9, <3>1
  <2> QED BY <2>1 DEF Awaited, Awaits
<1>13. BlockInv'
  <2>1. Reads'
    <3> SUFFICES ASSUME NEW k \in Cu', cuQ'[k].op \in {"kernel", "save"}
                 PROVE  HasData(cuQ[k].src)' \/ \E i \in Cu' : k < i /\ cuQ'[i].op = "free" /\ cuQ'[i].src = cuQ'[k].src
      BY DEF Reads
    <3>1. HasData(cuQ[k].src) \/ \E i \in Cu : k < i /\ cuQ[i].op = "free" /\ cuQ[i].src = cuQ[k].src
      BY <1>1, <1>4, <1>5 DEF Reads
    <3>2. cuQ[k].src = cuQ'[k].src
      BY <1>1
    <3> QED BY <1>1, <1>4, <1>7, <3>1, <3>2
  <2>2. Joined'
    <3>1. agPos' + Len(agQ') = agPos + Len(agQ)
      BY <1>1, <1>2
    <3> QED BY <1>1, <1>4, <1>5, <3>1 DEF Joined
  <2> QED BY <1>10, <1>11, <1>12, <2>1, <2>2 DEF BlockInv
<1>14. ASSUME NEW k, NEW j \in Ag', Synced(k, j + 1)
       PROVE  Synced(k, j)'
  <2>1. j \in Nat /\ agPos \in Nat
    BY <1>2
  <2>2. agPos' + j = agPos + (j + 1)
    BY <1>1, <2>1
  <2> QED BY <1>1, <1>4, <1>14, <2>2 DEF Synced
<1>15. ASSUME odd' = {} PROVE StreamInv'
  <2>1. Order /\ Contents /\ Saved
    <3>1. odd \subseteq odd'
      BY <1>3
    <3> QED BY <1>15, <3>1 DEF DataInv, StreamInv
  <2>2. o.op = "cat" => ~ Filling(o.src)
    <3> SUFFICES ASSUME o.op = "cat", NEW h \in dpu, h.out = o.src PROVE FALSE
      BY DEF Filling
    <3>1. PICK j \in Ag : j < 1
      BY <1>2, <1>6, <2>1 DEF Order, Arrived
    <3> QED BY <3>1 DEF Ag
  <2>3. (\A b : Writes(o, b) => b \in Block /\ Written(b)) /\ (o.op = "cat" => o.src \in Block)
    BY <1>2, <1>6, BlockFacts DEF Writes, Written
  <2>4. ASSUME NEW b \in Block
         PROVE  /\ HasData(b) => ~ Gathering(b)
                /\ Gathering(b) => ~ CuFrees(b)
                /\ Written(b) => ~ Filling(b) /\ (HasData(b) \/ CuFrees(b)) /\ b \in held
                /\ AgReads(b) => b \notin held
                /\ Filling(b) => b \in held \/ AgReads(b)
    <3>1. (Written(b) => ~ Filling(b) /\ (HasData(b) \/ CuFrees(b))) /\ (AgReads(b) => b \notin held) /\ (Filling(b) => b \in held \/ AgReads(b))
      BY <2>1 DEF Order, Copies, Dropped
    <3>2. (HasData(b) => ~ Gathering(b)) /\ (Gathering(b) => ~ CuFrees(b)) /\ (HasData(b) \/ CuFrees(b) => b \in held)
      BY <1>5 DEF OneOwner, Held
    <3> QED BY ONLY <3>1, <3>2
  <2>5. \A b \in Block : ~ Writes(o, b) => mem'[b] = mem[b]
    <3>1. mem \in [Block -> Content]
      BY DEF DataTypes, StreamTypes
    <3> QED BY <1>3, <3>1 DEF Writes
  <2>6. Dropped'
    <3> SUFFICES ASSUME NEW b \in Block PROVE (AgReads(b)' => b \notin held) /\ (Filling(b)' => b \in held \/ AgReads(b)')
      BY <1>1 DEF Dropped
    <3>1. o.op = "cat" /\ o.src = b => ~ Filling(b)
      BY <2>2
    <3> QED BY <1>7, <2>4, <3>1
  <2>7. OneGather'
    BY <1>1, <1>4, <2>1 DEF Order, OneGather
  <2>8. Arrived'
    <3>1. ASSUME NEW i \in Ag', NEW h \in dpu', agQ'[i].op = "cat", h.out = agQ'[i].src
          PROVE  \E j \in Ag' : j < i /\ Awaits(agQ'[j], h)
      <4>1. i + 1 \in Ag /\ agQ'[i] = agQ[i + 1] /\ h \in dpu /\ i \in Nat
        BY <1>1, <1>2
      <4>2. PICK j \in Ag : j < i + 1 /\ Awaits(agQ[j], h)
        BY <2>1, <3>1, <4>1 DEF Order, Arrived
      <4>3. j - 1 \in Ag' /\ Awaits(agQ'[j - 1], h) /\ j \in Nat
        BY <1>2, <1>9, <4>1, <4>2
      <4>4. j - 1 < i
        BY <4>1, <4>2, <4>3
      <4> QED BY <4>3, <4>4
    <3> QED BY <3>1 DEF Arrived, Awaits
  <2>9. Copies'
    <3>1. \A b \in Block : Written(b)' => ~ Filling(b)' /\ (HasData(b)' \/ CuFrees(b)')
      BY <1>7, <2>4
    <3>2. ASSUME NEW b \in Block, NEW i \in Ag', NEW j \in Ag', Writes(agQ'[i], b), Writes(agQ'[j], b)
          PROVE  i = j
      <4>1. i + 1 = j + 1 /\ i \in Nat /\ j \in Nat
        BY <1>2, <2>1, <3>2 DEF Order, Copies
      <4> QED BY <4>1
    <3>3. \A b \in Block : \A i, j \in Ag' : Writes(agQ'[i], b) /\ Writes(agQ'[j], b) => i = j
      BY <3>2
    <3> QED BY <3>1, <3>3 DEF Copies, Writes
  <2>10. Ordered'
    <3>1. ASSUME NEW k \in Cu', NEW j \in Ag', cuQ'[k].op \in {"kernel", "save", "free"}, Writes(agQ'[j], cuQ'[k].src)
          PROVE  Synced(k, j)'
      <4>1. k \in Cu /\ cuQ'[k] = cuQ[k] /\ j + 1 \in Ag /\ agQ'[j] = agQ[j + 1]
        BY <1>1, <1>2, <1>4
      <4>2. Synced(k, j + 1)
        BY <2>1, <3>1, <4>1 DEF Order, Ordered
      <4> QED BY <1>14, <4>2
    <3>2. ASSUME NEW k \in Cu', NEW h \in dpu', cuQ'[k].op \in {"kernel", "save", "free"}, h.out = cuQ'[k].src
          PROVE  \E j \in Ag' : Awaits(agQ'[j], h) /\ Synced(k, j)'
      <4>1. k \in Cu /\ cuQ'[k] = cuQ[k] /\ h \in dpu
        BY <1>1, <1>4
      <4>2. PICK j \in Ag : Awaits(agQ[j], h) /\ Synced(k, j)
        BY <2>1, <3>2, <4>1 DEF Order, Ordered
      <4>3. PICK i \in Ag' : i + 1 = j /\ Awaits(agQ'[i], h)
        <5>1. j \in Nat /\ j - 1 \in Ag' /\ Awaits(agQ'[j - 1], h)
          BY <1>2, <1>9, <4>1, <4>2
        <5>2. (j - 1) + 1 = j
          BY <5>1
        <5> QED BY <5>1, <5>2
      <4>4. Synced(k, i + 1)
        BY <4>2, <4>3
      <4> QED BY <1>14, <4>3, <4>4
    <3>3. \A k \in Cu' : \A j \in Ag' :
            cuQ'[k].op \in {"kernel", "save", "free"} /\ Writes(agQ'[j], cuQ'[k].src) => Synced(k, j)'
      BY <3>1
    <3>4. \A k \in Cu' : \A h \in dpu' :
            cuQ'[k].op \in {"kernel", "save", "free"} /\ h.out = cuQ'[k].src => \E j \in Ag' : Awaits(agQ'[j], h) /\ Synced(k, j)'
      BY <3>2
    <3> QED BY <3>3, <3>4 DEF Ordered, Writes, Awaits
  <2>11. ASSUME NEW p, NEW b \in Block, ~ Writes(o, b), Brought(p, b)
         PROVE  Brought(p, b)'
    <3>1. mem'[b] = mem[b] /\ Filling(b)' = Filling(b)
      BY <1>7, <2>5, <2>11
    <3> QED BY <1>1, <2>11, <3>1 DEF Brought
  <2>12. \A i \in Ag : agQ[i].op = "cat" => agQ[i].src \in Block /\ ~ Writes(o, agQ[i].src)
    <3> SUFFICES ASSUME NEW i \in Ag, agQ[i].op = "cat" PROVE agQ[i].src \in Block /\ ~ Writes(o, agQ[i].src)
      OBVIOUS
    <3>1. agQ[i].src \in Block
      BY BlockFacts
    <3>2. AgReads(agQ[i].src)
      BY DEF AgReads
    <3>3. agQ[i].src \notin held
      BY <2>4, <3>1, <3>2
    <3>4. Written(agQ[i].src) => agQ[i].src \in held
      BY <2>4, <3>1
    <3>5. Writes(o, agQ[i].src) => Written(agQ[i].src)
      BY <2>3
    <3> QED BY ONLY <3>1, <3>3, <3>4, <3>5
  <2>13. ASSUME NEW p, NEW b \in Block, Holds(p, b)
         PROVE  Holds(p, b)'
    <3>1. ASSUME NEW j \in Ag', Writes(agQ'[j], b)
          PROVE  agQ'[j].p = p /\ (agQ'[j].op = "cat" => Brought(p, agQ[j].src)')
      <4>1. j + 1 \in Ag /\ agQ'[j] = agQ[j + 1]
        BY <1>2
      <4>2. agQ'[j].p = p /\ (agQ'[j].op = "cat" => Brought(p, agQ'[j].src))
        BY <2>13, <3>1, <4>1 DEF Holds
      <4>3. agQ'[j].op = "cat" => agQ'[j].src \in Block /\ ~ Writes(o, agQ'[j].src)
        BY <2>12, <4>1
      <4>4. ASSUME NEW c, c = agQ'[j].src, agQ'[j].op = "cat" PROVE Brought(p, c)'
        BY <2>11, <4>2, <4>3, <4>4
      <4> QED BY <4>2, <4>4
    <3>2. Written(b)' \/ Brought(p, b)'
      <4>1. CASE Written(b)'
        BY <4>1
      <4>2. CASE ~ Writes(o, b)
        BY <1>7, <2>11, <2>13, <4>2 DEF Holds
      <4>3. CASE Writes(o, b)
        <5>1. o.p = p /\ (o.op = "cat" => Brought(p, o.src)) /\ ~ Filling(b)'
          <6>1. Written(b) /\ ~ Filling(b)
            BY <2>3, <2>4, <4>3
          <6>2. ~ Filling(b)'
            BY <1>7, <6>1
          <6>3. o.p = p /\ (o.op = "cat" => Brought(p, o.src))
            BY <1>2, <1>6, <2>13, <4>3 DEF Holds
          <6> QED BY <6>2, <6>3
        <5>2. mem'[b] = [ps |-> {p}, ver |-> weights]
          <6>1. mem \in [Block -> Content] /\ o.op \in {"cat", "load"} /\ o.dst = b
            BY <4>3 DEF Writes, DataTypes, StreamTypes
          <6>2. CASE o.op = "cat"
            <7>1. mem' = [mem EXCEPT ![o.dst] = [ps |-> mem[o.src].ps \cap {o.p}, ver |-> mem[o.src].ver]]
              BY <1>3, <6>2
            <7>2. Brought(p, o.src) /\ ~ Filling(o.src)
              BY <2>2, <5>1, <6>2
            <7>3. p \in mem[o.src].ps /\ mem[o.src].ver = weights
              BY <7>2 DEF Brought, Filling
            <7>4. mem[o.src].ps \cap {o.p} = {p}
              BY <5>1, <7>3
            <7> QED BY <6>1, <7>1, <7>3, <7>4
          <6>3. CASE o.op = "load"
            <7>1. /\ \A i \in DOMAIN cuQ : ~ (cuQ[i].op = "save" /\ cuQ[i].p = o.p)
                  /\ mem' = [mem EXCEPT ![o.dst] = [ps |-> {o.p}, ver |-> pinned[o.p]]]
              BY <1>3, <1>15, <6>3 DEF SavePending
            <7>2. o.p \in cpuFull
              BY <1>2, <1>6, <2>1, <6>3 DEF Saved
            <7>3. DOMAIN cuQ = Cu
              BY DEF Cu, DataTypes, StreamTypes
            <7>4. pinned[o.p] = weights
              BY <2>1, <7>1, <7>2, <7>3 DEF Saved, Saving
            <7> QED BY <5>1, <6>1, <7>1, <7>4
          <6> QED BY <6>1, <6>2, <6>3
        <5> QED BY <1>1, <5>1, <5>2 DEF Brought
      <4> QED BY <4>1, <4>2, <4>3
    <3> QED BY <3>1, <3>2 DEF Holds, Writes
  <2>14. Contents'
    <3>1. ASSUME NEW q \in InFlight' PROVE FromHost(registry'[q]) \/ Brought(q, registry[q].out)'
      <4>1. q \in InFlight /\ registry'[q] = registry[q]
        BY <1>1, <1>4
      <4>2. FromHost(registry[q]) \/ (Brought(q, registry[q].out) /\ registry[q].out \in Block /\ Gathering(registry[q].out))
        BY <2>1, <4>1, BlockFacts DEF Contents, Gathering
      <4>3. CASE ~ FromHost(registry[q])
        <5>1. ~ Writes(o, registry[q].out)
          <6>1. Gathering(registry[q].out) /\ registry[q].out \in Block
            BY <4>2, <4>3
          <6>2. ~ HasData(registry[q].out) /\ ~ CuFrees(registry[q].out)
            BY <2>4, <6>1
          <6>3. ~ Written(registry[q].out)
            BY <2>4, <6>1, <6>2
          <6> QED BY <2>3, <6>3
        <5>2. ASSUME NEW b, b = registry'[q].out PROVE Brought(q, b)'
          BY <2>11, <4>1, <4>2, <4>3, <5>1, <5>2
        <5> QED BY <5>2
      <4> QED BY <4>1, <4>3
    <3>2. ASSUME NEW q \in Available' PROVE iter' = 0 \/ Holds(q, data[q])'
      <4>1. data'[q] = data[q] /\ (iter = 0 \/ Holds(q, data[q])) /\ iter' = iter /\ data[q] \in Block
        BY <1>1, <1>4, <2>1, BlockFacts DEF Contents
      <4> QED BY <2>13, <4>1
    <3>3. ASSUME NEW k \in Cu', cuQ'[k].op = "kernel" PROVE cuQ'[k].n = weights' /\ Holds(cuQ[k].p, cuQ[k].src)'
      <4>1. cuQ'[k] = cuQ[k] /\ cuQ[k].n = weights /\ Holds(cuQ[k].p, cuQ[k].src) /\ cuQ[k].src \in Block
        BY <1>1, <1>4, <2>1, <3>3, BlockFacts DEF Contents
      <4> QED BY <1>1, <2>13, <4>1
    <3> QED BY <3>1, <3>2, <3>3 DEF Contents, FromHost
  <2>15. Saved'
    <3>1. ASSUME NEW k \in Cu', cuQ'[k].op = "save", cuQ'[k].p \in cpuFull'
          PROVE  \/ Holds(cuQ[k].p, cuQ[k].src)'
                 \/ \E i \in Cu' : k < i /\ cuQ'[i].op = "save" /\ cuQ'[i].p = cuQ'[k].p
      <4>1. k \in Cu /\ cuQ'[k] = cuQ[k] /\ cuQ[k].src \in Block
        BY <1>1, <1>4, <3>1, BlockFacts
      <4>2. \/ Holds(cuQ[k].p, cuQ[k].src)
            \/ \E i \in Cu : k < i /\ cuQ[i].op = "save" /\ cuQ[i].p = cuQ[k].p
        BY <1>1, <2>1, <3>1, <4>1 DEF Saved
      <4> QED BY <1>1, <1>4, <2>13, <4>1, <4>2
    <3>2. \A q \in cpuFull' : Saving(q)' \/ pinned'[q] = weights'
      BY <1>1, <1>4, <2>1 DEF Saved, Saving
    <3>3. ASSUME NEW j \in Ag', agQ'[j].op = "load" PROVE fetching' # NoMod /\ agQ'[j].p \in cpuFull'
      <4>1. j + 1 \in Ag /\ agQ'[j] = agQ[j + 1]
        BY <1>2
      <4> QED BY <1>1, <2>1, <3>3, <4>1 DEF Saved
    <3> QED BY <3>1, <3>2, <3>3 DEF Saved
  <2>16. Order'
    BY <2>6, <2>7, <2>8, <2>9, <2>10 DEF Order
  <2> QED BY <2>16, <2>14, <2>15 DEF StreamInv
<1> QED BY <1>13, <1>15 DEF DataInv

\* The compute stream has come to what it executes: nothing is written there.
LEMMA HeadRead ==
  ASSUME CtlInv, DataTypes, Order, cuQ # <<>>, cuQ[1].op \in {"kernel", "save", "free"}
  PROVE  ~ Written(cuQ[1].src) /\ ~ Filling(cuQ[1].src)
<1>1. 1 \in Cu
  BY DEF Cu, DataTypes, StreamTypes
<1>2. \A j : ~ Synced(1, j)
  BY DEF Synced, Cu
<1> QED BY <1>1, <1>2 DEF Order, Ordered, Written, Filling

\* The compute stream executes its first operation.
LEMMA CuPopKeeps ==
  ASSUME CtlInv, DataTypes, DataInv, HostKept, ComputeStream
  PROVE  DataInv'
<1> DEFINE o == cuQ[1]
<1>1. /\ cuQ # <<>> /\ cuQ' = Tail(cuQ)
      /\ UNCHANGED <<transport, dpu, flag, gens, nextSlot, agQ, agPos, weights, odd>>
      /\ UNCHANGED <<status, registry, data, cpuFull, fetching, iter>>
  BY DEF ComputeStream, HostKept
<1>2. /\ \A i \in Cu' : i \in Nat /\ i + 1 \in Cu /\ i + 1 # 1 /\ cuQ'[i] = cuQ[i + 1]
      /\ \A i \in Cu : i \in Nat /\ (i = 1 \/ (i - 1 \in Cu' /\ cuQ'[i - 1] = cuQ[i]))
      /\ 1 \in Cu /\ Head(cuQ) = o /\ o \in CuOps
  BY <1>1, CuPop
<1>3. \/ o.op = "wait_stream" /\ o.n <= agPos /\ UNCHANGED <<held, mem, pinned>>
      \/ o.op = "kernel" /\ UNCHANGED <<held, mem, pinned>>
      \/ o.op = "save" /\ pinned' = [pinned EXCEPT ![o.p] = mem[o.src].ver] /\ UNCHANGED <<held, mem>>
      \/ o.op = "free" /\ held' = held \ {o.src} /\ mem' = [mem EXCEPT ![o.src] = Nothing] /\ UNCHANGED pinned
  <2> HIDE DEF o
  <2> QED BY <1>2 DEF ComputeStream
<1> HIDE DEF o
<1>4. Ag' = Ag /\ InFlight' = InFlight /\ Available' = Available
  BY <1>1 DEF Ag, InFlight, Available
<1>5. Held /\ OneOwner /\ OneParam /\ OneHandle /\ OneFree /\ Flags /\ Awaited /\ Reads /\ Joined
  BY DEF DataInv, BlockInv, Ownership
<1>6. cuQ[1] = o
  BY DEF o
<1>7. \A b : /\ HasData(b)' = HasData(b) /\ Gathering(b)' = Gathering(b) /\ AgReads(b)' = AgReads(b)
             /\ Filling(b)' = Filling(b) /\ Written(b)' = Written(b)
             /\ CuFrees(b)' => CuFrees(b)
             /\ CuFrees(b) => CuFrees(b)' \/ (o.op = "free" /\ o.src = b)
  <2>1. \A b : /\ HasData(b)' = HasData(b) /\ Gathering(b)' = Gathering(b) /\ AgReads(b)' = AgReads(b)
               /\ Filling(b)' = Filling(b) /\ Written(b)' = Written(b)
    BY <1>1, <1>4 DEF HasData, Gathering, AgReads, Filling, Written
  <2>2. \A b : CuFrees(b)' => CuFrees(b)
    BY <1>2 DEF CuFrees
  <2>3. ASSUME NEW b, CuFrees(b) PROVE CuFrees(b)' \/ (o.op = "free" /\ o.src = b)
    <3>1. PICK i \in Cu : cuQ[i].op = "free" /\ cuQ[i].src = b
      BY <2>3 DEF CuFrees
    <3>2. i = 1 \/ (i - 1 \in Cu' /\ cuQ'[i - 1] = cuQ[i])
      BY <1>2, <3>1
    <3> QED BY <1>6, <3>1, <3>2 DEF CuFrees
  <2> QED BY <2>1, <2>2, <2>3
<1>8. /\ o.op \in {"kernel", "save", "free"} => o.src \in Block
      /\ o.op = "free" => CuFrees(o.src)
      /\ o.op = "wait_stream" => o.n \in Nat
  BY <1>2, <1>6, BlockFacts, CuOpFacts DEF CuFrees
<1>9. ASSUME NEW b \in Block
       PROVE  /\ HasData(b) => ~ Gathering(b) /\ ~ CuFrees(b)
              /\ Gathering(b) => ~ CuFrees(b)
              /\ HasData(b) \/ Gathering(b) \/ CuFrees(b) => b \in held
  <2>1. (HasData(b) => ~ Gathering(b) /\ ~ CuFrees(b)) /\ (Gathering(b) => ~ CuFrees(b))
    BY <1>5 DEF OneOwner
  <2>2. HasData(b) \/ Gathering(b) \/ CuFrees(b) => b \in held
    BY <1>5 DEF Held
  <2> QED BY ONLY <2>1, <2>2
<1>10. held' = (IF o.op = "free" THEN held \ {o.src} ELSE held)
  BY <1>3
<1>11. ASSUME o.op = "free", NEW b, b = o.src PROVE ~ CuFrees(b)'
  <2> SUFFICES ASSUME NEW i \in Cu', cuQ'[i].op = "free", cuQ'[i].src = b PROVE FALSE
    BY DEF CuFrees
  <2>1. i + 1 \in Cu /\ i + 1 # 1 /\ cuQ[i + 1].op = "free" /\ cuQ[i + 1].src = o.src
    BY <1>2, <1>11
  <2> QED BY <1>2, <1>5, <1>6, <1>11, <2>1 DEF OneFree
<1>12. Ownership'
  <2>1. Held'
    <3> SUFFICES ASSUME NEW b \in Block, HasData(b)' \/ Gathering(b)' \/ CuFrees(b)' PROVE b \in held'
      BY DEF Held
    <3>1. HasData(b) \/ Gathering(b) \/ CuFrees(b)
      BY <1>7
    <3>2. CASE o.op = "free" /\ b = o.src
      <4>1. ~ CuFrees(b)' /\ CuFrees(b)
        BY <1>8, <1>11, <3>2
      <4> QED BY <1>7, <1>9, <4>1
    <3> QED BY <1>9, <1>10, <3>1, <3>2
  <2>2. OneOwner'
    <3> SUFFICES ASSUME NEW b \in Block
                 PROVE  /\ HasData(b)' => ~ Gathering(b)' /\ ~ CuFrees(b)'
                        /\ Gathering(b)' => ~ CuFrees(b)'
      BY DEF OneOwner
    <3> QED BY <1>7, <1>9
  <2>3. OneParam' /\ OneHandle'
    BY <1>1, <1>4, <1>5 DEF OneParam, OneHandle
  <2>4. ASSUME NEW i \in Cu', NEW j \in Cu', cuQ'[i].op = "free", cuQ'[j].op = "free", cuQ'[i].src = cuQ'[j].src
        PROVE  i = j
    <3>1. i + 1 = j + 1 /\ i \in Nat /\ j \in Nat
      BY <1>2, <1>5, <2>4 DEF OneFree
    <3> QED BY <3>1
  <2> QED BY <2>1, <2>2, <2>3, <2>4 DEF Ownership, OneFree
<1>13. Flags' /\ Awaited'
  <2>1. Flags'
    BY <1>1, <1>4, <1>5 DEF Flags, flagPool
  <2>2. Awaited'
    BY <1>1, <1>4, <1>5 DEF Awaited
  <2> QED BY <2>1, <2>2
<1>14. \A j \in Ag : o.op = "wait_stream" => ~ (o.n >= agPos + j)
  <2> SUFFICES ASSUME NEW j \in Ag, o.op = "wait_stream" PROVE ~ (o.n >= agPos + j)
    OBVIOUS
  <2>1. o.n \in Nat /\ o.n <= agPos /\ agPos \in Nat /\ j \in Nat /\ j >= 1
    BY <1>3, <1>8 DEF Ag, DataTypes, StreamTypes
  <2> QED BY ONLY <2>1
<1>15. ASSUME NEW k \in Cu', NEW j \in Ag, Synced(k + 1, j)
       PROVE  Synced(k, j)'
  <2>1. PICK i \in Cu : i < k + 1 /\ cuQ[i].op = "wait_stream" /\ cuQ[i].n >= agPos + j
    BY <1>15 DEF Synced
  <2>2. i # 1
    BY <1>6, <1>14, <2>1
  <2>3. i \in Nat /\ k \in Nat /\ i - 1 \in Cu' /\ cuQ'[i - 1] = cuQ[i]
    BY <1>2, <2>1, <2>2
  <2>4. i - 1 < k
    BY <2>1, <2>3
  <2> QED BY <1>1, <2>1, <2>3, <2>4 DEF Synced
<1>16. BlockInv'
  <2>1. Reads'
    <3> SUFFICES ASSUME NEW k \in Cu', cuQ'[k].op \in {"kernel", "save"}
                 PROVE  HasData(cuQ[k].src)' \/ \E i \in Cu' : k < i /\ cuQ'[i].op = "free" /\ cuQ'[i].src = cuQ'[k].src
      BY DEF Reads
    <3>1. k + 1 \in Cu /\ cuQ'[k] = cuQ[k + 1] /\ k \in Nat
      BY <1>2
    <3>2. HasData(cuQ'[k].src) \/ \E i \in Cu : k + 1 < i /\ cuQ[i].op = "free" /\ cuQ[i].src = cuQ'[k].src
      BY <1>5, <3>1 DEF Reads
    <3>3. CASE HasData(cuQ'[k].src)
      <4>1. ASSUME NEW b, b = cuQ'[k].src PROVE HasData(b)'
        BY <1>7, <3>3, <4>1
      <4> QED BY <4>1
    <3>4. CASE \E i \in Cu : k + 1 < i /\ cuQ[i].op = "free" /\ cuQ[i].src = cuQ'[k].src
      <4>1. PICK i \in Cu : k + 1 < i /\ cuQ[i].op = "free" /\ cuQ[i].src = cuQ'[k].src
        BY <3>4
      <4>2. i \in Nat /\ i # 1
        BY <1>2, <3>1, <4>1
      <4>3. i - 1 \in Cu' /\ cuQ'[i - 1] = cuQ[i] /\ k < i - 1
        BY <1>2, <3>1, <4>1, <4>2
      <4> QED BY <4>1, <4>3
    <3> QED BY <3>2, <3>3, <3>4
  <2>2. Joined'
    <3> SUFFICES ASSUME fetching = NoMod, agQ # <<>>
                 PROVE  \E k \in Cu' : cuQ'[k].op = "wait_stream" /\ cuQ'[k].n >= agPos + Len(agQ)
      BY <1>1 DEF Joined
    <3>1. PICK k \in Cu : cuQ[k].op = "wait_stream" /\ cuQ[k].n >= agPos + Len(agQ)
      BY <1>5 DEF Joined
    <3>2. Len(agQ) \in Ag
      BY DEF Ag, DataTypes, StreamTypes
    <3>3. k # 1
      BY <1>6, <1>14, <3>1, <3>2
    <3> QED BY <1>2, <3>1, <3>3
  <2> QED BY <1>12, <1>13, <2>1, <2>2 DEF BlockInv
<1>17. \A b \in Block : ~ (o.op = "free" /\ b = o.src) => mem'[b] = mem[b]
  BY <1>3 DEF DataTypes, StreamTypes
<1>18. ASSUME NEW b \in Block, HasData(b) \/ Gathering(b) PROVE ~ (o.op = "free" /\ b = o.src)
  BY <1>8, <1>9, <1>18
<1>19. ASSUME NEW k \in Cu', cuQ'[k].op \in {"kernel", "save"}, NEW b, b = cuQ'[k].src
       PROVE  b \in Block /\ ~ (o.op = "free" /\ b = o.src)
  <2>1. k + 1 \in Cu /\ cuQ'[k] = cuQ[k + 1] /\ k \in Nat
    BY <1>2
  <2>2. b \in Block
    BY <1>19, <2>1, BlockFacts, CuOpFacts
  <2>3. HasData(b) \/ \E i \in Cu : k + 1 < i /\ cuQ[i].op = "free" /\ cuQ[i].src = b
    BY <1>5, <1>19, <2>1 DEF Reads
  <2>4. ASSUME NEW i \in Cu, k + 1 < i, cuQ[i].op = "free", cuQ[i].src = b, o.op = "free", b = o.src PROVE FALSE
    <3>1. i = 1
      BY <1>2, <1>5, <1>6, <2>4 DEF OneFree
    <3> QED BY <2>1, <2>4, <3>1
  <2> QED BY <1>18, <2>2, <2>3, <2>4
<1>20. ASSUME odd' = {} PROVE StreamInv'
  <2>1. Order /\ Contents /\ Saved
    BY <1>1, <1>20 DEF DataInv, StreamInv
  <2>2. o.op \in {"kernel", "save", "free"} => ~ Written(o.src) /\ ~ Filling(o.src)
    BY <1>1, <1>6, <2>1, HeadRead
  <2>3. ASSUME NEW b \in Block
         PROVE  /\ Written(b) => ~ Filling(b) /\ (HasData(b) \/ CuFrees(b))
                /\ AgReads(b) => b \notin held
                /\ Filling(b) => b \in held \/ AgReads(b)
    BY <2>1 DEF Order, Copies, Dropped
  <2>4. o.op = "free" => o.src \in held /\ ~ AgReads(o.src)
    BY <1>8, <1>9, <2>3
  <2>5. Dropped'
    <3> SUFFICES ASSUME NEW b \in Block PROVE (AgReads(b)' => b \notin held') /\ (Filling(b)' => b \in held' \/ AgReads(b)')
      BY DEF Dropped
    <3> QED BY <1>7, <2>2, <1>10, <2>3
  <2>6. OneGather' /\ Arrived'
    <3>1. OneGather'
      BY <1>1, <1>4, <2>1 DEF Order, OneGather
    <3>2. Arrived'
      BY <1>1, <1>4, <2>1 DEF Order, Arrived, Awaits
    <3> QED BY <3>1, <3>2
  <2>7. Copies'
    <3>1. \A b \in Block : Written(b)' => ~ Filling(b)' /\ (HasData(b)' \/ CuFrees(b)')
      BY <1>7, <2>2, <2>3
    <3>2. \A b \in Block : \A i, j \in Ag' : Writes(agQ'[i], b) /\ Writes(agQ'[j], b) => i = j
      BY <1>1, <1>4, <2>1 DEF Order, Copies
    <3> QED BY <3>1, <3>2 DEF Copies, Writes
  <2>8. Ordered'
    <3>1. ASSUME NEW k \in Cu', NEW j \in Ag', cuQ'[k].op \in {"kernel", "save", "free"}, Writes(agQ'[j], cuQ'[k].src)
          PROVE  Synced(k, j)'
      <4>1. k + 1 \in Cu /\ cuQ'[k] = cuQ[k + 1] /\ j \in Ag /\ agQ'[j] = agQ[j]
        BY <1>1, <1>2, <1>4
      <4>2. Synced(k + 1, j)
        BY <2>1, <3>1, <4>1 DEF Order, Ordered
      <4> QED BY <1>15, <4>1, <4>2
    <3>2. ASSUME NEW k \in Cu', NEW h \in dpu', cuQ'[k].op \in {"kernel", "save", "free"}, h.out = cuQ'[k].src
          PROVE  \E j \in Ag' : Awaits(agQ'[j], h) /\ Synced(k, j)'
      <4>1. k + 1 \in Cu /\ cuQ'[k] = cuQ[k + 1] /\ h \in dpu
        BY <1>1, <1>2
      <4>2. PICK j \in Ag : Awaits(agQ[j], h) /\ Synced(k + 1, j)
        BY <2>1, <3>2, <4>1 DEF Order, Ordered
      <4> QED BY <1>1, <1>4, <1>15, <4>2
    <3>3. \A k \in Cu' : \A j \in Ag' :
            cuQ'[k].op \in {"kernel", "save", "free"} /\ Writes(agQ'[j], cuQ'[k].src) => Synced(k, j)'
      BY <3>1
    <3>4. \A k \in Cu' : \A h \in dpu' :
            cuQ'[k].op \in {"kernel", "save", "free"} /\ h.out = cuQ'[k].src => \E j \in Ag' : Awaits(agQ'[j], h) /\ Synced(k, j)'
      BY <3>2
    <3> QED BY <3>3, <3>4 DEF Ordered, Writes, Awaits
  <2>9. ASSUME NEW p, NEW b \in Block, ~ (o.op = "free" /\ b = o.src), Brought(p, b)
         PROVE  Brought(p, b)'
    BY <1>1, <1>7, <1>17, <2>9 DEF Brought
  <2>10. \A i \in Ag : agQ[i].op = "cat" => agQ[i].src \in Block /\ ~ (o.op = "free" /\ agQ[i].src = o.src)
    <3> SUFFICES ASSUME NEW i \in Ag, agQ[i].op = "cat" PROVE agQ[i].src \in Block /\ ~ (o.op = "free" /\ agQ[i].src = o.src)
      OBVIOUS
    <3>1. agQ[i].src \in Block
      BY BlockFacts
    <3>2. AgReads(agQ[i].src)
      BY DEF AgReads
    <3> QED BY <2>4, <3>1, <3>2
  <2>11. ASSUME NEW p, NEW b \in Block, ~ (o.op = "free" /\ b = o.src), Holds(p, b)
         PROVE  Holds(p, b)'
    <3>1. ASSUME NEW j \in Ag', Writes(agQ'[j], b)
          PROVE  agQ'[j].p = p /\ (agQ'[j].op = "cat" => Brought(p, agQ[j].src)')
      <4>1. j \in Ag /\ agQ'[j] = agQ[j]
        BY <1>1, <1>4
      <4>2. agQ'[j].p = p /\ (agQ'[j].op = "cat" => Brought(p, agQ'[j].src))
        BY <2>11, <3>1, <4>1 DEF Holds
      <4>3. agQ'[j].op = "cat" => agQ'[j].src \in Block /\ ~ (o.op = "free" /\ agQ'[j].src = o.src)
        BY <2>10, <4>1
      <4>4. ASSUME NEW c, c = agQ'[j].src, agQ'[j].op = "cat" PROVE Brought(p, c)'
        BY <2>9, <4>2, <4>3, <4>4
      <4> QED BY <4>2, <4>4
    <3>2. Written(b)' \/ Brought(p, b)'
      BY <1>7, <2>9, <2>11 DEF Holds
    <3> QED BY <3>1, <3>2 DEF Holds, Writes
  <2>12. Contents'
    <3>1. ASSUME NEW q \in InFlight' PROVE FromHost(registry'[q]) \/ Brought(q, registry[q].out)'
      <4>1. q \in InFlight /\ registry'[q] = registry[q]
        BY <1>1, <1>4
      <4>2. FromHost(registry[q]) \/ (Brought(q, registry[q].out) /\ registry[q].out \in Block /\ Gathering(registry[q].out))
        BY <2>1, <4>1, BlockFacts DEF Contents, Gathering
      <4>3. CASE ~ FromHost(registry[q])
        <5>1. ~ (o.op = "free" /\ registry[q].out = o.src)
          BY <1>18, <4>2, <4>3
        <5>2. ASSUME NEW b, b = registry'[q].out PROVE Brought(q, b)'
          BY <2>9, <4>1, <4>2, <4>3, <5>1, <5>2
        <5> QED BY <5>2
      <4> QED BY <4>1, <4>3
    <3>2. ASSUME NEW q \in Available' PROVE iter' = 0 \/ Holds(q, data[q])'
      <4>1. data'[q] = data[q] /\ (iter = 0 \/ Holds(q, data[q])) /\ iter' = iter /\ data[q] \in Block /\ HasData(data[q])
        BY <1>1, <1>4, <2>1, BlockFacts DEF Contents, HasData
      <4> QED BY <1>18, <2>11, <4>1
    <3>3. ASSUME NEW k \in Cu', cuQ'[k].op = "kernel" PROVE cuQ'[k].n = weights' /\ Holds(cuQ[k].p, cuQ[k].src)'
      <4>1. k + 1 \in Cu /\ cuQ'[k] = cuQ[k + 1]
        BY <1>2
      <4>2. cuQ'[k].n = weights /\ Holds(cuQ'[k].p, cuQ'[k].src)
        BY <2>1, <3>3, <4>1 DEF Contents
      <4>3. ASSUME NEW p, NEW b, p = cuQ'[k].p, b = cuQ'[k].src PROVE Holds(p, b)'
        BY <1>19, <2>11, <3>3, <4>2, <4>3
      <4> QED BY <1>1, <4>2, <4>3
    <3> QED BY <3>1, <3>2, <3>3 DEF Contents, FromHost
  <2>13. Saved'
    <3>1. ASSUME NEW k \in Cu', cuQ'[k].op = "save", cuQ'[k].p \in cpuFull'
          PROVE  \/ Holds(cuQ[k].p, cuQ[k].src)'
                 \/ \E i \in Cu' : k < i /\ cuQ'[i].op = "save" /\ cuQ'[i].p = cuQ'[k].p
      <4>1. k + 1 \in Cu /\ cuQ'[k] = cuQ[k + 1] /\ k \in Nat
        BY <1>2
      <4>2. \/ Holds(cuQ'[k].p, cuQ'[k].src)
            \/ \E i \in Cu : k + 1 < i /\ cuQ[i].op = "save" /\ cuQ[i].p = cuQ'[k].p
        BY <1>1, <2>1, <3>1, <4>1 DEF Saved
      <4>3. CASE Holds(cuQ'[k].p, cuQ'[k].src)
        <5>1. ASSUME NEW p, NEW b, p = cuQ'[k].p, b = cuQ'[k].src PROVE Holds(p, b)'
          BY <1>19, <2>11, <3>1, <4>3, <5>1
        <5> QED BY <5>1
      <4>4. CASE \E i \in Cu : k + 1 < i /\ cuQ[i].op = "save" /\ cuQ[i].p = cuQ'[k].p
        <5>1. PICK i \in Cu : k + 1 < i /\ cuQ[i].op = "save" /\ cuQ[i].p = cuQ'[k].p
          BY <4>4
        <5>2. i \in Nat /\ i # 1
          BY <1>2, <4>1, <5>1
        <5>3. i - 1 \in Cu' /\ cuQ'[i - 1] = cuQ[i] /\ k < i - 1
          BY <1>2, <4>1, <5>1, <5>2
        <5> QED BY <5>1, <5>3
      <4> QED BY <4>2, <4>3, <4>4
    <3>2. ASSUME NEW p \in cpuFull', ~ Saving(p)' PROVE pinned'[p] = weights'
      <4>1. pinned \in [Params -> Nat] /\ p \in cpuFull /\ p \in Params /\ weights' = weights
        BY <1>1 DEF DataTypes, ParamTypes
      <4>2. \A i \in Cu : cuQ[i].op = "save" /\ cuQ[i].p = p => i = 1
        BY <1>2, <3>2 DEF Saving
      <4>3. CASE o.op = "save" /\ o.p = p
        <5>1. Holds(p, o.src)
          <6>1. ~ \E i \in Cu : 1 < i /\ cuQ[i].op = "save" /\ cuQ[i].p = cuQ[1].p
            BY <1>6, <4>2, <4>3
          <6> QED BY <1>2, <2>1, <1>6, <4>1, <4>3, <6>1 DEF Saved
        <5>2. ~ Written(o.src) /\ ~ Filling(o.src)
          BY <2>2, <4>3
        <5>3. mem[o.src].ver = weights
          BY <5>1, <5>2 DEF Holds, Brought, Filling
        <5>4. pinned' = [pinned EXCEPT ![o.p] = mem[o.src].ver]
          BY <1>3, <4>3
        <5> QED BY <4>1, <4>3, <5>3, <5>4
      <4>4. CASE ~ (o.op = "save" /\ o.p = p)
        <5>1. ~ Saving(p)
          BY <1>6, <4>2, <4>4 DEF Saving
        <5>2. pinned[p] = weights
          BY <2>1, <4>1, <5>1 DEF Saved
        <5>3. pinned'[p] = pinned[p]
          BY <1>3, <4>1, <4>4
        <5> QED BY <4>1, <5>2, <5>3
      <4> QED BY <4>3, <4>4
    <3>3. \A j \in Ag' : agQ'[j].op = "load" => fetching' # NoMod /\ agQ'[j].p \in cpuFull'
      BY <1>1, <1>4, <2>1 DEF Saved
    <3> QED BY <3>1, <3>2, <3>3 DEF Saved
  <2>14. Order'
    BY <2>5, <2>6, <2>7, <2>8 DEF Order
  <2> QED BY <2>14, <2>12, <2>13 DEF StreamInv
<1> QED BY <1>16, <1>20 DEF DataInv

-----------------------------------------------------------------------------
(* Every step *)

\* When the program starts nothing is queued.
LEMMA DataStarts ==
  ASSUME Init
  PROVE  DataInv
<1>1. /\ dpu = {} /\ agQ = <<>> /\ cuQ = <<>> /\ agPos = 0 /\ iter = 0 /\ cpuFull = {}
      /\ odd = {} /\ flag = [s \in Slot |-> 0] /\ gens = [s \in Slot |-> 0]
      /\ held = {ModelBlock[p] : p \in Params} /\ data = ModelBlock
      /\ status = [p \in Params |-> "AVAILABLE"]
  BY DEF Init, StreamsInit, CoordinatorInit
<1>2. Ag = {} /\ Cu = {} /\ InFlight = {} /\ Available = Params
  BY <1>1 DEF Ag, Cu, InFlight, Available
<1>3. \A b : ~ Gathering(b) /\ ~ AgReads(b) /\ ~ CuFrees(b) /\ ~ Filling(b) /\ ~ Written(b)
  BY <1>1, <1>2 DEF Gathering, AgReads, CuFrees, Filling, Written
<1>4. Ownership
  <2>1. Held
    BY <1>1, <1>2, <1>3 DEF Held, HasData
  <2>2. OneOwner
    BY <1>3 DEF OneOwner
  <2>3. OneParam
    BY <1>1, <1>2, ModelBlocks DEF OneParam
  <2>4. OneHandle /\ OneFree
    BY <1>1, <1>2 DEF OneHandle, OneFree
  <2> QED BY <2>1, <2>2, <2>3, <2>4 DEF Ownership
<1>5. Flags
  <2>1. \A s \in Slot : flag[s] <= gens[s]
    BY <1>1
  <2> QED BY <1>1, <1>2, <2>1 DEF Flags
<1>6. Awaited
  BY <1>1, <1>2 DEF Awaited
<1>7. Reads /\ Joined
  BY <1>1, <1>2 DEF Reads, Joined
<1>8. Order
  <2>1. Dropped /\ Copies
    BY <1>2, <1>3 DEF Dropped, Copies
  <2>2. OneGather /\ Arrived /\ Ordered
    BY <1>1, <1>2 DEF OneGather, Arrived, Ordered
  <2> QED BY <2>1, <2>2 DEF Order
<1>9. Contents /\ Saved
  BY <1>1, <1>2 DEF Contents, Saved
<1> QED BY <1>4, <1>5, <1>6, <1>7, <1>8, <1>9 DEF DataInv, BlockInv, StreamInv

\* Every step keeps who has a block, what is written to it and when it is read.
LEMMA DataInvStep ==
  ASSUME CtlInv, DataTypes, Starting, DataInv, DataStep
  PROVE  DataInv'
<1>1. CASE Idle \/ Update \/ Begin \/ \E p \in Params : Took(p)
  <2>1. /\ UNCHANGED <<transport, dpu, flag, gens, agQ, agPos, cuQ, held, mem, pinned, odd, status, data, cpuFull, fetching>>
        /\ registry' = registry \/ \E p \in Params : p \notin InFlight /\ registry' = [registry EXCEPT ![p] = NoHandle]
    BY <1>1 DEF Idle, Update, Begin, Took, DeviceKept
  <2>2. \A p \in InFlight : registry'[p] = registry[p]
    <3>1. registry \in [Params -> Handle] /\ InFlight \subseteq Params
      BY DEF DataTypes, ParamTypes, InFlight
    <3> QED BY <2>1, <3>1
  <2>3. weights' = weights \/ (Available = {} /\ InFlight = {} /\ KernelsDrained /\ cpuFull = {})
    BY <1>1 DEF Idle, Update, Begin, Took, DeviceKept
  <2>4. iter' = iter \/ (Available = {} /\ (iter = 0 => dpu = {}))
    BY <1>1 DEF Idle, Update, Begin, Took, DeviceKept
  <2>5. Still
    BY <2>1, <2>2, <2>3, <2>4 DEF Still
  <2> QED BY <2>5, StillKeeps
<1>2. CASE \E R \in SUBSET Params : \E K \in Seq(CuOps) : Launch(R, K)
  BY <1>2, LaunchKeeps
<1>3. CASE \E J \in {<<>>, JoinOps} : Joins(J) /\ (NoAsk \/ \E ps \in SUBSET Params : \E h \in Handle : Ask(ps, h))
  BY <1>3, AskKeeps
<1>4. CASE \E p \in Params : \E W \in Seq(AgOps) : Take(p, W)
  BY <1>4, TakeKeeps
<1>5. CASE \E p \in Params : \E h \in Handle : Bring(p, h)
  BY <1>5, BringKeeps
<1>6. CASE HostKept /\ \E h \in dpu : DpuGather(h)
  BY <1>6, GatherKeeps
<1>7. CASE HostKept /\ AllGatherStream
  BY <1>7, AgPopKeeps
<1>8. CASE HostKept /\ ComputeStream
  BY <1>8, CuPopKeeps
<1> QED BY <1>1, <1>2, <1>3, <1>4, <1>5, <1>6, <1>7, <1>8 DEF DataStep

\* The invariant of the streams and the blocks: who has a block, whatever the
\* order of the accesses, and what the blocks hold while none is out of order.
THEOREM DataInvariance ==
  Spec => [](TypeInv /\ DataInv)
<1>1. Init => TypeInv /\ DataInv
  BY CtlInit, DataInit, DataStarts DEF TypeInv
<1>2. TypeInv /\ TypeInv' /\ DataInv /\ [Next]_vars => DataInv'
  BY DataSteps, DataInvStep DEF TypeInv
<1> QED BY <1>1, <1>2, TypeInvariance, PTL DEF Spec

\* A kernel that runs reads the parameter it was queued for, gathered from
\* this iteration's shards, unless one of the two accesses that nothing orders
\* has come out of order: a buffer given out again before it has been copied
\* from, or host memory read before it was written.
THEOREM KernelsReadTheirParameters ==
  Spec => []KernelDataCorrect
<1>1. TypeInv /\ DataInv => KernelDataCorrect
  <2> SUFFICES ASSUME TypeInv, DataInv, odd = {}, cuQ # <<>>, Head(cuQ).op = "kernel"
               PROVE  Head(cuQ).p \in mem[Head(cuQ).src].ps /\ mem[Head(cuQ).src].ver = Head(cuQ).n
    BY DEF KernelDataCorrect
  <2>1. CtlInv /\ DataTypes /\ Order /\ Contents
    BY DEF TypeInv, DataInv, StreamInv
  <2>2. Head(cuQ) = cuQ[1] /\ 1 \in Cu
    BY <2>1 DEF DataTypes, StreamTypes, Cu
  <2>3. ~ Written(cuQ[1].src) /\ ~ Filling(cuQ[1].src)
    BY <2>1, <2>2, HeadRead
  <2>4. cuQ[1].n = weights /\ Holds(cuQ[1].p, cuQ[1].src)
    BY <2>1, <2>2 DEF Contents
  <2> QED BY <2>2, <2>3, <2>4 DEF Holds, Brought, Filling
<1> QED BY <1>1, DataInvariance, PTL
=============================================================================
