---------------------------- MODULE SumTheorems ----------------------------
EXTENDS Integers, FiniteSets, Functions, FiniteSetTheorems, TLAPS

LEMMA NatSetInduction ==
  ASSUME NEW P \in SUBSET Nat, 0 \in P, \A n \in P : n + 1 \in P
  PROVE  P = Nat
PROOF
  <1> DEFINE R == {ss \in Nat \X Nat : ss[1] < ss[2]}
             T == Nat \ P
  <1>1. IsWellFoundedOn(R, Nat)
    BY NatLessThanWellFounded DEF OpToRel
  <1>2. SUFFICES ASSUME T # {} PROVE FALSE
    OBVIOUS
  <1>3. PICK n \in T : \A m \in T : <<m, n>> \notin R
    <2> HIDE DEF R, T
    <2>1. T \subseteq Nat
      BY DEF T
    <2> QED
      BY <1>1, <1>2, <2>1, WFMin
  <1>4. n # 0 /\ n \in Nat /\ n - 1 \in Nat /\ n - 1 + 1 = n
    BY <1>3
  <1>5. n - 1 \in T
    BY <1>3, <1>4
  <1>6. <<n - 1, n>> \in R
    BY <1>4
  <1> QED
    BY <1>3, <1>5, <1>6

(* Whatever holds of the empty set and survives one more element holds of  *)
(* every finite set.                                                       *)
LEMMA FiniteSetsAll ==
  ASSUME NEW S, IsFiniteSet(S), NEW P, {} \in P,
         \A s \in SUBSET S : \A x \in S \ s : s \in P => s \cup {x} \in P
  PROVE  \A s \in SUBSET S : s \in P
PROOF
  <1> DEFINE N == {n \in Nat : \A s \in SUBSET S : Cardinality(s) = n => s \in P}
  <1>1. \A s \in SUBSET S : IsFiniteSet(s) /\ Cardinality(s) \in Nat
    BY FS_Subset, FS_CardinalityType
  <1>2. 0 \in N
    BY <1>1, FS_EmptySet
  <1>3. ASSUME NEW n \in N PROVE n + 1 \in N
    <2> SUFFICES ASSUME NEW s \in SUBSET S, Cardinality(s) = n + 1 PROVE s \in P
      BY <1>3
    <2>1. s # {}
      <3>1. n \in Nat /\ n + 1 # 0
        BY <1>3
      <3>2. Cardinality({}) = 0
        BY FS_EmptySet
      <3> QED
        BY <3>1, <3>2
    <2>2. PICK x \in s : TRUE
      BY <2>1
    <2>3. Cardinality(s \ {x}) = n
      BY <1>1, <1>3, <2>2, FS_RemoveElement
    <2>4. s \ {x} \in P
      BY <1>3, <2>3
    <2>5. (s \ {x}) \cup {x} = s /\ x \in S \ (s \ {x})
      BY <2>2
    <2> QED
      BY <2>4, <2>5
  <1>4. N = Nat
    <2> HIDE DEF N
    <2>1. N \subseteq Nat
      BY DEF N
    <2> QED
      BY <1>2, <1>3, <2>1, NatSetInduction
  <1> QED
    BY <1>1, <1>4

-----------------------------------------------------------------------------
(* The sum of f over a set, as SumFunctionOnSet unfolds it.                *)

Pick(s) == CHOOSE x \in s : TRUE
Unfolded(f, g, s) == IF s = {} THEN 0 ELSE f[Pick(s)] + g[s \ {Pick(s)}]
Unfolds(f, g, S) == g = [s \in SUBSET S |-> Unfolded(f, g, s)]

LEMMA SumIs ==
  ASSUME NEW f, NEW S
  PROVE  SumFunctionOnSet(f, S) = (CHOOSE g : Unfolds(f, g, S))[S]
PROOF
  BY DEF SumFunctionOnSet, FoldFunctionOnSet, MapThenFoldSet, Unfolds, Unfolded, Pick

(* Such a g exists: the unfolding ends, since each step leaves one element *)
(* less.                                                                   *)
LEMMA UnfoldingExists ==
  ASSUME NEW S, IsFiniteSet(S), NEW f
  PROVE  \E g : Unfolds(f, g, S)
PROOF
  <1> DEFINE Upto(n, g) == /\ g = [s \in SUBSET S |-> g[s]]
                           /\ \A s \in SUBSET S : Cardinality(s) =< n => g[s] = Unfolded(f, g, s)
             N == {n \in Nat : \E g : Upto(n, g)}
  <1>1. \A s \in SUBSET S : IsFiniteSet(s) /\ Cardinality(s) \in Nat
    BY FS_Subset, FS_CardinalityType
  <1>2. 0 \in N
    <2> DEFINE zero == [s \in SUBSET S |-> 0]
    <2>1. ASSUME NEW s \in SUBSET S, Cardinality(s) =< 0 PROVE zero[s] = Unfolded(f, zero, s)
      <3>1. s = {}
        BY <1>1, <2>1, FS_EmptySet
      <3> QED
        BY <3>1 DEF Unfolded
    <2>2. Upto(0, zero)
      BY <2>1
    <2> QED
      BY <2>2
  <1>3. ASSUME NEW n \in N PROVE n + 1 \in N
    <2>1. PICK g : Upto(n, g)
      BY <1>3
    <2> DEFINE h == [s \in SUBSET S |-> Unfolded(f, g, s)]
    <2>2. n \in Nat
      BY <1>3
    <2>3. ASSUME NEW s \in SUBSET S, Cardinality(s) =< n PROVE h[s] = g[s]
      BY <2>1, <2>3
    <2>4. ASSUME NEW s \in SUBSET S, Cardinality(s) =< n + 1 PROVE h[s] = Unfolded(f, h, s)
      <3>1. CASE s = {}
        BY <3>1 DEF Unfolded
      <3>2. CASE s # {}
        <4>1. Pick(s) \in s
          BY <3>2 DEF Pick
        <4>2. s \ {Pick(s)} \in SUBSET S /\ Cardinality(s \ {Pick(s)}) = Cardinality(s) - 1
          BY <1>1, <4>1, FS_RemoveElement
        <4>3. Cardinality(s \ {Pick(s)}) =< n
          BY <4>2, <2>2, <2>4, <1>1
        <4>4. h[s \ {Pick(s)}] = g[s \ {Pick(s)}]
          BY <2>3, <4>2, <4>3
        <4>5. h[s] = Unfolded(f, g, s)
          OBVIOUS
        <4> HIDE DEF h
        <4> QED
          BY <4>4, <4>5 DEF Unfolded
      <3> QED
        BY <3>1, <3>2
    <2>5. h = [s \in SUBSET S |-> h[s]]
      OBVIOUS
    <2>6. Upto(n + 1, h)
      <3> HIDE DEF h
      <3> QED
        BY <2>4, <2>5
    <2> QED
      <3> HIDE DEF h, Upto
      <3> QED
        BY <2>2, <2>6
  <1>4. N = Nat
    <2> HIDE DEF N
    <2>1. N \subseteq Nat
      BY DEF N
    <2> QED
      BY <1>2, <1>3, <2>1, NatSetInduction
  <1>5. Cardinality(S) \in N
    BY <1>1, <1>4
  <1>6. PICK g : Upto(Cardinality(S), g)
    BY <1>5
  <1>7. \A s \in SUBSET S : Cardinality(s) =< Cardinality(S)
    BY FS_Subset
  <1>8. \A s \in SUBSET S : g[s] = Unfolded(f, g, s)
    BY <1>6, <1>7
  <1>9. g = [s \in SUBSET S |-> Unfolded(f, g, s)]
    BY <1>6, <1>8
  <1> QED
    BY <1>9 DEF Unfolds

(* And on the subsets of S there is only one, whatever larger set it was   *)
(* unfolded for.                                                           *)
LEMMA UnfoldingUnique ==
  ASSUME NEW S, IsFiniteSet(S), NEW T \in SUBSET S, NEW f, NEW g, NEW h,
         Unfolds(f, g, S), Unfolds(f, h, T)
  PROVE  \A s \in SUBSET T : g[s] = h[s]
PROOF
  <1> DEFINE N == {n \in Nat : \A s \in SUBSET T : Cardinality(s) = n => g[s] = h[s]}
  <1>1. \A s \in SUBSET T : IsFiniteSet(s) /\ Cardinality(s) \in Nat
    BY FS_Subset, FS_CardinalityType
  <1>2. \A s \in SUBSET T : g[s] = Unfolded(f, g, s) /\ h[s] = Unfolded(f, h, s)
    BY DEF Unfolds
  <1>3. 0 \in N
    <2>1. ASSUME NEW s \in SUBSET T, Cardinality(s) = 0 PROVE g[s] = h[s]
      <3>1. s = {}
        BY <1>1, <2>1, FS_EmptySet
      <3> QED
        BY <1>2, <3>1 DEF Unfolded
    <2> QED
      BY <2>1
  <1>4. ASSUME NEW n \in N PROVE n + 1 \in N
    <2>1. n \in Nat /\ n + 1 \in Nat /\ n + 1 # 0 /\ n + 1 - 1 = n
      BY <1>4
    <2>2. ASSUME NEW s \in SUBSET T, Cardinality(s) = n + 1 PROVE g[s] = h[s]
      <3>1. s # {}
        BY <2>1, <2>2, FS_EmptySet
      <3>2. Pick(s) \in s
        BY <3>1 DEF Pick
      <3>3. s \ {Pick(s)} \in SUBSET T
        OBVIOUS
      <3>4. Cardinality(s \ {Pick(s)}) = Cardinality(s) - 1
        BY <1>1, <3>2, FS_RemoveElement
      <3>5. Cardinality(s \ {Pick(s)}) = n
        BY <2>1, <2>2, <3>4
      <3>6. g[s \ {Pick(s)}] = h[s \ {Pick(s)}]
        BY <1>4, <3>3, <3>5
      <3> QED
        BY <1>2, <3>1, <3>6 DEF Unfolded
    <2> QED
      BY <2>1, <2>2
  <1>5. N = Nat
    <2> HIDE DEF N
    <2>1. N \subseteq Nat
      BY DEF N
    <2> QED
      BY <1>3, <1>4, <2>1, NatSetInduction
  <1> QED
    BY <1>1, <1>5

LEMMA SumUnfolds ==
  ASSUME NEW S, IsFiniteSet(S), NEW f
  PROVE  /\ SumFunctionOnSet(f, {}) = 0
         /\ S # {} => SumFunctionOnSet(f, S) = f[Pick(S)] + SumFunctionOnSet(f, S \ {Pick(S)})
PROOF
  <1> DEFINE The(T) == CHOOSE g : Unfolds(f, g, T)
  <1>1. \A T \in SUBSET S : IsFiniteSet(T)
    BY FS_Subset
  <1>2. \A T \in SUBSET S : Unfolds(f, The(T), T)
    <2> SUFFICES ASSUME NEW T \in SUBSET S PROVE Unfolds(f, The(T), T)
      OBVIOUS
    <2>1. \E g : Unfolds(f, g, T)
      BY <1>1, UnfoldingExists
    <2> QED
      BY <2>1
  <1>3. \A T \in SUBSET S : SumFunctionOnSet(f, T) = The(T)[T]
    BY SumIs
  <1> HIDE DEF The
  <1>4. \A T \in SUBSET S : The(T)[T] = Unfolded(f, The(T), T)
    BY <1>2 DEF Unfolds
  <1>5. {} \in SUBSET S
    OBVIOUS
  <1>6. ASSUME S # {} PROVE The(S)[S \ {Pick(S)}] = The(S \ {Pick(S)})[S \ {Pick(S)}]
    <2> DEFINE T == S \ {Pick(S)}
    <2>1. T \in SUBSET S /\ S \in SUBSET S
      OBVIOUS
    <2>2. \A s \in SUBSET T : The(S)[s] = The(T)[s]
      <3> HIDE DEF T
      <3> QED
        BY <1>2, <2>1, UnfoldingUnique
    <2> QED
      BY <2>2
  <1>7. SumFunctionOnSet(f, {}) = 0
    BY <1>3, <1>4, <1>5 DEF Unfolded
  <1>8. ASSUME S # {}
        PROVE  SumFunctionOnSet(f, S) = f[Pick(S)] + SumFunctionOnSet(f, S \ {Pick(S)})
    <2>1. S \in SUBSET S /\ S \ {Pick(S)} \in SUBSET S
      OBVIOUS
    <2>2. SumFunctionOnSet(f, S) = f[Pick(S)] + The(S)[S \ {Pick(S)}]
      BY <1>3, <1>4, <1>8, <2>1 DEF Unfolded
    <2> QED
      BY <1>3, <1>6, <1>8, <2>1, <2>2
  <1> QED
    BY <1>7, <1>8

-----------------------------------------------------------------------------
(* What a sum is, whatever the order the elements are taken in.            *)

Integral(f, S) == \A x \in S : f[x] \in Int
Sum(f, S) == SumFunctionOnSet(f, S)

LEMMA SumEmpty ==
  ASSUME NEW f
  PROVE  Sum(f, {}) = 0
PROOF
  BY FS_EmptySet, SumUnfolds DEF Sum

LEMMA SumType ==
  ASSUME NEW S, IsFiniteSet(S), NEW f, Integral(f, S)
  PROVE  Sum(f, S) \in Int
PROOF
  <1> DEFINE N == {n \in Nat : \A s \in SUBSET S : Cardinality(s) = n => Sum(f, s) \in Int}
  <1>1. \A s \in SUBSET S : IsFiniteSet(s) /\ Cardinality(s) \in Nat
    BY FS_Subset, FS_CardinalityType
  <1>2. 0 \in N
    BY <1>1, FS_EmptySet, SumEmpty
  <1>3. ASSUME NEW n \in N PROVE n + 1 \in N
    <2>1. n \in Nat /\ n + 1 \in Nat /\ n + 1 # 0 /\ n + 1 - 1 = n
      BY <1>3
    <2>2. ASSUME NEW s \in SUBSET S, Cardinality(s) = n + 1 PROVE Sum(f, s) \in Int
      <3>1. s # {}
        BY <2>1, <2>2, FS_EmptySet
      <3>2. Pick(s) \in s
        BY <3>1 DEF Pick
      <3>3. Cardinality(s \ {Pick(s)}) = Cardinality(s) - 1
        BY <1>1, <3>2, FS_RemoveElement
      <3>4. Sum(f, s \ {Pick(s)}) \in Int
        BY <1>3, <2>1, <2>2, <3>3
      <3>5. Sum(f, s) = f[Pick(s)] + Sum(f, s \ {Pick(s)})
        BY <1>1, <3>1, SumUnfolds DEF Sum
      <3> QED
        BY <3>2, <3>4, <3>5 DEF Integral
    <2> QED
      BY <2>1, <2>2
  <1>4. N = Nat
    <2> HIDE DEF N
    <2>1. N \subseteq Nat
      BY DEF N
    <2> QED
      BY <1>2, <1>3, <2>1, NatSetInduction
  <1> QED
    BY <1>1, <1>4

(* Any element may be taken first. *)
LEMMA SumRemove ==
  ASSUME NEW S, IsFiniteSet(S), NEW f, Integral(f, S)
  PROVE  \A x \in S : Sum(f, S) = f[x] + Sum(f, S \ {x})
PROOF
  <1> DEFINE First(s) == \A x \in s : Sum(f, s) = f[x] + Sum(f, s \ {x})
             N == {n \in Nat : \A s \in SUBSET S : Cardinality(s) = n => First(s)}
  <1>1. \A s \in SUBSET S : IsFiniteSet(s) /\ Cardinality(s) \in Nat /\ Integral(f, s)
    BY FS_Subset, FS_CardinalityType DEF Integral
  <1>2. 0 \in N
    BY <1>1, FS_EmptySet
  <1>3. ASSUME NEW n \in N PROVE n + 1 \in N
    <2>1. n \in Nat /\ n + 1 \in Nat /\ n + 1 - 1 = n
      BY <1>3
    <2>2. ASSUME NEW s \in SUBSET S, Cardinality(s) = n + 1, NEW x \in s
          PROVE  Sum(f, s) = f[x] + Sum(f, s \ {x})
      <3> DEFINE c == Pick(s)
      <3>1. c \in s
        BY DEF Pick
      <3>2. Sum(f, s) = f[c] + Sum(f, s \ {c})
        BY <1>1, <3>1, SumUnfolds DEF Sum
      <3>3. Cardinality(s \ {c}) = n /\ Cardinality(s \ {x}) = n
        <4>1. \A y \in s : Cardinality(s \ {y}) = Cardinality(s) - 1
          BY <1>1, FS_RemoveElement
        <4> HIDE DEF c
        <4> QED
          BY <2>1, <2>2, <3>1, <4>1
      <3>4. First(s \ {c}) /\ First(s \ {x})
        BY <1>3, <3>3
      <3> HIDE DEF c
      <3>5. CASE x = c
        BY <3>2, <3>5
      <3>6. CASE x # c
        <4> DEFINE rest == (s \ {c}) \ {x}
        <4>1. Sum(f, s \ {c}) = f[x] + Sum(f, rest)
          BY <3>4, <3>6
        <4>2. Sum(f, s \ {x}) = f[c] + Sum(f, rest)
          <5>1. (s \ {x}) \ {c} = rest
            OBVIOUS
          <5> QED
            BY <3>1, <3>4, <3>6, <5>1
        <4>3. f[x] \in Int /\ f[c] \in Int
          BY <1>1, <3>1 DEF Integral
        <4>4. Sum(f, rest) \in Int
          BY <1>1, SumType
        <4> HIDE DEF rest
        <4> QED
          BY <3>2, <4>1, <4>2, <4>3, <4>4
      <3> QED
        BY <3>5, <3>6
    <2> QED
      BY <2>1, <2>2
  <1>4. N = Nat
    <2> HIDE DEF N
    <2>1. N \subseteq Nat
      BY DEF N
    <2> QED
      BY <1>2, <1>3, <2>1, NatSetInduction
  <1>5. S \in SUBSET S
    OBVIOUS
  <1> QED
    BY <1>1, <1>4, <1>5

LEMMA SumAdd ==
  ASSUME NEW S, IsFiniteSet(S), NEW f, Integral(f, S), NEW x, x \notin S, f[x] \in Int
  PROVE  Sum(f, S \cup {x}) = f[x] + Sum(f, S)
PROOF
  <1>1. IsFiniteSet(S \cup {x})
    BY FS_AddElement
  <1>2. Integral(f, S \cup {x})
    BY DEF Integral
  <1>3. (S \cup {x}) \ {x} = S
    OBVIOUS
  <1> QED
    BY <1>1, <1>2, <1>3, SumRemove

(* Sums of functions that agree are equal. *)
LEMMA SumEqual ==
  ASSUME NEW S, IsFiniteSet(S), NEW f, NEW g, Integral(f, S), \A x \in S : f[x] = g[x]
  PROVE  Sum(f, S) = Sum(g, S)
PROOF
  <1> DEFINE P == {s \in SUBSET S : Sum(f, s) = Sum(g, s)}
  <1>1. \A s \in SUBSET S : IsFiniteSet(s) /\ Integral(f, s) /\ Integral(g, s)
    BY FS_Subset DEF Integral
  <1>2. {} \in P
    BY SumEmpty
  <1>3. ASSUME NEW s \in SUBSET S, NEW x \in S \ s, s \in P PROVE s \cup {x} \in P
    <2>1. Sum(f, s \cup {x}) = f[x] + Sum(f, s) /\ Sum(g, s \cup {x}) = g[x] + Sum(g, s)
      BY <1>1, SumAdd DEF Integral
    <2> QED
      BY <1>3, <2>1
  <1>4. \A s \in SUBSET S : s \in P
    <2> HIDE DEF P
    <2> QED
      BY <1>2, <1>3, FiniteSetsAll
  <1> QED
    BY <1>4

(* A sum over two sets that have no element in common. *)
LEMMA SumUnion ==
  ASSUME NEW S, IsFiniteSet(S), NEW T, IsFiniteSet(T), S \cap T = {},
         NEW f, Integral(f, S), Integral(f, T)
  PROVE  Sum(f, S \cup T) = Sum(f, S) + Sum(f, T)
PROOF
  <1> DEFINE P == {s \in SUBSET S : Sum(f, s \cup T) = Sum(f, s) + Sum(f, T)}
  <1>1. \A s \in SUBSET S : /\ IsFiniteSet(s) /\ Integral(f, s)
                            /\ IsFiniteSet(s \cup T) /\ Integral(f, s \cup T)
    BY FS_Subset, FS_Union DEF Integral
  <1>2. \A s \in SUBSET S : Sum(f, s) \in Int
    BY <1>1, SumType
  <1>3. Sum(f, T) \in Int
    BY SumType
  <1>4. {} \in P
    <2>1. {} \cup T = T
      OBVIOUS
    <2> QED
      BY <1>3, <2>1, SumEmpty
  <1>5. ASSUME NEW s \in SUBSET S, NEW x \in S \ s, s \in P PROVE s \cup {x} \in P
    <2>1. f[x] \in Int /\ x \notin s \cup T
      BY DEF Integral
    <2>2. Sum(f, s \cup {x}) = f[x] + Sum(f, s)
      BY <1>1, <2>1, SumAdd
    <2>3. Sum(f, (s \cup T) \cup {x}) = f[x] + Sum(f, s \cup T)
      BY <1>1, <2>1, SumAdd
    <2>4. (s \cup T) \cup {x} = (s \cup {x}) \cup T
      OBVIOUS
    <2>5. Sum(f, s \cup T) = Sum(f, s) + Sum(f, T)
      BY <1>5
    <2>6. f[x] + (Sum(f, s) + Sum(f, T)) = (f[x] + Sum(f, s)) + Sum(f, T)
      BY <1>2, <1>3, <2>1
    <2>7. Sum(f, (s \cup T) \cup {x}) = Sum(f, s \cup {x}) + Sum(f, T)
      BY <2>2, <2>3, <2>5, <2>6
    <2>8. Sum(f, (s \cup {x}) \cup T) = Sum(f, s \cup {x}) + Sum(f, T)
      BY <2>4, <2>7, Zenon
    <2> QED
      BY <2>8
  <1>6. \A s \in SUBSET S : s \in P
    <2> HIDE DEF P
    <2> QED
      BY <1>4, <1>5, FiniteSetsAll
  <1> QED
    BY <1>6

(* The sum of a pointwise sum. *)
LEMMA SumPlus ==
  ASSUME NEW S, IsFiniteSet(S), NEW f, NEW g, NEW h, Integral(f, S), Integral(g, S),
         \A x \in S : h[x] = f[x] + g[x]
  PROVE  Sum(h, S) = Sum(f, S) + Sum(g, S)
PROOF
  <1> DEFINE P == {s \in SUBSET S : Sum(h, s) = Sum(f, s) + Sum(g, s)}
  <1>1. \A s \in SUBSET S : IsFiniteSet(s) /\ Integral(f, s) /\ Integral(g, s) /\ Integral(h, s)
    BY FS_Subset DEF Integral
  <1>2. \A s \in SUBSET S : Sum(f, s) \in Int /\ Sum(g, s) \in Int
    BY <1>1, SumType
  <1>3. {} \in P
    BY SumEmpty
  <1>4. ASSUME NEW s \in SUBSET S, NEW x \in S \ s, s \in P PROVE s \cup {x} \in P
    <2>1. f[x] \in Int /\ g[x] \in Int /\ h[x] \in Int
      BY DEF Integral
    <2>2. /\ Sum(f, s \cup {x}) = f[x] + Sum(f, s)
          /\ Sum(g, s \cup {x}) = g[x] + Sum(g, s)
          /\ Sum(h, s \cup {x}) = h[x] + Sum(h, s)
      BY <1>1, <2>1, SumAdd
    <2> QED
      BY <1>2, <1>4, <2>1, <2>2
  <1>5. \A s \in SUBSET S : s \in P
    <2> HIDE DEF P
    <2> QED
      BY <1>3, <1>4, FiniteSetsAll
  <1> QED
    BY <1>5

(* Every sum of products by one factor is a product by it. *)
LEMMA SumTimes ==
  ASSUME NEW S, IsFiniteSet(S), NEW f, NEW g, NEW c \in Int, Integral(f, S),
         \A x \in S : g[x] = f[x] * c
  PROVE  Sum(g, S) = Sum(f, S) * c
PROOF
  <1> DEFINE P == {s \in SUBSET S : Sum(g, s) = Sum(f, s) * c}
  <1>1. \A s \in SUBSET S : IsFiniteSet(s) /\ Integral(f, s) /\ Integral(g, s)
    BY FS_Subset DEF Integral
  <1>2. \A s \in SUBSET S : Sum(f, s) \in Int /\ Sum(g, s) \in Int
    BY <1>1, SumType
  <1>3. {} \in P
    BY SumEmpty
  <1>4. ASSUME NEW s \in SUBSET S, NEW x \in S \ s, s \in P PROVE s \cup {x} \in P
    <2>1. f[x] \in Int /\ g[x] \in Int
      BY DEF Integral
    <2>2. /\ Sum(f, s \cup {x}) = f[x] + Sum(f, s)
          /\ Sum(g, s \cup {x}) = g[x] + Sum(g, s)
      BY <1>1, <2>1, SumAdd
    <2>3. \A a, b \in Int : (a + b) * c = a * c + b * c
      OBVIOUS
    <2>4. (f[x] + Sum(f, s)) * c = f[x] * c + Sum(f, s) * c
      BY <1>2, <2>1, <2>3
    <2> QED
      BY <1>4, <2>2, <2>4
  <1>5. \A s \in SUBSET S : s \in P
    <2> HIDE DEF P
    <2> QED
      BY <1>3, <1>4, FiniteSetsAll
  <1> QED
    BY <1>5

(* Smaller terms, smaller sum. *)
LEMMA SumBound ==
  ASSUME NEW S, IsFiniteSet(S), NEW f, NEW g, Integral(f, S), Integral(g, S),
         \A x \in S : f[x] =< g[x]
  PROVE  Sum(f, S) =< Sum(g, S)
PROOF
  <1> DEFINE P == {s \in SUBSET S : Sum(f, s) =< Sum(g, s)}
  <1>1. \A s \in SUBSET S : IsFiniteSet(s) /\ Integral(f, s) /\ Integral(g, s)
    BY FS_Subset DEF Integral
  <1>2. \A s \in SUBSET S : Sum(f, s) \in Int /\ Sum(g, s) \in Int
    BY <1>1, SumType
  <1>3. {} \in P
    BY SumEmpty
  <1>4. ASSUME NEW s \in SUBSET S, NEW x \in S \ s, s \in P PROVE s \cup {x} \in P
    <2>1. f[x] \in Int /\ g[x] \in Int /\ f[x] =< g[x]
      BY DEF Integral
    <2>2. /\ Sum(f, s \cup {x}) = f[x] + Sum(f, s)
          /\ Sum(g, s \cup {x}) = g[x] + Sum(g, s)
      BY <1>1, <2>1, SumAdd
    <2> QED
      BY <1>2, <1>4, <2>1, <2>2
  <1>5. \A s \in SUBSET S : s \in P
    <2> HIDE DEF P
    <2> QED
      BY <1>3, <1>4, FiniteSetsAll
  <1> QED
    BY <1>5

(* Counting is summing ones. *)
LEMMA SumCounts ==
  ASSUME NEW S, IsFiniteSet(S), NEW f, \A x \in S : f[x] \in {0, 1}
  PROVE  Sum(f, S) = Cardinality({x \in S : f[x] = 1})
PROOF
  <1> DEFINE Ones(s) == {x \in s : f[x] = 1}
             P == {s \in SUBSET S : Sum(f, s) = Cardinality(Ones(s))}
  <1>1. \A s \in SUBSET S : IsFiniteSet(s) /\ Integral(f, s)
    BY FS_Subset DEF Integral
  <1>2. \A s \in SUBSET S : IsFiniteSet(Ones(s)) /\ Cardinality(Ones(s)) \in Nat
    BY FS_Subset, FS_CardinalityType
  <1>3. {} \in P
    <2>1. Ones({}) = {}
      OBVIOUS
    <2> QED
      BY <2>1, SumEmpty, FS_EmptySet
  <1>4. ASSUME NEW s \in SUBSET S, NEW x \in S \ s, s \in P PROVE s \cup {x} \in P
    <2>1. Sum(f, s \cup {x}) = f[x] + Sum(f, s)
      BY <1>1, SumAdd
    <2>2. CASE f[x] = 0
      <3>1. Ones(s \cup {x}) = Ones(s)
        BY <2>2
      <3> QED
        BY <1>2, <1>4, <2>1, <2>2, <3>1
    <2>3. CASE f[x] = 1
      <3>1. Ones(s \cup {x}) = Ones(s) \cup {x} /\ x \notin Ones(s)
        BY <2>3
      <3>2. Cardinality(Ones(s) \cup {x}) = Cardinality(Ones(s)) + 1
        BY <1>2, <3>1, FS_AddElement
      <3>3. Sum(f, s) = Cardinality(Ones(s)) /\ Cardinality(Ones(s)) \in Nat
        BY <1>2, <1>4
      <3> HIDE DEF Ones
      <3> QED
        BY <2>1, <2>3, <3>1, <3>2, <3>3
    <2> QED
      BY <2>2, <2>3
  <1>5. \A s \in SUBSET S : s \in P
    <2> HIDE DEF P
    <2> QED
      BY <1>3, <1>4, FiniteSetsAll
  <1> QED
    BY <1>5

SumOfKey(f, S, key, k) == Sum(f, {x \in S : key[x] = k})

(* A sum is the sum, over the values of a key, of the sums of each. *)
LEMMA SumByKey ==
  ASSUME NEW S, IsFiniteSet(S), NEW K, IsFiniteSet(K), NEW f, NEW key, NEW h,
         Integral(f, S), \A x \in S : key[x] \in K,
         \A k \in K : h[k] = SumOfKey(f, S, key, k)
  PROVE  Sum(h, K) = Sum(f, S)
PROOF
  <1> DEFINE Of(ks) == {x \in S : key[x] \in ks}
             P == {ks \in SUBSET K : Sum(h, ks) = Sum(f, Of(ks))}
  <1>1. \A s \in SUBSET S : IsFiniteSet(s) /\ Integral(f, s) /\ Sum(f, s) \in Int
    BY FS_Subset, SumType DEF Integral
  <1>2. \A k \in K : h[k] \in Int
    <2> SUFFICES ASSUME NEW k \in K PROVE h[k] \in Int
      OBVIOUS
    <2>1. {x \in S : key[x] = k} \in SUBSET S
      OBVIOUS
    <2> QED
      BY <1>1, <2>1 DEF SumOfKey
  <1>3. \A ks \in SUBSET K : IsFiniteSet(ks) /\ Integral(h, ks)
    BY <1>2, FS_Subset DEF Integral
  <1>4. {} \in P
    <2>1. Of({}) = {}
      OBVIOUS
    <2> QED
      BY <2>1, SumEmpty
  <1>5. ASSUME NEW ks \in SUBSET K, NEW k \in K \ ks, ks \in P PROVE ks \cup {k} \in P
    <2> DEFINE One == {x \in S : key[x] = k}
    <2>1. Sum(h, ks \cup {k}) = h[k] + Sum(h, ks)
      BY <1>2, <1>3, SumAdd
    <2>2. Of(ks \cup {k}) = Of(ks) \cup One /\ Of(ks) \cap One = {}
      OBVIOUS
    <2>3. Of(ks) \in SUBSET S /\ One \in SUBSET S
      OBVIOUS
    <2>4. h[k] = Sum(f, One)
      BY DEF SumOfKey
    <2>5. Sum(h, ks) = Sum(f, Of(ks))
      BY <1>5
    <2> HIDE DEF Of, One
    <2>6. Sum(f, Of(ks) \cup One) = Sum(f, Of(ks)) + Sum(f, One)
      BY <1>1, <2>2, <2>3, SumUnion
    <2>7. Sum(f, Of(ks)) \in Int /\ Sum(f, One) \in Int
      BY <1>1, <2>3
    <2>8. Sum(f, One) + Sum(f, Of(ks)) = Sum(f, Of(ks)) + Sum(f, One)
      BY <2>7
    <2>9. Sum(h, ks \cup {k}) = Sum(f, Of(ks) \cup One)
      BY <2>1, <2>4, <2>5, <2>6, <2>8, Zenon
    <2>10. Sum(h, ks \cup {k}) = Sum(f, Of(ks \cup {k}))
      BY <2>2, <2>9, Zenon
    <2> QED
      BY <2>10
  <1>6. K \in P
    <2> HIDE DEF P
    <2>1. \A ks \in SUBSET K : ks \in P
      BY <1>4, <1>5, FiniteSetsAll
    <2> QED
      BY <2>1
  <1>7. Of(K) = S
    OBVIOUS
  <1>8. Sum(h, K) = Sum(f, Of(K))
    BY <1>6
  <1> QED
    BY <1>7, <1>8

(* A sum of natural numbers is one. *)
LEMMA SumNat ==
  ASSUME NEW S, IsFiniteSet(S), NEW f, \A x \in S : f[x] \in Nat
  PROVE  Sum(f, S) \in Nat
PROOF
  <1> DEFINE P == {s \in SUBSET S : Sum(f, s) \in Nat}
  <1>1. \A s \in SUBSET S : IsFiniteSet(s) /\ Integral(f, s)
    BY FS_Subset DEF Integral
  <1>2. {} \in P
    BY SumEmpty
  <1>3. ASSUME NEW s \in SUBSET S, NEW x \in S \ s, s \in P PROVE s \cup {x} \in P
    <2>1. Sum(f, s \cup {x}) = f[x] + Sum(f, s)
      BY <1>1, SumAdd DEF Integral
    <2> QED
      BY <1>3, <2>1
  <1>4. \A s \in SUBSET S : s \in P
    <2> HIDE DEF P
    <2> QED
      BY <1>2, <1>3, FiniteSetsAll
  <1> QED
    BY <1>4

=============================================================================
