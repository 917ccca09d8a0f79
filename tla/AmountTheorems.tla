----------------------------- MODULE AmountTheorems ----------------------------
(* Facts that the proofs share: induction over numbers and finite sets, stated *)
(* for a set of those that have the property instead of an operator; sums of   *)
(* functions; Allocation's loop; and tables of rows.                           *)
EXTENDS Allocation, FiniteSetTheorems, SequenceTheorems, WellFoundedInduction, TLAPS

Below == OpToRel(<, Nat)

LEMMA BelowMeans == \A x, y \in Nat : <<x, y>> \in Below <=> x < y
BY DEF Below, OpToRel

LEMMA BelowIsWellFounded == IsWellFoundedOn(Below, Nat)
BY NatLessThanWellFounded DEF Below

LEMMA SmallestNat ==
  ASSUME NEW T, T \subseteq Nat, T # {}
  PROVE  \E n \in T : \A m \in T : n <= m
<1>1. PICK n \in T : \A m \in T : ~ (<<m, n>> \in Below)
  BY BelowIsWellFounded, WFMin
<1>2. \A m \in T : ~(m < n)
  BY <1>1, BelowMeans
<1>3. n \in Nat /\ \A m \in T : m \in Nat
  OBVIOUS
<1>4. \A m \in T : n <= m
  BY <1>2, <1>3
<1> QED BY <1>4

\* Induction over the natural numbers.
LEMMA NatSetInduction ==
  ASSUME NEW T, 0 \in T, \A n \in Nat : n \in T => n + 1 \in T
  PROVE  Nat \subseteq T
<1> SUFFICES ASSUME Nat \ T # {} PROVE FALSE
  OBVIOUS
<1>1. PICK n \in Nat \ T : \A m \in Nat \ T : n <= m
  BY SmallestNat
<1>2. n # 0 /\ n - 1 \in Nat /\ (n - 1) + 1 = n
  BY <1>1
<1>3. n - 1 \in T
  BY <1>1, <1>2
<1> QED BY <1>1, <1>2, <1>3

\* Induction over the subsets of a finite set, each from one with an element less.
LEMMA FiniteSetInduction ==
  ASSUME NEW S, IsFiniteSet(S), NEW T, {} \in T,
         \A s \in SUBSET S : s # {} /\ (\A x \in s : s \ {x} \in T) => s \in T
  PROVE  \A s \in SUBSET S : s \in T
<1> DEFINE N == {n \in Nat : \A s \in SUBSET S : Cardinality(s) = n => s \in T}
<1>1. \A s \in SUBSET S : IsFiniteSet(s) /\ Cardinality(s) \in Nat
  BY FS_Subset, FS_CardinalityType
<1>2. 0 \in N
  BY <1>1, FS_EmptySet
<1>3. ASSUME NEW n \in Nat, n \in N PROVE n + 1 \in N
  <2> SUFFICES ASSUME NEW s \in SUBSET S, Cardinality(s) = n + 1 PROVE s \in T
    OBVIOUS
  <2>1. s # {} /\ IsFiniteSet(s)
    BY <1>1, FS_EmptySet
  <2>2. ASSUME NEW x \in s PROVE Cardinality(s \ {x}) = n
    <3>1. Cardinality(s \ {x}) = Cardinality(s) - 1
      BY <2>1, FS_RemoveElement
    <3> QED BY <3>1
  <2>3. \A x \in s : s \ {x} \in T
    BY <1>3, <2>2
  <2> QED BY <2>1, <2>3
<1>4. Nat \subseteq N
  <2> HIDE DEF N
  <2> QED BY <1>2, <1>3, NatSetInduction
<1> QED BY <1>1, <1>4

-------------------------------------------------------------------------------
\* The recursive function behind a sum exists.

OneOf(s) == CHOOSE x \in s : TRUE
IsSumOver(g, f, D) ==
  g = [s \in D |-> IF s = {} THEN 0 ELSE f[OneOf(s)] + g[s \ {OneOf(s)}]]

LEMMA OneOfIsIn == \A s : s # {} => OneOf(s) \in s
BY DEF OneOf

LEMMA SumExists ==
  ASSUME NEW f, NEW S, IsFiniteSet(S)
  PROVE  \E g : IsSumOver(g, f, SUBSET S)
<1> DEFINE D(n) == {s \in SUBSET S : Cardinality(s) <= n}
           N == {n \in Nat : \E g : IsSumOver(g, f, D(n))}
<1>1. \A s \in SUBSET S : IsFiniteSet(s) /\ Cardinality(s) \in Nat
  BY FS_Subset, FS_CardinalityType
<1>2. 0 \in N
  <2> DEFINE g == [s \in D(0) |-> 0]
  <2>1. D(0) = {{}}
    BY <1>1, FS_EmptySet
  <2>2. IsSumOver(g, f, D(0))
    BY <2>1 DEF IsSumOver
  <2> QED BY <2>2
<1>3. ASSUME NEW n \in Nat, n \in N PROVE n + 1 \in N
  <2>1. PICK g : IsSumOver(g, f, D(n))
    BY <1>3
  <2> DEFINE h == [s \in D(n + 1) |->
                     IF s = {} THEN 0 ELSE f[OneOf(s)] + g[s \ {OneOf(s)}]]
  <2>2. D(n) \subseteq D(n + 1)
    BY <1>1
  <2>3. \A s \in D(n) : h[s] = g[s]
    BY <2>1, <2>2 DEF IsSumOver
  <2>4. \A s \in D(n + 1) : s # {} => s \ {OneOf(s)} \in D(n)
    <3> SUFFICES ASSUME NEW s \in D(n + 1), s # {} PROVE s \ {OneOf(s)} \in D(n)
      OBVIOUS
    <3>1. OneOf(s) \in s
      BY OneOfIsIn
    <3>2. Cardinality(s \ {OneOf(s)}) = Cardinality(s) - 1
      BY <1>1, <3>1, FS_RemoveElement
    <3>3. Cardinality(s) \in Nat /\ Cardinality(s) <= n + 1
      BY <1>1
    <3> QED BY <3>2, <3>3
  <2>5. h = [s \in D(n + 1) |-> IF s = {} THEN 0 ELSE f[OneOf(s)] + h[s \ {OneOf(s)}]]
    <3>1. \A s \in D(n + 1) : s # {} => h[s \ {OneOf(s)}] = g[s \ {OneOf(s)}]
      BY <2>3, <2>4
    <3> QED BY <3>1
  <2>6. IsSumOver(h, f, D(n + 1))
    <3> HIDE DEF h
    <3> QED BY <2>5 DEF IsSumOver
  <2>7. \E k : IsSumOver(k, f, D(n + 1))
    <3> HIDE DEF h, D
    <3> QED BY <2>6
  <2> HIDE DEF h, D
  <2> QED BY <2>7
<1>4. Nat \subseteq N
  <2> HIDE DEF N
  <2> QED BY <1>2, <1>3, NatSetInduction
<1>5. Cardinality(S) \in N
  BY <1>1, <1>4
<1>6. D(Cardinality(S)) = SUBSET S
  <2>1. \A s \in SUBSET S : Cardinality(s) <= Cardinality(S)
    BY FS_Subset
  <2> QED BY <2>1
<1>7. PICK g : IsSumOver(g, f, D(Cardinality(S)))
  BY <1>5
<1> HIDE DEF D
<1> QED BY <1>6, <1>7

LEMMA SumIsThis ==
  ASSUME NEW f, NEW S, IsFiniteSet(S)
  PROVE  \E g : IsSumOver(g, f, SUBSET S) /\ SumFunctionOnSet(f, S) = g[S]
<1>1. \E g : IsSumOver(g, f, SUBSET S)
  BY SumExists
<1> QED BY <1>1 DEF IsSumOver, OneOf, SumFunctionOnSet, FoldFunctionOnSet, MapThenFoldSet

\* Sums over the subsets of one set are values of one function.
LEMMA SumsAreThis ==
  ASSUME NEW f, NEW S, IsFiniteSet(S)
  PROVE  \E g : /\ IsSumOver(g, f, SUBSET S)
                /\ \A s \in SUBSET S : SumFunctionOnSet(f, s) = g[s]
<1>1. PICK g : IsSumOver(g, f, SUBSET S)
  BY SumExists
<1>2. ASSUME NEW R \in SUBSET S PROVE SumFunctionOnSet(f, R) = g[R]
  <2>1. IsFiniteSet(R)
    BY FS_Subset
  <2>2. PICK h : IsSumOver(h, f, SUBSET R) /\ SumFunctionOnSet(f, R) = h[R]
    BY <2>1, SumIsThis
  <2> DEFINE T == {s \in SUBSET R : g[s] = h[s]}
  <2>3. \A s \in SUBSET R : g[s] = IF s = {} THEN 0 ELSE f[OneOf(s)] + g[s \ {OneOf(s)}]
    BY <1>1 DEF IsSumOver
  <2>4. \A s \in SUBSET R : h[s] = IF s = {} THEN 0 ELSE f[OneOf(s)] + h[s \ {OneOf(s)}]
    BY <2>2 DEF IsSumOver
  <2>5. {} \in T
    BY <2>3, <2>4
  <2>6. ASSUME NEW s \in SUBSET R, s # {}, \A x \in s : s \ {x} \in T PROVE s \in T
    <3>1. g[s \ {OneOf(s)}] = h[s \ {OneOf(s)}]
      BY <2>6, OneOfIsIn
    <3> QED BY <2>3, <2>4, <2>6, <3>1
  <2>7. \A s \in SUBSET R : s \in T
    <3> HIDE DEF T
    <3> QED BY <2>1, <2>5, <2>6, FiniteSetInduction
  <2> QED BY <2>2, <2>7
<1> QED BY <1>1, <1>2

\* The sum over no elements is zero.
LEMMA SumEmpty == \A f : SumFunctionOnSet(f, {}) = 0
<1> SUFFICES ASSUME NEW f PROVE SumFunctionOnSet(f, {}) = 0
  OBVIOUS
<1>1. PICK g : IsSumOver(g, f, SUBSET {}) /\ SumFunctionOnSet(f, {}) = g[{}]
  BY FS_EmptySet, SumIsThis
<1> QED BY <1>1 DEF IsSumOver

LEMMA SumOfOne ==
  ASSUME NEW f, NEW S, IsFiniteSet(S), S # {}
  PROVE  SumFunctionOnSet(f, S) = f[OneOf(S)] + SumFunctionOnSet(f, S \ {OneOf(S)})
<1>1. PICK g : /\ IsSumOver(g, f, SUBSET S)
               /\ \A s \in SUBSET S : SumFunctionOnSet(f, s) = g[s]
  BY SumsAreThis
<1>2. g[S] = f[OneOf(S)] + g[S \ {OneOf(S)}]
  BY <1>1 DEF IsSumOver
<1>3. S \in SUBSET S /\ S \ {OneOf(S)} \in SUBSET S
  OBVIOUS
<1> QED BY <1>1, <1>2, <1>3

\* The sum of integers is an integer.
LEMMA SumInt ==
  ASSUME NEW f, NEW S, IsFiniteSet(S), \A x \in S : f[x] \in Int
  PROVE  SumFunctionOnSet(f, S) \in Int
<1> DEFINE T == {s \in SUBSET S : SumFunctionOnSet(f, s) \in Int}
<1>1. {} \in T
  BY SumEmpty
<1>2. ASSUME NEW s \in SUBSET S, s # {}, \A x \in s : s \ {x} \in T PROVE s \in T
  <2>1. OneOf(s) \in s /\ s \ {OneOf(s)} \in T /\ f[OneOf(s)] \in Int
    BY <1>2, OneOfIsIn
  <2>2. SumFunctionOnSet(f, s) = f[OneOf(s)] + SumFunctionOnSet(f, s \ {OneOf(s)})
    BY <1>2, FS_Subset, SumOfOne
  <2> QED BY <2>1, <2>2
<1>3. \A s \in SUBSET S : s \in T
  <2> HIDE DEF T
  <2> QED BY <1>1, <1>2, FiniteSetInduction
<1> QED BY <1>3

\* Any element can be taken out of a sum.
LEMMA SumWithout ==
  ASSUME NEW f, NEW S, IsFiniteSet(S), \A x \in S : f[x] \in Int, NEW x \in S
  PROVE  SumFunctionOnSet(f, S) = f[x] + SumFunctionOnSet(f, S \ {x})
<1> DEFINE T == {s \in SUBSET S : \A y \in s :
                   SumFunctionOnSet(f, s) = f[y] + SumFunctionOnSet(f, s \ {y})}
<1>1. {} \in T
  OBVIOUS
<1>2. ASSUME NEW s \in SUBSET S, s # {}, \A y \in s : s \ {y} \in T PROVE s \in T
  <2>1. PICK a \in s : SumFunctionOnSet(f, s) = f[a] + SumFunctionOnSet(f, s \ {a})
    BY <1>2, FS_Subset, SumOfOne, OneOfIsIn
  <2>2. ASSUME NEW y \in s
        PROVE  SumFunctionOnSet(f, s) = f[y] + SumFunctionOnSet(f, s \ {y})
    <3>1. CASE y = a
      BY <2>1, <3>1
    <3>2. CASE y # a
      <4>1. SumFunctionOnSet(f, s \ {a})
              = f[y] + SumFunctionOnSet(f, (s \ {a}) \ {y})
        BY <1>2, <2>1, <3>2
      <4>2. SumFunctionOnSet(f, s \ {y})
              = f[a] + SumFunctionOnSet(f, (s \ {y}) \ {a})
        BY <1>2, <2>1, <3>2
      <4>3. (s \ {a}) \ {y} = (s \ {y}) \ {a}
        OBVIOUS
      <4>4. SumFunctionOnSet(f, (s \ {y}) \ {a}) \in Int
        <5>1. IsFiniteSet((s \ {y}) \ {a})
          BY FS_Subset
        <5>2. \A z \in (s \ {y}) \ {a} : f[z] \in Int
          OBVIOUS
        <5> QED BY <5>1, <5>2, SumInt
      <4>5. f[a] \in Int /\ f[y] \in Int
        BY <2>1
      <4>6. PICK n \in Int : n = SumFunctionOnSet(f, (s \ {y}) \ {a})
        BY <4>4
      <4>7. SumFunctionOnSet(f, s) = f[a] + (f[y] + n)
        BY <2>1, <4>1, <4>3, <4>6
      <4>8. SumFunctionOnSet(f, s \ {y}) = f[a] + n
        BY <4>2, <4>6
      <4>9. f[a] + (f[y] + n) = f[y] + (f[a] + n)
        BY <4>5
      <4> QED BY <4>7, <4>8, <4>9
    <3> QED BY <3>1, <3>2
  <2> QED BY <2>2
<1>3. \A s \in SUBSET S : s \in T
  <2> HIDE DEF T
  <2> QED BY <1>1, <1>2, FiniteSetInduction
<1>4. S \in SUBSET S
  OBVIOUS
<1> QED BY <1>3, <1>4

\* A new element adds its term.
LEMMA SumWith ==
  ASSUME NEW f, NEW S, IsFiniteSet(S), NEW x, x \notin S,
         \A y \in S \cup {x} : f[y] \in Int
  PROVE  SumFunctionOnSet(f, S \cup {x}) = f[x] + SumFunctionOnSet(f, S)
<1>1. IsFiniteSet(S \cup {x}) /\ (S \cup {x}) \ {x} = S
  BY FS_AddElement
<1>2. x \in S \cup {x}
  OBVIOUS
<1> QED BY <1>1, <1>2, SumWithout

\* A sum depends on the terms of its own elements only.
LEMMA SumSame ==
  ASSUME NEW f, NEW g, NEW S, IsFiniteSet(S),
         \A x \in S : f[x] \in Int /\ f[x] = g[x]
  PROVE  SumFunctionOnSet(f, S) = SumFunctionOnSet(g, S)
<1> DEFINE T == {s \in SUBSET S : SumFunctionOnSet(f, s) = SumFunctionOnSet(g, s)}
<1>1. {} \in T
  BY SumEmpty
<1>2. ASSUME NEW s \in SUBSET S, s # {}, \A x \in s : s \ {x} \in T PROVE s \in T
  <2>1. OneOf(s) \in s /\ s \ {OneOf(s)} \in T /\ f[OneOf(s)] = g[OneOf(s)]
    BY <1>2, OneOfIsIn
  <2>2. IsFiniteSet(s)
    BY FS_Subset
  <2>3. SumFunctionOnSet(f, s) = f[OneOf(s)] + SumFunctionOnSet(f, s \ {OneOf(s)})
    BY <1>2, <2>2, SumOfOne
  <2>4. SumFunctionOnSet(g, s) = g[OneOf(s)] + SumFunctionOnSet(g, s \ {OneOf(s)})
    BY <1>2, <2>2, SumOfOne
  <2> QED BY <2>1, <2>3, <2>4
<1>3. \A s \in SUBSET S : s \in T
  <2> HIDE DEF T
  <2> QED BY <1>1, <1>2, FiniteSetInduction
<1> QED BY <1>3

\* Sums add up term by term.
LEMMA SumPlus ==
  ASSUME NEW f, NEW g, NEW h, NEW S, IsFiniteSet(S),
         \A x \in S : f[x] \in Int /\ g[x] \in Int /\ h[x] = f[x] + g[x]
  PROVE  SumFunctionOnSet(h, S) = SumFunctionOnSet(f, S) + SumFunctionOnSet(g, S)
<1> DEFINE T == {s \in SUBSET S : SumFunctionOnSet(h, s)
                                    = SumFunctionOnSet(f, s) + SumFunctionOnSet(g, s)}
<1>1. {} \in T
  BY SumEmpty
<1>2. ASSUME NEW s \in SUBSET S, s # {}, \A x \in s : s \ {x} \in T PROVE s \in T
  <2>1. PICK x \in s : x = OneOf(s)
    BY <1>2, OneOfIsIn
  <2>2. s \ {x} \in T /\ h[x] = f[x] + g[x] /\ f[x] \in Int /\ g[x] \in Int
    BY <1>2
  <2>3. IsFiniteSet(s) /\ IsFiniteSet(s \ {x})
    BY FS_Subset
  <2>4. SumFunctionOnSet(f, s) = f[x] + SumFunctionOnSet(f, s \ {x})
    BY <1>2, <2>1, <2>3, SumOfOne
  <2>5. SumFunctionOnSet(g, s) = g[x] + SumFunctionOnSet(g, s \ {x})
    BY <1>2, <2>1, <2>3, SumOfOne
  <2>6. SumFunctionOnSet(h, s) = h[x] + SumFunctionOnSet(h, s \ {x})
    BY <1>2, <2>1, <2>3, SumOfOne
  <2>7. SumFunctionOnSet(f, s \ {x}) \in Int /\ SumFunctionOnSet(g, s \ {x}) \in Int
    BY <2>3, SumInt
  <2>8. SumFunctionOnSet(h, s \ {x})
          = SumFunctionOnSet(f, s \ {x}) + SumFunctionOnSet(g, s \ {x})
    BY <2>2
  <2> QED BY <2>2, <2>4, <2>5, <2>6, <2>7, <2>8
<1>3. \A s \in SUBSET S : s \in T
  <2> HIDE DEF T
  <2> QED BY <1>1, <1>2, FiniteSetInduction
<1> QED BY <1>3

\* Sums are subtracted term by term.
LEMMA SumMinus ==
  ASSUME NEW f, NEW g, NEW h, NEW S, IsFiniteSet(S),
         \A x \in S : f[x] \in Int /\ g[x] \in Int /\ h[x] = f[x] - g[x]
  PROVE  SumFunctionOnSet(h, S) = SumFunctionOnSet(f, S) - SumFunctionOnSet(g, S)
<1>1. \A x \in S : h[x] \in Int /\ f[x] = h[x] + g[x]
  OBVIOUS
<1>2. SumFunctionOnSet(f, S) = SumFunctionOnSet(h, S) + SumFunctionOnSet(g, S)
  BY <1>1, SumPlus
<1>3. SumFunctionOnSet(h, S) \in Int /\ SumFunctionOnSet(g, S) \in Int
  BY <1>1, SumInt
<1> QED BY <1>2, <1>3

\* A sum of zeros is zero.
LEMMA SumZero ==
  ASSUME NEW f, NEW S, IsFiniteSet(S), \A x \in S : f[x] = 0
  PROVE  SumFunctionOnSet(f, S) = 0
<1>1. \A x \in S : f[x] \in Int /\ f[x] = f[x] - f[x]
  OBVIOUS
<1>2. SumFunctionOnSet(f, S) = SumFunctionOnSet(f, S) - SumFunctionOnSet(f, S)
  BY <1>1, SumMinus
<1>3. PICK n \in Int : n = SumFunctionOnSet(f, S)
  BY <1>1, SumInt
<1>4. n - n = 0
  OBVIOUS
<1> QED BY <1>2, <1>3, <1>4

\* The sum of natural numbers is one, and at least each of them.
LEMMA SumNat ==
  ASSUME NEW f, NEW S, IsFiniteSet(S), \A x \in S : f[x] \in Nat
  PROVE  /\ SumFunctionOnSet(f, S) \in Nat
         /\ \A x \in S : f[x] <= SumFunctionOnSet(f, S)
<1> DEFINE T == {s \in SUBSET S : SumFunctionOnSet(f, s) \in Nat}
<1>1. {} \in T
  BY SumEmpty
<1>2. ASSUME NEW s \in SUBSET S, s # {}, \A x \in s : s \ {x} \in T PROVE s \in T
  <2>1. PICK x \in s : x = OneOf(s)
    BY <1>2, OneOfIsIn
  <2>2. SumFunctionOnSet(f, s) = f[x] + SumFunctionOnSet(f, s \ {x})
    BY <1>2, <2>1, FS_Subset, SumOfOne
  <2> QED BY <1>2, <2>2
<1>3. \A s \in SUBSET S : s \in T
  <2> HIDE DEF T
  <2> QED BY <1>1, <1>2, FiniteSetInduction
<1>4. ASSUME NEW x \in S PROVE f[x] <= SumFunctionOnSet(f, S)
  <2>1. SumFunctionOnSet(f, S) = f[x] + SumFunctionOnSet(f, S \ {x})
    BY SumWithout
  <2>2. SumFunctionOnSet(f, S \ {x}) \in Nat /\ f[x] \in Nat
    BY <1>3
  <2> QED BY <2>1, <2>2
<1> QED BY <1>3, <1>4

\* A sum of terms none of which is larger is not larger, and the sums are equal only
\* if the terms are.
LEMMA SumAtMost ==
  ASSUME NEW f, NEW g, NEW S, IsFiniteSet(S),
         \A x \in S : f[x] \in Int /\ g[x] \in Int /\ f[x] <= g[x]
  PROVE  /\ SumFunctionOnSet(f, S) <= SumFunctionOnSet(g, S)
         /\ SumFunctionOnSet(f, S) = SumFunctionOnSet(g, S) => \A x \in S : f[x] = g[x]
<1> DEFINE d == [x \in S |-> g[x] - f[x]]
<1>1. SumFunctionOnSet(d, S) = SumFunctionOnSet(g, S) - SumFunctionOnSet(f, S)
  BY SumMinus
<1>2. \A x \in S : d[x] \in Nat
  OBVIOUS
<1>3. /\ SumFunctionOnSet(d, S) \in Nat
      /\ \A x \in S : d[x] <= SumFunctionOnSet(d, S)
  <2> HIDE DEF d
  <2> QED BY <1>2, SumNat
<1>4. SumFunctionOnSet(f, S) \in Int /\ SumFunctionOnSet(g, S) \in Int
  BY SumInt
<1>5. ASSUME SumFunctionOnSet(f, S) = SumFunctionOnSet(g, S), NEW x \in S
      PROVE  f[x] = g[x]
  <2>1. d[x] <= 0 /\ d[x] \in Nat
    <3> HIDE DEF d
    <3> QED BY <1>1, <1>2, <1>3, <1>4, <1>5
  <2> QED BY <2>1
<1> QED BY <1>1, <1>3, <1>4, <1>5

\* Where only one term differs, so do the sums, by as much.
LEMMA SumChange ==
  ASSUME NEW f, NEW g, NEW S, IsFiniteSet(S), NEW x \in S,
         \A y \in S : f[y] \in Int /\ g[y] \in Int,
         \A y \in S \ {x} : f[y] = g[y]
  PROVE  SumFunctionOnSet(g, S) = SumFunctionOnSet(f, S) + g[x] - f[x]
<1>1. SumFunctionOnSet(f, S \ {x}) = SumFunctionOnSet(g, S \ {x})
  BY FS_Subset, SumSame
<1>2. SumFunctionOnSet(f, S) = f[x] + SumFunctionOnSet(f, S \ {x})
  BY SumWithout
<1>3. SumFunctionOnSet(g, S) = g[x] + SumFunctionOnSet(g, S \ {x})
  BY SumWithout
<1>4. SumFunctionOnSet(f, S \ {x}) \in Int
  BY FS_Subset, SumInt
<1> QED BY <1>1, <1>2, <1>3, <1>4

\* Elements whose terms are zero can be left out.
LEMMA SumSupport ==
  ASSUME NEW f, NEW S, IsFiniteSet(S), NEW R \in SUBSET S,
         \A x \in S : f[x] \in Int, \A x \in S \ R : f[x] = 0
  PROVE  SumFunctionOnSet(f, S) = SumFunctionOnSet(f, R)
<1> DEFINE T == {s \in SUBSET (S \ R) :
                   SumFunctionOnSet(f, R \cup s) = SumFunctionOnSet(f, R)}
<1>1. {} \in T
  BY R \cup {} = R
<1>2. ASSUME NEW s \in SUBSET (S \ R), s # {}, \A x \in s : s \ {x} \in T PROVE s \in T
  <2>1. PICK x \in s : TRUE
    BY <1>2
  <2>2. IsFiniteSet(R \cup s) /\ (R \cup s) \ {x} = R \cup (s \ {x})
    BY FS_Subset
  <2>3. SumFunctionOnSet(f, R \cup s) = f[x] + SumFunctionOnSet(f, R \cup (s \ {x}))
    BY <2>2, SumWithout
  <2>4. SumFunctionOnSet(f, R \cup (s \ {x})) = SumFunctionOnSet(f, R)
    BY <1>2
  <2>5. SumFunctionOnSet(f, R) \in Int /\ f[x] = 0
    BY FS_Subset, SumInt
  <2> QED BY <2>3, <2>4, <2>5
<1>3. \A s \in SUBSET (S \ R) : s \in T
  <2> DEFINE Q == S \ R
  <2>1. IsFiniteSet(Q)
    BY FS_Subset
  <2>2. {} \in T /\ \A s \in SUBSET Q : s # {} /\ (\A x \in s : s \ {x} \in T) => s \in T
    BY <1>1, <1>2
  <2>3. \A s \in SUBSET Q : s \in T
    <3> HIDE DEF Q, T
    <3> QED BY <2>1, <2>2, FiniteSetInduction
  <2> QED BY <2>3
<1>4. S \ R \in T /\ R \cup (S \ R) = S
  BY <1>3
<1> QED BY <1>4

\* The sum over two disjoint sets is the sum of the sums over each.
LEMMA SumUnion ==
  ASSUME NEW f, NEW R, NEW S, IsFiniteSet(R), IsFiniteSet(S), R \cap S = {},
         \A x \in R \cup S : f[x] \in Int
  PROVE  SumFunctionOnSet(f, R \cup S)
           = SumFunctionOnSet(f, R) + SumFunctionOnSet(f, S)
<1> DEFINE T == {s \in SUBSET S : SumFunctionOnSet(f, R \cup s)
                    = SumFunctionOnSet(f, R) + SumFunctionOnSet(f, s)}
<1>0. SumFunctionOnSet(f, R) \in Int
  BY SumInt
<1>1. {} \in T
  BY <1>0, SumEmpty, R \cup {} = R
<1>2. ASSUME NEW s \in SUBSET S, s # {}, \A x \in s : s \ {x} \in T PROVE s \in T
  <2>1. PICK x \in s : TRUE
    BY <1>2
  <2>2. /\ IsFiniteSet(s) /\ IsFiniteSet(s \ {x}) /\ IsFiniteSet(R \cup s)
        /\ (R \cup s) \ {x} = R \cup (s \ {x})
    BY FS_Subset, FS_Union
  <2>3. SumFunctionOnSet(f, R \cup s) = f[x] + SumFunctionOnSet(f, R \cup (s \ {x}))
    BY <2>2, SumWithout
  <2>4. SumFunctionOnSet(f, s) = f[x] + SumFunctionOnSet(f, s \ {x})
    BY <2>2, SumWithout
  <2>5. SumFunctionOnSet(f, R \cup (s \ {x}))
          = SumFunctionOnSet(f, R) + SumFunctionOnSet(f, s \ {x})
    BY <1>2
  <2>6. f[x] \in Int /\ SumFunctionOnSet(f, s \ {x}) \in Int
    BY <2>2, SumInt
  <2> QED BY <1>0, <2>3, <2>4, <2>5, <2>6
<1>3. \A s \in SUBSET S : s \in T
  <2> HIDE DEF T
  <2> QED BY <1>1, <1>2, FiniteSetInduction
<1> QED BY <1>3

-------------------------------------------------------------------------------
\* The first n numbers.

LEMMA UpToNone == 1..0 = {}
OBVIOUS

LEMMA UpToNext == \A n \in Nat : 1..(n + 1) = (1..n) \cup {n + 1} /\ n + 1 \notin 1..n
OBVIOUS

LEMMA UpToIsFinite == \A n \in Nat : IsFiniteSet(1..n)
BY FS_Interval

\* One term more.
LEMMA SumNext ==
  ASSUME NEW f, NEW n \in Nat, \A k \in 1..(n + 1) : f[k] \in Int
  PROVE  SumFunctionOnSet(f, 1..(n + 1)) = SumFunctionOnSet(f, 1..n) + f[n + 1]
<1>1. 1..(n + 1) = (1..n) \cup {n + 1} /\ n + 1 \notin 1..n /\ n + 1 \in 1..(n + 1)
  OBVIOUS
<1>2. IsFiniteSet(1..n) /\ \A k \in (1..n) \cup {n + 1} : f[k] \in Int
  BY <1>1, UpToIsFinite
<1>3. SumFunctionOnSet(f, (1..n) \cup {n + 1}) = f[n + 1] + SumFunctionOnSet(f, 1..n)
  BY <1>1, <1>2, SumWith
<1>4. SumFunctionOnSet(f, 1..n) \in Int /\ f[n + 1] \in Int
  BY <1>1, <1>2, SumInt
<1>5. SumFunctionOnSet(f, 1..(n + 1)) = f[n + 1] + SumFunctionOnSet(f, 1..n)
  BY <1>1, <1>3, Zenon
<1> QED BY <1>4, <1>5

\* A function of one number more.
LEMMA SumGrows ==
  ASSUME NEW n \in Nat, NEW f \in [1..n -> Int], NEW g \in [1..(n + 1) -> Int],
         \A k \in 1..n : g[k] = f[k]
  PROVE  SumFunction(g) = SumFunction(f) + g[n + 1]
<1>1. \A k \in 1..(n + 1) : g[k] \in Int
  OBVIOUS
<1>2. SumFunctionOnSet(g, 1..(n + 1)) = SumFunctionOnSet(g, 1..n) + g[n + 1]
  BY <1>1, SumNext
<1>3. SumFunctionOnSet(g, 1..n) = SumFunctionOnSet(f, 1..n)
  <2>1. IsFiniteSet(1..n) /\ \A k \in 1..n : g[k] \in Int /\ g[k] = f[k]
    BY UpToIsFinite
  <2> QED BY <2>1, SumSame
<1>4. /\ SumFunction(g) = SumFunctionOnSet(g, 1..(n + 1))
      /\ SumFunction(f) = SumFunctionOnSet(f, 1..n)
  BY DEF SumFunction
<1> QED BY <1>2, <1>3, <1>4, Zenon

-------------------------------------------------------------------------------
\* The loop of Spread.

Rest(amount, taken) == IF amount <= taken THEN 0 ELSE amount - taken

IsLeft(left, amount, owed) ==
  left = [k \in {0} \cup DOMAIN owed |->
            IF k = 0 THEN amount ELSE left[k - 1] - Take(left[k - 1], owed[k])]

\* What is left after k balances is the amount less what they owe, if it is more.
LeftAfter(amount, owed, k) == Rest(amount, SumFunctionOnSet(owed, 1..k))

LEMMA LeftAfterNext ==
  ASSUME NEW n \in Nat, NEW owed \in [1..n -> Nat], NEW amount \in Nat,
         NEW k \in Nat, k < n
  PROVE  /\ LeftAfter(amount, owed, k) \in Nat
         /\ LeftAfter(amount, owed, k + 1)
              = LeftAfter(amount, owed, k) - Take(LeftAfter(amount, owed, k), owed[k + 1])
<1>1. \A j \in 1..(k + 1) : owed[j] \in Nat
  OBVIOUS
<1>2. SumFunctionOnSet(owed, 1..(k + 1)) = SumFunctionOnSet(owed, 1..k) + owed[k + 1]
  <2>1. \A j \in 1..(k + 1) : owed[j] \in Int
    BY <1>1
  <2> QED BY <2>1, SumNext
<1>3. SumFunctionOnSet(owed, 1..k) \in Nat
  <2>1. IsFiniteSet(1..k) /\ \A j \in 1..k : owed[j] \in Nat
    BY <1>1, UpToIsFinite
  <2> QED BY <2>1, SumNat
<1> DEFINE before == SumFunctionOnSet(owed, 1..k)
           after == SumFunctionOnSet(owed, 1..(k + 1))
<1>4. after = before + owed[k + 1] /\ before \in Nat /\ owed[k + 1] \in Nat
  BY <1>1, <1>2, <1>3
<1> HIDE DEF before, after
<1>5. /\ Rest(amount, before) \in Nat
      /\ Rest(amount, after) = Rest(amount, before) - Take(Rest(amount, before), owed[k + 1])
  BY <1>4 DEF Rest, Take
<1> QED BY <1>5 DEF LeftAfter, before, after

LEMMA LeftAfterPrevious ==
  ASSUME NEW n \in Nat, NEW owed \in [1..n -> Nat], NEW amount \in Nat, NEW k \in 1..n
  PROVE  /\ LeftAfter(amount, owed, k - 1) \in Nat
         /\ LeftAfter(amount, owed, k)
              = LeftAfter(amount, owed, k - 1) - Take(LeftAfter(amount, owed, k - 1), owed[k])
<1>1. PICK m \in Nat : m = k - 1 /\ m < n /\ m + 1 = k
  OBVIOUS
<1>2. /\ LeftAfter(amount, owed, m) \in Nat
      /\ LeftAfter(amount, owed, m + 1)
           = LeftAfter(amount, owed, m) - Take(LeftAfter(amount, owed, m), owed[m + 1])
  BY <1>1, LeftAfterNext, ZenonT(60)
<1> QED BY <1>1, <1>2, Zenon

LEMMA LeftAfterNone ==
  ASSUME NEW owed, NEW amount \in Nat
  PROVE  LeftAfter(amount, owed, 0) = amount
BY UpToNone, SumEmpty DEF LeftAfter, Rest

LEMMA LeftExists ==
  ASSUME NEW n \in Nat, NEW owed \in [1..n -> Nat], NEW amount \in Nat
  PROVE  \E left : IsLeft(left, amount, owed)
<1> DEFINE left == [k \in {0} \cup DOMAIN owed |-> LeftAfter(amount, owed, k)]
<1>1. left[0] = amount
  BY LeftAfterNone
<1>2. ASSUME NEW k \in 1..n PROVE left[k] = left[k - 1] - Take(left[k - 1], owed[k])
  <2>1. LeftAfter(amount, owed, k)
          = LeftAfter(amount, owed, k - 1) - Take(LeftAfter(amount, owed, k - 1), owed[k])
    BY LeftAfterPrevious
  <2>2. left[k] = LeftAfter(amount, owed, k) /\ left[k - 1] = LeftAfter(amount, owed, k - 1)
    OBVIOUS
  <2> QED BY <2>1, <2>2, Zenon
<1>3. left = [k \in {0} \cup DOMAIN owed |->
                IF k = 0 THEN amount ELSE left[k - 1] - Take(left[k - 1], owed[k])]
  BY <1>1, <1>2
<1>4. IsLeft(left, amount, owed)
  <2> HIDE DEF left
  <2> QED BY <1>3 DEF IsLeft
<1> QED BY <1>4

LEMMA SpreadIsThis ==
  ASSUME NEW owed, NEW amount, \E left : IsLeft(left, amount, owed)
  PROVE  \E left : /\ IsLeft(left, amount, owed)
                   /\ Spread(amount, owed)
                        = [k \in DOMAIN owed |-> Take(left[k - 1], owed[k])]
BY DEF IsLeft, Spread

\* Each balance gets what is left of the amount after those before it, at most
\* what it owes.
LEMMA SpreadMeaning ==
  ASSUME NEW n \in Nat, NEW owed \in [1..n -> Nat], NEW amount \in Nat
  PROVE  /\ Spread(amount, owed) \in [1..n -> Nat]
         /\ \A k \in 1..n :
              Spread(amount, owed)[k] = Take(LeftAfter(amount, owed, k - 1), owed[k])
<1>1. PICK left : /\ IsLeft(left, amount, owed)
                  /\ Spread(amount, owed)
                       = [k \in DOMAIN owed |-> Take(left[k - 1], owed[k])]
  <2>1. \E left : IsLeft(left, amount, owed)
    BY LeftExists, Zenon
  <2> QED BY <2>1, SpreadIsThis, Zenon
<1> DEFINE T == {k \in Nat : k <= n => left[k] = LeftAfter(amount, owed, k)}
<1>2. 0 \in T
  BY <1>1, LeftAfterNone DEF IsLeft
<1>3. ASSUME NEW k \in Nat, k \in T PROVE k + 1 \in T
  <2> SUFFICES ASSUME k + 1 <= n PROVE left[k + 1] = LeftAfter(amount, owed, k + 1)
    OBVIOUS
  <2>1. k + 1 \in 1..n /\ (k + 1) - 1 = k /\ k + 1 # 0
    OBVIOUS
  <2>2. left[k] = LeftAfter(amount, owed, k)
    BY <1>3
  <2>3. left[k + 1] = left[k] - Take(left[k], owed[k + 1])
    BY <1>1, <2>1 DEF IsLeft
  <2>4. LeftAfter(amount, owed, k + 1)
          = LeftAfter(amount, owed, k) - Take(LeftAfter(amount, owed, k), owed[k + 1])
    <3>1. k < n
      OBVIOUS
    <3> QED BY <3>1, LeftAfterNext, ZenonT(60)
  <2> QED BY <2>2, <2>3, <2>4
<1>4. Nat \subseteq T
  <2> HIDE DEF T
  <2> QED BY <1>2, <1>3, NatSetInduction
<1>5. ASSUME NEW k \in 1..n
      PROVE  /\ Spread(amount, owed)[k] = Take(LeftAfter(amount, owed, k - 1), owed[k])
             /\ Take(LeftAfter(amount, owed, k - 1), owed[k]) \in Nat
  <2>1. k - 1 \in T /\ k - 1 <= n
    BY <1>4
  <2>2. left[k - 1] = LeftAfter(amount, owed, k - 1)
    BY <2>1
  <2>3. LeftAfter(amount, owed, k - 1) \in Nat
    BY LeftAfterPrevious
  <2> QED BY <1>1, <2>2, <2>3 DEF Take
<1> QED BY <1>1, <1>5

LEMMA SpreadAt ==
  ASSUME NEW n \in Nat, NEW owed \in [1..n -> Nat], NEW amount \in Nat, NEW k \in 1..n
  PROVE  Spread(amount, owed)[k] = Take(LeftAfter(amount, owed, k - 1), owed[k])
BY SpreadMeaning

\* No balance gets more than it owes, and one gets something only after all before
\* it got all they owe.
LEMMA SpreadBounds ==
  ASSUME NEW n \in Nat, NEW owed \in [1..n -> Nat], NEW amount \in Nat
  PROVE  /\ \A k \in 1..n : Spread(amount, owed)[k] \in 0..owed[k]
         /\ \A j, k \in 1..n :
              j < k /\ Spread(amount, owed)[k] > 0 => Spread(amount, owed)[j] = owed[j]
<1>1. \A k \in 1..n : /\ Spread(amount, owed)[k] = Take(LeftAfter(amount, owed, k - 1), owed[k])
                      /\ LeftAfter(amount, owed, k - 1) \in Nat
  BY SpreadMeaning, LeftAfterPrevious
<1>2. ASSUME NEW k \in 1..n PROVE Spread(amount, owed)[k] \in 0..owed[k]
  <2>1. PICK l \in Nat : Spread(amount, owed)[k] = Take(l, owed[k])
    BY <1>1
  <2>2. Take(l, owed[k]) \in 0..owed[k]
    BY DEF Take
  <2> QED BY <2>1, <2>2
<1>3. ASSUME NEW j \in 1..n, NEW k \in 1..n, j < k, Spread(amount, owed)[k] > 0
      PROVE  Spread(amount, owed)[j] = owed[j]
  <2>1. LeftAfter(amount, owed, k - 1) > 0
    BY <1>1, <1>3 DEF Take
  <2>2. SumFunctionOnSet(owed, 1..j) <= SumFunctionOnSet(owed, 1..(k - 1))
    <3>1. 1..(k - 1) = (1..j) \cup ((j + 1)..(k - 1)) /\ (1..j) \cap ((j + 1)..(k - 1)) = {}
      BY <1>3
    <3>2. IsFiniteSet(1..j) /\ IsFiniteSet((j + 1)..(k - 1))
      BY FS_Interval
    <3>3. SumFunctionOnSet(owed, 1..(k - 1))
            = SumFunctionOnSet(owed, 1..j) + SumFunctionOnSet(owed, (j + 1)..(k - 1))
      <4>1. \A x \in (1..j) \cup ((j + 1)..(k - 1)) : owed[x] \in Int
        BY <1>3
      <4>2. SumFunctionOnSet(owed, (1..j) \cup ((j + 1)..(k - 1)))
              = SumFunctionOnSet(owed, 1..j) + SumFunctionOnSet(owed, (j + 1)..(k - 1))
        BY <3>1, <3>2, <4>1, SumUnion
      <4> QED BY <3>1, <4>2, Zenon
    <3>4. SumFunctionOnSet(owed, (j + 1)..(k - 1)) \in Nat
      <4>1. \A x \in (j + 1)..(k - 1) : owed[x] \in Nat
        BY <1>3
      <4> QED BY <3>2, <4>1, SumNat
    <3>5. SumFunctionOnSet(owed, 1..j) \in Nat
      <4>1. \A x \in 1..j : owed[x] \in Nat
        BY <1>3
      <4> QED BY <3>2, <4>1, SumNat
    <3> QED BY <3>3, <3>4, <3>5
  <2>3. SumFunctionOnSet(owed, 1..j) \in Nat /\ SumFunctionOnSet(owed, 1..(k - 1)) \in Nat
    <3>1. IsFiniteSet(1..j) /\ IsFiniteSet(1..(k - 1))
      BY FS_Interval
    <3>2. (\A x \in 1..j : owed[x] \in Nat) /\ (\A x \in 1..(k - 1) : owed[x] \in Nat)
      BY <1>3
    <3> QED BY <3>1, <3>2, SumNat
  <2>4. LeftAfter(amount, owed, j) > 0
    BY <2>1, <2>2, <2>3 DEF LeftAfter, Rest
  <2>5. LeftAfter(amount, owed, j)
          = LeftAfter(amount, owed, j - 1) - Take(LeftAfter(amount, owed, j - 1), owed[j])
    BY LeftAfterPrevious
  <2> QED BY <1>1, <2>4, <2>5 DEF Take
<1> QED BY <1>2, <1>3

LEMMA SpreadAtMost ==
  ASSUME NEW n \in Nat, NEW owed \in [1..n -> Nat], NEW amount \in Nat, NEW k \in 1..n
  PROVE  Spread(amount, owed)[k] <= amount
<1>1. PICK m \in Nat : m = k - 1
  OBVIOUS
<1>2. PICK s \in Nat : s = SumFunctionOnSet(owed, 1..m)
  <2>1. IsFiniteSet(1..m) /\ \A j \in 1..m : owed[j] \in Nat
    BY <1>1, UpToIsFinite
  <2> QED BY <2>1, SumNat
<1>3. Spread(amount, owed)[k] = Take(LeftAfter(amount, owed, k - 1), owed[k])
  BY SpreadAt
<1>4. Spread(amount, owed)[k] = Take(Rest(amount, s), owed[k])
  BY <1>1, <1>2, <1>3 DEF LeftAfter
<1>5. Take(Rest(amount, s), owed[k]) <= amount
  BY DEF Take, Rest
<1> QED BY <1>4, <1>5

\* What the first balances get is the amount less what is left after them.
LEMMA SpreadTotal ==
  ASSUME NEW n \in Nat, NEW owed \in [1..n -> Nat], NEW amount \in Nat
  PROVE  \A k \in 0..n : SumFunctionOnSet(Spread(amount, owed), 1..k)
                           = amount - LeftAfter(amount, owed, k)
<1> DEFINE parts == Spread(amount, owed)
           T == {k \in Nat : k <= n => SumFunctionOnSet(parts, 1..k)
                                         = amount - LeftAfter(amount, owed, k)}
<1>1. parts \in [1..n -> Nat]
      /\ \A k \in 1..n : parts[k] = Take(LeftAfter(amount, owed, k - 1), owed[k])
  BY SpreadMeaning
<1> HIDE DEF parts
<1>2. 0 \in T
  BY UpToNone, SumEmpty, LeftAfterNone
<1>3. ASSUME NEW k \in Nat, k \in T PROVE k + 1 \in T
  <2> SUFFICES ASSUME k + 1 <= n
               PROVE  SumFunctionOnSet(parts, 1..(k + 1))
                        = amount - LeftAfter(amount, owed, k + 1)
    OBVIOUS
  <2>1. k + 1 \in 1..n /\ (k + 1) - 1 = k
    OBVIOUS
  <2>2. SumFunctionOnSet(parts, 1..k) = amount - LeftAfter(amount, owed, k)
    BY <1>3
  <2>3. SumFunctionOnSet(parts, 1..(k + 1)) = SumFunctionOnSet(parts, 1..k) + parts[k + 1]
    <3>1. \A j \in 1..(k + 1) : parts[j] \in Int
      BY <1>1
    <3> QED BY <3>1, SumNext
  <2>4. parts[k + 1] = Take(LeftAfter(amount, owed, k), owed[k + 1])
    BY <1>1, <2>1
  <2>5. LeftAfter(amount, owed, k) \in Nat
        /\ LeftAfter(amount, owed, k + 1)
             = LeftAfter(amount, owed, k) - Take(LeftAfter(amount, owed, k), owed[k + 1])
    <3>1. k < n
      OBVIOUS
    <3> QED BY <3>1, LeftAfterNext, ZenonT(60)
  <2>6. parts[k + 1] \in Nat
    BY <1>1, <2>1
  <2> QED BY <2>2, <2>3, <2>4, <2>5, <2>6
<1>4. Nat \subseteq T
  <2> HIDE DEF T
  <2> QED BY <1>2, <1>3, NatSetInduction
<1>5. \A k \in 0..n : k \in T /\ k <= n
  BY <1>4
<1> QED BY <1>5 DEF parts

\* What is owed takes the whole of an amount that does not exceed it.
LEMMA SpreadAll ==
  ASSUME NEW n \in Nat, NEW owed \in [1..n -> Nat], NEW amount \in Nat,
         amount <= SumFunctionOnSet(owed, 1..n)
  PROVE  SumFunctionOnSet(Spread(amount, owed), 1..n) = amount
<1>1. SumFunctionOnSet(owed, 1..n) \in Nat
  BY UpToIsFinite, SumNat
<1>2. LeftAfter(amount, owed, n) = 0
  BY <1>1 DEF LeftAfter, Rest
<1>3. n \in 0..n
  OBVIOUS
<1>4. SumFunctionOnSet(Spread(amount, owed), 1..n) = amount - LeftAfter(amount, owed, n)
  BY <1>3, SpreadTotal
<1> QED BY <1>2, <1>4

OwedAfter(amount, owed) == [k \in DOMAIN owed |-> owed[k] - Spread(amount, owed)[k]]

TwiceIsOnce(a, b, owed) ==
  \A c \in Nat, k \in DOMAIN owed :
    c = a + b => Spread(a, owed)[k] + Spread(b, OwedAfter(a, owed))[k] = Spread(c, owed)[k]

\* Spreading two amounts one after the other gives what spreading both at once does.
LEMMA SpreadTwice ==
  ASSUME NEW n \in Nat, NEW owed \in [1..n -> Nat], NEW a \in Nat, NEW b \in Nat
  PROVE  TwiceIsOnce(a, b, owed)
<1>0. SUFFICES ASSUME NEW c \in Nat, NEW k \in 1..n, c = a + b
               PROVE  Spread(a, owed)[k] + Spread(b, OwedAfter(a, owed))[k]
                        = Spread(c, owed)[k]
  BY DEF TwiceIsOnce
<1>1. /\ Spread(a, owed) \in [1..n -> Nat]
      /\ \A j \in 1..n : Spread(a, owed)[j] \in 0..owed[j]
  BY SpreadMeaning, SpreadBounds
<1>2. PICK rest \in [1..n -> Nat] :
        /\ rest = OwedAfter(a, owed)
        /\ \A j \in 1..n : rest[j] = owed[j] - Spread(a, owed)[j]
  <2>1. \A j \in 1..n : owed[j] - Spread(a, owed)[j] \in Nat
    BY <1>1
  <2>2. OwedAfter(a, owed) = [j \in 1..n |-> owed[j] - Spread(a, owed)[j]]
    BY DEF OwedAfter
  <2>3. OwedAfter(a, owed) \in [1..n -> Nat]
    BY <2>1, <2>2
  <2> QED BY <2>2, <2>3
<1>3. PICK m \in 0..n : m = k - 1
  OBVIOUS
<1>4. \A j \in 1..m : j \in 1..n
  BY <1>3
<1>5. PICK s \in Nat : s = SumFunctionOnSet(owed, 1..m)
  <2>1. IsFiniteSet(1..m) /\ \A j \in 1..m : owed[j] \in Nat
    BY <1>4, UpToIsFinite
  <2> QED BY <2>1, SumNat
<1>6. SumFunctionOnSet(rest, 1..m)
        = SumFunctionOnSet(owed, 1..m) - SumFunctionOnSet(Spread(a, owed), 1..m)
  <2>1. \A j \in 1..m : /\ owed[j] \in Int /\ Spread(a, owed)[j] \in Int
                        /\ rest[j] = owed[j] - Spread(a, owed)[j]
    BY <1>1, <1>2, <1>4
  <2>2. IsFiniteSet(1..m)
    BY UpToIsFinite
  <2> QED BY <2>1, <2>2, SumMinus
<1>7. SumFunctionOnSet(rest, 1..m) = s - (a - Rest(a, s))
  <2>1. SumFunctionOnSet(Spread(a, owed), 1..m) = a - LeftAfter(a, owed, m)
    BY SpreadTotal
  <2>2. LeftAfter(a, owed, m) = Rest(a, s)
    BY <1>5 DEF LeftAfter
  <2> QED BY <1>5, <1>6, <2>1, <2>2
<1>8. Spread(a, owed)[k] = Take(Rest(a, s), owed[k])
  <2>1. Spread(a, owed)[k] = Take(LeftAfter(a, owed, k - 1), owed[k])
    BY SpreadAt
  <2> QED BY <1>3, <1>5, <2>1 DEF LeftAfter
<1>9. Spread(b, rest)[k] = Take(Rest(b, s - (a - Rest(a, s))), owed[k] - Spread(a, owed)[k])
  <2>1. Spread(b, rest)[k] = Take(LeftAfter(b, rest, k - 1), rest[k])
    BY SpreadAt
  <2>2. LeftAfter(b, rest, m) = Rest(b, s - (a - Rest(a, s)))
    BY <1>7 DEF LeftAfter
  <2>3. rest[k] = owed[k] - Spread(a, owed)[k]
    BY <1>2
  <2> QED BY <1>3, <2>1, <2>2, <2>3
<1>10. Spread(c, owed)[k] = Take(Rest(c, s), owed[k])
  <2>1. Spread(c, owed)[k] = Take(LeftAfter(c, owed, k - 1), owed[k])
    BY SpreadAt
  <2> QED BY <1>3, <1>5, <2>1 DEF LeftAfter
<1>11. \A o \in Nat : Take(Rest(a, s), o)
                        + Take(Rest(b, s - (a - Rest(a, s))), o - Take(Rest(a, s), o))
                      = Take(Rest(c, s), o)
  BY <1>0 DEF Take, Rest
<1>12. Spread(a, owed)[k] + Spread(b, rest)[k] = Spread(c, owed)[k]
  BY <1>8, <1>9, <1>10, <1>11
<1> QED BY <1>2, <1>12, Zenon

-------------------------------------------------------------------------------
\* The allocation plan.

AmountRow == [late_fee: Nat, profit: Nat, principal: Nat]

LEMMA LengthOfRows ==
  ASSUME NEW n \in Nat, NEW f, DOMAIN f = 1..n
  PROVE  Len(f) = n
OBVIOUS

LEMMA ThreesCover ==
  ASSUME NEW m \in Nat, NEW k \in 1..(3 * m)
  PROVE  \E i \in 1..m : k = 3 * i - 2 \/ k = 3 * i - 1 \/ k = 3 * i
<1>1. PICK i \in 1..m : i = (k + 2) \div 3
  OBVIOUS
<1>2. k = 3 * i - 2 \/ k = 3 * i - 1 \/ k = 3 * i
  BY <1>1
<1> QED BY <1>2

LEMMA ThreesInRange ==
  ASSUME NEW m \in Nat, NEW i \in 1..m
  PROVE  3 * i - 2 \in 1..(3 * m) /\ 3 * i - 1 \in 1..(3 * m) /\ 3 * i \in 1..(3 * m)
OBVIOUS

\* The buckets of installment i are the i-th three.
LEMMA BucketsMeaning ==
  ASSUME NEW m \in Nat, NEW rows \in [1..m -> AmountRow]
  PROVE  /\ Buckets(rows) \in [1..(3 * m) -> Nat]
         /\ \A i \in 1..m : /\ Buckets(rows)[3 * i - 2] = rows[i].late_fee
                            /\ Buckets(rows)[3 * i - 1] = rows[i].profit
                            /\ Buckets(rows)[3 * i] = rows[i].principal
<1> DEFINE order == <<"late_fee", "profit", "principal">>
<1>1. Len(rows) = m
  BY LengthOfRows
<1>2. Buckets(rows) = [n \in 1..(3 * m) |-> rows[(n + 2) \div 3][order[((n - 1) % 3) + 1]]]
  BY <1>1 DEF Buckets
<1>3. ASSUME NEW n \in 1..(3 * m)
      PROVE  rows[(n + 2) \div 3][order[((n - 1) % 3) + 1]] \in Nat
  <2>1. PICK i \in 1..m : i = (n + 2) \div 3
    OBVIOUS
  <2>2. PICK j \in 1..3 : j = ((n - 1) % 3) + 1
    OBVIOUS
  <2>3. rows[i] \in AmountRow
    OBVIOUS
  <2>4. rows[i].late_fee \in Nat /\ rows[i].profit \in Nat /\ rows[i].principal \in Nat
    BY <2>3 DEF AmountRow
  <2>5. order[j] \in {"late_fee", "profit", "principal"}
    BY <2>2
  <2>6. rows[i][order[j]] \in Nat
    <3> HIDE DEF order
    <3> QED BY <2>4, <2>5
  <2> QED BY <2>1, <2>2, <2>6
<1>4. ASSUME NEW i \in 1..m
      PROVE  /\ Buckets(rows)[3 * i - 2] = rows[i].late_fee
             /\ Buckets(rows)[3 * i - 1] = rows[i].profit
             /\ Buckets(rows)[3 * i] = rows[i].principal
  <2>1. /\ 3 * i - 2 \in 1..(3 * m) /\ (3 * i - 2 + 2) \div 3 = i
        /\ ((3 * i - 2 - 1) % 3) + 1 = 1
    OBVIOUS
  <2>2. /\ 3 * i - 1 \in 1..(3 * m) /\ (3 * i - 1 + 2) \div 3 = i
        /\ ((3 * i - 1 - 1) % 3) + 1 = 2
    OBVIOUS
  <2>3. /\ 3 * i \in 1..(3 * m) /\ (3 * i + 2) \div 3 = i
        /\ ((3 * i - 1) % 3) + 1 = 3
    OBVIOUS
  <2>4. order[1] = "late_fee" /\ order[2] = "profit" /\ order[3] = "principal"
    OBVIOUS
  <2> HIDE DEF order
  <2>5. Buckets(rows)[3 * i - 2] = rows[i]["late_fee"]
    <3>1. PICK n \in 1..(3 * m) : /\ n = 3 * i - 2 /\ (n + 2) \div 3 = i
                                  /\ ((n - 1) % 3) + 1 = 1
      BY <2>1
    <3>2. Buckets(rows)[n] = rows[(n + 2) \div 3][order[((n - 1) % 3) + 1]]
      BY <1>2
    <3>3. Buckets(rows)[n] = rows[i][order[1]]
      BY <3>1, <3>2
    <3> QED BY <2>4, <3>1, <3>3
  <2>6. Buckets(rows)[3 * i - 1] = rows[i]["profit"]
    <3>1. PICK n \in 1..(3 * m) : /\ n = 3 * i - 1 /\ (n + 2) \div 3 = i
                                  /\ ((n - 1) % 3) + 1 = 2
      BY <2>2
    <3>2. Buckets(rows)[n] = rows[(n + 2) \div 3][order[((n - 1) % 3) + 1]]
      BY <1>2
    <3>3. Buckets(rows)[n] = rows[i][order[2]]
      BY <3>1, <3>2
    <3> QED BY <2>4, <3>1, <3>3
  <2>7. Buckets(rows)[3 * i] = rows[i]["principal"]
    <3>1. PICK n \in 1..(3 * m) : /\ n = 3 * i /\ (n + 2) \div 3 = i
                                  /\ ((n - 1) % 3) + 1 = 3
      BY <2>3
    <3>2. Buckets(rows)[n] = rows[(n + 2) \div 3][order[((n - 1) % 3) + 1]]
      BY <1>2
    <3>3. Buckets(rows)[n] = rows[i][order[3]]
      BY <3>1, <3>2
    <3> QED BY <2>4, <3>1, <3>3
  <2> QED BY <2>5, <2>6, <2>7
<1> HIDE DEF order
<1> QED BY <1>2, <1>3, <1>4

\* Three terms more.
LEMMA SumNextThree ==
  ASSUME NEW f, NEW n \in Nat, \A k \in 1..(n + 3) : f[k] \in Int
  PROVE  SumFunctionOnSet(f, 1..(n + 3))
           = SumFunctionOnSet(f, 1..n) + (f[n + 1] + f[n + 2] + f[n + 3])
<1>1. SumFunctionOnSet(f, 1..(n + 1)) = SumFunctionOnSet(f, 1..n) + f[n + 1]
  BY SumNext
<1>2. PICK p \in Nat : p = n + 1
  OBVIOUS
<1>3. SumFunctionOnSet(f, 1..(p + 1)) = SumFunctionOnSet(f, 1..p) + f[p + 1]
  BY <1>2, SumNext
<1>4. PICK q \in Nat : q = n + 2
  OBVIOUS
<1>5. SumFunctionOnSet(f, 1..(q + 1)) = SumFunctionOnSet(f, 1..q) + f[q + 1]
  BY <1>4, SumNext
<1>6. p + 1 = q /\ q + 1 = n + 3 /\ p + 1 = n + 2
  BY <1>2, <1>4
<1>7. PICK s \in Int : s = SumFunctionOnSet(f, 1..n)
  <2>1. IsFiniteSet(1..n) /\ \A j \in 1..n : f[j] \in Int
    BY UpToIsFinite
  <2> QED BY <2>1, SumInt
<1>8. f[n + 1] \in Int /\ f[n + 2] \in Int /\ f[n + 3] \in Int
  OBVIOUS
<1>9. SumFunctionOnSet(f, 1..p) = s + f[n + 1]
  BY <1>1, <1>2, <1>7
<1>10. SumFunctionOnSet(f, 1..q) = s + f[n + 1] + f[n + 2]
  BY <1>3, <1>6, <1>9
<1>11. SumFunctionOnSet(f, 1..(n + 3)) = s + f[n + 1] + f[n + 2] + f[n + 3]
  BY <1>4, <1>5, <1>6, <1>10
<1> QED BY <1>7, <1>8, <1>11

\* A sum can be taken three terms at a time.
LEMMA SumByThrees ==
  ASSUME NEW m \in Nat, NEW f \in [1..(3 * m) -> Nat], NEW g \in [1..m -> Nat],
         \A i \in 1..m : g[i] = f[3 * i - 2] + f[3 * i - 1] + f[3 * i]
  PROVE  SumFunctionOnSet(f, 1..(3 * m)) = SumFunctionOnSet(g, 1..m)
<1> DEFINE T == {k \in Nat : k <= m => SumFunctionOnSet(f, 1..(3 * k))
                                         = SumFunctionOnSet(g, 1..k)}
<1>1. 0 \in T
  BY UpToNone, SumEmpty
<1>2. ASSUME NEW k \in Nat, k \in T PROVE k + 1 \in T
  <2> SUFFICES ASSUME k + 1 <= m
               PROVE  SumFunctionOnSet(f, 1..(3 * (k + 1)))
                        = SumFunctionOnSet(g, 1..(k + 1))
    OBVIOUS
  <2>1. SumFunctionOnSet(g, 1..(k + 1)) = SumFunctionOnSet(g, 1..k) + g[k + 1]
    <3>1. \A j \in 1..(k + 1) : g[j] \in Int
      OBVIOUS
    <3> QED BY <3>1, SumNext
  <2>2. PICK n \in Nat : n = 3 * k /\ n + 3 <= 3 * m /\ n + 3 = 3 * (k + 1)
    OBVIOUS
  <2>3. SumFunctionOnSet(f, 1..(n + 3))
          = SumFunctionOnSet(f, 1..n) + (f[n + 1] + f[n + 2] + f[n + 3])
    <3>1. \A j \in 1..(n + 3) : f[j] \in Int
      BY <2>2
    <3> QED BY <3>1, SumNextThree
  <2>4. g[k + 1] = f[n + 1] + f[n + 2] + f[n + 3]
    <3>1. 3 * (k + 1) - 2 = n + 1 /\ 3 * (k + 1) - 1 = n + 2 /\ 3 * (k + 1) = n + 3
      BY <2>2
    <3>2. k + 1 \in 1..m
      OBVIOUS
    <3> QED BY <3>1, <3>2
  <2>5. SumFunctionOnSet(f, 1..n) = SumFunctionOnSet(g, 1..k)
    <3>1. SumFunctionOnSet(f, 1..(3 * k)) = SumFunctionOnSet(g, 1..k)
      BY <1>2
    <3> QED BY <3>1, <2>2
  <2>6. SumFunctionOnSet(f, 1..(n + 3)) = SumFunctionOnSet(g, 1..(k + 1))
    BY <2>1, <2>3, <2>4, <2>5, Zenon
  <2> QED BY <2>2, <2>6
<1>3. Nat \subseteq T
  <2> HIDE DEF T
  <2> QED BY <1>1, <1>2, NatSetInduction
<1>4. m \in T
  BY <1>3
<1> QED BY <1>4

LEMMA TotalMeaning ==
  ASSUME NEW m \in Nat, NEW rows, DOMAIN rows = 1..m
  PROVE  Total(rows) = SumFunctionOnSet([i \in 1..m |-> LineTotal(rows[i])], 1..m)
BY DEF Total, SumFunction

\* The buckets add up to all that is owed.
LEMMA BucketsTotal ==
  ASSUME NEW m \in Nat, NEW rows \in [1..m -> AmountRow]
  PROVE  SumFunctionOnSet(Buckets(rows), 1..(3 * m)) = Total(rows)
<1> DEFINE g == [i \in 1..m |-> LineTotal(rows[i])]
<1>1. ASSUME NEW i \in 1..m
      PROVE  /\ g[i] \in Nat
             /\ g[i] = Buckets(rows)[3 * i - 2] + Buckets(rows)[3 * i - 1] + Buckets(rows)[3 * i]
  <2>1. rows[i] \in AmountRow
    OBVIOUS
  <2>2. rows[i].late_fee \in Nat /\ rows[i].profit \in Nat /\ rows[i].principal \in Nat
    BY <2>1 DEF AmountRow
  <2>3. g[i] = rows[i].late_fee + rows[i].profit + rows[i].principal
    BY DEF LineTotal
  <2>4. /\ Buckets(rows)[3 * i - 2] = rows[i].late_fee
        /\ Buckets(rows)[3 * i - 1] = rows[i].profit
        /\ Buckets(rows)[3 * i] = rows[i].principal
    BY BucketsMeaning
  <2> HIDE DEF g
  <2> QED BY <2>2, <2>3, <2>4
<1>2. g \in [1..m -> Nat]
  BY <1>1
<1>3. Total(rows) = SumFunctionOnSet(g, 1..m)
  BY TotalMeaning
<1> HIDE DEF g
<1>4. Buckets(rows) \in [1..(3 * m) -> Nat]
  BY BucketsMeaning
<1> QED BY <1>1, <1>2, <1>3, <1>4, SumByThrees

\* A plan has a line for each installment, takes no more from any balance than it
\* owes, and distributes the whole amount if that much is owed.
LEMMA AllocateMeaning ==
  ASSUME NEW m \in Nat, NEW rows \in [1..m -> AmountRow], NEW amount \in Nat
  PROVE  /\ allocate(amount, rows) \in [1..m -> AmountRow]
         /\ Buckets(allocate(amount, rows)) = Spread(amount, Buckets(rows))
         /\ \A i \in 1..m : /\ allocate(amount, rows)[i].late_fee <= rows[i].late_fee
                            /\ allocate(amount, rows)[i].profit <= rows[i].profit
                            /\ allocate(amount, rows)[i].principal <= rows[i].principal
         /\ amount <= Total(rows) => Total(allocate(amount, rows)) = amount
<1> DEFINE parts == Spread(amount, Buckets(rows))
           plan == allocate(amount, rows)
<1>1. Buckets(rows) \in [1..(3 * m) -> Nat] /\ 3 * m \in Nat
  BY BucketsMeaning
<1>2. /\ parts \in [1..(3 * m) -> Nat]
      /\ \A k \in 1..(3 * m) : parts[k] \in 0..Buckets(rows)[k]
  BY <1>1, SpreadMeaning, SpreadBounds
<1>3. plan = [i \in 1..m |-> [late_fee |-> parts[3 * i - 2], profit |-> parts[3 * i - 1],
                              principal |-> parts[3 * i]]]
  BY DEF allocate
<1> HIDE DEF parts, plan
<1>4. plan \in [1..m -> AmountRow]
  <2>1. \A i \in 1..m : /\ parts[3 * i - 2] \in Nat /\ parts[3 * i - 1] \in Nat
                        /\ parts[3 * i] \in Nat
    <3>1. \A i \in 1..m : /\ 3 * i - 2 \in 1..(3 * m) /\ 3 * i - 1 \in 1..(3 * m)
                          /\ 3 * i \in 1..(3 * m)
      OBVIOUS
    <3> QED BY <1>2, <3>1
  <2> QED BY <1>3, <2>1 DEF AmountRow
<1>5. Buckets(plan) = parts
  <2>1. \A i \in 1..m : /\ Buckets(plan)[3 * i - 2] = parts[3 * i - 2]
                        /\ Buckets(plan)[3 * i - 1] = parts[3 * i - 1]
                        /\ Buckets(plan)[3 * i] = parts[3 * i]
    BY <1>3, <1>4, BucketsMeaning
  <2>2. ASSUME NEW k \in 1..(3 * m) PROVE Buckets(plan)[k] = parts[k]
    <3>1. \E i \in 1..m : k = 3 * i - 2 \/ k = 3 * i - 1 \/ k = 3 * i
      BY ThreesCover
    <3> QED BY <2>1, <3>1
  <2>3. Buckets(plan) \in [1..(3 * m) -> Nat]
    BY <1>4, BucketsMeaning
  <2> QED BY <1>2, <2>2, <2>3
<1>6. ASSUME NEW i \in 1..m
      PROVE  /\ plan[i].late_fee <= rows[i].late_fee
             /\ plan[i].profit <= rows[i].profit
             /\ plan[i].principal <= rows[i].principal
  <2>1. 3 * i - 2 \in 1..(3 * m) /\ 3 * i - 1 \in 1..(3 * m) /\ 3 * i \in 1..(3 * m)
    OBVIOUS
  <2>2. /\ parts[3 * i - 2] <= Buckets(rows)[3 * i - 2]
        /\ parts[3 * i - 1] <= Buckets(rows)[3 * i - 1]
        /\ parts[3 * i] <= Buckets(rows)[3 * i]
    BY <1>2, <2>1
  <2> QED BY <1>3, <2>2, BucketsMeaning
<1>7. ASSUME amount <= Total(rows) PROVE Total(plan) = amount
  <2>1. amount <= SumFunctionOnSet(Buckets(rows), 1..(3 * m))
    BY <1>7, BucketsTotal
  <2>2. SumFunctionOnSet(parts, 1..(3 * m)) = amount
    BY <1>1, <2>1, SpreadAll DEF parts
  <2>3. SumFunctionOnSet(Buckets(plan), 1..(3 * m)) = Total(plan)
    BY <1>4, BucketsTotal
  <2> QED BY <1>5, <2>2, <2>3
<1> QED BY <1>4, <1>5, <1>6, <1>7 DEF plan, parts

-------------------------------------------------------------------------------
\* Sums by a key.

LEMMA SumSingle ==
  ASSUME NEW f, NEW x, f[x] \in Int
  PROVE  SumFunctionOnSet(f, {x}) = f[x]
<1>1. IsFiniteSet({x}) /\ {x} \ {x} = {}
  BY FS_Singleton
<1>2. SumFunctionOnSet(f, {x}) = f[x] + SumFunctionOnSet(f, {x} \ {x})
  BY <1>1, SumWithout
<1> QED BY <1>1, <1>2, SumEmpty

\* A sum with one term that is not zero.
LEMMA SumOnly ==
  ASSUME NEW f, NEW S, IsFiniteSet(S), NEW x \in S,
         \A y \in S : f[y] \in Int, \A y \in S \ {x} : f[y] = 0
  PROVE  SumFunctionOnSet(f, S) = f[x]
<1>1. {x} \in SUBSET S
  OBVIOUS
<1>2. SumFunctionOnSet(f, S) = SumFunctionOnSet(f, {x})
  BY <1>1, SumSupport
<1> QED BY <1>2, SumSingle

\* The terms of one key.
OfKey(f, key, i) == [k \in DOMAIN f |-> IF key[k] = i THEN f[k] ELSE 0]

\* Each term of f has a key, and g[i] is the sum of the terms of key i.
SumsByKey(g, f, key, m, n) ==
  /\ key \in [1..n -> 1..m] /\ f \in [1..n -> Int]
  /\ \A i \in 1..m : g[i] = SumFunctionOnSet(OfKey(f, key, i), 1..n)

\* Adding up the sums of each key gives the whole sum.
LEMMA SumByKey ==
  ASSUME NEW m \in Nat, NEW n \in Nat, NEW key, NEW f, NEW g, SumsByKey(g, f, key, m, n)
  PROVE  SumFunctionOnSet(g, 1..m) = SumFunctionOnSet(f, 1..n)
<1> DEFINE Part(j) == [i \in 1..m |-> SumFunctionOnSet(OfKey(f, key, i), 1..j)]
           T == {j \in Nat : j <= n => SumFunctionOnSet(Part(j), 1..m)
                                         = SumFunctionOnSet(f, 1..j)}
<1>0. /\ key \in [1..n -> 1..m] /\ f \in [1..n -> Int]
      /\ \A i \in 1..m : g[i] = SumFunctionOnSet(OfKey(f, key, i), 1..n)
  BY DEF SumsByKey
<1>1. \A i \in 1..m : /\ DOMAIN OfKey(f, key, i) = 1..n
                      /\ \A k \in 1..n : /\ OfKey(f, key, i)[k] \in Int
                                         /\ OfKey(f, key, i)[k] = IF key[k] = i THEN f[k] ELSE 0
  BY <1>0 DEF OfKey
<1>2. 0 \in T
  <2>1. \A i \in 1..m : Part(0)[i] = 0
    BY UpToNone, SumEmpty
  <2>2. SumFunctionOnSet(Part(0), 1..m) = 0
    <3> HIDE DEF Part
    <3> QED BY <2>1, UpToIsFinite, SumZero
  <2> QED BY <2>2, UpToNone, SumEmpty
<1>3. ASSUME NEW j \in Nat, j \in T PROVE j + 1 \in T
  <2> SUFFICES ASSUME j + 1 <= n
               PROVE  SumFunctionOnSet(Part(j + 1), 1..m) = SumFunctionOnSet(f, 1..(j + 1))
    OBVIOUS
  <2>1. j + 1 \in 1..n /\ 1..j \subseteq 1..n /\ 1..(j + 1) \subseteq 1..n /\ j <= n
    OBVIOUS
  <2>2. PICK d \in [1..m -> Int] : d = [i \in 1..m |-> OfKey(f, key, i)[j + 1]]
    BY <1>1, <2>1
  <2>3. ASSUME NEW i \in 1..m
        PROVE  /\ Part(j)[i] \in Int /\ d[i] \in Int
               /\ Part(j + 1)[i] = Part(j)[i] + d[i]
    <3>1. PICK h : h = OfKey(f, key, i) /\ \A k \in 1..n : h[k] \in Int
      BY <1>1
    <3>2. \A k \in 1..(j + 1) : h[k] \in Int
      BY <2>1, <3>1
    <3>3. SumFunctionOnSet(h, 1..(j + 1)) = SumFunctionOnSet(h, 1..j) + h[j + 1]
      BY <3>2, SumNext
    <3>4. SumFunctionOnSet(h, 1..j) \in Int
      BY <2>1, <3>1, UpToIsFinite, SumInt
    <3>5. d[i] = h[j + 1]
      BY <2>2, <3>1
    <3>6. Part(j)[i] = SumFunctionOnSet(h, 1..j) /\ Part(j + 1)[i] = SumFunctionOnSet(h, 1..(j + 1))
      BY <3>1
    <3> HIDE DEF Part
    <3> QED BY <3>3, <3>4, <3>5, <3>6
  <2>4. SumFunctionOnSet(Part(j + 1), 1..m)
          = SumFunctionOnSet(Part(j), 1..m) + SumFunctionOnSet(d, 1..m)
    <3> HIDE DEF Part
    <3>1. PICK u : u = Part(j)
      OBVIOUS
    <3>2. PICK w : w = Part(j + 1)
      OBVIOUS
    <3>3. \A i \in 1..m : u[i] \in Int /\ d[i] \in Int /\ w[i] = u[i] + d[i]
      BY <2>3, <3>1, <3>2, Zenon
    <3>4. SumFunctionOnSet(w, 1..m) = SumFunctionOnSet(u, 1..m) + SumFunctionOnSet(d, 1..m)
      BY <3>3, UpToIsFinite, SumPlus
    <3> QED BY <3>1, <3>2, <3>4
  <2>5. PICK x \in 1..m : x = key[j + 1]
    BY <1>0, <2>1
  <2>6. d[x] = f[j + 1] /\ \A y \in (1..m) \ {x} : d[y] = 0
    BY <1>0, <1>1, <2>1, <2>2, <2>5
  <2>7. SumFunctionOnSet(d, 1..m) = f[j + 1]
    BY <2>6, UpToIsFinite, SumOnly
  <2>8. \A k \in 1..(j + 1) : f[k] \in Int
    BY <1>0, <2>1
  <2>9. SumFunctionOnSet(f, 1..(j + 1)) = SumFunctionOnSet(f, 1..j) + f[j + 1]
    BY <2>8, SumNext
  <2>10. SumFunctionOnSet(Part(j), 1..m) = SumFunctionOnSet(f, 1..j)
    BY <1>3, <2>1
  <2> HIDE DEF Part
  <2> QED BY <2>4, <2>7, <2>9, <2>10
<1>4. Nat \subseteq T
  <2> HIDE DEF T
  <2> QED BY <1>2, <1>3, NatSetInduction
<1>5. SumFunctionOnSet(Part(n), 1..m) = SumFunctionOnSet(f, 1..n)
  BY <1>4
<1>6. ASSUME NEW i \in 1..m PROVE Part(n)[i] \in Int /\ Part(n)[i] = g[i]
  <2>1. SumFunctionOnSet(OfKey(f, key, i), 1..n) \in Int
    BY <1>1, UpToIsFinite, SumInt
  <2> QED BY <1>0, <2>1
<1>7. SumFunctionOnSet(Part(n), 1..m) = SumFunctionOnSet(g, 1..m)
  <2> HIDE DEF Part
  <2> QED BY <1>6, UpToIsFinite, SumSame
<1> QED BY <1>5, <1>7
-------------------------------------------------------------------------------
\* Tables: rows numbered from 1.

Numbered(s) == s \in Seq({s[n] : n \in DOMAIN s})

LEMMA SeqByRows ==
  ASSUME NEW T, NEW L \in Nat, NEW t, t = [k \in 1..L |-> t[k]], \A k \in 1..L : t[k] \in T
  PROVE  t \in Seq(T)
BY IsASeq

LEMMA NumberedDomain ==
  ASSUME NEW s, Numbered(s)
  PROVE  Len(s) \in Nat /\ DOMAIN s = 1..Len(s)
BY LenProperties DEF Numbered

\* t is s with one element more.
AddsRow(t, s, c) ==
  /\ Numbered(t) /\ DOMAIN t = DOMAIN s \cup {Len(s) + 1}
  /\ t[Len(s) + 1] = c /\ \A k \in DOMAIN s : t[k] = s[k]

LEMMA AddAny ==
  ASSUME NEW s, Numbered(s), NEW c
  PROVE  AddsRow(Append(s, c), s, c)
<1> DEFINE t == Append(s, c)
           S == {s[n] : n \in DOMAIN s} \cup {c}
           L == Len(s)
<1>1. L \in Nat /\ DOMAIN s = 1..L
  BY NumberedDomain
<1>2. s \in Seq(S)
  BY SeqMonotonic DEF Numbered
<1>3. /\ t \in Seq(S) /\ Len(t) = L + 1
      /\ \A k \in 1..L : t[k] = s[k]
      /\ t[L + 1] = c
  <2> HIDE DEF S
  <2>1. c \in S
    BY DEF S
  <2> QED BY <1>2, <2>1, AppendProperties
<1>4. DOMAIN t = 1..(L + 1)
  BY <1>3, LenProperties
<1>5. DOMAIN t = DOMAIN s \cup {L + 1}
  BY <1>1, <1>4
<1> HIDE DEF L
<1>6. Numbered(t)
  <2>1. t = [k \in 1..(L + 1) |-> t[k]]
    BY <1>3, <1>4, LenProperties
  <2> DEFINE T == {t[m] : m \in DOMAIN t}
  <2>2. \A k \in 1..(L + 1) : t[k] \in T
    BY <1>4
  <2> HIDE DEF T
  <2>3. L + 1 \in Nat
    BY <1>1
  <2>4. t \in Seq(T)
    BY <2>1, <2>2, <2>3, SeqByRows
  <2> QED BY <2>4 DEF Numbered, T
<1> QED BY <1>1, <1>3, <1>5, <1>6 DEF L, AddsRow

\* The rows of two tables, one after the other.
Joins(joined, s, m, t, n, T) ==
  /\ joined \in [1..(m + n) -> T]
  /\ \A k \in 1..m : joined[k] = s[k]
  /\ \A k \in 1..n : joined[m + k] = t[k]

LEMMA Joined ==
  ASSUME NEW T, NEW m \in Nat, NEW n \in Nat, NEW s \in [1..m -> T], NEW t \in [1..n -> T]
  PROVE  Joins(s \o t, s, m, t, n, T)
<1>1. s \in Seq(T) /\ t \in Seq(T) /\ Len(s) = m /\ Len(t) = n
  BY SeqDef
<1>2. /\ s \o t \in Seq(T) /\ Len(s \o t) = m + n
      /\ \A k \in 1..(m + n) : (s \o t)[k] = IF k <= m THEN s[k] ELSE t[k - m]
  BY <1>1, ConcatProperties
<1>3. s \o t \in [1..(m + n) -> T]
  BY <1>2, LenProperties
<1>4. ASSUME NEW k \in 1..m PROVE (s \o t)[k] = s[k]
  <2>1. k \in 1..(m + n) /\ k <= m
    OBVIOUS
  <2> QED BY <1>2, <2>1
<1>5. ASSUME NEW k \in 1..n PROVE (s \o t)[m + k] = t[k]
  <2>1. m + k \in 1..(m + n) /\ ~(m + k <= m) /\ (m + k) - m = k
    OBVIOUS
  <2> QED BY <1>2, <2>1
<1> QED BY <1>3, <1>4, <1>5 DEF Joins

\* The elements of a set, each once.
LEMMA SetListed ==
  ASSUME NEW S, IsFiniteSet(S)
  PROVE  \E n \in Nat : /\ SetToSeq(S) \in [1..n -> S]
                        /\ \A x \in S : \E k \in 1..n : SetToSeq(S)[k] = x
                        /\ \A k, j \in 1..n : SetToSeq(S)[k] = SetToSeq(S)[j] => k = j
<1>1. PICK n \in Nat : n = Cardinality(S) /\ Injection(1..n, S) # {}
  BY FS_CardinalityType DEF ExistsBijection, Bijection
<1>2. SetToSeq(S) \in Injection(1..n, S)
  BY <1>1 DEF SetToSeq, Injection
<1>3. IsFiniteSet(1..n) /\ Cardinality(1..n) = n
  BY FS_Interval
<1>4. SetToSeq(S) \in Surjection(1..n, S)
  BY <1>1, <1>2, <1>3, FS_Injection
<1>5. \A k, j \in 1..n : SetToSeq(S)[k] = SetToSeq(S)[j] => k = j
  BY <1>2 DEF Injection, IsInjective
<1> QED BY <1>4, <1>5 DEF Surjection

AddsRows(t, s, m, u) ==
  /\ Numbered(t) /\ DOMAIN t = 1..(Len(s) + m)
  /\ \A k \in DOMAIN s : t[k] = s[k]
  /\ \A k \in 1..m : t[Len(s) + k] = u[k]

LEMMA AddTable ==
  ASSUME NEW s, Numbered(s), NEW m \in Nat, NEW u, u = [k \in 1..m |-> u[k]]
  PROVE  AddsRows(s \o u, s, m, u)
<1> DEFINE T == {s[k] : k \in DOMAIN s} \cup {u[k] : k \in 1..m}
           L == Len(s)
           t == s \o u
<1>1. L \in Nat /\ DOMAIN s = 1..L
  BY NumberedDomain
<1>2. s \in [1..L -> T]
  <2>1. s = [k \in 1..L |-> s[k]]
    BY <1>1, LenProperties DEF Numbered
  <2> QED BY <1>1, <2>1
<1>3. u \in [1..m -> T]
  OBVIOUS
<1> HIDE DEF T, L
<1>4. Joins(t, s, L, u, m, T)
  BY <1>1, <1>2, <1>3, Joined
<1> HIDE DEF t
<1>5. t \in [1..(L + m) -> T] /\ L + m \in Nat
  BY <1>1, <1>4 DEF Joins
<1>6. Numbered(t)
  <2> DEFINE R == {t[k] : k \in DOMAIN t}
  <2>1. t = [k \in 1..(L + m) |-> t[k]] /\ \A k \in 1..(L + m) : t[k] \in R
    BY <1>5
  <2> HIDE DEF R
  <2>2. t \in Seq(R)
    BY <1>5, <2>1, SeqByRows
  <2> QED BY <2>2 DEF Numbered, R
<1> QED BY <1>1, <1>4, <1>5, <1>6 DEF AddsRows, Joins, L, t
===============================================================================
