----------------------------- MODULE SumLemmas -----------------------------
(***************************************************************************)
(* Facts about the sum of a function's values over a finite set, which the *)
(* books of the wallets, the tables and the tournaments are kept in, and   *)
(* about finite sets of numbers.  The induction theorems of the library    *)
(* take an operator; here induction is over sets, by the least element of  *)
(* the set of counterexamples.                                             *)
(***************************************************************************)
EXTENDS Functions, Integers, FiniteSets, FiniteSetTheorems, WellFoundedInduction, TLAPS

\* A set of naturals that is not empty has a least element.
LEMMA LeastNatural ==
  ASSUME NEW T \in SUBSET Nat, T # {}
  PROVE  \E m \in T : \A k \in T : m <= k
<1> DEFINE R == {ss \in Nat \X Nat : ss[1] < ss[2]}
<1>1. IsWellFoundedOn(R, Nat)
  BY NatLessThanWellFounded, Zenon DEF OpToRel
<1>2. \E m \in T : \A k \in T : ~ (<<k, m>> \in R)
  <2> HIDE DEF R
  <2> QED BY <1>1, WFMin
<1>3. \A k, m \in T : ~ (<<k, m>> \in R) => m <= k
  OBVIOUS
<1> QED
  BY <1>2, <1>3

\* Induction over the natural numbers.
LEMMA NatSetInduction ==
  ASSUME NEW T, 0 \in T, \A n \in Nat : n \in T => n + 1 \in T
  PROVE  Nat \subseteq T
<1> SUFFICES ASSUME Nat \ T # {} PROVE FALSE
  OBVIOUS
<1>1. PICK m \in Nat \ T : \A k \in Nat \ T : m <= k
  BY LeastNatural
<1>2. m # 0 /\ m - 1 \in Nat /\ m - 1 \in T
  BY <1>1
<1> QED
  BY <1>1, <1>2

\* Induction over the subsets of a finite set.
LEMMA SubsetInduction ==
  ASSUME NEW S, IsFiniteSet(S), NEW F, {} \in F,
         \A T \in SUBSET S : \A x \in S \ T : T \in F => T \cup {x} \in F
  PROVE  SUBSET S \subseteq F
<1> DEFINE N == {n \in Nat : \A T \in SUBSET S : Cardinality(T) = n => T \in F}
<1>1. \A T \in SUBSET S : IsFiniteSet(T) /\ Cardinality(T) \in Nat
  BY FS_Subset, FS_CardinalityType
<1>2. 0 \in N
  <2> SUFFICES ASSUME NEW T \in SUBSET S, Cardinality(T) = 0 PROVE T \in F
    OBVIOUS
  <2>1. T = {}
    BY <1>1, FS_EmptySet
  <2> QED
    BY <2>1
<1>3. \A n \in Nat : n \in N => n + 1 \in N
  <2> SUFFICES ASSUME NEW n \in Nat,
                      \A T \in SUBSET S : Cardinality(T) = n => T \in F,
                      NEW T \in SUBSET S, Cardinality(T) = n + 1
               PROVE  T \in F
    OBVIOUS
  <2>1. IsFiniteSet(T) /\ T # {}
    BY <1>1, FS_EmptySet
  <2>2. PICK x \in T : TRUE
    BY <2>1
  <2>3. Cardinality(T \ {x}) = n
    <3>1. Cardinality(T \ {x}) = Cardinality(T) - 1
      BY <2>1, FS_RemoveElement
    <3> QED
      BY <3>1
  <2> DEFINE U == T \ {x}
  <2>4. U \in F /\ U \in SUBSET S /\ x \in S \ U
    BY <2>3
  <2>5. U \cup {x} \in F
    <3> HIDE DEF U
    <3> QED BY <2>4
  <2>6. (T \ {x}) \cup {x} = T
    OBVIOUS
  <2> QED
    BY <2>5, <2>6
<1>4. Nat \subseteq N
  <2> HIDE DEF N
  <2> QED BY <1>2, <1>3, NatSetInduction
<1> QED
  BY <1>1, <1>4

-----------------------------------------------------------------------------
(* The sum of f over S, as the library computes it.                        *)

\* The element a fold takes out of a set next.
FoldPick(S) == CHOOSE x \in S : TRUE

\* One turn of the fold: what iter says of a set, given what it says of the smaller
\* ones.
SumStep(f, iter, T) == IF T = {} THEN 0 ELSE f[FoldPick(T)] + iter[T \ {FoldPick(T)}]

\* The tables of partial sums over the sets in D.
PartialSums(f, D) == {iter \in [D -> Int] : \A T \in D : iter[T] = SumStep(f, iter, T)}

\* Every finite set has such a table.
LEMMA PartialSumsExist ==
  ASSUME NEW S, IsFiniteSet(S), NEW f, \A x \in S : f[x] \in Int
  PROVE  PartialSums(f, SUBSET S) # {}
<1> DEFINE D(n) == {T \in SUBSET S : Cardinality(T) <= n}
           N == {n \in Nat : PartialSums(f, D(n)) # {}}
<1>1. \A T \in SUBSET S : IsFiniteSet(T) /\ Cardinality(T) \in Nat
  BY FS_Subset, FS_CardinalityType
<1>2. \A T \in SUBSET S : T # {} =>
        /\ FoldPick(T) \in T /\ f[FoldPick(T)] \in Int
        /\ Cardinality(T \ {FoldPick(T)}) = Cardinality(T) - 1
        /\ T \ {FoldPick(T)} \in SUBSET S
  BY <1>1, FS_RemoveElement DEF FoldPick
<1>3. 0 \in N
  <2>1. D(0) = {{}}
    BY <1>1, FS_EmptySet
  <2>2. [T \in {{}} |-> 0] \in PartialSums(f, {{}})
    BY DEF PartialSums, SumStep
  <2> QED
    BY <2>1, <2>2
<1>4. \A n \in Nat : n \in N => n + 1 \in N
  <2> SUFFICES ASSUME NEW n \in Nat, PartialSums(f, D(n)) # {} PROVE PartialSums(f, D(n + 1)) # {}
    <3> HIDE DEF D
    <3> QED OBVIOUS
  <2>1. PICK g : g \in PartialSums(f, D(n))
    OBVIOUS
  <2>2. g \in [D(n) -> Int] /\ \A T \in D(n) : g[T] = SumStep(f, g, T)
    BY <2>1 DEF PartialSums
  <2> DEFINE h == [T \in D(n + 1) |-> SumStep(f, g, T)]
  <2>3. \A T \in D(n + 1) : T # {} => T \ {FoldPick(T)} \in D(n)
    BY <1>1, <1>2
  <2>4. \A T \in D(n + 1) : SumStep(f, g, T) \in Int
    BY <1>2, <2>2, <2>3 DEF SumStep
  <2>5. \A T \in D(n) : T \in D(n + 1) /\ h[T] = g[T]
    BY <1>1, <2>2
  <2>6. h \in [D(n + 1) -> Int]
    BY <2>4
  <2>7. \A T \in D(n + 1) : h[T] = SumStep(f, h, T)
    BY <2>3, <2>5 DEF SumStep
  <2>8. h \in PartialSums(f, D(n + 1))
    <3> HIDE DEF h, D
    <3> QED BY <2>6, <2>7 DEF PartialSums
  <2> QED
    BY <2>8
<1>5. Cardinality(S) \in N
  <2> HIDE DEF N
  <2>1. Nat \subseteq N
    BY <1>3, <1>4, NatSetInduction
  <2> QED
    BY <1>1, <2>1
<1>6. D(Cardinality(S)) = SUBSET S
  BY <1>1, FS_Subset
<1> QED
  BY <1>5, <1>6

\* A sum is read off any such table.
LEMMA SumIsPartial ==
  ASSUME NEW S, IsFiniteSet(S), NEW f, \A x \in S : f[x] \in Int,
         NEW t \in PartialSums(f, SUBSET S), NEW T \in SUBSET S
  PROVE  SumFunctionOnSet(f, T) = t[T]
<1> DEFINE Fold(g) == [U \in SUBSET T |-> SumStep(f, g, U)]
           iter == CHOOSE g : g = Fold(g)
           r == [U \in SUBSET T |-> t[U]]
<1>1. IsFiniteSet(T) /\ \A U \in SUBSET T : IsFiniteSet(U) /\ Cardinality(U) \in Nat
  BY FS_Subset, FS_CardinalityType
<1>2. \A U \in SUBSET T : U # {} =>
        /\ FoldPick(U) \in U /\ Cardinality(U \ {FoldPick(U)}) = Cardinality(U) - 1
        /\ U \ {FoldPick(U)} \in SUBSET T
  BY <1>1, FS_RemoveElement DEF FoldPick
<1>3. r = Fold(r)
  BY <1>2 DEF PartialSums, SumStep
<1>4. iter = Fold(iter)
  <2> HIDE DEF Fold, r
  <2> QED BY <1>3
<1>5. \A U \in SUBSET T : iter[U] = t[U]
  <2> DEFINE Bad == {n \in Nat : \E U \in SUBSET T : Cardinality(U) = n /\ iter[U] # t[U]}
  <2> HIDE DEF iter
  <2> SUFFICES ASSUME Bad # {} PROVE FALSE
    BY <1>1
  <2>1. PICK m \in Bad : \A k \in Bad : m <= k
    <3> HIDE DEF Bad
    <3>1. Bad \in SUBSET Nat
      BY DEF Bad
    <3> QED BY <3>1, LeastNatural
  <2>2. PICK U \in SUBSET T : Cardinality(U) = m /\ iter[U] # t[U]
    OBVIOUS
  <2>3. iter[U] = SumStep(f, iter, U)
    BY <1>4
  <2>4. t[U] = SumStep(f, t, U)
    BY DEF PartialSums
  <2>5. U # {}
    BY <2>2, <2>3, <2>4 DEF SumStep
  <2>6. Cardinality(U \ {FoldPick(U)}) = m - 1 /\ U \ {FoldPick(U)} \in SUBSET T
    BY <1>2, <2>2, <2>5
  <2>7. m - 1 \in Nat
    BY <1>1, <2>6
  <2>8. iter[U \ {FoldPick(U)}] = t[U \ {FoldPick(U)}]
    BY <2>1, <2>6, <2>7
  <2> QED
    BY <2>2, <2>3, <2>4, <2>8 DEF SumStep
<1>6. SumFunctionOnSet(f, T) = iter[T]
  BY Zenon DEF SumFunctionOnSet, FoldFunctionOnSet, MapThenFoldSet, SumStep, FoldPick
<1> QED
  BY <1>5, <1>6

\* The sum over no elements.
LEMMA SumEmpty ==
  ASSUME NEW f
  PROVE  SumFunctionOnSet(f, {}) = 0
<1>1. PICK t : t \in PartialSums(f, SUBSET {})
  BY PartialSumsExist, FS_EmptySet
<1>2. SumFunctionOnSet(f, {}) = t[{}]
  BY <1>1, SumIsPartial, FS_EmptySet
<1> QED
  BY <1>1, <1>2 DEF PartialSums, SumStep

\* A sum of integers is an integer.
LEMMA SumType ==
  ASSUME NEW S, IsFiniteSet(S), NEW f, \A x \in S : f[x] \in Int
  PROVE  SumFunctionOnSet(f, S) \in Int
<1>1. PICK t : t \in PartialSums(f, SUBSET S)
  BY PartialSumsExist
<1>2. SumFunctionOnSet(f, S) = t[S]
  BY <1>1, SumIsPartial
<1> QED
  BY <1>1, <1>2 DEF PartialSums

\* One turn of the fold.
LEMMA SumSplit ==
  ASSUME NEW S, IsFiniteSet(S), NEW f, \A x \in S : f[x] \in Int, S # {}
  PROVE  /\ FoldPick(S) \in S
         /\ SumFunctionOnSet(f, S) = f[FoldPick(S)] + SumFunctionOnSet(f, S \ {FoldPick(S)})
<1>1. PICK t : t \in PartialSums(f, SUBSET S)
  BY PartialSumsExist
<1>2. /\ SumFunctionOnSet(f, S) = t[S]
      /\ SumFunctionOnSet(f, S \ {FoldPick(S)}) = t[S \ {FoldPick(S)}]
  BY <1>1, SumIsPartial
<1>3. t[S] = SumStep(f, t, S)
  BY <1>1 DEF PartialSums
<1>4. FoldPick(S) \in S
  BY DEF FoldPick
<1> QED
  BY <1>2, <1>3, <1>4 DEF SumStep

\* Any element may be taken out first.
LEMMA SumRemove ==
  ASSUME NEW S, IsFiniteSet(S), NEW f, \A x \in S : f[x] \in Int, NEW x \in S
  PROVE  SumFunctionOnSet(f, S) = f[x] + SumFunctionOnSet(f, S \ {x})
<1> DEFINE Sum(T) == SumFunctionOnSet(f, T)
           Good(T) == \A y \in T : Sum(T) = f[y] + Sum(T \ {y})
           Bad == {n \in Nat : \E T \in SUBSET S : Cardinality(T) = n /\ ~Good(T)}
<1>1. \A T \in SUBSET S : IsFiniteSet(T) /\ Cardinality(T) \in Nat
  BY FS_Subset, FS_CardinalityType
<1>2. \A T \in SUBSET S : Sum(T) \in Int
  BY <1>1, SumType
<1>3. Bad = {}
  <2> SUFFICES ASSUME Bad # {} PROVE FALSE
    OBVIOUS
  <2>1. PICK m \in Bad : \A k \in Bad : m <= k
    <3>1. Bad \in SUBSET Nat
      OBVIOUS
    <3> HIDE DEF Bad
    <3> QED BY <3>1, LeastNatural
  <2>2. PICK T \in SUBSET S : Cardinality(T) = m /\ ~Good(T)
    OBVIOUS
  <2>3. PICK y \in T : Sum(T) # f[y] + Sum(T \ {y})
    BY <2>2
  <2> DEFINE p == FoldPick(T)
  <2>4. p \in T /\ Sum(T) = f[p] + Sum(T \ {p})
    BY <1>1, <2>3, SumSplit
  <2>5. p # y
    BY <2>3, <2>4
  <2>6. \A z \in T : Good(T \ {z})
    <3> SUFFICES ASSUME NEW z \in T PROVE Good(T \ {z})
      OBVIOUS
    <3>1. Cardinality(T \ {z}) = Cardinality(T) - 1 /\ Cardinality(T \ {z}) \in Nat
      BY <1>1, FS_RemoveElement
    <3>2. Cardinality(T \ {z}) \notin Bad
      <4> HIDE DEF Bad
      <4>1. Cardinality(T \ {z}) < m
        BY <1>1, <2>2, <3>1
      <4> QED
        BY <1>1, <2>1, <2>2, <3>1, <4>1
    <3>3. T \ {z} \in SUBSET S
      OBVIOUS
    <3> HIDE DEF Good
    <3> QED
      BY <3>1, <3>2, <3>3
  <2> HIDE DEF Bad, p
  <2>7. Sum(T \ {p}) = f[y] + Sum((T \ {p}) \ {y})
    BY <2>4, <2>5, <2>6
  <2>8. Sum(T \ {y}) = f[p] + Sum((T \ {y}) \ {p})
    BY <2>4, <2>5, <2>6
  <2>9. (T \ {p}) \ {y} = (T \ {y}) \ {p}
    OBVIOUS
  <2>10. f[p] \in Int /\ f[y] \in Int /\ Sum((T \ {y}) \ {p}) \in Int
    BY <1>2, <2>4
  <2>11. Sum((T \ {p}) \ {y}) = Sum((T \ {y}) \ {p})
    BY <2>9, Zenon
  <2> HIDE DEF Sum
  <2> QED
    BY <2>3, <2>4, <2>7, <2>8, <2>10, <2>11
<1>4. Good(S)
  BY <1>1, <1>3
<1> QED
  BY <1>4

\* One more element.
LEMMA SumAdd ==
  ASSUME NEW S, IsFiniteSet(S), NEW f, \A z \in S : f[z] \in Int,
         NEW x, x \notin S, f[x] \in Int
  PROVE  SumFunctionOnSet(f, S \cup {x}) = SumFunctionOnSet(f, S) + f[x]
<1>1. IsFiniteSet(S \cup {x}) /\ (S \cup {x}) \ {x} = S
  BY FS_AddElement
<1>2. SumFunctionOnSet(f, S \cup {x}) = f[x] + SumFunctionOnSet(f, (S \cup {x}) \ {x})
  BY <1>1, SumRemove
<1>3. SumFunctionOnSet(f, S \cup {x}) = f[x] + SumFunctionOnSet(f, S)
  BY <1>1, <1>2, Zenon
<1>4. SumFunctionOnSet(f, S) \in Int
  BY SumType
<1> QED
  BY <1>3, <1>4

\* The sum depends on nothing but the values on the set.
LEMMA SumSame ==
  ASSUME NEW S, IsFiniteSet(S), NEW f, NEW g, \A x \in S : f[x] \in Int /\ f[x] = g[x]
  PROVE  SumFunctionOnSet(f, S) = SumFunctionOnSet(g, S)
<1>1. PICK t : t \in PartialSums(f, SUBSET S)
  BY PartialSumsExist
<1>2. t \in PartialSums(g, SUBSET S)
  <2>1. \A T \in SUBSET S : SumStep(f, t, T) = SumStep(g, t, T)
    BY DEF SumStep, FoldPick
  <2> QED
    BY <1>1, <2>1 DEF PartialSums
<1>3. SumFunctionOnSet(f, S) = t[S]
  BY <1>1, SumIsPartial
<1>4. SumFunctionOnSet(g, S) = t[S]
  BY <1>2, SumIsPartial
<1> QED
  BY <1>3, <1>4

\* One value changes.
LEMMA SumChange ==
  ASSUME NEW S, IsFiniteSet(S), NEW f, NEW g, NEW x \in S,
         \A z \in S : f[z] \in Int /\ g[z] \in Int /\ (z # x => g[z] = f[z])
  PROVE  SumFunctionOnSet(g, S) = SumFunctionOnSet(f, S) - f[x] + g[x]
<1>1. IsFiniteSet(S \ {x})
  BY FS_RemoveElement
<1>2. SumFunctionOnSet(f, S \ {x}) = SumFunctionOnSet(g, S \ {x})
  BY <1>1, SumSame
<1>3. /\ SumFunctionOnSet(f, S) = f[x] + SumFunctionOnSet(f, S \ {x})
      /\ SumFunctionOnSet(g, S) = g[x] + SumFunctionOnSet(g, S \ {x})
  BY SumRemove
<1>4. SumFunctionOnSet(f, S \ {x}) \in Int
  BY <1>1, SumType
<1> QED
  BY <1>2, <1>3, <1>4

\* The values a function takes on a finite set can be counted.
LEMMA ImageFinite ==
  ASSUME NEW S, IsFiniteSet(S), NEW f
  PROVE  IsFiniteSet({f[x] : x \in S})
<1> DEFINE T == {f[x] : x \in S}
           g == [x \in S |-> f[x]]
<1>1. g \in Surjection(S, T)
  BY DEF Surjection
<1> HIDE DEF T, g
<1>2. IsFiniteSet(T)
  BY <1>1, FS_Surjection
<1> QED
  BY <1>2 DEF T
=============================================================================
