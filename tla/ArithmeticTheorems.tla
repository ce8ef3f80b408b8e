------------------------- MODULE ArithmeticTheorems -------------------------
(* Sums and roundings. The first are what SumFunctionOnSet and SumFunction of  *)
(* module Functions compute, for functions with any finite domain. They are    *)
(* folds over a chosen order: here is that the recursion has a solution, that  *)
(* the order does not matter, and the laws of sums that follow. The second are *)
(* HalfUp and HalfEven of Domain.                                              *)
(*                                                                             *)
(* Inductions are on a set of what is already shown: where a proof by          *)
(* induction has a predicate, these have the set Good of the sets or numbers   *)
(* it holds of.                                                                *)
EXTENDS Domain, Functions, FiniteSets, FiniteSetTheorems, TLAPS

-----------------------------------------------------------------------------
(* Induction                                                                   *)

\* What holds of a set whenever it holds of the set without any one of its
\* elements, holds of every subset of a finite set.
LEMMA SubsetInduction ==
    ASSUME NEW S, IsFiniteSet(S), NEW Good,
           \A T \in SUBSET S : (\A x \in T : T \ {x} \in Good) => T \in Good
    PROVE  \A T \in SUBSET S : T \in Good
<1> DEFINE Bad == (SUBSET S) \ Good
<1> SUFFICES ASSUME Bad # {} PROVE FALSE
  OBVIOUS
<1>1. IsWellFoundedOn(StrictSubsetOrdering(S), SUBSET S)
  <2>1. IsWellFoundedOn(StrictSubsetOrdering(S), FiniteSubsetsOf(S))
    BY FS_StrictSubsetOrderingWellFounded
  <2>2. FiniteSubsetsOf(S) = SUBSET S
    BY FS_FiniteSubsetsOfFinite
  <2>. QED BY <2>1, <2>2
<1>2. PICK T \in Bad : \A U \in Bad : ~(<<U, T>> \in StrictSubsetOrdering(S))
  <2> HIDE DEF Bad
  <2>1. Bad \subseteq SUBSET S
    BY DEF Bad
  <2>. QED BY <1>1, <2>1, WFMin
<1>3. \A x \in T : T \ {x} \in Good
  <2> SUFFICES ASSUME NEW x \in T PROVE T \ {x} \in Good
    OBVIOUS
  <2>1. T \ {x} \in SUBSET S /\ T \in SUBSET S /\ T \ {x} \subseteq T /\ T \ {x} # T
    OBVIOUS
  <2>2. <<T \ {x}, T>> \in StrictSubsetOrdering(S)
    BY <2>1 DEF StrictSubsetOrdering
  <2>. QED BY <1>2, <2>1, <2>2
<1>. QED BY <1>3

\* What holds of 0, and of i + 1 whenever it holds of i, holds of every number.
LEMMA UpwardInduction ==
    ASSUME NEW n \in Nat, NEW Good, 0 \in Good, \A i \in Nat : i \in Good => i + 1 \in Good
    PROVE  n \in Good
<1> DEFINE A == {T \in SUBSET (1..n) : \A i \in 0..n : T = 1..i => i \in Good }
<1>1. ASSUME NEW T \in SUBSET (1..n), \A x \in T : T \ {x} \in A
      PROVE  T \in A
  <2> SUFFICES ASSUME NEW i \in 0..n, T = 1..i PROVE i \in Good
    OBVIOUS
  <2>1. CASE i = 0
    BY <2>1
  <2>2. CASE i # 0
    <3>1. i \in T /\ T \ {i} = 1..(i-1) /\ i-1 \in 0..n
      BY <2>2
    <3>2. i - 1 \in Good
      BY <3>1, <1>1
    <3>3. i-1+1 \in Good
      BY <3>2, <3>1
    <3>. QED BY <3>3
  <2>. QED BY <2>1, <2>2
<1>2. \A T \in SUBSET (1..n) : T \in A
  <2> HIDE DEF A
  <2>1. IsFiniteSet(1..n)
    BY FS_Interval
  <2>. QED BY <2>1, <1>1, SubsetInduction
<1>3. 1..n \in A
  <2> HIDE DEF A
  <2>. QED BY <1>2
<1>. QED BY <1>3

-----------------------------------------------------------------------------
(* The recursion                                                               *)

\* SumFunctionOnSet adds the elements of a set in the order in which CHOOSE takes
\* them. A partial sum is one element and the partial sum of the others.
Chosen(s) == CHOOSE x \in s : TRUE
SumStep(f, iter, s) == IF s = {} THEN 0 ELSE f[Chosen(s)] + iter[s \ {Chosen(s)}]

\* iter has the partial sums over the sets in D.
IsSum(f, D, iter) == iter = [s \in D |-> SumStep(f, iter, s)]

\* The recursion has a solution: one for sets of up to n elements is extended to n + 1.
LEMMA SumExists ==
    ASSUME NEW f, NEW S, IsFiniteSet(S)
    PROVE  \E iter : IsSum(f, SUBSET S, iter)
<1> DEFINE Upto(n) == {T \in SUBSET S : Cardinality(T) <= n}
           Good == {n \in Nat : \E iter : IsSum(f, Upto(n), iter)}
<1>1. \A T \in SUBSET S : /\ IsFiniteSet(T) /\ Cardinality(T) \in Nat
                          /\ Cardinality(T) = 0 <=> T = {}
                          /\ \A x \in T : Cardinality(T \ {x}) = Cardinality(T) - 1
  BY FS_Subset, FS_CardinalityType, FS_RemoveElement, FS_EmptySet
<1>2. 0 \in Good
  <2>1. Upto(0) \subseteq {{}}
    BY <1>1
  <2>2. IsSum(f, Upto(0), [s \in Upto(0) |-> 0])
    BY <2>1 DEF IsSum, SumStep
  <2>. QED BY <2>2
<1>3. ASSUME NEW n \in Nat, n \in Good PROVE n + 1 \in Good
  <2>1. PICK iter : IsSum(f, Upto(n), iter)
    BY <1>3
  <2>2. PICK next : next = [s \in Upto(n+1) |-> SumStep(f, iter, s)]
    OBVIOUS
  <2>3. \A s \in Upto(n) : next[s] = iter[s]
    <3>1. Upto(n) \subseteq Upto(n+1)
      BY <1>1
    <3> HIDE DEF Upto
    <3>. QED BY <2>1, <2>2, <3>1 DEF IsSum
  <2>4. \A s \in Upto(n+1) : SumStep(f, iter, s) = SumStep(f, next, s)
    <3> SUFFICES ASSUME NEW s \in Upto(n+1), s # {} PROVE next[s \ {Chosen(s)}] = iter[s \ {Chosen(s)}]
      BY DEF SumStep
    <3>1. s \ {Chosen(s)} \in Upto(n)
      BY <1>1 DEF Chosen
    <3>. QED BY <2>3, <3>1
  <2>5. IsSum(f, Upto(n+1), next)
    <3> HIDE DEF Upto
    <3>. QED BY <2>2, <2>4 DEF IsSum
  <2>7. n + 1 \in Nat
    OBVIOUS
  <2>. QED BY <2>5, <2>7
<1>4. Cardinality(S) \in Good
  <2> HIDE DEF Good
  <2>. QED BY <1>1, <1>2, <1>3, UpwardInduction
<1>5. Upto(Cardinality(S)) = SUBSET S
  BY FS_Subset
<1>. QED BY <1>4, <1>5

\* The sum is the last of the partial sums of some solution.
LEMMA SumIsSome ==
    ASSUME NEW f, NEW S, IsFiniteSet(S)
    PROVE  \E iter : IsSum(f, SUBSET S, iter) /\ SumFunctionOnSet(f, S) = iter[S]
<1> DEFINE it == CHOOSE iter : IsSum(f, SUBSET S, iter)
<1>1. IsSum(f, SUBSET S, it)
  BY SumExists
<1>2. SumFunctionOnSet(f, S) = it[S]
  BY DEF SumFunctionOnSet, FoldFunctionOnSet, MapThenFoldSet, IsSum, SumStep, Chosen
<1>. QED BY <1>1, <1>2

\* Computing on more sets changes no partial sum.
Agree(i, j, T) == i[T] = j[T]

\* The partial sums over a subset are the same in every solution.
LEMMA SumsAgree ==
    ASSUME NEW f, NEW S, IsFiniteSet(S), NEW i, IsSum(f, SUBSET S, i),
           NEW T, T \subseteq S, NEW j, IsSum(f, SUBSET T, j)
    PROVE  Agree(i, j, T)
<1> DEFINE Good == {U \in SUBSET T : i[U] = j[U]}
<1>1. ASSUME NEW U \in SUBSET T, \A x \in U : U \ {x} \in Good
      PROVE  U \in Good
  <2>1. i[U] = SumStep(f, i, U) /\ j[U] = SumStep(f, j, U)
    BY DEF IsSum
  <2>2. U # {} => i[U \ {Chosen(U)}] = j[U \ {Chosen(U)}]
    BY <1>1 DEF Chosen
  <2>. QED BY <2>1, <2>2 DEF SumStep
<1>2. IsFiniteSet(T)
  BY FS_Subset
<1>3. T \in Good
  <2> HIDE DEF Good
  <2>. QED BY <1>1, <1>2, SubsetInduction
<1>. QED BY <1>3 DEF Agree

\* The partial sums of integers are integers.
LEMMA PartialSumsAreIntegers ==
    ASSUME NEW f, NEW S, IsFiniteSet(S), \A x \in S : f[x] \in Int,
           NEW i, IsSum(f, SUBSET S, i)
    PROVE  \A T \in SUBSET S : i[T] \in Int
<1> DEFINE Good == {T \in SUBSET S : i[T] \in Int}
<1>1. ASSUME NEW T \in SUBSET S, \A x \in T : T \ {x} \in Good
      PROVE  T \in Good
  <2>1. i[T] = SumStep(f, i, T)
    BY DEF IsSum
  <2>2. T # {} => i[T \ {Chosen(T)}] \in Int /\ f[Chosen(T)] \in Int
    BY <1>1 DEF Chosen
  <2>. QED BY <2>1, <2>2 DEF SumStep
<1>2. \A T \in SUBSET S : T \in Good
  <2> HIDE DEF Good
  <2>. QED BY <1>1, SubsetInduction
<1>. QED BY <1>2

\* The elements may be taken in any order.
Splits(f, S, i) == \A T \in SUBSET S : \A x \in T : i[T] = f[x] + i[T \ {x}]

\* A partial sum is any one element and the partial sum of the others.
LEMMA AnyOrder ==
    ASSUME NEW f, NEW S, IsFiniteSet(S), \A x \in S : f[x] \in Int,
           NEW i, IsSum(f, SUBSET S, i)
    PROVE  Splits(f, S, i)
<1> DEFINE Good == {T \in SUBSET S : \A x \in T : i[T] = f[x] + i[T \ {x}]}
<1>1. ASSUME NEW T \in SUBSET S, \A x \in T : T \ {x} \in Good
      PROVE  T \in Good
  <2> SUFFICES ASSUME NEW x \in T
               PROVE  i[T] = f[x] + i[T \ {x}]
    OBVIOUS
  <2> DEFINE c == Chosen(T)
  <2>1. c \in T /\ i[T] = f[c] + i[T \ {c}]
    BY DEF IsSum, SumStep, Chosen
  <2> HIDE DEF c
  <2>2. CASE x = c
    BY <2>1, <2>2
  <2>3. CASE x # c
    <3> DEFINE rest == i[T \ {c, x}]
    <3>1. (T \ {c}) \ {x} = T \ {c, x} /\ (T \ {x}) \ {c} = T \ {c, x}
      OBVIOUS
    <3>2. i[T \ {c}] = f[x] + rest
      BY <1>1, <2>1, <2>3, <3>1
    <3>3. i[T \ {x}] = f[c] + rest
      BY <1>1, <2>1, <2>3, <3>1
    <3>4. rest \in Int /\ f[x] \in Int /\ f[c] \in Int
      BY <2>1, PartialSumsAreIntegers
    <3> HIDE DEF rest
    <3>. QED BY <2>1, <3>2, <3>3, <3>4
  <2>. QED BY <2>2, <2>3
<1>2. \A T \in SUBSET S : T \in Good
  <2> HIDE DEF Good
  <2>. QED BY <1>1, SubsetInduction
<1>. QED BY <1>2 DEF Splits

-----------------------------------------------------------------------------
(* What a sum is                                                             *)

\* Nothing sums to 0.
LEMMA SumOfNone ==
    ASSUME NEW f
    PROVE  SumFunctionOnSet(f, {}) = 0
<1>1. PICK i : IsSum(f, SUBSET {}, i) /\ SumFunctionOnSet(f, {}) = i[{}]
  BY SumIsSome, FS_EmptySet
<1>. QED BY <1>1 DEF IsSum, SumStep

\* A finite sum of integers is an integer.
LEMMA SumIsInteger ==
    ASSUME NEW f, NEW S, IsFiniteSet(S), \A x \in S : f[x] \in Int
    PROVE  SumFunctionOnSet(f, S) \in Int
<1>1. PICK i : IsSum(f, SUBSET S, i) /\ SumFunctionOnSet(f, S) = i[S]
  BY SumIsSome
<1>2. \A T \in SUBSET S : i[T] \in Int
  BY <1>1, PartialSumsAreIntegers
<1>. QED BY <1>1, <1>2

\* Partial sums are sums: computing on more sets changes nothing.
LEMMA SumsArePartialSums ==
    ASSUME NEW f, NEW S, IsFiniteSet(S), NEW i, IsSum(f, SUBSET S, i)
    PROVE  \A T \in SUBSET S : SumFunctionOnSet(f, T) = i[T]
<1> SUFFICES ASSUME NEW T \in SUBSET S
             PROVE  SumFunctionOnSet(f, T) = i[T]
  OBVIOUS
<1>1. IsFiniteSet(T)
  BY FS_Subset
<1>2. PICK j : IsSum(f, SUBSET T, j) /\ SumFunctionOnSet(f, T) = j[T]
  BY <1>1, SumIsSome
<1>3. Agree(i, j, T)
  <2>1. T \subseteq S /\ IsSum(f, SUBSET T, j)
    BY <1>2
  <2>. QED BY <2>1, SumsAgree
<1>. QED BY <1>2, <1>3 DEF Agree

\* Any one element may be set apart.
LEMMA SumSplit ==
    ASSUME NEW f, NEW S, IsFiniteSet(S), \A x \in S : f[x] \in Int
    PROVE  \A x \in S : SumFunctionOnSet(f, S) = f[x] + SumFunctionOnSet(f, S \ {x})
<1>1. PICK i : IsSum(f, SUBSET S, i)
  BY SumExists
<1>2. \A T \in SUBSET S : SumFunctionOnSet(f, T) = i[T]
  BY <1>1, SumsArePartialSums
<1>3. Splits(f, S, i)
  BY <1>1, AnyOrder
<1>. QED BY <1>2, <1>3 DEF Splits

\* Functions that agree on a set have the same sum over it.
LEMMA SumSame ==
    ASSUME NEW f, NEW g, NEW S, IsFiniteSet(S), \A x \in S : f[x] \in Int /\ g[x] = f[x]
    PROVE  SumFunctionOnSet(g, S) = SumFunctionOnSet(f, S)
<1> DEFINE Good == {T \in SUBSET S : SumFunctionOnSet(g, T) = SumFunctionOnSet(f, T)}
<1>1. ASSUME NEW T \in SUBSET S, \A x \in T : T \ {x} \in Good
      PROVE  T \in Good
  <2>1. CASE T = {}
    BY <2>1, SumOfNone
  <2>2. ASSUME NEW x \in T
        PROVE  SumFunctionOnSet(g, T) = SumFunctionOnSet(f, T)
    <3>1. IsFiniteSet(T)
      BY FS_Subset
    <3>2. SumFunctionOnSet(g, T) = g[x] + SumFunctionOnSet(g, T \ {x})
      BY <3>1, SumSplit
    <3>3. SumFunctionOnSet(f, T) = f[x] + SumFunctionOnSet(f, T \ {x})
      BY <3>1, SumSplit
    <3>. QED BY <1>1, <3>2, <3>3
  <2>. QED BY <2>1, <2>2
<1>2. \A T \in SUBSET S : T \in Good
  <2> HIDE DEF Good
  <2>. QED BY <1>1, SubsetInduction
<1>. QED BY <1>2

\* Sums add up element by element.
LEMMA SumAdds ==
    ASSUME NEW f, NEW g, NEW h, NEW S, IsFiniteSet(S),
           \A x \in S : f[x] \in Int /\ g[x] \in Int /\ h[x] = f[x] + g[x]
    PROVE  SumFunctionOnSet(h, S) = SumFunctionOnSet(f, S) + SumFunctionOnSet(g, S)
<1> DEFINE Good == {T \in SUBSET S :
               SumFunctionOnSet(h, T) = SumFunctionOnSet(f, T) + SumFunctionOnSet(g, T)}
<1>1. ASSUME NEW T \in SUBSET S, \A x \in T : T \ {x} \in Good
      PROVE  T \in Good
  <2>1. CASE T = {}
    BY <2>1, SumOfNone
  <2>2. ASSUME NEW x \in T
        PROVE  SumFunctionOnSet(h, T) = SumFunctionOnSet(f, T) + SumFunctionOnSet(g, T)
    <3>1. IsFiniteSet(T) /\ IsFiniteSet(T \ {x})
      BY FS_Subset
    <3>2. SumFunctionOnSet(h, T) = h[x] + SumFunctionOnSet(h, T \ {x})
      BY <3>1, SumSplit
    <3>3. SumFunctionOnSet(f, T) = f[x] + SumFunctionOnSet(f, T \ {x})
      BY <3>1, SumSplit
    <3>4. SumFunctionOnSet(g, T) = g[x] + SumFunctionOnSet(g, T \ {x})
      BY <3>1, SumSplit
    <3>5. SumFunctionOnSet(f, T \ {x}) \in Int /\ SumFunctionOnSet(g, T \ {x}) \in Int
      BY <3>1, SumIsInteger
    <3>6. SumFunctionOnSet(h, T \ {x})
              = SumFunctionOnSet(f, T \ {x}) + SumFunctionOnSet(g, T \ {x})
      BY <1>1
    <3>. QED BY <3>2, <3>3, <3>4, <3>5, <3>6
  <2>. QED BY <2>1, <2>2
<1>2. \A T \in SUBSET S : T \in Good
  <2> HIDE DEF Good
  <2>. QED BY <1>1, SubsetInduction
<1>. QED BY <1>2

\* A sum of natural numbers is one, and no less than any of them.
LEMMA SumOfNaturals ==
    ASSUME NEW f, NEW S, IsFiniteSet(S), \A x \in S : f[x] \in Nat
    PROVE  /\ SumFunctionOnSet(f, S) \in Nat
           /\ \A x \in S : f[x] <= SumFunctionOnSet(f, S)
<1> DEFINE Good == {T \in SUBSET S : SumFunctionOnSet(f, T) \in Nat}
<1>1. ASSUME NEW T \in SUBSET S, \A x \in T : T \ {x} \in Good
      PROVE  T \in Good
  <2>1. CASE T = {}
    BY <2>1, SumOfNone
  <2>2. ASSUME NEW x \in T
        PROVE  SumFunctionOnSet(f, T) \in Nat
    <3>1. IsFiniteSet(T)
      BY FS_Subset
    <3>2. SumFunctionOnSet(f, T) = f[x] + SumFunctionOnSet(f, T \ {x})
      BY <3>1, SumSplit
    <3>. QED BY <1>1, <3>2
  <2>. QED BY <2>1, <2>2
<1>2. \A T \in SUBSET S : T \in Good
  <2> HIDE DEF Good
  <2>. QED BY <1>1, SubsetInduction
<1>3. ASSUME NEW x \in S
      PROVE  f[x] <= SumFunctionOnSet(f, S)
  <2>1. SumFunctionOnSet(f, S) = f[x] + SumFunctionOnSet(f, S \ {x})
    BY SumSplit
  <2>2. SumFunctionOnSet(f, S \ {x}) \in Nat
    BY <1>2
  <2>. QED BY <2>1, <2>2
<1>. QED BY <1>2, <1>3

\* A sum of equal numbers is a product.
LEMMA SumOfEqual ==
    ASSUME NEW f, NEW S, IsFiniteSet(S), NEW c \in Int, \A x \in S : f[x] = c
    PROVE  SumFunctionOnSet(f, S) = c * Cardinality(S)
<1> DEFINE Good == {T \in SUBSET S : SumFunctionOnSet(f, T) = c * Cardinality(T)}
<1>1. ASSUME NEW T \in SUBSET S, \A x \in T : T \ {x} \in Good
      PROVE  T \in Good
  <2>1. CASE T = {}
    BY <2>1, SumOfNone, FS_EmptySet
  <2>2. ASSUME NEW x \in T
        PROVE  SumFunctionOnSet(f, T) = c * Cardinality(T)
    <3>1. IsFiniteSet(T) /\ IsFiniteSet(T \ {x})
      BY FS_Subset
    <3>2. SumFunctionOnSet(f, T) = c + SumFunctionOnSet(f, T \ {x})
      BY <3>1, SumSplit
    <3>3. Cardinality(T \ {x}) = Cardinality(T) - 1 /\ Cardinality(T) \in Nat
      BY <3>1, FS_RemoveElement, FS_CardinalityType
    <3>4. SumFunctionOnSet(f, T \ {x}) = c * Cardinality(T \ {x})
      BY <1>1
    <3>. QED BY <3>2, <3>3, <3>4
  <2>. QED BY <2>1, <2>2
<1>2. \A T \in SUBSET S : T \in Good
  <2> HIDE DEF Good
  <2>. QED BY <1>1, SubsetInduction
<1>. QED BY <1>2

\* A common factor can be taken out of a sum.
LEMMA SumScaled ==
    ASSUME NEW f, NEW h, NEW S, IsFiniteSet(S), NEW c \in Int,
           \A x \in S : f[x] \in Int /\ h[x] = c * f[x]
    PROVE  SumFunctionOnSet(h, S) = c * SumFunctionOnSet(f, S)
<1> DEFINE Good == {T \in SUBSET S : SumFunctionOnSet(h, T) = c * SumFunctionOnSet(f, T)}
<1>1. ASSUME NEW T \in SUBSET S, \A x \in T : T \ {x} \in Good
      PROVE  T \in Good
  <2>1. CASE T = {}
    BY <2>1, SumOfNone
  <2>2. ASSUME NEW x \in T
        PROVE  SumFunctionOnSet(h, T) = c * SumFunctionOnSet(f, T)
    <3>1. IsFiniteSet(T) /\ IsFiniteSet(T \ {x}) /\ (\A y \in T : f[y] \in Int /\ h[y] = c * f[y])
          /\ (\A y \in T : h[y] \in Int)
      BY FS_Subset
    <3>2. SumFunctionOnSet(f, T) = f[x] + SumFunctionOnSet(f, T \ {x})
      BY <3>1, SumSplit
    <3>3. SumFunctionOnSet(h, T) = h[x] + SumFunctionOnSet(h, T \ {x})
      BY <3>1, SumSplit
    <3>4. SumFunctionOnSet(h, T \ {x}) = c * SumFunctionOnSet(f, T \ {x})
      BY <1>1
    <3>5. SumFunctionOnSet(f, T \ {x}) \in Int /\ f[x] \in Int /\ h[x] = c * f[x]
      BY <3>1, SumIsInteger
    <3> DEFINE y == SumFunctionOnSet(f, T \ {x})
    <3>6. y \in Int /\ SumFunctionOnSet(f, T) = f[x] + y /\ SumFunctionOnSet(h, T) = c * f[x] + c * y
      BY <3>2, <3>3, <3>4, <3>5
    <3> HIDE DEF y
    <3>7. c * (f[x] + y) = c * f[x] + c * y
      BY <3>5, <3>6
    <3>. QED BY <3>6, <3>7
  <2>. QED BY <2>1, <2>2
<1>2. \A T \in SUBSET S : T \in Good
  <2> HIDE DEF Good
  <2>. QED BY <1>1, SubsetInduction
<1>. QED BY <1>2

\* The values outside of a set are 0 and do not count.
LEMMA SumOfSome ==
    ASSUME NEW f, NEW S, IsFiniteSet(S), NEW A \in SUBSET S, \A x \in S : f[x] \in Int,
           \A x \in S \ A : f[x] = 0
    PROVE  SumFunctionOnSet(f, S) = SumFunctionOnSet(f, A)
<1> DEFINE Good == {T \in SUBSET S : SumFunctionOnSet(f, T) = SumFunctionOnSet(f, T \cap A)}
<1>1. ASSUME NEW T \in SUBSET S, \A x \in T : T \ {x} \in Good
      PROVE  T \in Good
  <2>1. CASE T \subseteq A
    <3>1. T \cap A = T
      BY <2>1
    <3>. QED BY <3>1
  <2>2. ASSUME NEW x \in T \ A
        PROVE  SumFunctionOnSet(f, T) = SumFunctionOnSet(f, T \cap A)
    <3>1. IsFiniteSet(T) /\ IsFiniteSet(T \ {x}) /\ (\A y \in T : f[y] \in Int) /\ f[x] = 0
      BY FS_Subset
    <3>2. SumFunctionOnSet(f, T) = f[x] + SumFunctionOnSet(f, T \ {x})
      BY <3>1, SumSplit
    <3>3. (T \ {x}) \cap A = T \cap A
      OBVIOUS
    <3>4. SumFunctionOnSet(f, T \ {x}) = SumFunctionOnSet(f, T \cap A)
      BY <1>1, <3>3
    <3>5. SumFunctionOnSet(f, T \ {x}) \in Int
      BY <3>1, SumIsInteger
    <3>. QED BY <3>1, <3>2, <3>4, <3>5
  <2>. QED BY <2>1, <2>2
<1>2. S \in Good
  <2>1. \A T \in SUBSET S : T \in Good
    <3> HIDE DEF Good
    <3>. QED BY <1>1, SubsetInduction
  <2> HIDE DEF Good
  <2>. QED BY <2>1
<1>3. S \cap A = A
  OBVIOUS
<1>. QED BY <1>2, <1>3

\* A sum is that of a part and that of the rest.
LEMMA SumOfParts ==
    ASSUME NEW f, NEW S, IsFiniteSet(S), NEW A \in SUBSET S, \A x \in S : f[x] \in Int
    PROVE  SumFunctionOnSet(f, S) = SumFunctionOnSet(f, A) + SumFunctionOnSet(f, S \ A)
<1> DEFINE within == [x \in S |-> IF x \in A THEN f[x] ELSE 0]
           without == [x \in S |-> IF x \in A THEN 0 ELSE f[x]]
<1>1. /\ \A x \in S : within[x] \in Int /\ without[x] \in Int /\ f[x] = within[x] + without[x]
      /\ \A x \in A : within[x] = f[x] /\ without[x] = 0
      /\ \A x \in S \ A : within[x] = 0 /\ without[x] = f[x]
  OBVIOUS
<1> HIDE DEF within, without
<1>2. IsFiniteSet(A) /\ IsFiniteSet(S \ A) /\ S \ A \in SUBSET S /\ S \ (S \ A) = A
  BY FS_Subset
<1>3. SumFunctionOnSet(f, S) = SumFunctionOnSet(within, S) + SumFunctionOnSet(without, S)
  BY <1>1, SumAdds
<1>4. SumFunctionOnSet(within, S) = SumFunctionOnSet(f, A)
  <2>1. SumFunctionOnSet(within, S) = SumFunctionOnSet(within, A)
    BY <1>1, SumOfSome
  <2>2. SumFunctionOnSet(within, A) = SumFunctionOnSet(f, A)
    BY <1>1, <1>2, SumSame
  <2>. QED BY <2>1, <2>2
<1>5. SumFunctionOnSet(without, S) = SumFunctionOnSet(f, S \ A)
  <2>1. SumFunctionOnSet(without, S) = SumFunctionOnSet(without, S \ A)
    <3>1. \A x \in S \ (S \ A) : without[x] = 0
      BY <1>1, <1>2
    <3>. QED BY <1>1, <1>2, <3>1, SumOfSome
  <2>2. SumFunctionOnSet(without, S \ A) = SumFunctionOnSet(f, S \ A)
    BY <1>1, <1>2, SumSame
  <2>. QED BY <2>1, <2>2
<1>. QED BY <1>3, <1>4, <1>5

\* A sum is at most as many times the largest value as there are values.
LEMMA SumAtMost ==
    ASSUME NEW f, NEW S, IsFiniteSet(S), NEW c \in Int, \A x \in S : f[x] \in Int /\ f[x] <= c
    PROVE  SumFunctionOnSet(f, S) <= c * Cardinality(S)
<1> DEFINE spare == [x \in S |-> c - f[x]]
           whole == [x \in S |-> c]
<1>1. \A x \in S : f[x] \in Int /\ spare[x] \in Nat /\ spare[x] \in Int
                  /\ whole[x] = f[x] + spare[x] /\ whole[x] = c
  OBVIOUS
<1> HIDE DEF spare, whole
<1>2. SumFunctionOnSet(whole, S) = SumFunctionOnSet(f, S) + SumFunctionOnSet(spare, S)
  BY <1>1, SumAdds
<1>3. SumFunctionOnSet(whole, S) = c * Cardinality(S)
  BY <1>1, SumOfEqual
<1>4. SumFunctionOnSet(spare, S) \in Nat
  BY <1>1, SumOfNaturals
<1>5. SumFunctionOnSet(f, S) \in Int
  BY <1>1, SumIsInteger
<1>6. c * Cardinality(S) \in Int
  BY FS_CardinalityType
<1>. QED BY <1>2, <1>3, <1>4, <1>5, <1>6

-----------------------------------------------------------------------------
(* Sums of functions                                                         *)

\* The sum of a function's values over its domain.
LEMMA SumFunctionIsInteger ==
    ASSUME NEW S, IsFiniteSet(S), NEW f \in [S -> Int]
    PROVE  SumFunction(f) \in Int
BY SumIsInteger DEF SumFunction

\* A sum moves by as much as the one value that has changed.
LEMMA SumChanged ==
    ASSUME NEW S, IsFiniteSet(S), NEW f \in [S -> Int], NEW g \in [S -> Int],
           NEW x \in S, \A y \in S \ {x} : g[y] = f[y]
    PROVE  SumFunction(g) = SumFunction(f) + g[x] - f[x]
<1>1. IsFiniteSet(S \ {x}) /\ \A y \in S \ {x} : f[y] \in Int /\ g[y] = f[y]
  BY FS_RemoveElement
<1>2. SumFunctionOnSet(g, S \ {x}) = SumFunctionOnSet(f, S \ {x})
  BY <1>1, SumSame
<1>3. SumFunctionOnSet(f, S) = f[x] + SumFunctionOnSet(f, S \ {x})
  BY SumSplit
<1>4. SumFunctionOnSet(g, S) = g[x] + SumFunctionOnSet(g, S \ {x})
  BY SumSplit
<1>5. SumFunctionOnSet(f, S \ {x}) \in Int /\ f[x] \in Int /\ g[x] \in Int
  BY <1>1, SumIsInteger
<1>. QED BY <1>2, <1>3, <1>4, <1>5 DEF SumFunction

\* Functions added value by value have the sums added.
LEMMA SumAdded ==
    ASSUME NEW S, IsFiniteSet(S), NEW f \in [S -> Int], NEW g \in [S -> Int],
           NEW h \in [S -> Int], \A x \in S : h[x] = f[x] + g[x]
    PROVE  SumFunction(h) = SumFunction(f) + SumFunction(g)
<1>1. \A x \in S : f[x] \in Int /\ g[x] \in Int /\ h[x] = f[x] + g[x]
  OBVIOUS
<1>2. SumFunctionOnSet(h, S) = SumFunctionOnSet(f, S) + SumFunctionOnSet(g, S)
  BY <1>1, SumAdds
<1>. QED BY <1>2 DEF SumFunction

-----------------------------------------------------------------------------
(* Rounding                                                                  *)

\* Half up, a result is at most half a unit from the exact value, and never half a
\* unit below one that is not negative.
LEMMA HalfUpBounds ==
    ASSUME NEW n \in Int, NEW d \in Nat \ {0}
    PROVE  /\ HalfUp(n, d) \in Int
           /\ 2 * (d * HalfUp(n, d)) <= 2 * n + d
           /\ 2 * (d * HalfUp(n, d)) >= 2 * n - d
           /\ n >= 0 => 2 * (d * HalfUp(n, d)) > 2 * n - d /\ HalfUp(n, d) >= 0
<1>1. ASSUME NEW x \in Int
      PROVE  /\ x \div (2 * d) \in Int
             /\ 2 * (d * (x \div (2 * d))) <= x
             /\ x < 2 * (d * (x \div (2 * d))) + 2 * d
  <2> DEFINE e == 2 * d
             v == x \div e
  <2>1. e \in Nat /\ e > 0
    OBVIOUS
  <2> HIDE DEF e
  <2>2. v \in Int /\ e * v <= x /\ x < e * v + e
    BY <2>1
  <2> HIDE DEF v
  <2>3. e * v = 2 * (d * v)
    BY <2>2 DEF e
  <2>. QED BY <2>2, <2>3 DEF e, v
<1>2. CASE n >= 0
  <2> DEFINE v == (2 * n + d) \div (2 * d)
  <2>1. HalfUp(n, d) = v
    BY <1>2 DEF HalfUp
  <2>2. v \in Int /\ 2 * (d * v) <= 2 * n + d /\ 2 * n + d < 2 * (d * v) + 2 * d
    <3>1. 2 * n + d \in Int
      OBVIOUS
    <3>. QED BY <1>1, <3>1, Zenon
  <2> HIDE DEF v
  <2> DEFINE z == d * v
  <2>3. z \in Int /\ 2 * z <= 2 * n + d /\ 2 * n + d < 2 * z + 2 * d
    BY <2>2
  <2>4. v >= 0
    <3> SUFFICES ASSUME v <= -1 PROVE FALSE
      BY <2>2
    <3>1. d * v <= d * (-1)
      BY <2>2
    <3> HIDE DEF z
    <3>2. z <= -d
      BY <3>1 DEF z
    <3>. QED BY <2>3, <3>2, <1>2
  <2>5. d * HalfUp(n, d) = z /\ HalfUp(n, d) \in Int /\ HalfUp(n, d) >= 0
    BY <2>1, <2>2, <2>4
  <2> HIDE DEF z
  <2>. QED BY <2>3, <2>5
<1>3. CASE n < 0
  <2> DEFINE w == (d - 2 * n) \div (2 * d)
  <2>1. HalfUp(n, d) = -w
    BY <1>3 DEF HalfUp
  <2>2. w \in Int /\ 2 * (d * w) <= d - 2 * n /\ d - 2 * n < 2 * (d * w) + 2 * d
    <3>1. d - 2 * n \in Int
      OBVIOUS
    <3>. QED BY <1>1, <3>1, Zenon
  <2> HIDE DEF w
  <2>3. d * (-w) = -(d * w)
    BY <2>2
  <2> DEFINE z == d * w
  <2>4. z \in Int /\ 2 * z <= d - 2 * n /\ d - 2 * n < 2 * z + 2 * d /\ d * (-w) = -z
    BY <2>2, <2>3
  <2>5. d * HalfUp(n, d) = -z /\ HalfUp(n, d) \in Int
    BY <2>1, <2>2, <2>4
  <2> HIDE DEF z
  <2>. QED BY <1>3, <2>4, <2>5
<1>. QED BY <1>2, <1>3

\* Rounding keeps the order.
LEMMA HalfUpIsMonotone ==
    ASSUME NEW a \in Int, NEW b \in Int, a <= b, NEW d \in Nat \ {0}
    PROVE  HalfUp(a, d) <= HalfUp(b, d)
<1> DEFINE v == HalfUp(a, d)
           w == HalfUp(b, d)
<1>1. v \in Int /\ w \in Int /\ 2 * (d * v) <= 2 * a + d /\ 2 * (d * w) >= 2 * b - d
  BY HalfUpBounds
<1> SUFFICES ASSUME v >= w + 1 PROVE FALSE
  BY <1>1
<1>2. a = b
  <2> HIDE DEF v, w
  <2>1. d * v >= d * (w + 1) /\ d * (w + 1) = d * w + d
    BY <1>1
  <2> DEFINE x == d * v
             y == d * w
  <2>2. x \in Int /\ y \in Int /\ x >= y + d /\ 2 * x <= 2 * a + d /\ 2 * y >= 2 * b - d
    BY <1>1, <2>1
  <2> HIDE DEF x, y
  <2>. QED BY <2>2
<1>. QED BY <1>1, <1>2

\* A whole unit less, of what is not negative, is a whole unit less when rounded.
LEMMA HalfUpDrops ==
    ASSUME NEW a \in Nat, NEW b \in Nat, NEW d \in Nat \ {0}, a + d <= b
    PROVE  HalfUp(a, d) < HalfUp(b, d)
<1> DEFINE v == HalfUp(a, d)
           w == HalfUp(b, d)
<1>1. v \in Int /\ w \in Int /\ 2 * (d * v) <= 2 * a + d /\ 2 * (d * w) > 2 * b - d
  BY HalfUpBounds
<1> SUFFICES ASSUME v >= w PROVE FALSE
  BY <1>1
<1> HIDE DEF v, w
<1>2. d * v >= d * w
  BY <1>1
<1> DEFINE x == d * v
           y == d * w
<1>3. x \in Int /\ y \in Int /\ x >= y /\ 2 * x <= 2 * a + d /\ 2 * y > 2 * b - d
  BY <1>1, <1>2
<1> HIDE DEF x, y
<1>. QED BY <1>3

\* A value of at most k units is rounded to at most k, one of at least k to at least k.
LEMMA HalfUpStops ==
    ASSUME NEW n \in Int, NEW d \in Nat \ {0}, NEW k \in Int
    PROVE  /\ n <= k * d => HalfUp(n, d) <= k
           /\ n >= k * d => HalfUp(n, d) >= k
<1> DEFINE v == HalfUp(n, d)
<1>1. v \in Int /\ 2 * (d * v) <= 2 * n + d /\ 2 * (d * v) >= 2 * n - d
  BY HalfUpBounds
<1> HIDE DEF v
<1>2. ASSUME n <= k * d, v >= k + 1 PROVE FALSE
  <2>1. d * v >= d * (k + 1) /\ d * (k + 1) = k * d + d
    BY <1>1, <1>2
  <2> DEFINE x == d * v
             y == k * d
  <2>2. x \in Int /\ y \in Int /\ x >= y + d /\ 2 * x <= 2 * n + d /\ n <= y
    BY <1>1, <1>2, <2>1
  <2> HIDE DEF x, y
  <2>. QED BY <2>2
<1>3. ASSUME n >= k * d, v <= k - 1 PROVE FALSE
  <2>1. d * v <= d * (k - 1) /\ d * (k - 1) = k * d - d
    BY <1>1, <1>3
  <2> DEFINE x == d * v
             y == k * d
  <2>2. x \in Int /\ y \in Int /\ x <= y - d /\ 2 * x >= 2 * n - d /\ n >= y
    BY <1>1, <1>3, <2>1
  <2> HIDE DEF x, y
  <2>. QED BY <2>2
<1>. QED BY <1>1, <1>2, <1>3 DEF v

\* Half even, a result is at most half a unit from the exact value.
LEMMA HalfEvenBounds ==
    ASSUME NEW n \in Nat, NEW d \in Nat \ {0}
    PROVE  /\ HalfEven(n, d) \in Nat
           /\ 2 * (d * HalfEven(n, d)) <= 2 * n + d
           /\ 2 * (d * HalfEven(n, d)) >= 2 * n - d
<1> DEFINE q == n \div d
           r == n % d
<1>1. q \in Nat /\ r \in 0..d - 1 /\ n = d * q + r
  OBVIOUS
<1>2. HalfEven(n, d) = IF 2 * r > d \/ (2 * r = d /\ q % 2 = 1) THEN q + 1 ELSE q
  BY DEF HalfEven
<1> HIDE DEF q, r
<1>3. d * (q + 1) = d * q + d /\ d * q \in Nat
  BY <1>1
<1>4. CASE HalfEven(n, d) = q + 1 /\ 2 * r >= d
  <2>1. d * HalfEven(n, d) = d * q + d
    BY <1>3, <1>4
  <2> DEFINE x == d * q
  <2>2. x \in Nat /\ n = x + r /\ d * HalfEven(n, d) = x + d
    BY <1>1, <1>3, <2>1
  <2> HIDE DEF x
  <2>. QED BY <1>1, <1>4, <2>2
<1>5. CASE HalfEven(n, d) = q /\ 2 * r <= d
  <2> DEFINE x == d * q
  <2>1. x \in Nat /\ n = x + r /\ d * HalfEven(n, d) = x
    BY <1>1, <1>3, <1>5
  <2> HIDE DEF x
  <2>. QED BY <1>1, <1>5, <2>1
<1>. QED BY <1>1, <1>2, <1>4, <1>5

\* More points at hand allow no less.
LEMMA HalfEvenIsMonotone ==
    ASSUME NEW a \in Int, NEW b \in Int, a <= b, NEW d \in Nat, d > 0
    PROVE  HalfEven(a, d) <= HalfEven(b, d)
<1> DEFINE p == a \div d
           q == b \div d
           r == a % d
           u == b % d
<1>1. /\ p \in Int /\ q \in Int /\ r \in 0..(d - 1) /\ u \in 0..(d - 1)
      /\ a = d * p + r /\ b = d * q + u
  OBVIOUS
<1>2. HalfEven(a, d) = IF 2 * r > d \/ (2 * r = d /\ p % 2 = 1) THEN p + 1 ELSE p
  BY DEF HalfEven
<1>3. HalfEven(b, d) = IF 2 * u > d \/ (2 * u = d /\ q % 2 = 1) THEN q + 1 ELSE q
  BY DEF HalfEven
<1> HIDE DEF p, q, r, u
<1>4. p <= q
  <2> SUFFICES ASSUME p >= q + 1 PROVE FALSE
    BY <1>1
  <2>1. d * p >= d * (q + 1)
    BY <1>1
  <2>2. d * (q + 1) = d * q + d
    BY <1>1
  <2>3. d * p \in Int /\ d * q \in Int
    BY <1>1
  <2> DEFINE x == d * p
             y == d * q
  <2>4. x \in Int /\ y \in Int /\ x >= y + d /\ a = x + r /\ b = y + u
    BY <1>1, <2>1, <2>2, <2>3
  <2> HIDE DEF x, y
  <2>. QED BY <1>1, <2>4
<1>5. CASE p = q
  <2>1. r <= u
    <3>1. d * p \in Int
      BY <1>1
    <3> DEFINE x == d * p
    <3>2. x \in Int /\ a = x + r /\ b = x + u
      BY <1>1, <1>5, <3>1
    <3> HIDE DEF x
    <3>. QED BY <1>1, <3>2
  <2>. QED BY <1>1, <1>2, <1>3, <1>5, <2>1
<1>6. CASE p # q
  BY <1>1, <1>2, <1>3, <1>4, <1>6
<1>. QED BY <1>5, <1>6

=============================================================================
