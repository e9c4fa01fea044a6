----------------------------- MODULE FiniteSums -----------------------------
(***************************************************************************)
(* Induction over finite sets and sums over them, for the proofs about the *)
(* memory of devices.  The library's induction theorems have an operator   *)
(* for parameter, which the provers cannot instantiate; the sets of        *)
(* counterexamples can stand for the operator: a nonempty set of natural   *)
(* numbers has a least element (WFMin).                                    *)
(***************************************************************************)
EXTENDS Integers, FiniteSets, Functions, FiniteSetTheorems, WellFoundedInduction, TLAPS

\* A set of natural numbers that is not empty has a least element.
LEMMA LeastNatural ==
    ASSUME NEW Q \in SUBSET Nat, Q # {}
    PROVE  \E n \in Q : \A m \in Q : n <= m
<1> DEFINE R == OpToRel(<, Nat)
<1>1. IsWellFoundedOn(R, Nat)
  BY NatLessThanWellFounded
<1>2. \A x, y \in Nat : <<x, y>> \in R <=> x < y
  BY DEF OpToRel
<1> HIDE DEF R
<1>3. PICK n \in Q : \A m \in Q : ~(<<m, n>> \in R)
  BY <1>1, WFMin, Zenon
<1>4. ASSUME NEW m \in Q PROVE n <= m
  <2>1. n \in Nat /\ m \in Nat
    OBVIOUS
  <2>2. ~(m < n)
    BY <1>2, <1>3, <2>1, Zenon
  <2> QED
    BY <2>1, <2>2
<1> QED
  BY <1>4

\* A set of subsets of a finite set that has each one of which it has all
\* proper subsets has all of them.
LEMMA SubsetInduction ==
    ASSUME NEW S, IsFiniteSet(S), NEW P,
           \A T \in SUBSET S : (\A U \in SUBSET T : U # T => U \in P) => T \in P
    PROVE  SUBSET S \subseteq P
<1> DEFINE Q == { n \in Nat : \E T \in SUBSET S : T \notin P /\ Cardinality(T) = n }
<1> SUFFICES ASSUME NEW X \in SUBSET S, X \notin P PROVE FALSE
  OBVIOUS
<1>1. \A T \in SUBSET S : IsFiniteSet(T) /\ Cardinality(T) \in Nat
  BY FS_Subset, FS_CardinalityType
<1>2. Q # {} /\ Q \in SUBSET Nat
  BY <1>1
<1>3. PICK n \in Q : \A m \in Q : n <= m
  BY <1>2, LeastNatural
<1>4. PICK T \in SUBSET S : T \notin P /\ Cardinality(T) = n
  BY <1>3
<1>5. ASSUME NEW U \in SUBSET T, U # T PROVE U \in P
  <2>1. Cardinality(U) < n
    <3>1. Cardinality(U) <= Cardinality(T) /\ Cardinality(U) # Cardinality(T)
      BY <1>1, <1>5, FS_Subset
    <3> QED
      BY <1>1, <1>4, <3>1
  <2> QED
    BY <1>1, <1>3, <2>1
<1> QED
  BY <1>4, <1>5

\* g combines base with one element of a set after the other, each one picked
\* from those that are left.
IsFold(g, S, V, base, h, pick) ==
    /\ g \in [SUBSET S -> V]
    /\ \A T \in SUBSET S :
         g[T] = IF T = {} THEN base ELSE h[<<pick[T], g[T \ {pick[T]}]>>]

\* There is such a function.
LEMMA FoldExists ==
    ASSUME NEW S, IsFiniteSet(S), NEW V, NEW base \in V, NEW h \in [S \X V -> V],
           NEW pick, \A T \in SUBSET S : T # {} => pick[T] \in T
    PROVE  \E g : IsFold(g, S, V, base, h, pick)
<1> DEFINE Small(n) == { T \in SUBSET S : Cardinality(T) <= n }
           Step(g, T) == IF T = {} THEN base ELSE h[<<pick[T], g[T \ {pick[T]}]>>]
           Good(n) == \E g \in [Small(n) -> V] : \A T \in Small(n) : g[T] = Step(g, T)
           Q == { n \in Nat : ~Good(n) }
<1>1. \A T \in SUBSET S : IsFiniteSet(T) /\ Cardinality(T) \in Nat
                          /\ Cardinality(T) <= Cardinality(S)
  BY FS_Subset, FS_CardinalityType
<1>2. Good(0)
  <2> DEFINE g == [T \in Small(0) |-> base]
  <2>1. \A T \in Small(0) : T = {}
    BY <1>1, FS_EmptySet
  <2> QED
    <3>1. g \in [Small(0) -> V] /\ \A T \in Small(0) : g[T] = Step(g, T)
      BY <2>1
    <3> QED
      BY <3>1
<1>3. ASSUME NEW n \in Nat, n # 0, Good(n - 1) PROVE Good(n)
  <2>1. PICK g \in [Small(n - 1) -> V] : \A T \in Small(n - 1) : g[T] = Step(g, T)
    BY <1>3
  <2> DEFINE k == [T \in Small(n) |-> Step(g, T)]
  <2>2. ASSUME NEW T \in Small(n), T # {}
        PROVE  pick[T] \in S /\ T \ {pick[T]} \in Small(n - 1)
    <3>1. pick[T] \in T
      BY <2>2
    <3>2. Cardinality(T \ {pick[T]}) = Cardinality(T) - 1
      BY <1>1, <2>2, <3>1, FS_RemoveElement
    <3>3. Cardinality(T \ {pick[T]}) <= n - 1
      BY <1>1, <3>2
    <3> QED
      BY <3>1, <3>3
  <2>3. \A T \in Small(n - 1) : T \in Small(n)
    BY <1>1
  <2>4. \A T \in Small(n) : k[T] = Step(g, T)
    OBVIOUS
  <2> HIDE DEF k
  <2>5. \A T \in Small(n - 1) : k[T] = g[T]
    BY <2>1, <2>3, <2>4
  <2>6. ASSUME NEW T \in Small(n) PROVE k[T] \in V /\ k[T] = Step(k, T)
    <3>1. CASE T = {}
      BY <2>4, <3>1
    <3>2. CASE T # {}
      <4>1. pick[T] \in S /\ T \ {pick[T]} \in Small(n - 1)
        BY <2>2, <3>2
      <4> DEFINE U == T \ {pick[T]}
      <4>2. k[U] = g[U] /\ g[U] \in V
        BY <2>1, <2>5, <4>1
      <4>3. k[T] = h[<<pick[T], g[U]>>]
        BY <2>4, <3>2
      <4> QED
        BY <3>2, <4>1, <4>2, <4>3
    <3> QED
      BY <3>1, <3>2
  <2>7. k \in [Small(n) -> V]
    BY <2>6 DEF k
  <2> QED
    BY <2>6, <2>7
<1>4. Good(Cardinality(S))
  <2> HIDE DEF Good
  <2> SUFFICES ASSUME ~Good(Cardinality(S)) PROVE FALSE
    OBVIOUS
  <2>1. Q # {} /\ Q \in SUBSET Nat
    BY <1>1
  <2>2. PICK n \in Q : \A m \in Q : n <= m
    BY <2>1, LeastNatural
  <2>3. n # 0 /\ n - 1 \in Nat
    BY <1>2, <2>2
  <2>4. Good(n - 1)
    BY <2>2, <2>3
  <2> QED
    BY <1>3, <2>2, <2>3, <2>4
<1>5. Small(Cardinality(S)) = SUBSET S
  BY <1>1
<1> QED
  BY <1>4, <1>5 DEF IsFold

-----------------------------------------------------------------------------
\* The library's sum of f over a finite set is a function on its subsets that
\* takes one element out after the other.
LEMMA SumUnfolded ==
    ASSUME NEW f, NEW S
    PROVE  SumFunctionOnSet(f, S) =
             (CHOOSE g : g = [T \in SUBSET S |->
                IF T = {} THEN 0
                ELSE f[CHOOSE x \in T : TRUE] + g[T \ {CHOOSE x \in T : TRUE}]])[S]
BY DEF SumFunctionOnSet, FoldFunctionOnSet, MapThenFoldSet

\* g takes the elements of a subset of S out one after the other, and adds the
\* values of f for them.
SumsOver(g, f, S) ==
    \A T \in SUBSET S :
        g[T] = IF T = {} THEN 0
               ELSE f[CHOOSE x \in T : TRUE] + g[T \ {CHOOSE x \in T : TRUE}]

\* On a finite set there is such a function, and the sum is its value.
LEMMA SumDefined ==
    ASSUME NEW S, IsFiniteSet(S), NEW f, \A x \in S : f[x] \in Int
    PROVE  \E g : /\ SumFunctionOnSet(f, S) = g[S] /\ SumsOver(g, f, S)
                  /\ g = [T \in SUBSET S |-> g[T]]
<1> DEFINE pick == [T \in SUBSET S |-> CHOOSE x \in T : TRUE]
           h == [p \in S \X Int |-> f[p[1]] + p[2]]
           Body(g) == [T \in SUBSET S |->
                IF T = {} THEN 0
                ELSE f[CHOOSE x \in T : TRUE] + g[T \ {CHOOSE x \in T : TRUE}]]
<1>1. h \in [S \X Int -> Int] /\ 0 \in Int
  OBVIOUS
<1>2. \A T \in SUBSET S : T # {} => pick[T] \in T
  OBVIOUS
<1>3. PICK g : IsFold(g, S, Int, 0, h, pick)
  <2> HIDE DEF h, pick
  <2> QED
    BY <1>1, <1>2, FoldExists
<1>4. g = Body(g)
  <2>0. g \in [SUBSET S -> Int]
    BY <1>3 DEF IsFold
  <2>1. ASSUME NEW T \in SUBSET S PROVE g[T] = Body(g)[T]
    <3>1. CASE T = {}
      BY <1>3, <3>1 DEF IsFold
    <3>2. CASE T # {}
      <4> DEFINE x == CHOOSE y \in T : TRUE
      <4>1. pick[T] = x /\ x \in S /\ T \ {x} \in SUBSET S
        BY <3>2
      <4>2. g[T] = h[<<x, g[T \ {x}]>>] /\ g[T \ {x}] \in Int
        BY <1>3, <3>2, <4>1 DEF IsFold
      <4>3. h[<<x, g[T \ {x}]>>] = f[x] + g[T \ {x}]
        <5>1. \A y \in S, v \in Int : h[<<y, v>>] = f[y] + v
          OBVIOUS
        <5> HIDE DEF h, x
        <5> QED
          BY <4>1, <4>2, <5>1
      <4> QED
        BY <3>2, <4>2, <4>3
    <3> QED
      BY <3>1, <3>2
  <2> QED
    BY <2>0, <2>1
<1> DEFINE s == CHOOSE k : k = Body(k)
<1>5. s = Body(s)
  BY <1>4
<1>6. SumFunctionOnSet(f, S) = s[S]
  BY SumUnfolded
<1>8. s = [T \in SUBSET S |-> s[T]]
  <2> HIDE DEF s
  <2> QED
    BY <1>5
<1> HIDE DEF s
<1>7. \A T \in SUBSET S :
         s[T] = IF T = {} THEN 0
                ELSE f[CHOOSE x \in T : TRUE] + s[T \ {CHOOSE x \in T : TRUE}]
  BY <1>5
<1> QED
  BY <1>6, <1>7, <1>8 DEF SumsOver

\* Only one function takes the elements out that way.
LEMMA SumUnique ==
    ASSUME NEW S, IsFiniteSet(S), NEW f, NEW g, NEW k, SumsOver(g, f, S), SumsOver(k, f, S)
    PROVE  g[S] = k[S]
<1> DEFINE P == { T \in SUBSET S : g[T] = k[T] }
<1>1. ASSUME NEW T \in SUBSET S, \A U \in SUBSET T : U # T => U \in P
      PROVE  T \in P
  <2>1. CASE T = {}
    BY <2>1 DEF SumsOver
  <2>2. CASE T # {}
    <3> DEFINE x == CHOOSE y \in T : TRUE
    <3>1. x \in T
      BY <2>2
    <3> HIDE DEF x
    <3>2. T \ {x} \in P
      BY <1>1, <3>1
    <3> QED
      BY <2>2, <3>2 DEF x, SumsOver
  <2> QED
    BY <2>1, <2>2
<1>2. SUBSET S \subseteq P
  <2> HIDE DEF P
  <2> QED
    BY <1>1, SubsetInduction
<1> QED
  BY <1>2

\* A sum is that of all elements but one, and that one's.
LEMMA SumStep ==
    ASSUME NEW S, IsFiniteSet(S), NEW f, \A x \in S : f[x] \in Int
    PROVE  SumFunctionOnSet(f, S) =
             IF S = {} THEN 0
             ELSE f[CHOOSE x \in S : TRUE]
                  + SumFunctionOnSet(f, S \ {CHOOSE x \in S : TRUE})
<1>1. PICK g : SumFunctionOnSet(f, S) = g[S] /\ SumsOver(g, f, S)
  BY SumDefined
<1>2. CASE S = {}
  BY <1>1, <1>2 DEF SumsOver
<1>3. CASE S # {}
  <2> DEFINE x == CHOOSE y \in S : TRUE
             U == S \ {x}
  <2>1. x \in S /\ IsFiniteSet(U)
    BY <1>3, FS_RemoveElement
  <2>2. PICK k : SumFunctionOnSet(f, U) = k[U] /\ SumsOver(k, f, U)
    <3>1. \A y \in U : f[y] \in Int
      OBVIOUS
    <3> HIDE DEF U
    <3> QED
      BY <2>1, <3>1, SumDefined
  <2>3. SumsOver(g, f, U)
    BY <1>1 DEF SumsOver
  <2>4. g[U] = k[U]
    <3> HIDE DEF U
    <3> QED
      BY <2>1, <2>2, <2>3, SumUnique
  <2>5. g[S] = f[x] + g[U]
    BY <1>1, <1>3 DEF SumsOver
  <2> QED
    BY <1>1, <1>3, <2>2, <2>4, <2>5
<1> QED
  BY <1>2, <1>3

\* The sum of no value.
LEMMA SumEmpty == ASSUME NEW f PROVE SumFunctionOnSet(f, {}) = 0
BY SumStep, FS_EmptySet

\* A sum of integers is one.
LEMMA SumType ==
    ASSUME NEW S, IsFiniteSet(S), NEW f, \A x \in S : f[x] \in Int
    PROVE  SumFunctionOnSet(f, S) \in Int
<1> DEFINE P == { T \in SUBSET S : SumFunctionOnSet(f, T) \in Int }
<1>1. ASSUME NEW T \in SUBSET S, \A U \in SUBSET T : U # T => U \in P
      PROVE  T \in P
  <2>1. IsFiniteSet(T) /\ \A x \in T : f[x] \in Int
    BY FS_Subset
  <2>2. CASE T = {}
    BY <2>2, SumEmpty
  <2>3. CASE T # {}
    <3> DEFINE x == CHOOSE y \in T : TRUE
    <3>1. x \in T
      BY <2>3
    <3>2. SumFunctionOnSet(f, T) = f[x] + SumFunctionOnSet(f, T \ {x})
      BY <2>1, <2>3, SumStep
    <3> HIDE DEF x
    <3>3. T \ {x} \in P
      BY <1>1, <3>1
    <3> QED
      BY <2>1, <3>1, <3>2, <3>3
  <2> QED
    BY <2>2, <2>3
<1>2. SUBSET S \subseteq P
  <2> HIDE DEF P
  <2> QED
    BY <1>1, SubsetInduction
<1> QED
  BY <1>2

\* Any element of the set can be the one that is taken out.
LEMMA SumRemove ==
    ASSUME NEW S, IsFiniteSet(S), NEW f, \A x \in S : f[x] \in Int, NEW e \in S
    PROVE  SumFunctionOnSet(f, S) = f[e] + SumFunctionOnSet(f, S \ {e})
<1> DEFINE Sum(T) == SumFunctionOnSet(f, T)
           P == { T \in SUBSET S : \A y \in T : Sum(T) = f[y] + Sum(T \ {y}) }
<1>0. \A T \in SUBSET S : IsFiniteSet(T) /\ Sum(T) \in Int
  <2>1. ASSUME NEW T \in SUBSET S PROVE IsFiniteSet(T) /\ \A x \in T : f[x] \in Int
    BY FS_Subset
  <2> QED
    BY <2>1, SumType
<1>1. ASSUME NEW T \in SUBSET S, \A U \in SUBSET T : U # T => U \in P
      PROVE  T \in P
  <2> SUFFICES ASSUME NEW y \in T PROVE Sum(T) = f[y] + Sum(T \ {y})
    OBVIOUS
  <2> DEFINE x == CHOOSE z \in T : TRUE
  <2>1. x \in T
    OBVIOUS
  <2>2. Sum(T) = f[x] + Sum(T \ {x})
    BY <1>0, SumStep
  <2> HIDE DEF x
  <2>3. CASE x = y
    BY <2>2, <2>3
  <2>4. CASE x # y
    <3>1. T \ {x} \in P /\ T \ {y} \in P
      BY <1>1, <2>1
    <3>2. Sum(T \ {x}) = f[y] + Sum((T \ {x}) \ {y})
      BY <2>4, <3>1
    <3>3. Sum(T \ {y}) = f[x] + Sum((T \ {y}) \ {x})
      BY <2>1, <2>4, <3>1
    <3>4. (T \ {x}) \ {y} = (T \ {y}) \ {x} /\ (T \ {x}) \ {y} \in SUBSET S
      OBVIOUS
    <3>5. Sum((T \ {x}) \ {y}) \in Int /\ f[x] \in Int /\ f[y] \in Int
      BY <1>0, <2>1, <3>4
    <3>6. ASSUME NEW a \in Int, NEW b \in Int, NEW c \in Int PROVE a + (b + c) = b + (a + c)
      OBVIOUS
    <3>7. f[x] + (f[y] + Sum((T \ {x}) \ {y})) = f[y] + (f[x] + Sum((T \ {x}) \ {y}))
      BY <3>5, <3>6
    <3> QED
      BY <2>2, <3>2, <3>3, <3>4, <3>7
  <2> QED
    BY <2>3, <2>4
<1>2. SUBSET S \subseteq P
  <2> HIDE DEF P
  <2> QED
    BY <1>1, SubsetInduction
<1>3. S \in P
  BY <1>2
<1> QED
  BY <1>3

\* A sum grows by what an element that is added to the set has.
LEMMA SumAdd ==
    ASSUME NEW S, IsFiniteSet(S), NEW f, \A x \in S : f[x] \in Int,
           NEW e, e \notin S, f[e] \in Int
    PROVE  SumFunctionOnSet(f, S \cup {e}) = f[e] + SumFunctionOnSet(f, S)
<1>1. IsFiniteSet(S \cup {e}) /\ (S \cup {e}) \ {e} = S
  BY FS_AddElement
<1> QED
  BY <1>1, SumRemove

\* Fewer summands, none of them negative, make no larger sum.
LEMMA SumMonotone ==
    ASSUME NEW S, IsFiniteSet(S), NEW f, \A x \in S : f[x] \in Nat, NEW R \in SUBSET S
    PROVE  /\ SumFunctionOnSet(f, S) \in Nat /\ SumFunctionOnSet(f, R) \in Nat
           /\ SumFunctionOnSet(f, R) <= SumFunctionOnSet(f, S)
<1> DEFINE Sum(T) == SumFunctionOnSet(f, T)
           P == { T \in SUBSET S : Sum(T) \in Nat /\ \A U \in SUBSET T : Sum(U) <= Sum(T) }
<1>0. \A T \in SUBSET S : IsFiniteSet(T) /\ (\A x \in T : f[x] \in Int) /\ Sum(T) \in Int
  <2>1. ASSUME NEW T \in SUBSET S PROVE IsFiniteSet(T) /\ \A x \in T : f[x] \in Int
    BY FS_Subset
  <2> QED
    BY <2>1, SumType
<1>1. ASSUME NEW T \in SUBSET S, \A U \in SUBSET T : U # T => U \in P
      PROVE  T \in P
  <2>1. ASSUME NEW x \in T
        PROVE  Sum(T) = f[x] + Sum(T \ {x}) /\ T \ {x} \in P /\ f[x] \in Nat
    BY <1>0, <1>1, SumRemove
  <2>2. Sum(T) \in Nat
    <3>1. CASE T = {}
      BY <3>1, SumEmpty
    <3>2. CASE T # {}
      <4>1. PICK x \in T : Sum(T) = f[x] + Sum(T \ {x}) /\ T \ {x} \in P /\ f[x] \in Nat
        BY <2>1, <3>2
      <4>2. Sum(T \ {x}) \in Nat
        BY <4>1
      <4>3. \A a, b \in Nat : a + b \in Nat
        OBVIOUS
      <4> QED
        BY <4>1, <4>2, <4>3
    <3> QED
      BY <3>1, <3>2
  <2>3. ASSUME NEW U \in SUBSET T PROVE Sum(U) <= Sum(T)
    <3>1. CASE U = T
      BY <2>2, <3>1
    <3>2. CASE U # T
      <4>1. PICK x \in T : x \notin U
        BY <3>2
      <4>2. Sum(U) <= Sum(T \ {x}) /\ Sum(T \ {x}) \in Nat
        <5>1. U \in SUBSET (T \ {x})
          BY <4>1
        <5> QED
          BY <2>1, <5>1
      <4>3. Sum(U) \in Int /\ f[x] \in Nat /\ Sum(T) = f[x] + Sum(T \ {x})
        BY <1>0, <2>1
      <4>4. ASSUME NEW a \in Int, NEW b \in Nat, NEW c \in Nat, a <= c PROVE a <= b + c
        BY <4>4
      <4> QED
        BY <4>2, <4>3, <4>4
    <3> QED
      BY <3>1, <3>2
  <2> QED
    BY <2>2, <2>3
<1>2. SUBSET S \subseteq P
  <2> HIDE DEF P
  <2> QED
    BY <1>1, SubsetInduction
<1>3. S \in P /\ R \in P
  BY <1>2
<1> QED
  BY <1>3

\* The sum depends on the values in the set only.
LEMMA SumSame ==
    ASSUME NEW S, IsFiniteSet(S), NEW f, NEW g, \A x \in S : f[x] \in Int /\ g[x] = f[x]
    PROVE  SumFunctionOnSet(g, S) = SumFunctionOnSet(f, S)
<1> DEFINE P == { T \in SUBSET S : SumFunctionOnSet(g, T) = SumFunctionOnSet(f, T) }
<1>1. ASSUME NEW T \in SUBSET S, \A U \in SUBSET T : U # T => U \in P
      PROVE  T \in P
  <2>1. IsFiniteSet(T) /\ \A x \in T : f[x] \in Int /\ g[x] \in Int
    BY FS_Subset
  <2>2. CASE T = {}
    BY <2>2, SumEmpty
  <2>3. ASSUME NEW x \in T PROVE T \in P
    <3>1. T \ {x} \in P
      BY <1>1
    <3>2. /\ SumFunctionOnSet(f, T) = f[x] + SumFunctionOnSet(f, T \ {x})
          /\ SumFunctionOnSet(g, T) = g[x] + SumFunctionOnSet(g, T \ {x})
      BY <2>1, SumRemove
    <3> QED
      BY <3>1, <3>2
  <2> QED
    BY <2>2, <2>3
<1>2. SUBSET S \subseteq P
  <2> HIDE DEF P
  <2> QED
    BY <1>1, SubsetInduction
<1> QED
  BY <1>2

=============================================================================
