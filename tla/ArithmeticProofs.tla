-------------------------- MODULE ArithmeticProofs --------------------------
(***************************************************************************)
(* The arithmetic the proofs of the components share: sums over finite     *)
(* sets, integer division, and Position::applyTrade for every price and    *)
(* quantity.                                                               *)
(***************************************************************************)
EXTENDS Position, Functions, FiniteSetTheorems, TLAPS
-----------------------------------------------------------------------------
(* Induction over an interval.                                            *)

LEMMA IntervalInduction ==
    ASSUME NEW m \in Nat, NEW Good, 0 \in Good,
           \A n \in 0..m : n + 1 <= m /\ n \in Good => n + 1 \in Good
    PROVE  0..m \subseteq Good
<1> DEFINE Bad == {n \in Nat : n <= m /\ n \notin Good}
<1>1. SUFFICES ASSUME Bad # {} PROVE FALSE
  BY DEF Bad
<1>2. Bad \subseteq Nat
  BY DEF Bad
<1> HIDE DEF Bad
<1>3. PICK n \in Bad : \A k \in Bad : ~ (<<k, n>> \in OpToRel(<, Nat))
  BY <1>1, <1>2, NatLessThanWellFounded, WFMin
<1>4. \A k \in Bad : ~ (k < n)
  BY <1>2, <1>3 DEF OpToRel
<1>5. n \in Nat /\ n <= m /\ n \notin Good /\ n # 0
  BY DEF Bad
<1>6. n - 1 \in 0..m /\ n - 1 < n /\ (n - 1) + 1 = n
  BY <1>5
<1>7. n - 1 \in Good
  BY <1>4, <1>6 DEF Bad
<1> QED BY <1>5, <1>6, <1>7

-----------------------------------------------------------------------------
(* Sums over a finite set.                                                 *)

\* Induction over the subsets of a finite set, for the members of a set: the
\* order by inclusion is well founded.
LEMMA SubsetInduction ==
    ASSUME NEW S, IsFiniteSet(S), NEW Good,
           \A T \in SUBSET S : (\A U \in SUBSET T : U # T => U \in Good) => T \in Good
    PROVE  SUBSET S \subseteq Good
<1> DEFINE Bad == (SUBSET S) \ Good
<1>1. IsWellFoundedOn(StrictSubsetOrdering(S), SUBSET S)
  BY FS_StrictSubsetOrderingWellFounded, FS_FiniteSubsetsOfFinite
<1>2. SUFFICES ASSUME Bad # {} PROVE FALSE
  OBVIOUS
<1>3. PICK T \in Bad : \A U \in Bad : ~ (<<U, T>> \in StrictSubsetOrdering(S))
  <2>1. Bad \subseteq SUBSET S
    OBVIOUS
  <2> HIDE DEF Bad
  <2> QED BY <1>1, <1>2, <2>1, WFMin
<1>4. \A U \in SUBSET T : U # T => U \in Good
  BY <1>3 DEF StrictSubsetOrdering
<1> QED BY <1>3, <1>4

Picked(S) == CHOOSE x \in S : TRUE

\* The partial sums, as SumFunctionOnSet computes them.
IsSum(f, S, h) ==
    h = [T \in SUBSET S |-> IF T = {} THEN 0 ELSE f[Picked(T)] + h[T \ {Picked(T)}]]

PartialSums(f, S) == CHOOSE h : IsSum(f, S, h)

LEMMA SumIsPartialSum ==
    ASSUME NEW f, NEW S
    PROVE  SumFunctionOnSet(f, S) = PartialSums(f, S)[S]
BY DEF SumFunctionOnSet, FoldFunctionOnSet, MapThenFoldSet, PartialSums, IsSum, Picked

LEMMA PartialSumsAgree ==
    ASSUME NEW f, NEW S, IsFiniteSet(S), NEW T \in SUBSET S,
           NEW g, IsSum(f, S, g), NEW h, IsSum(f, T, h)
    PROVE  h[T] = g[T]
<1> DEFINE Good == {U \in SUBSET T : h[U] = g[U]}
<1>1. ASSUME NEW U \in SUBSET T, \A V \in SUBSET U : V # U => V \in Good
      PROVE  U \in Good
  <2>1. CASE U = {}
    BY <2>1 DEF IsSum
  <2>2. CASE U # {}
    <3>1. Picked(U) \in U
      BY <2>2 DEF Picked
    <3>2. h[U \ {Picked(U)}] = g[U \ {Picked(U)}]
      BY <1>1, <3>1
    <3>3. U \in SUBSET S
      OBVIOUS
    <3>4. h[U] = f[Picked(U)] + h[U \ {Picked(U)}]
      BY <2>2 DEF IsSum
    <3>5. g[U] = f[Picked(U)] + g[U \ {Picked(U)}]
      BY <2>2, <3>3 DEF IsSum
    <3> QED BY <3>2, <3>4, <3>5
  <2> QED BY <2>1, <2>2
<1>2. IsFiniteSet(T)
  BY FS_Subset
<1> HIDE DEF Good
<1>3. T \in Good
  BY <1>1, <1>2, SubsetInduction
<1> QED BY <1>3 DEF Good

LEMMA PartialSumsExist ==
    ASSUME NEW f, NEW S, IsFiniteSet(S)
    PROVE  \A T \in SUBSET S : IsSum(f, T, PartialSums(f, T))
<1> DEFINE Good == {T \in SUBSET S : IsSum(f, T, PartialSums(f, T))}
<1>1. ASSUME NEW T \in SUBSET S, \A U \in SUBSET T : U # T => U \in Good
      PROVE  T \in Good
  <2> DEFINE a == Picked(T)
             value(U) == IF U # T THEN PartialSums(f, U)[U]
                         ELSE IF T = {} THEN 0
                         ELSE f[a] + PartialSums(f, T \ {a})[T \ {a}]
             h == [U \in SUBSET T |-> value(U)]
  <2>1. \A U \in SUBSET T : U # T => IsSum(f, U, PartialSums(f, U))
    BY <1>1
  <2>2. ASSUME NEW U \in SUBSET T
        PROVE  h[U] = IF U = {} THEN 0 ELSE f[Picked(U)] + h[U \ {Picked(U)}]
    <3>1. CASE U = {}
      <4>1. U # T => PartialSums(f, U)[U] = 0
        BY <2>1, <3>1 DEF IsSum
      <4> QED BY <3>1, <4>1
    <3>2. CASE U # {}
      <4> DEFINE V == U \ {Picked(U)}
      <4>1. Picked(U) \in U
        BY <3>2 DEF Picked
      <4>2. V \in SUBSET T /\ V # T /\ h[V] = PartialSums(f, V)[V]
        BY <4>1
      <4>3. CASE U = T
        BY <3>2, <4>2, <4>3
      <4>4. CASE U # T
        <5>1. IsSum(f, U, PartialSums(f, U)) /\ IsSum(f, V, PartialSums(f, V))
          BY <2>1, <4>2, <4>4
        <5>2. PartialSums(f, U)[U] = f[Picked(U)] + PartialSums(f, U)[V]
          BY <3>2, <5>1 DEF IsSum
        <5>3. IsFiniteSet(U)
          BY FS_Subset
        <5>4. PartialSums(f, V)[V] = PartialSums(f, U)[V]
          <6> V \in SUBSET U OBVIOUS
          <6> HIDE DEF V
          <6> QED BY <5>1, <5>3, PartialSumsAgree
        <5> QED BY <3>2, <4>2, <4>4, <5>2, <5>4
      <4> QED BY <4>3, <4>4
    <3> QED BY <3>1, <3>2
  <2>3. h = [U \in SUBSET T |-> h[U]]
    OBVIOUS
  <2> HIDE DEF h
  <2>4. IsSum(f, T, h)
    <3> DEFINE g == [U \in SUBSET T |-> IF U = {} THEN 0 ELSE f[Picked(U)] + h[U \ {Picked(U)}]]
    <3>1. g = h
      BY <2>2, <2>3
    <3> QED BY <3>1 DEF IsSum
  <2> QED BY <2>4 DEF PartialSums
<1> HIDE DEF Good
<1>2. SUBSET S \subseteq Good
  BY <1>1, SubsetInduction
<1> QED BY <1>2 DEF Good

LEMMA SumEmpty ==
    ASSUME NEW f
    PROVE  SumFunctionOnSet(f, {}) = 0
<1>1. IsSum(f, {}, PartialSums(f, {}))
  BY PartialSumsExist, FS_EmptySet
<1> QED BY <1>1, SumIsPartialSum DEF IsSum

\* The element that is added up first.
LEMMA SumFirst ==
    ASSUME NEW f, NEW S, IsFiniteSet(S), S # {}
    PROVE  /\ Picked(S) \in S
           /\ SumFunctionOnSet(f, S) = f[Picked(S)] + SumFunctionOnSet(f, S \ {Picked(S)})
<1> DEFINE T == S \ {Picked(S)}
<1>1. IsSum(f, S, PartialSums(f, S)) /\ IsSum(f, T, PartialSums(f, T))
  BY PartialSumsExist
<1>2. T \in SUBSET S
  OBVIOUS
<1>3. PartialSums(f, S)[S] = f[Picked(S)] + PartialSums(f, S)[T]
  BY <1>1 DEF IsSum
<1> HIDE DEF T
<1>4. PartialSums(f, T)[T] = PartialSums(f, S)[T]
  BY <1>1, <1>2, PartialSumsAgree
<1> QED BY <1>3, <1>4, SumIsPartialSum DEF T, Picked

LEMMA SumType ==
    ASSUME NEW S, IsFiniteSet(S), NEW f, \A x \in S : f[x] \in Int
    PROVE  SumFunctionOnSet(f, S) \in Int
<1> DEFINE Good == {T \in SUBSET S : SumFunctionOnSet(f, T) \in Int}
<1>1. ASSUME NEW T \in SUBSET S, \A U \in SUBSET T : U # T => U \in Good
      PROVE  T \in Good
  <2>1. CASE T = {}
    BY <2>1, SumEmpty
  <2>2. CASE T # {}
    <3>1. IsFiniteSet(T)
      BY FS_Subset
    <3>2. /\ Picked(T) \in T
          /\ SumFunctionOnSet(f, T) = f[Picked(T)] + SumFunctionOnSet(f, T \ {Picked(T)})
      BY <2>2, <3>1, SumFirst
    <3>3. T \ {Picked(T)} \in Good
      BY <1>1, <3>2
    <3> QED BY <3>2, <3>3
  <2> QED BY <2>1, <2>2
<1> HIDE DEF Good
<1>2. SUBSET S \subseteq Good
  BY <1>1, SubsetInduction
<1> QED BY <1>2 DEF Good

\* Any element may be added up first.
LEMMA SumWithout ==
    ASSUME NEW S, IsFiniteSet(S), NEW f, \A x \in S : f[x] \in Int, NEW x \in S
    PROVE  SumFunctionOnSet(f, S) = f[x] + SumFunctionOnSet(f, S \ {x})
<1> DEFINE Sum(T) == SumFunctionOnSet(f, T)
           Good == {T \in SUBSET S : \A y \in T : Sum(T) = f[y] + Sum(T \ {y})}
<1>1. ASSUME NEW T \in SUBSET S, \A U \in SUBSET T : U # T => U \in Good
      PROVE  T \in Good
  <2> SUFFICES ASSUME NEW y \in T PROVE Sum(T) = f[y] + Sum(T \ {y})
    OBVIOUS
  <2> DEFINE a == Picked(T)
             Rest == (T \ {a}) \ {y}
  <2>1. IsFiniteSet(T)
    BY FS_Subset
  <2>2. a \in T /\ Sum(T) = f[a] + Sum(T \ {a})
    BY <2>1, SumFirst
  <2>3. CASE y = a
    BY <2>2, <2>3
  <2>4. CASE y # a
    <3>1. T \ {a} \in Good /\ T \ {y} \in Good
      BY <1>1, <2>2
    <3>2. Sum(T \ {a}) = f[y] + Sum(Rest)
      BY <2>4, <3>1
    <3>3. (T \ {y}) \ {a} = Rest
      OBVIOUS
    <3>4. Sum(T \ {y}) = f[a] + Sum(Rest)
      BY <2>2, <2>4, <3>1, <3>3
    <3>5. Sum(Rest) \in Int
      <4>1. IsFiniteSet(Rest)
        BY <2>1, FS_Subset
      <4> QED BY <4>1, SumType
    <3>6. f[a] \in Int /\ f[y] \in Int
      BY <2>2
    <3> HIDE DEF Sum, Rest, a
    <3> QED BY <2>2, <3>2, <3>4, <3>5, <3>6
  <2> QED BY <2>3, <2>4
<1>2. SUBSET S \subseteq Good
  <2> HIDE DEF Good
  <2> QED BY <1>1, SubsetInduction
<1> QED BY <1>2

LEMMA SumMonotone ==
    ASSUME NEW S, IsFiniteSet(S), NEW f, NEW g,
           \A x \in S : f[x] \in Int /\ g[x] \in Int /\ f[x] <= g[x]
    PROVE  SumFunctionOnSet(f, S) <= SumFunctionOnSet(g, S)
<1> DEFINE Good == {T \in SUBSET S : SumFunctionOnSet(f, T) <= SumFunctionOnSet(g, T)}
<1>1. ASSUME NEW T \in SUBSET S, \A U \in SUBSET T : U # T => U \in Good
      PROVE  T \in Good
  <2>1. CASE T = {}
    BY <2>1, SumEmpty
  <2>2. CASE T # {}
    <3> DEFINE a == Picked(T)
               U == T \ {a}
    <3>1. IsFiniteSet(T) /\ IsFiniteSet(U)
      BY FS_Subset
    <3>2. /\ a \in T
          /\ SumFunctionOnSet(f, T) = f[a] + SumFunctionOnSet(f, U)
          /\ SumFunctionOnSet(g, T) = g[a] + SumFunctionOnSet(g, U)
      BY <2>2, <3>1, SumFirst
    <3>3. SumFunctionOnSet(f, U) <= SumFunctionOnSet(g, U)
      BY <1>1, <3>2
    <3>4. SumFunctionOnSet(f, U) \in Int /\ SumFunctionOnSet(g, U) \in Int
      BY <3>1, SumType
    <3>5. f[a] \in Int /\ g[a] \in Int /\ f[a] <= g[a]
      BY <3>2
    <3> HIDE DEF a, U
    <3> QED BY <3>2, <3>3, <3>4, <3>5
  <2> QED BY <2>1, <2>2
<1> HIDE DEF Good
<1>2. SUBSET S \subseteq Good
  BY <1>1, SubsetInduction
<1> QED BY <1>2 DEF Good

LEMMA SumNotNegative ==
    ASSUME NEW S, IsFiniteSet(S), NEW f, \A x \in S : f[x] \in Nat
    PROVE  SumFunctionOnSet(f, S) \in Nat
<1> DEFINE Good == {T \in SUBSET S : SumFunctionOnSet(f, T) \in Nat}
<1>1. ASSUME NEW T \in SUBSET S, \A U \in SUBSET T : U # T => U \in Good
      PROVE  T \in Good
  <2>1. CASE T = {}
    BY <2>1, SumEmpty
  <2>2. CASE T # {}
    <3>1. IsFiniteSet(T)
      BY FS_Subset
    <3>2. /\ Picked(T) \in T
          /\ SumFunctionOnSet(f, T) = f[Picked(T)] + SumFunctionOnSet(f, T \ {Picked(T)})
      BY <2>2, <3>1, SumFirst
    <3>3. T \ {Picked(T)} \in Good
      BY <1>1, <3>2
    <3> QED BY <3>2, <3>3
  <2> QED BY <2>1, <2>2
<1> HIDE DEF Good
<1>2. SUBSET S \subseteq Good
  BY <1>1, SubsetInduction
<1> QED BY <1>2 DEF Good

LEMMA SumEqual ==
    ASSUME NEW S, IsFiniteSet(S), NEW f, NEW g,
           \A x \in S : f[x] \in Int /\ g[x] = f[x]
    PROVE  SumFunctionOnSet(g, S) = SumFunctionOnSet(f, S)
<1>1. SumFunctionOnSet(f, S) <= SumFunctionOnSet(g, S)
  BY SumMonotone
<1>2. SumFunctionOnSet(g, S) <= SumFunctionOnSet(f, S)
  BY SumMonotone
<1> QED BY <1>1, <1>2, SumType

\* One more element.
LEMMA SumInsert ==
    ASSUME NEW S, IsFiniteSet(S), NEW x, x \notin S, NEW f, NEW g,
           g[x] \in Int, \A y \in S : f[y] \in Int /\ g[y] = f[y]
    PROVE  SumFunctionOnSet(g, S \cup {x}) = SumFunctionOnSet(f, S) + g[x]
<1>1. IsFiniteSet(S \cup {x}) /\ (S \cup {x}) \ {x} = S
  BY FS_AddElement
<1>2. SumFunctionOnSet(g, S \cup {x}) = g[x] + SumFunctionOnSet(g, S)
  BY <1>1, SumWithout
<1>3. SumFunctionOnSet(g, S) = SumFunctionOnSet(f, S) /\ SumFunctionOnSet(f, S) \in Int
  BY SumEqual, SumType
<1> QED BY <1>2, <1>3

\* One element changes.
LEMMA SumChange ==
    ASSUME NEW S, IsFiniteSet(S), NEW x \in S, NEW f, NEW g,
           \A y \in S : f[y] \in Int /\ g[y] \in Int /\ (y # x => g[y] = f[y])
    PROVE  SumFunctionOnSet(g, S) = SumFunctionOnSet(f, S) + (g[x] - f[x])
<1> DEFINE T == S \ {x}
<1>1. IsFiniteSet(T)
  BY FS_Subset
<1>2. /\ SumFunctionOnSet(f, S) = f[x] + SumFunctionOnSet(f, T)
      /\ SumFunctionOnSet(g, S) = g[x] + SumFunctionOnSet(g, T)
  BY SumWithout
<1>3. SumFunctionOnSet(g, T) = SumFunctionOnSet(f, T) /\ SumFunctionOnSet(f, T) \in Int
  BY <1>1, SumEqual, SumType
<1> HIDE DEF T
<1> QED BY <1>2, <1>3

\* A bound on every term of T, where only T contributes.
LEMMA SumBounded ==
    ASSUME NEW S, IsFiniteSet(S), NEW T \in SUBSET S, NEW bound \in Int, NEW f,
           \A x \in S : f[x] \in Int /\ f[x] <= IF x \in T THEN bound ELSE 0
    PROVE  SumFunctionOnSet(f, S) <= Cardinality(T) * bound
<1> DEFINE Good == {U \in SUBSET S :
                       SumFunctionOnSet(f, U) <= Cardinality(U \cap T) * bound}
<1>1. ASSUME NEW U \in SUBSET S, \A V \in SUBSET U : V # U => V \in Good
      PROVE  U \in Good
  <2>1. CASE U = {}
    <3>1. U \cap T = {} /\ Cardinality({}) = 0
      BY <2>1, FS_EmptySet
    <3> QED BY <2>1, <3>1, SumEmpty
  <2>2. CASE U # {}
    <3> DEFINE a == Picked(U)
               V == U \ {a}
               n == Cardinality(V \cap T)
    <3>1. /\ IsFiniteSet(U) /\ IsFiniteSet(V)
          /\ IsFiniteSet(V \cap T) /\ IsFiniteSet(U \cap T)
      BY FS_Subset
    <3>2. /\ a \in U
          /\ SumFunctionOnSet(f, U) = f[a] + SumFunctionOnSet(f, V)
      BY <2>2, <3>1, SumFirst
    <3>3. n \in Nat
      BY <3>1, FS_CardinalityType
    <3>4. SumFunctionOnSet(f, V) <= n * bound /\ SumFunctionOnSet(f, V) \in Int
      BY <1>1, <3>1, <3>2, SumType
    <3>5. Cardinality(U \cap T) = IF a \in T THEN n + 1 ELSE n
      <4>1. CASE a \in T
        <5>1. U \cap T = (V \cap T) \cup {a} /\ a \notin V \cap T
          BY <3>2, <4>1
        <5> QED BY <3>1, <4>1, <5>1, FS_AddElement
      <4>2. CASE a \notin T
        <5>1. U \cap T = V \cap T
          BY <4>2
        <5> QED BY <4>2, <5>1
      <4> QED BY <4>1, <4>2
    <3>6. f[a] \in Int /\ f[a] <= IF a \in T THEN bound ELSE 0
      BY <3>2
    <3> HIDE DEF a, V, n
    <3>7. (n + 1) * bound = n * bound + bound /\ n * bound \in Int
      BY <3>3
    <3>8. SumFunctionOnSet(f, U) <= Cardinality(U \cap T) * bound
      BY <3>2, <3>4, <3>5, <3>6, <3>7
    <3> QED BY <3>8
  <2> QED BY <2>1, <2>2
<1> HIDE DEF Good
<1>2. SUBSET S \subseteq Good
  BY <1>1, SubsetInduction
<1>3. S \cap T = T
  OBVIOUS
<1> QED BY <1>2, <1>3 DEF Good

\* Counting the elements by other names: to[x] is what x stands for in S.
LEMMA SumRenamed ==
    ASSUME NEW T, IsFiniteSet(T), NEW S, IsFiniteSet(S), NEW to \in [T -> S],
           \A x, y \in T : to[x] = to[y] => x = y,
           \A s \in S : \E x \in T : to[x] = s,
           NEW f, \A s \in S : f[s] \in Int,
           NEW g, \A x \in T : g[x] = f[to[x]]
    PROVE  SumFunctionOnSet(g, T) = SumFunctionOnSet(f, S)
<1> DEFINE Image(U) == {s \in S : \E x \in U : to[x] = s}
           Good == {U \in SUBSET T : SumFunctionOnSet(g, U) = SumFunctionOnSet(f, Image(U))}
<1>1. ASSUME NEW U \in SUBSET T, \A V \in SUBSET U : V # U => V \in Good
      PROVE  U \in Good
  <2>1. CASE U = {}
    <3>1. Image(U) = {}
      BY <2>1
    <3> HIDE DEF Image
    <3> QED BY <2>1, <3>1, SumEmpty
  <2>2. CASE U # {}
    <3> DEFINE a == Picked(U)
               V == U \ {a}
    <3>1. IsFiniteSet(U)
      BY FS_Subset
    <3>2. a \in U /\ SumFunctionOnSet(g, U) = g[a] + SumFunctionOnSet(g, V)
      BY <2>2, <3>1, SumFirst
    <3>3. SumFunctionOnSet(g, V) = SumFunctionOnSet(f, Image(V))
      BY <1>1, <3>2
    <3>4. to[a] \in Image(U) /\ Image(V) = Image(U) \ {to[a]}
      BY <3>2
    <3>5. IsFiniteSet(Image(U)) /\ \A s \in Image(U) : f[s] \in Int
      <4>1. Image(U) \in SUBSET S
        OBVIOUS
      <4> QED BY <4>1, FS_Subset
    <3>6. g[a] = f[to[a]]
      BY <3>2
    <3> HIDE DEF Image, a, V
    <3>7. SumFunctionOnSet(f, Image(U)) = f[to[a]] + SumFunctionOnSet(f, Image(V))
      BY <3>4, <3>5, SumWithout
    <3> QED BY <3>2, <3>3, <3>6, <3>7
  <2> QED BY <2>1, <2>2
<1>2. Image(T) = S
  OBVIOUS
<1> HIDE DEF Good
<1>3. SUBSET T \subseteq Good
  BY <1>1, SubsetInduction
<1> QED BY <1>2, <1>3 DEF Good

\* The same facts about the sum of a whole function.
Summable(f) == IsFiniteSet(DOMAIN f) /\ \A x \in DOMAIN f : f[x] \in Int

LEMMA SumFunctionType ==
    ASSUME NEW f, Summable(f)
    PROVE  SumFunction(f) \in Int
BY SumType DEF SumFunction, Summable

LEMMA SumFunctionEmpty ==
    ASSUME NEW f, DOMAIN f = {}
    PROVE  SumFunction(f) = 0
BY SumEmpty DEF SumFunction

LEMMA SumFunctionEqual ==
    ASSUME NEW f, Summable(f), NEW g, DOMAIN g = DOMAIN f,
           \A x \in DOMAIN f : g[x] = f[x]
    PROVE  SumFunction(g) = SumFunction(f)
BY SumEqual DEF SumFunction, Summable

LEMMA SumFunctionInsert ==
    ASSUME NEW f, Summable(f), NEW x, x \notin DOMAIN f,
           NEW g, DOMAIN g = DOMAIN f \cup {x}, g[x] \in Int,
           \A y \in DOMAIN f : g[y] = f[y]
    PROVE  SumFunction(g) = SumFunction(f) + g[x]
BY SumInsert DEF SumFunction, Summable

LEMMA SumFunctionChange ==
    ASSUME NEW f, Summable(f), NEW x \in DOMAIN f,
           NEW g, DOMAIN g = DOMAIN f, g[x] \in Int,
           \A y \in DOMAIN f : y # x => g[y] = f[y]
    PROVE  SumFunction(g) = SumFunction(f) + (g[x] - f[x])
<1>1. \A y \in DOMAIN f : g[y] \in Int
  BY DEF Summable
<1> QED BY <1>1, SumChange DEF SumFunction, Summable

LEMMA SumFunctionRenamed ==
    ASSUME NEW f, Summable(f), NEW g, IsFiniteSet(DOMAIN g),
           NEW S \in SUBSET DOMAIN f, NEW to \in [DOMAIN g -> S],
           \A x, y \in DOMAIN g : to[x] = to[y] => x = y,
           \A s \in S : \E x \in DOMAIN g : to[x] = s,
           \A x \in DOMAIN g : g[x] = f[to[x]]
    PROVE  SumFunction(g) = SumFunctionOnSet(f, S)
<1>1. IsFiniteSet(S) /\ \A s \in S : f[s] \in Int
  BY FS_Subset DEF Summable
<1> QED BY <1>1, SumRenamed DEF SumFunction

-----------------------------------------------------------------------------
\* The postcondition of applyTrade: no average without an open position.
AverageIffOpen(pos) == (pos.quantity = 0) <=> (pos.averagePrice = 0)

-----------------------------------------------------------------------------
(* Arithmetic.                                                             *)

LEMMA TimesMonotone ==
    ASSUME NEW a \in Int, NEW b \in Int, NEW m \in Nat, a <= b
    PROVE  a * m <= b * m
<1>1. (b - a) * m >= 0
  OBVIOUS
<1>2. (b - a) * m = b * m - a * m
  OBVIOUS
<1>3. a * m \in Int /\ b * m \in Int
  OBVIOUS
<1> QED BY <1>1, <1>2, <1>3

LEMMA QuotientBetween ==
    ASSUME NEW low \in Nat, NEW high \in Nat, NEW n \in Nat \ {0}, NEW x \in Nat,
           low * n <= x, x <= high * n
    PROVE  /\ x \div n \in Nat
           /\ low <= x \div n
           /\ x \div n <= high
<1> DEFINE q == x \div n
<1>1. q \in Int /\ n * q <= x /\ x < n * (q + 1)
  OBVIOUS
<1>2. low <= q
  <2> SUFFICES ASSUME q + 1 <= low PROVE FALSE
    BY <1>1
  <2>1. (q + 1) * n <= low * n
    BY <1>1, TimesMonotone
  <2>2. (q + 1) * n = n * (q + 1) /\ low * n \in Int /\ n * (q + 1) \in Int
    BY <1>1
  <2> HIDE DEF q
  <2> QED BY <1>1, <2>1, <2>2
<1>3. q <= high
  <2> SUFFICES ASSUME high + 1 <= q PROVE FALSE
    BY <1>1
  <2>1. (high + 1) * n <= q * n
    BY <1>1, TimesMonotone
  <2>2. q * n = n * q /\ (high + 1) * n = high * n + n /\ high * n \in Int /\ n * q \in Int
    BY <1>1
  <2> HIDE DEF q
  <2> QED BY <1>1, <2>1, <2>2
<1> HIDE DEF q
<1>4. QED
  <2>1. q \in Nat
    BY <1>1, <1>2
  <2> QED BY <2>1, <1>2, <1>3 DEF q

\* The weighted average of two prices lies between any bounds of both.
LEMMA WeightedAverageBetween ==
    ASSUME NEW low \in Nat, NEW high \in Nat,
           NEW pos \in PositionValue, pos.quantity # 0,
           NEW price \in Nat, NEW signed \in Int,
           low <= pos.averagePrice, pos.averagePrice <= high,
           low <= price, price <= high
    PROVE  /\ WeightedAverage(pos, price, signed) \in Nat
           /\ low <= WeightedAverage(pos, price, signed)
           /\ WeightedAverage(pos, price, signed) <= high
<1> DEFINE a == pos.averagePrice
           m == Abs(pos.quantity)
           k == Abs(signed)
           x == a * m + price * k
<1>1. a \in Nat /\ m \in Nat \ {0} /\ k \in Nat
  BY DEF PositionValue, Abs
<1>2. low * m <= a * m /\ a * m <= high * m
  BY <1>1, TimesMonotone
<1>3. low * k <= price * k /\ price * k <= high * k
  BY <1>1, TimesMonotone
<1> HIDE DEF a, m, k
<1>4. /\ low * (m + k) = low * m + low * k
      /\ high * (m + k) = high * m + high * k
      /\ a * m \in Nat /\ price * k \in Nat
      /\ low * m \in Nat /\ low * k \in Nat /\ high * m \in Nat /\ high * k \in Nat
  BY <1>1
<1>5. x \in Nat /\ low * (m + k) <= x /\ x <= high * (m + k)
  BY <1>2, <1>3, <1>4
<1>6. m + k \in Nat \ {0}
  BY <1>1
<1> HIDE DEF x
<1>7. x \div (m + k) \in Nat /\ low <= x \div (m + k) /\ x \div (m + k) <= high
  BY <1>5, <1>6, QuotientBetween
<1>8. WeightedAverage(pos, price, signed) = x \div (m + k)
  BY <1>5 DEF WeightedAverage, Quotient, a, m, k, x
<1> QED BY <1>7, <1>8

-----------------------------------------------------------------------------
(* applyTrade.                                                             *)

\* applyTrade returns a signed quantity and a non-negative average price.
LEMMA ApplyTradeType ==
    ASSUME NEW pos \in PositionValue, NEW side \in Side,
           NEW price \in Nat, NEW quantity \in Nat
    PROVE  ApplyTrade(pos, side, price, quantity) \in PositionValue
<1> DEFINE signed == Signed(side, quantity)
<1>1. signed \in Int
  BY DEF Side, Signed
<1>2. ASSUME pos.quantity # 0 PROVE WeightedAverage(pos, price, signed) \in Nat
  <2>1. \E high \in Nat : pos.averagePrice <= high /\ price <= high
    <3>1. pos.averagePrice \in Nat
      BY DEF PositionValue
    <3> QED BY <3>1
  <2>2. PICK high \in Nat : pos.averagePrice <= high /\ price <= high
    BY <2>1
  <2>3. 0 \in Nat /\ 0 <= pos.averagePrice /\ 0 <= price
    BY DEF PositionValue
  <2> HIDE DEF signed
  <2> QED BY <1>1, <1>2, <2>2, <2>3, WeightedAverageBetween
<1>3. AverageAfter(pos, price, signed) \in Nat
  <2> HIDE DEF signed
  <2>1. pos.averagePrice \in Nat /\ pos.quantity \in Int
    BY DEF PositionValue
  <2>2. CASE pos.quantity = 0
    BY <2>2 DEF AverageAfter, SameDirection
  <2>3. CASE pos.quantity # 0
    BY <1>2, <2>1, <2>3 DEF AverageAfter, SameDirection, AverageWhenFlat, AverageWhenReversed
  <2> QED BY <2>2, <2>3
<1> QED BY <1>1, <1>3 DEF ApplyTrade, PositionValue

LEMMA SignedZero ==
    ASSUME NEW side, NEW n \in Int, n = 0
    PROVE  Signed(side, n) = 0
<1>1. \A m \in Int : -m = 0 - m
  OBVIOUS
<1>2. 0 - n = 0
  OBVIOUS
<1>3. -n = 0 - n
  BY <1>1, Zenon
<1> QED BY <1>2, <1>3, Zenon DEF Signed

\* applyTrade moves the quantity by the signed quantity of the trade.
LEMMA ApplyTradeQuantity ==
    ASSUME NEW pos \in PositionValue, NEW side \in Side,
           NEW price, NEW quantity \in Nat
    PROVE  ApplyTrade(pos, side, price, quantity).quantity
             = pos.quantity + Signed(side, quantity)
BY DEF ApplyTrade, PositionValue, Side, Signed

\* The postcondition position.cpp:246, established by every trade at a positive
\* price from a position that has it.
LEMMA ApplyTradeAverageIffOpen ==
    ASSUME NEW pos \in PositionValue, NEW side \in Side,
           NEW price \in Nat \ {0}, NEW quantity \in Nat,
           AverageIffOpen(pos)
    PROVE  AverageIffOpen(ApplyTrade(pos, side, price, quantity))
<1> DEFINE signed == Signed(side, quantity)
<1>1. pos.averagePrice \in Nat /\ pos.quantity \in Int
  BY DEF PositionValue
<1>2. CASE quantity = 0
  BY <1>2 DEF ApplyTrade
<1>3. CASE quantity # 0
  <2>1. signed \in Int /\ signed # 0
    BY <1>3 DEF Side, Signed
  <2>2. ASSUME pos.quantity # 0
        PROVE  /\ WeightedAverage(pos, price, signed) \in Nat
               /\ 1 <= WeightedAverage(pos, price, signed)
    <3>1. PICK high \in Nat : pos.averagePrice <= high /\ price <= high
      BY <1>1
    <3>2. 1 <= pos.averagePrice /\ 1 <= price
      BY <1>1, <2>2 DEF AverageIffOpen
    <3> HIDE DEF signed
    <3> QED BY <2>1, <2>2, <3>1, <3>2, WeightedAverageBetween
  <2>3. ApplyTrade(pos, side, price, quantity) =
          [quantity |-> pos.quantity + signed,
           averagePrice |-> AverageAfter(pos, price, signed)]
    BY <1>3 DEF ApplyTrade
  <2> HIDE DEF signed
  <2>4. (pos.quantity + signed = 0) <=> (AverageAfter(pos, price, signed) = 0)
    <3>1. CASE pos.quantity = 0
      BY <2>1, <3>1 DEF AverageAfter, SameDirection
    <3>2. CASE pos.quantity # 0
      BY <1>1, <2>1, <2>2, <3>2
         DEF AverageAfter, SameDirection, AverageWhenFlat, AverageWhenReversed, Abs,
             AverageIffOpen
    <3> QED BY <3>1, <3>2
  <2> QED BY <2>3, <2>4 DEF AverageIffOpen
<1> QED BY <1>2, <1>3

=============================================================================
