--------------------------- MODULE PriceLevelProofs ---------------------------
(***************************************************************************)
(* The price levels of a book, in its two representations.                 *)
(*                                                                         *)
(* DepthBook: for every capacity, every set of prices and either ordering, *)
(* and provided that the last level of a side is never erased, the array   *)
(* stays strictly sorted, the binary search being proved with its loop     *)
(* invariant, a step at a time; the map the array stands for keeps the     *)
(* best levels it was given; and it follows the feed of updates.           *)
(*                                                                         *)
(* PriceLadder: for every memory, range of prices and width of a volume,   *)
(* the links, ends, volumes and index of the ladder are one structure; the *)
(* lists are queues in the order of arrival; and the price at a depth has  *)
(* that rank.                                                              *)
(***************************************************************************)
EXTENDS DepthBook, PriceLadder, ArithmeticProofs, SequenceTheorems, FiniteSetTheorems, TLAPS

-----------------------------------------------------------------------------
(* DepthBook.                                                              *)

Busy == step \in {"called", "searching"}

Before(a, b) == Compare(a, b) /\ a # b

TypeInv ==
    /\ kind \in Kinds /\ ordering \in kind.orderings
    /\ slots \in [Indices -> Node]
    /\ size \in 0..Capacity
    /\ step \in {"idle", "called", "searching"}
    /\ update \in [price : Prices \cup {0}, quantity : Quantities \cup {0}]
    /\ left \in 0..Capacity /\ right \in 0..Capacity
    /\ DOMAIN feed \subseteq Prices
    /\ \A p \in DOMAIN feed : feed[p] \in Quantities
    /\ crowded \in BOOLEAN

\* A map that is empty has never held a level, so its front slot is fresh.
FreshWhenEmpty == size = 0 => Key(0) = 0

\* What the call knows of the map it was made on.
CallInv ==
    Busy => /\ update.price \in Prices /\ update.quantity \in Quantities
            /\ Erasing => size # 1 \/ Key(0) # update.price

\* The loop invariant of findInsertIndex.
SearchInv ==
    step = "searching" =>
        /\ left <= right /\ right <= size
        /\ \A i \in InUse : i < left => ~Compare(update.price, Key(i))
        /\ \A i \in InUse : i >= right => Compare(update.price, Key(i))
        /\ ~BehindLast
        /\ Erasing => ~OutOfRange

IInv == TypeInv /\ Sorted /\ FreshWhenEmpty /\ CallInv /\ SearchInv

-----------------------------------------------------------------------------
\* The comparison of either ordering is a total order of the prices.
LEMMA CompareOrders ==
    ASSUME NEW a \in Nat, NEW b \in Nat
    PROVE  /\ Compare(a, a)
           /\ Compare(a, b) \/ Compare(b, a)
           /\ Compare(a, b) /\ Compare(b, a) => a = b
           /\ ~Compare(a, b) => Before(b, a)
BY DEF Compare, Before

LEMMA CompareIsTransitive ==
    ASSUME NEW a \in Nat, NEW b \in Nat, NEW c \in Nat
    PROVE  /\ Compare(a, b) /\ Compare(b, c) => Compare(a, c)
           /\ Before(a, b) /\ Compare(b, c) => Before(a, c)
           /\ Compare(a, b) /\ Before(b, c) => Before(a, c)
BY DEF Compare, Before

LEMMA Constants ==
    /\ Prices \cup {0} \subseteq Nat
    /\ Quantities \subseteq Nat
    /\ Capacity \in Nat /\ Capacity > 0
    /\ SizeModulus \in Nat /\ SizeModulus > Capacity
<1>1. Prices \subseteq Nat /\ 0 \in Nat
  BY DepthBookAssumption
<1> QED
  BY <1>1, DepthBookAssumption

\* Keys are natural numbers.
LEMMA KeysAreNat ==
    ASSUME TypeInv, NEW i \in Indices
    PROVE  Key(i) \in Nat /\ slots[i].value \in Quantities \cup {0}
<1>1. slots[i] \in Node
  BY DEF TypeInv
<1>2. slots[i].key \in Prices \cup {0} /\ slots[i].value \in Quantities \cup {0}
  BY <1>1 DEF Node
<1> QED
  BY <1>2, Constants DEF Key

LEMMA InitIInv == Init => IInv
<1> SUFFICES ASSUME Init PROVE IInv
  OBVIOUS
<1>1. TypeInv
  <2>1. slots \in [Indices -> Node]
    BY DEF Init, Node
  <2>2. update \in [price : Prices \cup {0}, quantity : Quantities \cup {0}]
    BY DEF Init, NoUpdate
  <2>3. DOMAIN feed = {}
    BY DEF Init
  <2>4. 0 \in 0..Capacity
    BY DepthBookAssumption
  <2> QED
    BY <2>1, <2>2, <2>3, <2>4 DEF Init, TypeInv
<1>2. Sorted /\ CallInv /\ SearchInv
  BY DEF Init, Sorted, InUse, CallInv, Busy, SearchInv
<1>3. FreshWhenEmpty
  BY DepthBookAssumption DEF Init, FreshWhenEmpty, Key, Indices
<1> QED
  BY <1>1, <1>2, <1>3 DEF IInv

-----------------------------------------------------------------------------
(* The steps that leave the map alone.                                     *)

LEMMA CallKeeps ==
    ASSUME IInv, ~EmptiesSide,
           NEW price \in Prices, NEW quantity \in Quantities,
           HandlePriceUpdate(price, quantity)
    PROVE  IInv'
<1>1. TypeInv'
  <2>1. size \in 0..Capacity /\ step' = "called"
    BY DepthBookAssumption DEF IInv, TypeInv, HandlePriceUpdate
  <2>2. update' \in [price : Prices \cup {0}, quantity : Quantities \cup {0}]
    BY DEF HandlePriceUpdate
  <2>3. DOMAIN feed' \subseteq Prices /\ \A p \in DOMAIN feed' : feed'[p] \in Quantities
    <3>1. feed' = Fed(price, quantity)
      BY DEF HandlePriceUpdate
    <3>2. CASE quantity = 0
      BY <3>1, <3>2 DEF Fed, IInv, TypeInv
    <3>3. CASE quantity # 0 /\ price \in DOMAIN feed /\ ~kind.setsFound
      BY <3>1, <3>3 DEF Fed, IInv, TypeInv
    <3>4. CASE quantity # 0 /\ ~(price \in DOMAIN feed /\ ~kind.setsFound)
      BY <3>1, <3>4 DEF Fed, IInv, TypeInv
    <3> QED
      BY <3>2, <3>3, <3>4
  <2>4. crowded' \in BOOLEAN
    BY DEF HandlePriceUpdate, IInv, TypeInv
  <2> QED
    BY <2>1, <2>2, <2>3, <2>4 DEF HandlePriceUpdate, IInv, TypeInv, templateVars, mapVars
<1>2. Sorted' /\ FreshWhenEmpty'
  BY DEF HandlePriceUpdate, IInv, Sorted, FreshWhenEmpty, InUse, Key, Compare,
         templateVars, mapVars
<1>3. CallInv'
  BY DEF HandlePriceUpdate, Called, CallInv, Busy, Erasing, Key, mapVars
<1>4. SearchInv'
  BY DEF HandlePriceUpdate, SearchInv
<1> QED
  BY <1>1, <1>2, <1>3, <1>4 DEF IInv

LEMMA StartSearchKeeps ==
    ASSUME IInv, StartSearch
    PROVE  IInv'
<1>1. TypeInv'
  <2>1. left' \in 0..Capacity /\ right' \in 0..Capacity /\ step' = "searching"
    BY DepthBookAssumption DEF StartSearch, IInv, TypeInv
  <2> QED
    BY <2>1 DEF StartSearch, IInv, TypeInv, templateVars, mapVars, feedVars
<1>2. Sorted' /\ FreshWhenEmpty'
  BY DEF StartSearch, IInv, Sorted, FreshWhenEmpty, InUse, Key, Compare,
         templateVars, mapVars
<1>3. CallInv'
  BY DEF StartSearch, IInv, CallInv, Busy, Erasing, Key, mapVars
<1>4. SearchInv'
  <2>1. left' = 0 /\ right' = size' /\ size' \in Nat /\ InUse' = 0..size' - 1
    BY DEF StartSearch, IInv, TypeInv, mapVars, InUse
  <2>2. ~BehindLast' /\ (Erasing' => ~OutOfRange')
    BY DEF StartSearch, BehindLast, OutOfRange, Erasing, Key, Last, Compare,
           templateVars, mapVars
  <2>3. PICK n \in Nat : n = size'
    BY <2>1
  <2>4. ASSUME NEW i \in InUse'
        PROVE  ~(i < left') /\ ~(i >= right')
    <3>1. i \in 0..n - 1 /\ left' = 0 /\ right' = n
      BY <2>1, <2>3
    <3> QED
      BY <3>1
  <2>5. left' <= right' /\ right' <= size'
    BY <2>1, <2>3
  <2> QED
    BY <2>2, <2>4, <2>5 DEF SearchInv
<1> QED
  BY <1>1, <1>2, <1>3, <1>4 DEF IInv

\* One turn: everything before the new left is better than the price, and
\* everything from the new right on is not, because the array is sorted.
LEMMA SearchKeeps ==
    ASSUME IInv, Search
    PROVE  IInv'
<1> DEFINE mid == (left + right) \div 2
<1>1. /\ left \in Nat /\ right \in Nat /\ size \in Nat /\ size <= Capacity
      /\ left < right /\ right <= size /\ Capacity \in Nat
      /\ step = "searching" /\ UNCHANGED <<templateVars, mapVars, step, update, feedVars>>
  BY DepthBookAssumption DEF Search, IInv, TypeInv, SearchInv
<1>2. PICK m \in Nat : m = mid
  BY <1>1
<1>3. left <= m /\ m < right
  BY <1>1, <1>2
<1>4. Halve(m)
  BY <1>2 DEF Search
<1> HIDE DEF mid
<1>5. m \in Indices /\ m \in InUse /\ InUse \subseteq Indices
  BY <1>1, <1>3 DEF Indices, InUse
<1>6. update.price \in Nat
  BY <1>1, DepthBookAssumption DEF IInv, CallInv, Busy
<1>7. TypeInv'
  BY <1>1, <1>3, <1>4 DEF Halve, IInv, TypeInv, templateVars, mapVars, feedVars
<1>8. Sorted' /\ FreshWhenEmpty'
  BY <1>1 DEF IInv, Sorted, FreshWhenEmpty, InUse, Key, Compare, templateVars, mapVars
<1>9. CallInv'
  BY <1>1 DEF IInv, CallInv, Busy, Erasing, Key, mapVars
<1>10. SearchInv'
  <2>1. left' <= right' /\ right' <= size'
    BY <1>1, <1>3, <1>4 DEF Halve, mapVars
  <2>2. ~BehindLast' /\ (Erasing' => ~OutOfRange')
    BY <1>1 DEF IInv, SearchInv, BehindLast, OutOfRange, Erasing, Key, Last, Compare,
           templateVars, mapVars
  <2>3. ASSUME NEW i \in InUse, i < left'
        PROVE  ~Compare(update.price, Key(i))
    <3>1. CASE Compare(update.price, Key(m))
      BY <1>1, <1>4, <2>3, <3>1 DEF Halve, IInv, SearchInv
    <3>2. CASE ~Compare(update.price, Key(m))
      <4>1. i <= m
        BY <1>4, <2>3, <1>1, <3>2 DEF Halve, InUse
      <4>2. Key(i) \in Nat /\ Key(m) \in Nat
        BY <1>5, KeysAreNat DEF IInv
      <4>3. i = m \/ Compare(Key(i), Key(m))
        BY <4>1, <1>5 DEF IInv, Sorted, InUse
      <4> QED
        BY <3>2, <4>2, <4>3, <1>6, CompareIsTransitive
    <3> QED
      BY <3>1, <3>2
  <2>4. ASSUME NEW i \in InUse, i >= right'
        PROVE  Compare(update.price, Key(i))
    <3>1. CASE ~Compare(update.price, Key(m))
      BY <1>1, <1>4, <2>4, <3>1 DEF Halve, IInv, SearchInv
    <3>2. CASE Compare(update.price, Key(m))
      <4>1. i >= m
        BY <1>4, <2>4, <1>1, <3>2 DEF Halve, InUse
      <4>2. Key(i) \in Nat /\ Key(m) \in Nat
        BY <1>5, KeysAreNat DEF IInv
      <4>3. i = m \/ Compare(Key(m), Key(i))
        BY <4>1, <1>5 DEF IInv, Sorted, InUse
      <4> QED
        BY <3>2, <4>2, <4>3, <1>6, CompareIsTransitive
    <3> QED
      BY <3>1, <3>2
  <2>5. /\ InUse' = InUse /\ update' = update
        /\ \A i : Compare(update.price, Key(i))' <=> Compare(update.price, Key(i))
    BY <1>1 DEF InUse, Key, Compare, mapVars, templateVars
  <2> QED
    BY <2>1, <2>2, <2>3, <2>4, <2>5 DEF SearchInv
<1> QED
  BY <1>7, <1>8, <1>9, <1>10 DEF IInv

\* A call that returns leaves nothing to say about itself.
LEMMA ReturnKeeps ==
    ASSUME IInv, Return
    PROVE  /\ CallInv' /\ SearchInv'
           /\ slots' \in [Indices -> Node] /\ size' \in 0..Capacity => TypeInv'
<1>1. CallInv' /\ SearchInv'
  BY DEF Return, CallInv, Busy, SearchInv
<1>2. slots' \in [Indices -> Node] /\ size' \in 0..Capacity => TypeInv'
  BY DepthBookAssumption DEF Return, NoUpdate, IInv, TypeInv, templateVars, feedVars
<1> QED
  BY <1>1, <1>2

LEMMA ReturnAloneKeeps ==
    ASSUME IInv, Return, UNCHANGED mapVars
    PROVE  IInv'
<1>1. TypeInv' /\ CallInv' /\ SearchInv'
  BY ReturnKeeps DEF IInv, TypeInv, mapVars
<1>2. Sorted' /\ FreshWhenEmpty'
  BY DEF Return, IInv, Sorted, FreshWhenEmpty, InUse, Key, Compare, templateVars, mapVars
<1> QED
  BY <1>1, <1>2 DEF IInv
-----------------------------------------------------------------------------
(* The steps that change the array.                                        *)

LEMMA PushBackKeeps ==
    ASSUME IInv, PushBack
    PROVE  IInv'
<1>1. /\ step = "called" /\ ~Erasing /\ BehindLast /\ Return
      /\ size \in Nat /\ size > 0 /\ size <= Capacity /\ Capacity \in Nat
      /\ update.price \in Prices /\ update.quantity \in Quantities
  BY Constants DEF PushBack, BehindLast, IInv, TypeInv, CallInv, Busy
<1>2. CASE size = Capacity
  BY <1>1, <1>2, ReturnAloneKeeps DEF PushBack, Full
<1>3. CASE size # Capacity
  <2> DEFINE node == [key |-> update.price, value |-> update.quantity]
  <2>1. size' = size + 1 /\ slots' = [slots EXCEPT ![size] = node]
    BY <1>3 DEF PushBack, Full
  <2>2. node \in Node /\ size \in Indices /\ size + 1 \in 0..Capacity
    BY <1>1, <1>3 DEF Node, Indices
  <2>3. slots' \in [Indices -> Node]
    BY <2>1, <2>2 DEF IInv, TypeInv
  <2>4. /\ slots'[size].key = update.price
        /\ \A i \in 0..size - 1 : slots'[i] = slots[i]
    BY <1>1, <2>1, <2>2 DEF IInv, TypeInv, Indices
  <2>5. Sorted'
    <3> SUFFICES ASSUME NEW i \in 0..size, NEW j \in 0..size, i < j
                 PROVE  Compare(slots'[i].key, slots'[j].key) /\ slots'[i].key # slots'[j].key
      <4>1. InUse' = 0..size
        BY <1>1, <2>1 DEF InUse
      <4>2. \A a, b : Compare(a, b)' <=> Compare(a, b)
        BY <1>1 DEF Return, templateVars, Compare
      <4> QED
        BY <4>1, <4>2 DEF Sorted, Key, Compare
    <3>1. i \in InUse /\ i \in Indices /\ slots'[i].key = Key(i)
      BY <1>1, <2>4 DEF InUse, Indices, Key
    <3>2. CASE j < size
      <4>1. j \in InUse /\ slots'[j].key = Key(j)
        BY <1>1, <2>4, <3>2 DEF InUse, Key
      <4> QED
        BY <3>1, <4>1 DEF IInv, Sorted
    <3>3. CASE j = size
      <4>1. Last \in InUse /\ Last \in Indices
        BY <1>1 DEF Last, InUse, Indices
      <4>2. Key(i) \in Nat /\ Key(Last) \in Nat /\ update.price \in Nat
        BY <1>1, <3>1, <4>1, KeysAreNat, Constants DEF IInv
      <4>3. Before(Key(Last), update.price)
        BY <1>1, <4>2, CompareOrders DEF BehindLast
      <4>4. Compare(Key(i), Key(Last))
        <5>1. CASE i = Last
          BY <4>2, <5>1, CompareOrders
        <5>2. CASE i # Last
          <6>1. i < Last
            BY <1>1, <3>1, <5>2 DEF Last, InUse
          <6> QED
            BY <3>1, <4>1, <6>1 DEF IInv, Sorted
        <5> QED
          BY <5>1, <5>2
      <4>5. Before(Key(i), update.price)
        BY <4>2, <4>3, <4>4, CompareIsTransitive
      <4> QED
        BY <2>4, <3>1, <3>3, <4>5 DEF Before
    <3> QED
      BY <1>1, <3>2, <3>3
  <2>6. TypeInv' /\ CallInv' /\ SearchInv'
    BY <1>1, <2>1, <2>2, <2>3, ReturnKeeps
  <2>7. FreshWhenEmpty'
    BY <1>1, <2>1 DEF FreshWhenEmpty
  <2> QED
    BY <2>5, <2>6, <2>7 DEF IInv
<1> QED
  BY <1>2, <1>3

\* Where the search ends, the levels before are better than the price and the
\* levels behind are worse.
LEMMA FoundSplits ==
    ASSUME IInv, Found
    PROVE  /\ left \in Nat /\ size \in Nat /\ size <= Capacity /\ Capacity \in Nat
           /\ left < size \/ (size = 0 /\ left = 0)
           /\ left \in Indices
           /\ update.price \in Prices /\ update.price \in Nat
           /\ update.quantity \in Quantities
           /\ \A i \in InUse : i \in Indices /\ Key(i) \in Nat
           /\ \A i \in InUse : i < left => Before(Key(i), update.price)
           /\ \A i \in InUse : i >= left => Compare(update.price, Key(i))
           /\ Same <=> Key(left) = update.price
<1>1. /\ left \in Nat /\ right \in Nat /\ size \in Nat /\ size <= Capacity
      /\ Capacity \in Nat /\ Capacity > 0
      /\ left = right /\ right <= size /\ step = "searching"
  BY Constants DEF Found, IInv, TypeInv, SearchInv
<1>2. update.price \in Prices /\ update.price \in Nat /\ update.quantity \in Quantities
  BY <1>1, Constants DEF IInv, CallInv, Busy
<1>3. \A i \in InUse : i \in Indices
  BY <1>1 DEF InUse, Indices
<1>4. \A i \in InUse : Key(i) \in Nat
  BY <1>3, KeysAreNat DEF IInv
<1>5. \A i \in InUse : i < left => Before(Key(i), update.price)
  BY <1>1, <1>2, <1>4, CompareOrders DEF IInv, SearchInv
<1>6. \A i \in InUse : i >= left => Compare(update.price, Key(i))
  BY <1>1 DEF IInv, SearchInv
<1>7. left < size \/ (size = 0 /\ left = 0)
  <2>1. ASSUME size > 0, left = size
        PROVE  FALSE
    <3>1. Last \in InUse /\ Last < left
      BY <1>1, <2>1 DEF Last, InUse
    <3>2. ~Compare(update.price, Key(Last))
      BY <1>1, <3>1 DEF IInv, SearchInv
    <3> QED
      BY <1>1, <2>1, <3>2 DEF IInv, SearchInv, BehindLast
  <2> QED
    BY <1>1, <2>1
<1>8. left \in Indices /\ left # Capacity
  BY <1>1, <1>7 DEF Indices
<1> QED
  BY <1>1, <1>2, <1>3, <1>4, <1>5, <1>6, <1>7, <1>8 DEF Same

\* Whatever a step does to the array, the order is about its keys.
LEMMA SortedFromKeys ==
    ASSUME Return,
           \A i, j \in 0..size' - 1 : i < j => Before(slots'[i].key, slots'[j].key)
    PROVE  Sorted'
<1>1. \A a, b : Compare(a, b)' <=> Compare(a, b)
  BY DEF Return, templateVars, Compare
<1> QED
  BY <1>1 DEF Sorted, InUse, Key, Before, Compare

LEMMA PushFoundKeeps ==
    ASSUME IInv, PushFound
    PROVE  IInv'
<1>1. /\ Found /\ ~Erasing /\ Return /\ size' = size
      /\ left \in Indices /\ update.quantity \in Quantities
      /\ slots \in [Indices -> Node]
  BY FoundSplits DEF PushFound, IInv, TypeInv
<1>2. slots' = slots \/ slots' = [slots EXCEPT ![left].value = update.quantity]
  BY DEF PushFound
<1>3. slots' \in [Indices -> Node] /\ \A i \in Indices : slots'[i].key = Key(i)
  BY <1>1, <1>2 DEF Node, Key
<1>4. TypeInv' /\ CallInv' /\ SearchInv'
  BY <1>1, <1>3, ReturnKeeps DEF IInv, TypeInv
<1>5. size \in Nat /\ size <= Capacity /\ Capacity \in Nat /\ Capacity > 0
  BY Constants DEF IInv, TypeInv
<1>6. Sorted'
  <2>1. ASSUME NEW i \in 0..size - 1, NEW j \in 0..size - 1, i < j
        PROVE  Before(slots'[i].key, slots'[j].key)
    <3>1. i \in InUse /\ j \in InUse /\ i \in Indices /\ j \in Indices
      BY <1>5, <2>1 DEF InUse, Indices
    <3> QED
      BY <1>3, <2>1, <3>1 DEF IInv, Sorted, Before
  <2> QED
    BY <1>1, <2>1, SortedFromKeys
<1>7. FreshWhenEmpty'
  <2>1. 0 \in Indices
    BY <1>5 DEF Indices
  <2> QED
    BY <1>1, <1>3, <2>1 DEF IInv, FreshWhenEmpty, Key
<1> QED
  BY <1>4, <1>6, <1>7 DEF IInv

\* The price goes between the levels better than it and the levels worse.
LEMMA PushInsertKeeps ==
    ASSUME IInv, PushInsert
    PROVE  IInv'
<1>1. /\ Found /\ ~Same /\ Return /\ size' = Grown
      /\ slots \in [Indices -> Node]
  BY DEF PushInsert, IInv, TypeInv
<1>2. /\ left \in Nat /\ size \in Nat /\ size <= Capacity /\ Capacity \in Nat
      /\ left < size \/ (size = 0 /\ left = 0)
      /\ left \in Indices /\ Capacity > 0
      /\ update.price \in Prices /\ update.price \in Nat
      /\ update.quantity \in Quantities
  BY <1>1, FoundSplits, Constants
<1>3. PICK n \in Nat : n = Grown
  BY <1>2 DEF Grown, Full
<1>4. n <= Capacity /\ n <= size + 1 /\ left < n /\ n > 0 /\ n >= size
  BY <1>2, <1>3 DEF Grown, Full, Indices
<1> DEFINE node == [key |-> update.price, value |-> update.quantity]
<1>5. slots' = [i \in Indices |->
                   IF i = left THEN node
                   ELSE IF left < i /\ i < n THEN slots[i - 1]
                   ELSE slots[i]]
  BY <1>3 DEF PushInsert
<1>6. slots' \in [Indices -> Node]
  <2>1. node \in Node
    BY <1>2 DEF Node
  <2>2. \A i \in Indices : left < i => i - 1 \in Indices
    BY <1>2 DEF Indices
  <2> QED
    BY <1>1, <1>5, <2>1, <2>2
<1>7. /\ slots'[left].key = update.price
      /\ \A i \in Indices : i < left => slots'[i].key = Key(i)
      /\ \A i \in Indices : left < i /\ i < n => slots'[i].key = Key(i - 1)
  <2>1. slots'[left].key = update.price
    BY <1>2, <1>5
  <2>2. \A i \in Indices : i < left => slots'[i].key = Key(i)
    BY <1>2, <1>5 DEF Key, Indices
  <2>3. \A i \in Indices : left < i /\ i < n => slots'[i].key = Key(i - 1)
    BY <1>2, <1>5 DEF Key, Indices
  <2> QED
    BY <2>1, <2>2, <2>3
<1> HIDE DEF node
<1>8. TypeInv' /\ CallInv' /\ SearchInv'
  <2>1. size' \in 0..Capacity
    BY <1>1, <1>2, <1>3, <1>4
  <2> QED
    BY <1>1, <1>6, <2>1, ReturnKeeps
<1>9. \A i \in InUse : i < left => Before(Key(i), update.price)
  BY <1>1, FoundSplits
<1>10. \A i \in InUse : i >= left => Before(update.price, Key(i))
  <2> SUFFICES ASSUME NEW i \in InUse, i >= left
               PROVE  Before(update.price, Key(i))
    OBVIOUS
  <2>1. Compare(update.price, Key(i))
    BY <1>1, FoundSplits
  <2>2. Key(left) # update.price
    BY <1>1, FoundSplits
  <2>3. CASE i = left
    BY <2>1, <2>2, <2>3 DEF Before
  <2>4. CASE i # left
    <3>1. left \in InUse /\ left < i
      BY <1>2, <2>4 DEF InUse
    <3>2. Compare(update.price, Key(left)) /\ Before(Key(left), Key(i))
      BY <1>1, <1>2, <3>1, FoundSplits DEF IInv, Sorted, Before
    <3>3. Key(left) \in Nat /\ Key(i) \in Nat
      BY <1>1, <3>1, FoundSplits
    <3> QED
      BY <1>2, <3>2, <3>3, CompareIsTransitive
  <2> QED
    BY <2>3, <2>4
<1>11. Sorted'
  <2>1. ASSUME NEW i \in 0..n - 1, NEW j \in 0..n - 1, i < j
        PROVE  Before(slots'[i].key, slots'[j].key)
    <3>1. i \in Nat /\ j \in Nat /\ i \in Indices /\ j \in Indices /\ i < n /\ j < n
      BY <1>2, <1>4, <2>1 DEF Indices
    <3>2. CASE j < left
      <4>1. i \in InUse /\ j \in InUse /\ i < left
        BY <1>2, <2>1, <3>1, <3>2 DEF InUse
      <4> QED
        BY <1>7, <2>1, <3>1, <3>2, <4>1 DEF IInv, Sorted, Before
    <3>3. CASE j = left
      <4>1. i \in InUse /\ i < left
        BY <1>2, <2>1, <3>1, <3>3 DEF InUse
      <4> QED
        BY <1>7, <1>9, <3>1, <3>3, <4>1
    <3>4. CASE left < j
      <4>1. j - 1 \in InUse /\ left <= j - 1 /\ slots'[j].key = Key(j - 1)
        BY <1>2, <1>4, <1>7, <3>1, <3>4 DEF InUse
      <4>2. CASE i = left
        BY <1>7, <1>10, <4>1, <4>2
      <4>3. CASE i < left
        <5>1. i \in InUse /\ i < j - 1 /\ slots'[i].key = Key(i)
          BY <1>2, <1>4, <1>7, <3>1, <4>1, <4>3 DEF InUse
        <5> QED
          BY <4>1, <5>1 DEF IInv, Sorted, Before
      <4>4. CASE left < i
        <5>1. i - 1 \in InUse /\ i - 1 < j - 1 /\ slots'[i].key = Key(i - 1)
          BY <1>2, <1>4, <1>7, <2>1, <3>1, <4>4 DEF InUse
        <5> QED
          BY <4>1, <5>1 DEF IInv, Sorted, Before
      <4> QED
        BY <1>2, <3>1, <4>2, <4>3, <4>4
    <3> QED
      BY <1>2, <3>1, <3>2, <3>3, <3>4
  <2>2. size' = n
    BY <1>1, <1>3
  <2> QED
    BY <1>1, <2>1, <2>2, SortedFromKeys
<1>12. FreshWhenEmpty'
  BY <1>1, <1>3, <1>4 DEF FreshWhenEmpty
<1> QED
  BY <1>8, <1>11, <1>12 DEF IInv

\* A price that is erased is not the last: the array does not become empty.
LEMMA EraseFoundKeeps ==
    ASSUME IInv, EraseFound
    PROVE  IInv'
<1>1. /\ Found /\ Erasing /\ Same /\ Return /\ slots' = Closed
      /\ size' = (size - 1) % SizeModulus
      /\ slots \in [Indices -> Node]
  BY DEF EraseFound, IInv, TypeInv
<1>2. /\ left \in Nat /\ size \in Nat /\ size <= Capacity /\ Capacity \in Nat
      /\ left < size \/ (size = 0 /\ left = 0)
      /\ left \in Indices /\ Capacity > 0
      /\ update.price \in Prices
      /\ Key(left) = update.price
  BY <1>1, FoundSplits, Constants
<1>3. size >= 2
  <2>1. ASSUME size = 0
        PROVE  FALSE
    <3>1. Key(0) = 0 /\ left = 0
      BY <1>2, <2>1 DEF IInv, FreshWhenEmpty
    <3> QED
      BY <1>2, <3>1, DepthBookAssumption
  <2>2. ASSUME size = 1
        PROVE  FALSE
    <3>1. left = 0
      BY <1>2, <2>2
    <3>2. size # 1 \/ Key(0) # update.price
      BY <1>1 DEF IInv, CallInv, Busy, Found
    <3> QED
      BY <1>2, <2>2, <3>1, <3>2
  <2> QED
    BY <1>2, <2>1, <2>2
<1>4. size' = size - 1
  BY <1>1, <1>2, <1>3, Constants
<1>5. \A i \in Indices :
          slots'[i] = IF left <= i /\ i + 1 < size THEN slots[i + 1] ELSE slots[i]
  BY <1>1 DEF Closed
<1>6. slots' \in [Indices -> Node]
  <2>1. \A i \in Indices : i + 1 < size => i + 1 \in Indices
    BY <1>2 DEF Indices
  <2> QED
    BY <1>1, <2>1 DEF Closed
<1>7. TypeInv' /\ CallInv' /\ SearchInv'
  <2>1. size' \in 0..Capacity
    BY <1>2, <1>3, <1>4
  <2> QED
    BY <1>1, <1>6, <2>1, ReturnKeeps
<1>8. Sorted'
  <2>1. ASSUME NEW i \in 0..size - 2, NEW j \in 0..size - 2, i < j
        PROVE  Before(slots'[i].key, slots'[j].key)
    <3>1. /\ i \in Nat /\ j \in Nat /\ i \in Indices /\ j \in Indices
          /\ i + 1 < size /\ j + 1 < size
          /\ i \in InUse /\ j \in InUse /\ i + 1 \in InUse /\ j + 1 \in InUse
      BY <1>2, <1>3, <2>1 DEF Indices, InUse
    <3>2. slots'[j].key = IF left <= j THEN Key(j + 1) ELSE Key(j)
      BY <1>5, <3>1 DEF Key
    <3>3. slots'[i].key = IF left <= i THEN Key(i + 1) ELSE Key(i)
      BY <1>5, <3>1 DEF Key
    <3>4. \A a, b \in InUse : a < b => Before(Key(a), Key(b))
      BY DEF IInv, Sorted, Before
    <3>5. CASE left <= i
      BY <1>2, <2>1, <3>1, <3>2, <3>3, <3>4, <3>5
    <3>6. CASE i < left /\ left <= j
      BY <1>2, <2>1, <3>1, <3>2, <3>3, <3>4, <3>6
    <3>7. CASE j < left
      BY <1>2, <2>1, <3>1, <3>2, <3>3, <3>4, <3>7
    <3> QED
      BY <1>2, <3>1, <3>5, <3>6, <3>7
  <2>2. size' - 1 = size - 2
    BY <1>2, <1>4
  <2> QED
    BY <1>1, <2>1, <2>2, SortedFromKeys
<1>9. FreshWhenEmpty'
  BY <1>2, <1>3, <1>4 DEF FreshWhenEmpty
<1> QED
  BY <1>7, <1>8, <1>9 DEF IInv

-----------------------------------------------------------------------------
LEMMA NextKeeps ==
    ASSUME IInv, ~EmptiesSide, [Next]_vars
    PROVE  IInv'
<1>1. CASE \E price \in Prices, quantity \in Quantities : HandlePriceUpdate(price, quantity)
  BY <1>1, CallKeeps
<1>2. CASE FindInsertIndex
  BY <1>2, StartSearchKeeps, SearchKeeps DEF FindInsertIndex
<1>3. CASE Push
  BY <1>3, PushBackKeeps, PushFoundKeeps, PushInsertKeeps DEF Push
<1>4. CASE Erase
  <2>1. CASE EraseFound
    BY <2>1, EraseFoundKeeps
  <2>2. CASE EraseOutOfRange
    BY <2>2, ReturnAloneKeeps DEF EraseOutOfRange
  <2>3. CASE EraseMissing
    BY <2>3, ReturnAloneKeeps DEF EraseMissing
  <2> QED
    BY <1>4, <2>1, <2>2, <2>3 DEF Erase
<1>5. CASE UNCHANGED vars
  <2>1. UNCHANGED <<kind, ordering, slots, size, step, update, left, right, feed, crowded>>
    BY <1>5 DEF vars, templateVars, mapVars, callVars, feedVars
  <2> QED
    BY <2>1 DEF IInv, TypeInv, Sorted, FreshWhenEmpty, CallInv, SearchInv, Busy, Erasing,
                InUse, Key, Compare, BehindLast, OutOfRange, Last
<1> QED
  BY <1>1, <1>2, <1>3, <1>4, <1>5 DEF Next

\* As long as the last level of a side is never erased, every execution of
\* push, erase and findInsertIndex keeps the array well-formed: no size wraps,
\* no slot beyond the array is written and the binary search stays inside it.
THEOREM DepthTypeOK ==
    ASSUME ~EmptiesSide
    PROVE  Spec => []TypeOK
<1>1. IInv => TypeOK
  BY DEF IInv, TypeInv, TypeOK
<1>2. IInv /\ [Next]_vars => IInv'
  BY NextKeeps
<1> QED
  BY <1>1, <1>2, InitIInv, PTL DEF Spec

\* The levels findInsertIndex searches are strictly sorted, whatever is pushed
\* and erased: no price stands twice and data()[0] is the best one.
THEOREM DepthSorted ==
    ASSUME ~EmptiesSide
    PROVE  Spec => []Sorted
<1>1. IInv => Sorted
  BY DEF IInv
<1>2. IInv /\ [Next]_vars => IInv'
  BY NextKeeps
<1> QED
  BY <1>1, <1>2, InitIInv, PTL DEF Spec

-----------------------------------------------------------------------------
(* The map the array stands for, as a function of the array alone.         *)

LevelsIn(s, n) == [p \in {s[i].key : i \in 0..n - 1} |->
                      s[CHOOSE i \in 0..n - 1 : s[i].key = p].value]

LEMMA LevelsAreIn ==
    /\ Levels = LevelsIn(slots, size)
    /\ Levels' = LevelsIn(slots', size')
BY DEF Levels, LevelsIn, InUse, Key

\* With distinct keys a slot's price has the slot's quantity, and nothing else
\* is in the map.
LEMMA LevelsOfArray ==
    ASSUME NEW s, NEW n \in Nat,
           \A i, j \in 0..n - 1 : s[i].key = s[j].key => i = j
    PROVE  /\ DOMAIN LevelsIn(s, n) = {s[i].key : i \in 0..n - 1}
           /\ \A i \in 0..n - 1 : LevelsIn(s, n)[s[i].key] = s[i].value
<1>1. ASSUME NEW i \in 0..n - 1
      PROVE  (CHOOSE j \in 0..n - 1 : s[j].key = s[i].key) = i
  BY <1>1
<1>2. \A i \in 0..n - 1 : LevelsIn(s, n)[s[i].key] = s[i].value
  BY <1>1 DEF LevelsIn
<1>3. DOMAIN LevelsIn(s, n) = {s[i].key : i \in 0..n - 1}
  BY DEF LevelsIn
<1> QED BY <1>2, <1>3

LEMMA LevelsUnique ==
    ASSUME NEW s, NEW n \in Nat,
           \A i, j \in 0..n - 1 : s[i].key = s[j].key => i = j,
           NEW m, m = [p \in DOMAIN m |-> m[p]],
           DOMAIN m = {s[i].key : i \in 0..n - 1},
           \A i \in 0..n - 1 : m[s[i].key] = s[i].value
    PROVE  LevelsIn(s, n) = m
<1> DEFINE l == LevelsIn(s, n)
<1>1. l = [p \in DOMAIN l |-> l[p]]
  BY DEF LevelsIn
<1>2. /\ DOMAIN l = {s[i].key : i \in 0..n - 1}
      /\ \A i \in 0..n - 1 : l[s[i].key] = s[i].value
  BY LevelsOfArray
<1> HIDE DEF l
<1>3. \A p \in DOMAIN m : l[p] = m[p]
  BY <1>2
<1>4. l = m
  BY <1>1, <1>2, <1>3
<1> QED BY <1>4 DEF l

LEMMA LevelsCount ==
    ASSUME NEW s, NEW n \in Nat,
           \A i, j \in 0..n - 1 : s[i].key = s[j].key => i = j
    PROVE  /\ IsFiniteSet(DOMAIN LevelsIn(s, n))
           /\ Cardinality(DOMAIN LevelsIn(s, n)) = n
<1> DEFINE K == {s[i].key : i \in 0..n - 1}
           f == [i \in 0..n - 1 |-> s[i].key]
<1>1. f \in Bijection(0..n - 1, K)
  BY DEF Bijection, Injection, Surjection, IsInjective
<1>2. IsFiniteSet(0..n - 1) /\ Cardinality(0..n - 1) = n
  BY FS_Interval
<1>3. IsFiniteSet(K) /\ Cardinality(K) = n
  <2> DEFINE I == 0..n - 1
  <2>1. ExistsBijection(I, K)
    BY <1>1 DEF ExistsBijection
  <2> HIDE DEF I, K
  <2>2. IsFiniteSet(I) /\ Cardinality(I) = n
    BY <1>2 DEF I
  <2> QED BY <2>1, <2>2, FS_Bijection
<1> QED BY <1>3 DEF LevelsIn

\* The keys of a sorted array are distinct, before a step and after it.
LEMMA KeysDistinct ==
    ASSUME IInv
    PROVE  /\ size \in Nat /\ size <= Capacity
           /\ \A i, j \in 0..size - 1 : slots[i].key = slots[j].key => i = j
<1>1. size \in Nat /\ size <= Capacity
  BY Constants DEF IInv, TypeInv
<1>2. \A i, j \in 0..size - 1 : i < j => slots[i].key # slots[j].key
  BY DEF IInv, Sorted, InUse, Key
<1>3. \A i, j \in 0..size - 1 : i < j \/ j < i \/ i = j
  OBVIOUS
<1> QED BY <1>1, <1>2, <1>3

LEMMA KeysDistinctAfter ==
    ASSUME IInv'
    PROVE  /\ size' \in Nat /\ size' <= Capacity
           /\ \A i, j \in 0..size' - 1 : slots'[i].key = slots'[j].key => i = j
<1>1. size' \in Nat /\ size' <= Capacity
  BY Constants DEF IInv, TypeInv
<1>2. \A i, j \in 0..size' - 1 : i < j => slots'[i].key # slots'[j].key
  BY DEF IInv, Sorted, InUse, Key
<1>3. \A i, j \in 0..size' - 1 : i < j \/ j < i \/ i = j
  OBVIOUS
<1> QED BY <1>1, <1>2, <1>3

LEMMA LevelsFacts ==
    ASSUME IInv
    PROVE  /\ DOMAIN Levels = {Key(i) : i \in InUse}
           /\ \A i \in InUse : Levels[Key(i)] = slots[i].value
           /\ Levels = [p \in DOMAIN Levels |-> Levels[p]]
           /\ DOMAIN Levels \subseteq Nat
           /\ IsFiniteSet(DOMAIN Levels) /\ Cardinality(DOMAIN Levels) = size
<1>1. \A i \in InUse : Key(i) \in Nat
  <2>1. InUse \subseteq Indices
    BY Constants DEF IInv, TypeInv, InUse, Indices
  <2> QED BY <2>1, KeysAreNat DEF IInv
<1>2. Levels = LevelsIn(slots, size) /\ size \in Nat
      /\ \A i, j \in 0..size - 1 : slots[i].key = slots[j].key => i = j
  BY LevelsAreIn, KeysDistinct
<1>3. /\ DOMAIN Levels = {slots[i].key : i \in 0..size - 1}
      /\ \A i \in 0..size - 1 : Levels[slots[i].key] = slots[i].value
  <2>1. /\ DOMAIN LevelsIn(slots, size) = {slots[i].key : i \in 0..size - 1}
        /\ \A i \in 0..size - 1 : LevelsIn(slots, size)[slots[i].key] = slots[i].value
    BY ONLY <1>2, LevelsOfArray
  <2> QED BY ONLY <1>2, <2>1
<1>4. IsFiniteSet(DOMAIN Levels) /\ Cardinality(DOMAIN Levels) = size
  BY <1>2, LevelsCount
<1>5. Levels = [p \in DOMAIN Levels |-> Levels[p]]
  BY DEF Levels
<1> QED BY <1>1, <1>3, <1>4, <1>5 DEF InUse, Key

\* A map that has the new slots' prices and quantities is the new map.
LEMMA LevelsAfter ==
    ASSUME IInv', NEW m, m = [p \in DOMAIN m |-> m[p]],
           DOMAIN m = {slots'[i].key : i \in 0..size' - 1},
           \A i \in 0..size' - 1 : m[slots'[i].key] = slots'[i].value
    PROVE  Levels' = m
<1>1. LevelsIn(slots', size') = m
  <2>1. size' \in Nat /\ \A i, j \in 0..size' - 1 : slots'[i].key = slots'[j].key => i = j
    BY KeysDistinctAfter
  <2> QED BY <2>1, LevelsUnique
<1> QED BY <1>1, LevelsAreIn

WithLevel(m, price, quantity) ==
    [p \in DOMAIN m \cup {price} |-> IF p = price THEN quantity ELSE m[p]]

WithoutLevel(m, price) == [p \in DOMAIN m \ {price} |-> m[p]]

\* A slot that holds the price of the call is one in use.
LEMMA SameIsInUse ==
    ASSUME IInv, Found, Same
    PROVE  left \in InUse /\ Key(left) = update.price /\ size > 0
<1>1. /\ left \in Nat /\ size \in Nat
      /\ left < size \/ (size = 0 /\ left = 0)
      /\ update.price \in Prices /\ Key(left) = update.price
  BY FoundSplits
<1>2. size # 0
  BY <1>1, DepthBookAssumption DEF IInv, FreshWhenEmpty
<1> QED BY <1>1, <1>2 DEF InUse

\* Where the price is not found, what stands from there on is worse than it.
LEMMA MissingSplits ==
    ASSUME IInv, Found, ~Same
    PROVE  /\ \A i \in InUse : i >= left => Before(update.price, Key(i))
           /\ update.price \notin DOMAIN Levels
<1>1. /\ left \in Nat /\ size \in Nat /\ update.price \in Nat
      /\ Key(left) # update.price
      /\ \A i \in InUse : Key(i) \in Nat
      /\ \A i \in InUse : i < left => Before(Key(i), update.price)
      /\ \A i \in InUse : i >= left => Compare(update.price, Key(i))
  BY FoundSplits
<1>2. \A i \in InUse : i >= left => Before(update.price, Key(i))
  <2> SUFFICES ASSUME NEW i \in InUse, i >= left
               PROVE  Before(update.price, Key(i))
    OBVIOUS
  <2>1. CASE i = left
    BY <1>1, <2>1 DEF Before
  <2>2. CASE i # left
    <3>1. left \in InUse /\ left < i
      BY <1>1, <2>2 DEF InUse
    <3>2. Before(Key(left), Key(i))
      BY <3>1 DEF IInv, Sorted, Before
    <3> QED BY <1>1, <3>1, <3>2, CompareIsTransitive
  <2> QED BY <2>1, <2>2
<1>3. \A i \in InUse : i \in Nat /\ Key(i) # update.price
  BY <1>1, <1>2 DEF Before, InUse
<1> QED BY <1>2, <1>3, LevelsFacts

\* The map is a function of the array: who leaves the array leaves the map.
LEMMA QuietLevels ==
    ASSUME UNCHANGED <<templateVars, mapVars>>
    PROVE  Levels' = Levels
BY LevelsAreIn DEF mapVars

\* Better than every level or worse than every level, a price is none of them.
LEMMA OutOfRangeLevels ==
    ASSUME IInv, Busy, OutOfRange
    PROVE  /\ update.price \notin DOMAIN Levels
           /\ BehindLast => \A p \in DOMAIN Levels : Before(p, update.price)
<1>1. size > 0 /\ size \in Nat /\ size <= Capacity /\ update.price \in Nat
  BY Constants DEF OutOfRange, BehindLast, IInv, TypeInv, CallInv
<1>2. 0 \in InUse /\ Last \in InUse
  BY <1>1 DEF InUse, Last
<1>3. \A i \in InUse : Key(i) \in Nat /\ i \in Nat /\ i <= Last
  BY <1>1, LevelsFacts DEF InUse, Last
<1>4. \A i \in InUse : i = 0 \/ Compare(Key(0), Key(i))
  BY <1>2, <1>3 DEF IInv, Sorted
<1>5. \A i \in InUse : i = Last \/ Compare(Key(i), Key(Last))
  BY <1>1, <1>2, <1>3 DEF IInv, Sorted, Last
<1>6. CASE BehindLast
  <2>1. Before(Key(Last), update.price)
    BY <1>1, <1>2, <1>3, <1>6, CompareOrders DEF BehindLast
  <2>2. \A i \in InUse : Before(Key(i), update.price)
    BY <1>1, <1>2, <1>3, <1>5, <2>1, CompareIsTransitive
  <2> QED BY <2>2, LevelsFacts DEF Before
<1>7. CASE ~Compare(Key(0), update.price) /\ ~BehindLast
  <2>1. \A i \in InUse : Key(i) # update.price
    BY <1>1, <1>2, <1>3, <1>4, <1>7, CompareOrders
  <2> QED BY <1>7, <2>1, LevelsFacts
<1> QED BY <1>6, <1>7 DEF OutOfRange

\* What a push of a new price does: where there is room the map has it as
\* well, and where there is none the worst of what it would have is dropped.
Pushed ==
    LET more == WithLevel(Levels, update.price, update.quantity)
    IN /\ update.price \notin DOMAIN Levels
       /\ size < Capacity => Levels' = more
       /\ size = Capacity =>
             \E worst \in DOMAIN more :
                /\ \A p \in DOMAIN more \ {worst} : Before(p, worst)
                /\ Levels' = WithoutLevel(more, worst)

LEMMA PushBackLevels ==
    ASSUME IInv, PushBack
    PROVE  Pushed
<1> DEFINE p == update.price
           q == update.quantity
           more == WithLevel(Levels, p, q)
<1>1. /\ step = "called" /\ BehindLast /\ size > 0
      /\ size \in Nat /\ size <= Capacity /\ Capacity \in Nat
      /\ slots \in [Indices -> Node]
      /\ UNCHANGED templateVars
  BY Constants DEF PushBack, Return, BehindLast, IInv, TypeInv
<1>2. p \notin DOMAIN Levels /\ \A x \in DOMAIN Levels : Before(x, p)
  BY <1>1, OutOfRangeLevels DEF OutOfRange, Busy
<1>3. DOMAIN more = DOMAIN Levels \cup {p}
      /\ more = [x \in DOMAIN more |-> more[x]]
      /\ more[p] = q /\ \A x \in DOMAIN Levels : x # p => more[x] = Levels[x]
  BY DEF WithLevel
<1>4. CASE size = Capacity
  <2>1. Levels' = Levels
    BY <1>1, <1>4, QuietLevels DEF PushBack, Full
  <2>2. WithoutLevel(more, p) = [x \in DOMAIN Levels |-> Levels[x]]
    BY <1>2, <1>3 DEF WithoutLevel
  <2>3. Levels' = WithoutLevel(more, p)
    BY <2>1, <2>2, LevelsFacts
  <2>4. \A x \in DOMAIN more \ {p} : Before(x, p)
    BY <1>2, <1>3
  <2>5. p \in DOMAIN more
    BY <1>3
  <2> HIDE DEF more
  <2>6. \E worst \in DOMAIN more :
            /\ \A x \in DOMAIN more \ {worst} : Before(x, worst)
            /\ Levels' = WithoutLevel(more, worst)
    BY <2>3, <2>4, <2>5
  <2>7. ~(size < Capacity)
    BY <1>1, <1>4
  <2> QED BY <1>2, <2>6, <2>7 DEF Pushed, more
<1>5. CASE size # Capacity
  <2>1. IInv'
    BY PushBackKeeps
  <2>2. size' = size + 1 /\ size \in Indices
        /\ slots' = [slots EXCEPT ![size] = [key |-> p, value |-> q]]
    BY <1>1, <1>5 DEF PushBack, Full, Indices
  <2>3. /\ slots'[size].key = p /\ slots'[size].value = q
        /\ \A i \in InUse : slots'[i] = slots[i]
    BY <1>1, <2>2 DEF Indices, InUse
  <2>4. 0..size' - 1 = InUse \cup {size}
    BY <1>1, <2>2 DEF InUse
  <2>5. DOMAIN Levels = {slots[i].key : i \in InUse}
        /\ \A i \in InUse : Levels[slots[i].key] = slots[i].value
    BY LevelsFacts DEF Key
  <2> HIDE DEF p, q, more
  <2>6. DOMAIN more = {slots'[i].key : i \in 0..size' - 1}
    BY <1>3, <2>3, <2>4, <2>5
  <2>7. \A i \in InUse : slots[i].key \in DOMAIN Levels /\ slots[i].key # p
    BY <1>2, <2>5
  <2>8. \A i \in 0..size' - 1 : more[slots'[i].key] = slots'[i].value
    BY <1>3, <2>3, <2>4, <2>5, <2>7
  <2>9. Levels' = more
    BY <1>3, <2>1, <2>6, <2>8, LevelsAfter
  <2> QED BY <1>1, <1>2, <1>5, <2>9 DEF Pushed, more, p, q
<1> QED BY <1>4, <1>5

LEMMA PushFoundLevels ==
    ASSUME IInv, PushFound
    PROVE  /\ update.price \in DOMAIN Levels
           /\ Levels' = IF kind.setsFound
                        THEN WithLevel(Levels, update.price, update.quantity)
                        ELSE Levels
<1> DEFINE p == update.price
           q == update.quantity
           more == WithLevel(Levels, p, q)
<1>1. /\ Found /\ Same /\ size' = size /\ size \in Nat /\ size <= Capacity
      /\ slots \in [Indices -> Node]
      /\ UNCHANGED templateVars
  BY Constants DEF PushFound, Return, IInv, TypeInv
<1>2. left \in InUse /\ slots[left].key = p
  BY <1>1, SameIsInUse DEF Key
<1>3. /\ DOMAIN Levels = {slots[i].key : i \in InUse}
      /\ \A i \in InUse : Levels[slots[i].key] = slots[i].value
      /\ \A i \in InUse : slots[i].key = p => i = left
  BY <1>2, LevelsFacts, KeysDistinct DEF Key, InUse
<1>4. p \in DOMAIN Levels
  BY <1>2, <1>3
<1>5. CASE ~kind.setsFound
  BY <1>1, <1>4, <1>5, QuietLevels DEF PushFound, mapVars
<1>6. CASE kind.setsFound
  <2>1. IInv'
    BY PushFoundKeeps
  <2>2. slots' = [slots EXCEPT ![left].value = q] /\ InUse \subseteq Indices
    BY <1>1, <1>6, FoundSplits DEF PushFound
  <2>3. /\ \A i \in InUse : slots'[i].key = slots[i].key
        /\ \A i \in InUse : i # left => slots'[i].value = slots[i].value
        /\ slots'[left].value = q
    BY <1>1, <1>2, <2>2 DEF Node
  <2>4. /\ DOMAIN more = DOMAIN Levels
        /\ more = [x \in DOMAIN more |-> more[x]]
        /\ more[p] = q /\ \A x \in DOMAIN Levels : x # p => more[x] = Levels[x]
    BY <1>4 DEF WithLevel
  <2>5. 0..size' - 1 = InUse
    BY <1>1 DEF InUse
  <2> HIDE DEF p, q, more
  <2>6. DOMAIN more = {slots'[i].key : i \in 0..size' - 1}
    <3>1. {slots'[i].key : i \in InUse} = {slots[i].key : i \in InUse}
      BY <2>3
    <3> QED BY <1>3, <2>4, <2>5, <3>1
  <2>7. \A i \in InUse : more[slots'[i].key] = slots'[i].value
    BY <1>2, <1>3, <2>3, <2>4
  <2>8. Levels' = more
    BY <2>1, <2>4, <2>5, <2>6, <2>7, LevelsAfter
  <2> QED BY <1>4, <1>6, <2>8 DEF more, p, q
<1> QED BY <1>5, <1>6

LEMMA EraseFoundLevels ==
    ASSUME IInv, EraseFound
    PROVE  /\ update.price \in DOMAIN Levels
           /\ Levels' = WithoutLevel(Levels, update.price)
<1> DEFINE p == update.price
           less == WithoutLevel(Levels, p)
<1>1. /\ Found /\ Same /\ slots' = Closed /\ IInv'
      /\ size \in Nat /\ size <= Capacity /\ Capacity \in Nat
      /\ size' = (size - 1) % SizeModulus
      /\ slots \in [Indices -> Node]
  BY Constants, EraseFoundKeeps DEF EraseFound, IInv, TypeInv
<1>2. left \in Nat /\ left \in InUse /\ slots[left].key = p /\ size > 0 /\ left < size
  BY <1>1, SameIsInUse DEF Key, InUse
<1>3. size' = size - 1
  BY <1>1, <1>2, Constants
<1>4. /\ DOMAIN Levels = {slots[i].key : i \in InUse}
      /\ \A i \in InUse : Levels[slots[i].key] = slots[i].value
      /\ \A i \in InUse : slots[i].key = p => i = left
  BY <1>2, LevelsFacts, KeysDistinct DEF Key, InUse
<1>5. p \in DOMAIN Levels
  BY <1>2, <1>4
<1> DEFINE from(i) == IF left <= i THEN i + 1 ELSE i
<1>6. \A i \in 0..size' - 1 :
         from(i) \in InUse /\ from(i) # left /\ slots'[i] = slots[from(i)]
  BY <1>1, <1>2, <1>3 DEF Closed, Indices, InUse
<1>7. \A j \in InUse : j # left => \E i \in 0..size' - 1 : j = from(i)
  <2> SUFFICES ASSUME NEW j \in InUse, j # left
               PROVE  \E i \in 0..size' - 1 : j = from(i)
    OBVIOUS
  <2>1. CASE j < left
    <3>1. j \in 0..size' - 1 /\ j = from(j)
      BY <1>1, <1>2, <1>3, <2>1 DEF InUse
    <3> QED BY <3>1
  <2>2. CASE ~(j < left)
    <3>1. j - 1 \in 0..size' - 1 /\ j = from(j - 1)
      BY <1>1, <1>2, <1>3, <2>2 DEF InUse
    <3> QED BY <3>1
  <2> QED BY <2>1, <2>2
<1> HIDE DEF from
<1>8. /\ DOMAIN less = DOMAIN Levels \ {p}
      /\ less = [x \in DOMAIN less |-> less[x]]
      /\ \A x \in DOMAIN Levels : x # p => less[x] = Levels[x]
  BY DEF WithoutLevel
<1> HIDE DEF p, less
<1>9. DOMAIN less = {slots'[i].key : i \in 0..size' - 1}
  <2>1. ASSUME NEW x \in DOMAIN less
        PROVE  \E i \in 0..size' - 1 : x = slots'[i].key
    <3>1. PICK j \in InUse : x = slots[j].key
      BY <1>4, <1>8
    <3>2. j # left
      BY <1>2, <1>8, <3>1
    <3>3. PICK i \in 0..size' - 1 : j = from(i)
      BY <1>7, <3>2
    <3> QED BY <1>6, <3>1, <3>3
  <2>2. ASSUME NEW i \in 0..size' - 1
        PROVE  slots'[i].key \in DOMAIN less
    BY <1>4, <1>6, <1>8
  <2> QED BY <2>1, <2>2
<1>10. \A i \in 0..size' - 1 : less[slots'[i].key] = slots'[i].value
  <2> SUFFICES ASSUME NEW i \in 0..size' - 1
               PROVE  less[slots'[i].key] = slots'[i].value
    OBVIOUS
  <2>1. from(i) \in InUse /\ from(i) # left /\ slots'[i] = slots[from(i)]
    BY <1>6
  <2>2. slots[from(i)].key \in DOMAIN Levels /\ slots[from(i)].key # p
    BY <1>4, <2>1
  <2> QED BY <1>4, <1>8, <2>1, <2>2
<1>11. Levels' = less
  BY <1>1, <1>8, <1>9, <1>10, LevelsAfter
<1> QED BY <1>5, <1>11 DEF less, p

\* The slots up to left stay, the price is at left, and the ones behind move
\* up by one; in a full map the last has no slot to move to.
LEMMA PushInsertLevels ==
    ASSUME IInv, PushInsert
    PROVE  Pushed
<1> DEFINE p == update.price
           q == update.quantity
           more == WithLevel(Levels, p, q)
           to(i) == IF left <= i THEN i + 1 ELSE i
<1>1. /\ Found /\ ~Same /\ size' = Grown /\ IInv'
      /\ size \in Nat /\ size <= Capacity /\ Capacity \in Nat /\ Capacity > 0
      /\ slots \in [Indices -> Node]
      /\ UNCHANGED templateVars
  BY Constants, PushInsertKeeps DEF PushInsert, Return, IInv, TypeInv
<1>2. /\ left \in Nat /\ left \in Indices
      /\ left < size \/ (size = 0 /\ left = 0)
      /\ p \in Nat
      /\ \A i \in InUse : Key(i) \in Nat
      /\ \A i \in InUse : i < left => Before(Key(i), p)
  BY <1>1, FoundSplits
<1>3. /\ \A i \in InUse : i >= left => Before(p, Key(i))
      /\ p \notin DOMAIN Levels
  BY <1>1, MissingSplits
<1>4. PICK n \in Nat : n = size'
  BY <1>1 DEF Grown, Full
<1>5. n = (IF size = Capacity THEN size ELSE size + 1) /\ left < n /\ n <= Capacity
  BY <1>1, <1>2, <1>4 DEF Grown, Full, Indices
<1>6. /\ slots'[left].key = p /\ slots'[left].value = q
      /\ \A i \in InUse : to(i) < n => slots'[to(i)] = slots[i]
  <2>1. slots' = [i \in Indices |->
                    IF i = left THEN [key |-> p, value |-> q]
                    ELSE IF left < i /\ i < n THEN slots[i - 1]
                    ELSE slots[i]]
    BY <1>1, <1>4 DEF PushInsert
  <2>2. slots'[left].key = p /\ slots'[left].value = q
    BY <1>2, <2>1
  <2>3. ASSUME NEW i \in InUse, to(i) < n
        PROVE  slots'[to(i)] = slots[i]
    <3>1. i \in Nat /\ to(i) \in Indices
      BY <1>1, <1>5, <2>3 DEF InUse, Indices
    <3>2. CASE left <= i
      BY <1>2, <2>1, <2>3, <3>1, <3>2
    <3>3. CASE ~(left <= i)
      BY <1>2, <2>1, <2>3, <3>1, <3>3
    <3> QED BY <3>2, <3>3
  <2> QED BY <2>2, <2>3
<1>7. /\ \A i \in InUse : to(i) < n => to(i) \in 0..n - 1
      /\ left \in 0..n - 1
      /\ \A j \in 0..n - 1 : j = left \/ \E i \in InUse : j = to(i)
  <2>1. \A i \in InUse : to(i) < n => to(i) \in 0..n - 1
    BY <1>1, <1>2 DEF InUse
  <2>2. ASSUME NEW j \in 0..n - 1, j # left
        PROVE  \E i \in InUse : j = to(i)
    <3>1. CASE j < left
      <4>1. j \in InUse /\ j = to(j)
        BY <1>1, <1>2, <1>5, <3>1 DEF InUse
      <4> QED BY <4>1
    <3>2. CASE ~(j < left)
      <4>1. j - 1 \in InUse /\ j = to(j - 1)
        BY <1>1, <1>2, <1>5, <2>2, <3>2 DEF InUse
      <4> QED BY <4>1
    <3> QED BY <3>1, <3>2
  <2> QED BY <1>2, <1>5, <2>1, <2>2
<1>8. /\ DOMAIN Levels = {slots[i].key : i \in InUse}
      /\ \A i \in InUse : Levels[slots[i].key] = slots[i].value
  BY LevelsFacts DEF Key
<1>9. /\ DOMAIN more = DOMAIN Levels \cup {p}
      /\ more = [x \in DOMAIN more |-> more[x]]
      /\ more[p] = q /\ \A x \in DOMAIN Levels : more[x] = Levels[x]
  BY <1>3 DEF WithLevel
<1> HIDE DEF p, q, more
<1>10. CASE size # Capacity
  <2>1. \A i \in InUse : to(i) < n
    BY <1>1, <1>2, <1>5, <1>10 DEF InUse
  <2> HIDE DEF to
  <2>2. \A i \in InUse : slots[i].key \in DOMAIN Levels /\ slots[i].key # p
    BY <1>3, <1>8 DEF p
  <2>3. DOMAIN more = {slots'[i].key : i \in 0..n - 1}
    <3>1. ASSUME NEW x \in DOMAIN more
          PROVE  \E j \in 0..n - 1 : x = slots'[j].key
      <4>1. CASE x = p
        BY <1>6, <1>7, <4>1
      <4>2. CASE x # p
        <5>1. PICK i \in InUse : x = slots[i].key
          BY <1>8, <1>9, <4>2
        <5> QED BY <1>6, <1>7, <2>1, <5>1
      <4> QED BY <4>1, <4>2
    <3>2. ASSUME NEW j \in 0..n - 1
          PROVE  slots'[j].key \in DOMAIN more
      BY <1>6, <1>7, <1>9, <2>1, <2>2
    <3> QED BY <3>1, <3>2
  <2>4. \A j \in 0..n - 1 : more[slots'[j].key] = slots'[j].value
    <3> SUFFICES ASSUME NEW j \in 0..n - 1
                 PROVE  more[slots'[j].key] = slots'[j].value
      OBVIOUS
    <3>1. CASE j = left
      BY <1>6, <1>9, <3>1
    <3>2. CASE j # left
      <4>1. PICK i \in InUse : j = to(i)
        BY <1>7, <3>2
      <4> QED BY <1>6, <1>8, <1>9, <2>1, <2>2, <4>1
    <3> QED BY <3>1, <3>2
  <2>5. Levels' = more
    BY <1>1, <1>4, <1>9, <2>3, <2>4, LevelsAfter
  <2> QED BY <1>1, <1>3, <1>10, <2>5 DEF Pushed, more, p, q
<1>11. CASE size = Capacity
  <2> DEFINE w == Key(Last)
             rest == WithoutLevel(more, w)
  <2>1. Last \in InUse /\ Last = size - 1 /\ left <= Last
    BY <1>1, <1>2, <1>11 DEF Last, InUse
  <2>2. \A i \in InUse : i # Last => to(i) < n /\ i < Last
    BY <1>1, <1>2, <1>5, <1>11, <2>1 DEF InUse
  <2>3. ~(to(Last) < n)
    BY <1>1, <1>2, <1>5, <1>11, <2>1
  <2>4. w = slots[Last].key /\ w \in DOMAIN Levels
    BY <1>8, <2>1 DEF Key
  <2>5. Before(p, w) /\ p # w
    BY <1>3, <2>1 DEF Before, p
  <2>6. \A i \in InUse : i # Last => Before(slots[i].key, w)
    BY <2>1, <2>2 DEF IInv, Sorted, Before, Key
  <2> HIDE DEF to
  <2>7. \A j \in 0..n - 1 : j # left => \E i \in InUse : i # Last /\ j = to(i)
    <3> SUFFICES ASSUME NEW j \in 0..n - 1, j # left
                 PROVE  \E i \in InUse : i # Last /\ j = to(i)
      OBVIOUS
    <3>1. PICK i \in InUse : j = to(i)
      BY <1>7
    <3>2. j < n
      <4>1. n \in Nat /\ j \in 0..n - 1
        BY <1>4
      <4> QED BY ONLY <4>1
    <3> QED BY <2>3, <3>1, <3>2
  <2> HIDE DEF w
  <2>8. \A x \in DOMAIN more \ {w} : Before(x, w)
    <3> SUFFICES ASSUME NEW x \in DOMAIN more, x # w
                 PROVE  Before(x, w)
      OBVIOUS
    <3>1. CASE x = p
      BY <2>5, <3>1
    <3>2. CASE x # p
      <4>1. PICK i \in InUse : x = slots[i].key
        BY <1>8, <1>9, <3>2
      <4> QED BY <2>4, <2>6, <4>1
    <3> QED BY <3>1, <3>2
  <2>9. /\ DOMAIN rest = DOMAIN more \ {w}
        /\ rest = [x \in DOMAIN rest |-> rest[x]]
        /\ \A x \in DOMAIN more : x # w => rest[x] = more[x]
    BY DEF WithoutLevel
  <2> HIDE DEF rest
  <2>10. \A i \in InUse : i # Last =>
            slots[i].key \in DOMAIN Levels /\ slots[i].key # p /\ slots[i].key # w
    BY <1>3, <1>8, <2>6 DEF p, Before
  <2>11. DOMAIN rest = {slots'[i].key : i \in 0..n - 1}
    <3>1. ASSUME NEW x \in DOMAIN rest
          PROVE  \E j \in 0..n - 1 : x = slots'[j].key
      <4>1. CASE x = p
        BY <1>6, <1>7, <4>1
      <4>2. CASE x # p
        <5>1. PICK i \in InUse : x = slots[i].key
          BY <1>8, <1>9, <2>9, <4>2
        <5>2. i # Last
          BY <2>4, <2>9, <5>1
        <5> QED BY <1>6, <1>7, <2>2, <5>1, <5>2
      <4> QED BY <4>1, <4>2
    <3>2. ASSUME NEW j \in 0..n - 1
          PROVE  slots'[j].key \in DOMAIN rest
      <4>1. CASE j = left
        BY <1>6, <1>9, <2>5, <2>9, <4>1
      <4>2. CASE j # left
        <5>1. PICK i \in InUse : i # Last /\ j = to(i)
          BY <2>7, <4>2
        <5> QED BY <1>6, <1>9, <2>2, <2>9, <2>10, <5>1
      <4> QED BY <4>1, <4>2
    <3> QED BY <3>1, <3>2
  <2>12. \A j \in 0..n - 1 : rest[slots'[j].key] = slots'[j].value
    <3> SUFFICES ASSUME NEW j \in 0..n - 1
                 PROVE  rest[slots'[j].key] = slots'[j].value
      OBVIOUS
    <3>1. CASE j = left
      <4>1. p \in DOMAIN more /\ rest[p] = q
        BY <1>9, <2>5, <2>9
      <4> QED BY <1>6, <3>1, <4>1
    <3>2. CASE j # left
      <4>1. PICK i \in InUse : i # Last /\ j = to(i)
        BY <2>7, <3>2
      <4>2. slots'[j] = slots[i]
        BY <1>6, <2>2, <4>1
      <4> QED BY <1>8, <1>9, <2>9, <2>10, <4>1, <4>2
    <3> QED BY <3>1, <3>2
  <2>13. Levels' = rest
    BY <1>1, <1>4, <2>9, <2>11, <2>12, LevelsAfter
  <2>14. w \in DOMAIN more
    BY <1>9, <2>4
  <2>15. \E worst \in DOMAIN more :
            /\ \A x \in DOMAIN more \ {worst} : Before(x, worst)
            /\ Levels' = WithoutLevel(more, worst)
    BY <2>8, <2>13, <2>14 DEF rest
  <2>16. ~(size < Capacity)
    BY <1>1, <1>11
  <2> QED BY <1>3, <2>15, <2>16 DEF Pushed, more, p, q
<1> QED BY <1>10, <1>11

-----------------------------------------------------------------------------
(* The map implements the bounded book.                                    *)

LEMMA KindsKnown ==
    ASSUME kind \in Kinds, ordering \in kind.orderings
    PROVE  ordering \in {"Ascending", "Descending"} /\ kind.setsFound \in BOOLEAN
<1>1. /\ MarketDepthBook.orderings = {"Ascending", "Descending"}
      /\ MarketDepthBook.setsFound = TRUE
  BY DEF MarketDepthBook
<1>2. /\ StaticSortedFlatMap_WithDeletion.orderings = {"Ascending", "Descending"}
      /\ StaticSortedFlatMap_WithDeletion.setsFound = FALSE
  BY DEF StaticSortedFlatMap_WithDeletion, MarketDepthBook
<1>3. /\ StaticSortedFlatMap.orderings = {"Ascending", "Descending"}
      /\ StaticSortedFlatMap.setsFound = FALSE
  BY <1>2 DEF StaticSortedFlatMap, StaticSortedFlatMap_WithDeletion, MarketDepthBook
<1>4. /\ SortedArray.orderings = {"Ascending"}
      /\ SortedArray.setsFound = FALSE
  BY <1>3 DEF SortedArray, StaticSortedFlatMap, StaticSortedFlatMap_WithDeletion,
              MarketDepthBook
<1>5. kind \in {MarketDepthBook, StaticSortedFlatMap_WithDeletion,
               StaticSortedFlatMap, SortedArray}
  BY DepthBookAssumption
<1> QED BY <1>1, <1>2, <1>3, <1>4, <1>5

LEMMA BetterIsBefore ==
    ASSUME TypeInv, NEW a \in Nat, NEW b \in Nat
    PROVE  /\ Bounded!Better(a, b) <=> Before(a, b)
           /\ ~Before(a, a)
           /\ ~(Before(a, b) /\ Before(b, a))
<1>1. ordering \in {"Ascending", "Descending"}
  BY KindsKnown DEF TypeInv
<1> QED BY <1>1 DEF Bounded!Better, Before, Compare

\* The two modules count alike.
LEMMA SameCardinality ==
    ASSUME NEW S
    PROVE  Bounded!Cardinality(S) = Cardinality(S)
BY DEF Bounded!Cardinality, Cardinality

\* What is better than a price is among the others.
LEMMA RankIsBefore ==
    ASSUME TypeInv, NEW m, DOMAIN m \subseteq Nat, IsFiniteSet(DOMAIN m),
           NEW p \in DOMAIN m
    PROVE  /\ Bounded!Rank(p, m) = Cardinality({q \in DOMAIN m : Before(q, p)})
           /\ {q \in DOMAIN m : Before(q, p)} \subseteq DOMAIN m \ {p}
           /\ IsFiniteSet({q \in DOMAIN m : Before(q, p)})
           /\ Bounded!Rank(p, m) \in Nat
<1>1. \A q \in DOMAIN m : Bounded!Better(q, p) <=> Before(q, p)
  BY BetterIsBefore
<1>2. {q \in DOMAIN m : Bounded!Better(q, p)} = {q \in DOMAIN m : Before(q, p)}
  BY <1>1
<1>3. Bounded!Rank(p, m) = Cardinality({q \in DOMAIN m : Before(q, p)})
  BY <1>2, SameCardinality DEF Bounded!Rank
<1>4. {q \in DOMAIN m : Before(q, p)} \subseteq DOMAIN m \ {p}
  BY BetterIsBefore
<1>5. IsFiniteSet({q \in DOMAIN m : Before(q, p)})
  BY FS_Subset
<1> QED BY <1>3, <1>4, <1>5, FS_CardinalityType

\* Where there is room, nothing is dropped.
LEMMA AllKept ==
    ASSUME TypeInv, NEW m, m = [p \in DOMAIN m |-> m[p]],
           DOMAIN m \subseteq Nat, IsFiniteSet(DOMAIN m),
           Cardinality(DOMAIN m) <= Capacity
    PROVE  Bounded!Bounded(m) = m
<1>1. ASSUME NEW p \in DOMAIN m
      PROVE  Bounded!Rank(p, m) < Capacity
  <2>1. /\ Cardinality(DOMAIN m) \in Nat
        /\ IsFiniteSet(DOMAIN m \ {p})
        /\ Cardinality(DOMAIN m \ {p}) = Cardinality(DOMAIN m) - 1
        /\ Cardinality(DOMAIN m \ {p}) \in Nat
    <3> DEFINE D == DOMAIN m
    <3>1. IsFiniteSet(D) /\ p \in D
      OBVIOUS
    <3> HIDE DEF D
    <3>2. /\ IsFiniteSet(D \ {p}) /\ Cardinality(D) \in Nat
          /\ Cardinality(D \ {p}) = Cardinality(D) - 1
          /\ Cardinality(D \ {p}) \in Nat
      BY <3>1, FS_CardinalityType, FS_RemoveElement
    <3> QED BY <3>2 DEF D
  <2>2. Cardinality({q \in DOMAIN m : Before(q, p)}) <= Cardinality(DOMAIN m \ {p})
    BY <2>1, RankIsBefore, FS_Subset
  <2> QED BY <2>1, <2>2, RankIsBefore, Constants
<1>2. {p \in DOMAIN m : Bounded!Rank(p, m) < Capacity} = DOMAIN m
  BY <1>1
<1> QED BY <1>2 DEF Bounded!Bounded

LEMMA OneLess ==
    ASSUME NEW S, IsFiniteSet(S), NEW n \in Nat, Cardinality(S) = n + 1, NEW x \in S
    PROVE  IsFiniteSet(S \ {x}) /\ Cardinality(S \ {x}) = n
<1>1. IsFiniteSet(S \ {x}) /\ Cardinality(S \ {x}) = Cardinality(S) - 1
  BY FS_RemoveElement
<1> QED BY <1>1

\* With one level too many, the worst of them is the one dropped.
LEMMA WorstDropped ==
    ASSUME TypeInv, NEW m, DOMAIN m \subseteq Nat, IsFiniteSet(DOMAIN m),
           Cardinality(DOMAIN m) = Capacity + 1,
           NEW w \in DOMAIN m, \A p \in DOMAIN m \ {w} : Before(p, w)
    PROVE  Bounded!Bounded(m) = WithoutLevel(m, w)
<1>1. /\ IsFiniteSet(DOMAIN m \ {w})
      /\ Cardinality(DOMAIN m \ {w}) = Capacity
  <2>1. Capacity \in Nat
    BY Constants
  <2> QED BY ONLY <2>1, OneLess, IsFiniteSet(DOMAIN m),
               Cardinality(DOMAIN m) = Capacity + 1, w \in DOMAIN m
<1>2. ~(Bounded!Rank(w, m) < Capacity)
  <2>1. {q \in DOMAIN m : Before(q, w)} = DOMAIN m \ {w}
    BY RankIsBefore
  <2> QED BY <1>1, <2>1, RankIsBefore, Constants
<1>3. ASSUME NEW p \in DOMAIN m, p # w
      PROVE  Bounded!Rank(p, m) < Capacity
  <2> DEFINE better == {q \in DOMAIN m : Before(q, p)}
             others == (DOMAIN m \ {w}) \ {p}
  <2>1. IsFiniteSet(others) /\ Cardinality(others) = Capacity - 1
    BY <1>1, <1>3, FS_RemoveElement
  <2>2. w \notin better
    BY <1>3, BetterIsBefore
  <2>3. better \subseteq others
    BY <2>2, RankIsBefore
  <2>4. Cardinality(better) <= Cardinality(others)
    BY <2>1, <2>3, FS_Subset
  <2>5. Bounded!Rank(p, m) = Cardinality(better) /\ Bounded!Rank(p, m) \in Nat
    BY RankIsBefore
  <2> HIDE DEF better, others
  <2> QED BY <2>1, <2>4, <2>5, Constants
<1>4. {p \in DOMAIN m : Bounded!Rank(p, m) < Capacity} = DOMAIN m \ {w}
  BY <1>2, <1>3
<1> QED BY <1>4 DEF Bounded!Bounded, WithoutLevel

LEMMA InitRefines == Init => Bounded!Init
<1> SUFFICES ASSUME Init PROVE Bounded!Init
  OBVIOUS
<1>1. ordering \in {"Ascending", "Descending"} /\ kind.setsFound \in BOOLEAN
  BY KindsKnown DEF Init
<1>2. InUse = {}
  BY DEF Init, InUse
<1>3. Levels = [p \in {} |-> 0]
  BY <1>2 DEF Levels
<1> QED BY <1>1, <1>3 DEF Bounded!Init

\* A step that leaves the map alone is one the book does not see.
LEMMA QuietRefines ==
    ASSUME UNCHANGED templateVars, Levels' = Levels
    PROVE  UNCHANGED Bounded!vars
BY DEF Bounded!vars, templateVars

\* A push is a Set: what is dropped is what the book drops.
LEMMA PushRefines ==
    ASSUME IInv, Push
    PROVE  Bounded!Next
<1> DEFINE p == update.price
           q == update.quantity
           more == WithLevel(Levels, p, q)
<1>1. /\ UNCHANGED templateVars /\ Busy /\ ~Erasing
      /\ size \in Nat /\ size <= Capacity /\ Capacity \in Nat
      /\ TypeInv
  BY Constants DEF Push, PushBack, PushFound, PushInsert, Found, Return, Busy, IInv, TypeInv
<1>2. p \in Prices /\ p \in Nat /\ q \in Quantities \ {0}
  BY <1>1, Constants DEF IInv, CallInv, Erasing
<1>3. UNCHANGED <<IF ordering = "Ascending" THEN "lowest" ELSE "highest", ~kind.setsFound>>
  BY <1>1 DEF templateVars
<1>4. /\ IsFiniteSet(DOMAIN Levels) /\ Cardinality(DOMAIN Levels) = size
      /\ DOMAIN Levels \subseteq Nat
      /\ Levels = [x \in DOMAIN Levels |-> Levels[x]]
  BY LevelsFacts
<1>5. /\ DOMAIN more = DOMAIN Levels \cup {p}
      /\ more = [x \in DOMAIN more |-> more[x]]
  BY DEF WithLevel
<1>6. more = [x \in DOMAIN Levels \cup {p} |-> IF x = p THEN q ELSE Levels[x]]
  BY DEF WithLevel
<1> HIDE DEF p, q, more
<1>7. IsFiniteSet(DOMAIN more) /\ DOMAIN more \subseteq Nat
      /\ Cardinality(DOMAIN more) = IF p \in DOMAIN Levels THEN size ELSE size + 1
  BY <1>2, <1>4, <1>5, FS_AddElement
<1>8. Levels' = IF p \in DOMAIN Levels /\ ~kind.setsFound THEN Levels
                ELSE Bounded!Bounded(more)
  <2>1. CASE PushFound
    <3>1. p \in DOMAIN Levels
          /\ Levels' = IF kind.setsFound THEN more ELSE Levels
      BY <2>1, PushFoundLevels DEF p, q, more
    <3>2. Bounded!Bounded(more) = more
      BY <1>1, <1>5, <1>7, <3>1, AllKept
    <3> QED BY <3>1, <3>2
  <2>2. CASE PushBack \/ PushInsert
    <3>1. Pushed
      BY <2>2, PushBackLevels, PushInsertLevels
    <3>2. p \notin DOMAIN Levels
      BY <3>1 DEF Pushed, p
    <3>3. CASE size < Capacity
      <4>1. Levels' = more
        BY <3>1, <3>3 DEF Pushed, p, q, more
      <4>2. Bounded!Bounded(more) = more
        BY <1>1, <1>5, <1>7, <3>2, <3>3, AllKept
      <4> QED BY <3>2, <4>1, <4>2
    <3>4. CASE size = Capacity
      <4>1. PICK w \in DOMAIN more :
                /\ \A x \in DOMAIN more \ {w} : Before(x, w)
                /\ Levels' = WithoutLevel(more, w)
        BY <3>1, <3>4 DEF Pushed, p, q, more
      <4>2. Bounded!Bounded(more) = WithoutLevel(more, w)
        BY <1>1, <1>7, <3>2, <3>4, <4>1, WorstDropped
      <4> QED BY <3>2, <4>1, <4>2
    <3> QED BY <1>1, <3>3, <3>4
  <2> QED BY <2>1, <2>2 DEF Push
<1>9. Bounded!Set(p, q)
  BY <1>3, <1>6, <1>8 DEF Bounded!Set
<1> QED BY <1>2, <1>9 DEF Bounded!Next

\* An erase is a Remove, also of a price that is not there.
LEMMA EraseRefines ==
    ASSUME IInv, Erase
    PROVE  Bounded!Next
<1> DEFINE p == update.price
<1>1. /\ UNCHANGED templateVars /\ Busy
      /\ Levels = [x \in DOMAIN Levels |-> Levels[x]]
  BY LevelsFacts DEF Erase, EraseOutOfRange, EraseFound, EraseMissing, Found, Return, Busy
<1>2. p \in Prices
  BY <1>1 DEF IInv, CallInv
<1>3. UNCHANGED <<IF ordering = "Ascending" THEN "lowest" ELSE "highest", ~kind.setsFound>>
  BY <1>1 DEF templateVars
<1>4. Levels' = [x \in DOMAIN Levels \ {p} |-> Levels[x]]
  <2>1. CASE EraseFound
    BY <2>1, EraseFoundLevels DEF WithoutLevel
  <2>2. CASE EraseOutOfRange \/ EraseMissing
    <3>1. p \notin DOMAIN Levels
      BY <1>1, <2>2, OutOfRangeLevels, MissingSplits DEF EraseOutOfRange, EraseMissing
    <3>2. Levels' = Levels
      BY <1>1, <2>2, QuietLevels DEF EraseOutOfRange, EraseMissing
    <3>3. DOMAIN Levels \ {p} = DOMAIN Levels
      BY <3>1
    <3> QED BY <1>1, <3>2, <3>3
  <2> QED BY <2>1, <2>2 DEF Erase
<1> HIDE DEF p
<1>5. Bounded!Remove(p)
  BY <1>3, <1>4 DEF Bounded!Remove
<1> QED BY <1>2, <1>5 DEF Bounded!Next

LEMMA NextRefines ==
    ASSUME IInv, [Next]_vars
    PROVE  [Bounded!Next]_(Bounded!vars)
<1>1. CASE \E price \in Prices, quantity \in Quantities : HandlePriceUpdate(price, quantity)
  BY <1>1, QuietLevels, QuietRefines DEF HandlePriceUpdate, templateVars, mapVars
<1>2. CASE FindInsertIndex
  BY <1>2, QuietLevels, QuietRefines
  DEF FindInsertIndex, StartSearch, Search, templateVars, mapVars
<1>3. CASE UNCHANGED vars
  BY <1>3, QuietLevels, QuietRefines DEF vars, templateVars, mapVars
<1> QED BY <1>1, <1>2, <1>3, PushRefines, EraseRefines DEF Next

\* FlatMap's array, searched and shifted a step at a time, is to its callers a
\* map that takes every update and keeps the best Capacity levels of what it
\* then has: push drops no level but the worst, and none while there is room;
\* erase takes out the price it is given and no other.
THEOREM DepthKeepsTheBest ==
    ASSUME ~EmptiesSide
    PROVE  Spec => ImplementsBoundedBook
<1>1. IInv /\ [Next]_vars => IInv'
  BY NextKeeps
<1>2. IInv /\ [Next]_vars => [Bounded!Next]_(Bounded!vars)
  BY NextRefines
<1> QED
  BY <1>1, <1>2, InitIInv, InitRefines, PTL DEF Spec, ImplementsBoundedBook, Bounded!Spec

-----------------------------------------------------------------------------
(* The map follows the feed.                                               *)

\* What the call under way has still to do: everywhere but at its price the
\* map is to the feed what it is when no call is made.
CallFollows ==
    LET price == update.price
        quantity == update.quantity
        others == DOMAIN Levels \ {price}
    IN /\ others \subseteq DOMAIN feed
       /\ Erasing <=> price \notin DOMAIN feed
       /\ kind.setsFound =>
             /\ \A p \in others : Levels[p] = feed[p]
             /\ ~Erasing => feed[price] = quantity
       /\ ~crowded =>
             /\ ~(Cardinality(DOMAIN feed) > Capacity)
             /\ DOMAIN feed \ {price} = others
             /\ \A p \in others : Levels[p] = feed[p]
             /\ ~Erasing =>
                   feed[price] = IF price \in DOMAIN Levels /\ ~kind.setsFound
                                 THEN Levels[price] ELSE quantity

FeedInv ==
    /\ feed = [p \in DOMAIN feed |-> feed[p]]
    /\ FollowsFeed
    /\ Busy => CallFollows

LEMMA InitFeedInv == Init => FeedInv
<1> SUFFICES ASSUME Init PROVE FeedInv
  OBVIOUS
<1>1. InUse = {} /\ feed = [p \in {} |-> 0]
  BY DEF Init, InUse
<1>2. Levels = [p \in {} |-> 0]
  BY <1>1 DEF Levels
<1>3. step = "idle"
  BY DEF Init
<1> QED BY <1>1, <1>2, <1>3 DEF FeedInv, FollowsFeed, Busy

LEMMA CallKeepsFeed ==
    ASSUME IInv, FeedInv,
           NEW price \in Prices, NEW quantity \in Quantities,
           HandlePriceUpdate(price, quantity)
    PROVE  FeedInv'
<1>1. /\ step = "idle" /\ step' = "called" /\ kind' = kind
      /\ update' = [price |-> price, quantity |-> quantity]
      /\ feed' = Fed(price, quantity)
      /\ crowded' = (crowded \/ Cardinality(DOMAIN feed') > Capacity)
      /\ kind.setsFound \in BOOLEAN /\ crowded \in BOOLEAN
  BY KindsKnown, Constants DEF HandlePriceUpdate, IInv, TypeInv, templateVars
<1>2. Levels' = Levels
  BY QuietLevels DEF HandlePriceUpdate
<1>3. /\ feed = [p \in DOMAIN feed |-> feed[p]]
      /\ DOMAIN Levels \subseteq DOMAIN feed
      /\ kind.setsFound => \A p \in DOMAIN Levels : Levels[p] = feed[p]
      /\ ~crowded => Levels = feed
  BY <1>1 DEF FeedInv, FollowsFeed
<1>4. /\ feed' = [p \in DOMAIN feed' |-> feed'[p]]
      /\ \A p \in DOMAIN feed \ {price} : p \in DOMAIN feed' /\ feed'[p] = feed[p]
      /\ DOMAIN feed' \ {price} = DOMAIN feed \ {price}
      /\ quantity = 0 <=> price \notin DOMAIN feed'
      /\ quantity # 0 => feed'[price] = IF price \in DOMAIN feed /\ ~kind.setsFound
                                        THEN feed[price] ELSE quantity
  <2>1. CASE quantity = 0
    <3>1. feed' = [p \in DOMAIN feed \ {price} |-> feed[p]]
      BY <1>1, <2>1 DEF Fed
    <3> QED BY <2>1, <3>1
  <2>2. CASE quantity # 0 /\ price \in DOMAIN feed /\ ~kind.setsFound
    <3>1. feed' = feed
      BY <1>1, <2>2 DEF Fed
    <3> QED BY <1>3, <2>2, <3>1
  <2>3. CASE quantity # 0 /\ ~(price \in DOMAIN feed /\ ~kind.setsFound)
    <3>1. feed' = [p \in DOMAIN feed \cup {price} |->
                      IF p = price THEN quantity ELSE feed[p]]
      BY <1>1, <2>3 DEF Fed
    <3> QED BY <2>3, <3>1
  <2> QED BY <2>1, <2>2, <2>3
<1>5. update'.price = price /\ update'.quantity = quantity
  BY <1>1
<1>6. CallFollows'
  <2>1. DOMAIN Levels \ {price} \subseteq DOMAIN feed'
    BY <1>3, <1>4
  <2>2. kind.setsFound =>
             /\ \A p \in DOMAIN Levels \ {price} : Levels[p] = feed'[p]
             /\ quantity # 0 => feed'[price] = quantity
    BY <1>3, <1>4
  <2>3. ASSUME ~crowded'
        PROVE  /\ ~(Cardinality(DOMAIN feed') > Capacity)
               /\ DOMAIN feed' \ {price} = DOMAIN Levels \ {price}
               /\ \A p \in DOMAIN Levels \ {price} : Levels[p] = feed'[p]
               /\ quantity # 0 =>
                     feed'[price] = IF price \in DOMAIN Levels /\ ~kind.setsFound
                                    THEN Levels[price] ELSE quantity
    <3>1. ~crowded /\ ~(Cardinality(DOMAIN feed') > Capacity)
      BY <1>1, <2>3
    <3>2. Levels = feed
      BY <1>3, <3>1
    <3> QED BY <1>4, <3>1, <3>2
  <2> QED BY <1>1, <1>2, <1>4, <1>5, <2>1, <2>2, <2>3 DEF CallFollows, Erasing
<1>7. FollowsFeed'
  BY <1>1 DEF FollowsFeed
<1> QED BY <1>4, <1>6, <1>7 DEF FeedInv

\* The search is between the call and its end.
LEMMA SearchKeepsFeed ==
    ASSUME IInv, FeedInv, FindInsertIndex
    PROVE  FeedInv'
<1>1. /\ Busy /\ step' = "searching" /\ kind' = kind
      /\ update' = update /\ feed' = feed /\ crowded' = crowded
      /\ Levels' = Levels
  BY QuietLevels DEF FindInsertIndex, StartSearch, Search, Busy, templateVars, feedVars
<1>2. CallFollows'
  BY <1>1 DEF FeedInv, CallFollows, Erasing
<1> QED BY <1>1, <1>2 DEF FeedInv, FollowsFeed

LEMMA PushKeepsFeed ==
    ASSUME IInv, FeedInv, Push
    PROVE  FeedInv'
<1> DEFINE p == update.price
           q == update.quantity
           more == WithLevel(Levels, p, q)
           others == DOMAIN Levels \ {p}
<1>1. /\ Busy /\ ~Erasing /\ step' = "idle" /\ kind' = kind
      /\ feed' = feed /\ crowded' = crowded
      /\ size \in Nat /\ size <= Capacity /\ Capacity \in Nat
  BY Constants DEF Push, PushBack, PushFound, PushInsert, Found, Return, Busy,
                   IInv, TypeInv, templateVars, feedVars
<1>2. /\ others \subseteq DOMAIN feed /\ p \in DOMAIN feed
      /\ kind.setsFound => (\A x \in others : Levels[x] = feed[x]) /\ feed[p] = q
      /\ ~crowded =>
            /\ ~(Cardinality(DOMAIN feed) > Capacity)
            /\ DOMAIN feed \ {p} = others
            /\ \A x \in others : Levels[x] = feed[x]
            /\ feed[p] = IF p \in DOMAIN Levels /\ ~kind.setsFound THEN Levels[p] ELSE q
  BY <1>1 DEF FeedInv, CallFollows
<1>3. /\ IsFiniteSet(DOMAIN Levels) /\ Cardinality(DOMAIN Levels) = size
      /\ Levels = [x \in DOMAIN Levels |-> Levels[x]]
      /\ feed = [x \in DOMAIN feed |-> feed[x]]
  BY LevelsFacts DEF FeedInv
<1>4. /\ DOMAIN more = others \cup {p}
      /\ more = [x \in DOMAIN more |-> more[x]]
      /\ more[p] = q /\ \A x \in others : more[x] = Levels[x]
  BY DEF WithLevel
<1> HIDE DEF p, q, more, others
<1>5. CASE PushFound
  <2>1. p \in DOMAIN Levels /\ Levels' = IF kind.setsFound THEN more ELSE Levels
    BY <1>5, PushFoundLevels DEF p, q, more
  <2>2. DOMAIN Levels = others \cup {p}
    BY <2>1 DEF others
  <2>3. CASE kind.setsFound
    <3>1. Levels' = more
      BY <2>1, <2>3
    <3>2. DOMAIN Levels' \subseteq DOMAIN feed
          /\ \A x \in DOMAIN Levels' : Levels'[x] = feed[x]
      BY <1>2, <1>4, <2>3, <3>1
    <3>3. ~crowded => DOMAIN feed = DOMAIN Levels'
      BY <1>2, <1>4, <3>1
    <3>4. ~crowded => Levels' = feed
      BY <1>3, <1>4, <3>1, <3>2, <3>3
    <3> QED BY <1>1, <1>3, <3>2, <3>4 DEF FeedInv, FollowsFeed, Busy
  <2>4. CASE ~kind.setsFound
    <3>1. Levels' = Levels
      BY <2>1, <2>4
    <3>2. DOMAIN Levels' \subseteq DOMAIN feed
      BY <1>2, <2>2, <3>1
    <3>3. ~crowded => DOMAIN feed = DOMAIN Levels /\ \A x \in DOMAIN Levels : Levels[x] = feed[x]
      BY <1>2, <2>1, <2>2, <2>4
    <3>4. ~crowded => Levels' = feed
      BY <1>3, <3>1, <3>3
    <3> QED BY <1>1, <1>3, <2>4, <3>2, <3>4 DEF FeedInv, FollowsFeed, Busy
  <2> QED BY <2>3, <2>4
<1>6. CASE PushBack \/ PushInsert
  <2>1. Pushed
    BY <1>6, PushBackLevels, PushInsertLevels
  <2>2. p \notin DOMAIN Levels /\ others = DOMAIN Levels
    BY <2>1 DEF Pushed, p, others
  <2>3. /\ DOMAIN more \subseteq DOMAIN feed
        /\ kind.setsFound => \A x \in DOMAIN more : more[x] = feed[x]
    BY <1>2, <1>4
  <2>4. CASE size < Capacity
    <3>1. Levels' = more
      BY <2>1, <2>4 DEF Pushed, p, q, more
    <3>2. ~crowded => DOMAIN feed = DOMAIN more /\ \A x \in DOMAIN more : more[x] = feed[x]
      BY <1>2, <1>4, <2>2
    <3>3. ~crowded => more = feed
      BY <1>3, <1>4, <3>2
    <3> QED BY <1>1, <1>3, <2>3, <3>1, <3>3 DEF FeedInv, FollowsFeed, Busy
  <2>5. CASE size = Capacity
    <3>1. PICK w \in DOMAIN more : Levels' = WithoutLevel(more, w)
      BY <2>1, <2>5 DEF Pushed, p, q, more
    <3>2. /\ DOMAIN Levels' \subseteq DOMAIN more
          /\ \A x \in DOMAIN Levels' : Levels'[x] = more[x]
      BY <3>1 DEF WithoutLevel
    <3>3. crowded
      <4> SUFFICES ASSUME ~crowded PROVE FALSE
        OBVIOUS
      <4>1. DOMAIN feed = DOMAIN Levels \cup {p}
        BY <1>2, <2>2
      <4>2. Cardinality(DOMAIN feed) = Capacity + 1
        BY <1>3, <2>2, <2>5, <4>1, FS_AddElement
      <4> QED BY <1>1, <1>2, <4>2
    <3>4. DOMAIN Levels' \subseteq DOMAIN feed
          /\ (kind.setsFound => \A x \in DOMAIN Levels' : Levels'[x] = feed[x])
      BY <2>3, <3>2
    <3> QED BY <1>1, <1>3, <3>3, <3>4 DEF FeedInv, FollowsFeed, Busy
  <2> QED BY <1>1, <2>4, <2>5
<1> QED BY <1>5, <1>6 DEF Push

LEMMA EraseKeepsFeed ==
    ASSUME IInv, FeedInv, Erase
    PROVE  FeedInv'
<1> DEFINE p == update.price
           others == DOMAIN Levels \ {p}
<1>1. /\ Busy /\ Erasing /\ step' = "idle" /\ kind' = kind
      /\ feed' = feed /\ crowded' = crowded /\ UNCHANGED templateVars
  BY DEF Erase, EraseOutOfRange, EraseFound, EraseMissing, Found, Return, Busy,
         templateVars, feedVars
<1>2. /\ others \subseteq DOMAIN feed /\ p \notin DOMAIN feed
      /\ kind.setsFound => \A x \in others : Levels[x] = feed[x]
      /\ ~crowded => /\ DOMAIN feed \ {p} = others
                     /\ \A x \in others : Levels[x] = feed[x]
  BY <1>1 DEF FeedInv, CallFollows
<1>3. /\ Levels = [x \in DOMAIN Levels |-> Levels[x]]
      /\ feed = [x \in DOMAIN feed |-> feed[x]]
  BY LevelsFacts DEF FeedInv
<1>4. Levels' = [x \in others |-> Levels[x]]
  <2>1. CASE EraseFound
    BY <2>1, EraseFoundLevels DEF WithoutLevel
  <2>2. CASE EraseOutOfRange \/ EraseMissing
    <3>1. p \notin DOMAIN Levels
      BY <1>1, <2>2, OutOfRangeLevels, MissingSplits DEF EraseOutOfRange, EraseMissing
    <3>2. Levels' = Levels
      BY <1>1, <2>2, QuietLevels DEF EraseOutOfRange, EraseMissing
    <3>3. others = DOMAIN Levels
      BY <3>1
    <3> QED BY <1>3, <3>2, <3>3
  <2> QED BY <2>1, <2>2 DEF Erase
<1> HIDE DEF p, others
<1>5. DOMAIN Levels' = others /\ \A x \in others : Levels'[x] = Levels[x]
  BY <1>4
<1>6. ~crowded => DOMAIN feed = others /\ \A x \in others : Levels[x] = feed[x]
  BY <1>2
<1>7. ~crowded => Levels' = feed
  BY <1>3, <1>4, <1>6
<1> QED BY <1>1, <1>2, <1>3, <1>5, <1>7 DEF FeedInv, FollowsFeed, Busy

LEMMA NextKeepsFeed ==
    ASSUME IInv, FeedInv, [Next]_vars
    PROVE  FeedInv'
<1>1. CASE UNCHANGED vars
  <2>1. UNCHANGED <<kind, ordering, slots, size, step, update, left, right, feed, crowded>>
    BY <1>1 DEF vars, templateVars, mapVars, callVars, feedVars
  <2>2. Levels' = Levels
    BY <2>1, QuietLevels DEF templateVars, mapVars
  <2> QED BY <2>1, <2>2 DEF FeedInv, FollowsFeed, Busy, CallFollows, Erasing
<1> QED
  BY <1>1, CallKeepsFeed, SearchKeepsFeed, PushKeepsFeed, EraseKeepsFeed DEF Next

\* Whenever handlePriceUpdate is not running, no level of the book is stale: it
\* is one the feed has, a MarketDepthBook shows the feed's own quantity at it,
\* and as long as the feed never had more levels than the array has slots the
\* book is the feed.
THEOREM DepthFollowsFeed ==
    ASSUME ~EmptiesSide
    PROVE  Spec => []FollowsFeed
<1>1. IInv /\ [Next]_vars => IInv'
  BY NextKeeps
<1>2. IInv /\ FeedInv /\ [Next]_vars => FeedInv'
  BY NextKeepsFeed
<1>3. FeedInv => FollowsFeed
  BY DEF FeedInv
<1> QED
  BY <1>1, <1>2, <1>3, InitIInv, InitFeedInv, PTL DEF Spec

-----------------------------------------------------------------------------
(* What holds of the constants, and arithmetic of volumes that wrap.       *)

LEMMA LadderConstants ==
    /\ IsFiniteSet(Memory) /\ Null \notin Memory /\ Null \notin PriceTicks
    /\ MinPrice \in Nat \ {0} /\ MaxPrice \in Nat /\ MinPrice <= MaxPrice
    /\ VolumeModulus \in Nat \ {0} /\ Volumes \subseteq 0..VolumeModulus - 1
BY PriceLadderAssumption

LEMMA MultipleWithin ==
    ASSUME NEW m \in Nat \ {0}, NEW d \in Int, -m < m * d, m * d < m
    PROVE  d = 0
<1>1. m * d = d * m /\ 1 * m = m /\ (-1) * m = -m /\ d * m \in Int
  OBVIOUS
<1>2. ~ 1 <= d
  <2> SUFFICES ASSUME 1 <= d PROVE FALSE
    OBVIOUS
  <2>1. 1 * m <= d * m
    BY TimesMonotone
  <2> QED BY <1>1, <2>1
<1>3. ~ d <= -1
  <2> SUFFICES ASSUME d <= -1 PROVE FALSE
    OBVIOUS
  <2>1. d * m <= (-1) * m
    BY TimesMonotone
  <2> QED BY <1>1, <2>1
<1> QED BY <1>2, <1>3

LEMMA Euclid ==
    ASSUME NEW m \in Nat \ {0}, NEW x \in Int
    PROVE  \E q \in Int : x % m \in 0..m - 1 /\ x = m * q + (x % m)
<1>1. x % m \in 0..m - 1 /\ x \div m \in Int /\ x = m * (x \div m) + (x % m)
  OBVIOUS
<1> QED BY <1>1

\* What was taken modulo m may be added to before or after.
LEMMA WrapAdds ==
    ASSUME NEW m \in Nat \ {0}, NEW x \in Int, NEW v \in Int
    PROVE  ((x % m) + v) % m = (x + v) % m
<1>1. PICK a \in Int : x % m \in 0..m - 1 /\ x = m * a + (x % m)
  BY Euclid
<1>2. PICK y : y = (x % m) + v
  OBVIOUS
<1>3. PICK z : z = x + v
  OBVIOUS
<1>4. x % m \in Int /\ y \in Int /\ z \in Int
  BY <1>1, <1>2, <1>3
<1>5. PICK b \in Int : y % m \in 0..m - 1 /\ y = m * b + (y % m)
  BY <1>4, Euclid
<1>6. PICK c \in Int : z % m \in 0..m - 1 /\ z = m * c + (z % m)
  BY <1>4, Euclid
<1>7. m * (a + b - c) = m * a + m * b - m * c /\ a + b - c \in Int
  OBVIOUS
<1>8. m * (a + b - c) = (z % m) - (y % m)
  <2>1. PICK p, q, r \in Int : p = m * a /\ q = m * b /\ r = m * c
    OBVIOUS
  <2>2. PICK k, n \in 0..m - 1 : k = y % m /\ n = z % m
    BY <1>5, <1>6
  <2>3. PICK u \in Int : u = x % m
    BY <1>4
  <2>4. x = p + u /\ y = u + v /\ z = x + v /\ y = q + k /\ z = r + n
    BY <1>1, <1>2, <1>3, <1>5, <1>6, <2>1, <2>2, <2>3
  <2>5. p + q - r = n - k
    BY <1>4, <2>4
  <2> QED BY <1>7, <2>1, <2>2, <2>5
<1>9. a + b - c = 0
  <2>1. -m < m * (a + b - c) /\ m * (a + b - c) < m
    <3>1. PICK k, n \in 0..m - 1 : k = y % m /\ n = z % m
      BY <1>5, <1>6
    <3>2. m * (a + b - c) = n - k
      BY <1>8, <3>1
    <3>3. -m < n - k /\ n - k < m
      OBVIOUS
    <3> QED BY <3>2, <3>3
  <2>2. PICK d \in Int : d = a + b - c
    BY <1>7
  <2> QED BY <2>1, <2>2, MultipleWithin
<1>10. z % m = y % m
  <2>1. m * 0 = 0
    OBVIOUS
  <2>2. (z % m) - (y % m) = 0
    BY <1>8, <1>9, <2>1
  <2> QED BY <1>5, <1>6, <2>2
<1> QED BY <1>2, <1>3, <1>10

-----------------------------------------------------------------------------
(* The list of a level as a sequence of places.                            *)

\* The links of a level lead through the places of s, which are the places of
\* all orders with that level.
Chained(at, level, price, s) ==
    /\ s \in Seq(Memory)
    /\ \A i, j \in 1..Len(s) : s[i] = s[j] => i = j
    /\ \A i \in 1..Len(s) :
           /\ at[s[i]].level = price
           /\ at[s[i]].prev = (IF i = 1 THEN Null ELSE s[i - 1])
           /\ at[s[i]].next = (IF i = Len(s) THEN Null ELSE s[i + 1])
    /\ \A order \in Memory : at[order].level = price => \E i \in 1..Len(s) : order = s[i]
    /\ level.head = (IF Len(s) = 0 THEN Null ELSE s[1])
    /\ level.tail = (IF Len(s) = 0 THEN Null ELSE s[Len(s)])

Chains == \A price \in PriceTicks : \E s : Chained(orders, levels[price], price, s)

\* The orders with a level, and their volumes.
AtLevel(at, price) == {order \in Memory : at[order].level = price}

VolumesOf(at, price) == [order \in AtLevel(at, price) |-> at[order].volume]

TotalIs(at, all, price) ==
    all[price].totalVolume = SumFunction(VolumesOf(at, price)) % VolumeModulus

Totals == \A price \in PriceTicks : TotalIs(orders, levels, price)

LadderInv == LadderTypeOK /\ Chains /\ Totals /\ IndexAgrees

\* The order at a place, with its links.
Linked == [orderId : OrderIds \cup {Null}, side : Sides \cup {Null},
           volume : Volumes \cup {0}, prev : Memory \cup {Null},
           next : Memory \cup {Null}, level : PriceTicks \cup {Null}]

LEMMA LadderTypes ==
    ASSUME LadderTypeOK
    PROVE  /\ orders \in [Memory -> Linked]
           /\ levels \in [PriceTicks -> [head : Memory \cup {Null}, tail : Memory \cup {Null},
                                         totalVolume : 0..VolumeModulus - 1]]
BY DEF LadderTypeOK, Linked

\* A list is what it was if its own orders are and none has joined.
LEMMA ChainStays ==
    ASSUME NEW at, NEW after, NEW level, NEW price, NEW s, Chained(at, level, price, s),
           \A i \in 1..Len(s) : after[s[i]].level = at[s[i]].level
                                /\ after[s[i]].prev = at[s[i]].prev
                                /\ after[s[i]].next = at[s[i]].next,
           \A order \in Memory : after[order].level = price => at[order].level = price,
           NEW same, same.head = level.head, same.tail = level.tail
    PROVE  Chained(after, same, price, s)
BY DEF Chained

\* No order is on the lists of two levels.
LEMMA ChainsApart ==
    ASSUME NEW at, NEW level, NEW price, NEW s, Chained(at, level, price, s),
           NEW order, at[order].level # price
    PROVE  \A i \in 1..Len(s) : s[i] # order
BY DEF Chained

LEMMA InitLadderInv == LadderInit => LadderInv
<1> SUFFICES ASSUME LadderInit PROVE LadderInv
  OBVIOUS
<1> USE LadderConstants
<1>1. LadderTypeOK
  <2>1. Free \in Linked
    BY DEF Free, Linked
  <2>2. orders \in [Memory -> Linked]
    BY <2>1 DEF LadderInit
  <2>3. 0 \in 0..VolumeModulus - 1
    OBVIOUS
  <2>4. levels \in [PriceTicks -> [head : Memory \cup {Null}, tail : Memory \cup {Null},
                                  totalVolume : 0..VolumeModulus - 1]]
    BY <2>3 DEF LadderInit
  <2>5. DOMAIN orderIndex = {}
    BY DEF LadderInit
  <2> QED BY <2>2, <2>4, <2>5 DEF LadderInit, LadderTypeOK, Linked
<1>2. Chains
  <2>1. ASSUME NEW price \in PriceTicks
        PROVE  Chained(orders, levels[price], price, <<>>)
    <3>1. \A order \in Memory : orders[order].level # price
      BY DEF LadderInit, Free
    <3>2. levels[price].head = Null /\ levels[price].tail = Null
      BY DEF LadderInit
    <3> QED BY <3>1, <3>2, EmptySeq DEF Chained
  <2> QED BY <2>1 DEF Chains
<1>3. Resting = {}
  BY DEF LadderInit, Resting, Free
<1>4. Totals
  <2> SUFFICES ASSUME NEW price \in PriceTicks
               PROVE  TotalIs(orders, levels, price)
    BY DEF Totals
  <2>1. AtLevel(orders, price) = {}
    BY DEF LadderInit, AtLevel, Free
  <2>2. SumFunction(VolumesOf(orders, price)) = 0
    BY <2>1, SumFunctionEmpty DEF VolumesOf
  <2>3. 0 % VolumeModulus = 0
    OBVIOUS
  <2> QED BY <2>2, <2>3 DEF LadderInit, TotalIs
<1>5. IndexAgrees
  BY <1>3 DEF LadderInit, IndexAgrees, ExistingIds
<1> QED BY <1>1, <1>2, <1>4, <1>5 DEF LadderInv

-----------------------------------------------------------------------------
(* addOrder.                                                               *)

LEMMA AddKeepsTypes ==
    ASSUME LadderTypeOK,
           NEW order \in Memory, NEW id \in OrderIds, NEW side \in Sides,
           NEW price \in PriceTicks, NEW volume \in Volumes,
           AddOrder(order, id, side, price, volume)
    PROVE  LadderTypeOK'
<1> USE LadderConstants
<1>1. /\ orders \in [Memory -> Linked]
      /\ levels \in [PriceTicks -> [head : Memory \cup {Null}, tail : Memory \cup {Null},
                                    totalVolume : 0..VolumeModulus - 1]]
  BY LadderTypes
<1>2. levels[price].tail \in Memory \cup {Null} /\ levels[price].head \in Memory \cup {Null}
  BY <1>1
<1>3. orders' \in [Memory -> Linked]
  <2>1. [orderId |-> id, side |-> side, volume |-> volume, prev |-> levels[price].tail,
         next |-> Null, level |-> price] \in Linked
    BY <1>2 DEF Linked
  <2>2. ASSUME NEW o \in Memory
        PROVE  [orders[o] EXCEPT !.next = order] \in Linked /\ orders[o] \in Linked
    BY <1>1 DEF Linked
  <2>3. orders' = [o \in Memory |->
            IF o = order THEN [orderId |-> id, side |-> side, volume |-> volume,
                               prev |-> levels[price].tail, next |-> Null, level |-> price]
            ELSE IF o = levels[price].tail THEN [orders[o] EXCEPT !.next = order]
            ELSE orders[o]]
    BY DEF AddOrder, Link
  <2> QED BY <2>1, <2>2, <2>3
<1>4. levels' \in [PriceTicks -> [head : Memory \cup {Null}, tail : Memory \cup {Null},
                                  totalVolume : 0..VolumeModulus - 1]]
  <2>1. levels[price].totalVolume + volume \in Int
    BY <1>1
  <2>2. (levels[price].totalVolume + volume) % VolumeModulus \in 0..VolumeModulus - 1
    BY <2>1
  <2> QED BY <1>1, <1>2, <2>2 DEF AddOrder, Link
<1>5. /\ (DOMAIN orderIndex)' \subseteq OrderIds
      /\ \A i \in (DOMAIN orderIndex)' : orderIndex'[i] \in Memory
  BY DEF AddOrder, Index, LadderTypeOK
<1>6. storage' \in Storages /\ doubled' \in BOOLEAN
  BY DEF AddOrder, LadderTypeOK
<1> QED BY <1>3, <1>4, <1>5, <1>6 DEF LadderTypeOK, Linked

\* The new order joins its level at the end.
LEMMA AddChains ==
    ASSUME LadderTypeOK,
           NEW order \in Memory, NEW id \in OrderIds, NEW side \in Sides,
           NEW price \in PriceTicks, NEW volume \in Volumes,
           AddOrder(order, id, side, price, volume),
           NEW s, Chained(orders, levels[price], price, s)
    PROVE  Chained(orders', levels'[price], price, Append(s, order))
<1> USE LadderConstants
<1> DEFINE t == Append(s, order)
<1>1. s \in Seq(Memory) /\ Len(s) \in Nat
  BY LenProperties DEF Chained
<1>2. /\ t \in Seq(Memory) /\ Len(t) = Len(s) + 1 /\ t[Len(s) + 1] = order
      /\ \A i \in 1..Len(s) : t[i] = s[i]
  BY <1>1, AppendProperties
<1> HIDE DEF t
<1>3. orders[order].level = Null
  BY DEF AddOrder, Resting
<1>4. \A i \in 1..Len(s) : s[i] \in Memory /\ s[i] # order
  BY <1>1, <1>3, ChainsApart, ElementOfSeq
<1>5. /\ levels[price].head = (IF Len(s) = 0 THEN Null ELSE s[1])
      /\ levels[price].tail = (IF Len(s) = 0 THEN Null ELSE s[Len(s)])
  BY DEF Chained
<1>6. /\ orders'[order].level = price
      /\ orders'[order].prev = levels[price].tail
      /\ orders'[order].next = Null
  BY DEF AddOrder, Link
<1>7. ASSUME NEW o \in Memory, o # order
      PROVE  /\ orders'[o].level = orders[o].level
             /\ orders'[o].prev = orders[o].prev
             /\ orders'[o].next = IF o = levels[price].tail THEN order ELSE orders[o].next
  <2>1. orders[o] \in Linked
    BY LadderTypes
  <2>2. orders'[o] = IF o = levels[price].tail THEN [orders[o] EXCEPT !.next = order]
                     ELSE orders[o]
    BY <1>7 DEF AddOrder, Link
  <2> QED BY <2>1, <2>2 DEF Linked
<1>8. ASSUME NEW i \in 1..Len(s)
      PROVE  /\ orders'[s[i]].level = price
             /\ orders'[s[i]].prev = (IF i = 1 THEN Null ELSE s[i - 1])
             /\ orders'[s[i]].next = (IF i = Len(s) THEN order ELSE s[i + 1])
  <2>1. s[i] = levels[price].tail <=> i = Len(s)
    BY <1>1, <1>4, <1>5 DEF Chained
  <2>2. /\ orders[s[i]].level = price
        /\ orders[s[i]].prev = (IF i = 1 THEN Null ELSE s[i - 1])
        /\ orders[s[i]].next = (IF i = Len(s) THEN Null ELSE s[i + 1])
    BY DEF Chained
  <2> QED BY <1>4, <1>7, <2>1, <2>2
<1>9. \A i, j \in 1..Len(t) : t[i] = t[j] => i = j
  <2>1. \A i, j \in 1..Len(s) : s[i] = s[j] => i = j
    BY DEF Chained
  <2> QED BY <1>1, <1>2, <1>4, <2>1
<1>10. ASSUME NEW i \in 1..Len(t)
       PROVE  /\ orders'[t[i]].level = price
              /\ orders'[t[i]].prev = (IF i = 1 THEN Null ELSE t[i - 1])
              /\ orders'[t[i]].next = (IF i = Len(t) THEN Null ELSE t[i + 1])
  <2>1. CASE i = Len(s) + 1
    <3>1. t[i] = order
      BY <1>2, <2>1
    <3>2. levels[price].tail = (IF i = 1 THEN Null ELSE t[i - 1])
      BY <1>1, <1>2, <1>5, <2>1
    <3> QED BY <1>2, <1>6, <2>1, <3>1, <3>2
  <2>2. CASE i # Len(s) + 1
    <3>1. i \in 1..Len(s)
      BY <1>1, <1>2, <2>2
    <3>2. t[i] = s[i] /\ (i # 1 => t[i - 1] = s[i - 1])
      BY <1>1, <1>2, <3>1
    <3>3. i # Len(t) /\ t[i + 1] = (IF i = Len(s) THEN order ELSE s[i + 1])
      BY <1>1, <1>2, <3>1
    <3> QED BY <1>8, <3>1, <3>2, <3>3
  <2> QED BY <2>1, <2>2
<1>11. ASSUME NEW o \in Memory, orders'[o].level = price
       PROVE  \E i \in 1..Len(t) : o = t[i]
  <2>1. CASE o = order
    <3>1. Len(s) + 1 \in 1..Len(t)
      BY <1>1, <1>2
    <3> QED BY <1>2, <2>1, <3>1
  <2>2. CASE o # order
    <3>1. PICK i \in 1..Len(s) : o = s[i]
      BY <1>7, <1>11, <2>2 DEF Chained
    <3>2. i \in 1..Len(t)
      BY <1>1, <1>2
    <3> QED BY <1>2, <3>1, <3>2
  <2> QED BY <2>1, <2>2
<1>12. /\ levels'[price].head = (IF Len(t) = 0 THEN Null ELSE t[1])
       /\ levels'[price].tail = (IF Len(t) = 0 THEN Null ELSE t[Len(t)])
  <2>1. /\ levels'[price].head = (IF levels[price].tail = Null THEN order
                                  ELSE levels[price].head)
        /\ levels'[price].tail = order
    BY LadderTypes DEF AddOrder, Link
  <2>2. levels[price].tail = Null <=> Len(s) = 0
    BY <1>1, <1>4, <1>5
  <2>3. Len(s) # 0 => t[1] = s[1]
    BY <1>1, <1>2
  <2> QED BY <1>1, <1>2, <1>5, <2>1, <2>2, <2>3
<1> QED BY <1>2, <1>9, <1>10, <1>11, <1>12 DEF Chained, t

LEMMA AddElsewhere ==
    ASSUME LadderTypeOK,
           NEW order \in Memory, NEW id \in OrderIds, NEW side \in Sides,
           NEW price \in PriceTicks, NEW volume \in Volumes,
           AddOrder(order, id, side, price, volume),
           NEW own, Chained(orders, levels[price], price, own),
           NEW other \in PriceTicks, other # price,
           NEW s, Chained(orders, levels[other], other, s)
    PROVE  Chained(orders', levels'[other], other, s)
<1> USE LadderConstants
<1>1. orders[order].level = Null /\ Null # other
  BY DEF AddOrder, Resting
<1>2. levels[price].tail # Null => orders[levels[price].tail].level = price
  <2>1. own \in Seq(Memory) /\ Len(own) \in Nat
    BY LenProperties DEF Chained
  <2>2. Len(own) # 0 => Len(own) \in 1..Len(own)
    BY <2>1
  <2> QED BY <2>2 DEF Chained
<1>3. s \in Seq(Memory)
  BY DEF Chained
<1>4. ASSUME NEW i \in 1..Len(s)
      PROVE  orders'[s[i]] = orders[s[i]]
  <2>1. s[i] # order /\ s[i] \in Memory /\ orders[s[i]].level = other
    BY <1>1, <1>3, ChainsApart, ElementOfSeq DEF Chained
  <2>2. s[i] # levels[price].tail
    BY <1>2, <2>1
  <2> QED BY <2>1, <2>2 DEF AddOrder, Link
<1>5. ASSUME NEW o \in Memory, orders'[o].level = other
      PROVE  orders[o].level = other
  <2>1. o # order
    BY <1>5 DEF AddOrder, Link
  <2>2. orders[o] \in Linked
    BY LadderTypes
  <2>3. orders'[o] = IF o = levels[price].tail THEN [orders[o] EXCEPT !.next = order]
                     ELSE orders[o]
    BY <2>1 DEF AddOrder, Link
  <2> QED BY <1>5, <2>2, <2>3 DEF Linked
<1>6. levels'[other] = levels[other]
  BY LadderTypes DEF AddOrder, Link
<1> QED BY <1>4, <1>5, <1>6, ChainStays

-----------------------------------------------------------------------------
(* removeOrder.                                                            *)

LEMMA RemoveKeepsTypes ==
    ASSUME LadderTypeOK, NEW order \in Memory, RemoveOrder(order)
    PROVE  LadderTypeOK'
<1> USE LadderConstants
<1>1. /\ orders \in [Memory -> Linked]
      /\ levels \in [PriceTicks -> [head : Memory \cup {Null}, tail : Memory \cup {Null},
                                    totalVolume : 0..VolumeModulus - 1]]
  BY LadderTypes
<1>2. /\ orders[order].prev \in Memory \cup {Null}
      /\ orders[order].next \in Memory \cup {Null}
      /\ orders[order].level \in PriceTicks
      /\ orders[order].volume \in Volumes \cup {0}
  BY <1>1 DEF Linked, RemoveOrder, Resting
<1>3. orders' \in [Memory -> Linked]
  <2>1. Free \in Linked
    BY DEF Free, Linked
  <2>2. ASSUME NEW o \in Memory, NEW p \in Memory \cup {Null}, NEW n \in Memory \cup {Null}
        PROVE  /\ [orders[o] EXCEPT !.next = n, !.prev = p] \in Linked
               /\ orders[o].next \in Memory \cup {Null}
               /\ orders[o].prev \in Memory \cup {Null}
    <3>1. orders[o] \in Linked
      BY <1>1
    <3>2. [orders[o] EXCEPT !.next = n, !.prev = p] \in Linked
      BY <3>1 DEF Linked
    <3> QED BY <3>1, <3>2 DEF Linked
  <2>3. orders' = [o \in Memory |->
            IF o = order THEN Free
            ELSE [orders[o] EXCEPT
                     !.next = IF o = orders[order].prev THEN orders[order].next ELSE @,
                     !.prev = IF o = orders[order].next THEN orders[order].prev ELSE @]]
    BY DEF RemoveOrder, Unlink
  <2>4. ASSUME NEW o \in Memory
        PROVE  [orders[o] EXCEPT
                   !.next = IF o = orders[order].prev THEN orders[order].next ELSE @,
                   !.prev = IF o = orders[order].next THEN orders[order].prev ELSE @] \in Linked
    BY <1>2, <2>2
  <2> QED BY <2>1, <2>3, <2>4
<1>4. levels' \in [PriceTicks -> [head : Memory \cup {Null}, tail : Memory \cup {Null},
                                  totalVolume : 0..VolumeModulus - 1]]
  <2> DEFINE total == levels[orders[order].level].totalVolume
  <2>1. total - orders[order].volume \in Int
    <3>1. total \in Int
      BY <1>1, <1>2
    <3>2. orders[order].volume \in Int
      <4>1. \A v \in Volumes \cup {0} : v \in Int
        OBVIOUS
      <4> QED BY <1>2, <4>1
    <3> QED BY <3>1, <3>2
  <2>2. RemovedVolume(order, total) \in 0..VolumeModulus - 1
    BY <2>1 DEF RemovedVolume
  <2> QED BY <1>1, <1>2, <2>2 DEF RemoveOrder
<1>5. /\ (DOMAIN orderIndex)' \subseteq OrderIds
      /\ \A i \in (DOMAIN orderIndex)' : orderIndex'[i] \in Memory
  BY DEF RemoveOrder, Forget, LadderTypeOK
<1>6. storage' \in Storages /\ doubled' \in BOOLEAN
  BY DEF RemoveOrder, LadderTypeOK
<1> QED BY <1>3, <1>4, <1>5, <1>6 DEF LadderTypeOK, Linked

\* What removeOrder leaves of an order.
LEMMA RemoveEffect ==
    ASSUME LadderTypeOK, NEW order \in Memory, RemoveOrder(order)
    PROVE  /\ orders'[order] = Free
           /\ \A o \in Memory \ {order} :
                 /\ orders'[o].orderId = orders[o].orderId
                 /\ orders'[o].side = orders[o].side
                 /\ orders'[o].volume = orders[o].volume
                 /\ orders'[o].level = orders[o].level
                 /\ orders'[o].next = IF o = orders[order].prev THEN orders[order].next
                                      ELSE orders[o].next
                 /\ orders'[o].prev = IF o = orders[order].next THEN orders[order].prev
                                      ELSE orders[o].prev
<1>1. orders'[order] = Free
  BY DEF RemoveOrder, Unlink
<1>2. ASSUME NEW o \in Memory \ {order}
      PROVE  /\ orders'[o].orderId = orders[o].orderId
             /\ orders'[o].side = orders[o].side
             /\ orders'[o].volume = orders[o].volume
             /\ orders'[o].level = orders[o].level
             /\ orders'[o].next = IF o = orders[order].prev THEN orders[order].next
                                  ELSE orders[o].next
             /\ orders'[o].prev = IF o = orders[order].next THEN orders[order].prev
                                  ELSE orders[o].prev
  <2>1. orders[o] \in Linked
    BY LadderTypes
  <2>2. orders'[o] =
            [orders[o] EXCEPT
                !.next = IF o = orders[order].prev THEN orders[order].next ELSE @,
                !.prev = IF o = orders[order].next THEN orders[order].prev ELSE @]
    BY <1>2 DEF RemoveOrder, Unlink
  <2> QED BY <2>1, <2>2 DEF Linked
<1> QED BY <1>1, <1>2

LEMMA AddEffect ==
    ASSUME LadderTypeOK,
           NEW order \in Memory, NEW id \in OrderIds, NEW side \in Sides,
           NEW price \in PriceTicks, NEW volume \in Volumes,
           AddOrder(order, id, side, price, volume)
    PROVE  /\ orders[order].level = Null
           /\ orders'[order].orderId = id
           /\ orders'[order].side = side
           /\ orders'[order].volume = volume
           /\ orders'[order].level = price
           /\ \A o \in Memory \ {order} :
                 /\ orders'[o].orderId = orders[o].orderId
                 /\ orders'[o].side = orders[o].side
                 /\ orders'[o].volume = orders[o].volume
                 /\ orders'[o].level = orders[o].level
<1>1. ASSUME NEW o \in Memory \ {order}
      PROVE  /\ orders'[o].orderId = orders[o].orderId
             /\ orders'[o].side = orders[o].side
             /\ orders'[o].volume = orders[o].volume
             /\ orders'[o].level = orders[o].level
  <2>1. orders[o] \in Linked
    BY LadderTypes
  <2>2. orders'[o] = IF o = levels[price].tail THEN [orders[o] EXCEPT !.next = order]
                     ELSE orders[o]
    BY <1>1 DEF AddOrder, Link
  <2> QED BY <2>1, <2>2 DEF Linked
<1> QED BY <1>1 DEF AddOrder, Link, Resting

\* s without its k-th place.
Without(s, k) == [i \in 1..Len(s) - 1 |-> IF i < k THEN s[i] ELSE s[i + 1]]

LEMMA WithoutFacts ==
    ASSUME NEW S, NEW s \in Seq(S), NEW k \in 1..Len(s)
    PROVE  /\ Without(s, k) \in Seq(S)
           /\ Len(s) \in Nat \ {0}
           /\ Len(Without(s, k)) = Len(s) - 1
           /\ \A i \in 1..Len(s) - 1 : Without(s, k)[i] = IF i < k THEN s[i] ELSE s[i + 1]
<1>1. Len(s) \in Nat /\ Len(s) - 1 \in Nat
  BY LenProperties
<1>2. \A i \in 1..Len(s) - 1 : (IF i < k THEN s[i] ELSE s[i + 1]) \in S
  BY <1>1, ElementOfSeq
<1> QED BY <1>1, <1>2 DEF Without

\* The places before and behind the one removed become neighbours.
LEMMA RemoveChains ==
    ASSUME LadderTypeOK, NEW order \in Memory, RemoveOrder(order),
           NEW price, price = orders[order].level,
           NEW s, Chained(orders, levels[price], price, s),
           NEW k \in 1..Len(s), s[k] = order
    PROVE  Chained(orders', levels'[price], price, Without(s, k))
<1> USE LadderConstants
<1> DEFINE t == Without(s, k)
<1>1. s \in Seq(Memory) /\ price \in PriceTicks /\ price # Null
  BY LadderTypes DEF Chained, RemoveOrder, Resting, Linked
<1>2. /\ t \in Seq(Memory) /\ Len(s) \in Nat \ {0} /\ Len(t) = Len(s) - 1
      /\ \A i \in 1..Len(t) : t[i] = IF i < k THEN s[i] ELSE s[i + 1]
  BY <1>1, WithoutFacts
<1> HIDE DEF t
<1>3. \A i \in 1..Len(s) : s[i] \in Memory
  BY <1>1, ElementOfSeq
<1>4. \A i, j \in 1..Len(s) : s[i] = s[j] => i = j
  BY DEF Chained
<1>5. \A i \in 1..Len(s) :
         /\ orders[s[i]].level = price
         /\ orders[s[i]].prev = (IF i = 1 THEN Null ELSE s[i - 1])
         /\ orders[s[i]].next = (IF i = Len(s) THEN Null ELSE s[i + 1])
  BY DEF Chained
<1>6. ASSUME NEW i \in 1..Len(s), i # k
      PROVE  /\ orders'[s[i]].level = price
             /\ orders'[s[i]].prev = (IF i = 1 THEN Null
                                      ELSE IF i = k + 1
                                           THEN (IF k = 1 THEN Null ELSE s[k - 1])
                                           ELSE s[i - 1])
             /\ orders'[s[i]].next = (IF i = Len(s) THEN Null
                                      ELSE IF i = k - 1
                                           THEN (IF k = Len(s) THEN Null ELSE s[k + 1])
                                           ELSE s[i + 1])
  <2>1. s[i] \in Memory \ {order}
    BY <1>3, <1>4, <1>6
  <2>2. s[i] = orders[order].prev <=> i = k - 1
    <3>1. orders[order].prev = (IF k = 1 THEN Null ELSE s[k - 1])
      BY <1>5
    <3>2. k # 1 => k - 1 \in 1..Len(s)
      BY <1>2
    <3> QED BY <1>3, <1>4, <3>1, <3>2
  <2>3. s[i] = orders[order].next <=> i = k + 1
    <3>1. orders[order].next = (IF k = Len(s) THEN Null ELSE s[k + 1])
      BY <1>5
    <3>2. k # Len(s) => k + 1 \in 1..Len(s)
      BY <1>2
    <3> QED BY <1>2, <1>3, <1>4, <3>1, <3>2
  <2>4. /\ orders'[s[i]].level = orders[s[i]].level
        /\ orders'[s[i]].next = IF i = k - 1 THEN orders[order].next ELSE orders[s[i]].next
        /\ orders'[s[i]].prev = IF i = k + 1 THEN orders[order].prev ELSE orders[s[i]].prev
    BY <2>1, <2>2, <2>3, RemoveEffect
  <2> QED BY <1>2, <1>5, <2>4
<1>7. \A i, j \in 1..Len(t) : t[i] = t[j] => i = j
  <2> SUFFICES ASSUME NEW i \in 1..Len(t), NEW j \in 1..Len(t), t[i] = t[j], i < j PROVE FALSE
    BY <1>2
  <2>1. i \in 1..Len(s) /\ i + 1 \in 1..Len(s) /\ j \in 1..Len(s) /\ j + 1 \in 1..Len(s)
    BY <1>2
  <2>2. t[i] = IF i < k THEN s[i] ELSE s[i + 1]
    BY <1>2
  <2>3. t[j] = IF j < k THEN s[j] ELSE s[j + 1]
    BY <1>2
  <2>4. i \in Nat /\ j \in Nat /\ i # j /\ i + 1 # j + 1 /\ (j < k => i < k)
    BY <1>2
  <2>5. ~ (i < k /\ ~ j < k)
    <3>1. i < k /\ ~ j < k => i # j + 1
      BY <2>4
    <3> QED BY <1>4, <2>1, <2>2, <2>3, <3>1
  <2>6. ~ (i < k /\ j < k)
    BY <1>4, <2>1, <2>2, <2>3, <2>4
  <2>7. ~ (~ i < k /\ ~ j < k)
    BY <1>4, <2>1, <2>2, <2>3, <2>4
  <2> QED BY <2>4, <2>5, <2>6, <2>7
<1>8. ASSUME NEW i \in 1..Len(t)
      PROVE  /\ orders'[t[i]].level = price
             /\ orders'[t[i]].prev = (IF i = 1 THEN Null ELSE t[i - 1])
             /\ orders'[t[i]].next = (IF i = Len(t) THEN Null ELSE t[i + 1])
  <2>1. i \in Nat /\ k \in Nat /\ 1 <= i /\ i < Len(s)
    BY <1>2
  <2>2. CASE i < k
    <3>1. i \in 1..Len(s) /\ i # k /\ t[i] = s[i]
      BY <1>2, <2>1, <2>2
    <3>2. i # 1 => t[i - 1] = s[i - 1]
      <4>1. i # 1 => i - 1 \in 1..Len(t) /\ i - 1 < k
        BY <1>2, <2>1, <2>2
      <4> QED BY <1>2, <4>1
    <3>3. i # Len(t) => t[i + 1] = IF i = k - 1 THEN s[k + 1] ELSE s[i + 1]
      <4>1. i # Len(t) => i + 1 \in 1..Len(t) /\ (i + 1 < k <=> i # k - 1)
        BY <1>2, <2>1, <2>2
      <4>2. i = k - 1 => (i + 1) + 1 = k + 1
        BY <2>1
      <4> QED BY <1>2, <4>1, <4>2
    <3>4. i = Len(t) => i = k - 1 /\ k = Len(s)
      BY <1>2, <2>1, <2>2
    <3>5. i # Len(t) /\ i = k - 1 => k # Len(s)
      BY <1>2, <2>1
    <3>6. i # Len(s) /\ i # k + 1
      BY <2>1, <2>2
    <3> QED BY <1>6, <3>1, <3>2, <3>3, <3>4, <3>5, <3>6
  <2>3. CASE ~ i < k
    <3>1. i + 1 \in 1..Len(s) /\ i + 1 # k /\ t[i] = s[i + 1]
      BY <1>2, <2>1, <2>3
    <3>2. i # 1 => t[i - 1] = IF i = k THEN s[k - 1] ELSE s[i]
      <4>1. i # 1 => i - 1 \in 1..Len(t) /\ (i - 1 < k <=> i = k) /\ (i - 1) + 1 = i
        BY <1>2, <2>1, <2>3
      <4> QED BY <1>2, <4>1
    <3>3. i # Len(t) => t[i + 1] = s[(i + 1) + 1]
      <4>1. i # Len(t) => i + 1 \in 1..Len(t) /\ ~ i + 1 < k
        BY <1>2, <2>1, <2>3
      <4> QED BY <1>2, <4>1
    <3>4. (i = Len(t) <=> i + 1 = Len(s)) /\ i + 1 # 1 /\ (i + 1) - 1 = i
      BY <1>2, <2>1
    <3>5. (i + 1 = k + 1 <=> i = k) /\ i + 1 # k - 1 /\ (i = 1 => k = 1)
      BY <2>1, <2>3
    <3> QED BY <1>6, <3>1, <3>2, <3>3, <3>4, <3>5
  <2> QED BY <2>2, <2>3
<1>9. ASSUME NEW o \in Memory, orders'[o].level = price
      PROVE  \E i \in 1..Len(t) : o = t[i]
  <2>1. o # order
    BY <1>1, <1>9, RemoveEffect DEF Free
  <2>2. PICK j \in 1..Len(s) : o = s[j]
    <3>1. orders[o].level = price
      BY <1>9, <2>1, RemoveEffect
    <3> QED BY <3>1 DEF Chained
  <2>3. j # k
    BY <2>1, <2>2
  <2>4. CASE j < k
    <3>1. j \in 1..Len(t)
      BY <1>2, <2>4
    <3> QED BY <1>2, <2>2, <2>4, <3>1
  <2>5. CASE k < j
    <3>1. j - 1 \in 1..Len(t) /\ ~ j - 1 < k /\ (j - 1) + 1 = j
      BY <1>2, <2>5
    <3> QED BY <1>2, <2>2, <3>1
  <2> QED BY <1>2, <2>3, <2>4, <2>5
<1>10. /\ levels'[price].head = (IF Len(t) = 0 THEN Null ELSE t[1])
       /\ levels'[price].tail = (IF Len(t) = 0 THEN Null ELSE t[Len(t)])
  <2>1. /\ levels'[price].head = IF orders[order].prev = Null THEN orders[order].next
                                 ELSE levels[price].head
        /\ levels'[price].tail = IF orders[order].next = Null THEN orders[order].prev
                                 ELSE levels[price].tail
    BY <1>1, LadderTypes DEF RemoveOrder
  <2>2. /\ levels[price].head = s[1] /\ levels[price].tail = s[Len(s)]
        /\ 1 \in 1..Len(s) /\ Len(s) \in 1..Len(s)
    BY <1>2 DEF Chained
  <2>3. orders[order].prev = (IF k = 1 THEN Null ELSE s[k - 1])
        /\ orders[order].next = (IF k = Len(s) THEN Null ELSE s[k + 1])
    BY <1>5
  <2>4. (k # 1 => s[k - 1] # Null) /\ (k # Len(s) => s[k + 1] # Null)
    <3>1. (k # 1 => k - 1 \in 1..Len(s)) /\ (k # Len(s) => k + 1 \in 1..Len(s))
      BY <1>2
    <3> QED BY <1>3, <3>1
  <2>5. Len(t) # 0 => t[1] = IF k = 1 THEN s[2] ELSE s[1]
    <3>1. Len(t) # 0 => 1 \in 1..Len(t)
      BY <1>2
    <3>2. 1 < k <=> k # 1
      BY <1>2
    <3> QED BY <1>2, <3>1, <3>2
  <2>6. Len(t) # 0 => t[Len(t)] = IF k = Len(s) THEN s[k - 1] ELSE s[Len(s)]
    <3>1. Len(t) # 0 => Len(t) \in 1..Len(t)
      BY <1>2
    <3>2. (Len(t) < k <=> k = Len(s)) /\ Len(t) + 1 = Len(s)
      BY <1>2
    <3>3. k = Len(s) => Len(t) = k - 1
      BY <1>2
    <3> QED BY <1>2, <3>1, <3>2, <3>3
  <2>7. Len(t) = 0 <=> Len(s) = 1
    BY <1>2
  <2>8. Len(s) = 1 => k = 1
    BY <1>2
  <2>9. k = 1 /\ k # Len(s) => s[k + 1] = s[2]
    OBVIOUS
  <2> QED BY <2>1, <2>2, <2>3, <2>4, <2>5, <2>6, <2>7, <2>8, <2>9
<1> QED BY <1>2, <1>7, <1>8, <1>9, <1>10 DEF Chained, t

LEMMA RemoveElsewhere ==
    ASSUME LadderTypeOK, NEW order \in Memory, RemoveOrder(order),
           NEW price, price = orders[order].level,
           NEW own, Chained(orders, levels[price], price, own),
           NEW other \in PriceTicks, other # price,
           NEW s, Chained(orders, levels[other], other, s)
    PROVE  Chained(orders', levels'[other], other, s)
<1> USE LadderConstants
<1>1. PICK k \in 1..Len(own) : own[k] = order
  BY DEF Chained
<1>2. own \in Seq(Memory) /\ Len(own) \in Nat
  BY LenProperties DEF Chained
<1>3. /\ orders[order].prev # Null => orders[orders[order].prev].level = price
      /\ orders[order].next # Null => orders[orders[order].next].level = price
  <2>1. /\ orders[order].prev = (IF k = 1 THEN Null ELSE own[k - 1])
        /\ orders[order].next = (IF k = Len(own) THEN Null ELSE own[k + 1])
    BY <1>1 DEF Chained
  <2>2. (k # 1 => k - 1 \in 1..Len(own)) /\ (k # Len(own) => k + 1 \in 1..Len(own))
    BY <1>2
  <2>3. \A i \in 1..Len(own) : orders[own[i]].level = price
    BY DEF Chained
  <2> QED BY <2>1, <2>2, <2>3
<1>4. ASSUME NEW i \in 1..Len(s)
      PROVE  /\ orders'[s[i]].level = orders[s[i]].level
             /\ orders'[s[i]].prev = orders[s[i]].prev
             /\ orders'[s[i]].next = orders[s[i]].next
  <2>1. s[i] \in Memory /\ orders[s[i]].level = other
    BY ElementOfSeq DEF Chained
  <2>2. s[i] # order /\ s[i] # orders[order].prev /\ s[i] # orders[order].next
    BY <1>3, <2>1
  <2> QED BY <2>1, <2>2, RemoveEffect
<1>5. ASSUME NEW o \in Memory, orders'[o].level = other
      PROVE  orders[o].level = other
  <2>1. o # order
    BY <1>5, RemoveEffect DEF Free
  <2> QED BY <1>5, <2>1, RemoveEffect
<1>6. levels'[other] = levels[other]
  BY LadderTypes DEF RemoveOrder
<1> QED BY <1>4, <1>5, <1>6, ChainStays

-----------------------------------------------------------------------------
(* modifyOrderVolume.                                                      *)

LEMMA ModifyEffect ==
    ASSUME LadderTypeOK, NEW order \in Memory, NEW newVolume \in Volumes,
           ModifyOrderVolume(order, newVolume)
    PROVE  /\ orders' \in [Memory -> Linked]
           /\ orders'[order].volume = newVolume
           /\ \A o \in Memory : o # order => orders'[o] = orders[o]
           /\ \A o \in Memory : /\ orders'[o].orderId = orders[o].orderId
                                /\ orders'[o].side = orders[o].side
                                /\ orders'[o].prev = orders[o].prev
                                /\ orders'[o].next = orders[o].next
                                /\ orders'[o].level = orders[o].level
<1>1. orders' = [o \in Memory |-> IF o = order THEN [orders[o] EXCEPT !.volume = newVolume]
                                  ELSE orders[o]]
  BY LadderTypes DEF ModifyOrderVolume
<1>2. ASSUME NEW o \in Memory
      PROVE  /\ orders[o] \in Linked
             /\ [orders[o] EXCEPT !.volume = newVolume] \in Linked
  <2>1. orders[o] \in Linked
    BY LadderTypes
  <2> QED BY <2>1 DEF Linked
<1>3. \A o \in Memory : o # order => orders'[o] = orders[o]
  BY <1>1
<1>4. orders'[order] = [orders[order] EXCEPT !.volume = newVolume]
  BY <1>1
<1>5. /\ orders'[order].volume = newVolume
      /\ orders'[order].orderId = orders[order].orderId
      /\ orders'[order].side = orders[order].side
      /\ orders'[order].prev = orders[order].prev
      /\ orders'[order].next = orders[order].next
      /\ orders'[order].level = orders[order].level
  BY <1>2, <1>4 DEF Linked
<1>6. orders' \in [Memory -> Linked]
  BY <1>1, <1>2
<1> QED BY <1>3, <1>5, <1>6

LEMMA ModifyLevels ==
    ASSUME LadderTypeOK, NEW order \in Memory, NEW newVolume \in Volumes,
           ModifyOrderVolume(order, newVolume),
           NEW price, price = orders[order].level
    PROVE  /\ price \in PriceTicks
           /\ levels'[price].head = levels[price].head
           /\ levels'[price].tail = levels[price].tail
           /\ levels'[price].totalVolume =
                  ModifiedVolume(order, levels[price].totalVolume, newVolume)
           /\ levels' = [levels EXCEPT ![price] = levels'[price]]
           /\ levels'[price] \in [head : Memory \cup {Null}, tail : Memory \cup {Null},
                                  totalVolume : 0..VolumeModulus - 1]
<1> USE LadderConstants
<1> DEFINE total == levels[price].totalVolume
<1>1. price \in PriceTicks /\ orders[order].volume \in Volumes \cup {0}
  BY LadderTypes DEF ModifyOrderVolume, Resting, Linked
<1>2. levels[price] \in [head : Memory \cup {Null}, tail : Memory \cup {Null},
                         totalVolume : 0..VolumeModulus - 1]
  BY <1>1, LadderTypes
<1>3. levels' = [levels EXCEPT ![price] =
          [levels[price] EXCEPT !.totalVolume = ModifiedVolume(order, total, newVolume)]]
  <2>1. levels' = [levels EXCEPT ![orders[order].level] =
            [levels[orders[order].level] EXCEPT
                !.totalVolume = ModifiedVolume(order, levels[orders[order].level].totalVolume,
                                               newVolume)]]
    BY LadderTypes DEF ModifyOrderVolume
  <2> QED BY <2>1
<1>4. ModifiedVolume(order, total, newVolume) \in 0..VolumeModulus - 1
  <2>1. \A v \in Volumes \cup {0} : v \in Int
    OBVIOUS
  <2>2. total \in Int
    BY <1>2
  <2>3. orders[order].volume \in Int /\ newVolume \in Int
    BY <1>1, <2>1
  <2> HIDE DEF total
  <2>4. total - orders[order].volume + newVolume \in Int
    BY <2>2, <2>3
  <2> QED BY <2>4 DEF ModifiedVolume
<1>5. levels'[price] =
          [levels[price] EXCEPT !.totalVolume = ModifiedVolume(order, total, newVolume)]
  BY <1>1, <1>3, LadderTypes
<1> HIDE DEF total
<1>6. /\ levels'[price].head = levels[price].head
      /\ levels'[price].tail = levels[price].tail
      /\ levels'[price].totalVolume = ModifiedVolume(order, total, newVolume)
      /\ levels'[price] \in [head : Memory \cup {Null}, tail : Memory \cup {Null},
                             totalVolume : 0..VolumeModulus - 1]
  BY <1>2, <1>4, <1>5
<1> QED BY <1>1, <1>3, <1>5, <1>6 DEF total

LEMMA ModifyKeepsTypes ==
    ASSUME LadderTypeOK, NEW order \in Memory, NEW newVolume \in Volumes,
           ModifyOrderVolume(order, newVolume)
    PROVE  LadderTypeOK'
<1>1. levels' \in [PriceTicks -> [head : Memory \cup {Null}, tail : Memory \cup {Null},
                                  totalVolume : 0..VolumeModulus - 1]]
  BY LadderTypes, ModifyLevels
<1>2. orders' \in [Memory -> Linked]
  BY ModifyEffect
<1> QED BY <1>1, <1>2 DEF LadderTypeOK, Linked, ModifyOrderVolume

LEMMA ModifyChains ==
    ASSUME LadderTypeOK, NEW order \in Memory, NEW newVolume \in Volumes,
           ModifyOrderVolume(order, newVolume),
           NEW price \in PriceTicks, NEW s, Chained(orders, levels[price], price, s)
    PROVE  Chained(orders', levels'[price], price, s)
<1>1. levels'[price].head = levels[price].head /\ levels'[price].tail = levels[price].tail
  <2>1. CASE price = orders[order].level
    BY <2>1, ModifyLevels
  <2>2. CASE price # orders[order].level
    <3>1. levels'[price] = levels[price]
      BY <2>2, LadderTypes DEF ModifyOrderVolume
    <3> QED BY <3>1
  <2> QED BY <2>1, <2>2
<1>2. \A i \in 1..Len(s) : s[i] \in Memory
  BY ElementOfSeq DEF Chained
<1> QED BY <1>1, <1>2, ModifyEffect, ChainStays

-----------------------------------------------------------------------------
(* The volumes of the levels.                                              *)

LEMMA VolumesFacts ==
    ASSUME NEW at \in [Memory -> Linked], NEW price \in PriceTicks
    PROVE  /\ Summable(VolumesOf(at, price))
           /\ SumFunction(VolumesOf(at, price)) \in Int
           /\ DOMAIN VolumesOf(at, price) = AtLevel(at, price)
           /\ \A order \in AtLevel(at, price) :
                  VolumesOf(at, price)[order] = at[order].volume
<1> USE LadderConstants
<1>1. IsFiniteSet(AtLevel(at, price))
  BY FS_Subset DEF AtLevel
<1>2. ASSUME NEW order \in AtLevel(at, price)
      PROVE  at[order].volume \in Int
  <2>1. \A v \in Volumes \cup {0} : v \in Int
    OBVIOUS
  <2>2. at[order] \in Linked
    BY DEF AtLevel
  <2> QED BY <2>1, <2>2 DEF Linked
<1>3. /\ DOMAIN VolumesOf(at, price) = AtLevel(at, price)
      /\ \A order \in AtLevel(at, price) : VolumesOf(at, price)[order] = at[order].volume
  BY DEF VolumesOf
<1>4. Summable(VolumesOf(at, price))
  BY <1>1, <1>2, <1>3 DEF Summable
<1> QED BY <1>3, <1>4, SumFunctionType

\* The volume of an order that joins a sum or leaves it, up to the width of a
\* volume.
LEMMA WrappedJoin ==
    ASSUME NEW sum \in Int, NEW total, total = sum % VolumeModulus, NEW volume \in Int
    PROVE  (total + volume) % VolumeModulus = (sum + volume) % VolumeModulus
BY LadderConstants, WrapAdds

LEMMA WrappedLeave ==
    ASSUME NEW sum \in Int, NEW total, total = sum % VolumeModulus, NEW volume \in Int
    PROVE  (total - volume) % VolumeModulus = (sum - volume) % VolumeModulus
<1> USE LadderConstants
<1>1. PICK v \in Int : v = -volume
  OBVIOUS
<1>2. total + v = total - volume /\ sum + v = sum - volume
  <2>1. total \in Int
    OBVIOUS
  <2> QED BY <1>1, <2>1
<1>3. (total + v) % VolumeModulus = (sum + v) % VolumeModulus
  BY WrappedJoin
<1> QED BY <1>2, <1>3

LEMMA AnyVolume ==
    ASSUME LadderTypeOK
    PROVE  /\ \A volume \in Volumes \cup {0} : volume \in Int
           /\ \A order \in Memory : orders[order].volume \in Volumes \cup {0}
           /\ \A order \in Memory : orders[order].level \in PriceTicks \cup {Null}
<1>1. \A volume \in Volumes \cup {0} : volume \in Int
  BY LadderConstants
<1>2. \A order \in Memory : orders[order] \in Linked
  BY LadderTypes
<1> QED BY <1>1, <1>2 DEF Linked

\* The sum of a level none of whose orders is touched.
LEMMA SumStays ==
    ASSUME NEW at \in [Memory -> Linked], NEW after \in [Memory -> Linked],
           NEW price \in PriceTicks,
           AtLevel(after, price) = AtLevel(at, price),
           \A order \in AtLevel(at, price) : after[order].volume = at[order].volume
    PROVE  SumFunction(VolumesOf(after, price)) = SumFunction(VolumesOf(at, price))
<1>1. PICK f : f = VolumesOf(at, price)
  OBVIOUS
<1>2. PICK g : g = VolumesOf(after, price)
  OBVIOUS
<1>3. Summable(f) /\ DOMAIN f = AtLevel(at, price)
      /\ \A order \in DOMAIN f : f[order] = at[order].volume
  BY <1>1, VolumesFacts
<1>4. DOMAIN g = DOMAIN f /\ \A order \in DOMAIN g : g[order] = after[order].volume
  BY <1>2, <1>3, VolumesFacts
<1>5. SumFunction(g) = SumFunction(f)
  BY <1>3, <1>4, SumFunctionEqual
<1> QED BY <1>1, <1>2, <1>5

LEMMA AddKeepsTotals ==
    ASSUME LadderTypeOK, LadderTypeOK', Totals,
           NEW order \in Memory, NEW id \in OrderIds, NEW side \in Sides,
           NEW price \in PriceTicks, NEW volume \in Volumes,
           AddOrder(order, id, side, price, volume)
    PROVE  Totals'
<1> USE LadderConstants
<1>a. orders \in [Memory -> Linked] /\ orders' \in [Memory -> Linked]
  BY DEF LadderTypeOK, Linked
<1>1. ASSUME NEW other \in PriceTicks
      PROVE  /\ AtLevel(orders, other) = {o \in Memory : orders[o].level = other}
             /\ AtLevel(orders', other) = {o \in Memory : orders'[o].level = other}
             /\ TotalIs(orders, levels, other)
  BY DEF AtLevel, Totals
<1>2. TotalIs(orders', levels', price)
  <2>1. PICK f : f = VolumesOf(orders, price)
    OBVIOUS
  <2>2. PICK g : g = VolumesOf(orders', price)
    OBVIOUS
  <2>3. /\ Summable(f) /\ DOMAIN f = AtLevel(orders, price)
        /\ \A o \in DOMAIN f : f[o] = orders[o].volume
        /\ SumFunction(f) \in Int
    BY <2>1, <1>a, VolumesFacts
  <2>4. /\ DOMAIN g = AtLevel(orders', price)
        /\ \A o \in DOMAIN g : g[o] = orders'[o].volume
    BY <2>2, <1>a, VolumesFacts
  <2>5. AtLevel(orders', price) = AtLevel(orders, price) \cup {order} /\ order \notin AtLevel(orders, price)
    BY <1>1, AddEffect
  <2>6. g[order] = volume /\ volume \in Int /\ \A o \in DOMAIN f : g[o] = f[o]
    BY <1>1, <2>3, <2>4, <2>5, AddEffect, AnyVolume
  <2>7. SumFunction(g) = SumFunction(f) + volume
    BY <2>3, <2>4, <2>5, <2>6, SumFunctionInsert
  <2>8. levels'[price].totalVolume = (levels[price].totalVolume + volume) % VolumeModulus
    BY LadderTypes DEF AddOrder, Link
  <2>9. levels[price].totalVolume = SumFunction(f) % VolumeModulus
    BY <1>1, <2>1 DEF TotalIs
  <2>10. levels'[price].totalVolume = (SumFunction(f) + volume) % VolumeModulus
    BY <2>3, <2>6, <2>8, <2>9, WrappedJoin
  <2> QED BY <2>2, <2>7, <2>10 DEF TotalIs
<1>3. ASSUME NEW other \in PriceTicks, other # price
      PROVE  TotalIs(orders', levels', other)
  <2>1. AtLevel(orders', other) = AtLevel(orders, other) /\ order \notin AtLevel(orders, other)
    <3>1. ASSUME NEW o \in Memory
          PROVE  orders'[o].level = other <=> orders[o].level = other
      <4>1. CASE o = order
        BY <1>3, <4>1, AddEffect
      <4>2. CASE o # order
        BY <4>2, AddEffect
      <4> QED BY <4>1, <4>2
    <3>2. orders[order].level # other
      BY AddEffect
    <3> QED BY <1>1, <3>1, <3>2
  <2>2. \A o \in AtLevel(orders, other) : orders'[o].volume = orders[o].volume
    BY <1>1, <2>1, AddEffect
  <2>3. SumFunction(VolumesOf(orders', other)) =
            SumFunction(VolumesOf(orders, other))
    BY <2>1, <2>2, <1>a, SumStays
  <2>4. levels'[other] = levels[other]
    BY <1>3, LadderTypes DEF AddOrder, Link
  <2> QED BY <1>1, <2>3, <2>4 DEF TotalIs
<1>4. \A other \in PriceTicks : TotalIs(orders', levels', other)
  BY <1>2, <1>3
<1> QED BY <1>4 DEF Totals

LEMMA RemoveKeepsTotals ==
    ASSUME LadderTypeOK, LadderTypeOK', Totals,
           NEW order \in Memory, RemoveOrder(order)
    PROVE  Totals'
<1> USE LadderConstants
<1>a. orders \in [Memory -> Linked] /\ orders' \in [Memory -> Linked]
  BY DEF LadderTypeOK, Linked
<1>0. PICK price \in PriceTicks : price = orders[order].level
  BY AnyVolume DEF RemoveOrder, Resting
<1>1. ASSUME NEW other \in PriceTicks
      PROVE  /\ AtLevel(orders, other) = {o \in Memory : orders[o].level = other}
             /\ AtLevel(orders', other) = {o \in Memory : orders'[o].level = other}
             /\ TotalIs(orders, levels, other)
  BY DEF AtLevel, Totals
<1>2. TotalIs(orders', levels', price)
  <2>1. PICK f : f = VolumesOf(orders, price)
    OBVIOUS
  <2>2. PICK g : g = VolumesOf(orders', price)
    OBVIOUS
  <2>3. /\ Summable(f) /\ DOMAIN f = AtLevel(orders, price)
        /\ \A o \in DOMAIN f : f[o] = orders[o].volume
        /\ SumFunction(f) \in Int
    BY <2>1, <1>a, VolumesFacts
  <2>4. /\ Summable(g) /\ DOMAIN g = AtLevel(orders', price)
        /\ \A o \in DOMAIN g : g[o] = orders'[o].volume
        /\ SumFunction(g) \in Int
    BY <2>2, <1>a, VolumesFacts
  <2>5. AtLevel(orders, price) = AtLevel(orders', price) \cup {order} /\ order \notin AtLevel(orders', price)
    BY <1>0, <1>1, RemoveEffect DEF Free
  <2>6. f[order] = orders[order].volume /\ f[order] \in Int /\ \A o \in DOMAIN g : f[o] = g[o]
    <3>1. f[order] = orders[order].volume /\ f[order] \in Int
      BY <2>3, <2>5, AnyVolume
    <3>2. ASSUME NEW o \in DOMAIN g
          PROVE  f[o] = g[o]
      <4>1. o \in Memory /\ o # order /\ o \in DOMAIN f
        BY <1>1, <2>3, <2>4, <2>5
      <4>2. orders'[o].volume = orders[o].volume
        BY <4>1, RemoveEffect
      <4> QED BY <2>3, <2>4, <4>1, <4>2
    <3> QED BY <3>1, <3>2
  <2>7. SumFunction(f) = SumFunction(g) + f[order]
    BY <2>3, <2>4, <2>5, <2>6, SumFunctionInsert
  <2>8. levels'[price].totalVolume = (levels[price].totalVolume - f[order]) % VolumeModulus
    BY <1>0, <2>6, LadderTypes DEF RemoveOrder, RemovedVolume
  <2>9. levels[price].totalVolume = SumFunction(f) % VolumeModulus
    BY <1>1, <2>1 DEF TotalIs
  <2>10. levels'[price].totalVolume = (SumFunction(f) - f[order]) % VolumeModulus
    BY <2>3, <2>6, <2>8, <2>9, WrappedLeave
  <2>11. SumFunction(f) - f[order] = SumFunction(g)
    BY <2>3, <2>4, <2>6, <2>7
  <2> QED BY <2>2, <2>10, <2>11 DEF TotalIs
<1>3. ASSUME NEW other \in PriceTicks, other # price
      PROVE  TotalIs(orders', levels', other)
  <2>1. AtLevel(orders', other) = AtLevel(orders, other) /\ order \notin AtLevel(orders, other)
    <3>1. ASSUME NEW o \in Memory
          PROVE  orders'[o].level = other <=> orders[o].level = other
      <4>1. CASE o = order
        BY <1>0, <1>3, <4>1, RemoveEffect DEF Free
      <4>2. CASE o # order
        BY <4>2, RemoveEffect
      <4> QED BY <4>1, <4>2
    <3> QED BY <1>0, <1>1, <1>3, <3>1
  <2>2. \A o \in AtLevel(orders, other) : orders'[o].volume = orders[o].volume
    BY <1>1, <2>1, RemoveEffect
  <2>3. SumFunction(VolumesOf(orders', other)) =
            SumFunction(VolumesOf(orders, other))
    BY <2>1, <2>2, <1>a, SumStays
  <2>4. levels'[other] = levels[other]
    BY <1>0, <1>3, LadderTypes DEF RemoveOrder
  <2> QED BY <1>1, <2>3, <2>4 DEF TotalIs
<1>4. \A other \in PriceTicks : TotalIs(orders', levels', other)
  BY <1>2, <1>3
<1> QED BY <1>4 DEF Totals

LEMMA ModifyKeepsTotals ==
    ASSUME LadderTypeOK, LadderTypeOK', Totals,
           NEW order \in Memory, NEW newVolume \in Volumes,
           ModifyOrderVolume(order, newVolume)
    PROVE  Totals'
<1> USE LadderConstants
<1>a. orders \in [Memory -> Linked] /\ orders' \in [Memory -> Linked]
  BY DEF LadderTypeOK, Linked
<1>0. PICK price \in PriceTicks : price = orders[order].level
  BY AnyVolume DEF ModifyOrderVolume, Resting
<1>1. ASSUME NEW other \in PriceTicks
      PROVE  /\ AtLevel(orders, other) = {o \in Memory : orders[o].level = other}
             /\ AtLevel(orders', other) = {o \in Memory : orders'[o].level = other}
             /\ TotalIs(orders, levels, other)
  BY DEF AtLevel, Totals
<1>2. ASSUME NEW other \in PriceTicks
      PROVE  AtLevel(orders', other) = AtLevel(orders, other)
  <2>1. \A o \in Memory : orders'[o].level = orders[o].level
    BY ModifyEffect
  <2>2. \A o \in Memory : orders'[o].level = other <=> orders[o].level = other
    BY <2>1
  <2>3. {o \in Memory : orders'[o].level = other} = {o \in Memory : orders[o].level = other}
    BY <2>2
  <2> QED BY <2>3 DEF AtLevel
<1>3. TotalIs(orders', levels', price)
  <2>1. PICK f : f = VolumesOf(orders, price)
    OBVIOUS
  <2>2. PICK g : g = VolumesOf(orders', price)
    OBVIOUS
  <2>3. /\ Summable(f) /\ DOMAIN f = AtLevel(orders, price)
        /\ \A o \in DOMAIN f : f[o] = orders[o].volume
        /\ SumFunction(f) \in Int
    BY <2>1, <1>a, VolumesFacts
  <2>4. /\ DOMAIN g = AtLevel(orders', price)
        /\ \A o \in DOMAIN g : g[o] = orders'[o].volume
    BY <2>2, <1>a, VolumesFacts
  <2>5. DOMAIN g = DOMAIN f /\ order \in DOMAIN f
    BY <1>0, <1>1, <1>2, <2>3, <2>4
  <2>6. /\ f[order] = orders[order].volume /\ f[order] \in Int
        /\ g[order] = newVolume /\ newVolume \in Int
        /\ \A o \in DOMAIN f : o # order => g[o] = f[o]
    <3>1. f[order] = orders[order].volume /\ f[order] \in Int /\ newVolume \in Int
      BY <2>3, <2>5, AnyVolume
    <3>2. g[order] = newVolume
      BY <2>4, <2>5, ModifyEffect
    <3>3. ASSUME NEW o \in DOMAIN f, o # order
          PROVE  g[o] = f[o]
      <4>1. o \in Memory
        BY <1>1, <2>3
      <4>2. orders'[o] = orders[o]
        BY <3>3, <4>1, ModifyEffect
      <4> QED BY <2>3, <2>4, <2>5, <4>2
    <3> QED BY <3>1, <3>2, <3>3
  <2>7. SumFunction(g) = SumFunction(f) + (newVolume - f[order])
    BY <2>3, <2>5, <2>6, SumFunctionChange
  <2>8. levels'[price].totalVolume =
            (levels[price].totalVolume - f[order] + newVolume) % VolumeModulus
    BY <1>0, <2>6, ModifyLevels DEF ModifiedVolume
  <2>9. levels[price].totalVolume = SumFunction(f) % VolumeModulus
    BY <1>1, <2>1 DEF TotalIs
  <2>10. levels'[price].totalVolume = (SumFunction(f) + (newVolume - f[order])) % VolumeModulus
    <3>1. PICK sum \in Int, old \in Int : sum = SumFunction(f) /\ old = f[order]
      BY <2>3, <2>6
    <3>2. PICK total \in Int : total = levels[price].totalVolume
      BY <1>a, LadderTypes
    <3>3. PICK v \in Int : v = newVolume - old
      BY <2>6
    <3>4. (total + v) % VolumeModulus = (sum + v) % VolumeModulus
      BY <2>9, <3>1, <3>2, WrappedJoin
    <3>5. total + v = total - old + newVolume
      BY <2>6, <3>3
    <3> QED BY <2>8, <3>1, <3>2, <3>3, <3>4, <3>5
  <2> QED BY <2>2, <2>7, <2>10 DEF TotalIs
<1>4. ASSUME NEW other \in PriceTicks, other # price
      PROVE  TotalIs(orders', levels', other)
  <2>1. \A o \in AtLevel(orders, other) : orders'[o].volume = orders[o].volume
    BY <1>0, <1>1, <1>4, ModifyEffect
  <2>2. SumFunction(VolumesOf(orders', other)) =
            SumFunction(VolumesOf(orders, other))
    BY <1>2, <2>1, <1>a, SumStays
  <2>3. levels'[other] = levels[other]
    BY <1>0, <1>4, LadderTypes DEF ModifyOrderVolume
  <2> QED BY <1>1, <2>2, <2>3 DEF TotalIs
<1>5. \A other \in PriceTicks : TotalIs(orders', levels', other)
  BY <1>3, <1>4
<1> QED BY <1>5 DEF Totals

-----------------------------------------------------------------------------
(* The index.                                                              *)

LEMMA AddKeepsIndex ==
    ASSUME LadderTypeOK, IndexAgrees,
           NEW order \in Memory, NEW id \in OrderIds, NEW side \in Sides,
           NEW price \in PriceTicks, NEW volume \in Volumes,
           AddOrder(order, id, side, price, volume)
    PROVE  IndexAgrees'
<1> USE LadderConstants
<1>1. SUFFICES ASSUME ~doubled'
               PROVE  /\ (DOMAIN orderIndex)' = ExistingIds'
                      /\ \A o \in Resting' : orderIndex'[orders'[o].orderId] = o
  BY DEF IndexAgrees
<1>2. ~doubled /\ id \notin ExistingIds
  BY <1>1 DEF AddOrder, LadderTypeOK
<1>3. /\ DOMAIN orderIndex = ExistingIds
      /\ \A o \in Resting : orderIndex[orders[o].orderId] = o
  BY <1>2 DEF IndexAgrees
<1>4. /\ (DOMAIN orderIndex)' = ExistingIds \cup {id}
      /\ orderIndex'[id] = order
      /\ \A i \in ExistingIds : orderIndex'[i] = orderIndex[i]
  BY <1>2, <1>3 DEF AddOrder, Index
<1>5. order \notin Resting /\ Resting' = Resting \cup {order}
  <2>1. order \notin Resting
    BY DEF AddOrder
  <2>2. ASSUME NEW o \in Memory
        PROVE  o \in Resting' <=> o \in Resting \/ o = order
    <3>1. CASE o = order
      BY <3>1, AddEffect DEF Resting
    <3>2. CASE o # order
      BY <3>2, AddEffect DEF Resting
    <3> QED BY <3>1, <3>2
  <2> QED BY <2>1, <2>2 DEF Resting
<1>6. /\ orders'[order].orderId = id
      /\ \A o \in Resting : orders'[o].orderId = orders[o].orderId
  BY <1>5, AddEffect DEF Resting
<1>7. ExistingIds' = ExistingIds \cup {id}
  BY <1>5, <1>6 DEF ExistingIds
<1>8. ASSUME NEW o \in Resting'
      PROVE  orderIndex'[orders'[o].orderId] = o
  <2>1. CASE o = order
    BY <1>4, <1>6, <2>1
  <2>2. CASE o # order
    <3>1. o \in Resting /\ orders[o].orderId \in ExistingIds
      BY <1>5, <2>2 DEF ExistingIds
    <3> QED BY <1>3, <1>4, <1>6, <3>1
  <2> QED BY <2>1, <2>2
<1> QED BY <1>4, <1>7, <1>8

LEMMA RemoveKeepsIndex ==
    ASSUME LadderTypeOK, IndexAgrees, NEW order \in Memory, RemoveOrder(order)
    PROVE  IndexAgrees'
<1> USE LadderConstants
<1>1. SUFFICES ASSUME ~doubled'
               PROVE  /\ (DOMAIN orderIndex)' = ExistingIds'
                      /\ \A o \in Resting' : orderIndex'[orders'[o].orderId] = o
  BY DEF IndexAgrees
<1>2. /\ DOMAIN orderIndex = ExistingIds
      /\ \A o \in Resting : orderIndex[orders[o].orderId] = o
  BY <1>1 DEF IndexAgrees, RemoveOrder
<1> DEFINE id == orders[order].orderId
<1>3. /\ (DOMAIN orderIndex)' = ExistingIds \ {id}
      /\ \A i \in ExistingIds \ {id} : orderIndex'[i] = orderIndex[i]
  BY <1>2 DEF RemoveOrder, Forget
<1>4. order \in Resting /\ Resting' = Resting \ {order}
  <2>1. order \in Resting
    BY DEF RemoveOrder
  <2>2. ASSUME NEW o \in Memory
        PROVE  o \in Resting' <=> o \in Resting /\ o # order
    <3>1. CASE o = order
      BY <3>1, RemoveEffect DEF Resting, Free
    <3>2. CASE o # order
      BY <3>2, RemoveEffect DEF Resting
    <3> QED BY <3>1, <3>2
  <2> QED BY <2>1, <2>2 DEF Resting
<1>5. \A o \in Resting' : orders'[o].orderId = orders[o].orderId
  BY <1>4, RemoveEffect DEF Resting
<1>6. \A o \in Resting' : orders[o].orderId # id
  BY <1>2, <1>4
<1>7. ExistingIds' = ExistingIds \ {id}
  <2>1. ExistingIds' = {orders[o].orderId : o \in Resting'}
    BY <1>5 DEF ExistingIds
  <2>2. ExistingIds = {orders[o].orderId : o \in Resting}
    BY DEF ExistingIds
  <2> QED BY <1>4, <1>6, <2>1, <2>2
<1>8. ASSUME NEW o \in Resting'
      PROVE  orderIndex'[orders'[o].orderId] = o
  <2>1. o \in Resting /\ orders[o].orderId \in ExistingIds \ {id}
    BY <1>4, <1>6 DEF ExistingIds
  <2> QED BY <1>2, <1>3, <1>5, <2>1
<1> QED BY <1>3, <1>7, <1>8

LEMMA ModifyKeepsIndex ==
    ASSUME LadderTypeOK, IndexAgrees, NEW order \in Memory, NEW newVolume \in Volumes,
           ModifyOrderVolume(order, newVolume)
    PROVE  IndexAgrees'
<1>1. Resting' = Resting
  BY ModifyEffect DEF Resting
<1>2. \A o \in Resting : orders'[o].orderId = orders[o].orderId
  BY ModifyEffect DEF Resting
<1>3. ExistingIds' = ExistingIds
  BY <1>1, <1>2 DEF ExistingIds
<1>4. doubled' = doubled /\ orderIndex' = orderIndex
  BY DEF ModifyOrderVolume
<1> QED BY <1>1, <1>2, <1>3, <1>4 DEF IndexAgrees

-----------------------------------------------------------------------------
(* The ladder.                                                             *)

LEMMA AddKeeps ==
    ASSUME LadderInv,
           NEW order \in Memory, NEW id \in OrderIds, NEW side \in Sides,
           NEW price \in PriceTicks, NEW volume \in Volumes,
           AddOrder(order, id, side, price, volume)
    PROVE  LadderInv'
<1>1. LadderTypeOK /\ Chains /\ Totals /\ IndexAgrees
  BY DEF LadderInv
<1>2. LadderTypeOK'
  BY <1>1, AddKeepsTypes
<1>3. Totals'
  BY <1>1, <1>2, AddKeepsTotals
<1>4. IndexAgrees'
  BY <1>1, AddKeepsIndex
<1>5. PICK own : Chained(orders, levels[price], price, own)
  BY <1>1 DEF Chains
<1>6. ASSUME NEW other \in PriceTicks
      PROVE  \E s : Chained(orders', levels'[other], other, s)
  <2>1. CASE other = price
    BY <1>1, <1>5, <2>1, AddChains
  <2>2. CASE other # price
    <3>1. PICK s : Chained(orders, levels[other], other, s)
      BY <1>1 DEF Chains
    <3> QED BY <1>1, <1>5, <2>2, <3>1, AddElsewhere
  <2> QED BY <2>1, <2>2
<1> QED BY <1>2, <1>3, <1>4, <1>6 DEF LadderInv, Chains

LEMMA RemoveKeeps ==
    ASSUME LadderInv, NEW order \in Memory, RemoveOrder(order)
    PROVE  LadderInv'
<1>1. LadderTypeOK /\ Chains /\ Totals /\ IndexAgrees
  BY DEF LadderInv
<1>2. LadderTypeOK'
  BY <1>1, RemoveKeepsTypes
<1>3. Totals'
  BY <1>1, <1>2, RemoveKeepsTotals
<1>4. IndexAgrees'
  BY <1>1, RemoveKeepsIndex
<1>5. PICK price \in PriceTicks : price = orders[order].level
  BY <1>1, AnyVolume DEF RemoveOrder, Resting
<1>6. PICK own : Chained(orders, levels[price], price, own)
  BY <1>1 DEF Chains
<1>7. PICK k \in 1..Len(own) : own[k] = order
  BY <1>5, <1>6 DEF Chained
<1>8. ASSUME NEW other \in PriceTicks
      PROVE  \E s : Chained(orders', levels'[other], other, s)
  <2>1. CASE other = price
    BY <1>1, <1>5, <1>6, <1>7, <2>1, RemoveChains
  <2>2. CASE other # price
    <3>1. PICK s : Chained(orders, levels[other], other, s)
      BY <1>1 DEF Chains
    <3> QED BY <1>1, <1>5, <1>6, <2>2, <3>1, RemoveElsewhere
  <2> QED BY <2>1, <2>2
<1> QED BY <1>2, <1>3, <1>4, <1>8 DEF LadderInv, Chains

LEMMA ModifyKeeps ==
    ASSUME LadderInv, NEW order \in Memory, NEW newVolume \in Volumes,
           ModifyOrderVolume(order, newVolume)
    PROVE  LadderInv'
<1>1. LadderTypeOK /\ Chains /\ Totals /\ IndexAgrees
  BY DEF LadderInv
<1>2. LadderTypeOK'
  BY <1>1, ModifyKeepsTypes
<1>3. Totals'
  BY <1>1, <1>2, ModifyKeepsTotals
<1>4. IndexAgrees'
  BY <1>1, ModifyKeepsIndex
<1>5. ASSUME NEW price \in PriceTicks
      PROVE  \E s : Chained(orders', levels'[price], price, s)
  <2>1. PICK s : Chained(orders, levels[price], price, s)
    BY <1>1 DEF Chains
  <2> QED BY <1>1, <2>1, ModifyChains
<1> QED BY <1>2, <1>3, <1>4, <1>5 DEF LadderInv, Chains

LEMMA LadderNextKeeps ==
    ASSUME LadderInv, [LadderNext]_ladderVars
    PROVE  LadderInv'
<1>1. ASSUME NEW order \in Memory, NEW id \in OrderIds, NEW side \in Sides,
             NEW price \in PriceTicks, NEW volume \in Volumes,
             AddOrder(order, id, side, price, volume)
      PROVE  LadderInv'
  BY <1>1, AddKeeps
<1>2. ASSUME NEW order \in Memory, RemoveOrder(order) PROVE LadderInv'
  BY <1>2, RemoveKeeps
<1>3. ASSUME NEW order \in Memory, NEW newVolume \in Volumes,
             ModifyOrderVolume(order, newVolume)
      PROVE  LadderInv'
  BY <1>3, ModifyKeeps
<1>4. CASE UNCHANGED ladderVars
  BY <1>4 DEF ladderVars, LadderInv, LadderTypeOK, Chains, Totals, IndexAgrees,
              ExistingIds, Resting
<1> QED BY <1>1, <1>2, <1>3, <1>4 DEF LadderNext

\* What the chains say of each order and each level.
LEMMA ChainsLink ==
    ASSUME LadderTypeOK, Chains
    PROVE  LinksAgree
<1> USE LadderConstants
<1>1. ASSUME NEW order \in Resting
      PROVE  LET o == orders[order] IN
             /\ IF o.prev = Null THEN levels[o.level].head = order
                ELSE orders[o.prev].next = order /\ orders[o.prev].level = o.level
             /\ IF o.next = Null THEN levels[o.level].tail = order
                ELSE orders[o.next].prev = order /\ orders[o.next].level = o.level
  <2>1. PICK price \in PriceTicks : price = orders[order].level
    BY AnyVolume DEF Resting
  <2>2. PICK s : Chained(orders, levels[price], price, s)
    BY DEF Chains
  <2>3. s \in Seq(Memory) /\ Len(s) \in Nat
    BY <2>2, LenProperties DEF Chained
  <2>4. PICK k \in 1..Len(s) : order = s[k]
    BY <2>1, <2>2 DEF Chained, Resting
  <2>5. \A i \in 1..Len(s) :
            /\ s[i] \in Memory
            /\ orders[s[i]].level = price
            /\ orders[s[i]].prev = (IF i = 1 THEN Null ELSE s[i - 1])
            /\ orders[s[i]].next = (IF i = Len(s) THEN Null ELSE s[i + 1])
    BY <2>2, <2>3, ElementOfSeq DEF Chained
  <2>6. levels[price].head = s[1] /\ levels[price].tail = s[Len(s)]
    BY <2>2, <2>3 DEF Chained
  <2>7. IF orders[order].prev = Null THEN levels[price].head = order
        ELSE orders[orders[order].prev].next = order
             /\ orders[orders[order].prev].level = price
    <3>1. CASE k = 1
      BY <2>4, <2>5, <2>6, <3>1
    <3>2. CASE k # 1
      <4>1. k - 1 \in 1..Len(s) /\ k - 1 # Len(s) /\ (k - 1) + 1 = k
        BY <2>3, <3>2
      <4> QED BY <2>4, <2>5, <3>2, <4>1
    <3> QED BY <3>1, <3>2
  <2>8. IF orders[order].next = Null THEN levels[price].tail = order
        ELSE orders[orders[order].next].prev = order
             /\ orders[orders[order].next].level = price
    <3>1. CASE k = Len(s)
      BY <2>4, <2>5, <2>6, <3>1
    <3>2. CASE k # Len(s)
      <4>1. k + 1 \in 1..Len(s) /\ k + 1 # 1 /\ (k + 1) - 1 = k
        BY <2>3, <3>2
      <4> QED BY <2>4, <2>5, <3>2, <4>1
    <3> QED BY <3>1, <3>2
  <2> QED BY <2>1, <2>7, <2>8
<1>2. ASSUME NEW price \in PriceTicks
      PROVE  (levels[price].head = Null) <=> (levels[price].tail = Null)
  <2>1. PICK s : Chained(orders, levels[price], price, s)
    BY DEF Chains
  <2>2. s \in Seq(Memory) /\ Len(s) \in Nat
    BY <2>1, LenProperties DEF Chained
  <2>3. Len(s) # 0 => s[1] \in Memory /\ s[Len(s)] \in Memory
    <3>1. Len(s) # 0 => 1 \in 1..Len(s) /\ Len(s) \in 1..Len(s)
      BY <2>2
    <3> QED BY <2>2, <3>1, ElementOfSeq
  <2> QED BY <2>1, <2>3 DEF Chained
<1> QED BY <1>1, <1>2 DEF LinksAgree

LEMMA LadderInvAgrees == LadderInv => LadderAgrees
<1> SUFFICES ASSUME LadderInv PROVE LadderAgrees
  OBVIOUS
<1>1. LinksAgree
  BY ChainsLink DEF LadderInv
<1>2. ASSUME NEW price \in PriceTicks
      PROVE  levels[price].totalVolume =
                 SumFunction([order \in RestingAt(price) |-> orders[order].volume])
                     % VolumeModulus
  <2>1. RestingAt(price) = AtLevel(orders, price)
    BY LadderConstants DEF RestingAt, Resting, AtLevel
  <2>2. [order \in RestingAt(price) |-> orders[order].volume] = VolumesOf(orders, price)
    BY <2>1 DEF VolumesOf
  <2>3. TotalIs(orders, levels, price)
    BY DEF LadderInv, Totals
  <2> QED BY <2>2, <2>3 DEF TotalIs
<1> QED BY <1>1, <1>2 DEF LadderAgrees, LadderInv, VolumeIsTotal

LEMMA LadderInvariant == LadderSpec => []LadderInv
<1>1. LadderInit => LadderInv
  BY InitLadderInv
<1>2. LadderInv /\ [LadderNext]_ladderVars => LadderInv'
  BY LadderNextKeeps
<1> QED BY <1>1, <1>2, PTL DEF LadderSpec

\* However orders come, go and change, the ladder is one structure: an order is
\* linked to its neighbours and they to it, so that it can be taken out wherever
\* it stands; a level's volume is what its orders add up to; and the index finds
\* every order.
THEOREM LadderIsOneStructure == LadderSpec => []LadderAgrees
BY LadderInvariant, LadderInvAgrees, PTL

-----------------------------------------------------------------------------
(* What the queries walk along.                                            *)

\* A walk from the head leads along the chain.
LEMMA ChainUnique ==
    ASSUME NEW at, NEW level, NEW price,
           NEW s, Chained(at, level, price, s), NEW t, Chained(at, level, price, t)
    PROVE  s = t
<1> USE LadderConstants
<1>1. /\ s \in Seq(Memory) /\ Len(s) \in Nat /\ DOMAIN s = 1..Len(s)
      /\ t \in Seq(Memory) /\ Len(t) \in Nat /\ DOMAIN t = 1..Len(t)
      /\ \A i \in 1..Len(s) : s[i] \in Memory
      /\ \A i \in 1..Len(t) : t[i] \in Memory
  BY LenProperties, ElementOfSeq DEF Chained
<1>2. /\ \A i \in 1..Len(s) : at[s[i]].next = (IF i = Len(s) THEN Null ELSE s[i + 1])
      /\ \A i \in 1..Len(t) : at[t[i]].next = (IF i = Len(t) THEN Null ELSE t[i + 1])
      /\ level.head = (IF Len(s) = 0 THEN Null ELSE s[1])
      /\ level.head = (IF Len(t) = 0 THEN Null ELSE t[1])
  BY DEF Chained
<1>0. Len(s) \in Nat /\ Len(t) \in Nat
  BY <1>1
<1> DEFINE Good == {n \in 0..Len(s) : n = 0 \/ (n <= Len(t) /\ s[n] = t[n])}
<1>3. 0..Len(s) \subseteq Good
  <2>1. 0 \in Good
    BY <1>1
  <2>2. ASSUME NEW n \in 0..Len(s), n + 1 <= Len(s), n \in Good
        PROVE  n + 1 \in Good
    <3>1. n + 1 \in 0..Len(s) /\ n + 1 \in 1..Len(s) /\ s[n + 1] # Null
      BY <1>1, <2>2
    <3>2. CASE n = 0
      <4>1. Len(s) # 0 /\ s[1] # Null
        BY <1>1, <3>1, <3>2
      <4>2. Len(t) # 0 /\ s[1] = t[1]
        BY <1>2, <4>1
      <4> QED BY <1>1, <3>1, <3>2, <4>2
    <3>3. CASE n # 0
      <4>0. n <= Len(t) /\ s[n] = t[n] /\ n \in Nat /\ 1 <= n /\ n < Len(s)
        BY <1>1, <2>2, <3>3
      <4>1. n \in 1..Len(s) /\ n \in 1..Len(t) /\ s[n] = t[n] /\ n # Len(s)
        BY <1>0, <4>0
      <4>2. at[s[n]].next = s[n + 1]
        BY <1>2, <4>1
      <4>3. n # Len(t) /\ s[n + 1] = t[n + 1]
        BY <1>2, <3>1, <4>1, <4>2
      <4>4. n + 1 <= Len(t)
        BY <1>0, <4>0, <4>3
      <4> QED BY <3>1, <4>3, <4>4
    <3> QED BY <3>2, <3>3
  <2> HIDE DEF Good
  <2> QED BY <1>1, <2>1, <2>2, IntervalInduction
<1>4. \A n \in 1..Len(s) : n <= Len(t) /\ s[n] = t[n]
  BY <1>1, <1>3
<1>5. Len(s) = Len(t)
  <2>1. CASE Len(s) = 0
    <3>1. Len(t) # 0 => 1 \in 1..Len(t)
      BY <1>1
    <3> QED BY <1>1, <1>2, <2>1, <3>1
  <2>2. CASE Len(s) # 0
    <3>1. Len(s) \in 1..Len(s)
      BY <1>1, <2>2
    <3>2. Len(s) <= Len(t) /\ s[Len(s)] = t[Len(s)]
      BY <1>4, <3>1
    <3>3. Len(s) \in 1..Len(t)
      BY <1>1, <3>1, <3>2
    <3>4. Len(s) # Len(t) => t[Len(s) + 1] \in Memory
      <4>1. Len(s) # Len(t) => Len(s) + 1 \in 1..Len(t)
        BY <1>0, <3>2, <3>3
      <4> QED BY <1>1, <4>1
    <3>5. at[s[Len(s)]].next = Null
      BY <1>2, <3>1
    <3> QED BY <1>2, <3>2, <3>3, <3>4, <3>5
  <2> QED BY <2>1, <2>2
<1> QED BY <1>1, <1>4, <1>5, SeqEqual

\* No list is longer than there are places.
LEMMA ChainFits ==
    ASSUME NEW at, NEW level, NEW price, NEW s, Chained(at, level, price, s)
    PROVE  Cardinality(Memory) \in Nat /\ Len(s) <= Cardinality(Memory)
<1> USE LadderConstants
<1>1. s \in [1..Len(s) -> Memory] /\ Len(s) \in Nat
  BY LenProperties DEF Chained
<1>2. \A i, j \in 1..Len(s) : s[i] = s[j] => i = j
  BY DEF Chained
<1>3. Cardinality(Memory) \in Nat
  BY FS_CardinalityType
<1>4. IsFiniteSet(1..Len(s)) /\ Cardinality(1..Len(s)) = Len(s)
  BY <1>1, FS_Interval
<1>5. SUFFICES ASSUME Cardinality(Memory) < Cardinality(1..Len(s)) PROVE FALSE
  BY <1>1, <1>3, <1>4
<1>6. \E i, j \in 1..Len(s) : i # j /\ s[i] = s[j]
  BY <1>1, <1>4, <1>5, FS_PigeonHole
<1> QED BY <1>2, <1>6

LEMMA ListIsChain ==
    ASSUME NEW price \in PriceTicks, NEW s, Chained(orders, levels[price], price, s)
    PROVE  List(price) = s
<1> USE LadderConstants
<1> DEFINE N == Cardinality(Memory)
           Step(f, i) == IF i = 1 THEN levels[price].head
                         ELSE IF f[i - 1] = Null THEN Null ELSE orders[f[i - 1]].next
           w == [i \in 1..N |-> IF i <= Len(s) THEN s[i] ELSE Null]
<1>1. /\ s \in Seq(Memory) /\ Len(s) \in Nat /\ s = [i \in 1..Len(s) |-> s[i]]
      /\ N \in Nat /\ Len(s) <= N
      /\ \A i \in 1..Len(s) : s[i] # Null
  <2>1. s \in Seq(Memory)
    BY DEF Chained
  <2>2. N \in Nat /\ Len(s) <= N
    BY ChainFits
  <2> HIDE DEF N
  <2> QED BY <2>1, <2>2, LenProperties, ElementOfSeq
<1>2. /\ \A i \in 1..Len(s) : orders[s[i]].next = (IF i = Len(s) THEN Null ELSE s[i + 1])
      /\ levels[price].head = (IF Len(s) = 0 THEN Null ELSE s[1])
  BY DEF Chained
<1> HIDE DEF N
<1>3. ASSUME NEW i \in 1..N
      PROVE  w[i] = Step(w, i)
  <2>1. CASE i = 1
    BY <1>1, <1>2, <2>1
  <2>2. CASE i # 1
    <3>1. i - 1 \in 1..N /\ (i - 1) + 1 = i
      BY <1>1, <2>2
    <3>2. w[i - 1] = IF i - 1 <= Len(s) THEN s[i - 1] ELSE Null
      BY <3>1
    <3>3. CASE i - 1 <= Len(s)
      <4>1. i - 1 \in 1..Len(s)
        BY <1>1, <3>1, <3>3
      <4>2. orders[s[i - 1]].next = (IF i - 1 = Len(s) THEN Null ELSE s[i])
        BY <1>2, <3>1, <4>1
      <4>3. i <= Len(s) <=> i - 1 # Len(s)
        BY <1>1, <3>3
      <4> QED BY <1>1, <2>2, <3>2, <3>3, <4>1, <4>2, <4>3
    <3>4. CASE ~ i - 1 <= Len(s)
      <4>1. ~ i <= Len(s)
        BY <1>1, <3>4
      <4> QED BY <2>2, <3>2, <3>4, <4>1
    <3> QED BY <3>3, <3>4
  <2> QED BY <2>1, <2>2
<1>4. PICK f : f = [i \in 1..N |-> Step(f, i)] /\ f = Walk(price)
  <2>1. w = [i \in 1..N |-> Step(w, i)]
    BY <1>3
  <2>2. Walk(price) = CHOOSE f : f = [i \in 1..N |-> Step(f, i)]
    BY DEF Walk, N
  <2> HIDE DEF w, Step
  <2> QED BY <2>1, <2>2
<1>5. \A i \in 1..N : f[i] = Step(f, i)
  BY <1>4
<1> DEFINE Good == {n \in 0..N : n = 0 \/ f[n] = w[n]}
<1>6. 0..N \subseteq Good
  <2>1. 0 \in Good
    BY <1>1
  <2>2. ASSUME NEW n \in 0..N, n + 1 <= N, n \in Good
        PROVE  n + 1 \in Good
    <3>1. n + 1 \in 1..N /\ n + 1 \in 0..N /\ (n + 1) - 1 = n /\ (n + 1 = 1 <=> n = 0)
      BY <1>1, <2>2
    <3>2. f[n + 1] = Step(f, n + 1) /\ w[n + 1] = Step(w, n + 1)
      BY <1>3, <1>5, <3>1
    <3>3. n # 0 => f[n] = w[n]
      BY <2>2
    <3> HIDE DEF w
    <3>4. Step(f, n + 1) = Step(w, n + 1)
      BY <3>1, <3>3
    <3> QED BY <3>1, <3>2, <3>4
  <2> HIDE DEF Good
  <2> QED BY <1>1, <2>1, <2>2, IntervalInduction
<1>7. \A n \in 1..N : f[n] = IF n <= Len(s) THEN s[n] ELSE Null
  <2>1. ASSUME NEW n \in 1..N
        PROVE  f[n] = w[n]
    <3>1. n \in 0..N /\ n # 0
      BY <1>1
    <3> QED BY <1>6, <3>1
  <2> QED BY <2>1
<1>8. DOMAIN f = 1..N
  BY <1>4
<1>9. {j \in DOMAIN f : f[j] # Null} = 1..Len(s)
  BY <1>1, <1>7, <1>8
<1>10. List(price) = [i \in 1..Len(s) |-> f[i]]
  <2>1. List(price) = [i \in {j \in DOMAIN f : f[j] # Null} |-> f[i]]
    BY <1>4 DEF List
  <2> QED BY <1>9, <2>1
<1>11. \A i \in 1..Len(s) : f[i] = s[i]
  BY <1>1, <1>7
<1> QED BY <1>1, <1>10, <1>11

\* The walk meets the orders of the level, in their order.
Listed == \A price \in PriceTicks : Chained(orders, levels[price], price, List(price))

LEMMA ListsAreChains == LadderInv => Listed
BY ListIsChain DEF LadderInv, Chains, Listed

-----------------------------------------------------------------------------
(* The lists as queues.                                                    *)

\* What a chain holds.
QueueOf(at, s) ==
    [i \in 1..Len(s) |-> [order |-> s[i], side |-> at[s[i]].side, volume |-> at[s[i]].volume]]

Queued == [order : Memory, side : Sides \cup {Null}, volume : Volumes \cup {0}]

LEMMA QueueOfFacts ==
    ASSUME NEW at \in [Memory -> Linked], NEW s \in Seq(Memory)
    PROVE  /\ QueueOf(at, s) \in Seq(Queued)
           /\ Len(QueueOf(at, s)) = Len(s)
           /\ DOMAIN QueueOf(at, s) = 1..Len(s)
           /\ \A i \in 1..Len(s) :
                 QueueOf(at, s)[i] =
                     [order |-> s[i], side |-> at[s[i]].side, volume |-> at[s[i]].volume]
<1>1. Len(s) \in Nat
  BY LenProperties
<1>2. ASSUME NEW i \in 1..Len(s)
      PROVE  [order |-> s[i], side |-> at[s[i]].side, volume |-> at[s[i]].volume] \in Queued
  <2>1. s[i] \in Memory
    BY ElementOfSeq
  <2>2. at[s[i]] \in Linked
    BY <2>1
  <2> QED BY <2>1, <2>2 DEF Linked, Queued
<1> QED BY <1>1, <1>2 DEF QueueOf

LEMMA QueueIsOfChain ==
    ASSUME NEW price \in PriceTicks, NEW s, Chained(orders, levels[price], price, s)
    PROVE  Queue(price) = QueueOf(orders, s)
<1>1. List(price) = s /\ DOMAIN s = 1..Len(s)
  BY ListIsChain, LenProperties DEF Chained
<1> QED BY <1>1 DEF Queue, QueueOf

\* Every queue holds what is on the chain of its level.
QueuesNow ==
    \A price \in PriceTicks :
        /\ Chained(orders, levels[price], price, List(price))
        /\ List(price) \in Seq(Memory)
        /\ Queue(price) = QueueOf(orders, List(price))

LEMMA QueuesAre == LadderInv => QueuesNow
BY ListsAreChains, QueueIsOfChain DEF Listed, Chained, QueuesNow

LEMMA RemoveAtIsWithout ==
    ASSUME NEW S, NEW q \in Seq(S), NEW k \in 1..Len(q)
    PROVE  Queues!RemoveAt(q, k) = Without(q, k)
<1>1. Len(q) \in Nat
  BY LenProperties
<1> DEFINE a == SubSeq(q, 1, k - 1)
           b == SubSeq(q, k + 1, Len(q))
<1>2. /\ a \in Seq(S) /\ Len(a) = k - 1
      /\ \A i \in 1..k - 1 : a[i] = q[i]
  <2>1. \A i \in 1..k - 1 : q[i] \in S
    BY <1>1, ElementOfSeq
  <2>2. a \in Seq(S) /\ Len(a) = (IF 1 <= k - 1 THEN (k - 1) - 1 + 1 ELSE 0)
        /\ \A i \in 1..(k - 1) - 1 + 1 : a[i] = q[1 + i - 1]
    BY <1>1, <2>1, SubSeqProperties
  <2> HIDE DEF a
  <2> QED BY <1>1, <2>2
<1>3. /\ b \in Seq(S) /\ Len(b) = Len(q) - k
      /\ \A i \in 1..Len(q) - k : b[i] = q[k + i]
  <2>1. \A i \in k + 1..Len(q) : q[i] \in S
    BY <1>1, ElementOfSeq
  <2>2. b \in Seq(S) /\ Len(b) = (IF k + 1 <= Len(q) THEN Len(q) - (k + 1) + 1 ELSE 0)
        /\ \A i \in 1..Len(q) - (k + 1) + 1 : b[i] = q[(k + 1) + i - 1]
    BY <1>1, <2>1, SubSeqProperties
  <2> HIDE DEF b
  <2>3. Len(q) - (k + 1) + 1 = Len(q) - k
    BY <1>1
  <2>4. Len(b) = Len(q) - k
    BY <1>1, <2>2
  <2>5. ASSUME NEW i \in 1..Len(q) - k
        PROVE  b[i] = q[k + i]
    <3>1. (k + 1) + i - 1 = k + i
      OBVIOUS
    <3> QED BY <2>2, <2>3, <3>1
  <2> QED BY <2>2, <2>4, <2>5
<1>4. Queues!RemoveAt(q, k) = a \o b
  BY DEF Queues!RemoveAt
<1> HIDE DEF a, b
<1>5. /\ a \o b \in Seq(S) /\ Len(a \o b) = Len(q) - 1
      /\ \A i \in 1..Len(q) - 1 : (a \o b)[i] = IF i <= k - 1 THEN a[i] ELSE b[i - (k - 1)]
  <2>1. Len(a) + Len(b) = Len(q) - 1
    BY <1>1, <1>2, <1>3
  <2>2. /\ a \o b \in Seq(S) /\ Len(a \o b) = Len(a) + Len(b)
        /\ \A i \in 1..Len(a) + Len(b) :
              (a \o b)[i] = IF i <= Len(a) THEN a[i] ELSE b[i - Len(a)]
    BY <1>2, <1>3, ConcatProperties
  <2> QED BY <1>2, <2>1, <2>2
<1>6. PICK c : c = a \o b
  OBVIOUS
<1>7. /\ Without(q, k) \in Seq(S) /\ Len(Without(q, k)) = Len(q) - 1
      /\ \A i \in 1..Len(q) - 1 : Without(q, k)[i] = IF i < k THEN q[i] ELSE q[i + 1]
  BY WithoutFacts
<1>8. ASSUME NEW i \in 1..Len(q) - 1
      PROVE  c[i] = Without(q, k)[i]
  <2>1. CASE i < k
    <3>1. i \in 1..k - 1 /\ i <= k - 1
      BY <1>1, <2>1
    <3> QED BY <1>2, <1>5, <1>6, <1>7, <2>1, <3>1
  <2>2. CASE ~ i < k
    <3>1. i - (k - 1) \in 1..Len(q) - k /\ k + (i - (k - 1)) = i + 1 /\ ~ i <= k - 1
      BY <1>1, <2>2
    <3> QED BY <1>3, <1>5, <1>6, <1>7, <2>2, <3>1
  <2> QED BY <2>1, <2>2
<1>9. c \in Seq(S) /\ Len(c) = Len(q) - 1
  BY <1>5, <1>6
<1> QED BY <1>4, <1>6, <1>7, <1>8, <1>9, SeqEqual

LEMMA InitQueues == LadderInit => Queues!Init
<1> SUFFICES ASSUME LadderInit PROVE Queues!Init
  OBVIOUS
<1>1. LadderInv
  BY InitLadderInv
<1>2. ASSUME NEW price \in PriceTicks
      PROVE  Queue(price) = <<>>
  <2>1. PICK s : Chained(orders, levels[price], price, s)
    BY <1>1 DEF LadderInv, Chains
  <2>2. s \in Seq(Memory) /\ Len(s) \in Nat
    BY <2>1, LenProperties DEF Chained
  <2>3. levels[price].head = Null
    BY DEF LadderInit
  <2>4. Len(s) = 0
    <3>1. Len(s) # 0 => 1 \in 1..Len(s)
      BY <2>2
    <3>2. Len(s) # 0 => s[1] \in Memory /\ s[1] = Null
      BY <2>1, <2>2, <2>3, <3>1, ElementOfSeq DEF Chained
    <3> QED BY <3>2, LadderConstants
  <2>5. Queue(price) = QueueOf(orders, s)
    BY <2>1, QueueIsOfChain
  <2> QED BY <2>4, <2>5 DEF QueueOf
<1> QED BY <1>2 DEF Queues!Init

\* The queues of the levels a step leaves alone.
LEMMA QueueStays ==
    ASSUME NEW at \in [Memory -> Linked], NEW after \in [Memory -> Linked],
           NEW s \in Seq(Memory),
           \A i \in 1..Len(s) : after[s[i]].side = at[s[i]].side
                                /\ after[s[i]].volume = at[s[i]].volume
    PROVE  QueueOf(after, s) = QueueOf(at, s)
BY DEF QueueOf

LEMMA AddJoins ==
    ASSUME LadderInv, LadderInv', QueuesNow, QueuesNow',
           NEW order \in Memory, NEW id \in OrderIds, NEW side \in Sides,
           NEW price \in PriceTicks, NEW volume \in Volumes,
           AddOrder(order, id, side, price, volume)
    PROVE  Queues!Join(price, order, side, volume)
<1> USE LadderConstants
<1>1. LadderTypeOK /\ LadderTypeOK'
      /\ orders \in [Memory -> Linked] /\ orders' \in [Memory -> Linked]
  BY DEF LadderInv, LadderTypeOK, Linked
<1>2. ASSUME NEW p \in PriceTicks
      PROVE  /\ Chained(orders, levels[p], p, List(p))
             /\ List(p) \in Seq(Memory)
             /\ Queue(p) = QueueOf(orders, List(p))
             /\ \A i \in 1..Len(List(p)) : List(p)[i] \in Memory \ {order}
  <2>1. /\ Chained(orders, levels[p], p, List(p))
        /\ List(p) \in Seq(Memory)
        /\ Queue(p) = QueueOf(orders, List(p))
    BY DEF QueuesNow
  <2>2. orders[order].level # p
    BY <1>1, AddEffect
  <2> QED BY <2>1, <2>2, ChainsApart, ElementOfSeq
<1>3. ASSUME NEW p \in PriceTicks
      PROVE  /\ Chained(orders', levels'[p], p, List(p)')
             /\ Queue(p)' = QueueOf(orders', List(p)')
  BY DEF QueuesNow
<1>4. ASSUME NEW p \in PriceTicks, NEW i \in DOMAIN Queue(p)
      PROVE  Queue(p)[i].order # order
  <2>1. PICK s \in Seq(Memory) : s = List(p) /\ Queue(p) = QueueOf(orders, s)
    BY <1>2
  <2>2. /\ DOMAIN QueueOf(orders, s) = 1..Len(s)
        /\ \A j \in 1..Len(s) : QueueOf(orders, s)[j] =
              [order |-> s[j], side |-> orders[s[j]].side, volume |-> orders[s[j]].volume]
    BY <1>1, QueueOfFacts
  <2>3. i \in 1..Len(s)
    BY <2>1, <2>2
  <2>4. Queue(p)[i].order = s[i]
    BY <2>1, <2>2, <2>3
  <2> QED BY <1>2, <2>1, <2>3, <2>4
<1>5. Queue(price)' = Append(Queue(price), [order |-> order, side |-> side, volume |-> volume])
  <2> DEFINE new == [order |-> order, side |-> side, volume |-> volume]
  <2>1. PICK s : s = List(price)
    OBVIOUS
  <2>2. PICK t : t = Append(s, order)
    OBVIOUS
  <2>3. Chained(orders, levels[price], price, s) /\ s \in Seq(Memory)
        /\ Queue(price) = QueueOf(orders, s)
        /\ \A i \in 1..Len(s) : s[i] \in Memory \ {order}
    BY <1>2, <2>1
  <2>4. Chained(orders', levels'[price], price, t)
    BY <1>1, <2>2, <2>3, AddChains
  <2>5. List(price)' = t
    BY <1>3, <2>4, ChainUnique
  <2>6. /\ t \in Seq(Memory) /\ Len(t) = Len(s) + 1 /\ Len(s) \in Nat
        /\ t[Len(s) + 1] = order
        /\ \A i \in 1..Len(s) : t[i] = s[i]
    BY <2>2, <2>3, AppendProperties, LenProperties
  <2>7. PICK q : q = QueueOf(orders, s)
    OBVIOUS
  <2>8. PICK r : r = QueueOf(orders', t)
    OBVIOUS
  <2>9. /\ q \in Seq(Queued) /\ Len(q) = Len(s)
        /\ \A i \in 1..Len(s) :
              q[i] = [order |-> s[i], side |-> orders[s[i]].side, volume |-> orders[s[i]].volume]
    BY <1>1, <2>3, <2>7, QueueOfFacts
  <2>10. /\ r \in Seq(Queued) /\ Len(r) = Len(t)
         /\ \A i \in 1..Len(t) :
              r[i] = [order |-> t[i], side |-> orders'[t[i]].side, volume |-> orders'[t[i]].volume]
    BY <1>1, <2>6, <2>8, QueueOfFacts
  <2>11. new \in Queued
    BY DEF Queued
  <2> HIDE DEF new
  <2>12. PICK a : a = Append(q, new)
    OBVIOUS
  <2>13. /\ a \in Seq(Queued) /\ Len(a) = Len(q) + 1 /\ a[Len(q) + 1] = new
         /\ \A i \in 1..Len(q) : a[i] = q[i]
    BY <2>9, <2>11, <2>12, AppendProperties
  <2>14. ASSUME NEW i \in 1..Len(r)
         PROVE  r[i] = a[i]
    <3>1. CASE i = Len(s) + 1
      <4>1. r[i] = [order |-> order, side |-> orders'[order].side, volume |-> orders'[order].volume]
        BY <2>6, <2>10, <3>1
      <4>2. orders'[order].side = side /\ orders'[order].volume = volume
        BY <1>1, AddEffect
      <4> QED BY <2>9, <2>13, <3>1, <4>1, <4>2 DEF new
    <3>2. CASE i # Len(s) + 1
      <4>1. i \in 1..Len(s) /\ i \in 1..Len(t)
        BY <2>6, <2>10, <3>2
      <4>2. r[i] = [order |-> s[i], side |-> orders'[s[i]].side, volume |-> orders'[s[i]].volume]
        BY <2>6, <2>10, <4>1
      <4>3. s[i] \in Memory \ {order}
        BY <2>3, <4>1
      <4>4. orders'[s[i]].side = orders[s[i]].side /\ orders'[s[i]].volume = orders[s[i]].volume
        BY <1>1, <4>3, AddEffect
      <4> QED BY <2>9, <2>13, <4>1, <4>2, <4>4
    <3> QED BY <3>1, <3>2
  <2>15. r = a
    BY <2>6, <2>9, <2>10, <2>13, <2>14, SeqEqual
  <2>16. Queue(price)' = r
    BY <1>3, <2>5, <2>8
  <2> QED BY <2>3, <2>7, <2>12, <2>15, <2>16 DEF new
<1>6. ASSUME NEW p \in PriceTicks, p # price
      PROVE  Queue(p)' = Queue(p)
  <2>1. PICK s : s = List(p)
    OBVIOUS
  <2>2. Chained(orders, levels[p], p, s) /\ s \in Seq(Memory)
        /\ Queue(p) = QueueOf(orders, s)
        /\ \A i \in 1..Len(s) : s[i] \in Memory \ {order}
    BY <1>2, <2>1
  <2>3. Chained(orders, levels[price], price, List(price))
    BY <1>2
  <2>4. Chained(orders', levels'[p], p, s)
    BY <1>1, <1>6, <2>2, <2>3, AddElsewhere
  <2>5. List(p)' = s
    BY <1>3, <2>4, ChainUnique
  <2>6. QueueOf(orders', s) = QueueOf(orders, s)
    BY <1>1, <2>2, AddEffect, QueueStays
  <2> QED BY <1>3, <2>2, <2>5, <2>6
<1> DEFINE queues == [p \in PriceTicks |-> Queue(p)]
<1>7. \A p \in PriceTicks : \A i \in DOMAIN queues[p] : queues[p][i].order # order
  BY <1>4
<1>8. queues' = [queues EXCEPT ![price] =
                     Append(@, [order |-> order, side |-> side, volume |-> volume])]
  BY <1>5, <1>6
<1> QED BY <1>7, <1>8 DEF Queues!Join

LEMMA RemoveLeaves ==
    ASSUME LadderInv, LadderInv', QueuesNow, QueuesNow',
           NEW order \in Memory, RemoveOrder(order)
    PROVE  \E price \in PriceTicks : \E k \in DOMAIN Queue(price) : Queues!Leave(price, k)
<1> USE LadderConstants
<1>1. LadderTypeOK /\ LadderTypeOK'
      /\ orders \in [Memory -> Linked] /\ orders' \in [Memory -> Linked]
  BY DEF LadderInv, LadderTypeOK, Linked
<1>2. ASSUME NEW p \in PriceTicks
      PROVE  /\ Chained(orders, levels[p], p, List(p))
             /\ List(p) \in Seq(Memory)
             /\ Queue(p) = QueueOf(orders, List(p))
  BY DEF QueuesNow
<1>3. ASSUME NEW p \in PriceTicks
      PROVE  /\ Chained(orders', levels'[p], p, List(p)')
             /\ Queue(p)' = QueueOf(orders', List(p)')
  BY DEF QueuesNow
<1>4. PICK price \in PriceTicks : price = orders[order].level
  BY <1>1, AnyVolume DEF RemoveOrder, Resting
<1>5. PICK s : s = List(price)
  OBVIOUS
<1>6. Chained(orders, levels[price], price, s) /\ s \in Seq(Memory) /\ Len(s) \in Nat
      /\ Queue(price) = QueueOf(orders, s)
  BY <1>2, <1>5, LenProperties
<1>7. PICK k \in 1..Len(s) : s[k] = order
  BY <1>4, <1>6 DEF Chained
<1>8. PICK q : q = QueueOf(orders, s)
  OBVIOUS
<1>9. /\ q \in Seq(Queued) /\ Len(q) = Len(s) /\ DOMAIN q = 1..Len(s)
      /\ \A i \in 1..Len(s) :
            q[i] = [order |-> s[i], side |-> orders[s[i]].side, volume |-> orders[s[i]].volume]
  BY <1>1, <1>6, <1>8, QueueOfFacts
<1>10. Queue(price)' = Queues!RemoveAt(Queue(price), k)
  <2>1. PICK t : t = Without(s, k)
    OBVIOUS
  <2>2. Chained(orders', levels'[price], price, t)
    BY <1>1, <1>4, <1>6, <1>7, <2>1, RemoveChains
  <2>3. List(price)' = t
    BY <1>3, <2>2, ChainUnique
  <2>4. /\ t \in Seq(Memory) /\ Len(t) = Len(s) - 1
        /\ \A i \in 1..Len(s) - 1 : t[i] = IF i < k THEN s[i] ELSE s[i + 1]
    BY <1>6, <2>1, WithoutFacts
  <2>5. PICK r : r = QueueOf(orders', t)
    OBVIOUS
  <2>6. /\ r \in Seq(Queued) /\ Len(r) = Len(t)
        /\ \A i \in 1..Len(t) :
              r[i] = [order |-> t[i], side |-> orders'[t[i]].side, volume |-> orders'[t[i]].volume]
    <3>1. t \in Seq(Memory)
      BY <2>4
    <3> QED BY <1>1, <2>5, <3>1, QueueOfFacts
  <2>7. PICK w : w = Without(q, k)
    OBVIOUS
  <2>8. /\ w \in Seq(Queued) /\ Len(w) = Len(q) - 1
        /\ \A i \in 1..Len(q) - 1 : w[i] = IF i < k THEN q[i] ELSE q[i + 1]
    <3>1. q \in Seq(Queued) /\ k \in 1..Len(q)
      BY <1>9
    <3> QED BY <2>7, <3>1, WithoutFacts
  <2>9. ASSUME NEW j \in 1..Len(s), j # k
        PROVE  orders'[s[j]].side = orders[s[j]].side /\ orders'[s[j]].volume = orders[s[j]].volume
    <3>1. s[j] \in Memory /\ s[j] # order
      BY <1>6, <1>7, <2>9, ElementOfSeq DEF Chained
    <3> QED BY <1>1, <3>1, RemoveEffect
  <2>10. ASSUME NEW i \in 1..Len(s) - 1
         PROVE  r[i] = w[i]
    <3>1. PICK j \in 1..Len(s) : j = IF i < k THEN i ELSE i + 1
      BY <1>6
    <3>2. j # k /\ t[i] = s[j] /\ w[i] = q[j]
      <4>1. j # k
        BY <1>6, <3>1
      <4>2. t[i] = s[j]
        BY <2>4, <3>1
      <4>3. w[i] = q[j]
        BY <1>9, <2>8, <3>1
      <4> QED BY <4>1, <4>2, <4>3
    <3>3. r[i] = [order |-> s[j], side |-> orders'[s[j]].side, volume |-> orders'[s[j]].volume]
      BY <2>4, <2>6, <3>2
    <3>4. q[j] = [order |-> s[j], side |-> orders[s[j]].side, volume |-> orders[s[j]].volume]
      BY <1>9
    <3> QED BY <2>9, <3>2, <3>3, <3>4
  <2>11. r = w
    BY <1>9, <2>4, <2>6, <2>8, <2>10, SeqEqual
  <2>12. Queues!RemoveAt(q, k) = w
    BY <1>9, <2>7, RemoveAtIsWithout
  <2>13. Queue(price)' = r
    BY <1>3, <2>3, <2>5
  <2> QED BY <1>6, <1>8, <2>11, <2>12, <2>13
<1>11. ASSUME NEW p \in PriceTicks, p # price
       PROVE  Queue(p)' = Queue(p)
  <2>1. PICK o : o = List(p)
    OBVIOUS
  <2>2. Chained(orders, levels[p], p, o) /\ o \in Seq(Memory) /\ Queue(p) = QueueOf(orders, o)
    BY <1>2, <2>1
  <2>3. Chained(orders', levels'[p], p, o)
    BY <1>1, <1>4, <1>6, <1>11, <2>2, RemoveElsewhere
  <2>4. List(p)' = o
    BY <1>3, <2>3, ChainUnique
  <2>5. \A i \in 1..Len(o) : o[i] \in Memory \ {order}
    BY <1>4, <1>11, <2>2, ChainsApart, ElementOfSeq
  <2>6. QueueOf(orders', o) = QueueOf(orders, o)
    <3>1. \A i \in 1..Len(o) : orders'[o[i]].side = orders[o[i]].side
                               /\ orders'[o[i]].volume = orders[o[i]].volume
      BY <1>1, <2>5, RemoveEffect
    <3> QED BY <1>1, <2>2, <3>1, QueueStays
  <2> QED BY <1>3, <2>2, <2>4, <2>6
<1> DEFINE queues == [p \in PriceTicks |-> Queue(p)]
<1>12. queues' = [queues EXCEPT ![price] = Queues!RemoveAt(@, k)]
  BY <1>10, <1>11
<1>13. k \in DOMAIN Queue(price)
  BY <1>6, <1>8, <1>9
<1> QED BY <1>12, <1>13 DEF Queues!Leave

LEMMA ModifyResizes ==
    ASSUME LadderInv, LadderInv', QueuesNow, QueuesNow',
           NEW order \in Memory, NEW newVolume \in Volumes,
           ModifyOrderVolume(order, newVolume)
    PROVE  \E price \in PriceTicks : \E k \in DOMAIN Queue(price) :
               Queues!Resize(price, k, newVolume)
<1> USE LadderConstants
<1>1. LadderTypeOK /\ LadderTypeOK'
      /\ orders \in [Memory -> Linked] /\ orders' \in [Memory -> Linked]
  BY DEF LadderInv, LadderTypeOK, Linked
<1>2. ASSUME NEW p \in PriceTicks
      PROVE  /\ Chained(orders, levels[p], p, List(p))
             /\ List(p) \in Seq(Memory)
             /\ Queue(p) = QueueOf(orders, List(p))
  BY DEF QueuesNow
<1>3. ASSUME NEW p \in PriceTicks
      PROVE  Queue(p)' = QueueOf(orders', List(p))
  <2>1. Chained(orders', levels'[p], p, List(p)') /\ Queue(p)' = QueueOf(orders', List(p)')
    BY DEF QueuesNow
  <2>2. PICK s : s = List(p)
    OBVIOUS
  <2>3. Chained(orders', levels'[p], p, s)
    BY <1>1, <1>2, <2>2, ModifyChains
  <2>4. List(p)' = s
    BY <2>1, <2>3, ChainUnique
  <2> QED BY <2>1, <2>2, <2>4
<1>4. PICK price \in PriceTicks : price = orders[order].level
  BY <1>1, AnyVolume DEF ModifyOrderVolume, Resting
<1>5. PICK s : s = List(price)
  OBVIOUS
<1>6. Chained(orders, levels[price], price, s) /\ s \in Seq(Memory) /\ Len(s) \in Nat
      /\ Queue(price) = QueueOf(orders, s) /\ Queue(price)' = QueueOf(orders', s)
  BY <1>2, <1>3, <1>5, LenProperties
<1>7. PICK k \in 1..Len(s) : s[k] = order
  BY <1>4, <1>6 DEF Chained
<1>8. PICK q : q = QueueOf(orders, s)
  OBVIOUS
<1>9. PICK r : r = QueueOf(orders', s)
  OBVIOUS
<1>10. /\ DOMAIN q = 1..Len(s) /\ q \in Seq(Queued) /\ Len(q) = Len(s)
       /\ \A i \in 1..Len(s) :
             q[i] = [order |-> s[i], side |-> orders[s[i]].side, volume |-> orders[s[i]].volume]
  BY <1>1, <1>6, <1>8, QueueOfFacts
<1>11. /\ r \in Seq(Queued) /\ Len(r) = Len(s)
       /\ \A i \in 1..Len(s) :
             r[i] = [order |-> s[i], side |-> orders'[s[i]].side, volume |-> orders'[s[i]].volume]
  BY <1>1, <1>6, <1>9, QueueOfFacts
<1>12. r[k] = [q[k] EXCEPT !.volume = newVolume] /\ r[k] \in Queued
  <2>1. orders'[order].side = orders[order].side /\ orders'[order].volume = newVolume
    BY <1>1, ModifyEffect
  <2>2. r[k] \in Queued
    BY <1>11, ElementOfSeq
  <2>3. q[k] = [order |-> order, side |-> orders[order].side, volume |-> orders[order].volume]
    BY <1>7, <1>10
  <2>4. r[k] = [order |-> order, side |-> orders[order].side, volume |-> newVolume]
    BY <1>7, <1>11, <2>1
  <2> QED BY <2>2, <2>3, <2>4
<1>13. ASSUME NEW i \in 1..Len(s), i # k
       PROVE  r[i] = q[i]
  <2>1. s[i] \in Memory /\ s[i] # order
    BY <1>6, <1>7, <1>13, ElementOfSeq DEF Chained
  <2>2. orders'[s[i]] = orders[s[i]]
    BY <1>1, <2>1, ModifyEffect
  <2> QED BY <1>10, <1>11, <2>2
<1>14. r = [q EXCEPT ![k] = [q[k] EXCEPT !.volume = newVolume]]
  <2>1. PICK e \in Queued : e = r[k]
    BY <1>12
  <2>2. PICK c : c = [q EXCEPT ![k] = e]
    OBVIOUS
  <2>3. /\ c \in Seq(Queued) /\ Len(c) = Len(s)
        /\ \A i \in 1..Len(s) : c[i] = IF i = k THEN e ELSE q[i]
    BY <1>10, <2>1, <2>2, ExceptSeq
  <2>4. \A i \in 1..Len(s) : r[i] = c[i]
    BY <1>13, <2>1, <2>3
  <2>5. r = c
    BY <1>11, <2>3, <2>4, SeqEqual
  <2> QED BY <1>12, <2>1, <2>2, <2>5
<1>15. ASSUME NEW p \in PriceTicks, p # price
       PROVE  Queue(p)' = Queue(p)
  <2>1. PICK o : o = List(p)
    OBVIOUS
  <2>2. Chained(orders, levels[p], p, o) /\ o \in Seq(Memory)
        /\ Queue(p) = QueueOf(orders, o) /\ Queue(p)' = QueueOf(orders', o)
    BY <1>2, <1>3, <2>1
  <2>3. \A i \in 1..Len(o) : o[i] \in Memory /\ o[i] # order
    BY <1>4, <1>15, <2>2, ChainsApart, ElementOfSeq
  <2>4. \A i \in 1..Len(o) : orders'[o[i]] = orders[o[i]]
    BY <1>1, <2>3, ModifyEffect
  <2>5. QueueOf(orders', o) = QueueOf(orders, o)
    BY <1>1, <2>2, <2>4, QueueStays
  <2> QED BY <2>2, <2>5
<1> DEFINE queues == [p \in PriceTicks |-> Queue(p)]
<1>16. Queue(price)' = [Queue(price) EXCEPT ![k] = [Queue(price)[k] EXCEPT !.volume = newVolume]]
  BY <1>6, <1>8, <1>9, <1>14
<1>17. queues' = [queues EXCEPT ![price][k].volume = newVolume]
  BY <1>15, <1>16
<1>18. k \in DOMAIN Queue(price)
  BY <1>6, <1>8, <1>10
<1> QED BY <1>17, <1>18 DEF Queues!Resize

LEMMA StepRefines ==
    ASSUME LadderInv, LadderInv', QueuesNow, QueuesNow', [LadderNext]_ladderVars
    PROVE  [Queues!Next]_[price \in PriceTicks |-> Queue(price)]
<1> USE LadderConstants
<1> DEFINE queues == [price \in PriceTicks |-> Queue(price)]
<1>1. ASSUME NEW order \in Memory, NEW id \in OrderIds, NEW side \in Sides,
             NEW price \in PriceTicks, NEW volume \in Volumes,
             AddOrder(order, id, side, price, volume)
      PROVE  Queues!Next
  <2>1. Queues!Join(price, order, side, volume)
    BY <1>1, AddJoins
  <2> QED BY <2>1 DEF Queues!Next
<1>2. ASSUME NEW order \in Memory, RemoveOrder(order)
      PROVE  Queues!Next
  <2>1. PICK price \in PriceTicks : \E k \in DOMAIN Queue(price) : Queues!Leave(price, k)
    BY <1>2, RemoveLeaves
  <2>2. PICK k \in DOMAIN Queue(price) : Queues!Leave(price, k)
    BY <2>1
  <2>3. k \in DOMAIN queues[price]
    OBVIOUS
  <2> QED BY <2>2, <2>3 DEF Queues!Next
<1>3. ASSUME NEW order \in Memory, NEW newVolume \in Volumes,
             ModifyOrderVolume(order, newVolume)
      PROVE  Queues!Next
  <2>1. PICK price \in PriceTicks :
            \E k \in DOMAIN Queue(price) : Queues!Resize(price, k, newVolume)
    BY <1>3, ModifyResizes
  <2>2. PICK k \in DOMAIN Queue(price) : Queues!Resize(price, k, newVolume)
    BY <2>1
  <2>3. k \in DOMAIN queues[price]
    OBVIOUS
  <2> QED BY <2>2, <2>3 DEF Queues!Next
<1>4. CASE UNCHANGED ladderVars
  <2>1. \A price \in PriceTicks : Queue(price)' = Queue(price)
    BY <1>4 DEF ladderVars, Queue, List, Walk
  <2> QED BY <2>1
<1> QED BY <1>1, <1>2, <1>3, <1>4 DEF LadderNext

\* The intrusive lists, which only ever change a few links, are at every price a
\* queue by time of arrival: an order joins at the end, leaves from wherever it
\* stands and keeps its place when its volume changes.
THEOREM LadderImplementsQueues == LadderSpec => ImplementsLadderQueues
<1>1. LadderSpec => []LadderInv
  BY LadderInvariant
<1>2. LadderInv => QueuesNow
  BY QueuesAre
<1>3. LadderInit => Queues!Init
  BY InitQueues
<1>4. LadderInv /\ LadderInv' /\ QueuesNow /\ QueuesNow' /\ [LadderNext]_ladderVars
      => [Queues!Next]_[price \in PriceTicks |-> Queue(price)]
  BY StepRefines
<1> QED BY <1>1, <1>2, <1>3, <1>4, PTL DEF LadderSpec, ImplementsLadderQueues, Queues!Spec

-----------------------------------------------------------------------------
(* Prices by depth.                                                        *)

\* The members of H that come before i.
Ahead(H, i) == {j \in H : j < i}

LEMMA LeastOf ==
    ASSUME NEW S \in SUBSET Nat, S # {}
    PROVE  \E i \in S : \A j \in S : i <= j
<1>1. PICK i \in S : \A j \in S : ~ (<<j, i>> \in OpToRel(<, Nat))
  BY NatLessThanWellFounded, WFMin
<1>2. \A j \in S : ~ (j < i)
  BY <1>1 DEF OpToRel
<1> QED BY <1>2

LEMMA AheadFacts ==
    ASSUME NEW n \in Nat, NEW H \in SUBSET (1..n)
    PROVE  /\ IsFiniteSet(H) /\ Cardinality(H) \in Nat
           /\ \A i \in Int : IsFiniteSet(Ahead(H, i)) /\ Cardinality(Ahead(H, i)) \in Nat
           /\ Cardinality(Ahead(H, 1)) = 0
           /\ Ahead(H, n + 1) = H
           /\ \A i \in 1..n : Cardinality(Ahead(H, i + 1)) =
                  Cardinality(Ahead(H, i)) + (IF i \in H THEN 1 ELSE 0)
<1>1. IsFiniteSet(1..n)
  BY FS_Interval
<1>2. IsFiniteSet(H) /\ \A i \in Int : IsFiniteSet(Ahead(H, i))
  BY <1>1, FS_Subset DEF Ahead
<1>3. Cardinality(H) \in Nat /\ \A i \in Int : Cardinality(Ahead(H, i)) \in Nat
  BY <1>2, FS_CardinalityType
<1>a. \A j \in H : j \in Int /\ 1 <= j /\ j <= n
  OBVIOUS
<1>b. \A j \in H : ~ j < 1 /\ j < n + 1
  BY <1>a
<1>4. Ahead(H, 1) = {} /\ Ahead(H, n + 1) = H
  BY <1>b DEF Ahead
<1>5. ASSUME NEW i \in 1..n
      PROVE  Cardinality(Ahead(H, i + 1)) =
                 Cardinality(Ahead(H, i)) + (IF i \in H THEN 1 ELSE 0)
  <2>1. i \notin Ahead(H, i) /\ i \in Int
    BY DEF Ahead
  <2>a. \A j \in H : j < i + 1 <=> j < i \/ j = i
    BY <1>a
  <2>2. CASE i \in H
    <3>1. Ahead(H, i + 1) = Ahead(H, i) \cup {i}
      <4>1. ~ i < i
        OBVIOUS
      <4> QED BY <2>a, <2>2, <4>1 DEF Ahead
    <3> QED BY <1>2, <2>1, <2>2, <3>1, FS_AddElement
  <2>3. CASE i \notin H
    <3>1. Ahead(H, i + 1) = Ahead(H, i)
      BY <2>a, <2>3 DEF Ahead
    <3> QED BY <1>3, <2>1, <2>3, <3>1
  <2> QED BY <2>2, <2>3
<1> QED BY <1>2, <1>3, <1>4, <1>5, FS_EmptySet

\* For every depth there is, some member has that many ahead of it; and only
\* for those.
LEMMA SomeoneAtDepth ==
    ASSUME NEW n \in Nat, NEW H \in SUBSET (1..n), NEW depth \in Nat
    PROVE  depth < Cardinality(H) <=> \E i \in H : Cardinality(Ahead(H, i)) = depth
<1> DEFINE C(i) == Cardinality(Ahead(H, i))
<1>1. /\ IsFiniteSet(H) /\ Cardinality(H) \in Nat /\ C(1) = 0 /\ C(n + 1) = Cardinality(H)
      /\ \A i \in 1..n + 1 : C(i) \in Nat
      /\ \A i \in 1..n : C(i + 1) = C(i) + (IF i \in H THEN 1 ELSE 0)
  BY AheadFacts
<1>2. ASSUME NEW i \in H, C(i) = depth
      PROVE  depth < Cardinality(H)
  <2>1. i \in 1..n
    OBVIOUS
  <2>2. Ahead(H, i) \in SUBSET (H \ {i})
    BY <2>1 DEF Ahead
  <2>3. IsFiniteSet(H \ {i}) /\ Cardinality(H \ {i}) = Cardinality(H) - 1
    BY <1>1, FS_RemoveElement
  <2>4. C(i) <= Cardinality(H) - 1
    BY <2>2, <2>3, FS_Subset
  <2> QED BY <1>1, <1>2, <2>1, <2>4
<1>3. ASSUME depth < Cardinality(H)
      PROVE  \E i \in H : C(i) = depth
  <2> HIDE DEF C
  <2> DEFINE Good == {m \in 0..n : depth < C(m + 1) => \E i \in H : C(i) = depth}
  <2>1. 0 \in Good
    BY <1>1
  <2>2. ASSUME NEW m \in 0..n, m + 1 <= n, m \in Good
        PROVE  m + 1 \in Good
    <3>1. m + 1 \in 1..n /\ m + 1 \in 0..n /\ (m + 1) + 1 = m + 2
      BY <2>2
    <3>2. C((m + 1) + 1) = C(m + 1) + (IF m + 1 \in H THEN 1 ELSE 0)
      BY <1>1, <3>1
    <3>3. C(m + 1) \in Nat
      BY <1>1, <3>1
    <3>4. SUFFICES ASSUME depth < C((m + 1) + 1), ~ depth < C(m + 1)
                   PROVE  \E i \in H : C(i) = depth
      BY <2>2, <3>1
    <3>5. m + 1 \in H /\ C(m + 1) = depth
      BY <3>2, <3>3, <3>4
    <3> QED BY <3>5
  <2>3. n \in Good
    <3> HIDE DEF Good
    <3>1. 0..n \subseteq Good
      BY <2>1, <2>2, IntervalInduction
    <3> QED BY <3>1
  <2> QED BY <1>1, <1>3, <2>3
<1> QED BY <1>2, <1>3

\* As many values as arguments, if no two arguments have the same value.
LEMMA ImageCount ==
    ASSUME NEW S, IsFiniteSet(S), NEW f, \A x, y \in S : f[x] = f[y] => x = y
    PROVE  Cardinality({f[x] : x \in S}) = Cardinality(S)
<1> DEFINE g == [x \in S |-> f[x]]
           T == {f[x] : x \in S}
<1>1. g \in Surjection(S, T)
  BY DEF Surjection
<1>2. g \in Injection(S, T)
  BY DEF Injection, IsInjective
<1>3. g \in Bijection(S, T)
  BY <1>1, <1>2 DEF Bijection
<1>4. ExistsBijection(S, T)
  BY <1>3 DEF ExistsBijection
<1> QED BY <1>4, FS_Bijection

\* The price of a's level comes before that of b's on a side.
ComesBefore(side, a, b) == IF side = "Buy" THEN a > b ELSE a < b

\* A level has an order of a side if the walk along its list meets one.
LEMMA HasIsResting ==
    ASSUME LadderInv, NEW price \in PriceTicks, NEW side \in Sides
    PROVE  HasOrdersOfSide(price, side) <=> price \in RestingPrices(side)
<1> USE LadderConstants
<1>1. PICK s : s = List(price)
  OBVIOUS
<1>2. Chained(orders, levels[price], price, s)
  BY <1>1, ListsAreChains DEF Listed
<1>3. s \in Seq(Memory) /\ DOMAIN s = 1..Len(s) /\ \A i \in 1..Len(s) : s[i] \in Memory
  BY <1>2, LenProperties, ElementOfSeq DEF Chained
<1>4. \A i \in 1..Len(s) : orders[s[i]].level = price
  BY <1>2 DEF Chained
<1>5. \A order \in Memory : orders[order].level = price => \E i \in 1..Len(s) : order = s[i]
  BY <1>2 DEF Chained
<1>6. HasOrdersOfSide(price, side) <=>
          \E i \in 1..Len(s) : storage.sides => orders[s[i]].side = side
  BY <1>1, <1>3 DEF HasOrdersOfSide
<1>7. price \in RestingPrices(side) <=>
          \E order \in Memory : orders[order].level = price
                                /\ (storage.sides => orders[order].side = side)
  BY DEF RestingPrices, Resting
<1>8. ASSUME NEW i \in 1..Len(s), storage.sides => orders[s[i]].side = side
      PROVE  \E order \in Memory : orders[order].level = price
                                   /\ (storage.sides => orders[order].side = side)
  BY <1>3, <1>4, <1>8
<1>9. ASSUME NEW order \in Memory, orders[order].level = price,
             storage.sides => orders[order].side = side
      PROVE  \E i \in 1..Len(s) : storage.sides => orders[s[i]].side = side
  <2>1. PICK i \in 1..Len(s) : order = s[i]
    BY <1>5, <1>9
  <2> QED BY <1>9, <2>1
<1> QED BY <1>6, <1>7, <1>8, <1>9

\* The levels of a side are all levels, the better ones first.
LEMMA SideLevelsFacts ==
    ASSUME NEW side \in Sides, NEW n, n = Cardinality(PriceTicks)
    PROVE  /\ n \in Nat
           /\ DOMAIN SideLevels(side) = 1..n
           /\ \A i \in 1..n : SideLevels(side)[i] \in PriceTicks
           /\ \A price \in PriceTicks : \E i \in 1..n : SideLevels(side)[i] = price
           /\ \A i, j \in 1..n : ComesBefore(side, SideLevels(side)[i], SideLevels(side)[j]) <=> i < j
           /\ \A i, j \in 1..n : SideLevels(side)[i] = SideLevels(side)[j] => i = j
<1> USE LadderConstants
<1>1. n = MaxPrice - MinPrice + 1 /\ n \in Nat
  BY FS_Interval DEF PriceTicks
<1>2. SideLevels(side) =
          [i \in 1..n |-> IF side = "Buy" THEN MaxPrice + 1 - i ELSE MinPrice - 1 + i]
  BY DEF SideLevels
<1>3. side = "Buy" \/ side = "Sell"
  BY DEF Sides
<1>4. CASE side = "Buy"
  <2>1. \A i \in 1..n : SideLevels(side)[i] = MaxPrice + 1 - i
    BY <1>2, <1>4
  <2>2. \A i \in 1..n : MaxPrice + 1 - i \in PriceTicks
    BY <1>1 DEF PriceTicks
  <2>3. ASSUME NEW price \in PriceTicks
        PROVE  \E i \in 1..n : SideLevels(side)[i] = price
    <3>1. MaxPrice + 1 - price \in 1..n /\ MaxPrice + 1 - (MaxPrice + 1 - price) = price
      BY <1>1 DEF PriceTicks
    <3> QED BY <2>1, <3>1
  <2>4. ASSUME NEW i \in 1..n, NEW j \in 1..n
        PROVE  /\ SideLevels(side)[i] > SideLevels(side)[j] <=> i < j
               /\ SideLevels(side)[i] = SideLevels(side)[j] => i = j
    <3>1. SideLevels(side)[i] = MaxPrice + 1 - i /\ SideLevels(side)[j] = MaxPrice + 1 - j
      BY <2>1
    <3>2. (MaxPrice + 1 - i > MaxPrice + 1 - j <=> i < j)
          /\ (MaxPrice + 1 - i = MaxPrice + 1 - j => i = j)
      OBVIOUS
    <3> QED BY <3>1, <3>2
  <2> QED BY <1>1, <1>2, <1>4, <2>1, <2>2, <2>3, <2>4 DEF ComesBefore
<1>5. CASE side # "Buy"
  <2>1. \A i \in 1..n : SideLevels(side)[i] = MinPrice - 1 + i
    BY <1>2, <1>5
  <2>2. \A i \in 1..n : MinPrice - 1 + i \in PriceTicks
    BY <1>1 DEF PriceTicks
  <2>3. ASSUME NEW price \in PriceTicks
        PROVE  \E i \in 1..n : SideLevels(side)[i] = price
    <3>1. price - MinPrice + 1 \in 1..n /\ MinPrice - 1 + (price - MinPrice + 1) = price
      BY <1>1 DEF PriceTicks
    <3> QED BY <2>1, <3>1
  <2>4. ASSUME NEW i \in 1..n, NEW j \in 1..n
        PROVE  /\ SideLevels(side)[i] < SideLevels(side)[j] <=> i < j
               /\ SideLevels(side)[i] = SideLevels(side)[j] => i = j
    <3>1. SideLevels(side)[i] = MinPrice - 1 + i /\ SideLevels(side)[j] = MinPrice - 1 + j
      BY <2>1
    <3>2. (MinPrice - 1 + i < MinPrice - 1 + j <=> i < j)
          /\ (MinPrice - 1 + i = MinPrice - 1 + j => i = j)
      OBVIOUS
    <3> QED BY <3>1, <3>2
  <2> QED BY <1>1, <1>2, <1>5, <2>1, <2>2, <2>3, <2>4 DEF ComesBefore
<1> QED BY <1>4, <1>5

\* The loop's counter is the number of levels with orders it has passed.
LEMMA CountIsAhead ==
    ASSUME LadderInv, NEW side \in Sides, NEW n, n = Cardinality(PriceTicks),
           NEW H, H = {i \in 1..n : SideLevels(side)[i] \in RestingPrices(side)}
    PROVE  \A i \in 1..n : NonEmptyCount(side)[i] = Cardinality(Ahead(H, i))
<1> DEFINE Step(f, i) == IF i = 1 THEN 0
                         ELSE f[i - 1] + (IF HasOrdersOfSide(SideLevels(side)[i - 1], side)
                                          THEN 1 ELSE 0)
           w == [i \in 1..n |-> Cardinality(Ahead(H, i))]
<1>1. n \in Nat /\ H \in SUBSET (1..n) /\ \A i \in 1..n : SideLevels(side)[i] \in PriceTicks
  BY SideLevelsFacts
<1>2. \A i \in 1..n : HasOrdersOfSide(SideLevels(side)[i], side) <=> i \in H
  BY <1>1, HasIsResting
<1>3. /\ Cardinality(Ahead(H, 1)) = 0
      /\ \A i \in 1..n : Cardinality(Ahead(H, i + 1)) =
                             Cardinality(Ahead(H, i)) + (IF i \in H THEN 1 ELSE 0)
  <2>1. ASSUME NEW K \in SUBSET (1..n)
        PROVE  /\ Cardinality(Ahead(K, 1)) = 0
               /\ \A i \in 1..n : Cardinality(Ahead(K, i + 1)) =
                                      Cardinality(Ahead(K, i)) + (IF i \in K THEN 1 ELSE 0)
    BY <1>1, AheadFacts
  <2> QED BY <1>1, <2>1
<1>4. ASSUME NEW i \in 1..n
      PROVE  w[i] = Step(w, i)
  <2>1. CASE i = 1
    BY <1>3, <2>1
  <2>2. CASE i # 1
    <3>1. i - 1 \in 1..n /\ (i - 1) + 1 = i
      BY <1>1, <2>2
    <3>2. Cardinality(Ahead(H, i)) =
              Cardinality(Ahead(H, i - 1)) + (IF i - 1 \in H THEN 1 ELSE 0)
      BY <1>3, <3>1
    <3>3. w[i - 1] = Cardinality(Ahead(H, i - 1)) /\ w[i] = Cardinality(Ahead(H, i))
      BY <3>1
    <3> HIDE DEF w
    <3> QED BY <1>2, <2>2, <3>1, <3>2, <3>3
  <2> QED BY <2>1, <2>2
<1>5. PICK f : f = [i \in 1..n |-> Step(f, i)] /\ f = NonEmptyCount(side)
  <2>1. w = [i \in 1..n |-> Step(w, i)]
    BY <1>4
  <2>2. NonEmptyCount(side) = CHOOSE f : f = [i \in 1..n |-> Step(f, i)]
    BY DEF NonEmptyCount
  <2> HIDE DEF w, Step
  <2> QED BY <2>1, <2>2
<1>6. \A i \in 1..n : f[i] = Step(f, i)
  BY <1>5
<1> DEFINE Good == {m \in 0..n : m = 0 \/ f[m] = w[m]}
<1>7. 0..n \subseteq Good
  <2>1. 0 \in Good
    BY <1>1
  <2>2. ASSUME NEW m \in 0..n, m + 1 <= n, m \in Good
        PROVE  m + 1 \in Good
    <3>1. m + 1 \in 1..n /\ m + 1 \in 0..n /\ (m + 1) - 1 = m /\ (m + 1 = 1 <=> m = 0)
      BY <1>1, <2>2
    <3>2. f[m + 1] = Step(f, m + 1) /\ w[m + 1] = Step(w, m + 1)
      BY <1>4, <1>6, <3>1
    <3>3. m # 0 => f[m] = w[m]
      BY <2>2
    <3> HIDE DEF w
    <3>4. Step(f, m + 1) = Step(w, m + 1)
      BY <3>1, <3>3
    <3> QED BY <3>1, <3>2, <3>4
  <2> HIDE DEF Good
  <2> QED BY <1>1, <2>1, <2>2, IntervalInduction
<1>8. ASSUME NEW i \in 1..n
      PROVE  f[i] = w[i]
  <2>1. i \in 0..n /\ i # 0
    BY <1>1
  <2> QED BY <1>7, <2>1
<1> QED BY <1>5, <1>8

\* The loop stops at the level with as many levels of the side ahead of it as
\* were asked for, if there is one.
LEMMA PriceAtDepth ==
    ASSUME LadderInv, NEW side \in Sides, NEW depth \in Nat,
           NEW n, n = Cardinality(PriceTicks),
           NEW H, H = {i \in 1..n : SideLevels(side)[i] \in RestingPrices(side)}
    PROVE  IF depth < Cardinality(H)
           THEN \E i \in H : /\ Cardinality(Ahead(H, i)) = depth
                             /\ GetPriceAtDepth(side, depth) = SideLevels(side)[i]
           ELSE GetPriceAtDepth(side, depth) = Null
<1>1. /\ n \in Nat /\ DOMAIN SideLevels(side) = 1..n
      /\ \A i \in 1..n : SideLevels(side)[i] \in PriceTicks
  BY SideLevelsFacts
<1>2. H \in SUBSET (1..n)
  OBVIOUS
<1>3. PICK hits : hits = {i \in DOMAIN SideLevels(side) :
                              HasOrdersOfSide(SideLevels(side)[i], side)
                              /\ NonEmptyCount(side)[i] = depth}
  OBVIOUS
<1>4. GetPriceAtDepth(side, depth) =
          IF hits = {} THEN Null
          ELSE SideLevels(side)[CHOOSE i \in hits : \A j \in hits : i <= j]
  BY <1>3 DEF GetPriceAtDepth
<1>5. \A i \in 1..n : NonEmptyCount(side)[i] = Cardinality(Ahead(H, i))
  BY CountIsAhead
<1>6. \A i \in 1..n : HasOrdersOfSide(SideLevels(side)[i], side) <=> i \in H
  BY <1>1, HasIsResting
<1>7. \A i : i \in hits <=> i \in H /\ Cardinality(Ahead(H, i)) = depth
  BY <1>1, <1>2, <1>3, <1>5, <1>6
<1>8. depth < Cardinality(H) <=> \E i \in H : Cardinality(Ahead(H, i)) = depth
  <2>1. ASSUME NEW K \in SUBSET (1..n)
        PROVE  depth < Cardinality(K) <=> \E i \in K : Cardinality(Ahead(K, i)) = depth
    BY <1>1, SomeoneAtDepth
  <2> QED BY <1>2, <2>1
<1>9. depth < Cardinality(H) <=> hits # {}
  BY <1>7, <1>8
<1>10. CASE hits = {}
  BY <1>4, <1>9, <1>10
<1>11. CASE hits # {}
  <2>1. hits \in SUBSET Nat
    <3>1. \A i \in 1..n : i \in Nat
      BY <1>1
    <3>2. \A i \in hits : i \in 1..n
      BY <1>2, <1>7
    <3> QED BY <3>1, <3>2
  <2>2. \E i \in hits : \A j \in hits : i <= j
    BY <1>11, <2>1, LeastOf
  <2>3. PICK i \in hits : i = CHOOSE k \in hits : \A j \in hits : k <= j
    BY <2>2
  <2>4. GetPriceAtDepth(side, depth) = SideLevels(side)[i]
    BY <1>4, <1>11, <2>3
  <2>5. i \in H /\ Cardinality(Ahead(H, i)) = depth
    BY <1>7
  <2>6. depth < Cardinality(H)
    BY <1>9, <1>11
  <2> QED BY <2>4, <2>5, <2>6
<1> QED BY <1>10, <1>11

\* The prices at which a side rests are those of the levels that have its orders,
\* the better ones those of the levels ahead.
LEMMA PricesOfLevels ==
    ASSUME NEW side \in Sides, NEW n, n = Cardinality(PriceTicks),
           NEW there \in SUBSET PriceTicks,
           NEW H, H = {i \in 1..n : SideLevels(side)[i] \in there}
    PROVE  /\ Cardinality(there) = Cardinality(H)
           /\ \A i \in H : Cardinality({p \in there : ComesBefore(side, p, SideLevels(side)[i])}) =
                               Cardinality(Ahead(H, i))
<1> DEFINE at == SideLevels(side)
<1>1. /\ n \in Nat
      /\ \A price \in PriceTicks : \E i \in 1..n : at[i] = price
      /\ \A i, j \in 1..n : ComesBefore(side, at[i], at[j]) <=> i < j
      /\ \A i, j \in 1..n : at[i] = at[j] => i = j
  BY SideLevelsFacts
<1>2. IsFiniteSet(H) /\ H \in SUBSET (1..n)
  <2>1. IsFiniteSet(1..n)
    BY <1>1, FS_Interval
  <2> QED BY <2>1, FS_Subset
<1> HIDE DEF at
<1>3. ASSUME NEW S \in SUBSET H
      PROVE  Cardinality({at[i] : i \in S}) = Cardinality(S)
  <2>1. IsFiniteSet(S)
    BY <1>2, FS_Subset
  <2>2. \A x, y \in S : at[x] = at[y] => x = y
    BY <1>1, <1>2
  <2> QED BY <2>1, <2>2, ImageCount
<1>4. there = {at[i] : i \in H}
  <2>1. ASSUME NEW p \in there
        PROVE  \E i \in H : p = at[i]
    <3>1. PICK i \in 1..n : at[i] = p
      BY <1>1
    <3> QED BY <3>1 DEF at
  <2>2. \A i \in H : at[i] \in there
    BY DEF at
  <2>3. \A p : p \in {at[i] : i \in H} <=> \E i \in H : p = at[i]
    OBVIOUS
  <2>4. \A p : p \in there <=> p \in {at[i] : i \in H}
    BY <2>1, <2>2, <2>3
  <2> HIDE DEF at
  <2> QED BY <2>4
<1>5. ASSUME NEW i \in H
      PROVE  {p \in there : ComesBefore(side, p, at[i])} = {at[j] : j \in Ahead(H, i)}
  <2>1. \A j \in H : ComesBefore(side, at[j], at[i]) <=> j < i
    BY <1>1, <1>2
  <2>2. \A j : j \in Ahead(H, i) <=> j \in H /\ j < i
    BY DEF Ahead
  <2>3. \A p : p \in there <=> \E j \in H : p = at[j]
    BY <1>4
  <2>4. ASSUME NEW p
        PROVE  (p \in there /\ ComesBefore(side, p, at[i])) <=> \E j \in Ahead(H, i) : p = at[j]
    BY <2>1, <2>2, <2>3
  <2>5. \A p : p \in {at[j] : j \in Ahead(H, i)} <=> \E j \in Ahead(H, i) : p = at[j]
    OBVIOUS
  <2>6. \A p : p \in {q \in there : ComesBefore(side, q, at[i])}
                 <=> p \in {at[j] : j \in Ahead(H, i)}
    BY <2>4, <2>5
  <2> QED BY <2>6
<1>6. \A i \in H : Ahead(H, i) \in SUBSET H
  BY DEF Ahead
<1>7. Cardinality(there) = Cardinality(H)
  BY <1>3, <1>4
<1>8. \A i \in H : Cardinality({p \in there : ComesBefore(side, p, at[i])}) =
                       Cardinality(Ahead(H, i))
  BY <1>3, <1>5, <1>6
<1> QED BY <1>7, <1>8 DEF at

LEMMA RankedNow ==
    ASSUME LadderInv
    PROVE  DepthIsRank
<1> USE LadderConstants
<1> SUFFICES ASSUME NEW side \in Sides, NEW depth \in storage.depths
             PROVE  LET price == GetPriceAtDepth(side, depth)
                        there == RestingPrices(side)
                    IN  IF depth < Cardinality(there)
                        THEN /\ price \in there
                             /\ depth = Cardinality({p \in there :
                                            IF side = "Buy" THEN p > price ELSE p < price})
                        ELSE price = Null
  BY DEF DepthIsRank
<1>1. PICK n : n = Cardinality(PriceTicks)
  OBVIOUS
<1>2. n \in Nat
  BY <1>1, FS_Interval DEF PriceTicks
<1>3. depth \in Nat
  <2>1. storage \in {PriceLevelStorage_1, PriceLevelStorage_2}
    BY PriceLadderAssumption DEF LadderInv, LadderTypeOK
  <2>2. storage.depths \subseteq Nat
    BY <1>1, <1>2, <2>1 DEF PriceLevelStorage_1, PriceLevelStorage_2
  <2> QED BY <2>2
<1>4. PICK there : there = RestingPrices(side)
  OBVIOUS
<1>5. there \in SUBSET PriceTicks
  <2>1. orders \in [Memory -> [orderId : OrderIds \cup {Null}, side : Sides \cup {Null},
                               volume : Volumes \cup {0}, prev : Memory \cup {Null},
                               next : Memory \cup {Null}, level : PriceTicks \cup {Null}]]
    BY DEF LadderInv, LadderTypeOK
  <2>2. \A order \in Resting : orders[order].level \in PriceTicks
    BY <2>1 DEF Resting
  <2> QED BY <1>4, <2>2 DEF RestingPrices
<1>6. PICK H : H = {i \in 1..n : SideLevels(side)[i] \in there}
  OBVIOUS
<1>7. PICK price : price = GetPriceAtDepth(side, depth)
  OBVIOUS
<1>8. IF depth < Cardinality(H)
      THEN \E i \in H : Cardinality(Ahead(H, i)) = depth /\ price = SideLevels(side)[i]
      ELSE price = Null
  <2>1. H = {i \in 1..n : SideLevels(side)[i] \in RestingPrices(side)}
    BY <1>4, <1>6
  <2>2. IF depth < Cardinality(H)
        THEN \E i \in H : /\ Cardinality(Ahead(H, i)) = depth
                          /\ GetPriceAtDepth(side, depth) = SideLevels(side)[i]
        ELSE GetPriceAtDepth(side, depth) = Null
    BY <1>1, <1>3, <2>1, PriceAtDepth
  <2> QED BY <1>7, <2>2
<1>9. /\ Cardinality(there) = Cardinality(H)
      /\ \A i \in H : Cardinality({p \in there : ComesBefore(side, p, SideLevels(side)[i])}) =
                          Cardinality(Ahead(H, i))
  BY <1>1, <1>5, <1>6, PricesOfLevels
<1>10. IF depth < Cardinality(there)
       THEN /\ price \in there
            /\ depth = Cardinality({p \in there : IF side = "Buy" THEN p > price ELSE p < price})
       ELSE price = Null
  <2>1. CASE depth < Cardinality(H)
    <3>1. PICK i \in H : Cardinality(Ahead(H, i)) = depth /\ price = SideLevels(side)[i]
      BY <1>8, <2>1
    <3>2. price \in there
      BY <1>6, <3>1
    <3>3. depth = Cardinality({p \in there : ComesBefore(side, p, price)})
      BY <1>9, <3>1
    <3> QED BY <1>9, <2>1, <3>2, <3>3 DEF ComesBefore
  <2>2. CASE ~ depth < Cardinality(H)
    BY <1>8, <1>9, <2>2
  <2> QED BY <2>1, <2>2
<1> QED BY <1>4, <1>7, <1>10

\* The walk that counts levels with orders of a side, whatever was added, taken
\* out and resized before, answers a depth with the price that has exactly that
\* many better prices on its side, and with the default beyond the last.
THEOREM LadderDepthIsRank == LadderSpec => []DepthIsRank
<1>1. LadderSpec => []LadderInv
  BY LadderInvariant
<1>2. LadderInv => DepthIsRank
  BY RankedNow
<1> QED BY <1>1, <1>2, PTL
=============================================================================
