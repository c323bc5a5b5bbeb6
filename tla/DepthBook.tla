------------------------------ MODULE DepthBook ------------------------------
(***************************************************************************)
(* One side of a MarketDepthBook: a FlatMap of price levels, sorted in an  *)
(* array of fixed capacity, with handlePriceUpdate as its caller.  The two *)
(* sides of a book share nothing but the queries that read both fronts.    *)
(*                                                                         *)
(* The sorted containers FlatMap comes from differ in what they do with a  *)
(* price they have and in whether they erase; the kind of a behaviour is   *)
(* one of them.  Each turn of the binary search is a step.                 *)
(***************************************************************************)
EXTENDS Integers, FiniteSets

CONSTANTS Kinds,        \* the containers to run
          Prices,       \* prices; a fresh array holds zeroes
          Quantities,   \* quantities; 0 erases
          Capacity,     \* slots of the array
          SizeModulus,  \* sizes wrap here; 2^32 in the code
          EmptiesSide   \* whether the last level is ever erased

\* FlatMap with handlePriceUpdate sets the quantity of a level it finds; the
\* containers before it leave it.  Those without orderings compare with >.
MarketDepthBook == [setsFound |-> TRUE, erases |-> TRUE,
                    orderings |-> {"Ascending", "Descending"}]
StaticSortedFlatMap_WithDeletion == [MarketDepthBook EXCEPT !.setsFound = FALSE]
StaticSortedFlatMap == [StaticSortedFlatMap_WithDeletion EXCEPT !.erases = FALSE]
SortedArray == [StaticSortedFlatMap EXCEPT !.orderings = {"Ascending"}]

ASSUME DepthBookAssumption ==
    /\ Kinds \subseteq {MarketDepthBook, StaticSortedFlatMap_WithDeletion,
                        StaticSortedFlatMap, SortedArray}
    /\ Prices \subseteq Nat \ {0}
    /\ Quantities \subseteq Nat
    /\ Capacity \in Nat \ {0}
    /\ SizeModulus \in Nat /\ SizeModulus > Capacity
    /\ EmptiesSide \in BOOLEAN

VARIABLES kind, ordering,  \* which container, and its template parameter
          slots,           \* _data: a key and a value each
          size,            \* _size
          step,            \* "idle", "called", "searching" or "crashed"
          update,          \* the update handlePriceUpdate works on
          left, right,     \* findInsertIndex
          feed,            \* external: the levels the updates amount to
          crowded          \* external: whether feed ever had too many levels

templateVars == <<kind, ordering>>
mapVars == <<slots, size>>
callVars == <<step, update, left, right>>
feedVars == <<feed, crowded>>
vars == <<templateVars, mapVars, callVars, feedVars>>

Indices == 0..Capacity - 1

Node == [key : Prices \cup {0}, value : Quantities \cup {0}]

\* A slip: equal keys do not compare.
CompareStrictly(a, b) == IF ordering = "Descending" THEN a > b ELSE a < b

Compare(a, b) == IF ordering = "Descending" THEN a >= b ELSE a <= b

Key(i) == slots[i].key

Last == size - 1

\* What the updates amount to, price by price.
Fed(price, quantity) ==
    IF quantity = 0 THEN [p \in DOMAIN feed \ {price} |-> feed[p]]
    ELSE IF price \in DOMAIN feed /\ ~kind.setsFound THEN feed
    ELSE [p \in DOMAIN feed \cup {price} |-> IF p = price THEN quantity ELSE feed[p]]

-----------------------------------------------------------------------------
(* handlePriceUpdate; a quantity of zero goes to erase, another to push.   *)

\* The calls the model makes: erase where the container has it, and, unless
\* EmptiesSide, never for the last level.
Called(price, quantity) ==
    quantity = 0 => kind.erases /\ (EmptiesSide \/ size # 1 \/ Key(0) # price)

HandlePriceUpdate(price, quantity) ==
    /\ step = "idle"
    /\ Called(price, quantity)
    /\ update' = [price |-> price, quantity |-> quantity]
    /\ feed' = Fed(price, quantity)
    /\ crowded' = (crowded \/ Cardinality(DOMAIN feed') > Capacity)
    \* A size that wrapped sends the first access beyond the array.
    /\ step' = IF size > Capacity THEN "crashed" ELSE "called"
    /\ UNCHANGED <<templateVars, mapVars, left, right>>

Erasing == update.quantity = 0

NoUpdate == [price |-> 0, quantity |-> 0]

\* What is local to the calls is gone.
Return ==
    /\ step' = "idle"
    /\ update' = NoUpdate
    /\ left' = 0 /\ right' = 0
    /\ UNCHANGED <<templateVars, feedVars>>

\* push: worse than every level there is.
BehindLast == size > 0 /\ ~Compare(update.price, Key(Last))

\* erase: better than every level, or worse.
OutOfRange == size > 0 /\ (~Compare(Key(0), update.price) \/ BehindLast)

Full == size = Capacity

\* A slip: a full map takes the level as well, in the place of its last.
PushBackOver ==
    /\ step = "called" /\ ~Erasing /\ BehindLast
    /\ LET place == IF Full THEN Last ELSE size IN
       /\ slots' = [slots EXCEPT ![place] =
                        [key |-> update.price, value |-> update.quantity]]
       /\ size' = place + 1
    /\ Return

\* A full map has no room for a level worse than its last.
PushBack ==
    /\ step = "called" /\ ~Erasing /\ BehindLast
    /\ IF Full THEN UNCHANGED mapVars
       ELSE /\ slots' = [slots EXCEPT ![size] =
                             [key |-> update.price, value |-> update.quantity]]
            /\ size' = size + 1
    /\ Return

EraseOutOfRange ==
    /\ step = "called" /\ Erasing /\ OutOfRange
    /\ UNCHANGED mapVars
    /\ Return

StartSearch ==
    /\ step = "called"
    /\ IF Erasing THEN ~OutOfRange ELSE ~BehindLast
    /\ step' = "searching"
    /\ left' = 0
    /\ right' = size
    /\ UNCHANGED <<templateVars, mapVars, update, feedVars>>

\* A slip: the half that was looked at is looked at again.
HalveNot(mid) == IF Compare(update.price, Key(mid))
                 THEN right' = mid /\ UNCHANGED left
                 ELSE left' = mid /\ UNCHANGED right

Halve(mid) == IF Compare(update.price, Key(mid))
              THEN right' = mid /\ UNCHANGED left
              ELSE left' = mid + 1 /\ UNCHANGED right

\* One turn of findInsertIndex.
Search ==
    /\ step = "searching"
    /\ left < right
    /\ Halve((left + right) \div 2)
    /\ UNCHANGED <<templateVars, mapVars, step, update, feedVars>>

\* findInsertIndex has the index; what the slot holds beyond size is looked at
\* all the same.
Found == step = "searching" /\ left >= right

Same == left # Capacity /\ Key(left) = update.price

\* push gives the slot it found back, and the caller sets the quantity.
PushFound ==
    /\ Found /\ ~Erasing /\ Same
    /\ slots' = IF kind.setsFound THEN [slots EXCEPT ![left].value = update.quantity]
                ELSE slots
    /\ UNCHANGED size
    /\ Return

\* A slip: the map grows although it is full.
GrownAlways == size + 1

\* At capacity the last level makes room.
Grown == IF Full THEN size ELSE size + 1

PushInsert ==
    /\ Found /\ ~Erasing /\ ~Same
    /\ slots' = [i \in Indices |->
                    IF i = left THEN [key |-> update.price, value |-> update.quantity]
                    ELSE IF left < i /\ i < Grown THEN slots[i - 1]
                    ELSE slots[i]]
    /\ size' = Grown
    /\ Return

\* A slip: the shift stops one short.
ClosedShort == [i \in Indices |-> IF left <= i /\ i + 2 < size THEN slots[i + 1] ELSE slots[i]]

Closed == [i \in Indices |-> IF left <= i /\ i + 1 < size THEN slots[i + 1] ELSE slots[i]]

\* The slot behind the last keeps what it held.
EraseFound ==
    /\ Found /\ Erasing /\ Same
    /\ slots' = Closed
    /\ size' = (size - 1) % SizeModulus
    /\ Return

EraseMissing ==
    /\ Found /\ Erasing /\ ~Same
    /\ UNCHANGED mapVars
    /\ Return

-----------------------------------------------------------------------------
Init ==
    /\ kind \in Kinds
    /\ ordering \in kind.orderings
    /\ slots = [i \in Indices |-> [key |-> 0, value |-> 0]]
    /\ size = 0
    /\ step = "idle"
    /\ update = NoUpdate
    /\ left = 0
    /\ right = 0
    /\ feed = [p \in {} |-> 0]
    /\ crowded = FALSE

Push == PushBack \/ PushFound \/ PushInsert

Erase == EraseOutOfRange \/ EraseFound \/ EraseMissing

FindInsertIndex == StartSearch \/ Search

Next ==
    \/ \E price \in Prices, quantity \in Quantities : HandlePriceUpdate(price, quantity)
    \/ FindInsertIndex
    \/ Push
    \/ Erase

\* A call once made runs to its end; nothing makes an update come.
Spec == Init /\ [][Next]_vars /\ WF_vars(FindInsertIndex \/ Push \/ Erase)

-----------------------------------------------------------------------------
(* Properties.                                                             *)

TypeOK ==
    /\ kind \in Kinds /\ ordering \in kind.orderings
    /\ slots \in [Indices -> Node]
    /\ size \in 0..Capacity
    /\ step \in {"idle", "called", "searching"}
    /\ update \in [price : Prices \cup {0}, quantity : Quantities \cup {0}]
    /\ left \in 0..Capacity /\ right \in 0..Capacity
    /\ DOMAIN feed \subseteq Prices
    /\ \A p \in DOMAIN feed : feed[p] \in Quantities
    /\ crowded \in BOOLEAN

InUse == 0..size - 1

\* The levels in use are strictly sorted, so no price is there twice and the
\* front is the best: what the binary search and getBestPrice rely on.
Sorted == \A i, j \in InUse : i < j => Compare(Key(i), Key(j)) /\ Key(i) # Key(j)

Levels == [p \in {Key(i) : i \in InUse} |->
              slots[CHOOSE i \in InUse : Key(i) = p].value]

\* No level is stale: each stands in the feed, and a container that sets the
\* levels it finds shows the very quantity of the feed, also when levels have
\* been dropped, updated and erased since.  As long as there was room for every
\* level, the book is the feed.
FollowsFeed ==
    step = "idle" =>
        /\ DOMAIN Levels \subseteq DOMAIN feed
        /\ kind.setsFound => \A p \in DOMAIN Levels : Levels[p] = feed[p]
        /\ crowded \/ Levels = feed

\* An update given a quantity leaves a best price behind, as the tests of
\* MarketDepthBook check after a single update (main.cpp:117-130).
BestAfterUpdate == step = "idle" /\ feed # [p \in {} |-> 0] => size > 0

\* Every call comes back: the binary search gets narrower until it ends.
UpdatesEnd == step = "called" ~> step = "idle"

Bounded == INSTANCE BoundedBook
    WITH best          <- IF ordering = "Ascending" THEN "lowest" ELSE "highest",
         keepsQuantity <- ~kind.setsFound,
         book          <- Levels

\* The array implements a map that keeps the best levels it was given.
ImplementsBoundedBook == Bounded!Spec

=============================================================================
