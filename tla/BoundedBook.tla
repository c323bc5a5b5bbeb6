----------------------------- MODULE BoundedBook -----------------------------
(***************************************************************************)
(* What one side of a depth book of bounded size promises: it is a map     *)
(* from prices to quantities that takes every update and keeps the best    *)
(* Capacity prices of what it then has.  What it drops it does not get     *)
(* back until an update names it again.                                    *)
(***************************************************************************)
EXTENDS Integers, FiniteSets

CONSTANTS Prices, Quantities, Capacity

VARIABLES best,          \* "lowest" or "highest": the order of the prices
          keepsQuantity, \* whether a price in the map keeps its first quantity
          book           \* the levels

vars == <<best, keepsQuantity, book>>

Better(p, q) == IF best = "lowest" THEN p < q ELSE p > q

Rank(p, levels) == Cardinality({q \in DOMAIN levels : Better(q, p)})

Bounded(levels) ==
    [p \in {q \in DOMAIN levels : Rank(q, levels) < Capacity} |-> levels[p]]

Init ==
    /\ best \in {"lowest", "highest"}
    /\ keepsQuantity \in BOOLEAN
    /\ book = [p \in {} |-> 0]

Set(price, quantity) ==
    /\ book' = IF price \in DOMAIN book /\ keepsQuantity THEN book
               ELSE Bounded([p \in DOMAIN book \cup {price} |->
                                IF p = price THEN quantity ELSE book[p]])
    /\ UNCHANGED <<best, keepsQuantity>>

Remove(price) ==
    /\ book' = [p \in DOMAIN book \ {price} |-> book[p]]
    /\ UNCHANGED <<best, keepsQuantity>>

Next == \E price \in Prices :
            Remove(price) \/ \E quantity \in Quantities \ {0} : Set(price, quantity)

Spec == Init /\ [][Next]_vars

=============================================================================
