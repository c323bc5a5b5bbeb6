------------------------------ MODULE Position ------------------------------
(***************************************************************************)
(* The value object trading::position::Position of TradingCore: a signed   *)
(* quantity (positive long, negative short) and the average entry price of *)
(* the open quantity.  Prices and quantities are the raw fixed-point       *)
(* integers of core/scaled_value.hpp.  The operators here are pure; the     *)
(* modules that keep a position as state apply them.                       *)
(***************************************************************************)
EXTENDS Integers

Side == {"Buy", "Sell"}

Abs(n) == IF n < 0 THEN -n ELSE n

Lesser(a, b) == IF a < b THEN a ELSE b

\* Integer division of C++: the quotient is truncated towards zero.
Quotient(a, b) == IF a < 0 THEN -((-a) \div b) ELSE a \div b

\* What a Position is made of; its instrument is left to its owner.
PositionValue == [quantity : Int, averagePrice : Nat]

Flat == [quantity |-> 0, averagePrice |-> 0]

Signed(side, quantity) == IF side = "Buy" THEN quantity ELSE -quantity

-----------------------------------------------------------------------------
(***************************************************************************)
(* The five cases of Position::applyTrade, for a non-zero quantity.  The   *)
(* operator names what happens to the average entry price in each.         *)
(***************************************************************************)

\* A slip: signed quantities turn the average of a short position negative.
WeightedAverageSigned(pos, price, signed) ==
    Quotient(pos.averagePrice * pos.quantity + price * signed,
             Abs(pos.quantity) + Abs(signed))

\* Same direction: the average weighted by the absolute quantities.
WeightedAverage(pos, price, signed) ==
    Quotient(pos.averagePrice * Abs(pos.quantity) + price * Abs(signed),
             Abs(pos.quantity) + Abs(signed))

\* The average a trade that closes the whole position leaves.
AverageWhenFlat(pos) == 0

\* A slip: the old average is carried into the reversed position.
AverageWhenReversedKept(pos, price) == pos.averagePrice

\* The average after a trade that crosses zero: the execution price.
AverageWhenReversed(pos, price) == price

\* Both long or both short (signed is never 0).
SameDirection(quantity, signed) ==
    quantity # 0 /\ ((quantity > 0) <=> (signed > 0))

AverageAfter(pos, price, signed) ==
    IF pos.quantity = 0 THEN price
    ELSE IF SameDirection(pos.quantity, signed) THEN WeightedAverage(pos, price, signed)
    ELSE IF Abs(signed) < Abs(pos.quantity) THEN pos.averagePrice
    ELSE IF Abs(signed) = Abs(pos.quantity) THEN AverageWhenFlat(pos)
    ELSE AverageWhenReversed(pos, price)

ApplyTrade(pos, side, price, quantity) ==
    IF quantity = 0
    THEN pos
    ELSE [quantity     |-> pos.quantity + Signed(side, quantity),
          averagePrice |-> AverageAfter(pos, price, Signed(side, quantity))]

=============================================================================
