----------------------------- MODULE Accounting -----------------------------
(***************************************************************************)
(* One instrument's position under a stream of executed trades, together   *)
(* with the PnL that PnLCalculator attributes to each of them.             *)
(*                                                                         *)
(* A report is first shown to PnLCalculator::calculateRealized with the    *)
(* position it is about to change, then to PositionManager, which applies  *)
(* it.  `position' is the code's state.  `realized' sums what the          *)
(* calculator returned.  The other variables are history: the cash the     *)
(* trades really moved, the range of prices the open position was built    *)
(* from, and the rounding the integer divisions may have introduced.       *)
(***************************************************************************)
EXTENDS Position

CONSTANTS PriceScale,   \* raw units in one unit of price, 10^8 in the code
          Prices,       \* raw execution and market prices
          Quantities,   \* raw executed quantities; 0 occurs in the code's tests
          MaxPosition,  \* bound: largest absolute position explored
          MaxTrades     \* bound: number of trades explored

ASSUME AccountingAssumption ==
    /\ PriceScale \in Nat \ {0}
    /\ Prices \subseteq Nat \ {0}
    /\ Quantities \subseteq Nat
    /\ MaxPosition \in Nat
    /\ MaxTrades \in Nat

VARIABLES position, realized, cash, entry, slack, trades

vars == <<position, realized, cash, entry, slack, trades>>

-----------------------------------------------------------------------------
(* PnLCalculator.                                                          *)

FromProduct(priceDifference, quantity) ==
    Quotient(priceDifference * quantity, PriceScale)

\* A slip: all of a reversing trade is taken to close the position.
ClosedQuantityUncapped(pos, quantity) == quantity

\* The part of an opposite execution that closes the current position.
ClosedQuantity(pos, quantity) == Lesser(Abs(pos.quantity), quantity)

Reduces(pos, side) ==
    \/ pos.quantity > 0 /\ side = "Sell"
    \/ pos.quantity < 0 /\ side = "Buy"

CalculateRealized(pos, side, price, quantity) ==
    IF quantity = 0 \/ ~Reduces(pos, side) THEN 0
    ELSE IF pos.quantity > 0
    THEN FromProduct(price - pos.averagePrice, ClosedQuantity(pos, quantity))
    ELSE FromProduct(pos.averagePrice - price, ClosedQuantity(pos, quantity))

\* A missing side of the book has quantity zero and yields no unrealized PnL.
CalculateUnrealized(pos, event) ==
    CASE pos.quantity = 0 -> 0
      [] pos.quantity > 0 ->
           IF event.bestBidQuantity = 0 THEN 0
           ELSE FromProduct(event.bestBid - pos.averagePrice, pos.quantity)
      [] pos.quantity < 0 ->
           IF event.bestAskQuantity = 0 THEN 0
           ELSE FromProduct(pos.averagePrice - event.bestAsk, Abs(pos.quantity))

-----------------------------------------------------------------------------
NoEntry == [low |-> 0, high |-> 0]

Init ==
    /\ position = Flat
    /\ realized = 0
    /\ cash = 0
    /\ entry = NoEntry
    /\ slack = 0
    /\ trades = 0

\* History: the prices at which the quantity now open was entered.
EntryAfter(side, price, quantity) ==
    LET after == position.quantity + Signed(side, quantity) IN
    IF after = 0 THEN NoEntry
    ELSE IF position.quantity = 0 \/ (position.quantity > 0) # (after > 0)
    THEN [low |-> price, high |-> price]
    ELSE IF Reduces(position, side) THEN entry
    ELSE [low  |-> Lesser(entry.low, price),
          high |-> IF entry.high < price THEN price ELSE entry.high]

\* History: an average over n units is off by less than n price units in
\* total, a realized amount by less than one unit, PriceScale raw products.
Rounding(side, quantity) ==
    IF quantity = 0 \/ position.quantity = 0 THEN 0
    ELSE IF Reduces(position, side) THEN PriceScale - 1
    ELSE Abs(position.quantity) + quantity - 1

\* One Trade report: PnL against the old position, then Position::applyTrade.
Trade(side, price, quantity) ==
    /\ trades < MaxTrades
    /\ Abs(position.quantity + Signed(side, quantity)) <= MaxPosition
    /\ realized' = realized + CalculateRealized(position, side, price, quantity)
    /\ position' = ApplyTrade(position, side, price, quantity)
    /\ cash' = cash - price * Signed(side, quantity)
    /\ entry' = IF quantity = 0 THEN entry ELSE EntryAfter(side, price, quantity)
    /\ slack' = slack + Rounding(side, quantity)
    /\ trades' = trades + 1

Next == \E side \in Side, price \in Prices, quantity \in Quantities :
            Trade(side, price, quantity)

Spec == Init /\ [][Next]_vars

-----------------------------------------------------------------------------
(* Properties.                                                             *)

TypeOK ==
    /\ position \in [quantity : Int, averagePrice : Nat]
    /\ realized \in Int
    /\ cash \in Int
    /\ entry \in [low : Nat, high : Nat]
    /\ slack \in Nat
    /\ trades \in 0..MaxTrades

\* A flat position has a zero average entry price and an open one a positive
\* average (the postcondition position.cpp:246), whatever trades led to it:
\* a stale average would be taken for an entry price by the next PnL.
FlatIffNoAverage == (position.quantity = 0) <=> (position.averagePrice = 0)

\* The average entry price lies between the cheapest and the dearest price
\* at which the position now open was entered: partial reductions, reversals
\* and the truncating division of applyTrade never push it outside.
AverageWithinEntries ==
    position.quantity # 0 =>
        /\ entry.low <= position.averagePrice
        /\ position.averagePrice <= entry.high

\* Marked at any price, the realized PnL summed over the trades plus the
\* unrealized PnL of what is open is the cash the trades moved plus the
\* position's value, up to the truncation of the integer divisions.
\* PnLCalculator and Position see one report each on their own: a share of
\* a reversing trade counted twice or not at all breaks the balance.
PnLExplainsCash ==
    \A mark \in Prices :
        LET event == [bestBid |-> mark, bestBidQuantity |-> 1,
                      bestAsk |-> mark, bestAskQuantity |-> 1]
            total == realized + CalculateUnrealized(position, event)
            value == cash + position.quantity * mark
        IN  Abs(PriceScale * total - value) <= slack + PriceScale - 1

=============================================================================
