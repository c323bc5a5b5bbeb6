---------------------------- MODULE MCExecution ----------------------------
EXTENDS Execution

CONSTANTS btc, eth

Request(i, side, price, quantity) ==
    [instrument |-> i, side |-> side, price |-> price, quantity |-> quantity]

MCPrices == {1, 2}

\* Both sides, orders that fill in one or two steps, one that the notional
\* limit refuses, and the requests createOrder refuses as invalid.
MCRefused ==
    {Request(btc, "Buy", 2, 0), Request(NoInstrument, "Buy", 2, 1),
     Request(btc, "Sell", 0, 1), Request(btc, "Buy", 9, 1)}

MCRequests ==
    {Request(btc, side, 2, quantity) : side \in Side, quantity \in {1, 2}}
        \cup MCRefused

MCSmallRequests == {Request(btc, side, 2, 2) : side \in Side}

MCThreeRequests == MCSmallRequests \cup MCRefused

MCTwoRequests ==
    {Request(btc, "Buy", 2, 2), Request(btc, "Sell", 1, 1), Request(eth, "Sell", 1, 2)}

MCLimits ==
    {[maxOrderQuantity |-> 2, maxPositionQuantity |-> 2, maxNotional |-> 6]}

\* A zero limit is disabled.
MCLimitChoices ==
    MCLimits \cup {[maxOrderQuantity |-> 1, maxPositionQuantity |-> 0, maxNotional |-> 0]}

MCStray ==
    {[clientOrderId |-> 0, exchangeOrderId |-> 7, instrument |-> btc, side |-> "Buy",
      execType |-> "Trade", status |-> "Filled", price |-> 1, quantity |-> 1,
      filledQuantity |-> 1]}
=============================================================================
