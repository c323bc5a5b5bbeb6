---------------------------- MODULE MCTradingCore ----------------------------
EXTENDS TradingCore

\* The second order in one direction breaks the position limit once the first
\* has filled.
MCLimits == [maxOrderQuantity |-> 2, maxPositionQuantity |-> 2, maxNotional |-> 0]
=============================================================================
