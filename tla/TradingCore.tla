----------------------------- MODULE TradingCore -----------------------------
(***************************************************************************)
(* The trading loop of TradingCore: MarketData publishes events, and       *)
(* MarketEventHandler records each, has ImbalanceStrategy evaluate it and  *)
(* StrategyExecutor create the order in Execution.  All of it happens      *)
(* inside the call that publishes, before the next update is looked at;    *)
(* execution reports come in between messages.                             *)
(*                                                                         *)
(* The loop is wired as the documents and tests of TradingCore wire it,    *)
(* with snapshots and with the gateway connected to a venue.  There is one *)
(* instrument, as in Application.                                          *)
(***************************************************************************)
EXTENDS Strategy, Sequences, FiniteSets

CONSTANTS Instrument, NoInstrument,
          Prices, Quantities,  \* raw prices and quantities of the exchange
          PriceScale,
          Limits,              \* the RiskLimits configured at start
          MaxSequence, MaxBatch, MaxPublished,  \* bounds of MarketData
          MaxOrders, MaxRecorded, MaxDuplicates, Reordering  \* bounds of Execution

VARIABLES bids, asks, sequenceNumber, valid, pending, event, published,
          changes, depths,
          orders, nextOrderId, position, positions, limits, reason, recorded,
          outbound, taken, venue, inbound, cancels, duplicates,
          marketEvents  \* TradeRecorder: the market events, in order

Market == INSTANCE MarketData

\* What StrategyExecutor may ask of OrderManager.
StrategyRequests ==
    [instrument : {Instrument}, side : {"Buy", "Sell"}, price : Prices \cup {0},
     quantity : {OrderQuantity}]

Exec == INSTANCE Execution
    WITH Instruments     <- {Instrument},
         Requests        <- StrategyRequests,
         LimitChoices    <- {Limits},
         StrayReports    <- {},
         MaxOutstanding  <- MaxOrders,
         MaxCancels      <- 0,
         QuantityMeaning <- "fill"

ASSUME TradingCoreAssumption ==
    /\ Market!MarketDataAssumption
    /\ Exec!ExecutionAssumption

marketVars == <<bids, asks, sequenceNumber, valid, pending, event, published,
                changes, depths>>
executionVars == <<orders, nextOrderId, position, positions, limits, reason, recorded,
                   outbound, taken, venue, inbound, cancels, duplicates>>
vars == <<marketVars, executionVars, marketEvents>>

-----------------------------------------------------------------------------
(* StrategyExecutor and MarketEventHandler.                                *)

\* execute: nothing without a signal; otherwise createOrder decides.
Execute(signal, e) ==
    IF signal = "None" THEN UNCHANGED executionVars
    ELSE Exec!CreateOrder(RequestFor(Instrument, signal, e))

OnMarketEvent(e) ==
    /\ marketEvents' = Append(marketEvents, e)
    /\ Execute(Evaluate(e.bestBidQuantity, e.bestAskQuantity), e)

\* BookBuilder hands a published event on before it returns.
Dispatch ==
    IF published' = published THEN UNCHANGED <<executionVars, marketEvents>>
    ELSE OnMarketEvent(event')

-----------------------------------------------------------------------------
(* The steps.  Where an event leads to an order, the bounds of Execution   *)
(* on orders bound the step.                                               *)

ExchangeChanges ==
    /\ \E side \in Market!Sides, price \in Prices, quantity \in Quantities :
          Market!ExchangeChanges(side, price, quantity)
    /\ UNCHANGED <<executionVars, marketEvents>>

ReceiveMessage == Market!ReceiveMessage /\ UNCHANGED <<executionVars, marketEvents>>

HandleUpdate == Market!HandleUpdate /\ Dispatch

ReceiveSnapshot(n) == Market!ReceiveSnapshot(n) /\ Dispatch

\* A report reaches ExecutionReportHandler between two messages.
ReceiveReport ==
    /\ pending = <<>>
    /\ \E k \in DOMAIN inbound : Exec!Deliver(k)
    /\ UNCHANGED <<marketVars, marketEvents>>

VenueActs ==
    /\ \/ \E id \in Exec!OrderIds : Exec!VenueReceives(id, "New")
       \/ \E id \in Exec!OrderIds : Exec!VenueReceives(id, "Rejected")
       \/ \E id \in DOMAIN orders, price \in Prices :
             \E quantity \in 1..orders[id].quantity : Exec!VenueFills(id, price, quantity)
    /\ UNCHANGED <<marketVars, marketEvents>>

Init == Market!Init /\ Exec!Init /\ marketEvents = <<>>

Next ==
    \/ ExchangeChanges
    \/ ReceiveMessage
    \/ HandleUpdate
    \/ \E n \in 0..MaxSequence : ReceiveSnapshot(n)
    \/ ReceiveReport
    \/ VenueActs

Spec == Init /\ [][Next]_vars

-----------------------------------------------------------------------------
(* Properties.                                                             *)

TypeOK ==
    /\ Market!TypeOK
    /\ Exec!TypeOK
    /\ marketEvents \in Seq(Market!MarketEvent)

Signalled(e) == Evaluate(e.bestBidQuantity, e.bestAskQuantity)

\* The exchange's own quote on the side an order of this side takes.
OppositeTop(side, sequence) ==
    LET top == Market!Top(Market!DepthAt(sequence)) IN
    IF side = "Buy" THEN top.bestAsk ELSE top.bestBid

\* Every tracked order goes back to a recorded market event of its own, in the
\* order of creation: the event's signal is the order's side, and its price is
\* what the exchange then really quoted on the other side, never the 0 of an
\* empty side, even though an empty side makes for the strongest signal.
OrdersFollowEvents ==
    \E cause \in [DOMAIN orders -> DOMAIN marketEvents] :
        /\ \A i, j \in DOMAIN orders : i < j => cause[i] < cause[j]
        /\ \A id \in DOMAIN orders :
              LET e == marketEvents[cause[id]] IN
              /\ orders[id].side = Signalled(e)
              /\ orders[id].price = OppositeTop(orders[id].side, e.sequence)
              /\ orders[id].price # 0

\* What the strategy makes of the market is a legal use of the execution
\* subsystem, so whatever holds of Execution holds of the loop.
DrivesExecution == Exec!Spec

=============================================================================
