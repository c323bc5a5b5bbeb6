-------------------------- MODULE TradingCoreProofs --------------------------
(***************************************************************************)
(* Proofs about ImbalanceStrategy for every threshold and all quantities,  *)
(* and that the trading loop is made of legal steps of its two halves, so  *)
(* that what is proved of Execution holds of the loop.                     *)
(***************************************************************************)
EXTENDS TradingCore, SequenceTheorems, TLAPS

MarketFacts == INSTANCE MarketDataProofs

-----------------------------------------------------------------------------
(* ImbalanceStrategy.                                                      *)

\* evaluate treats the two sides of the book alike: exchanging the quantities
\* exchanges the signals.
THEOREM SignalsMirror ==
    ASSUME StrategyAssumption, NEW bid \in Nat, NEW ask \in Nat
    PROVE  Evaluate(bid, ask) = "Buy" <=> Evaluate(ask, bid) = "Sell"
<1>1. bid + ask = ask + bid /\ -(ask - bid) = bid - ask
  OBVIOUS
<1>2. (bid - ask > 0 <=> ask - bid < 0) /\ bid - ask \in Int /\ ask - bid \in Int
  OBVIOUS
<1> QED BY <1>1, <1>2 DEF Evaluate

\* With a threshold of at most one, more on the bid side or less on the ask
\* side never takes a Buy signal away: evaluate has one switching point.
THEOREM BuyIsMonotone ==
    ASSUME StrategyAssumption, ThresholdNumerator <= ThresholdDenominator,
           NEW bid \in Nat, NEW ask \in Nat, NEW more \in Nat, NEW less \in Nat,
           bid <= more, less <= ask, Evaluate(bid, ask) = "Buy"
    PROVE  Evaluate(more, less) = "Buy"
<1> DEFINE N == ThresholdNumerator
           D == ThresholdDenominator
<1>1. N \in Nat /\ D \in Nat /\ N <= D
  BY DEF StrategyAssumption
<1>2. bid - ask > 0 /\ (bid - ask) * D >= (bid + ask) * N
  BY DEF Evaluate, ReachesThreshold
<1> HIDE DEF N, D
<1>3. PICK gain \in Nat : more = bid + gain
  <2>1. more - bid \in Nat /\ more = bid + (more - bid)
    OBVIOUS
  <2> QED BY <2>1
<1>4. PICK loss \in Nat : ask = less + loss
  <2>1. ask - less \in Nat /\ ask = less + (ask - less)
    OBVIOUS
  <2> QED BY <2>1
<1>5. more - less > 0 /\ more + less > 0
  BY <1>2
<1>6. (more - less) * D >= (more + less) * N
  <2>1. (more - less) * D = (bid - ask) * D + (gain * D + loss * D)
    BY <1>1, <1>3, <1>4
  <2>2. (more + less) * N = (bid + ask) * N + (gain * N - loss * N)
    BY <1>1, <1>3, <1>4
  <2>3. gain * D >= gain * N
    BY <1>1
  <2>4. loss * D >= 0 /\ loss * N >= 0
    BY <1>1
  <2>5. /\ (bid - ask) * D \in Int /\ (bid + ask) * N \in Int
        /\ gain * D \in Int /\ gain * N \in Int /\ loss * D \in Int /\ loss * N \in Int
    BY <1>1
  <2> QED BY <1>2, <2>1, <2>2, <2>3, <2>4, <2>5
<1> QED BY <1>5, <1>6 DEF Evaluate, ReachesThreshold, N, D

\* A book with an empty side gives the strongest signal there is, towards the
\* side that has nothing to trade with; the price of the request made of it is
\* the event's 0.
THEOREM EmptySideSignals ==
    ASSUME StrategyAssumption, ThresholdNumerator <= ThresholdDenominator,
           NEW quantity \in Nat \ {0}
    PROVE  /\ Evaluate(quantity, 0) = "Buy"
           /\ Evaluate(0, quantity) = "Sell"
<1>1. quantity * ThresholdDenominator >= quantity * ThresholdNumerator
  BY DEF StrategyAssumption
<1>2. quantity - 0 = quantity /\ quantity + 0 = quantity /\ 0 + quantity = quantity
      /\ -(0 - quantity) = quantity /\ 0 - quantity < 0 /\ quantity > 0 /\ ~(0 - quantity > 0)
  OBVIOUS
<1> QED BY <1>1, <1>2 DEF Evaluate, ReachesThreshold

-----------------------------------------------------------------------------
(* The loop and its halves.                                                *)

\* The two steps that publish are MarketData's own.
LEMMA HandleUpdateIsMarkets == HandleUpdate => MarketFacts!HandleUpdate
BY DEF HandleUpdate,
       Market!HandleUpdate, MarketFacts!HandleUpdate,
       Market!OnBookUpdate, MarketFacts!OnBookUpdate,
       Market!InSequence, MarketFacts!InSequence,
       Market!Invalidate, MarketFacts!Invalidate,
       Market!SetLevel, MarketFacts!SetLevel,
       Market!WithLevel, MarketFacts!WithLevel,
       Market!PublishMarketEvent, MarketFacts!PublishMarketEvent,
       Market!BestBid, MarketFacts!BestBid,
       Market!BestAsk, MarketFacts!BestAsk,
       Market!VolumeAt, MarketFacts!VolumeAt,
       Market!Max, MarketFacts!Max, Market!Min, MarketFacts!Min,
       Market!NoLevels, MarketFacts!NoLevels,
       Market!bookVars, MarketFacts!bookVars,
       Market!eventVars, MarketFacts!eventVars,
       Market!exchangeVars, MarketFacts!exchangeVars

LEMMA ReceiveSnapshotIsMarkets ==
    ASSUME NEW n, ReceiveSnapshot(n)
    PROVE  MarketFacts!ReceiveSnapshot(n)
BY DEF ReceiveSnapshot,
       Market!ReceiveSnapshot, MarketFacts!ReceiveSnapshot,
       Market!ApplySnapshot, MarketFacts!ApplySnapshot,
       Market!Replace, MarketFacts!Replace,
       Market!LevelsOf, MarketFacts!LevelsOf,
       Market!DepthAt, MarketFacts!DepthAt,
       Market!PublishMarketEvent, MarketFacts!PublishMarketEvent,
       Market!BestBid, MarketFacts!BestBid,
       Market!BestAsk, MarketFacts!BestAsk,
       Market!VolumeAt, MarketFacts!VolumeAt,
       Market!Max, MarketFacts!Max, Market!Min, MarketFacts!Min,
       Market!NoLevels, MarketFacts!NoLevels,
       Market!bookVars, MarketFacts!bookVars,
       Market!eventVars, MarketFacts!eventVars,
       Market!exchangeVars, MarketFacts!exchangeVars

\* Every step of the loop is a step of MarketData, or one of Execution alone.
THEOREM DrivesMarket == Spec => MarketFacts!Spec
<1>1. Init => MarketFacts!Init
  BY DEF Init, Market!Init, MarketFacts!Init,
         Market!NoLevels, MarketFacts!NoLevels,
         Market!NoEvent, MarketFacts!NoEvent,
         Market!EmptyDepth, MarketFacts!EmptyDepth,
         Market!Sides, MarketFacts!Sides
<1>2. [Next]_vars => [MarketFacts!Next]_MarketFacts!vars
  <2> SUFFICES ASSUME [Next]_vars
               PROVE  [MarketFacts!Next]_MarketFacts!vars
    OBVIOUS
  <2>1. ASSUME UNCHANGED marketVars
        PROVE  UNCHANGED MarketFacts!vars
    BY <2>1 DEF marketVars, MarketFacts!vars, MarketFacts!bookVars, MarketFacts!eventVars,
                MarketFacts!exchangeVars
  <2>2. CASE ExchangeChanges
    <3>1. PICK side \in Market!Sides, price \in Prices, quantity \in Quantities :
             Market!ExchangeChanges(side, price, quantity)
      BY <2>2 DEF ExchangeChanges
    <3>2. MarketFacts!ExchangeChanges(side, price, quantity) /\ side \in MarketFacts!Sides
      BY <3>1 DEF Market!ExchangeChanges, MarketFacts!ExchangeChanges,
                  Market!DepthAfter, MarketFacts!DepthAfter,
                  Market!DepthAt, MarketFacts!DepthAt,
                  Market!Sides, MarketFacts!Sides,
                  Market!bookVars, MarketFacts!bookVars,
                  Market!eventVars, MarketFacts!eventVars,
                  Market!exchangeVars, MarketFacts!exchangeVars
    <3> QED BY <3>2 DEF MarketFacts!Next
  <2>3. CASE ReceiveMessage
    <3>1. MarketFacts!ReceiveMessage
      BY <2>3 DEF ReceiveMessage,
                  Market!ReceiveMessage, MarketFacts!ReceiveMessage,
                  Market!OnMessage, MarketFacts!OnMessage,
                  Market!Batches, MarketFacts!Batches,
                  Market!Foreign, MarketFacts!Foreign,
                  Market!Range, MarketFacts!Range,
                  Market!bookVars, MarketFacts!bookVars,
                  Market!eventVars, MarketFacts!eventVars,
                  Market!exchangeVars, MarketFacts!exchangeVars
    <3> QED BY <3>1 DEF MarketFacts!Next
  <2>4. CASE HandleUpdate
    <3>1. MarketFacts!HandleUpdate
      BY <2>4, HandleUpdateIsMarkets
    <3> QED BY <3>1 DEF MarketFacts!Next
  <2>5. ASSUME NEW n \in 0..MaxSequence, ReceiveSnapshot(n)
        PROVE  MarketFacts!Next
    <3>1. MarketFacts!ReceiveSnapshot(n)
      BY <2>5, ReceiveSnapshotIsMarkets
    <3> QED BY <3>1 DEF MarketFacts!Next
  <2>6. CASE ReceiveReport
    BY <2>1, <2>6 DEF ReceiveReport
  <2>7. CASE VenueActs
    BY <2>1, <2>7 DEF VenueActs
  <2>8. CASE UNCHANGED vars
    BY <2>1, <2>8 DEF vars
  <2> QED BY <2>2, <2>3, <2>4, <2>5, <2>6, <2>7, <2>8 DEF Next
<1> QED BY <1>1, <1>2, PTL DEF Spec, MarketFacts!Spec

\* The types MarketData keeps, in the loop.
LEMMA MarketTyped == Spec => []MarketFacts!TypeOK
<1>1. MarketFacts!MarketDataAssumption
  BY TradingCoreAssumption DEF Market!MarketDataAssumption, MarketFacts!MarketDataAssumption
<1> QED BY <1>1, DrivesMarket, MarketFacts!TypeCorrect, PTL

\* A step that publishes has prices of the exchange, or 0, to trade at.
LEMMA DispatchIsExecution ==
    ASSUME MarketFacts!TypeOK, MarketFacts!TypeOK', Dispatch,
           MarketFacts!HandleUpdate \/ \E n \in 0..MaxSequence : MarketFacts!ReceiveSnapshot(n)
    PROVE  \/ UNCHANGED executionVars
           \/ \E request \in StrategyRequests : Exec!CreateOrder(request)
<1> DEFINE signal == Evaluate(event'.bestBidQuantity, event'.bestAskQuantity)
           request == RequestFor(Instrument, signal, event')
<1>1. CASE published' = published
  BY <1>1 DEF Dispatch
<1>2. CASE published' # published /\ signal = "None"
  BY <1>2 DEF Dispatch, OnMarketEvent, Execute
<1>3. CASE published' # published /\ signal # "None"
  <2>1. Exec!CreateOrder(request)
    BY <1>3 DEF Dispatch, OnMarketEvent, Execute
  <2>2. event'.bestBid \in Prices \cup {0} /\ event'.bestAsk \in Prices \cup {0}
    <3>1. MarketFacts!MarketDataAssumption
      BY TradingCoreAssumption DEF Market!MarketDataAssumption, MarketFacts!MarketDataAssumption
    <3>2. published \in Nat
      BY DEF MarketFacts!TypeOK
    <3> QED BY <1>3, <3>1, <3>2, MarketFacts!PublishedQuotes
  <2>3. signal \in {"Buy", "Sell"}
    BY <1>3 DEF Evaluate
  <2> HIDE DEF signal
  <2>4. request \in StrategyRequests
    BY <2>2, <2>3 DEF RequestFor, StrategyRequests
  <2> QED BY <2>1, <2>4
<1> QED BY <1>1, <1>2, <1>3

\* What StrategyExecutor asks and what arrives from the venue are steps of
\* Execution: the loop is one of the uses Execution's theorems are about.
THEOREM LoopDrivesExecution == Spec => DrivesExecution
<1>1. Init => Exec!Init
  BY DEF Init
<1>2. [Next]_vars /\ MarketFacts!TypeOK /\ MarketFacts!TypeOK' => [Exec!Next]_Exec!vars
  <2> SUFFICES ASSUME [Next]_vars, MarketFacts!TypeOK, MarketFacts!TypeOK'
               PROVE  [Exec!Next]_Exec!vars
    OBVIOUS
  <2>1. ASSUME UNCHANGED executionVars
        PROVE  UNCHANGED Exec!vars
    BY <2>1 DEF executionVars, Exec!vars, Exec!orderManagerVars, Exec!riskVars,
                Exec!bookkeepingVars, Exec!venueVars
  <2>2. ASSUME NEW request \in StrategyRequests, Exec!CreateOrder(request)
        PROVE  Exec!Next
    BY <2>2 DEF Exec!Next
  <2>3. CASE ExchangeChanges
    BY <2>1, <2>3 DEF ExchangeChanges
  <2>4. CASE ReceiveMessage
    BY <2>1, <2>4 DEF ReceiveMessage
  <2>5. CASE HandleUpdate
    <3>1. MarketFacts!HandleUpdate
      BY <2>5, HandleUpdateIsMarkets
    <3> QED BY <2>1, <2>2, <2>5, <3>1, DispatchIsExecution DEF HandleUpdate
  <2>6. ASSUME NEW n \in 0..MaxSequence, ReceiveSnapshot(n)
        PROVE  [Exec!Next]_Exec!vars
    <3>1. MarketFacts!ReceiveSnapshot(n)
      BY <2>6, ReceiveSnapshotIsMarkets
    <3> QED BY <2>1, <2>2, <2>6, <3>1, DispatchIsExecution DEF ReceiveSnapshot
  <2>7. CASE ReceiveReport
    BY <2>7 DEF ReceiveReport, Exec!Next
  <2>8. CASE VenueActs
    BY <2>8 DEF VenueActs, Exec!Next
  <2>9. CASE UNCHANGED vars
    BY <2>1, <2>9 DEF vars
  <2> QED BY <2>3, <2>4, <2>5, <2>6, <2>7, <2>8, <2>9 DEF Next
<1> QED BY <1>1, <1>2, MarketTyped, PTL DEF Spec, DrivesExecution, Exec!Spec

-----------------------------------------------------------------------------
(* Where orders come from.  The invariant keeps, beside the events that     *)
(* caused the orders, that the recorded events were true quotes: the        *)
(* exchange goes on, but its old books stay.                                *)

\* The exchange's best prices at the event's sequence were the event's.
WasQuoted(e) ==
    /\ e.sequence \in 0..Len(changes)
    /\ e.bestBid = MarketFacts!Top(MarketFacts!DepthAt(e.sequence)).bestBid
    /\ e.bestAsk = MarketFacts!Top(MarketFacts!DepthAt(e.sequence)).bestAsk

RecordedQuotes ==
    /\ marketEvents \in Seq(MarketFacts!MarketEvent)
    /\ \A k \in 1..Len(marketEvents) : WasQuoted(marketEvents[k])

OrdersNumbered ==
    /\ nextOrderId \in Nat \ {0}
    /\ DOMAIN orders = 1..nextOrderId - 1
    /\ \A id \in 1..nextOrderId - 1 : {"side", "price"} \subseteq DOMAIN orders[id]

CausedBy(order, e) ==
    /\ order.side = Signalled(e)
    /\ order.price = (IF order.side = "Buy" THEN e.bestAsk ELSE e.bestBid)
    /\ order.price # 0

\* cause[id] is the place of the event order id was created at.
Causes(cause) ==
    /\ cause \in [1..nextOrderId - 1 -> 1..Len(marketEvents)]
    /\ \A i, j \in 1..nextOrderId - 1 : i < j => cause[i] < cause[j]
    /\ \A id \in 1..nextOrderId - 1 : CausedBy(orders[id], marketEvents[cause[id]])

OrdersCaused == \E cause : Causes(cause)

feedVars == <<changes, depths>>

LoopInv == RecordedQuotes /\ OrdersNumbered /\ OrdersCaused

\* Reports change neither the side nor the price of an order.
TermsKept ==
    /\ nextOrderId' = nextOrderId
    /\ DOMAIN orders' = DOMAIN orders
    /\ \A id \in DOMAIN orders :
          /\ orders'[id].side = orders[id].side /\ orders'[id].price = orders[id].price
          /\ {"side", "price"} \subseteq DOMAIN orders'[id]

LEMMA ReportsKeepTerms ==
    ASSUME OrdersNumbered, NEW k, Exec!Deliver(k)
    PROVE  TermsKept
<1> DEFINE report == inbound[k]
<1>1. nextOrderId' = nextOrderId
  BY DEF Exec!Deliver, Exec!OnExecutionReport
<1>2. CASE Exec!Known(report)
  <2>1. orders' = [orders EXCEPT ![report.clientOrderId] = Exec!Executed(@, report)]
    BY <1>2 DEF Exec!Deliver, Exec!OnExecutionReport, Exec!OrderManagerApply
  <2>2. ASSUME NEW order, {"side", "price"} \subseteq DOMAIN order
        PROVE  /\ Exec!Executed(order, report).side = order.side
               /\ Exec!Executed(order, report).price = order.price
               /\ {"side", "price"} \subseteq DOMAIN Exec!Executed(order, report)
    BY <2>2 DEF Exec!Executed
  <2> QED BY <1>1, <2>1, <2>2 DEF TermsKept, OrdersNumbered
<1>3. CASE ~Exec!Known(report)
  BY <1>1, <1>3 DEF Exec!Deliver, Exec!OnExecutionReport, TermsKept, OrdersNumbered
<1> QED BY <1>2, <1>3

LEMMA KeptTermsKeepCauses ==
    ASSUME OrdersNumbered, OrdersCaused, TermsKept, UNCHANGED marketEvents
    PROVE  OrdersNumbered' /\ OrdersCaused'
<1>1. OrdersNumbered'
  BY DEF OrdersNumbered, TermsKept
<1>2. PICK cause : Causes(cause)
  BY DEF OrdersCaused
<1>3. Causes(cause)'
  BY <1>2 DEF OrdersNumbered, TermsKept, Causes, CausedBy
<1> QED BY <1>1, <1>3 DEF OrdersCaused

\* An event that leads to no order is one more event to have caused orders.
LEMMA EventWithoutOrder ==
    ASSUME RecordedQuotes, OrdersNumbered, OrdersCaused,
           NEW e \in MarketFacts!MarketEvent, marketEvents' = Append(marketEvents, e),
           UNCHANGED <<orders, nextOrderId>>
    PROVE  OrdersNumbered' /\ OrdersCaused'
<1>1. /\ Len(marketEvents) \in Nat /\ Len(marketEvents') = Len(marketEvents) + 1
      /\ \A k \in 1..Len(marketEvents) : marketEvents'[k] = marketEvents[k]
  BY LenProperties, AppendProperties DEF RecordedQuotes
<1>2. OrdersNumbered'
  BY DEF OrdersNumbered
<1>3. PICK cause : Causes(cause)
  BY DEF OrdersCaused
<1>4. Causes(cause)'
  BY <1>1, <1>3 DEF Causes, CausedBy
<1> QED BY <1>2, <1>4 DEF OrdersCaused

\* The order made of an event is caused by the event, the newest there is.
LEMMA EventWithOrder ==
    ASSUME RecordedQuotes, OrdersNumbered, OrdersCaused,
           NEW e \in MarketFacts!MarketEvent, marketEvents' = Append(marketEvents, e),
           NEW side, side = Signalled(e),
           NEW request, request = RequestFor(Instrument, side, e),
           request.price > 0, Exec!Track(nextOrderId, request)
    PROVE  OrdersNumbered' /\ OrdersCaused'
<1> DEFINE n == nextOrderId
           last == Len(marketEvents) + 1
<1>1. /\ Len(marketEvents) \in Nat /\ Len(marketEvents') = last
      /\ \A k \in 1..Len(marketEvents) : marketEvents'[k] = marketEvents[k]
      /\ marketEvents'[last] = e
  BY LenProperties, AppendProperties DEF RecordedQuotes
<1>2. n \in Nat \ {0} /\ n \notin DOMAIN orders /\ DOMAIN orders = 1..n - 1
  BY DEF OrdersNumbered
<1>3. nextOrderId' = n + 1 /\ orders' = Exec!WithOrder(n, request)
  BY <1>2 DEF Exec!Track
<1>4. /\ DOMAIN orders' = 1..n /\ orders'[n] = Exec!NewOrder(request)
      /\ \A id \in 1..n - 1 : orders'[id] = orders[id]
  BY <1>2, <1>3 DEF Exec!WithOrder
<1>5. /\ {"side", "price"} \subseteq DOMAIN Exec!NewOrder(request)
      /\ Exec!NewOrder(request).side = request.side
      /\ Exec!NewOrder(request).price = request.price
  BY DEF Exec!NewOrder
<1>6. nextOrderId' - 1 = n
  BY <1>2, <1>3
<1>7. OrdersNumbered'
  BY <1>2, <1>3, <1>4, <1>5, <1>6 DEF OrdersNumbered
<1>8. PICK cause : Causes(cause)
  BY DEF OrdersCaused
<1>0. PICK later : later = [id \in 1..n |-> IF id = n THEN last ELSE cause[id]]
  OBVIOUS
<1>9. later \in [1..n -> 1..last]
  BY <1>0, <1>1, <1>2, <1>8 DEF Causes
<1>10. \A i, j \in 1..n : i < j => later[i] < later[j]
  BY <1>0, <1>1, <1>2, <1>8 DEF Causes
<1>11. CausedBy(orders'[n], marketEvents'[later[n]])
  <2>1. request.side = side
        /\ request.price = (IF side = "Buy" THEN e.bestAsk ELSE e.bestBid)
    BY DEF RequestFor
  <2>2. later[n] = last
    BY <1>0, <1>2
  <2> QED BY <1>1, <1>4, <1>5, <2>1, <2>2 DEF CausedBy
<1>12. ASSUME NEW id \in 1..n - 1
       PROVE  CausedBy(orders'[id], marketEvents'[later[id]])
  <2>1. later[id] = cause[id] /\ cause[id] \in 1..Len(marketEvents)
        /\ CausedBy(orders[id], marketEvents[cause[id]])
    BY <1>0, <1>2, <1>8, <1>12 DEF Causes
  <2> QED BY <1>1, <1>4, <2>1
<1>13. Causes(later)'
  <2>1. ASSUME NEW id \in 1..n
        PROVE  CausedBy(orders'[id], marketEvents'[later[id]])
    <3>1. id = n \/ id \in 1..n - 1
      BY <1>2
    <3> QED BY <1>11, <1>12, <3>1
  <2> QED BY <1>1, <1>6, <1>9, <1>10, <2>1 DEF Causes, CausedBy
<1> QED BY <1>7, <1>13 DEF OrdersCaused

\* What MarketEventHandler does with an event, whichever branch is taken.
LEMMA EventHandled ==
    ASSUME LoopInv, MarketFacts!IInv', UNCHANGED feedVars,
           published' # published, published' \in Nat \ {0}, OnMarketEvent(event')
    PROVE  LoopInv'
<1>1. PICK e : e = event'
  OBVIOUS
<1>2. e \in MarketFacts!MarketEvent /\ WasQuoted(e)
  BY <1>1 DEF MarketFacts!IInv, MarketFacts!TypeOK, MarketFacts!EventMatches,
              MarketFacts!EventIsExchangeTop, MarketFacts!DepthAt, WasQuoted,
              feedVars
<1>3. marketEvents' = Append(marketEvents, e)
  BY <1>1 DEF OnMarketEvent
<1>4. RecordedQuotes'
  <2>1. /\ marketEvents' \in Seq(MarketFacts!MarketEvent)
        /\ Len(marketEvents) \in Nat /\ Len(marketEvents') = Len(marketEvents) + 1
        /\ \A k \in 1..Len(marketEvents) : marketEvents'[k] = marketEvents[k]
        /\ marketEvents'[Len(marketEvents) + 1] = e
    BY <1>2, <1>3, LenProperties, AppendProperties DEF LoopInv, RecordedQuotes
  <2>2. \A k \in 1..Len(marketEvents') : WasQuoted(marketEvents'[k])
    BY <1>2, <2>1 DEF LoopInv, RecordedQuotes
  <2>3. \A any : WasQuoted(any) => WasQuoted(any)'
    BY DEF WasQuoted, MarketFacts!DepthAt, feedVars
  <2> QED BY <2>1, <2>2, <2>3 DEF RecordedQuotes
<1>5. OrdersNumbered' /\ OrdersCaused'
  <2>1. PICK side : side = Signalled(e)
    OBVIOUS
  <2>2. PICK request : request = RequestFor(Instrument, side, e)
    OBVIOUS
  <2>3. CASE UNCHANGED <<orders, nextOrderId>>
    BY <1>2, <1>3, <2>3, EventWithoutOrder DEF LoopInv
  <2>4. CASE Exec!ValidRequest(request) /\ Exec!Track(nextOrderId, request)
    BY <1>2, <1>3, <2>1, <2>2, <2>4, EventWithOrder DEF LoopInv, Exec!ValidRequest
  <2>5. Execute(side, e)
    BY <1>1, <2>1 DEF OnMarketEvent, Signalled
  <2>6. UNCHANGED executionVars => UNCHANGED <<orders, nextOrderId>>
    BY DEF executionVars
  <2>7. Exec!CreateOrder(request) =>
           \/ UNCHANGED <<orders, nextOrderId>>
           \/ Exec!ValidRequest(request) /\ Exec!Track(nextOrderId, request)
    BY DEF Exec!CreateOrder
  <2> QED BY <2>2, <2>3, <2>4, <2>5, <2>6, <2>7 DEF Execute
<1> QED BY <1>4, <1>5 DEF LoopInv

\* Steps that neither publish nor report.
LEMMA OrdersLeftAlone ==
    ASSUME LoopInv, UNCHANGED <<orders, nextOrderId, marketEvents>>, RecordedQuotes'
    PROVE  LoopInv'
BY DEF LoopInv, OrdersNumbered, OrdersCaused, Causes, CausedBy

LEMMA QuotesStay ==
    ASSUME RecordedQuotes, UNCHANGED <<marketEvents, feedVars>>
    PROVE  RecordedQuotes'
BY DEF RecordedQuotes, WasQuoted, MarketFacts!DepthAt, feedVars

LEMMA DispatchStep ==
    ASSUME LoopInv, MarketFacts!IInv, MarketFacts!IInv', Dispatch,
           UNCHANGED feedVars, published' = published \/ published' = published + 1
    PROVE  LoopInv'
<1>1. CASE published' = published
  <2>1. UNCHANGED <<orders, nextOrderId, marketEvents>>
    BY <1>1 DEF Dispatch, executionVars
  <2> QED BY <2>1, QuotesStay, OrdersLeftAlone DEF LoopInv
<1>2. CASE published' # published
  <2>1. OnMarketEvent(event')
    BY <1>2 DEF Dispatch
  <2>2. published \in Nat
    BY DEF MarketFacts!IInv, MarketFacts!TypeOK
  <2> QED BY <1>2, <2>1, <2>2, EventHandled
<1> QED BY <1>1, <1>2

\* Every order the loop creates goes back to an event of its own that quoted
\* the exchange as it was, and takes the other side's best price.
THEOREM OrdersHaveTheirEvents == Spec => []OrdersFollowEvents
<1>0. MarketFacts!MarketDataAssumption
  BY TradingCoreAssumption DEF Market!MarketDataAssumption, MarketFacts!MarketDataAssumption
<1>1. Init => LoopInv
  <2> SUFFICES ASSUME Init PROVE LoopInv
    OBVIOUS
  <2>1. /\ nextOrderId = 1 /\ orders = [id \in {} |-> 0] /\ marketEvents = <<>>
    BY DEF Init, Exec!Init
  <2>2. RecordedQuotes
    BY <2>1 DEF RecordedQuotes
  <2>3. 1..nextOrderId - 1 = {}
    BY <2>1
  <2>4. OrdersNumbered
    BY <2>1, <2>3 DEF OrdersNumbered
  <2>5. Causes([id \in 1..nextOrderId - 1 |-> 1])
    BY <2>3 DEF Causes
  <2> QED BY <2>2, <2>4, <2>5 DEF LoopInv, OrdersCaused
<1>2. LoopInv /\ MarketFacts!IInv /\ MarketFacts!IInv' /\ [Next]_vars => LoopInv'
  <2> SUFFICES ASSUME LoopInv, MarketFacts!IInv, MarketFacts!IInv', [Next]_vars
               PROVE  LoopInv'
    OBVIOUS
  <2>1. ASSUME NEW side \in Market!Sides, NEW price \in Prices, NEW quantity \in Quantities,
               Market!ExchangeChanges(side, price, quantity),
               UNCHANGED <<executionVars, marketEvents>>
        PROVE  LoopInv'
    <3>1. MarketFacts!ExchangeChanges(side, price, quantity) /\ side \in MarketFacts!Sides
      BY <2>1 DEF Market!ExchangeChanges, MarketFacts!ExchangeChanges,
                  Market!DepthAfter, MarketFacts!DepthAfter,
                  Market!DepthAt, MarketFacts!DepthAt,
                  Market!Sides, MarketFacts!Sides,
                  Market!bookVars, MarketFacts!bookVars,
                  Market!eventVars, MarketFacts!eventVars
    <3>2. \A n \in 0..Len(changes) : MarketFacts!DepthAt(n)' = MarketFacts!DepthAt(n)
      BY <1>0, <3>1, MarketFacts!OldBooksStay DEF MarketFacts!IInv
    <3>3. Len(changes) \in Nat /\ Len(changes') = Len(changes) + 1
      BY <3>1, LenProperties, AppendProperties
         DEF MarketFacts!ExchangeChanges, MarketFacts!IInv, MarketFacts!TypeOK
    <3>4. RecordedQuotes'
      <4>1. \A any : WasQuoted(any) => WasQuoted(any)'
        BY <3>2, <3>3 DEF WasQuoted, MarketFacts!DepthAt
      <4> QED BY <2>1, <4>1 DEF LoopInv, RecordedQuotes
    <3> QED BY <2>1, <3>4, OrdersLeftAlone DEF executionVars
  <2>2. CASE ReceiveMessage
    <3>1. UNCHANGED <<orders, nextOrderId, marketEvents, feedVars>>
      BY <2>2 DEF ReceiveMessage, Market!ReceiveMessage, Market!OnMessage,
                  Market!exchangeVars, executionVars, feedVars
    <3> QED BY <3>1, QuotesStay, OrdersLeftAlone DEF LoopInv
  <2>3. CASE HandleUpdate
    <3>1. Dispatch /\ UNCHANGED feedVars
      BY <2>3 DEF HandleUpdate, Market!HandleUpdate, Market!exchangeVars, feedVars
    <3>2. published' = published \/ published' = published + 1
      BY <2>3 DEF HandleUpdate, Market!HandleUpdate, Market!OnBookUpdate,
                  Market!PublishMarketEvent, Market!eventVars
    <3> QED BY <3>1, <3>2, DispatchStep
  <2>4. ASSUME NEW n \in 0..MaxSequence, ReceiveSnapshot(n)
        PROVE  LoopInv'
    <3>1. Dispatch /\ UNCHANGED feedVars
      BY <2>4 DEF ReceiveSnapshot, Market!ReceiveSnapshot, Market!exchangeVars,
                  feedVars
    <3>2. published' = published + 1
      BY <2>4 DEF ReceiveSnapshot, Market!ReceiveSnapshot, Market!ApplySnapshot,
                  Market!PublishMarketEvent
    <3> QED BY <3>1, <3>2, DispatchStep
  <2>5. CASE ReceiveReport
    <3>1. UNCHANGED <<marketEvents, feedVars>>
      BY <2>5 DEF ReceiveReport, marketVars, feedVars
    <3>2. TermsKept
      BY <2>5, ReportsKeepTerms DEF ReceiveReport, LoopInv
    <3> QED BY <3>1, <3>2, KeptTermsKeepCauses, QuotesStay DEF LoopInv
  <2>6. CASE VenueActs
    <3>1. UNCHANGED <<orders, nextOrderId, marketEvents, feedVars>>
      BY <2>6 DEF VenueActs, Exec!VenueReceives, Exec!VenueFills, Exec!venueUnchanged,
                  Exec!orderManagerVars, marketVars, feedVars
    <3> QED BY <3>1, QuotesStay, OrdersLeftAlone DEF LoopInv
  <2>7. CASE UNCHANGED vars
    <3>1. UNCHANGED <<orders, nextOrderId, marketEvents, feedVars>>
      BY <2>7 DEF vars, marketVars, executionVars, feedVars
    <3> QED BY <3>1, QuotesStay, OrdersLeftAlone DEF LoopInv
  <2> QED BY <2>1, <2>2, <2>3, <2>4, <2>5, <2>6, <2>7 DEF Next, ExchangeChanges
<1>3. LoopInv => OrdersFollowEvents
  <2> SUFFICES ASSUME LoopInv PROVE OrdersFollowEvents
    OBVIOUS
  <2>1. PICK cause : Causes(cause)
    BY DEF LoopInv, OrdersCaused
  <2>2. DOMAIN orders = 1..nextOrderId - 1 /\ DOMAIN marketEvents = 1..Len(marketEvents)
    BY LenProperties DEF LoopInv, OrdersNumbered, RecordedQuotes
  <2>3. ASSUME NEW id \in DOMAIN orders
        PROVE  LET e == marketEvents[cause[id]] IN
               /\ orders[id].side = Signalled(e)
               /\ orders[id].price = OppositeTop(orders[id].side, e.sequence)
               /\ orders[id].price # 0
    <3>1. PICK e : e = marketEvents[cause[id]]
      OBVIOUS
    <3>2. WasQuoted(e) /\ CausedBy(orders[id], e)
      BY <2>1, <2>2, <3>1 DEF Causes, LoopInv, RecordedQuotes
    <3>3. OppositeTop(orders[id].side, e.sequence) =
            IF orders[id].side = "Buy"
            THEN MarketFacts!Top(MarketFacts!DepthAt(e.sequence)).bestAsk
            ELSE MarketFacts!Top(MarketFacts!DepthAt(e.sequence)).bestBid
      BY DEF OppositeTop, Market!Top, MarketFacts!Top, Market!DepthAt, MarketFacts!DepthAt,
             Market!Max, MarketFacts!Max, Market!Min, MarketFacts!Min
    <3> QED BY <3>1, <3>2, <3>3 DEF WasQuoted, CausedBy
  <2> QED BY <2>1, <2>2, <2>3 DEF OrdersFollowEvents, Causes
<1> QED BY <1>0, <1>1, <1>2, <1>3, DrivesMarket, MarketFacts!Inductive, PTL DEF Spec
=============================================================================
