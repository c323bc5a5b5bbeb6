------------------------------ MODULE Execution ------------------------------
(***************************************************************************)
(* The execution subsystem of TradingCore: OrderManager with the risk      *)
(* check and the Position it holds, ExecutionReportHandler, the recorder   *)
(* and PositionManager, together with the gateway's wire and the venue.    *)
(*                                                                         *)
(* The subsystem is single-threaded: createOrder, cancel and               *)
(* onExecutionReport each run to completion, so each is one action.  What  *)
(* interleaves is the outside: the venue works on orders while new ones    *)
(* are created, and its reports may arrive late, twice or out of order.    *)
(* The venue and the wires are external to the repository.                 *)
(***************************************************************************)
EXTENDS Position, Sequences, FiniteSets, SequencesExt

CONSTANTS PriceScale,      \* raw units in one unit of price, 10^8 in the code
          Instruments,     \* instrument identifiers, non-zero in the code
          NoInstrument,    \* InstrumentId{0}, which createOrder refuses
          Requests,        \* the OrderRequests callers may submit
          Prices,          \* raw execution prices of the venue
          LimitChoices,    \* the RiskLimits setLimits may be called with
          StrayReports,    \* reports for orders this process never created
          MaxOrders,       \* bound: orders created
          MaxOutstanding,  \* bound: orders the callers keep open at a time
          MaxCancels,      \* bound: cancel requests
          MaxRecorded,     \* bound: reports received
          MaxDuplicates,   \* bound: reports the wire delivers a second time
          Reordering,      \* whether the wire may reorder reports
          QuantityMeaning  \* "fill": report.quantity is the executed quantity,
                           \* "order": it is the quantity of the order

OrderIds == 1..MaxOrders

Terminal == {"Filled", "Cancelled", "Rejected"}

OrderStatus == {"New", "PartiallyFilled"} \cup Terminal

ExecType == {"New", "Trade", "Cancel", "Reject"}

RiskReason == {"None", "MaxOrderQuantity", "MaxPositionQuantity", "MaxNotional"}

RiskLimits == [maxOrderQuantity : Nat, maxPositionQuantity : Nat, maxNotional : Nat]

OrderRequest == [instrument : Instruments \cup {NoInstrument}, side : Side,
                 price : Nat, quantity : Nat]

Order == [exchangeOrderId : Nat, instrument : Instruments, side : Side,
          price : Nat, quantity : Nat, filledQuantity : Nat, status : OrderStatus]

ExecutionReport == [clientOrderId : Nat, exchangeOrderId : Nat,
                    instrument : Instruments, side : Side, execType : ExecType,
                    status : OrderStatus, price : Nat, quantity : Nat,
                    filledQuantity : Nat]

ASSUME ExecutionAssumption ==
    /\ PriceScale \in Nat \ {0}
    /\ NoInstrument \notin Instruments
    /\ Requests \subseteq OrderRequest
    /\ Prices \subseteq Nat \ {0}
    /\ LimitChoices \subseteq RiskLimits
    /\ LimitChoices # {}
    /\ StrayReports \subseteq ExecutionReport
    /\ \A r \in StrayReports : r.clientOrderId = 0
    /\ MaxOrders \in Nat /\ MaxOutstanding \in Nat /\ MaxCancels \in Nat
    /\ MaxRecorded \in Nat /\ MaxDuplicates \in Nat
    /\ Reordering \in BOOLEAN
    /\ QuantityMeaning \in {"fill", "order"}

VARIABLES orders,       \* OrderManager: the tracked orders, by client order id
          nextOrderId,  \* OrderManager: the next client order id
          position,     \* the Position OrderManager and RiskManager share
          positions,    \* PositionManager: a Position per traded instrument
          limits,       \* RiskManager: the configured limits
          reason,       \* RiskManager: why the last check refused
          recorded,     \* TradeRecorder: the execution reports, in arrival order
          outbound,     \* everything handed to the gateway, in order
          taken,        \* how much of `outbound' the venue has processed
          venue,        \* the venue's view of each order
          inbound,      \* the venue's reports on their way
          cancels,      \* cancel requests made so far
          duplicates    \* reports delivered twice so far

orderManagerVars == <<orders, nextOrderId, position>>
riskVars         == <<limits, reason>>
bookkeepingVars  == <<positions, recorded>>
venueVars        == <<taken, venue, inbound>>
vars == <<orderManagerVars, riskVars, bookkeepingVars, outbound, venueVars,
          cancels, duplicates>>

-----------------------------------------------------------------------------
(* RiskManager.                                                            *)

\* A zero limit is disabled.
Exceeds(value, limit) == limit # 0 /\ value > limit

\* A slip: the order's own quantity is left out.
ResultingPositionBefore(request, pos) == Abs(pos.quantity)

ResultingPosition(request, pos) ==
    Abs(pos.quantity + Signed(request.side, request.quantity))

Notional(request) == Quotient(request.price * request.quantity, PriceScale)

\* The reason checkOrder leaves behind; the order is accepted iff it is "None".
CheckOrder(request, pos, lim) ==
    IF Exceeds(request.quantity, lim.maxOrderQuantity) THEN "MaxOrderQuantity"
    ELSE IF Exceeds(ResultingPosition(request, pos), lim.maxPositionQuantity)
    THEN "MaxPositionQuantity"
    ELSE IF Exceeds(Notional(request), lim.maxNotional) THEN "MaxNotional"
    ELSE "None"

SetLimits ==
    /\ limits' \in LimitChoices
    /\ reason' = "None"
    /\ UNCHANGED <<orderManagerVars, bookkeepingVars, outbound, venueVars,
                   cancels, duplicates>>

-----------------------------------------------------------------------------
(* OrderManager.                                                           *)

\* Slips: the instrument, or the price, is not checked.
ValidRequestAnyInstrument(request) == request.quantity > 0 /\ request.price > 0

ValidRequestAnyPrice(request) == request.instrument # NoInstrument /\ request.quantity > 0

ValidRequest(request) ==
    /\ request.instrument # NoInstrument
    /\ request.quantity > 0
    /\ request.price > 0

NewOrder(request) ==
    [exchangeOrderId |-> 0,
     instrument      |-> request.instrument,
     side            |-> request.side,
     price           |-> request.price,
     quantity        |-> request.quantity,
     filledQuantity  |-> 0,
     status          |-> "New"]

Outstanding == {id \in DOMAIN orders : orders[id].status \notin Terminal}

Send(id) == Append(outbound, [kind |-> "Send", id |-> id])

WithOrder(id, request) ==
    [i \in DOMAIN orders \cup {id} |-> IF i = id THEN NewOrder(request) ELSE orders[i]]

\* The id is consumed, the order is stored unless the map already has one of
\* that id, and only then the gateway is called: even a gateway that answers
\* from inside send finds the order tracked.
Track(id, request) ==
    /\ nextOrderId' = id + 1
    /\ IF id \in DOMAIN orders
       THEN UNCHANGED <<orders, outbound>>
       ELSE orders' = WithOrder(id, request) /\ outbound' = Send(id)

\* createOrder: validity, then risk against the held position, then the order
\* is tracked and handed to the gateway.  An invalid request returns before
\* the risk check, which therefore keeps its previous reason.
CreateOrder(request) ==
    /\ nextOrderId <= MaxOrders
    /\ Cardinality(Outstanding) < MaxOutstanding
    /\ IF ValidRequest(request)
       THEN /\ reason' = CheckOrder(request, position, limits)
            /\ IF reason' = "None"
               THEN Track(nextOrderId, request)
               ELSE UNCHANGED <<orders, nextOrderId, outbound>>
       ELSE UNCHANGED <<orders, nextOrderId, outbound, reason>>
    /\ UNCHANGED <<position, limits, bookkeepingVars, venueVars, cancels, duplicates>>

\* A slip: the order is not looked up first.
CancelUntracked(id) ==
    /\ cancels < MaxCancels
    /\ cancels' = cancels + 1
    /\ outbound' = Append(outbound, [kind |-> "Cancel", id |-> id])
    /\ UNCHANGED <<orderManagerVars, riskVars, bookkeepingVars, venueVars, duplicates>>

\* cancel: any tracked order, whatever its status, is forwarded.
Cancel(id) ==
    /\ cancels < MaxCancels
    /\ id \in DOMAIN orders
    /\ cancels' = cancels + 1
    /\ outbound' = Append(outbound, [kind |-> "Cancel", id |-> id])
    /\ UNCHANGED <<orderManagerVars, riskVars, bookkeepingVars, venueVars, duplicates>>

Known(report) == report.clientOrderId \in DOMAIN orders

\* A slip: the filled quantity is left as it was.
ExecutedStatusOnly(order, report) ==
    [order EXCEPT !.exchangeOrderId = report.exchangeOrderId,
                  !.status          = report.status]

\* A slip: only trades change the status.
ExecutedOnTrade(order, report) ==
    IF report.execType = "Trade"
    THEN [order EXCEPT !.status         = report.status,
                       !.filledQuantity = report.filledQuantity]
    ELSE order

\* applyExecution overwrites the order's state with the report's, whatever
\* the order's own state is.
Executed(order, report) ==
    [order EXCEPT !.exchangeOrderId = report.exchangeOrderId,
                  !.status          = report.status,
                  !.filledQuantity  = report.filledQuantity]

\* A slip: the cumulative quantity is added at every fill.
ApplyReportCumulative(pos, report) ==
    IF report.execType = "Trade"
    THEN ApplyTrade(pos, report.side, report.price, report.filledQuantity)
    ELSE pos

ApplyReport(pos, report) ==
    IF report.execType = "Trade"
    THEN ApplyTrade(pos, report.side, report.price, report.quantity)
    ELSE pos

\* A slip: the report is taken to be about the newest order.
OrderManagerApplyToNewest(report) ==
    /\ orders' = [orders EXCEPT ![nextOrderId - 1] = Executed(@, report)]
    /\ position' = ApplyReport(position, report)

OrderManagerApply(report) ==
    /\ orders' = [orders EXCEPT ![report.clientOrderId] = Executed(@, report)]
    /\ position' = ApplyReport(position, report)

-----------------------------------------------------------------------------
(* PositionManager and ExecutionReportHandler.                             *)

PositionOf(instrument) ==
    IF instrument \in DOMAIN positions THEN positions[instrument] ELSE Flat

\* A slip: only the report that completes an order moves the position.
ExecutesWhenFilled(report) == report.status = "Filled"

Executes(report) == report.execType = "Trade" /\ report.quantity # 0

PositionManagerApply(report) ==
    positions' =
        IF Executes(report)
        THEN [i \in DOMAIN positions \cup {report.instrument} |->
                 IF i = report.instrument
                 THEN ApplyTrade(PositionOf(i), report.side, report.price, report.quantity)
                 ELSE positions[i]]
        ELSE positions

\* onExecutionReport: record first, whatever follows; a report for an unknown
\* order reaches neither position.
OnExecutionReport(report) ==
    /\ Len(recorded) < MaxRecorded
    /\ recorded' = Append(recorded, report)
    /\ IF Known(report)
       THEN OrderManagerApply(report) /\ PositionManagerApply(report)
       ELSE UNCHANGED <<orders, position, positions>>
    /\ UNCHANGED <<nextOrderId, riskVars, outbound, taken, venue, cancels>>

-----------------------------------------------------------------------------
(* The venue and the wires (external).                                     *)

NoVenueOrder == [status |-> "Unseen", filled |-> 0]

Report(id, execType, status, price, quantity, filled) ==
    [clientOrderId   |-> id,
     exchangeOrderId |-> IF status = "Rejected" THEN 0 ELSE id,
     instrument      |-> orders[id].instrument,
     side            |-> orders[id].side,
     execType        |-> execType,
     status          |-> status,
     price           |-> price,
     quantity        |-> quantity,
     filledQuantity  |-> filled]

VenueSets(id, status, filled, report) ==
    /\ venue' = [venue EXCEPT ![id] = [status |-> status, filled |-> filled]]
    /\ inbound' = Append(inbound, report)

venueUnchanged == <<orderManagerVars, riskVars, bookkeepingVars, outbound,
                    cancels, duplicates>>

VenueReceives(id, status) ==
    /\ taken < Len(outbound)
    /\ outbound[taken + 1] = [kind |-> "Send", id |-> id]
    /\ taken' = taken + 1
    /\ VenueSets(id, status, 0,
                 Report(id, IF status = "New" THEN "New" ELSE "Reject", status,
                        orders[id].price, 0, 0))
    /\ UNCHANGED venueUnchanged

\* A cancel of an order that is no longer live is dropped by the venue.
VenueCancels(id) ==
    /\ taken < Len(outbound)
    /\ outbound[taken + 1] = [kind |-> "Cancel", id |-> id]
    /\ taken' = taken + 1
    /\ IF venue[id].status \in {"New", "PartiallyFilled"}
       THEN VenueSets(id, "Cancelled", venue[id].filled,
                      Report(id, "Cancel", "Cancelled", orders[id].price, 0,
                             venue[id].filled))
       ELSE UNCHANGED <<venue, inbound>>
    /\ UNCHANGED venueUnchanged

\* A limit order executes at its limit or better.
WithinLimit(order, price) ==
    IF order.side = "Buy" THEN price <= order.price ELSE price >= order.price

VenueFills(id, price, quantity) ==
    LET filled == venue[id].filled + quantity
        status == IF filled = orders[id].quantity THEN "Filled" ELSE "PartiallyFilled"
    IN
    /\ venue[id].status \in {"New", "PartiallyFilled"}
    /\ filled <= orders[id].quantity
    /\ WithinLimit(orders[id], price)
    /\ VenueSets(id, status, filled,
                 Report(id, "Trade", status, price,
                        IF QuantityMeaning = "fill" THEN quantity
                        ELSE orders[id].quantity,
                        filled))
    /\ UNCHANGED <<venueUnchanged, taken>>

\* The k-th report on the wire arrives, and may stay to arrive once more.
Deliver(k) ==
    /\ k = 1 \/ Reordering
    /\ OnExecutionReport(inbound[k])
    /\ \/ inbound' = RemoveAt(inbound, k) /\ UNCHANGED duplicates
       \/ /\ duplicates < MaxDuplicates
          /\ duplicates' = duplicates + 1
          /\ UNCHANGED inbound

DeliverStray(report) ==
    /\ OnExecutionReport(report)
    /\ UNCHANGED <<inbound, duplicates>>

-----------------------------------------------------------------------------
Init ==
    /\ orders = [id \in {} |-> 0]
    /\ nextOrderId = 1
    /\ position = Flat
    /\ positions = [i \in {} |-> 0]
    /\ limits \in LimitChoices
    /\ reason = "None"
    /\ recorded = <<>>
    /\ outbound = <<>>
    /\ taken = 0
    /\ venue = [id \in OrderIds |-> NoVenueOrder]
    /\ inbound = <<>>
    /\ cancels = 0
    /\ duplicates = 0

Next ==
    \/ SetLimits
    \/ \E request \in Requests : CreateOrder(request)
    \/ \E id \in OrderIds : Cancel(id)
    \/ \E k \in DOMAIN inbound : Deliver(k)
    \/ \E report \in StrayReports : DeliverStray(report)
    \/ \E id \in OrderIds : VenueReceives(id, "New")
    \/ \E id \in OrderIds : VenueReceives(id, "Rejected")
    \/ \E id \in OrderIds : VenueCancels(id)
    \/ \E id \in DOMAIN orders, price \in Prices :
          \E quantity \in 1..orders[id].quantity : VenueFills(id, price, quantity)

Spec == Init /\ [][Next]_vars

-----------------------------------------------------------------------------
(* Properties.                                                             *)

TypeOK ==
    /\ nextOrderId \in 1..MaxOrders + 1
    /\ orders \in [1..nextOrderId - 1 -> Order]
    /\ position \in PositionValue
    /\ DOMAIN positions \subseteq Instruments
    /\ \A i \in DOMAIN positions : positions[i] \in PositionValue
    /\ limits \in LimitChoices
    /\ reason \in RiskReason
    /\ recorded \in Seq(ExecutionReport)
    /\ inbound \in Seq(ExecutionReport)
    /\ outbound \in Seq([kind : {"Send", "Cancel"}, id : OrderIds])
    /\ taken \in 0..Len(outbound)
    /\ venue \in [OrderIds -> [status : OrderStatus \cup {"Unseen"}, filled : Nat]]
    /\ cancels \in Nat
    /\ duplicates \in Nat

SignedFill(order) == Signed(order.side, order.filledQuantity)

\* The position that gates every new order is the net of what the tracked
\* orders report as filled: applyExecution moves the order by overwriting and
\* the position by adding, and the two stay together when each report is
\* applied once.
FillsMatchPosition ==
    position.quantity = SumFunction([id \in DOMAIN orders |-> SignedFill(orders[id])])

\* OrderManager's Position and PositionManager's positions are updated by two
\* calls of onExecutionReport with conditions of their own; whatever reports
\* arrive, how often and in which order, the net quantities agree.
LedgersAgree ==
    position.quantity = SumFunction([i \in DOMAIN positions |-> positions[i].quantity])

\* With a single instrument, as Application runs it, the risk check's position
\* and PositionManager's are the same, average entry price included.
SingleLedger == \A i \in Instruments : Instruments = {i} => position = PositionOf(i)

SignedTrade(report) ==
    IF Known(report) /\ report.execType = "Trade"
    THEN Signed(report.side, report.quantity) ELSE 0

\* The recorder is a complete audit trail: the net of the recorded Trade
\* reports of tracked orders is the position, duplicates included.
RecordedTradesExplainPosition ==
    position.quantity = SumFunction([n \in DOMAIN recorded |-> SignedTrade(recorded[n])])

\* Neither ledger keeps an average entry price for a flat position, or an open
\* position without one, through any sequence of reports.
NoStaleAverage ==
    /\ (position.quantity = 0) <=> (position.averagePrice = 0)
    /\ \A i \in DOMAIN positions :
          (positions[i].quantity = 0) <=> (positions[i].averagePrice = 0)

\* What a delivered report does to the two ledgers keeps them good: the same
\* position, average entry price included, and none of it stale.
LedgersGood == NoStaleAverage /\ SingleLedger

\* When nothing about an order is in flight, the tracked order has the status
\* and filled quantity the venue has, however creations, cancels and reports
\* of other orders interleaved.
OrderTracksVenue ==
    \A id \in DOMAIN orders :
        (/\ venue[id].status # "Unseen"
         /\ \A k \in DOMAIN inbound : inbound[k].clientOrderId # id)
        => /\ orders[id].status = venue[id].status
           /\ orders[id].filledQuantity = venue[id].filled

\* A filled, cancelled or rejected order never changes again
\* (order_manager.hpp:171: a report that does not fit the order's state is to
\* be refused).  applyExecution has no such check: the order the reports
\* arrive in decides.
TerminalIsFinal ==
    [][\A id \in DOMAIN orders :
          orders[id].status \in Terminal => orders'[id] = orders[id]]_vars

Sends(id) == {n \in DOMAIN outbound : outbound[n] = [kind |-> "Send", id |-> id]}

Revokes(id) == {n \in DOMAIN outbound : outbound[n] = [kind |-> "Cancel", id |-> id]}

\* The gateway is handed every tracked order exactly once, before any cancel
\* for it, and nothing about an order that is not tracked.
GatewayProtocol ==
    \A id \in OrderIds :
        IF id \in DOMAIN orders
        THEN \E n \in DOMAIN outbound :
                Sends(id) = {n} /\ \A c \in Revokes(id) : n < c
        ELSE Sends(id) \cup Revokes(id) = {}

OpenQuantity(order) ==
    IF order.status \in Terminal THEN 0 ELSE order.quantity - order.filledQuantity

OpenOn(side) ==
    SumFunction([id \in DOMAIN orders |->
                    IF orders[id].side = side THEN OpenQuantity(orders[id]) ELSE 0])

\* The risk check does not reserve risk for orders in flight
\* (risk_manager.cpp:39), so the limit can be overrun; by how much is bounded:
\* even if everything open executes, by one maximal order for each order open
\* beside the last.
ExposureBounded ==
    LET bound == limits.maxPositionQuantity
                 + (MaxOutstanding - 1) * limits.maxOrderQuantity
    IN  limits.maxPositionQuantity # 0 /\ limits.maxOrderQuantity # 0 =>
            /\ position.quantity + OpenOn("Buy") <= bound
            /\ -position.quantity + OpenOn("Sell") <= bound

=============================================================================
