--------------------------- MODULE ExecutionProofs ---------------------------
(***************************************************************************)
(* Proofs about Execution for every set of instruments, requests, prices   *)
(* and limits, every bound, and every delivery discipline of the wire.     *)
(***************************************************************************)
EXTENDS Execution, ArithmeticProofs, SequenceTheorems

USE ExecutionAssumption

\* Execution prices are positive; other reports may carry any price.
PricedReport == {r \in ExecutionReport : r.execType = "Trade" => r.price # 0}

Message(n) == [kind : {"Send", "Cancel"}, id : 1..n - 1]

\* The inductive invariant.  Only ids that were handed out travel to the
\* venue, so a report for an order is made while the order is tracked; and a
\* trade in flight has a positive price, which applyTrade relies on.
IInv ==
    /\ TypeOK
    /\ inbound \in Seq(PricedReport)
    /\ outbound \in Seq(Message(nextOrderId))

-----------------------------------------------------------------------------
LEMMA AppendType ==
    ASSUME NEW S, NEW s \in Seq(S), NEW e \in S
    PROVE  Append(s, e) \in Seq(S)
OBVIOUS

LEMMA RemoveAtType ==
    ASSUME NEW S, NEW s \in Seq(S), NEW k \in 1..Len(s)
    PROVE  RemoveAt(s, k) \in Seq(S)
<1>1. \A i \in 1..k - 1 : s[i] \in S
  BY ElementOfSeq
<1>2. \A i \in k + 1..Len(s) : s[i] \in S
  BY ElementOfSeq
<1>3. SubSeq(s, 1, k - 1) \in Seq(S)
  BY <1>1, SubSeqProperties
<1>4. SubSeq(s, k + 1, Len(s)) \in Seq(S)
  BY <1>2, SubSeqProperties, LenProperties
<1> QED BY <1>3, <1>4, ConcatProperties DEF RemoveAt

LEMMA SeqOfLarger ==
    ASSUME NEW S, NEW T, S \subseteq T, NEW s \in Seq(S)
    PROVE  s \in Seq(T)
<1>1. Len(s) \in Nat /\ s \in [1..Len(s) -> S]
  BY LenProperties
<1> QED BY <1>1

LEMMA CheckOrderType ==
    ASSUME NEW request \in OrderRequest, NEW pos, NEW lim
    PROVE  CheckOrder(request, pos, lim) \in RiskReason
BY DEF CheckOrder, RiskReason

LEMMA NewOrderType ==
    ASSUME NEW request \in OrderRequest, ValidRequest(request)
    PROVE  NewOrder(request) \in Order
BY DEF NewOrder, OrderRequest, Order, ValidRequest, OrderStatus

LEMMA ExecutedType ==
    ASSUME NEW order \in Order, NEW report \in ExecutionReport
    PROVE  Executed(order, report) \in Order
BY DEF Executed, Order, ExecutionReport

LEMMA ApplyReportType ==
    ASSUME NEW pos \in PositionValue, NEW report \in ExecutionReport
    PROVE  ApplyReport(pos, report) \in PositionValue
<1>1. report.side \in Side /\ report.price \in Nat /\ report.quantity \in Nat
  BY DEF ExecutionReport
<1> QED BY <1>1, ApplyTradeType DEF ApplyReport

LEMMA FlatType == Flat \in PositionValue /\ AverageIffOpen(Flat)
BY DEF Flat, PositionValue, AverageIffOpen

\* A report the venue makes about a tracked order is well typed.
LEMMA ReportType ==
    ASSUME TypeOK, NEW id \in 1..nextOrderId - 1,
           NEW execType \in ExecType, NEW status \in OrderStatus,
           NEW price \in Nat, NEW quantity \in Nat, NEW filled \in Nat,
           execType = "Trade" => price # 0
    PROVE  Report(id, execType, status, price, quantity, filled) \in PricedReport
<1>1. orders[id] \in Order /\ id \in Nat
  BY DEF TypeOK
<1>2. orders[id].instrument \in Instruments /\ orders[id].side \in Side
  BY <1>1 DEF Order
<1> QED BY <1>1, <1>2 DEF Report, ExecutionReport, PricedReport

-----------------------------------------------------------------------------
(* Each action preserves the inductive invariant.                          *)

LEMMA CreateOrderStep ==
    ASSUME IInv, NEW request \in Requests, CreateOrder(request)
    PROVE  IInv'
<1>1. request \in OrderRequest
  OBVIOUS
<1>2. nextOrderId \in 1..MaxOrders
  BY DEF IInv, TypeOK, CreateOrder
<1>3. CASE UNCHANGED <<orders, nextOrderId, outbound>>
  <2>1. reason' \in RiskReason
    BY <1>1, CheckOrderType DEF IInv, TypeOK, CreateOrder
  <2> QED BY <1>3, <2>1
          DEF IInv, TypeOK, CreateOrder, Message, bookkeepingVars, venueVars
<1>4. CASE ValidRequest(request) /\ reason' = "None" /\ Track(nextOrderId, request)
  <2>1. nextOrderId \notin DOMAIN orders
    BY <1>2 DEF IInv, TypeOK
  <2>2. orders' \in [1..nextOrderId' - 1 -> Order]
    BY <1>1, <1>2, <1>4, <2>1, NewOrderType DEF IInv, TypeOK, Track, WithOrder
  <2>3. nextOrderId' \in 1..MaxOrders + 1 /\ nextOrderId' = nextOrderId + 1
    BY <1>2, <1>4 DEF Track
  <2>4. outbound' = Append(outbound, [kind |-> "Send", id |-> nextOrderId])
    BY <1>4, <2>1 DEF Track, Send
  <2>5. Message(nextOrderId) \subseteq Message(nextOrderId')
    BY <1>2, <2>3 DEF Message
  <2>6. [kind |-> "Send", id |-> nextOrderId] \in Message(nextOrderId')
    BY <1>2, <2>3 DEF Message
  <2>7. outbound \in Seq(Message(nextOrderId'))
    BY <2>5, SeqOfLarger DEF IInv
  <2>8. outbound' \in Seq(Message(nextOrderId'))
    BY <2>4, <2>6, <2>7, AppendType
  <2>9. Message(nextOrderId') \subseteq [kind : {"Send", "Cancel"}, id : OrderIds]
    BY <1>2, <2>3 DEF Message, OrderIds
  <2>10. outbound' \in Seq([kind : {"Send", "Cancel"}, id : OrderIds])
    BY <2>8, <2>9, SeqOfLarger
  <2>11. Len(outbound') = Len(outbound) + 1 /\ Len(outbound) \in Nat
    BY <2>4, <2>7, LenProperties
  <2>12. taken' \in 0..Len(outbound')
    BY <2>11 DEF IInv, TypeOK, CreateOrder, venueVars
  <2>13. reason' \in RiskReason
    BY <1>4 DEF RiskReason
  <2> QED BY <2>2, <2>3, <2>8, <2>10, <2>12, <2>13
          DEF IInv, TypeOK, CreateOrder, bookkeepingVars, venueVars
<1> QED BY <1>3, <1>4 DEF CreateOrder

LEMMA CancelStep ==
    ASSUME IInv, NEW id \in OrderIds, Cancel(id)
    PROVE  IInv'
<1> DEFINE m == [kind |-> "Cancel", id |-> id]
<1>1. id \in 1..nextOrderId - 1
  BY DEF IInv, TypeOK, Cancel
<1>2. m \in Message(nextOrderId) /\ m \in [kind : {"Send", "Cancel"}, id : OrderIds]
  BY <1>1 DEF Message
<1>3. outbound' = Append(outbound, m)
  BY DEF Cancel
<1> HIDE DEF m
<1>4. /\ outbound' \in Seq(Message(nextOrderId))
      /\ outbound' \in Seq([kind : {"Send", "Cancel"}, id : OrderIds])
  BY <1>2, <1>3, AppendType DEF IInv, TypeOK
<1>5. Len(outbound') = Len(outbound) + 1 /\ Len(outbound) \in Nat
  BY <1>3, LenProperties DEF IInv
<1>6. taken' \in 0..Len(outbound') /\ cancels' \in Nat
  BY <1>5 DEF IInv, TypeOK, Cancel, venueVars
<1> QED BY <1>4, <1>6
        DEF IInv, TypeOK, Cancel, orderManagerVars, riskVars, bookkeepingVars, venueVars

LEMMA OnExecutionReportStep ==
    ASSUME IInv, NEW report \in ExecutionReport, OnExecutionReport(report)
    PROVE  /\ orders' \in [1..nextOrderId' - 1 -> Order]
           /\ position' \in PositionValue
           /\ DOMAIN positions' \subseteq Instruments
           /\ \A i \in DOMAIN positions' : positions'[i] \in PositionValue
           /\ recorded' \in Seq(ExecutionReport)
<1>1. recorded' \in Seq(ExecutionReport)
  BY AppendType DEF IInv, TypeOK, OnExecutionReport
<1>2. CASE ~Known(report)
  BY <1>1, <1>2 DEF IInv, TypeOK, OnExecutionReport
<1>3. CASE Known(report)
  <2>1. OrderManagerApply(report) /\ PositionManagerApply(report)
    BY <1>3 DEF OnExecutionReport
  <2>2. orders' \in [1..nextOrderId' - 1 -> Order]
    BY <1>3, <2>1, ExecutedType
       DEF IInv, TypeOK, OnExecutionReport, OrderManagerApply, Known
  <2>3. position' \in PositionValue
    BY <2>1, ApplyReportType DEF IInv, TypeOK, OrderManagerApply
  <2>4. /\ DOMAIN positions' \subseteq Instruments
        /\ \A i \in DOMAIN positions' : positions'[i] \in PositionValue
    <3>1. CASE ~Executes(report)
      BY <2>1, <3>1 DEF IInv, TypeOK, PositionManagerApply
    <3>2. CASE Executes(report)
      <4> DEFINE applied == ApplyTrade(PositionOf(report.instrument), report.side,
                                       report.price, report.quantity)
      <4>1. /\ report.instrument \in Instruments /\ report.side \in Side
            /\ report.price \in Nat /\ report.quantity \in Nat
        BY DEF ExecutionReport
      <4>2. PositionOf(report.instrument) \in PositionValue
        BY FlatType DEF IInv, TypeOK, PositionOf
      <4>3. applied \in PositionValue
        BY <4>1, <4>2, ApplyTradeType
      <4>4. positions' = [i \in DOMAIN positions \cup {report.instrument} |->
                             IF i = report.instrument THEN applied ELSE positions[i]]
        BY <2>1, <3>2 DEF PositionManagerApply
      <4> HIDE DEF applied
      <4> QED BY <4>1, <4>3, <4>4 DEF IInv, TypeOK
    <3> QED BY <3>1, <3>2
  <2> QED BY <1>1, <2>2, <2>3, <2>4
<1> QED BY <1>2, <1>3

LEMMA DeliverStep ==
    ASSUME IInv, NEW k \in DOMAIN inbound, Deliver(k)
    PROVE  IInv'
<1>1. k \in 1..Len(inbound) /\ inbound[k] \in ExecutionReport
  BY LenProperties, ElementOfSeq DEF IInv, TypeOK
<1>2. OnExecutionReport(inbound[k])
  BY DEF Deliver
<1>3. inbound' \in Seq(PricedReport) /\ inbound' \in Seq(ExecutionReport)
  BY <1>1, RemoveAtType DEF IInv, TypeOK, Deliver
<1>4. duplicates' \in Nat
  BY DEF IInv, TypeOK, Deliver
<1>5. UNCHANGED <<nextOrderId, riskVars, outbound, taken, venue, cancels>>
  BY <1>2 DEF OnExecutionReport
<1> QED BY <1>1, <1>2, <1>3, <1>4, <1>5, OnExecutionReportStep
        DEF IInv, TypeOK, riskVars, Message

LEMMA DeliverStrayStep ==
    ASSUME IInv, NEW report \in StrayReports, DeliverStray(report)
    PROVE  IInv'
<1>1. OnExecutionReport(report) /\ report \in ExecutionReport
  BY DEF DeliverStray
<1>2. UNCHANGED <<inbound, duplicates, nextOrderId, riskVars, outbound, taken, venue, cancels>>
  BY <1>1 DEF OnExecutionReport, DeliverStray
<1> QED BY <1>1, <1>2, OnExecutionReportStep DEF IInv, TypeOK, riskVars, Message

\* What the two venue actions that report on an order have in common.
LEMMA VenueSetsStep ==
    ASSUME IInv, NEW id \in 1..nextOrderId - 1, NEW status \in OrderStatus,
           NEW filled \in Nat, NEW report \in PricedReport,
           VenueSets(id, status, filled, report)
    PROVE  /\ venue' \in [OrderIds -> [status : OrderStatus \cup {"Unseen"}, filled : Nat]]
           /\ inbound' \in Seq(PricedReport)
           /\ inbound' \in Seq(ExecutionReport)
<1>1. report \in ExecutionReport
  BY DEF PricedReport
<1>2. inbound' \in Seq(PricedReport) /\ inbound' \in Seq(ExecutionReport)
  BY <1>1, AppendType DEF IInv, TypeOK, VenueSets
<1>3. id \in OrderIds
  BY DEF IInv, TypeOK, OrderIds
<1>4. venue' \in [OrderIds -> [status : OrderStatus \cup {"Unseen"}, filled : Nat]]
  BY <1>3 DEF IInv, TypeOK, VenueSets
<1> QED BY <1>2, <1>4

LEMMA VenueReceivesStep ==
    ASSUME IInv, NEW id \in OrderIds, NEW status \in {"New", "Rejected"},
           VenueReceives(id, status)
    PROVE  IInv'
<1>1. taken + 1 \in 1..Len(outbound) /\ taken' = taken + 1
  BY LenProperties DEF IInv, TypeOK, VenueReceives
<1>2. outbound[taken + 1] \in Message(nextOrderId)
  BY <1>1, ElementOfSeq DEF IInv
<1>3. id \in 1..nextOrderId - 1
  BY <1>2 DEF VenueReceives, Message
<1>4. status \in OrderStatus /\ (IF status = "New" THEN "New" ELSE "Reject") \in ExecType \ {"Trade"}
  BY DEF OrderStatus, Terminal, ExecType
<1>5. orders[id].price \in Nat
  BY <1>3 DEF IInv, TypeOK, Order
<1>6. Report(id, IF status = "New" THEN "New" ELSE "Reject", status, orders[id].price, 0, 0)
        \in PricedReport
  BY <1>3, <1>4, <1>5, ReportType DEF IInv
<1>7. /\ venue' \in [OrderIds -> [status : OrderStatus \cup {"Unseen"}, filled : Nat]]
      /\ inbound' \in Seq(PricedReport)
      /\ inbound' \in Seq(ExecutionReport)
  BY <1>3, <1>4, <1>6, VenueSetsStep DEF VenueReceives
<1>8. taken' \in 0..Len(outbound)
  BY <1>1
<1> QED BY <1>7, <1>8
        DEF IInv, TypeOK, VenueReceives, venueUnchanged, orderManagerVars, riskVars,
            bookkeepingVars, Message

LEMMA VenueCancelsStep ==
    ASSUME IInv, NEW id \in OrderIds, VenueCancels(id)
    PROVE  IInv'
<1>1. taken + 1 \in 1..Len(outbound) /\ taken' = taken + 1
  BY LenProperties DEF IInv, TypeOK, VenueCancels
<1>2. outbound[taken + 1] \in Message(nextOrderId)
  BY <1>1, ElementOfSeq DEF IInv
<1>3. id \in 1..nextOrderId - 1
  BY <1>2 DEF VenueCancels, Message
<1>4. "Cancelled" \in OrderStatus /\ "Cancel" \in ExecType /\ venue[id].filled \in Nat
  BY DEF OrderStatus, Terminal, ExecType, IInv, TypeOK
<1>5. orders[id].price \in Nat
  BY <1>3 DEF IInv, TypeOK, Order
<1>6. Report(id, "Cancel", "Cancelled", orders[id].price, 0, venue[id].filled) \in PricedReport
  BY <1>3, <1>4, <1>5, ReportType DEF IInv
<1>7. /\ venue' \in [OrderIds -> [status : OrderStatus \cup {"Unseen"}, filled : Nat]]
      /\ inbound' \in Seq(PricedReport)
      /\ inbound' \in Seq(ExecutionReport)
  <2>1. CASE venue[id].status \in {"New", "PartiallyFilled"}
    BY <1>3, <1>4, <1>6, <2>1, VenueSetsStep DEF VenueCancels
  <2>2. CASE venue[id].status \notin {"New", "PartiallyFilled"}
    BY <2>2 DEF IInv, TypeOK, VenueCancels
  <2> QED BY <2>1, <2>2
<1>8. taken' \in 0..Len(outbound)
  BY <1>1
<1> QED BY <1>7, <1>8
        DEF IInv, TypeOK, VenueCancels, venueUnchanged, orderManagerVars, riskVars,
            bookkeepingVars, Message

LEMMA VenueFillsStep ==
    ASSUME IInv, NEW id \in DOMAIN orders, NEW price \in Prices,
           NEW quantity \in 1..orders[id].quantity, VenueFills(id, price, quantity)
    PROVE  IInv'
<1> DEFINE filled == venue[id].filled + quantity
           status == IF filled = orders[id].quantity THEN "Filled" ELSE "PartiallyFilled"
           reported == IF QuantityMeaning = "fill" THEN quantity ELSE orders[id].quantity
<1>1. id \in 1..nextOrderId - 1 /\ orders[id] \in Order /\ id \in OrderIds
  BY DEF IInv, TypeOK, OrderIds
<1>2. orders[id].quantity \in Nat /\ venue[id].filled \in Nat
  BY <1>1 DEF IInv, TypeOK, Order
<1>3. filled \in Nat /\ status \in OrderStatus /\ reported \in Nat
  BY <1>2 DEF OrderStatus, Terminal
<1>4. price \in Nat \ {0} /\ "Trade" \in ExecType
  BY DEF ExecType
<1>5. VenueSets(id, status, filled, Report(id, "Trade", status, price, reported, filled))
  BY DEF VenueFills
<1> HIDE DEF filled, status, reported
<1>6. Report(id, "Trade", status, price, reported, filled) \in PricedReport
  BY <1>1, <1>3, <1>4, ReportType DEF IInv
<1>7. /\ venue' \in [OrderIds -> [status : OrderStatus \cup {"Unseen"}, filled : Nat]]
      /\ inbound' \in Seq(PricedReport)
      /\ inbound' \in Seq(ExecutionReport)
  BY <1>1, <1>3, <1>5, <1>6, VenueSetsStep
<1> QED BY <1>7
        DEF IInv, TypeOK, VenueFills, venueUnchanged, orderManagerVars, riskVars,
            bookkeepingVars, Message

LEMMA InitEstablishes == Init => IInv
<1> SUFFICES ASSUME Init PROVE IInv
  OBVIOUS
<1>1. /\ inbound \in Seq(PricedReport) /\ inbound \in Seq(ExecutionReport)
      /\ recorded \in Seq(ExecutionReport)
      /\ outbound \in Seq(Message(nextOrderId))
      /\ outbound \in Seq([kind : {"Send", "Cancel"}, id : OrderIds])
      /\ Len(outbound) = 0
  BY EmptySeq DEF Init
<1>2. nextOrderId \in 1..MaxOrders + 1 /\ taken \in 0..Len(outbound)
  BY <1>1 DEF Init
<1>3. orders \in [1..nextOrderId - 1 -> Order]
  BY DEF Init
<1>4. venue \in [OrderIds -> [status : OrderStatus \cup {"Unseen"}, filled : Nat]]
  BY DEF Init, NoVenueOrder
<1>5. position \in PositionValue /\ reason \in RiskReason /\ limits \in LimitChoices
  BY FlatType DEF Init, RiskReason
<1> QED BY <1>1, <1>2, <1>3, <1>4, <1>5 DEF Init, IInv, TypeOK

LEMMA NextPreserves == IInv /\ [Next]_vars => IInv'
<1> SUFFICES ASSUME IInv, [Next]_vars PROVE IInv'
  OBVIOUS
<1>1. CASE SetLimits
  BY <1>1 DEF SetLimits, IInv, TypeOK, RiskReason, orderManagerVars, bookkeepingVars,
              venueVars, Message
<1>2. ASSUME NEW request \in Requests, CreateOrder(request) PROVE IInv'
  BY <1>2, CreateOrderStep
<1>3. ASSUME NEW id \in OrderIds, Cancel(id) PROVE IInv'
  BY <1>3, CancelStep
<1>4. ASSUME NEW k \in DOMAIN inbound, Deliver(k) PROVE IInv'
  BY <1>4, DeliverStep
<1>5. ASSUME NEW report \in StrayReports, DeliverStray(report) PROVE IInv'
  BY <1>5, DeliverStrayStep
<1>6. ASSUME NEW id \in OrderIds, VenueReceives(id, "New") PROVE IInv'
  BY <1>6, VenueReceivesStep
<1>7. ASSUME NEW id \in OrderIds, VenueReceives(id, "Rejected") PROVE IInv'
  BY <1>7, VenueReceivesStep
<1>8. ASSUME NEW id \in OrderIds, VenueCancels(id) PROVE IInv'
  BY <1>8, VenueCancelsStep
<1>9. ASSUME NEW id \in DOMAIN orders, NEW price \in Prices,
             NEW quantity \in 1..orders[id].quantity, VenueFills(id, price, quantity)
      PROVE  IInv'
  BY <1>9, VenueFillsStep
<1>10. CASE UNCHANGED vars
  BY <1>10 DEF vars, orderManagerVars, riskVars, bookkeepingVars, venueVars, IInv, TypeOK,
               Message
<1> QED BY <1>1, <1>2, <1>3, <1>4, <1>5, <1>6, <1>7, <1>8, <1>9, <1>10 DEF Next

\* The type invariant of the whole subsystem, for every instance.
THEOREM TypeCorrect == Spec => []TypeOK
<1>1. IInv => TypeOK
  BY DEF IInv
<1> QED BY InitEstablishes, NextPreserves, <1>1, PTL DEF Spec

-----------------------------------------------------------------------------
(* The ledgers.                                                            *)

\* One report, known or not, priced if it is a trade, keeps both ledgers good.
LEMMA OnExecutionReportLedgers ==
    ASSUME IInv, LedgersGood, NEW report \in ExecutionReport,
           Known(report) => report \in PricedReport,
           OnExecutionReport(report)
    PROVE  LedgersGood'
<1>1. /\ position \in PositionValue /\ AverageIffOpen(position)
      /\ \A i \in Instruments : /\ PositionOf(i) \in PositionValue
                               /\ AverageIffOpen(PositionOf(i))
  BY FlatType DEF IInv, TypeOK, LedgersGood, NoStaleAverage, AverageIffOpen, PositionOf
<1>2. CASE ~Known(report)
  BY <1>2 DEF LedgersGood, NoStaleAverage, SingleLedger, PositionOf, OnExecutionReport
<1>3. CASE Known(report) /\ ~Executes(report)
  <2>1. positions' = positions
    BY <1>3 DEF OnExecutionReport, PositionManagerApply
  <2>2. position' = position
    BY <1>3 DEF OnExecutionReport, OrderManagerApply, ApplyReport, Executes, ApplyTrade
  <2> QED BY <2>1, <2>2 DEF LedgersGood, NoStaleAverage, SingleLedger, PositionOf
<1>4. CASE Known(report) /\ Executes(report)
  <2> DEFINE applied(pos) == ApplyTrade(pos, report.side, report.price, report.quantity)
  <2>1. /\ report.instrument \in Instruments /\ report.side \in Side
        /\ report.price \in Nat \ {0} /\ report.quantity \in Nat
    BY <1>4 DEF PricedReport, ExecutionReport, Executes
  <2>2. position' = applied(position)
    BY <1>4 DEF OnExecutionReport, OrderManagerApply, ApplyReport, Executes
  <2>3. positions' = [i \in DOMAIN positions \cup {report.instrument} |->
                         IF i = report.instrument
                         THEN applied(PositionOf(i)) ELSE positions[i]]
    BY <1>4 DEF OnExecutionReport, PositionManagerApply
  <2>4. /\ AverageIffOpen(applied(position))
        /\ AverageIffOpen(applied(PositionOf(report.instrument)))
    BY <1>1, <2>1, ApplyTradeAverageIffOpen
  <2> HIDE DEF applied
  <2>5. NoStaleAverage'
    BY <2>2, <2>3, <2>4 DEF LedgersGood, NoStaleAverage, AverageIffOpen
  <2>6. SingleLedger'
    <3> SUFFICES ASSUME NEW i \in Instruments, Instruments = {i}
                 PROVE  position' = PositionOf(i)'
      BY DEF SingleLedger
    <3>1. report.instrument = i /\ position = PositionOf(i)
      BY <2>1 DEF LedgersGood, SingleLedger
    <3>2. i \in DOMAIN positions' /\ positions'[i] = applied(PositionOf(i))
      BY <2>3, <3>1
    <3> QED BY <2>2, <3>1, <3>2 DEF PositionOf
  <2> QED BY <2>5, <2>6 DEF LedgersGood
<1> QED BY <1>2, <1>3, <1>4

LEMMA LedgersStep ==
    ASSUME IInv, LedgersGood, [Next]_vars
    PROVE  LedgersGood'
<1>1. ASSUME UNCHANGED <<position, positions>> PROVE LedgersGood'
  BY <1>1 DEF LedgersGood, NoStaleAverage, SingleLedger, PositionOf
<1>2. ASSUME NEW k \in DOMAIN inbound, Deliver(k) PROVE LedgersGood'
  <2>1. k \in 1..Len(inbound)
    BY LenProperties DEF IInv
  <2>2. inbound[k] \in PricedReport /\ inbound[k] \in ExecutionReport
    BY <2>1, ElementOfSeq DEF IInv, TypeOK
  <2> QED BY <1>2, <2>2, OnExecutionReportLedgers DEF Deliver
<1>3. ASSUME NEW report \in StrayReports, DeliverStray(report) PROVE LedgersGood'
  <2>1. report \in ExecutionReport /\ ~Known(report)
    BY DEF IInv, TypeOK, Known
  <2> QED BY <1>3, <2>1, OnExecutionReportLedgers DEF DeliverStray
<1> QED BY <1>1, <1>2, <1>3
        DEF Next, vars, SetLimits, CreateOrder, Cancel, VenueReceives, VenueCancels,
            VenueFills, venueUnchanged, orderManagerVars, bookkeepingVars

\* With one instrument the position the risk check reads and PositionManager's
\* are identical in every state, and no ledger ever keeps an average entry price
\* without a position, under any loss, duplication or reordering of reports.
THEOREM LedgersAlwaysGood == Spec => []LedgersGood
<1>1. Init => LedgersGood
  BY DEF Init, LedgersGood, NoStaleAverage, SingleLedger, PositionOf, Flat
<1>2. IInv /\ LedgersGood /\ [Next]_vars => LedgersGood'
  BY LedgersStep
<1> QED BY <1>1, <1>2, InitEstablishes, NextPreserves, PTL DEF Spec

-----------------------------------------------------------------------------
(* The net quantities.                                                     *)

\* The reports that name an order of an id from first up, handed out so far.
Assigned(first, next) == {r \in ExecutionReport : r.clientOrderId \in first..next - 1}

\* A report is made about an order that is tracked, and a recorded report whose
\* order is not tracked is about none that ever will be.
ReportedIds ==
    /\ IsFiniteSet(DOMAIN positions)
    /\ inbound \in Seq(Assigned(1, nextOrderId))
    /\ recorded \in Seq(Assigned(0, nextOrderId))

LEMMA TakenOrder ==
    ASSUME IInv, NEW id, NEW kind, taken < Len(outbound),
           outbound[taken + 1] = [kind |-> kind, id |-> id]
    PROVE  id \in 1..nextOrderId - 1
<1>1. taken + 1 \in 1..Len(outbound)
  BY LenProperties DEF IInv, TypeOK
<1>2. outbound[taken + 1] \in Message(nextOrderId)
  BY <1>1, ElementOfSeq DEF IInv
<1> QED BY <1>2 DEF Message

VenueActs ==
    \/ \E id \in OrderIds, status \in {"New", "Rejected"} : VenueReceives(id, status)
    \/ \E id \in OrderIds : VenueCancels(id)
    \/ \E id \in DOMAIN orders, price \in Prices :
          \E quantity \in 1..orders[id].quantity : VenueFills(id, price, quantity)

\* What the venue's actions do to the wire.
LEMMA VenueReportsStep ==
    ASSUME IInv, VenueActs
    PROVE  \/ inbound' = inbound
           \/ \E r : r.clientOrderId \in 1..nextOrderId - 1 /\ inbound' = Append(inbound, r)
<1>1. ASSUME NEW id \in OrderIds, NEW status \in {"New", "Rejected"},
             VenueReceives(id, status)
      PROVE  id \in 1..nextOrderId - 1
  BY <1>1, TakenOrder DEF VenueReceives
<1>2. ASSUME NEW id \in OrderIds, VenueCancels(id)
      PROVE  id \in 1..nextOrderId - 1
  BY <1>2, TakenOrder DEF VenueCancels
<1>3. ASSUME NEW id \in DOMAIN orders, NEW price, NEW quantity,
             VenueFills(id, price, quantity)
      PROVE  id \in 1..nextOrderId - 1
  BY DEF IInv, TypeOK
<1> DEFINE Reported(id) == id \in 1..nextOrderId - 1 => \/ inbound' = inbound
           \/ \E r : r.clientOrderId \in 1..nextOrderId - 1 /\ inbound' = Append(inbound, r)
<1>4. ASSUME NEW id \in OrderIds, NEW status \in {"New", "Rejected"},
             VenueReceives(id, status)
      PROVE  Reported(id)
  BY <1>4 DEF VenueReceives, VenueSets, Report
<1>5. ASSUME NEW id \in OrderIds, VenueCancels(id)
      PROVE  Reported(id)
  BY <1>5 DEF VenueCancels, VenueSets, Report
<1>6. ASSUME NEW id \in DOMAIN orders, NEW price, NEW quantity,
             VenueFills(id, price, quantity)
      PROVE  Reported(id)
  BY <1>6 DEF VenueFills, VenueSets, Report
<1> QED BY <1>1, <1>2, <1>3, <1>4, <1>5, <1>6 DEF VenueActs

LEMMA NextIsOneOf ==
    ASSUME [Next]_vars
    PROVE  \/ SetLimits
           \/ \E request \in Requests : CreateOrder(request)
           \/ \E id \in OrderIds : Cancel(id)
           \/ \E k \in DOMAIN inbound : Deliver(k)
           \/ \E report \in StrayReports : DeliverStray(report)
           \/ VenueActs
           \/ UNCHANGED vars
BY DEF Next, VenueActs

LEMMA VenueActsUnchanged ==
    ASSUME VenueActs
    PROVE  UNCHANGED <<orders, nextOrderId, position, positions, limits, reason, recorded,
                       outbound, cancels, duplicates>>
BY DEF VenueActs, VenueReceives, VenueCancels, VenueFills, venueUnchanged,
       orderManagerVars, riskVars, bookkeepingVars

LEMMA OrderIdsStep ==
    ASSUME IInv, [Next]_vars
    PROVE  nextOrderId' \in Nat /\ nextOrderId <= nextOrderId'
<1>1. IInv'
  BY NextPreserves
<1>3. ASSUME NEW request \in Requests, CreateOrder(request)
      PROVE  nextOrderId' \in {nextOrderId, nextOrderId + 1}
  BY <1>3 DEF CreateOrder, Track
<1>4. nextOrderId \in Nat /\ nextOrderId' \in Nat
  BY <1>1 DEF IInv, TypeOK
<1>5. nextOrderId' \in {nextOrderId, nextOrderId + 1}
  BY <1>3, NextIsOneOf, VenueActsUnchanged
     DEF SetLimits, Cancel, Deliver, DeliverStray, OnExecutionReport, vars, orderManagerVars
<1> QED BY <1>4, <1>5

LEMMA ReportedIdsStep ==
    ASSUME IInv, ReportedIds, [Next]_vars
    PROVE  ReportedIds'
<1> DEFINE Made == Assigned(1, nextOrderId)
           Kept == Assigned(0, nextOrderId)
<1>1. /\ Assigned(1, nextOrderId) \subseteq Assigned(1, nextOrderId')
      /\ Assigned(0, nextOrderId) \subseteq Assigned(0, nextOrderId')
  BY OrderIdsStep DEF Assigned, IInv, TypeOK
<1>2. SUFFICES /\ IsFiniteSet(DOMAIN positions')
               /\ inbound' \in Seq(Made)
               /\ recorded' \in Seq(Kept)
  BY <1>1, SeqOfLarger DEF ReportedIds
<1>3. ASSUME UNCHANGED <<positions, inbound, recorded>>
      PROVE  /\ IsFiniteSet(DOMAIN positions')
             /\ inbound' \in Seq(Made)
             /\ recorded' \in Seq(Kept)
  BY <1>3 DEF ReportedIds
<1>4. ASSUME NEW report \in Assigned(0, nextOrderId), OnExecutionReport(report)
      PROVE  IsFiniteSet(DOMAIN positions') /\ recorded' \in Seq(Kept)
  <2>1. recorded' \in Seq(Kept)
    BY <1>4, AppendType DEF OnExecutionReport, ReportedIds
  <2>2. DOMAIN positions' \in {DOMAIN positions, DOMAIN positions \cup {report.instrument}}
    BY <1>4 DEF OnExecutionReport, PositionManagerApply
  <2>3. IsFiniteSet(DOMAIN positions \cup {report.instrument})
    BY FS_AddElement DEF ReportedIds
  <2> QED BY <2>1, <2>2, <2>3 DEF ReportedIds
<1>5. ASSUME NEW k \in DOMAIN inbound, Deliver(k)
      PROVE  /\ IsFiniteSet(DOMAIN positions')
             /\ inbound' \in Seq(Made)
             /\ recorded' \in Seq(Kept)
  <2>1. k \in 1..Len(inbound)
    BY LenProperties DEF ReportedIds
  <2>2. inbound[k] \in Made
    BY <2>1, ElementOfSeq DEF ReportedIds
  <2>3. inbound[k] \in Assigned(0, nextOrderId)
    BY <2>2 DEF Assigned, IInv, TypeOK
  <2>4. inbound' \in Seq(Made)
    BY <1>5, <2>1, RemoveAtType DEF Deliver, ReportedIds
  <2> QED BY <1>4, <1>5, <2>3, <2>4 DEF Deliver
<1>6. ASSUME NEW report \in StrayReports, DeliverStray(report)
      PROVE  /\ IsFiniteSet(DOMAIN positions')
             /\ inbound' \in Seq(Made)
             /\ recorded' \in Seq(Kept)
  <2>1. report \in Assigned(0, nextOrderId)
    BY DEF Assigned, IInv, TypeOK
  <2> QED BY <1>4, <1>6, <2>1 DEF DeliverStray, ReportedIds
<1>7. ASSUME VenueActs
      PROVE  /\ IsFiniteSet(DOMAIN positions')
             /\ inbound' \in Seq(Made)
             /\ recorded' \in Seq(Kept)
  <2>1. UNCHANGED <<positions, recorded>>
    BY <1>7, VenueActsUnchanged
  <2>2. CASE inbound' = inbound
    BY <2>1, <2>2 DEF ReportedIds
  <2>3. ASSUME NEW r, r.clientOrderId \in 1..nextOrderId - 1, inbound' = Append(inbound, r)
        PROVE  inbound' \in Seq(Made)
    <3>1. inbound' \in Seq(ExecutionReport)
      BY NextPreserves DEF IInv, TypeOK
    <3>2. /\ Len(inbound) + 1 \in 1..Len(inbound')
          /\ inbound'[Len(inbound) + 1] = r
      BY <2>3, LenProperties, AppendProperties DEF ReportedIds
    <3>3. r \in Made
      BY <2>3, <3>1, <3>2, ElementOfSeq DEF Assigned
    <3> QED BY <2>3, <3>3, AppendType DEF ReportedIds
  <2> QED BY <1>7, <2>1, <2>2, <2>3, VenueReportsStep DEF ReportedIds
<1> QED BY <1>3, <1>5, <1>6, <1>7, NextIsOneOf
        DEF SetLimits, CreateOrder, Cancel, vars, bookkeepingVars, venueVars

Quantities == [i \in DOMAIN positions |-> positions[i].quantity]

Trades == [n \in DOMAIN recorded |-> SignedTrade(recorded[n])]

Audit == LedgersAgree /\ RecordedTradesExplainPosition

LEMMA SignedTradeType ==
    ASSUME NEW report \in ExecutionReport
    PROVE  SignedTrade(report) \in Int
BY DEF SignedTrade, Signed, ExecutionReport, Side

LEMMA AuditSums ==
    ASSUME IInv, ReportedIds
    PROVE  Summable(Quantities) /\ Summable(Trades)
<1>1. \A i \in DOMAIN positions : positions[i].quantity \in Int
  BY DEF IInv, TypeOK, PositionValue
<1>2. DOMAIN recorded = 1..Len(recorded) /\ Len(recorded) \in Nat
  BY LenProperties DEF IInv, TypeOK
<1>3. \A n \in DOMAIN recorded : SignedTrade(recorded[n]) \in Int
  BY <1>2, ElementOfSeq, SignedTradeType DEF IInv, TypeOK
<1>4. IsFiniteSet(DOMAIN recorded)
  BY <1>2, FS_Interval
<1> QED BY <1>1, <1>3, <1>4 DEF Summable, Quantities, Trades, ReportedIds

\* One report moves the position and the sum of either account by its signed
\* trade, for a tracked order and none otherwise.
LEMMA OnExecutionReportAudit ==
    ASSUME IInv, ReportedIds, Audit, NEW report \in ExecutionReport,
           OnExecutionReport(report)
    PROVE  Audit'
<1>1. /\ report.side \in Side /\ report.price \in Nat /\ report.quantity \in Nat
      /\ report.instrument \in Instruments
  BY DEF ExecutionReport
<1>2. position.quantity \in Int /\ SignedTrade(report) \in Int
  BY SignedTradeType DEF IInv, TypeOK, PositionValue
<1>3. position'.quantity = position.quantity + SignedTrade(report)
  <2>1. CASE Known(report) /\ report.execType = "Trade"
    <3>1. position' = ApplyTrade(position, report.side, report.price, report.quantity)
      BY <2>1 DEF OnExecutionReport, OrderManagerApply, ApplyReport
    <3> QED BY <1>1, <2>1, <3>1, ApplyTradeQuantity DEF SignedTrade, IInv, TypeOK
  <2>2. CASE ~(Known(report) /\ report.execType = "Trade")
    <3>1. position' = position
      BY <2>2 DEF OnExecutionReport, OrderManagerApply, ApplyReport
    <3> QED BY <1>2, <2>2, <3>1 DEF SignedTrade
  <2> QED BY <2>1, <2>2
<1>4. SumFunction(Quantities') = SumFunction(Quantities) + SignedTrade(report)
  <2>1. CASE Known(report) /\ Executes(report)
    <3> DEFINE here == report.instrument
               applied == ApplyTrade(PositionOf(here), report.side, report.price,
                                     report.quantity)
    <3>1. positions' = [i \in DOMAIN positions \cup {here} |->
                           IF i = here THEN applied ELSE positions[i]]
      BY <2>1 DEF OnExecutionReport, PositionManagerApply
    <3>2. PositionOf(here) \in PositionValue
      BY <1>1, FlatType DEF IInv, TypeOK, PositionOf
    <3>3. applied.quantity = PositionOf(here).quantity + SignedTrade(report)
      BY <1>1, <2>1, <3>2, ApplyTradeQuantity DEF SignedTrade, Executes
    <3>4. PositionOf(here).quantity \in Int
      BY <3>2 DEF PositionValue
    <3> HIDE DEF applied
    <3>5. /\ DOMAIN Quantities' = DOMAIN Quantities \cup {here}
          /\ Quantities'[here] = PositionOf(here).quantity + SignedTrade(report)
          /\ Quantities'[here] \in Int
          /\ \A i \in DOMAIN Quantities : i # here => Quantities'[i] = Quantities[i]
      BY <1>2, <3>1, <3>3, <3>4 DEF Quantities
    <3>6. DOMAIN Quantities = DOMAIN positions
      BY DEF Quantities
    <3>7. CASE here \in DOMAIN positions
      <4>1. PositionOf(here).quantity = Quantities[here]
        BY <3>7 DEF PositionOf, Quantities
      <4>2. SumFunction(Quantities')
              = SumFunction(Quantities) + (Quantities'[here] - Quantities[here])
        BY <3>5, <3>6, <3>7, AuditSums, SumFunctionChange
      <4> QED BY <1>2, <3>4, <3>5, <4>1, <4>2
    <3>8. CASE here \notin DOMAIN positions
      <4>1. PositionOf(here).quantity = 0
        BY <3>8 DEF PositionOf, Flat
      <4>2. here \notin DOMAIN Quantities /\ \A i \in DOMAIN Quantities : i # here
        BY <3>6, <3>8
      <4> HIDE DEF here
      <4>3. SumFunction(Quantities') = SumFunction(Quantities) + Quantities'[here]
        BY <3>5, <4>2, AuditSums, SumFunctionInsert
      <4> QED BY <1>2, <3>5, <4>1, <4>3
    <3> QED BY <3>7, <3>8
  <2>2. CASE ~(Known(report) /\ Executes(report))
    <3>1. positions' = positions
      BY <2>2 DEF OnExecutionReport, PositionManagerApply
    <3>2. SignedTrade(report) = 0
      BY <1>1, <2>2 DEF SignedTrade, Executes, Signed
    <3>3. SumFunction(Quantities) \in Int
      BY AuditSums, SumFunctionType
    <3> QED BY <3>1, <3>2, <3>3 DEF Quantities
  <2> QED BY <2>1, <2>2
<1>5. SumFunction(Trades') = SumFunction(Trades) + SignedTrade(report)
  <2> DEFINE n == Len(recorded) + 1
  <2>1. /\ DOMAIN recorded = 1..Len(recorded) /\ Len(recorded) \in Nat
        /\ recorded' = Append(recorded, report)
    BY LenProperties DEF IInv, TypeOK, OnExecutionReport
  <2>2. /\ DOMAIN recorded' = DOMAIN recorded \cup {n} /\ n \notin DOMAIN recorded
        /\ recorded'[n] = report
        /\ \A m \in DOMAIN recorded : recorded'[m] = recorded[m]
    BY <2>1, AppendProperties DEF IInv, TypeOK
  <2>3. DOMAIN orders' = DOMAIN orders
    BY DEF OnExecutionReport, OrderManagerApply
  <2>4. /\ DOMAIN Trades = DOMAIN recorded
        /\ DOMAIN Trades' = DOMAIN Trades \cup {n} /\ n \notin DOMAIN Trades
        /\ Trades'[n] = SignedTrade(report)
        /\ \A m \in DOMAIN Trades : Trades'[m] = Trades[m]
    BY <2>2, <2>3 DEF Trades, SignedTrade, Known
  <2> HIDE DEF n
  <2> QED BY <1>2, <2>4, AuditSums, SumFunctionInsert
<1> QED BY <1>3, <1>4, <1>5
        DEF Audit, LedgersAgree, RecordedTradesExplainPosition, Quantities, Trades

LEMMA AuditStep ==
    ASSUME IInv, ReportedIds, Audit, [Next]_vars
    PROVE  Audit'
<1>1. ASSUME UNCHANGED <<orders, position, positions, recorded>> PROVE Audit'
  BY <1>1 DEF Audit, LedgersAgree, RecordedTradesExplainPosition, SignedTrade, Known
\* An order that is new is no recorded report's.
<1>2. ASSUME NEW request \in Requests, CreateOrder(request) PROVE Audit'
  <2>1. UNCHANGED <<position, positions, recorded>>
    BY <1>2 DEF CreateOrder, bookkeepingVars
  <2>2. DOMAIN orders' \in {DOMAIN orders, DOMAIN orders \cup {nextOrderId}}
    BY <1>2 DEF CreateOrder, Track, WithOrder
  <2>3. ASSUME NEW n \in DOMAIN recorded
        PROVE  SignedTrade(recorded[n])' = SignedTrade(recorded[n])
    <3>1. recorded[n] \in Assigned(0, nextOrderId)
      BY LenProperties, ElementOfSeq DEF ReportedIds
    <3>2. recorded[n].clientOrderId # nextOrderId
      BY <3>1 DEF Assigned, IInv, TypeOK
    <3> QED BY <2>1, <2>2, <3>2 DEF SignedTrade, Known
  <2>4. Trades' = Trades
    BY <2>1, <2>3 DEF Trades
  <2> QED BY <2>1, <2>4
          DEF Audit, LedgersAgree, RecordedTradesExplainPosition, Trades
<1>3. ASSUME NEW k \in DOMAIN inbound, Deliver(k) PROVE Audit'
  <2>1. inbound[k] \in ExecutionReport
    BY LenProperties, ElementOfSeq DEF IInv, TypeOK
  <2> QED BY <1>3, <2>1, OnExecutionReportAudit DEF Deliver
<1>4. ASSUME NEW report \in StrayReports, DeliverStray(report) PROVE Audit'
  BY <1>4, OnExecutionReportAudit DEF DeliverStray
<1> QED BY <1>1, <1>2, <1>3, <1>4, NextIsOneOf, VenueActsUnchanged
        DEF SetLimits, Cancel, vars, orderManagerVars, bookkeepingVars

LEMMA AuditInvariant == Spec => []Audit
<1>1. Init => ReportedIds /\ Audit
  <2> SUFFICES ASSUME Init PROVE ReportedIds /\ Audit
    OBVIOUS
  <2>1. DOMAIN positions = {} /\ DOMAIN recorded = {} /\ position.quantity = 0
    BY EmptySeq DEF Init, Flat
  <2>2. ReportedIds
    BY <2>1, FS_EmptySet, EmptySeq DEF Init, ReportedIds
  <2>3. SumFunction(Quantities) = 0 /\ SumFunction(Trades) = 0
    BY <2>1, SumFunctionEmpty DEF Quantities, Trades
  <2> QED BY <2>1, <2>2, <2>3
          DEF Audit, LedgersAgree, RecordedTradesExplainPosition, Quantities, Trades
<1>2. IInv /\ ReportedIds /\ Audit /\ [Next]_vars => (ReportedIds /\ Audit)'
  BY ReportedIdsStep, AuditStep
<1> QED BY <1>1, <1>2, InitEstablishes, NextPreserves, PTL DEF Spec

\* The two calls of onExecutionReport agree on every net quantity, whatever
\* reports arrive, how often and in which order.
THEOREM LedgersAlwaysAgree == Spec => []LedgersAgree
BY AuditInvariant, PTL DEF Audit

\* The recorder explains the position: no trade moves it without being recorded,
\* and a report recorded for no order never counts later.
THEOREM AuditTrailComplete == Spec => []RecordedTradesExplainPosition
BY AuditInvariant, PTL DEF Audit

-----------------------------------------------------------------------------
(* The gateway.                                                            *)

LEMMA OutboundShape ==
    ASSUME IInv
    PROVE  /\ DOMAIN outbound = 1..Len(outbound) /\ Len(outbound) \in Nat
           /\ \A n \in DOMAIN outbound : outbound[n].id \in 1..nextOrderId - 1
<1>1. DOMAIN outbound = 1..Len(outbound) /\ Len(outbound) \in Nat
  BY LenProperties DEF IInv, TypeOK
<1>2. \A n \in DOMAIN outbound : outbound[n] \in Message(nextOrderId)
  BY <1>1, ElementOfSeq DEF IInv
<1> QED BY <1>1, <1>2 DEF Message

LEMMA OutboundGrows ==
    ASSUME IInv, NEW m, outbound' = Append(outbound, m)
    PROVE  LET n == Len(outbound) + 1 IN
           /\ DOMAIN outbound' = DOMAIN outbound \cup {n}
           /\ \A i \in DOMAIN outbound : i < n /\ outbound'[i] = outbound[i]
           /\ outbound'[n] = m
BY OutboundShape, AppendProperties DEF IInv, TypeOK

LEMMA GatewayStep ==
    ASSUME IInv, GatewayProtocol, [Next]_vars
    PROVE  GatewayProtocol'
<1> DEFINE n == Len(outbound) + 1
<1>1. ASSUME UNCHANGED <<outbound, DOMAIN orders>> PROVE GatewayProtocol'
  BY <1>1 DEF GatewayProtocol, Sends, Revokes
<1>2. ASSUME NEW new \in OrderIds, new = nextOrderId,
             DOMAIN orders' = DOMAIN orders \cup {new}, outbound' = Send(new)
      PROVE  GatewayProtocol'
  <2>1. DOMAIN orders = 1..nextOrderId - 1 /\ nextOrderId \in Nat
    BY DEF IInv, TypeOK
  <2>2. /\ DOMAIN outbound' = DOMAIN outbound \cup {n}
        /\ \A i \in DOMAIN outbound : i < n /\ outbound'[i] = outbound[i]
        /\ outbound'[n] = [kind |-> "Send", id |-> new]
    BY <1>2, OutboundGrows DEF Send
  <2>3. \A i \in DOMAIN outbound : outbound[i].id # new
    BY <1>2, <2>1, OutboundShape
  <2>4. Sends(new)' = {n} /\ Revokes(new)' = {}
    BY <2>2, <2>3 DEF Sends, Revokes
  <2>5. ASSUME NEW id \in OrderIds, id # new
        PROVE  Sends(id)' = Sends(id) /\ Revokes(id)' = Revokes(id)
    BY <2>2, <2>5 DEF Sends, Revokes
  <2>6. ASSUME NEW id \in OrderIds
        PROVE  IF id \in DOMAIN orders'
               THEN \E i \in DOMAIN outbound' :
                       Sends(id)' = {i} /\ \A c \in Revokes(id)' : i < c
               ELSE Sends(id)' \cup Revokes(id)' = {}
    <3>1. CASE id = new
      BY <1>2, <2>2, <2>4, <3>1
    <3>2. CASE id # new /\ id \in DOMAIN orders
      BY <1>2, <2>2, <2>5, <3>2 DEF GatewayProtocol
    <3>3. CASE id # new /\ id \notin DOMAIN orders
      BY <1>2, <2>5, <3>3 DEF GatewayProtocol
    <3> QED BY <3>1, <3>2, <3>3
  <2> QED BY <2>6 DEF GatewayProtocol
<1>3. ASSUME NEW request \in Requests, CreateOrder(request) PROVE GatewayProtocol'
  <2>1. nextOrderId \in OrderIds /\ nextOrderId \notin DOMAIN orders
    BY <1>3 DEF CreateOrder, IInv, TypeOK, OrderIds
  <2>2. CASE UNCHANGED <<orders, outbound>>
    BY <1>1, <2>2
  <2>3. CASE Track(nextOrderId, request)
    BY <1>2, <2>1, <2>3 DEF Track, WithOrder
  <2> QED BY <1>3, <2>2, <2>3 DEF CreateOrder
<1>4. ASSUME NEW id \in OrderIds, Cancel(id) PROVE GatewayProtocol'
  <2>1. /\ DOMAIN outbound' = DOMAIN outbound \cup {n}
        /\ \A i \in DOMAIN outbound : i < n /\ outbound'[i] = outbound[i]
        /\ outbound'[n] = [kind |-> "Cancel", id |-> id]
    BY <1>4, OutboundGrows DEF Cancel
  <2>2. id \in DOMAIN orders /\ orders' = orders
    BY <1>4 DEF Cancel, orderManagerVars
  <2>3. ASSUME NEW other \in OrderIds
        PROVE  /\ Sends(other)' = Sends(other)
               /\ Revokes(other)' = IF other = id THEN Revokes(other) \cup {n}
                                    ELSE Revokes(other)
    BY <2>1 DEF Sends, Revokes
  <2> HIDE DEF n
  <2> QED BY <2>1, <2>2, <2>3 DEF GatewayProtocol
<1>5. ASSUME NEW report, OnExecutionReport(report) PROVE UNCHANGED <<outbound, DOMAIN orders>>
  BY <1>5 DEF OnExecutionReport, OrderManagerApply
<1> HIDE DEF n
<1> QED BY <1>1, <1>3, <1>4, <1>5, NextIsOneOf, VenueActsUnchanged
        DEF SetLimits, Deliver, DeliverStray, vars, orderManagerVars

\* createOrder and cancel hand the gateway every tracked order once, before any
\* cancel for it, and nothing about an order that is not tracked.
THEOREM GatewayUsedProperly == Spec => []GatewayProtocol
<1>1. Init => GatewayProtocol
  BY EmptySeq DEF Init, GatewayProtocol, Sends, Revokes
<1>2. IInv /\ GatewayProtocol /\ [Next]_vars => GatewayProtocol'
  BY GatewayStep
<1> QED BY <1>1, <1>2, InitEstablishes, NextPreserves, PTL DEF Spec

-----------------------------------------------------------------------------
(* A wire that delivers each report once and in order, and a venue whose   *)
(* report.quantity is the executed quantity.                               *)

InOrder == ~Reordering /\ MaxDuplicates = 0 /\ QuantityMeaning = "fill"

About(id) == {k \in DOMAIN inbound : inbound[k].clientOrderId = id}

Foremost(id, k) == k \in About(id) /\ \A i \in About(id) : k <= i

Hindmost(id, k) == k \in About(id) /\ \A i \in About(id) : i <= k

Adjacent(id, j, k) ==
    j \in About(id) /\ k \in About(id) /\ j < k /\ \A i \in About(id) : i <= j \/ k <= i

\* The report takes up where the tracked order, or an earlier report, stands.
Continues(report, state) ==
    /\ state.status \notin Terminal
    /\ report.filledQuantity
         = state.filledQuantity + (IF report.execType = "Trade" THEN report.quantity ELSE 0)

Stands(id, state) ==
    venue[id].status = state.status /\ venue[id].filled = state.filledQuantity

\* What is in flight about an order leads, one report after another, from what
\* the tracked order says to what the venue says.
Leads(id) ==
    /\ \A k \in About(id) : Foremost(id, k) => Continues(inbound[k], orders[id])
    /\ \A j, k \in About(id) : Adjacent(id, j, k) => Continues(inbound[k], inbound[j])
    /\ \A k \in About(id) : Hindmost(id, k) => Stands(id, inbound[k])
    /\ About(id) = {} /\ venue[id].status # "Unseen" => Stands(id, orders[id])
    /\ venue[id].status = "Unseen" =>
          /\ About(id) = {} /\ venue[id].filled = 0
          /\ orders[id].status = "New" /\ orders[id].filledQuantity = 0

\* Nobody reports more than the order's quantity, or the wrong side.
Within(id) ==
    /\ orders[id].filledQuantity <= orders[id].quantity
    /\ venue[id].filled <= orders[id].quantity
    /\ \A k \in About(id) : /\ inbound[k].side = orders[id].side
                            /\ inbound[k].filledQuantity <= orders[id].quantity

\* The venue has not seen an order whose Send it has not taken, and none that
\* was never created.
VenueBehind ==
    /\ \A id \in OrderIds \ DOMAIN orders : venue[id] = NoVenueOrder
    /\ \A n \in DOMAIN outbound :
          taken < n /\ outbound[n].kind = "Send" => venue[outbound[n].id].status = "Unseen"

InOrderInv ==
    /\ VenueBehind
    /\ \A id \in DOMAIN orders : Leads(id) /\ Within(id)

LEMMA WireShape ==
    ASSUME IInv, ReportedIds
    PROVE  /\ DOMAIN inbound = 1..Len(inbound) /\ Len(inbound) \in Nat
           /\ \A k \in DOMAIN inbound : /\ inbound[k] \in ExecutionReport
                                        /\ inbound[k].clientOrderId \in DOMAIN orders
           /\ DOMAIN orders = 1..nextOrderId - 1 /\ DOMAIN orders \subseteq OrderIds
           /\ nextOrderId \in Nat \ {0}
<1>1. DOMAIN inbound = 1..Len(inbound) /\ Len(inbound) \in Nat
  BY LenProperties DEF ReportedIds
<1>2. \A k \in DOMAIN inbound : inbound[k] \in Assigned(1, nextOrderId)
  BY <1>1, ElementOfSeq DEF ReportedIds
<1>3. /\ DOMAIN orders = 1..nextOrderId - 1 /\ DOMAIN orders \subseteq OrderIds
      /\ nextOrderId \in Nat \ {0}
  BY DEF IInv, TypeOK, OrderIds
<1> QED BY <1>1, <1>2, <1>3 DEF Assigned

LEMMA RemoveHead ==
    ASSUME NEW S, NEW s \in Seq(S), 1 \in DOMAIN s
    PROVE  /\ DOMAIN RemoveAt(s, 1) = 1..Len(s) - 1
           /\ \A i \in 1..Len(s) - 1 : RemoveAt(s, 1)[i] = s[i + 1]
<1> DEFINE rest == SubSeq(s, 2, Len(s))
<1>1. Len(s) \in Nat \ {0} /\ \A i \in 1..Len(s) : s[i] \in S
  BY LenProperties, ElementOfSeq
<1>2. SubSeq(s, 1, 0) = << >>
  BY EmptySeq, SubSeqProperties
<1>3. /\ rest \in Seq(S) /\ Len(rest) = Len(s) - 1
      /\ \A i \in 1..Len(s) - 1 : rest[i] = s[i + 1]
  <2>1. \A i \in 2..Len(s) : s[i] \in S
    BY <1>1
  <2>2. 2 \in 1..Len(s) + 1 /\ Len(s) - 2 + 1 = Len(s) - 1
    BY <1>1
  <2> QED BY <1>1, <2>1, <2>2, SubSeqProperties
<1>4. RemoveAt(s, 1) = << >> \o rest
  BY <1>2 DEF RemoveAt
<1> HIDE DEF rest
<1>5. RemoveAt(s, 1) = rest
  BY <1>3, <1>4, ConcatEmptySeq
<1> QED BY <1>1, <1>3, <1>5, LenProperties

\* What Deliver does on an in-order wire.
LEMMA DeliversHead ==
    ASSUME InOrder, IInv, ReportedIds, NEW k \in DOMAIN inbound, Deliver(k)
    PROVE  /\ 1 \in DOMAIN inbound /\ OnExecutionReport(inbound[1])
           /\ DOMAIN inbound' = 1..Len(inbound) - 1
           /\ \A i \in DOMAIN inbound' : inbound'[i] = inbound[i + 1]
<1>1. k = 1 /\ inbound' = RemoveAt(inbound, 1)
  BY DEF Deliver, InOrder, IInv, TypeOK
<1> QED BY <1>1, RemoveHead DEF Deliver, ReportedIds

\* The report at the head is the next about its order, and no other order's.
LEMMA DeliveryLeads ==
    ASSUME IInv, ReportedIds, InOrderInv, 1 \in DOMAIN inbound,
           OnExecutionReport(inbound[1]),
           DOMAIN inbound' = 1..Len(inbound) - 1,
           \A i \in DOMAIN inbound' : inbound'[i] = inbound[i + 1],
           NEW id \in DOMAIN orders
    PROVE  (Leads(id) /\ Within(id))'
<1> DEFINE head == inbound[1]
<1>1. /\ DOMAIN inbound = 1..Len(inbound) /\ Len(inbound) \in Nat
      /\ head \in ExecutionReport /\ head.clientOrderId \in DOMAIN orders
      /\ orders[id] \in Order
  BY WireShape DEF IInv, TypeOK
<1>2. /\ orders' = [orders EXCEPT ![head.clientOrderId] = Executed(@, head)]
      /\ venue' = venue
  BY <1>1 DEF OnExecutionReport, OrderManagerApply, Known
<1>3. /\ orders'[id].quantity = orders[id].quantity
      /\ orders'[id].side = orders[id].side
      /\ id = head.clientOrderId => /\ orders'[id].status = head.status
                                    /\ orders'[id].filledQuantity = head.filledQuantity
      /\ id # head.clientOrderId => orders'[id] = orders[id]
  BY <1>1, <1>2 DEF Executed, Order
<1>4. /\ \A k \in About(id)' : /\ k \in Nat \ {0} /\ k + 1 \in About(id)
                               /\ inbound'[k] = inbound[k + 1]
      /\ \A k \in About(id) : k # 1 => k \in Nat \ {0} /\ k - 1 \in About(id)'
      /\ \A k \in About(id) : k \in Nat \ {0}
      /\ 1 \in About(id) <=> id = head.clientOrderId
  BY <1>1 DEF About
<1>5. Leads(id) /\ Within(id)
  BY DEF InOrderInv
<1> HIDE DEF head
<1>6. ASSUME NEW k \in About(id)', NEW j \in About(id)', Adjacent(id, j, k)'
      PROVE  Continues(inbound[k], inbound[j])'
  <2>1. Adjacent(id, j + 1, k + 1)
    <3>1. j < k /\ \A i \in About(id)' : i <= j \/ k <= i
      BY <1>6 DEF Adjacent
    <3>2. ASSUME NEW i \in About(id) PROVE i <= j + 1 \/ k + 1 <= i
      <4>1. i \in Nat \ {0} /\ j \in Nat /\ k \in Nat
        BY <1>4
      <4>2. CASE i = 1
        BY <4>1, <4>2
      <4>3. CASE i # 1
        <5>1. i - 1 <= j \/ k <= i - 1
          BY <1>4, <3>1, <4>3
        <5> QED BY <4>1, <5>1
      <4> QED BY <4>2, <4>3
    <3> QED BY <1>4, <3>1, <3>2 DEF Adjacent
  <2>2. Continues(inbound[k + 1], inbound[j + 1])
    BY <1>4, <1>5, <2>1 DEF Leads
  <2> QED BY <1>4, <2>2 DEF Continues
<1>7. ASSUME NEW k \in About(id)', Hindmost(id, k)'
      PROVE  Stands(id, inbound[k])'
  <2>1. Hindmost(id, k + 1)
    BY <1>4, <1>7 DEF Hindmost
  <2> QED BY <1>2, <1>4, <1>5, <2>1 DEF Leads, Stands
<1>8. ASSUME NEW k \in About(id)', Foremost(id, k)'
      PROVE  Continues(inbound[k], orders[id])'
  <2>1. CASE 1 \in About(id)
    <3>1. Adjacent(id, 1, k + 1)
      BY <1>4, <1>8, <2>1 DEF Foremost, Adjacent
    <3>2. Continues(inbound[k + 1], inbound[1])
      BY <1>4, <1>5, <2>1, <3>1 DEF Leads
    <3> QED BY <1>3, <1>4, <2>1, <3>2 DEF Continues, head
  <2>2. CASE 1 \notin About(id)
    <3>1. Foremost(id, k + 1)
      BY <1>4, <1>8, <2>2 DEF Foremost
    <3>2. Continues(inbound[k + 1], orders[id])
      BY <1>4, <1>5, <3>1 DEF Leads
    <3> QED BY <1>3, <1>4, <2>2, <3>2 DEF Continues
  <2> QED BY <2>1, <2>2
<1>9. ASSUME About(id)' = {}, venue[id].status # "Unseen"
      PROVE  Stands(id, orders[id])'
  <2>1. CASE 1 \in About(id)
    <3>1. Hindmost(id, 1)
      BY <1>4, <1>9, <2>1 DEF Hindmost
    <3> QED BY <1>2, <1>3, <1>4, <1>5, <2>1, <3>1 DEF Leads, Stands, head
  <2>2. CASE 1 \notin About(id)
    <3>1. About(id) = {}
      BY <1>4, <1>9, <2>2
    <3> QED BY <1>2, <1>3, <1>4, <1>5, <1>9, <2>2, <3>1 DEF Leads, Stands
  <2> QED BY <2>1, <2>2
<1>10. ASSUME venue[id].status = "Unseen"
       PROVE  /\ About(id)' = {} /\ venue'[id].filled = 0
              /\ orders'[id].status = "New" /\ orders'[id].filledQuantity = 0
  BY <1>2, <1>3, <1>4, <1>5, <1>10 DEF Leads
<1>11. Leads(id)'
  BY <1>2, <1>6, <1>7, <1>8, <1>9, <1>10 DEF Leads
<1>12. Within(id)'
  BY <1>2, <1>3, <1>4, <1>5 DEF Within, head
<1> QED BY <1>11, <1>12

\* A report the venue makes takes up where the venue stood.
LEMMA ReportLeads ==
    ASSUME IInv, ReportedIds, InOrderInv, NEW reported \in DOMAIN orders,
           NEW status, NEW filled, NEW r,
           r.clientOrderId = reported, r.status = status, r.filledQuantity = filled,
           r.side = orders[reported].side, filled <= orders[reported].quantity,
           status # "Unseen", VenueSets(reported, status, filled, r), orders' = orders,
           \A state : \/ Stands(reported, state)
                      \/ /\ venue[reported].status = "Unseen"
                         /\ state.status = "New" /\ state.filledQuantity = 0
                      => Continues(r, state),
           NEW id \in DOMAIN orders
    PROVE  (Leads(id) /\ Within(id))'
<1> DEFINE n == Len(inbound) + 1
<1>1. /\ DOMAIN inbound = 1..Len(inbound) /\ Len(inbound) \in Nat
      /\ DOMAIN orders \subseteq OrderIds
  BY WireShape
<1>2. /\ DOMAIN inbound' = DOMAIN inbound \cup {n} /\ inbound'[n] = r
      /\ \A k \in DOMAIN inbound : k < n /\ k \in Nat /\ inbound'[k] = inbound[k]
      /\ n \in Nat
  BY <1>1, AppendProperties DEF VenueSets, ReportedIds
<1>3. venue' = [venue EXCEPT ![reported] = [status |-> status, filled |-> filled]]
  BY DEF VenueSets
<1>4. /\ id # reported => venue'[id] = venue[id]
      /\ id = reported => venue'[id].status = status /\ venue'[id].filled = filled
  BY <1>1, <1>3 DEF IInv, TypeOK
<1>5. Leads(id) /\ Within(id)
  BY DEF InOrderInv
<1>6. /\ About(id)' = IF id = reported THEN About(id) \cup {n} ELSE About(id)
      /\ \A k \in About(id) : k < n /\ k \in Nat /\ inbound'[k] = inbound[k]
  BY <1>2 DEF About
<1> HIDE DEF n
<1>7. CASE id # reported
  <2>1. /\ About(id)' = About(id) /\ venue'[id] = venue[id] /\ orders' = orders
        /\ \A k \in About(id) : inbound'[k] = inbound[k]
    BY <1>4, <1>6, <1>7
  <2>2. ASSUME NEW k \in About(id)
        PROVE  /\ Foremost(id, k)' => Continues(inbound[k], orders[id])'
               /\ Hindmost(id, k)' => Stands(id, inbound[k])'
    BY <1>5, <2>1 DEF Leads, Foremost, Hindmost, Continues, Stands
  <2>3. ASSUME NEW j \in About(id), NEW k \in About(id), Adjacent(id, j, k)'
        PROVE  Continues(inbound[k], inbound[j])'
    <3>1. Adjacent(id, j, k)
      BY <2>1, <2>3 DEF Adjacent
    <3> QED BY <1>5, <2>1, <3>1 DEF Leads, Continues
  <2>4. Leads(id)'
    BY <1>5, <2>1, <2>2, <2>3 DEF Leads, Stands
  <2>5. Within(id)'
    BY <1>5, <2>1 DEF Within
  <2> QED BY <2>4, <2>5
<1>8. CASE id = reported
  <2>1. ASSUME NEW k \in About(id)', NEW j \in About(id)', Adjacent(id, j, k)'
        PROVE  Continues(inbound[k], inbound[j])'
    <3>1. j < k /\ \A i \in About(id)' : i <= j \/ k <= i
      BY <2>1 DEF Adjacent
    <3>2. j \in About(id)
      BY <1>2, <1>6, <1>8, <3>1
    <3>3. CASE k = n
      <4>1. Hindmost(id, j)
        BY <1>2, <1>6, <1>8, <3>1, <3>2, <3>3 DEF Hindmost
      <4>2. Continues(r, inbound[j])
        BY <1>5, <1>8, <3>2, <4>1 DEF Leads
      <4> QED BY <1>2, <1>6, <3>2, <3>3, <4>2 DEF Continues
    <3>4. CASE k # n
      <4>1. k \in About(id) /\ Adjacent(id, j, k)
        BY <1>6, <1>8, <3>1, <3>2, <3>4 DEF Adjacent
      <4>2. Continues(inbound[k], inbound[j])
        BY <1>5, <3>2, <4>1 DEF Leads
      <4> QED BY <1>6, <3>2, <4>1, <4>2 DEF Continues
    <3> QED BY <3>3, <3>4
  <2>2. ASSUME NEW k \in About(id)', Hindmost(id, k)'
        PROVE  Stands(id, inbound[k])'
    <3>1. k = n
      BY <1>2, <1>6, <1>8, <2>2 DEF Hindmost
    <3> QED BY <1>2, <1>4, <1>8, <3>1 DEF Stands
  <2>3. ASSUME NEW k \in About(id)', Foremost(id, k)'
        PROVE  Continues(inbound[k], orders[id])'
    <3>1. CASE k = n
      <4>1. About(id) = {}
        BY <1>2, <1>6, <1>8, <2>3, <3>1 DEF Foremost
      <4>2. \/ Stands(id, orders[id])
            \/ /\ venue[id].status = "Unseen"
               /\ orders[id].status = "New" /\ orders[id].filledQuantity = 0
        BY <1>5, <4>1 DEF Leads
      <4>3. Continues(r, orders[id])
        BY <1>8, <4>2
      <4> QED BY <1>2, <3>1, <4>3 DEF Continues
    <3>2. CASE k # n
      <4>1. k \in About(id) /\ Foremost(id, k)
        BY <1>6, <1>8, <2>3, <3>2 DEF Foremost
      <4>2. Continues(inbound[k], orders[id])
        BY <1>5, <4>1 DEF Leads
      <4> QED BY <1>6, <4>1, <4>2 DEF Continues
    <3> QED BY <3>1, <3>2
  <2>4. About(id)' # {} /\ venue'[id].status # "Unseen"
    BY <1>4, <1>6, <1>8
  <2>5. Leads(id)'
    BY <2>1, <2>2, <2>3, <2>4 DEF Leads
  <2>6. Within(id)'
    BY <1>2, <1>4, <1>5, <1>6, <1>8 DEF Within
  <2> QED BY <2>5, <2>6
<1> QED BY <1>7, <1>8

LEMMA InOrderUnchanged ==
    ASSUME InOrderInv, UNCHANGED <<orders, outbound, taken, venue, inbound>>
    PROVE  InOrderInv'
<1>1. ASSUME NEW id PROVE (Leads(id) <=> Leads(id)') /\ (Within(id) <=> Within(id)')
  BY DEF Leads, Within, About, Foremost, Hindmost, Adjacent, Continues, Stands
<1> QED BY <1>1 DEF InOrderInv, VenueBehind

LEMMA TrackInOrder ==
    ASSUME IInv, ReportedIds, InOrderInv, NEW request \in Requests,
           NEW new \in OrderIds, new = nextOrderId, Track(new, request),
           UNCHANGED <<taken, venue, inbound>>
    PROVE  InOrderInv'
<1>1. new \notin DOMAIN orders
  BY DEF IInv, TypeOK
<1>2. /\ DOMAIN orders' = DOMAIN orders \cup {new}
      /\ \A id \in DOMAIN orders : orders'[id] = orders[id]
      /\ orders'[new] = NewOrder(request)
      /\ outbound' = Append(outbound, [kind |-> "Send", id |-> new])
  BY <1>1 DEF Track, WithOrder, Send
<1>3. venue[new] = NoVenueOrder
  BY <1>1 DEF InOrderInv, VenueBehind
<1>4. About(new)' = {}
  BY <1>1, WireShape DEF About
<1>5. request.quantity \in Nat
  BY DEF OrderRequest
<1>6. Leads(new)' /\ Within(new)'
  BY <1>2, <1>3, <1>4, <1>5 DEF Leads, Within, NewOrder, NoVenueOrder
<1>7. ASSUME NEW id \in DOMAIN orders PROVE Leads(id)' /\ Within(id)'
  <2>1. orders'[id] = orders[id]
    BY <1>2
  <2>2. Leads(id) /\ Within(id)
    BY DEF InOrderInv
  <2>3. Leads(id)'
    BY <2>1, <2>2 DEF Leads, About, Foremost, Hindmost, Adjacent, Continues, Stands
  <2>4. Within(id)'
    BY <2>1, <2>2 DEF Within, About
  <2> QED BY <2>3, <2>4
<1>8. VenueBehind'
  <2>1. ASSUME NEW n \in DOMAIN outbound', taken < n, outbound'[n].kind = "Send"
        PROVE  venue[outbound'[n].id].status = "Unseen"
    <3>1. CASE n \in DOMAIN outbound
      BY <1>2, <2>1, <3>1, OutboundGrows DEF InOrderInv, VenueBehind
    <3>2. CASE n \notin DOMAIN outbound
      BY <1>2, <1>3, <3>2, OutboundGrows DEF NoVenueOrder
    <3> QED BY <3>1, <3>2
  <2> QED BY <1>2, <2>1 DEF InOrderInv, VenueBehind
<1> QED BY <1>2, <1>6, <1>7, <1>8 DEF InOrderInv

LEMMA CreateOrderInOrder ==
    ASSUME IInv, ReportedIds, InOrderInv, NEW request \in Requests, CreateOrder(request)
    PROVE  InOrderInv'
<1>1. UNCHANGED <<taken, venue, inbound>>
  BY DEF CreateOrder, venueVars
<1>2. CASE UNCHANGED <<orders, outbound>>
  BY <1>1, <1>2, InOrderUnchanged
<1>3. CASE Track(nextOrderId, request)
  <2>1. nextOrderId \in OrderIds
    BY DEF CreateOrder, IInv, TypeOK, OrderIds
  <2> QED BY <1>1, <1>3, <2>1, TrackInOrder
<1> QED BY <1>2, <1>3 DEF CreateOrder

LEMMA CancelInOrder ==
    ASSUME IInv, InOrderInv, NEW id \in OrderIds, Cancel(id)
    PROVE  InOrderInv'
<1>1. UNCHANGED <<orders, taken, venue, inbound>>
  BY DEF Cancel, orderManagerVars, venueVars
<1>2. outbound' = Append(outbound, [kind |-> "Cancel", id |-> id])
  BY DEF Cancel
<1>3. \A n \in DOMAIN outbound' :
         outbound'[n].kind = "Send" => n \in DOMAIN outbound /\ outbound'[n] = outbound[n]
  BY <1>2, OutboundGrows
<1>4. VenueBehind'
  BY <1>1, <1>3 DEF InOrderInv, VenueBehind
<1>5. ASSUME NEW i \in DOMAIN orders PROVE Leads(i)' /\ Within(i)'
  <2>1. Leads(i) /\ Within(i)
    BY DEF InOrderInv
  <2>2. Leads(i)'
    BY <1>1, <2>1 DEF Leads, About, Foremost, Hindmost, Adjacent, Continues, Stands
  <2>3. Within(i)'
    BY <1>1, <2>1 DEF Within, About
  <2> QED BY <2>2, <2>3
<1> QED BY <1>1, <1>4, <1>5 DEF InOrderInv

LEMMA DeliverInOrder ==
    ASSUME InOrder, IInv, ReportedIds, InOrderInv, NEW k \in DOMAIN inbound, Deliver(k)
    PROVE  InOrderInv'
<1>1. /\ 1 \in DOMAIN inbound /\ OnExecutionReport(inbound[1])
      /\ DOMAIN inbound' = 1..Len(inbound) - 1
      /\ \A i \in DOMAIN inbound' : inbound'[i] = inbound[i + 1]
  BY DeliversHead
<1>2. DOMAIN orders' = DOMAIN orders /\ UNCHANGED <<outbound, taken, venue>>
  BY <1>1 DEF OnExecutionReport, OrderManagerApply
<1>3. \A id \in DOMAIN orders : (Leads(id) /\ Within(id))'
  BY <1>1, DeliveryLeads
<1> QED BY <1>2, <1>3 DEF InOrderInv, VenueBehind

LEMMA DeliverStrayInOrder ==
    ASSUME IInv, InOrderInv, NEW report \in StrayReports, DeliverStray(report)
    PROVE  InOrderInv'
<1>1. ~Known(report)
  BY DEF Known, IInv, TypeOK
<1>2. UNCHANGED <<orders, outbound, taken, venue, inbound>>
  BY <1>1 DEF DeliverStray, OnExecutionReport
<1> QED BY <1>2, InOrderUnchanged

\* The venue has seen the order it reports on, so it has taken its Send.
LEMMA VenueBehindStep ==
    ASSUME IInv, VenueBehind, NEW id \in DOMAIN orders, NEW status, NEW filled, NEW r,
           VenueSets(id, status, filled, r), UNCHANGED <<orders, outbound>>,
           taken' \in Nat, taken <= taken', DOMAIN orders \subseteq OrderIds,
           \A n \in DOMAIN outbound :
              taken' < n => outbound[n] # [kind |-> "Send", id |-> id]
    PROVE  VenueBehind'
<1>1. \A i : i # id => venue'[i] = venue[i]
  BY DEF VenueSets
<1>2. ASSUME NEW n \in DOMAIN outbound, taken' < n, outbound[n].kind = "Send"
      PROVE  venue'[outbound[n].id].status = "Unseen"
  <2>1. outbound[n].id # id
    <3>1. outbound[n] \in Message(nextOrderId)
      BY OutboundShape, ElementOfSeq DEF IInv
    <3>2. outbound[n] = [kind |-> outbound[n].kind, id |-> outbound[n].id]
      BY <3>1 DEF Message
    <3> QED BY <1>2, <3>2
  <2>2. taken < n
    BY <1>2, OutboundShape DEF IInv, TypeOK
  <2> QED BY <1>1, <1>2, <2>1, <2>2 DEF VenueBehind
<1> QED BY <1>1, <1>2 DEF VenueBehind

LEMMA VenueReceivesInOrder ==
    ASSUME IInv, ReportedIds, GatewayProtocol, InOrderInv,
           NEW id \in OrderIds, NEW status \in {"New", "Rejected"},
           VenueReceives(id, status)
    PROVE  InOrderInv'
<1> DEFINE execType == IF status = "New" THEN "New" ELSE "Reject"
           r == Report(id, execType, status, orders[id].price, 0, 0)
           n == taken + 1
<1>1. id \in DOMAIN orders /\ DOMAIN orders \subseteq OrderIds
  BY TakenOrder, WireShape DEF VenueReceives
<1>2. /\ UNCHANGED <<orders, outbound>> /\ taken' = n
      /\ VenueSets(id, status, 0, r)
  BY DEF VenueReceives, venueUnchanged, orderManagerVars
<1>3. n \in DOMAIN outbound /\ taken < n /\ outbound[n] = [kind |-> "Send", id |-> id]
  BY OutboundShape DEF VenueReceives, IInv, TypeOK
<1>4. venue[id].status = "Unseen"
  BY <1>3 DEF InOrderInv, VenueBehind
<1>5. venue[id].filled = 0
  BY <1>1, <1>4 DEF InOrderInv, Leads
<1>6. /\ r.clientOrderId = id /\ r.status = status /\ r.filledQuantity = 0
      /\ r.side = orders[id].side /\ r.execType # "Trade"
  BY DEF Report
<1>7. 0 <= orders[id].quantity
  BY <1>1 DEF IInv, TypeOK, Order
<1> HIDE DEF r
<1>8. \A state : \/ Stands(id, state)
                 \/ /\ venue[id].status = "Unseen"
                    /\ state.status = "New" /\ state.filledQuantity = 0
                 => Continues(r, state)
  BY <1>4, <1>5, <1>6 DEF Stands, Continues, Terminal
<1>9. \A i \in DOMAIN orders : (Leads(i) /\ Within(i))'
  BY <1>1, <1>2, <1>6, <1>7, <1>8, ReportLeads
\* The order's only Send was the one just taken.
<1>10. VenueBehind'
  <2>1. \A i \in DOMAIN outbound : taken' < i => outbound[i] # [kind |-> "Send", id |-> id]
    BY <1>1, <1>2, <1>3, OutboundShape DEF GatewayProtocol, Sends, IInv, TypeOK
  <2>2. taken' \in Nat /\ taken <= taken'
    BY <1>2, OutboundShape DEF IInv, TypeOK
  <2> QED BY <1>1, <1>2, <2>1, <2>2, VenueBehindStep DEF InOrderInv
<1> QED BY <1>2, <1>9, <1>10 DEF InOrderInv

\* A report on an order the venue has live, by a cancel or a fill.
LEMMA LiveOrderInOrder ==
    ASSUME IInv, ReportedIds, InOrderInv, NEW id \in DOMAIN orders,
           NEW execType \in ExecType, NEW status \in OrderStatus, NEW price,
           NEW quantity \in Nat, NEW filled \in Nat,
           venue[id].status \in {"New", "PartiallyFilled"},
           filled = venue[id].filled + (IF execType = "Trade" THEN quantity ELSE 0),
           filled <= orders[id].quantity,
           VenueSets(id, status, filled,
                     Report(id, execType, status, price, quantity, filled)),
           UNCHANGED <<orders, outbound>>, taken' \in {taken, taken + 1}
    PROVE  InOrderInv'
<1> DEFINE r == Report(id, execType, status, price, quantity, filled)
<1>1. /\ r.clientOrderId = id /\ r.status = status /\ r.filledQuantity = filled
      /\ r.side = orders[id].side /\ r.execType = execType /\ r.quantity = quantity
  BY DEF Report
<1> HIDE DEF r
<1>2. \A state : \/ Stands(id, state)
                 \/ /\ venue[id].status = "Unseen"
                    /\ state.status = "New" /\ state.filledQuantity = 0
                 => Continues(r, state)
  BY <1>1 DEF Stands, Continues, Terminal
<1>3. status # "Unseen"
  BY DEF OrderStatus, Terminal
<1>4. \A i \in DOMAIN orders : (Leads(i) /\ Within(i))'
  BY <1>1, <1>2, <1>3, ReportLeads DEF r
<1>5. VenueBehind'
  <2>1. taken' \in Nat /\ taken <= taken' /\ DOMAIN orders \subseteq OrderIds
    <3>1. taken \in Nat
      BY OutboundShape DEF IInv, TypeOK
    <3>2. DOMAIN orders \subseteq OrderIds
      BY WireShape
    <3> QED BY ONLY taken' \in {taken, taken + 1}, <3>1, <3>2
  <2>2. ASSUME NEW n \in DOMAIN outbound, taken' < n,
               outbound[n] = [kind |-> "Send", id |-> id]
        PROVE  FALSE
    <3>1. taken < n
      <4>1. DOMAIN outbound = 1..Len(outbound) /\ Len(outbound) \in Nat
        BY OutboundShape
      <4>2. n \in Nat
        BY ONLY <2>2, <4>1
      <4>3. taken \in Nat
        BY <4>1 DEF IInv, TypeOK
      <4> QED BY ONLY <2>1, <2>2, <4>2, <4>3
    <3>2. outbound[n].kind = "Send" /\ outbound[n].id = id
      BY <2>2
    <3>3. venue[id].status = "Unseen"
      BY <3>1, <3>2 DEF InOrderInv, VenueBehind
    <3> QED BY <3>3
  <2> QED BY <2>1, <2>2, VenueBehindStep DEF InOrderInv
<1> QED BY <1>4, <1>5 DEF InOrderInv

LEMMA VenueCancelsInOrder ==
    ASSUME IInv, ReportedIds, InOrderInv, NEW id \in OrderIds, VenueCancels(id)
    PROVE  InOrderInv'
<1>1. id \in DOMAIN orders
  BY TakenOrder, WireShape DEF VenueCancels
<1>2. UNCHANGED <<orders, outbound>> /\ taken' = taken + 1
  BY DEF VenueCancels, venueUnchanged, orderManagerVars
<1>3. CASE venue[id].status \in {"New", "PartiallyFilled"}
  <2>1. /\ venue[id].filled \in Nat /\ venue[id].filled <= orders[id].quantity
        /\ venue[id].filled = venue[id].filled + 0
        /\ 0 \in Nat /\ "Cancel" \in ExecType /\ "Cancelled" \in OrderStatus
    BY <1>1 DEF InOrderInv, Within, IInv, TypeOK, ExecType, OrderStatus, Terminal
  <2>2. VenueSets(id, "Cancelled", venue[id].filled,
                  Report(id, "Cancel", "Cancelled", orders[id].price, 0, venue[id].filled))
    BY <1>3 DEF VenueCancels
  <2> QED BY <1>1, <1>2, <1>3, <2>1, <2>2, LiveOrderInOrder
<1>4. CASE venue[id].status \notin {"New", "PartiallyFilled"}
  <2>1. UNCHANGED <<orders, outbound, venue, inbound>>
    BY <1>2, <1>4 DEF VenueCancels
  <2>2. VenueBehind'
    BY <1>2, <2>1, OutboundShape DEF InOrderInv, VenueBehind, IInv, TypeOK
  <2>3. ASSUME NEW i \in DOMAIN orders PROVE Leads(i)' /\ Within(i)'
    <3>1. Leads(i) /\ Within(i)
      BY DEF InOrderInv
    <3>2. Leads(i)'
      BY <2>1, <3>1 DEF Leads, About, Foremost, Hindmost, Adjacent, Continues, Stands
    <3>3. Within(i)'
      BY <2>1, <3>1 DEF Within, About
    <3> QED BY <3>2, <3>3
  <2> QED BY <2>1, <2>2, <2>3 DEF InOrderInv
<1> QED BY <1>3, <1>4

LEMMA VenueFillsInOrder ==
    ASSUME InOrder, IInv, ReportedIds, InOrderInv, NEW id \in DOMAIN orders,
           NEW price \in Prices, NEW quantity \in 1..orders[id].quantity,
           VenueFills(id, price, quantity)
    PROVE  InOrderInv'
<1> DEFINE filled == venue[id].filled + quantity
           status == IF filled = orders[id].quantity THEN "Filled" ELSE "PartiallyFilled"
<1>1. /\ orders[id].quantity \in Nat /\ quantity \in Nat /\ filled \in Nat
      /\ "Trade" \in ExecType /\ status \in OrderStatus
  <2>1. orders[id] \in Order /\ id \in OrderIds
    BY WireShape DEF IInv, TypeOK
  <2>2. orders[id].quantity \in Nat /\ venue[id].filled \in Nat
    BY <2>1 DEF IInv, TypeOK, Order
  <2> QED BY <2>2 DEF ExecType, OrderStatus, Terminal
<1>2. /\ venue[id].status \in {"New", "PartiallyFilled"}
      /\ filled <= orders[id].quantity
      /\ VenueSets(id, status, filled, Report(id, "Trade", status, price, quantity, filled))
      /\ UNCHANGED <<orders, outbound, taken>>
  BY DEF VenueFills, InOrder, venueUnchanged, orderManagerVars
<1>3. filled = venue[id].filled + (IF "Trade" = "Trade" THEN quantity ELSE 0)
  OBVIOUS
<1> HIDE DEF filled, status
<1> QED BY <1>1, <1>2, <1>3, LiveOrderInOrder

LEMMA InOrderStep ==
    ASSUME InOrder, IInv, ReportedIds, GatewayProtocol, InOrderInv, [Next]_vars
    PROVE  InOrderInv'
<1>1. CASE SetLimits \/ UNCHANGED vars
  <2>1. UNCHANGED <<orders, outbound, taken, venue, inbound>>
    BY <1>1 DEF SetLimits, vars, orderManagerVars, venueVars
  <2> QED BY <2>1, InOrderUnchanged
<1>2. CASE VenueActs
  BY <1>2, VenueReceivesInOrder, VenueCancelsInOrder, VenueFillsInOrder DEF VenueActs
<1> QED BY <1>1, <1>2, NextIsOneOf, CreateOrderInOrder, CancelInOrder, DeliverInOrder,
           DeliverStrayInOrder

\* How the tracked orders change in a step.
LEMMA OrdersStep ==
    ASSUME InOrder, IInv, ReportedIds, InOrderInv, [Next]_vars
    PROVE  \/ orders' = orders /\ position' = position
           \/ \E request \in Requests :
                 CreateOrder(request) /\ Track(nextOrderId, request) /\ reason' = "None"
           \/ /\ 1 \in DOMAIN inbound /\ OnExecutionReport(inbound[1])
              /\ OrderManagerApply(inbound[1])
              /\ Foremost(inbound[1].clientOrderId, 1)
<1>1. ASSUME NEW request \in Requests, CreateOrder(request)
      PROVE  \/ orders' = orders /\ position' = position
             \/ Track(nextOrderId, request) /\ reason' = "None"
  BY <1>1 DEF CreateOrder
<1>2. ASSUME NEW k \in DOMAIN inbound, Deliver(k)
      PROVE  /\ 1 \in DOMAIN inbound /\ OnExecutionReport(inbound[1])
             /\ OrderManagerApply(inbound[1])
             /\ Foremost(inbound[1].clientOrderId, 1)
  <2>1. 1 \in DOMAIN inbound /\ OnExecutionReport(inbound[1])
    BY <1>2, DeliversHead
  <2>2. Known(inbound[1])
    BY <2>1, WireShape DEF Known
  <2>3. Foremost(inbound[1].clientOrderId, 1)
    BY <2>1, WireShape DEF Foremost, About
  <2> QED BY <2>1, <2>2, <2>3 DEF OnExecutionReport
<1>3. ASSUME NEW report \in StrayReports, DeliverStray(report)
      PROVE  orders' = orders /\ position' = position
  <2>1. ~Known(report)
    BY DEF Known, IInv, TypeOK
  <2> QED BY <1>3, <2>1 DEF DeliverStray, OnExecutionReport
<1> QED BY <1>1, <1>2, <1>3, NextIsOneOf, VenueActsUnchanged
        DEF SetLimits, Cancel, vars, orderManagerVars

\* What the report at the head means for its order.
LEMMA HeadApplies ==
    ASSUME IInv, ReportedIds, InOrderInv, 1 \in DOMAIN inbound,
           OrderManagerApply(inbound[1]), Foremost(inbound[1].clientOrderId, 1)
    PROVE  LET head == inbound[1]
               id   == head.clientOrderId
               step == IF head.execType = "Trade" THEN head.quantity ELSE 0
           IN  /\ id \in DOMAIN orders /\ orders[id] \in Order /\ orders'[id] \in Order
               /\ head.quantity \in Nat
               /\ DOMAIN orders' = DOMAIN orders
               /\ \A i \in DOMAIN orders : i # id => orders'[i] = orders[i]
               /\ orders[id].status \notin Terminal
               /\ orders'[id].side = orders[id].side
               /\ orders'[id].quantity = orders[id].quantity
               /\ orders'[id].filledQuantity = orders[id].filledQuantity + step
               /\ orders'[id].filledQuantity <= orders[id].quantity
               /\ position'.quantity = position.quantity + Signed(orders[id].side, step)
<1> DEFINE head == inbound[1]
           id   == head.clientOrderId
           step == IF head.execType = "Trade" THEN head.quantity ELSE 0
<1>1. /\ head \in ExecutionReport /\ id \in DOMAIN orders /\ orders[id] \in Order
      /\ position \in PositionValue
  BY WireShape DEF IInv, TypeOK
<1>2. /\ Continues(head, orders[id])
      /\ head.side = orders[id].side /\ head.filledQuantity <= orders[id].quantity
  BY <1>1 DEF InOrderInv, Leads, Within, Foremost
<1>3. orders' = [orders EXCEPT ![id] = Executed(@, head)]
  BY DEF OrderManagerApply
<1>4. orders'[id] = Executed(orders[id], head) /\ Executed(orders[id], head) \in Order
  BY <1>1, <1>3, ExecutedType
<1>5. /\ orders'[id].side = orders[id].side
      /\ orders'[id].quantity = orders[id].quantity
      /\ orders'[id].filledQuantity = head.filledQuantity
  BY <1>1, <1>4 DEF Executed, Order
<1>6. position'.quantity = position.quantity + Signed(head.side, step)
  <2>1. position' = ApplyReport(position, head)
    BY DEF OrderManagerApply
  <2>2. head.side \in Side /\ head.price \in Nat /\ head.quantity \in Nat
    BY <1>1 DEF ExecutionReport
  <2>3. CASE head.execType = "Trade"
    <3>1. position' = ApplyTrade(position, head.side, head.price, head.quantity)
      BY <2>1, <2>3 DEF ApplyReport
    <3> QED BY <1>1, <2>2, <2>3, <3>1, ApplyTradeQuantity
  <2>4. CASE head.execType # "Trade"
    <3>1. position' = position
      BY <2>1, <2>4 DEF ApplyReport
    <3>2. step \in Int /\ step = 0
      BY <2>4
    <3>3. Signed(head.side, step) = 0
      BY <3>2, SignedZero
    <3> QED BY <1>1, <2>4, <3>1, <3>3 DEF PositionValue
  <2> QED BY <2>3, <2>4
<1>7. head.quantity \in Nat
  BY <1>1 DEF ExecutionReport
<1>8. /\ DOMAIN orders' = DOMAIN orders
      /\ \A i \in DOMAIN orders : i # id => orders'[i] = orders[i]
  BY <1>3
<1> HIDE DEF head
<1> QED BY <1>1, <1>2, <1>4, <1>5, <1>6, <1>7, <1>8 DEF Continues, head

LEMMA InOrderInvariant ==
    ASSUME InOrder
    PROVE  Spec => [](IInv /\ ReportedIds /\ InOrderInv)
<1>1. Init => ReportedIds /\ GatewayProtocol /\ InOrderInv
  <2> SUFFICES ASSUME Init PROVE ReportedIds /\ GatewayProtocol /\ InOrderInv
    OBVIOUS
  <2>1. /\ DOMAIN positions = {} /\ DOMAIN orders = {}
        /\ outbound = << >> /\ DOMAIN outbound = {}
    BY EmptySeq DEF Init
  <2>2. ReportedIds
    BY <2>1, FS_EmptySet, EmptySeq DEF Init, ReportedIds
  <2>3. GatewayProtocol
    BY <2>1 DEF GatewayProtocol, Sends, Revokes
  <2>4. InOrderInv
    BY <2>1 DEF Init, InOrderInv, VenueBehind
  <2> QED BY <2>2, <2>3, <2>4
<1>2. /\ IInv /\ ReportedIds /\ GatewayProtocol /\ InOrderInv /\ [Next]_vars
      => (ReportedIds /\ GatewayProtocol /\ InOrderInv)'
  BY ReportedIdsStep, GatewayStep, InOrderStep
<1> QED BY <1>1, <1>2, InitEstablishes, NextPreserves, PTL DEF Spec

\* When the reports of an order are all in, the tracked order is what the venue
\* has, however the reports of other orders, cancels and creations interleaved.
THEOREM OrdersTrackVenue ==
    ASSUME InOrder
    PROVE  Spec => []OrderTracksVenue
<1>1. IInv /\ InOrderInv => OrderTracksVenue
  BY DEF InOrderInv, Leads, About, Stands, OrderTracksVenue
<1> QED BY <1>1, InOrderInvariant, PTL

\* applyExecution overwrites an order without looking at its state, which is safe
\* on an in-order wire: no report is made about an order after its last one.
THEOREM TerminalOrdersFinal ==
    ASSUME InOrder
    PROVE  Spec => TerminalIsFinal
<1> DEFINE Frozen ==
        \A id \in DOMAIN orders : orders[id].status \in Terminal => orders'[id] = orders[id]
<1>1. IInv /\ ReportedIds /\ InOrderInv /\ [Next]_vars => Frozen
  <2> SUFFICES ASSUME IInv, ReportedIds, InOrderInv, [Next]_vars,
                      NEW id \in DOMAIN orders, orders[id].status \in Terminal
               PROVE  orders'[id] = orders[id]
    OBVIOUS
  <2>1. ASSUME NEW request \in Requests, Track(nextOrderId, request)
        PROVE  orders'[id] = orders[id]
    <3>1. id # nextOrderId
      BY WireShape
    <3> QED BY <2>1, <3>1 DEF Track, WithOrder
  <2>2. ASSUME 1 \in DOMAIN inbound, OrderManagerApply(inbound[1]),
               Foremost(inbound[1].clientOrderId, 1)
        PROVE  orders'[id] = orders[id]
    BY <2>2, HeadApplies
  <2> QED BY <2>1, <2>2, OrdersStep
<1> QED BY <1>1, InOrderInvariant, PTL DEF Spec, TerminalIsFinal

Fills == [id \in DOMAIN orders |-> SignedFill(orders[id])]

LEMMA OrderSums ==
    ASSUME IInv
    PROVE  /\ IsFiniteSet(DOMAIN orders) /\ \A id \in DOMAIN orders : orders[id] \in Order
           /\ Summable(Fills)
<1>1. /\ DOMAIN orders = 1..nextOrderId - 1 /\ nextOrderId \in Nat
      /\ \A id \in DOMAIN orders : orders[id] \in Order
  BY DEF IInv, TypeOK
<1>2. IsFiniteSet(DOMAIN orders)
  BY <1>1, FS_Interval
<1>3. \A id \in DOMAIN orders : SignedFill(orders[id]) \in Int
  BY <1>1 DEF SignedFill, Signed, Order
<1> QED BY <1>1, <1>2, <1>3 DEF Summable, Fills

\* The order a Track adds.
LEMMA TrackAdds ==
    ASSUME IInv, NEW request \in Requests, Track(nextOrderId, request)
    PROVE  /\ nextOrderId \notin DOMAIN orders
           /\ DOMAIN orders' = DOMAIN orders \cup {nextOrderId}
           /\ orders'[nextOrderId] = NewOrder(request)
           /\ \A id \in DOMAIN orders : orders'[id] = orders[id]
<1>1. nextOrderId \notin DOMAIN orders
  BY DEF IInv, TypeOK
<1> QED BY <1>1 DEF Track, WithOrder

LEMMA FillsStep ==
    ASSUME InOrder, IInv, ReportedIds, InOrderInv, FillsMatchPosition, [Next]_vars
    PROVE  FillsMatchPosition'
<1>1. SUFFICES position'.quantity = SumFunction(Fills')
  BY DEF FillsMatchPosition, Fills
<1>2. /\ position.quantity = SumFunction(Fills) /\ SumFunction(Fills) \in Int
      /\ DOMAIN Fills = DOMAIN orders /\ DOMAIN Fills' = DOMAIN orders'
  BY OrderSums, SumFunctionType DEF FillsMatchPosition, Fills
<1>3. CASE orders' = orders /\ position' = position
  BY <1>2, <1>3 DEF Fills
<1>4. ASSUME NEW request \in Requests, CreateOrder(request), Track(nextOrderId, request)
      PROVE  position'.quantity = SumFunction(Fills')
  <2> DEFINE n == nextOrderId
  <2>1. /\ n \notin DOMAIN orders /\ DOMAIN orders' = DOMAIN orders \cup {n}
        /\ orders'[n] = NewOrder(request)
        /\ \A id \in DOMAIN orders : orders'[id] = orders[id]
    BY <1>4, TrackAdds
  <2>2. /\ Fills'[n] = 0
        /\ \A id \in DOMAIN Fills : Fills'[id] = Fills[id]
    BY <2>1 DEF Fills, SignedFill, NewOrder, Signed
  <2> HIDE DEF n
  <2>3. SumFunction(Fills') = SumFunction(Fills) + 0
    BY <1>2, <2>1, <2>2, OrderSums, SumFunctionInsert
  <2>4. position' = position
    BY <1>4 DEF CreateOrder
  <2> QED BY <1>2, <2>3, <2>4
<1>5. ASSUME 1 \in DOMAIN inbound, OrderManagerApply(inbound[1]),
             Foremost(inbound[1].clientOrderId, 1)
      PROVE  position'.quantity = SumFunction(Fills')
  <2> DEFINE head == inbound[1]
             id   == head.clientOrderId
             step == IF head.execType = "Trade" THEN head.quantity ELSE 0
  <2>1. /\ id \in DOMAIN orders /\ orders[id] \in Order /\ step \in Nat
        /\ DOMAIN orders' = DOMAIN orders
        /\ \A i \in DOMAIN orders : i # id => orders'[i] = orders[i]
        /\ orders'[id].side = orders[id].side
        /\ orders'[id].filledQuantity = orders[id].filledQuantity + step
        /\ position'.quantity = position.quantity + Signed(orders[id].side, step)
    BY <1>5, HeadApplies
  <2> HIDE DEF step, id
  <2>2. /\ Fills'[id] = SignedFill(orders'[id]) /\ Fills[id] = SignedFill(orders[id])
        /\ \A i \in DOMAIN Fills : i # id => Fills'[i] = Fills[i]
    BY <2>1 DEF Fills
  <2>3. orders[id].filledQuantity \in Nat /\ orders[id].side \in Side
    BY <2>1 DEF Order
  <2>4. /\ Fills'[id] - Fills[id] = Signed(orders[id].side, step)
        /\ Fills'[id] \in Int
    BY <2>1, <2>2, <2>3 DEF SignedFill, Signed, Side
  <2>5. SumFunction(Fills') = SumFunction(Fills) + (Fills'[id] - Fills[id])
    BY <1>2, <2>1, <2>2, <2>4, OrderSums, SumFunctionChange
  <2> QED BY <1>2, <2>1, <2>4, <2>5
<1> QED BY <1>3, <1>4, <1>5, OrdersStep

\* applyExecution moves the order by overwriting and the position by adding; on
\* an in-order wire that reports executed quantities they stay together.
THEOREM PositionIsTheFills ==
    ASSUME InOrder
    PROVE  Spec => []FillsMatchPosition
<1>1. Init => FillsMatchPosition
  <2> SUFFICES ASSUME Init PROVE FillsMatchPosition
    OBVIOUS
  <2>1. DOMAIN orders = {} /\ position.quantity = 0
    BY DEF Init, Flat
  <2>2. SumFunction(Fills) = 0
    BY <2>1, SumFunctionEmpty DEF Fills
  <2> QED BY <2>1, <2>2 DEF FillsMatchPosition, Fills
<1>2. /\ IInv /\ ReportedIds /\ InOrderInv /\ FillsMatchPosition /\ [Next]_vars
      => FillsMatchPosition'
  BY FillsStep
<1> QED BY <1>1, <1>2, InOrderInvariant, PTL DEF Spec

-----------------------------------------------------------------------------
(* The risk check.                                                         *)

\* The limits are configured once.
LimitsFixed == \A first, second \in LimitChoices : first = second

Bounded == limits.maxPositionQuantity # 0 /\ limits.maxOrderQuantity # 0

Bound == limits.maxPositionQuantity + (MaxOutstanding - 1) * limits.maxOrderQuantity

OpenTerms(side) ==
    [id \in DOMAIN orders |->
        IF orders[id].side = side THEN OpenQuantity(orders[id]) ELSE 0]

\* The position on a side if everything open on it executes.
Exposed(side) == Signed(side, position.quantity) + SumFunction(OpenTerms(side))

\* Nothing is open beyond the bound of the callers or above the order limit.
ExposureInv ==
    /\ Cardinality(Outstanding) <= MaxOutstanding
    /\ Bounded => \A id \in DOMAIN orders : orders[id].quantity <= limits.maxOrderQuantity
    /\ Bounded => \A side \in Side : Exposed(side) <= Bound

LEMMA OpenSums ==
    ASSUME IInv, InOrderInv, NEW side \in Side
    PROVE  /\ Summable(OpenTerms(side)) /\ DOMAIN OpenTerms(side) = DOMAIN orders
           /\ SumFunction(OpenTerms(side)) \in Int
           /\ IsFiniteSet(Outstanding) /\ Cardinality(Outstanding) \in Nat
           /\ \A id \in DOMAIN orders : OpenTerms(side)[id] \in Nat
           /\ \A id \in DOMAIN orders : id \notin Outstanding => OpenTerms(side)[id] = 0
           /\ \A id \in DOMAIN orders : OpenTerms(side)[id] <= orders[id].quantity
<1>1. ASSUME NEW id \in DOMAIN orders
      PROVE  /\ OpenTerms(side)[id] \in Nat
             /\ OpenTerms(side)[id] <= orders[id].quantity
             /\ id \notin Outstanding => OpenTerms(side)[id] = 0
  <2>1. /\ orders[id].quantity \in Nat /\ orders[id].filledQuantity \in Nat
        /\ orders[id].filledQuantity <= orders[id].quantity
    BY OrderSums DEF Order, InOrderInv, Within
  <2> QED BY <2>1 DEF OpenTerms, OpenQuantity, Outstanding
<1>2. IsFiniteSet(DOMAIN orders) /\ Outstanding \subseteq DOMAIN orders
  BY OrderSums DEF Outstanding
<1>3. IsFiniteSet(Outstanding) /\ Cardinality(Outstanding) \in Nat
  BY <1>2, FS_Subset, FS_CardinalityType
<1>4. DOMAIN OpenTerms(side) = DOMAIN orders
  BY DEF OpenTerms
<1>5. Summable(OpenTerms(side))
  BY <1>1, <1>2, <1>4 DEF Summable
<1> QED BY <1>1, <1>3, <1>4, <1>5, SumFunctionType

\* What is open on a side is within the limit of an order, for each order open.
LEMMA OpenBounded ==
    ASSUME IInv, InOrderInv, ExposureInv, Bounded, NEW side \in Side
    PROVE  SumFunction(OpenTerms(side)) <= Cardinality(Outstanding) * limits.maxOrderQuantity
<1>1. limits.maxOrderQuantity \in Nat
  BY DEF IInv, TypeOK, RiskLimits
<1>2. Outstanding \in SUBSET DOMAIN orders
  BY DEF Outstanding
<1>3. ASSUME NEW id \in DOMAIN orders
      PROVE  /\ OpenTerms(side)[id] \in Int
             /\ OpenTerms(side)[id]
                  <= IF id \in Outstanding THEN limits.maxOrderQuantity ELSE 0
  <2>1. /\ OpenTerms(side)[id] \in Nat /\ OpenTerms(side)[id] <= orders[id].quantity
        /\ id \notin Outstanding => OpenTerms(side)[id] = 0
    BY OpenSums
  <2>2. orders[id].quantity \in Nat /\ orders[id].quantity <= limits.maxOrderQuantity
    BY OrderSums DEF Order, ExposureInv
  <2> QED BY <1>1, <2>1, <2>2
<1>4. /\ IsFiniteSet(DOMAIN orders)
      /\ SumFunction(OpenTerms(side)) = SumFunctionOnSet(OpenTerms(side), DOMAIN orders)
  BY OrderSums, OpenSums DEF SumFunction
<1>5. \A id \in DOMAIN orders :
         /\ OpenTerms(side)[id] \in Int
         /\ OpenTerms(side)[id] <= IF id \in Outstanding THEN limits.maxOrderQuantity ELSE 0
  BY <1>3
<1>6. limits.maxOrderQuantity \in Int
  BY <1>1
<1> QED BY <1>2, <1>4, <1>5, <1>6, SumBounded

LEMMA LimitsStep ==
    ASSUME LimitsFixed, IInv, [Next]_vars
    PROVE  limits' = limits
<1>1. CASE SetLimits
  BY <1>1 DEF SetLimits, LimitsFixed, IInv, TypeOK
<1> QED BY <1>1, NextIsOneOf, VenueActsUnchanged
        DEF CreateOrder, Cancel, Deliver, DeliverStray, OnExecutionReport, riskVars, vars

\* An order the risk check lets through.
LEMMA CreateExposure ==
    ASSUME IInv, InOrderInv, ExposureInv, MaxOutstanding # 0, UNCHANGED limits,
           NEW request \in Requests, CreateOrder(request), Track(nextOrderId, request),
           reason' = "None"
    PROVE  ExposureInv'
<1> DEFINE n == nextOrderId
           q == request.quantity
<1>1. /\ n \notin DOMAIN orders /\ DOMAIN orders' = DOMAIN orders \cup {n}
      /\ orders'[n] = NewOrder(request)
      /\ \A id \in DOMAIN orders : orders'[id] = orders[id]
  BY TrackAdds
<1>2. request.side \in Side /\ q \in Nat
  BY DEF OrderRequest, Side
<1>3. /\ CheckOrder(request, position, limits) = "None"
      /\ position' = position
      /\ Cardinality(Outstanding) < MaxOutstanding
  BY DEF CreateOrder, Track
<1>4. /\ limits.maxOrderQuantity \in Nat /\ limits.maxPositionQuantity \in Nat
      /\ position.quantity \in Int
  BY DEF IInv, TypeOK, RiskLimits, PositionValue
<1>5. /\ limits.maxOrderQuantity # 0 => q <= limits.maxOrderQuantity
      /\ limits.maxPositionQuantity # 0 =>
            Abs(position.quantity + Signed(request.side, q)) <= limits.maxPositionQuantity
  <2>1. Abs(position.quantity + Signed(request.side, q)) \in Int
    BY <1>2, <1>4 DEF Abs, Signed
  <2>2. /\ ~Exceeds(q, limits.maxOrderQuantity)
        /\ ~Exceeds(ResultingPosition(request, position), limits.maxPositionQuantity)
    BY <1>3 DEF CheckOrder
  <2> QED BY <1>2, <1>4, <2>1, <2>2 DEF Exceeds, ResultingPosition
<1>6. Cardinality(Outstanding') <= MaxOutstanding
  <2>1. Outstanding' = Outstanding \cup {n} /\ n \notin Outstanding
    BY <1>1 DEF Outstanding, NewOrder, Terminal
  <2>2. IsFiniteSet(Outstanding) /\ Cardinality(Outstanding) \in Nat
    <3>1. "Buy" \in Side
      BY DEF Side
    <3> QED BY <3>1, OpenSums
  <2>3. Cardinality(Outstanding \cup {n}) = Cardinality(Outstanding) + 1
    BY <2>1, <2>2, FS_AddElement
  <2> QED BY <1>3, <2>1, <2>2, <2>3
<1>7. Bounded' => \A id \in DOMAIN orders' : orders'[id].quantity <= limits.maxOrderQuantity
  BY <1>1, <1>5 DEF ExposureInv, Bounded, NewOrder
<1>8. ASSUME Bounded, NEW side \in Side
      PROVE  Exposed(side)' <= Bound
  <2> DEFINE more == IF request.side = side THEN q ELSE 0
             open == SumFunction(OpenTerms(side))
  <2>1. /\ OpenTerms(side)'[n] = more /\ more \in Nat
        /\ DOMAIN OpenTerms(side)' = DOMAIN OpenTerms(side) \cup {n}
        /\ n \notin DOMAIN OpenTerms(side)
        /\ \A id \in DOMAIN OpenTerms(side) : OpenTerms(side)'[id] = OpenTerms(side)[id]
    BY <1>1, <1>2 DEF OpenTerms, OpenQuantity, NewOrder, Terminal
  <2> HIDE DEF more, n
  <2>2. SumFunction(OpenTerms(side)') = open + more
    <3>1. Summable(OpenTerms(side)) /\ OpenTerms(side)'[n] \in Int
      BY <2>1, OpenSums
    <3>2. SumFunction(OpenTerms(side)') = open + OpenTerms(side)'[n]
      BY <2>1, <3>1, SumFunctionInsert
    <3> QED BY <2>1, <3>2
  <2>3. open \in Int /\ Exposed(side) = Signed(side, position.quantity) + open
    BY OpenSums DEF Exposed
  <2>4. Exposed(side)' = Signed(side, position.quantity) + open + more
    <3>1. Exposed(side)' = Signed(side, position.quantity) + SumFunction(OpenTerms(side)')
      BY <1>3 DEF Exposed, Signed
    <3>2. Signed(side, position.quantity) \in Int
      BY <1>4 DEF Signed
    <3> HIDE DEF open
    <3> QED BY <2>1, <2>2, <2>3, <3>1, <3>2
  <2>5. Exposed(side) <= Bound /\ Exposed(side) \in Int
    BY <1>4, <1>8, <2>3 DEF ExposureInv, Signed
  <2>6. CASE request.side # side
    <3>1. Exposed(side)' = Exposed(side)
      BY <1>4, <2>3, <2>4, <2>6 DEF Signed, more
    <3> QED BY <2>5, <3>1
  <2>7. CASE request.side = side
    <3>1. Signed(side, position.quantity) + q <= limits.maxPositionQuantity
      BY <1>2, <1>4, <1>5, <1>8, <2>7 DEF Signed, Abs, Bounded, Side
    <3>2. open <= Cardinality(Outstanding) * limits.maxOrderQuantity
      BY <1>8, OpenBounded
    <3>3. Cardinality(Outstanding) <= MaxOutstanding - 1 /\ Cardinality(Outstanding) \in Int
      BY <1>3, OpenSums
    <3>4. /\ Cardinality(Outstanding) * limits.maxOrderQuantity
               <= (MaxOutstanding - 1) * limits.maxOrderQuantity
          /\ Cardinality(Outstanding) * limits.maxOrderQuantity \in Int
          /\ (MaxOutstanding - 1) * limits.maxOrderQuantity \in Int
      BY <1>4, <3>3, TimesMonotone
    <3>5. Signed(side, position.quantity) \in Int /\ more = q
      BY <1>4, <2>7 DEF Signed, more
    <3> HIDE DEF open
    <3> QED BY <1>2, <1>4, <2>3, <2>4, <3>1, <3>2, <3>4, <3>5 DEF Bound
  <2> QED BY <2>6, <2>7
<1> QED BY <1>6, <1>7, <1>8 DEF ExposureInv, Bounded, Bound

\* A report only takes from what is open, at least what it adds to the position.
LEMMA DeliverExposure ==
    ASSUME IInv, ReportedIds, InOrderInv, ExposureInv, UNCHANGED limits,
           1 \in DOMAIN inbound, OrderManagerApply(inbound[1]),
           Foremost(inbound[1].clientOrderId, 1)
    PROVE  ExposureInv'
<1> DEFINE head == inbound[1]
           id   == head.clientOrderId
           step == IF head.execType = "Trade" THEN head.quantity ELSE 0
<1>1. /\ id \in DOMAIN orders /\ orders[id] \in Order /\ orders'[id] \in Order
      /\ step \in Nat
      /\ DOMAIN orders' = DOMAIN orders
      /\ \A i \in DOMAIN orders : i # id => orders'[i] = orders[i]
      /\ orders[id].status \notin Terminal
      /\ orders'[id].side = orders[id].side
      /\ orders'[id].quantity = orders[id].quantity
      /\ orders'[id].filledQuantity = orders[id].filledQuantity + step
      /\ orders'[id].filledQuantity <= orders[id].quantity
      /\ position'.quantity = position.quantity + Signed(orders[id].side, step)
  BY HeadApplies
<1> HIDE DEF id, step
<1>2. /\ orders[id].quantity \in Nat /\ orders[id].filledQuantity \in Nat
      /\ orders[id].side \in Side /\ position.quantity \in Int
  BY <1>1 DEF Order, IInv, TypeOK, PositionValue
<1>3. Cardinality(Outstanding') <= MaxOutstanding
  <2>1. Outstanding' \subseteq Outstanding
    BY <1>1 DEF Outstanding
  <2>2. IsFiniteSet(Outstanding)
    BY <1>2, OpenSums
  <2>3. /\ Cardinality(Outstanding') <= Cardinality(Outstanding)
        /\ Cardinality(Outstanding') \in Nat /\ Cardinality(Outstanding) \in Nat
    BY <2>1, <2>2, FS_Subset, FS_CardinalityType
  <2> QED BY <2>3 DEF ExposureInv
<1>4. Bounded' => \A i \in DOMAIN orders' : orders'[i].quantity <= limits.maxOrderQuantity
  BY <1>1 DEF ExposureInv, Bounded
<1>5. ASSUME Bounded, NEW side \in Side
      PROVE  Exposed(side)' <= Bound
  <2> DEFINE open == SumFunction(OpenTerms(side))
             fewer == OpenTerms(side)'[id] - OpenTerms(side)[id]
  <2>1. /\ OpenTerms(side)'[id] \in Int /\ OpenTerms(side)[id] \in Int
        /\ fewer <= IF orders[id].side = side THEN -step ELSE 0
    BY <1>1, <1>2 DEF OpenTerms, OpenQuantity, Terminal
  <2>2. /\ DOMAIN OpenTerms(side)' = DOMAIN OpenTerms(side) /\ id \in DOMAIN OpenTerms(side)
        /\ \A i \in DOMAIN OpenTerms(side) :
              i # id => OpenTerms(side)'[i] = OpenTerms(side)[i]
    BY <1>1 DEF OpenTerms
  <2>3. SumFunction(OpenTerms(side)') = open + fewer
    BY <2>1, <2>2, OpenSums, SumFunctionChange
  <2>4. open \in Int /\ Exposed(side) = Signed(side, position.quantity) + open
    BY OpenSums DEF Exposed
  <2>5. Exposed(side)' = Signed(side, position'.quantity) + SumFunction(OpenTerms(side)')
    BY DEF Exposed, Signed
  <2>6. fewer \in Int
    BY <2>1
  <2> HIDE DEF open, fewer
  <2>7. /\ Signed(side, position'.quantity) \in Int /\ Signed(side, position.quantity) \in Int
        /\ Signed(side, position'.quantity) - Signed(side, position.quantity)
             <= IF orders[id].side = side THEN step ELSE 0
    BY <1>1, <1>2 DEF Signed, Side
  <2>8. Exposed(side)' <= Exposed(side) /\ Exposed(side)' \in Int /\ Exposed(side) \in Int
    BY <1>1, <2>1, <2>3, <2>4, <2>5, <2>6, <2>7
  <2>9. Exposed(side) <= Bound /\ Bound \in Int
    BY <1>5 DEF ExposureInv, Bound, IInv, TypeOK, RiskLimits
  <2> QED BY <2>8, <2>9
<1> QED BY <1>3, <1>4, <1>5 DEF ExposureInv, Bounded, Bound

LEMMA ExposureStep ==
    ASSUME InOrder, LimitsFixed, MaxOutstanding # 0,
           IInv, ReportedIds, InOrderInv, ExposureInv, [Next]_vars
    PROVE  ExposureInv'
<1>1. limits' = limits
  BY LimitsStep
<1>2. CASE orders' = orders /\ position' = position
  BY <1>1, <1>2
     DEF ExposureInv, Exposed, OpenTerms, OpenQuantity, Outstanding, Bounded, Bound, Signed
<1>3. ASSUME NEW request \in Requests, CreateOrder(request), Track(nextOrderId, request),
             reason' = "None"
      PROVE  ExposureInv'
  BY <1>1, <1>3, CreateExposure
<1>4. ASSUME 1 \in DOMAIN inbound, OrderManagerApply(inbound[1]),
             Foremost(inbound[1].clientOrderId, 1)
      PROVE  ExposureInv'
  BY <1>1, <1>4, DeliverExposure
<1> QED BY <1>2, <1>3, <1>4, OrdersStep

\* checkOrder reserves nothing for the orders in flight; with limits configured
\* once and an in-order wire, the position limit is overrun by at most one
\* maximal order for each order open beside the last.
THEOREM OverrunIsBounded ==
    ASSUME InOrder, LimitsFixed, MaxOutstanding # 0
    PROVE  Spec => []ExposureBounded
<1>1. Init => ExposureInv
  <2> SUFFICES ASSUME Init PROVE ExposureInv
    OBVIOUS
  <2>1. IInv /\ DOMAIN orders = {} /\ position.quantity = 0
    BY InitEstablishes DEF Init, Flat
  <2>2. Outstanding = {} /\ Cardinality({}) = 0
    BY <2>1, FS_EmptySet DEF Outstanding
  <2>3. \A side \in Side : Exposed(side) = 0
    <3>1. ASSUME NEW side \in Side PROVE Exposed(side) = 0
      <4>1. SumFunction(OpenTerms(side)) = 0
        BY <2>1, SumFunctionEmpty DEF OpenTerms
      <4>2. Signed(side, position.quantity) = 0
        BY <2>1, SignedZero
      <4> QED BY <4>1, <4>2 DEF Exposed
    <3> QED BY <3>1
  <2>4. 0 <= Bound
    <3>1. /\ limits.maxOrderQuantity \in Nat /\ limits.maxPositionQuantity \in Nat
          /\ MaxOutstanding - 1 \in Nat
      BY <2>1 DEF IInv, TypeOK, RiskLimits
    <3>2. (MaxOutstanding - 1) * limits.maxOrderQuantity \in Nat
      BY <3>1
    <3> QED BY <3>1, <3>2 DEF Bound
  <2> QED BY <2>1, <2>2, <2>3, <2>4 DEF ExposureInv
<1>2. /\ IInv /\ ReportedIds /\ InOrderInv /\ ExposureInv /\ [Next]_vars
      => ExposureInv'
  BY ExposureStep
<1>3. IInv /\ InOrderInv /\ ExposureInv => ExposureBounded
  <2> SUFFICES ASSUME IInv, InOrderInv, ExposureInv PROVE ExposureBounded
    OBVIOUS
  <2>1. /\ OpenOn("Buy") = SumFunction(OpenTerms("Buy"))
        /\ OpenOn("Sell") = SumFunction(OpenTerms("Sell"))
    BY DEF OpenOn, OpenTerms
  <2>2. Bounded => Exposed("Buy") <= Bound /\ Exposed("Sell") <= Bound
    BY DEF ExposureInv, Side
  <2> QED BY <2>1, <2>2 DEF ExposureBounded, Exposed, Bounded, Bound, Signed
<1> QED BY <1>1, <1>2, <1>3, InOrderInvariant, PTL DEF Spec

=============================================================================
