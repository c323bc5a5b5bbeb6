--------------------------- MODULE MatchingEngine ---------------------------
(***************************************************************************)
(* The order matching engine of MatchingEngine_UnitTests and its variants  *)
(* under src/MatchingEngine: one thread, price levels of resting orders on *)
(* two sides, and a map from an order's id to its place in a level.        *)
(*                                                                         *)
(* The variants share their handlers up to the choices recorded in         *)
(* EngineKind; which of them runs is chosen in the initial state.          *)
(*                                                                         *)
(* The loops of matchOrder and matchOrderList are taken one iteration at a *)
(* time.  `taker' is the order whose handler is running: no request is     *)
(* accepted before it is None again.  A std::list is a sequence, of        *)
(* `trades', which the engine only appends to, the last one is kept.       *)
(***************************************************************************)
EXTENDS Integers, Sequences, Functions

CONSTANTS Engines,         \* the variants, each an EngineKind
          Ids, Prices,     \* of orders
          Quantities,      \* of the requests, 0 included
          None,            \* no order being matched, no level entered
          MaxRequests,     \* bound: requests processed
          QuantityModulus  \* of the uint32_t quantities of trades and levels

EngineKind == [bestFirst : BOOLEAN,      \* matches from the best price on
               erasesEmpty : BOOLEAN,    \* an empty level leaves the map
               checksSide : BOOLEAN,     \* a cancel must name the side
               countsQuantity : BOOLEAN] \* levels carry a total quantity

ASSUME MatchingEngineAssumption ==
    /\ Engines \subseteq EngineKind
    /\ Prices \subseteq Nat
    /\ Quantities \subseteq Nat
    /\ None \notin Prices
    /\ MaxRequests \in Nat
    /\ QuantityModulus \in Nat \ {0}

\* The engines: each has the handlers below, with the choices it made.
\* MatchingEngine_UnitTests.
UnitTests == [bestFirst |-> TRUE, erasesEmpty |-> TRUE,
              checksSide |-> TRUE, countsQuantity |-> TRUE]

\* The single-file engine it was taken from.
MatchingEngineEx == UnitTests

\* MatchingEngine.cpp: one list owns the orders, the levels have none of their
\* own and no quantity.
ListEngine == [UnitTests EXCEPT !.countsQuantity = FALSE]

\* The first ones: both maps are sorted the other way round, matching goes from
\* lower_bound of the price to the end of the map, and levels are kept.
OrderAsPtr == [bestFirst |-> FALSE, erasesEmpty |-> FALSE,
               checksSide |-> FALSE, countsQuantity |-> FALSE]

\* The same with orders from an ObjectPool.
OrderAsPtrAlloc == OrderAsPtr

\* The same with orders copied into the list.
PriceLvLPtr == OrderAsPtr

OrderSide == {"BUY", "SELL"}

Order == [id : Ids, side : OrderSide, price : Prices, quantity : Quantities]

VARIABLES engine,         \* the variant that runs
          orderByIDMap,   \* id -> the side and the price of its level
          priceLevelMap,  \* side -> price -> the level's orders and quantity
          taker,          \* the order being matched, with the level entered
          trade,          \* the last element of trades
          requests,       \* how many were processed
          arrivals        \* history: ids of the resting orders as they came

book == <<orderByIDMap, priceLevelMap>>
vars == <<engine, book, taker, trade, requests, arrivals>>

Opposite(side) == IF side = "BUY" THEN "SELL" ELSE "BUY"

Place == [side : OrderSide, price : Prices]

Resting == [id : Ids, quantity : Nat]

PriceLevel == [orders : Seq(Resting), quantity : 0..QuantityModulus - 1]

Taker == [id : Ids, side : OrderSide, price : Prices, quantity : Nat,
          level : Prices \cup {None}]

\* An order of the queue the book stands for.
Entry == [id : Ids, side : OrderSide, price : Prices, quantity : Nat]

\* None is not taken for an order.
ASSUME NoneIsNoOrder == None \notin Taker /\ None \notin Entry

\* A slip: a level at the order's own price does not match.
EligibleStrictly(order, price) ==
    IF order.side = "SELL" THEN price > order.price ELSE price < order.price

\* The comparator matchOrder is instantiated with.
Eligible(order, price) ==
    IF order.side = "SELL" THEN price >= order.price ELSE price <= order.price

\* The other side's levels that matchOrder has still to walk through.
Crossed(order) ==
    {p \in DOMAIN priceLevelMap[Opposite(order.side)] :
        /\ Eligible(order, p)
        /\ priceLevelMap[Opposite(order.side)][p].orders # <<>>}

\* The first of them in the order of the engine's map.
NextLevel(order, price) ==
    /\ price \in Crossed(order)
    /\ \A p \in Crossed(order) :
           IF (order.side = "SELL") = engine.bestFirst
           THEN price >= p ELSE price <= p

\* What a level's uint32_t quantity holds after an assignment.
Counted(quantity) ==
    IF engine.countsQuantity THEN quantity % QuantityModulus ELSE 0

Updated(f, x, value) ==
    [y \in DOMAIN f \cup {x} |-> IF y = x THEN value ELSE f[y]]

Removed(f, x) == [y \in DOMAIN f \ {x} |-> f[y]]

\* A level that lost its last order leaves the map.
WithLevel(side, price, level) ==
    [priceLevelMap EXCEPT ![side] =
        IF level.orders = <<>> /\ engine.erasesEmpty
        THEN Removed(@, price) ELSE Updated(@, price, level)]

\* getOrderPriceList: the level of a price, new when there is none.
LevelAt(side, price) ==
    IF price \in DOMAIN priceLevelMap[side] THEN priceLevelMap[side][price]
    ELSE [orders |-> <<>>, quantity |-> 0]

\* A list without its element at i.
EraseAt(list, i) ==
    [k \in 1..Len(list) - 1 |-> IF k < i THEN list[k] ELSE list[k + 1]]

\* A list whose element at i got another quantity.
Resized(list, i, quantity) ==
    [k \in 1..Len(list) |->
        IF k = i THEN [id |-> list[k].id, quantity |-> quantity] ELSE list[k]]

Forget(id) ==
    \E i \in 1..Len(arrivals) :
        arrivals[i] = id /\ arrivals' = EraseAt(arrivals, i)

-----------------------------------------------------------------------------

Init ==
    /\ engine \in Engines
    /\ orderByIDMap = <<>>
    /\ priceLevelMap = [side \in OrderSide |-> <<>>]
    /\ taker = None
    /\ trade = None
    /\ requests = 0
    /\ arrivals = <<>>

\* handleOrderNew begins: the order is matched first.
StartMatching(order) ==
    taker' = [id |-> order.id, side |-> order.side, price |-> order.price,
              quantity |-> order.quantity, level |-> None]

HandleOrderNew(order) ==
    /\ StartMatching(order)
    /\ UNCHANGED <<book, trade, arrivals>>

\* A slip: the id map is left as it is.
EraseOrderKnown(side, price, i, quantity) ==
    LET orders == priceLevelMap[side][price].orders
    IN /\ priceLevelMap' = WithLevel(side, price,
              [orders |-> EraseAt(orders, i), quantity |-> quantity])
       /\ UNCHANGED orderByIDMap
       /\ Forget(orders[i].id)

\* The i-th order leaves its level, which keeps the quantity given, and the
\* id map.
EraseOrder(side, price, i, quantity) ==
    LET orders == priceLevelMap[side][price].orders
    IN /\ priceLevelMap' = WithLevel(side, price,
              [orders |-> EraseAt(orders, i), quantity |-> quantity])
       /\ orderByIDMap' = Removed(orderByIDMap, orders[i].id)
       /\ Forget(orders[i].id)

CancelOrder(id) ==
    LET place == orderByIDMap[id]
        level == priceLevelMap[place.side][place.price]
    IN \E i \in 1..Len(level.orders) :
           /\ level.orders[i].id = id
           /\ EraseOrder(place.side, place.price, i,
                  Counted(level.quantity - level.orders[i].quantity))

\* An unknown id, or in some engines another side, is ignored.
HandleOrderCancel(id, side) ==
    /\ IF /\ id \in DOMAIN orderByIDMap
          /\ engine.checksSide => side = orderByIDMap[id].side
       THEN CancelOrder(id)
       ELSE UNCHANGED <<book, arrivals>>
    /\ UNCHANGED <<taker, trade>>

\* A slip: what the order had is taken from the level twice.
AmendQuantityTwice(order) ==
    LET level == priceLevelMap[order.side][order.price]
    IN \E i \in 1..Len(level.orders) :
           /\ level.orders[i].id = order.id
           /\ priceLevelMap' = WithLevel(order.side, order.price,
                  [orders |-> Resized(level.orders, i, order.quantity),
                   quantity |-> Counted(level.quantity + order.quantity
                                        - 2 * level.orders[i].quantity)])

\* The order keeps its place in the level.
AmendQuantity(order) ==
    LET level == priceLevelMap[order.side][order.price]
    IN \E i \in 1..Len(level.orders) :
           /\ level.orders[i].id = order.id
           /\ priceLevelMap' = WithLevel(order.side, order.price,
                  [orders |-> Resized(level.orders, i, order.quantity),
                   quantity |-> Counted(level.quantity + order.quantity
                                        - level.orders[i].quantity)])

\* A new price withdraws the order and submits it again.
HandleOrderAmend(order) ==
    LET place == orderByIDMap[order.id]
    IN /\ IF order.id \notin DOMAIN orderByIDMap \/ place.side # order.side
          THEN UNCHANGED <<book, taker, arrivals>>
          ELSE IF place.price # order.price
          THEN CancelOrder(order.id) /\ StartMatching(order)
          ELSE AmendQuantity(order) /\ UNCHANGED <<orderByIDMap, taker, arrivals>>
       /\ UNCHANGED trade

ProcessOrder ==
    /\ taker = None
    /\ requests < MaxRequests
    /\ requests' = requests + 1
    /\ \/ \E order \in Order : HandleOrderNew(order)
       \/ \E id \in Ids, side \in OrderSide : HandleOrderCancel(id, side)
       \/ \E order \in Order : HandleOrderAmend(order)
    /\ UNCHANGED engine

-----------------------------------------------------------------------------

\* The level at price is walked: entered before, or next in matchOrder's loop
\* while the order has a quantity left.
AtLevel(price) ==
    /\ taker # None
    /\ IF taker.level = None
       THEN taker.quantity > 0 /\ NextLevel(taker, price)
       ELSE price = taker.level

OrderInfo(order) == [id |-> order.id, price |-> order.price]

RecordTrade(matched, price) ==
    LET maker == [id |-> matched.id, price |-> price]
    IN trade' = [buyOrderInfo |->
                     IF taker.side = "SELL" THEN maker ELSE OrderInfo(taker),
                 sellOrderInfo |->
                     IF taker.side = "SELL" THEN OrderInfo(taker) ELSE maker,
                 quantity |-> (IF matched.quantity < taker.quantity
                               THEN matched.quantity ELSE taker.quantity)
                              % QuantityModulus]

\* A slip: quantities are subtracted without being compared.
FillMatchedOrderAlways(price) ==
    LET side == Opposite(taker.side)
        level == priceLevelMap[side][price]
        matched == level.orders[1]
    IN /\ RecordTrade(matched, price)
       /\ taker' = [taker EXCEPT !.quantity = @ - matched.quantity,
                                 !.level = IF Len(level.orders) = 1 THEN None
                                           ELSE price]
       /\ EraseOrder(side, price, 1, level.quantity)

\* An iteration of matchOrderList that fills the level's first order.  The
\* loop goes on to the next one whatever is left of the taker.
FillMatchedOrder(price) ==
    LET side == Opposite(taker.side)
        level == priceLevelMap[side][price]
        matched == level.orders[1]
    IN /\ taker.quantity >= matched.quantity
       /\ RecordTrade(matched, price)
       /\ taker' = [taker EXCEPT !.quantity = @ - matched.quantity,
                                 !.level = IF Len(level.orders) = 1 THEN None
                                           ELSE price]
       /\ EraseOrder(side, price, 1, level.quantity)

\* A slip: the loop goes on with the same order.
FillTakerStays(price) ==
    LET side == Opposite(taker.side)
        level == priceLevelMap[side][price]
        matched == level.orders[1]
    IN /\ taker.quantity < matched.quantity
       /\ RecordTrade(matched, price)
       /\ taker' = [taker EXCEPT !.quantity = 0, !.level = price]
       /\ priceLevelMap' = WithLevel(side, price,
              [orders |-> Resized(level.orders, 1,
                                  matched.quantity - taker.quantity),
               quantity |-> level.quantity])
       /\ UNCHANGED <<orderByIDMap, arrivals>>

\* An iteration that fills the taker: the first order keeps the rest.
FillTaker(price) ==
    LET side == Opposite(taker.side)
        level == priceLevelMap[side][price]
        matched == level.orders[1]
    IN /\ taker.quantity < matched.quantity
       /\ RecordTrade(matched, price)
       /\ taker' = [taker EXCEPT !.quantity = 0, !.level = None]
       /\ priceLevelMap' = WithLevel(side, price,
              [orders |-> Resized(level.orders, 1,
                                  matched.quantity - taker.quantity),
               quantity |-> level.quantity])
       /\ UNCHANGED <<orderByIDMap, arrivals>>

Match ==
    /\ \E price \in Prices :
           AtLevel(price) /\ (FillMatchedOrder(price) \/ FillTaker(price))
    /\ UNCHANGED <<engine, requests>>

\* A slip: the order goes to the front of its level.
InsertOrderFirst(order) ==
    LET level == LevelAt(order.side, order.price)
    IN /\ orderByIDMap' = Updated(orderByIDMap, order.id,
                              [side |-> order.side, price |-> order.price])
       /\ priceLevelMap' = WithLevel(order.side, order.price,
              [orders |-> <<[id |-> order.id, quantity |-> order.quantity]>>
                          \o level.orders,
               quantity |-> Counted(level.quantity + order.quantity)])
       /\ arrivals' = Append(arrivals, order.id)

InsertOrder(order) ==
    LET level == LevelAt(order.side, order.price)
    IN /\ orderByIDMap' = Updated(orderByIDMap, order.id,
                              [side |-> order.side, price |-> order.price])
       /\ priceLevelMap' = WithLevel(order.side, order.price,
              [orders |-> Append(level.orders, [id |-> order.id,
                                               quantity |-> order.quantity]),
               quantity |-> Counted(level.quantity + order.quantity)])
       /\ arrivals' = Append(arrivals, order.id)

\* handleOrderNew ends: what is left rests, unless its id is taken.
EndMatching ==
    /\ taker # None
    /\ taker.level = None
    /\ taker.quantity = 0 \/ Crossed(taker) = {}
    /\ IF taker.quantity > 0 /\ taker.id \notin DOMAIN orderByIDMap
       THEN InsertOrder(taker)
       ELSE UNCHANGED <<book, arrivals>>
    /\ taker' = None
    /\ UNCHANGED <<engine, trade, requests>>

Next == ProcessOrder \/ Match \/ EndMatching

\* The engine runs a request to its end; requests come from outside.
Spec == Init /\ [][Next]_vars /\ WF_vars(Match \/ EndMatching)

-----------------------------------------------------------------------------

BookTypeOK ==
    /\ DOMAIN orderByIDMap \subseteq Ids
    /\ \A id \in DOMAIN orderByIDMap : orderByIDMap[id] \in Place
    /\ DOMAIN priceLevelMap = OrderSide
    /\ \A side \in OrderSide :
           /\ DOMAIN priceLevelMap[side] \subseteq Prices
           /\ \A p \in DOMAIN priceLevelMap[side] :
                  priceLevelMap[side][p] \in PriceLevel

\* Every variable has a value of its kind: no quantity falls below zero.
TypeOK ==
    /\ engine \in Engines
    /\ BookTypeOK
    /\ taker \in Taker \cup {None}
    /\ requests \in 0..MaxRequests

\* The orders of a level are known by their ids, at that level, each once.
ListAgrees(orders, places, side, price) ==
    /\ \A i \in 1..Len(orders) :
           /\ orders[i].id \in DOMAIN places
           /\ places[orders[i].id] = [side |-> side, price |-> price]
    /\ \A i, j \in 1..Len(orders) : orders[i].id = orders[j].id => i = j

\* A known order is in the level its place names.
PlaceAgrees(id, place, levels) ==
    /\ place.price \in DOMAIN levels[place.side]
    /\ LET orders == levels[place.side][place.price].orders
       IN \E i \in 1..Len(orders) : orders[i].id = id

\* The id map and the levels hold the same orders, each once: an iterator of
\* the map is never left dangling, and no order is out of cancel's reach.
\* (cancelOrder and matchOrderList erase from both, at different places.)
BookAgrees ==
    /\ \A side \in OrderSide : \A p \in DOMAIN priceLevelMap[side] :
           ListAgrees(priceLevelMap[side][p].orders, orderByIDMap, side, p)
    /\ \A id \in DOMAIN orderByIDMap :
           PlaceAgrees(id, orderByIDMap[id], priceLevelMap)

\* getBestBuyOrder and getBestSellOrder take the first order of the first
\* level without a test: where levels are erased none is empty.
NoEmptyLevel ==
    engine.erasesEmpty =>
        \A side \in OrderSide : \A p \in DOMAIN priceLevelMap[side] :
            priceLevelMap[side][p].orders # <<>>

\* The book holds together: map and levels agree and no level is left behind,
\* whichever handler took the last order out of it.
BookIsWhole == BookAgrees /\ NoEmptyLevel

\* Between matches and within one the best bid is below the best ask: a
\* remainder only rests once nothing on the other side matches it, and
\* amending a price matches again.
Uncrossed ==
    \A b \in DOMAIN priceLevelMap["BUY"], a \in DOMAIN priceLevelMap["SELL"] :
        /\ priceLevelMap["BUY"][b].orders # <<>>
        /\ priceLevelMap["SELL"][a].orders # <<>>
        => b < a

TotalQuantity(orders) == SumFunction([i \in 1..Len(orders) |-> orders[i].quantity])

\* A level's quantity never falls below its orders', so that cancelOrder and
\* handleOrderAmend do not take its uint32_t below zero, though trades leave
\* it alone.
LevelQuantityCovers ==
    engine.countsQuantity =>
        \A side \in OrderSide : \A p \in DOMAIN priceLevelMap[side] :
            priceLevelMap[side][p].quantity
                >= TotalQuantity(priceLevelMap[side][p].orders)

\* What README_TestList.txt has the tests check: the quantity of a level is
\* that of its orders.  Matching does not reduce it.
LevelQuantityIsTotal ==
    engine.countsQuantity =>
        \A side \in OrderSide : \A p \in DOMAIN priceLevelMap[side] :
            priceLevelMap[side][p].quantity
                = TotalQuantity(priceLevelMap[side][p].orders)

\* The loops over levels and orders end: every request is answered.
MatchingEnds == taker # None ~> taker = None

RestingOrder(id) ==
    LET place == orderByIDMap[id]
        orders == priceLevelMap[place.side][place.price].orders
        i == CHOOSE k \in 1..Len(orders) : orders[k].id = id
    IN [id |-> id, side |-> place.side, price |-> place.price,
        quantity |-> orders[i].quantity]

Queue == [i \in 1..Len(arrivals) |-> RestingOrder(arrivals[i])]

Incoming ==
    IF taker = None THEN None
    ELSE [id |-> taker.id, side |-> taker.side, price |-> taker.price,
          quantity |-> taker.quantity]

PriceTime == INSTANCE PriorityBook WITH
    bestFirst <- engine.bestFirst,
    queue     <- Queue,
    incoming  <- Incoming

\* The levels and the id map are one queue with priority by price and time:
\* every trade, recorded with what both sides lose, is with the order due.
ImplementsPriorityBook == PriceTime!Spec

=============================================================================
