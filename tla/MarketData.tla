----------------------------- MODULE MarketData -----------------------------
(***************************************************************************)
(* The market-data side of TradingCore: MarketDataMessageHandler takes a   *)
(* message apart into updates, BookBuilder applies each to OrderBook and   *)
(* publishes a MarketEvent with the resulting top of the book.             *)
(*                                                                         *)
(* The exchange numbers every change of its book.  The feed is as bad as a *)
(* feed may be: a message may carry any past updates, so updates get lost, *)
(* repeated and reordered, and a snapshot may be of any past version.      *)
(* The exchange and the feed are external to the repository.               *)
(***************************************************************************)
EXTENDS Integers, Sequences, FiniteSetsExt

CONSTANTS Prices,          \* raw prices; 0 is the missing price of an event
          Quantities,      \* raw quantities; 0 removes a level
          MaxSequence,     \* bound: changes of the exchange's book
          MaxBatch,        \* bound: updates in one message
          MaxPublished     \* bound: events published

ASSUME MarketDataAssumption ==
    /\ Prices \subseteq Nat \ {0}
    /\ \A S \in SUBSET Prices :  \* as in any set of machine integers
          S # {} => /\ \E low \in S : \A p \in S : low <= p
                    /\ \E high \in S : \A p \in S : p <= high
    /\ Quantities \subseteq Nat
    /\ 0 \in Quantities
    /\ MaxSequence \in Nat /\ MaxBatch \in Nat /\ MaxPublished \in Nat

Sides == {"Buy", "Sell"}

\* std::map<Price, Quantity>.
Levels == UNION {[S -> Quantities] : S \in SUBSET Prices}

\* An update as parsed; `ours' tells whether it is for the configured instrument.
BookUpdate == [ours : BOOLEAN, sequence : Nat, side : Sides,
               price : Prices, quantity : Quantities]

MarketEvent == [sequence : Nat, bestBid : Nat, bestBidQuantity : Nat,
                bestAsk : Nat, bestAskQuantity : Nat]

VARIABLES bids, asks,      \* OrderBook: the levels
          sequenceNumber,  \* OrderBook: sequence of the last change applied
          valid,           \* OrderBook: false until a snapshot, and after a gap
          pending,         \* MarketDataMessageHandler: updates still to handle
          event,           \* the last MarketEvent published
          published,       \* number of events published
          changes,         \* external: the exchange's updates, in order
          depths           \* external: the exchange's books, one more than changes

bookVars == <<bids, asks, sequenceNumber, valid>>
eventVars == <<event, published>>
exchangeVars == <<changes, depths>>
vars == <<bookVars, pending, eventVars, exchangeVars>>

-----------------------------------------------------------------------------
(* OrderBook.                                                              *)

NoLevels == [price \in {} |-> 0]

\* A slip: a zero quantity is stored instead of removing the level.
WithLevelKept(levels, price, quantity) ==
    [p \in DOMAIN levels \cup {price} |-> IF p = price THEN quantity ELSE levels[p]]

WithLevel(levels, price, quantity) ==
    IF quantity = 0
    THEN [p \in DOMAIN levels \ {price} |-> levels[p]]
    ELSE [p \in DOMAIN levels \cup {price} |-> IF p = price THEN quantity ELSE levels[p]]

BestBid == IF bids = NoLevels THEN 0 ELSE Max(DOMAIN bids)

BestAsk == IF asks = NoLevels THEN 0 ELSE Min(DOMAIN asks)

VolumeAt(levels, price) == IF price \in DOMAIN levels THEN levels[price] ELSE 0

\* A slip: bids the snapshot does not have survive it.
ReplaceMerging(sequence, spanBids, spanAsks) ==
    /\ bids' = [p \in DOMAIN spanBids \cup DOMAIN bids |->
                   IF p \in DOMAIN spanBids THEN spanBids[p] ELSE bids[p]]
    /\ asks' = spanAsks
    /\ sequenceNumber' = sequence
    /\ valid' = TRUE

Replace(sequence, spanBids, spanAsks) ==
    /\ bids' = spanBids
    /\ asks' = spanAsks
    /\ sequenceNumber' = sequence
    /\ valid' = TRUE

\* Slips: updates already in the book, or beyond a gap, are let through.
InSequenceOrOlder(update) == update.sequence <= sequenceNumber + 1

InSequenceOrNewer(update) == update.sequence > sequenceNumber

InSequence(update) == update.sequence = sequenceNumber + 1

\* A slip: the refused update is counted.
InvalidateCounting ==
    /\ valid' = FALSE
    /\ sequenceNumber' = sequenceNumber + 1
    /\ UNCHANGED <<bids, asks>>

Invalidate == valid' = FALSE /\ UNCHANGED <<bids, asks, sequenceNumber>>

SetLevel(update) ==
    /\ IF update.side = "Buy"
       THEN /\ bids' = WithLevel(bids, update.price, update.quantity)
            /\ UNCHANGED asks
       ELSE /\ asks' = WithLevel(asks, update.price, update.quantity)
            /\ UNCHANGED bids
    /\ sequenceNumber' = update.sequence
    /\ UNCHANGED valid

-----------------------------------------------------------------------------
(* BookBuilder.                                                            *)

\* The event of the book as it is after the step; a missing side is all zero.
PublishMarketEvent(sequence) ==
    /\ event' = [sequence        |-> sequence,
                 bestBid         |-> BestBid',
                 bestBidQuantity |-> VolumeAt(bids', BestBid'),
                 bestAsk         |-> BestAsk',
                 bestAskQuantity |-> VolumeAt(asks', BestAsk')]
    /\ published' = published + 1

\* applySnapshot accepts whatever it is given, whatever was applied before.
ApplySnapshot(sequence, spanBids, spanAsks) ==
    /\ Replace(sequence, spanBids, spanAsks)
    /\ PublishMarketEvent(sequence)

\* An update for another instrument or an invalid book is ignored, one out of
\* sequence makes the book invalid; neither publishes.
OnBookUpdate(update) ==
    IF ~update.ours \/ ~valid
    THEN UNCHANGED <<bookVars, eventVars>>
    ELSE IF ~InSequence(update)
    THEN Invalidate /\ UNCHANGED eventVars
    ELSE SetLevel(update) /\ PublishMarketEvent(update.sequence)

-----------------------------------------------------------------------------
(* MarketDataMessageHandler.                                               *)

\* onMessage: what the parser makes of a message replaces the buffer; a message
\* it refuses leaves nothing to handle.
OnMessage(updates) ==
    /\ pending = <<>>
    /\ pending' = updates
    /\ UNCHANGED <<bookVars, eventVars, exchangeVars>>

\* One turn of onMessage's loop over the buffer.
HandleUpdate ==
    /\ pending # <<>>
    /\ published < MaxPublished
    /\ OnBookUpdate(Head(pending))
    /\ pending' = Tail(pending)
    /\ UNCHANGED exchangeVars

-----------------------------------------------------------------------------
(* The exchange and its feed (external).                                   *)

\* The exchange's own book: the quantity at every price, 0 where there is none.
Depth == [Sides -> [Prices -> Quantities]]

EmptyDepth == [side \in Sides |-> [price \in Prices |-> 0]]

\* A side of the exchange's book as a map of its levels.
LevelsOf(depth, side) ==
    [price \in {p \in Prices : depth[side][p] # 0} |-> depth[side][price]]

\* depths[n + 1] is the book after change n.
DepthAt(n) == depths[n + 1]

DepthAfter(depth, side, price, quantity) ==
    [depth EXCEPT ![side] = [depth[side] EXCEPT ![price] = quantity]]

ExchangeChanges(side, price, quantity) ==
    /\ Len(changes) < MaxSequence
    /\ changes' = Append(changes, [ours |-> TRUE, sequence |-> Len(changes) + 1,
                                   side |-> side, price |-> price, quantity |-> quantity])
    /\ depths' = Append(depths, DepthAfter(DepthAt(Len(changes)), side, price, quantity))
    /\ UNCHANGED <<bookVars, pending, eventVars>>

Foreign(update) == [update EXCEPT !.ours = FALSE]

Batches == UNION {[1..n -> Range(changes)] : n \in 1..MaxBatch}

ReceiveMessage ==
    \/ \E updates \in Batches : OnMessage(updates)
    \/ \E update \in Range(changes) : OnMessage(<<Foreign(update)>>)

ReceiveSnapshot(n) ==
    /\ pending = <<>>
    /\ published < MaxPublished
    /\ n \in 0..Len(changes)
    /\ ApplySnapshot(n, LevelsOf(DepthAt(n), "Buy"), LevelsOf(DepthAt(n), "Sell"))
    /\ UNCHANGED <<pending, exchangeVars>>

-----------------------------------------------------------------------------
NoEvent == [sequence |-> 0, bestBid |-> 0, bestBidQuantity |-> 0,
            bestAsk |-> 0, bestAskQuantity |-> 0]

Init ==
    /\ bids = NoLevels
    /\ asks = NoLevels
    /\ sequenceNumber = 0
    /\ valid = FALSE
    /\ pending = <<>>
    /\ event = NoEvent
    /\ published = 0
    /\ changes = <<>>
    /\ depths = <<EmptyDepth>>

Next ==
    \/ \E side \in Sides, price \in Prices, quantity \in Quantities :
          ExchangeChanges(side, price, quantity)
    \/ ReceiveMessage
    \/ HandleUpdate
    \/ \E n \in 0..MaxSequence : ReceiveSnapshot(n)

Spec == Init /\ [][Next]_vars

-----------------------------------------------------------------------------
(* Properties.                                                             *)

TypeOK ==
    /\ bids \in Levels /\ asks \in Levels
    /\ sequenceNumber \in 0..Len(changes)
    /\ valid \in BOOLEAN
    /\ pending \in Seq(BookUpdate)
    /\ event \in MarketEvent
    /\ published \in Nat
    /\ changes \in Seq(BookUpdate)
    /\ depths \in Seq(Depth)
    /\ Len(depths) = Len(changes) + 1

DepthOfBook == [Buy |-> bids, Sell |-> asks]

Shown(depth) == [Buy |-> LevelsOf(depth, "Buy"), Sell |-> LevelsOf(depth, "Sell")]

\* A valid OrderBook is the exchange's book at the sequence it claims, level by
\* level, whatever the feed lost, repeated or reordered on the way.
ValidBookIsExchangeBook == valid => DepthOfBook = Shown(DepthAt(sequenceNumber))

Top(depth) ==
    LET bidPrices == {p \in Prices : depth["Buy"][p] # 0}
        askPrices == {p \in Prices : depth["Sell"][p] # 0}
        bid == IF bidPrices = {} THEN 0 ELSE Max(bidPrices)
        ask == IF askPrices = {} THEN 0 ELSE Min(askPrices)
    IN  [bestBid         |-> bid,
         bestBidQuantity |-> IF bidPrices = {} THEN 0 ELSE depth["Buy"][bid],
         bestAsk         |-> ask,
         bestAskQuantity |-> IF askPrices = {} THEN 0 ELSE depth["Sell"][ask]]

\* Every event published quotes the exchange's best bid and ask, with their
\* quantities, at the event's own sequence: strategies never see a top of the
\* book that did not exist.
EventIsExchangeTop ==
    published > 0 =>
        LET top == Top(DepthAt(event.sequence)) IN
        /\ event.bestBid = top.bestBid /\ event.bestBidQuantity = top.bestBidQuantity
        /\ event.bestAsk = top.bestAsk /\ event.bestAskQuantity = top.bestAskQuantity

\* Between snapshots events come for consecutive sequences, and only a snapshot
\* makes an invalid book usable again: after a gap nothing is published, even
\* when the missing update arrives late.
OnlySnapshotsJump ==
    [][/\ published' # published /\ event'.sequence # event.sequence + 1
          => \E n \in 0..Len(changes) : ReceiveSnapshot(n)
       /\ valid' /\ ~valid => \E n \in 0..Len(changes) : ReceiveSnapshot(n)]_vars

\* The book of an invalid OrderBook shows nothing.
Replica == INSTANCE BookReplica
    WITH Books    <- Depth,
         NoBook   <- [side \in {} |-> 0],
         versions <- depths,
         version  <- IF valid THEN sequenceNumber + 1 ELSE 0,
         view     <- IF valid THEN [side \in Sides |->
                                       [price \in Prices |->
                                           VolumeAt(DepthOfBook[side], price)]]
                     ELSE [side \in {} |-> 0]

\* OrderBook and BookBuilder implement a replica that shows either nothing or
\* one version of the exchange's book, whole.
ImplementsReplica == Replica!Spec

=============================================================================
