-------------------------- MODULE MarketDataProofs --------------------------
(***************************************************************************)
(* Proofs about MarketData for every set of prices and quantities, every   *)
(* bound and every behaviour of the feed.                                  *)
(***************************************************************************)
EXTENDS MarketData, SequenceTheorems, TLAPS

USE MarketDataAssumption

\* The exchange numbers its changes from one, and its books follow from them.
History ==
    \A n \in 1..Len(changes) :
        /\ changes[n].ours /\ changes[n].sequence = n
        /\ depths[n + 1] = DepthAfter(depths[n], changes[n].side, changes[n].price,
                                      changes[n].quantity)

\* Whatever the feed repeats or reorders, it makes up nothing: an update for
\* the configured instrument is one of the exchange's.
Feed ==
    \A k \in 1..Len(pending) :
        pending[k].ours => \E n \in 1..Len(changes) : pending[k] = changes[n]

BookMatches ==
    valid => /\ bids = LevelsOf(DepthAt(sequenceNumber), "Buy")
             /\ asks = LevelsOf(DepthAt(sequenceNumber), "Sell")

EventMatches ==
    /\ event.sequence \in 0..Len(changes)
    /\ EventIsExchangeTop

IInv == TypeOK /\ History /\ Feed /\ BookMatches /\ EventMatches

-----------------------------------------------------------------------------
(* Levels.                                                                 *)

LEMMA LevelsOfType ==
    ASSUME NEW depth \in Depth, NEW side \in Sides
    PROVE  LevelsOf(depth, side) \in Levels
<1> DEFINE S == {p \in Prices : depth[side][p] # 0}
<1>1. S \in SUBSET Prices
  OBVIOUS
<1>2. \A p \in S : depth[side][p] \in Quantities
  BY DEF Depth
<1>3. LevelsOf(depth, side) = [p \in S |-> depth[side][p]]
  BY DEF LevelsOf
<1> HIDE DEF S
<1>4. LevelsOf(depth, side) \in [S -> Quantities]
  BY <1>2, <1>3
<1> QED BY <1>1, <1>4 DEF Levels

LEMMA LevelsFacts ==
    ASSUME NEW levels \in Levels
    PROVE  /\ DOMAIN levels \subseteq Prices
           /\ levels \in [DOMAIN levels -> Quantities]
BY DEF Levels

LEMMA WithLevelType ==
    ASSUME NEW levels \in Levels, NEW price \in Prices, NEW quantity \in Quantities
    PROVE  WithLevel(levels, price, quantity) \in Levels
<1> DEFINE new == WithLevel(levels, price, quantity)
<1>1. new \in [DOMAIN new -> Quantities] /\ DOMAIN new \subseteq Prices
  BY LevelsFacts DEF WithLevel
<1> HIDE DEF new
<1>2. new \in Levels
  BY <1>1 DEF Levels
<1> QED BY <1>2 DEF new

Highest(levels) == IF levels = NoLevels THEN 0 ELSE Max(DOMAIN levels)

Lowest(levels) == IF levels = NoLevels THEN 0 ELSE Min(DOMAIN levels)

\* The best price of either side, and what is offered there, are numbers.
LEMMA BestType ==
    ASSUME NEW levels \in Levels
    PROVE  /\ Highest(levels) \in Prices \cup {0} /\ Highest(levels) \in Nat
           /\ Lowest(levels) \in Prices \cup {0} /\ Lowest(levels) \in Nat
           /\ \A price : VolumeAt(levels, price) \in Nat
<1>1. DOMAIN levels \in SUBSET Prices /\ levels \in [DOMAIN levels -> Quantities]
  BY LevelsFacts
<1>2. \A price : VolumeAt(levels, price) \in Nat
  BY <1>1 DEF VolumeAt
<1>3. CASE levels = NoLevels
  BY <1>2, <1>3 DEF Highest, Lowest
<1>4. CASE levels # NoLevels
  <2>1. DOMAIN levels # {}
    BY <1>1, <1>4 DEF NoLevels
  <2>2. Max(DOMAIN levels) \in DOMAIN levels
    <3>1. \E x \in DOMAIN levels : \A y \in DOMAIN levels : x >= y
      BY <1>1, <2>1
    <3> QED BY <3>1 DEF Max
  <2>3. Min(DOMAIN levels) \in DOMAIN levels
    <3>1. \E x \in DOMAIN levels : \A y \in DOMAIN levels : x =< y
      BY <1>1, <2>1
    <3> QED BY <3>1 DEF Min
  <2> QED BY <1>1, <1>2, <1>4, <2>2, <2>3 DEF Highest, Lowest
<1> QED BY <1>3, <1>4

\* Changing one level of the exchange's book changes its map of levels the way
\* applyUpdate changes OrderBook's, and the other side's not at all.
LEMMA LevelsAfterChange ==
    ASSUME NEW depth \in Depth, NEW side \in Sides, NEW price \in Prices,
           NEW quantity \in Quantities
    PROVE  /\ DepthAfter(depth, side, price, quantity) \in Depth
           /\ LevelsOf(DepthAfter(depth, side, price, quantity), side)
                = WithLevel(LevelsOf(depth, side), price, quantity)
           /\ \A other \in Sides \ {side} :
                LevelsOf(DepthAfter(depth, side, price, quantity), other)
                  = LevelsOf(depth, other)
<1> DEFINE new == DepthAfter(depth, side, price, quantity)
<1>1. /\ new \in Depth
      /\ \A p \in Prices : new[side][p] = IF p = price THEN quantity ELSE depth[side][p]
      /\ \A other \in Sides \ {side} : new[other] = depth[other]
  BY DEF Depth, DepthAfter
<1> HIDE DEF new
<1>2. LevelsOf(new, side) = WithLevel(LevelsOf(depth, side), price, quantity)
  <2>1. CASE quantity = 0
    <3>1. {p \in Prices : new[side][p] # 0} = {p \in Prices : depth[side][p] # 0} \ {price}
      BY <1>1, <2>1
    <3> QED BY <1>1, <2>1, <3>1 DEF LevelsOf, WithLevel
  <2>2. CASE quantity # 0
    <3>1. {p \in Prices : new[side][p] # 0} = {p \in Prices : depth[side][p] # 0} \cup {price}
      BY <1>1, <2>2
    <3> QED BY <1>1, <2>2, <3>1 DEF LevelsOf, WithLevel
  <2> QED BY <2>1, <2>2
<1>3. \A other \in Sides \ {side} : LevelsOf(new, other) = LevelsOf(depth, other)
  BY <1>1 DEF LevelsOf
<1> QED BY <1>1, <1>2, <1>3 DEF new

LEMMA DepthType ==
    ASSUME TypeOK, NEW n \in 0..Len(changes)
    PROVE  DepthAt(n) \in Depth
<1>1. n + 1 \in 1..Len(depths)
  BY LenProperties DEF TypeOK
<1> QED BY <1>1, ElementOfSeq DEF TypeOK, DepthAt

\* The best levels of maps that show an exchange's book are the book's top.
LEMMA TopOfLevels ==
    ASSUME NEW depth \in Depth, NEW buys, NEW sells,
           buys = LevelsOf(depth, "Buy"), sells = LevelsOf(depth, "Sell")
    PROVE  /\ Highest(buys) = Top(depth).bestBid
           /\ VolumeAt(buys, Highest(buys)) = Top(depth).bestBidQuantity
           /\ Lowest(sells) = Top(depth).bestAsk
           /\ VolumeAt(sells, Lowest(sells)) = Top(depth).bestAskQuantity
<1> DEFINE B == {p \in Prices : depth["Buy"][p] # 0}
           A == {p \in Prices : depth["Sell"][p] # 0}
<1>1. /\ buys = [price \in B |-> depth["Buy"][price]]
      /\ sells = [price \in A |-> depth["Sell"][price]]
  BY DEF LevelsOf
<1>2. B \in SUBSET Prices /\ A \in SUBSET Prices
  OBVIOUS
<1>3. /\ Top(depth).bestBid = IF B = {} THEN 0 ELSE Max(B)
      /\ Top(depth).bestAsk = IF A = {} THEN 0 ELSE Min(A)
      /\ Top(depth).bestBidQuantity = IF B = {} THEN 0 ELSE depth["Buy"][Top(depth).bestBid]
      /\ Top(depth).bestAskQuantity = IF A = {} THEN 0 ELSE depth["Sell"][Top(depth).bestAsk]
  BY DEF Top
<1> HIDE DEF B, A
<1>4. DOMAIN buys = B /\ DOMAIN sells = A
  BY <1>1
<1>5. (buys = NoLevels <=> B = {}) /\ (sells = NoLevels <=> A = {})
  BY <1>1 DEF NoLevels
<1>6. 0 \notin B /\ 0 \notin A
  BY <1>2
<1>7. B # {} => Max(B) \in B
  BY <1>2 DEF Max
<1>8. A # {} => Min(A) \in A
  BY <1>2 DEF Min
<1>9. Highest(buys) = Top(depth).bestBid /\ Lowest(sells) = Top(depth).bestAsk
  BY <1>3, <1>4, <1>5 DEF Highest, Lowest
<1>10. VolumeAt(buys, Highest(buys)) = Top(depth).bestBidQuantity
  BY <1>1, <1>3, <1>4, <1>6, <1>7, <1>9 DEF VolumeAt
<1>11. VolumeAt(sells, Lowest(sells)) = Top(depth).bestAskQuantity
  BY <1>1, <1>3, <1>4, <1>6, <1>8, <1>9 DEF VolumeAt
<1> QED BY <1>9, <1>10, <1>11

-----------------------------------------------------------------------------
(* The steps.                                                              *)

\* The exchange's changes leave the books it had alone.
LEMMA OldBooksStay ==
    ASSUME TypeOK,
           NEW side \in Sides, NEW price \in Prices, NEW quantity \in Quantities,
           ExchangeChanges(side, price, quantity)
    PROVE  \A n \in 0..Len(changes) : DepthAt(n)' = DepthAt(n)
<1>1. /\ depths \in Seq(Depth) /\ Len(depths) = Len(changes) + 1 /\ Len(changes) \in Nat
      /\ DepthAfter(DepthAt(Len(changes)), side, price, quantity) \in Depth
  <2>1. depths \in Seq(Depth) /\ Len(depths) = Len(changes) + 1 /\ Len(changes) \in Nat
    BY LenProperties DEF TypeOK
  <2>2. DepthAt(Len(changes)) \in Depth
    BY <2>1, DepthType
  <2>3. DepthAfter(DepthAt(Len(changes)), side, price, quantity) \in Depth
    BY ONLY <2>2, side \in Sides, price \in Prices, quantity \in Quantities,
            LevelsAfterChange
  <2> QED BY <2>1, <2>3
<1>2. \A k \in 1..Len(depths) : depths'[k] = depths[k]
  BY <1>1, AppendProperties DEF ExchangeChanges
<1> QED BY <1>1, <1>2 DEF DepthAt

LEMMA ExchangeChangesStep ==
    ASSUME IInv,
           NEW side \in Sides, NEW price \in Prices, NEW quantity \in Quantities,
           ExchangeChanges(side, price, quantity)
    PROVE  IInv'
<1> DEFINE new == [ours |-> TRUE, sequence |-> Len(changes) + 1,
                   side |-> side, price |-> price, quantity |-> quantity]
           book == DepthAfter(DepthAt(Len(changes)), side, price, quantity)
<1>1. /\ changes \in Seq(BookUpdate) /\ depths \in Seq(Depth)
      /\ Len(depths) = Len(changes) + 1 /\ Len(changes) \in Nat
  BY LenProperties DEF IInv, TypeOK
<1>2. new \in BookUpdate
  BY <1>1 DEF BookUpdate
<1>3. book \in Depth
  BY <1>1, DepthType, LevelsAfterChange DEF IInv
<1>4. changes' = Append(changes, new) /\ depths' = Append(depths, book)
  BY DEF ExchangeChanges
<1>5. UNCHANGED <<bids, asks, sequenceNumber, valid, pending, event, published>>
  BY DEF ExchangeChanges, bookVars, eventVars
<1>6. new.ours /\ new.sequence = Len(changes) + 1 /\ new.side = side
      /\ new.price = price /\ new.quantity = quantity
  OBVIOUS
<1>7. book = DepthAfter(depths[Len(changes) + 1], side, price, quantity)
  BY DEF DepthAt
<1> HIDE DEF new, book
<1>8. /\ changes' \in Seq(BookUpdate) /\ Len(changes') = Len(changes) + 1
      /\ changes'[Len(changes) + 1] = new
      /\ \A n \in 1..Len(changes) : changes'[n] = changes[n]
  BY <1>1, <1>2, <1>4, AppendProperties
<1>9. /\ depths' \in Seq(Depth) /\ Len(depths') = Len(changes) + 2
      /\ depths'[Len(changes) + 2] = book
      /\ \A n \in 1..Len(changes) + 1 : depths'[n] = depths[n]
  BY <1>1, <1>3, <1>4, AppendProperties
<1>10. TypeOK'
  BY <1>1, <1>5, <1>8, <1>9 DEF IInv, TypeOK
<1>11. History'
  <2> SUFFICES ASSUME NEW n \in 1..Len(changes')
               PROVE  /\ changes'[n].ours /\ changes'[n].sequence = n
                      /\ depths'[n + 1] = DepthAfter(depths'[n], changes'[n].side,
                                              changes'[n].price, changes'[n].quantity)
    BY DEF History, DepthAfter
  <2>1. CASE n = Len(changes) + 1
    <3>1. n + 1 = Len(changes) + 2 /\ n \in 1..Len(changes) + 1
      BY <1>1, <2>1
    <3>2. changes'[n] = new /\ depths'[n + 1] = book /\ depths'[n] = depths[Len(changes) + 1]
      BY <1>8, <1>9, <2>1, <3>1
    <3> QED BY <1>6, <1>7, <2>1, <3>2
  <2>2. CASE n # Len(changes) + 1
    <3>1. n \in 1..Len(changes) /\ n \in 1..Len(changes) + 1 /\ n + 1 \in 1..Len(changes) + 1
      BY <1>1, <1>8, <2>2
    <3> QED BY <1>8, <1>9, <3>1 DEF IInv, History
  <2> QED BY <2>1, <2>2
<1>12. Feed'
  BY <1>1, <1>5, <1>8 DEF IInv, Feed
<1>13. \A n \in 0..Len(changes) : DepthAt(n)' = DepthAt(n)
  BY OldBooksStay DEF IInv
<1>14. BookMatches'
  <2>1. DepthAt(sequenceNumber)' = DepthAt(sequenceNumber)
    BY <1>5, <1>13 DEF IInv, TypeOK, DepthAt
  <2> QED BY <1>5, <2>1 DEF IInv, BookMatches, LevelsOf
<1>15. EventMatches'
  <2>1. DepthAt(event.sequence)' = DepthAt(event.sequence)
    BY <1>5, <1>13 DEF IInv, EventMatches, DepthAt
  <2> QED BY <1>1, <1>5, <1>8, <2>1 DEF IInv, EventMatches, EventIsExchangeTop, Top
<1> QED BY <1>10, <1>11, <1>12, <1>14, <1>15 DEF IInv

\* A message replaces the buffer and nothing else; what it holds for the
\* configured instrument are updates of the exchange.
LEMMA ReceiveMessageStep ==
    ASSUME IInv, ReceiveMessage
    PROVE  IInv'
<1>1. UNCHANGED <<bids, asks, sequenceNumber, valid, event, published, changes, depths>>
  BY DEF ReceiveMessage, OnMessage, bookVars, eventVars, exchangeVars
<1>2. changes \in Seq(BookUpdate) /\ Len(changes) \in Nat /\ DOMAIN changes = 1..Len(changes)
      /\ \A n \in 1..Len(changes) : changes[n] \in BookUpdate
  BY LenProperties, ElementOfSeq DEF IInv, TypeOK
<1>3. pending' \in Seq(BookUpdate) /\ Feed'
  <2>1. CASE \E updates \in Batches : OnMessage(updates)
    <3>1. PICK n \in 1..MaxBatch : pending' \in [1..n -> Range(changes)]
      BY <2>1 DEF Batches, OnMessage
    <3>2. n \in Nat
      BY <3>1
    <3>3. Range(changes) = {changes[k] : k \in 1..Len(changes)}
      BY <1>2 DEF Range
    <3>4. pending' \in [1..n -> BookUpdate]
      BY <1>2, <3>1, <3>3
    <3>5. pending' \in Seq(BookUpdate) /\ Len(pending') = n
      BY <3>2, <3>4, SeqDef, LenProperties
    <3> QED BY <1>1, <3>1, <3>3, <3>5 DEF Feed
  <2>2. CASE \E update \in Range(changes) : OnMessage(<<Foreign(update)>>)
    <3>1. PICK update \in Range(changes) : pending' = <<Foreign(update)>>
      BY <2>2 DEF OnMessage
    <3>2. update \in BookUpdate
      BY <1>2, <3>1 DEF Range
    <3>3. Foreign(update) \in BookUpdate /\ ~Foreign(update).ours
      BY <3>2 DEF Foreign, BookUpdate
    <3> QED BY <3>1, <3>3 DEF Feed
  <2> QED BY <2>1, <2>2 DEF ReceiveMessage
<1>4. TypeOK' /\ History'
  BY <1>1, <1>3 DEF IInv, TypeOK, History, DepthAfter
<1>5. BookMatches' /\ EventMatches'
  BY <1>1 DEF IInv, BookMatches, EventMatches, EventIsExchangeTop, DepthAt, LevelsOf, Top
<1> QED BY <1>3, <1>4, <1>5 DEF IInv

\* Whatever publishes a book that is the exchange's publishes its top.
LEMMA PublishStep ==
    ASSUME TypeOK, NEW n \in 0..Len(changes), UNCHANGED exchangeVars,
           PublishMarketEvent(n),
           bids' = LevelsOf(DepthAt(n), "Buy"), asks' = LevelsOf(DepthAt(n), "Sell")
    PROVE  /\ bids' \in Levels /\ asks' \in Levels
           /\ event' \in MarketEvent /\ published' \in Nat
           /\ EventMatches'
<1>1. DepthAt(n) \in Depth /\ Len(changes) \in Nat
  BY DepthType, LenProperties DEF TypeOK
<1>2. bids' \in Levels /\ asks' \in Levels
  BY <1>1, LevelsOfType DEF Sides
<1>3. BestBid' \in Nat /\ BestAsk' \in Nat
      /\ VolumeAt(bids', BestBid') \in Nat /\ VolumeAt(asks', BestAsk') \in Nat
  BY <1>2, BestType DEF BestBid, BestAsk, Highest, Lowest
<1>4. event' = [sequence |-> n, bestBid |-> BestBid',
                bestBidQuantity |-> VolumeAt(bids', BestBid'), bestAsk |-> BestAsk',
                bestAskQuantity |-> VolumeAt(asks', BestAsk')]
      /\ published' = published + 1
  BY DEF PublishMarketEvent
<1>5. /\ BestBid' = Top(DepthAt(n)).bestBid
      /\ VolumeAt(bids', BestBid') = Top(DepthAt(n)).bestBidQuantity
      /\ BestAsk' = Top(DepthAt(n)).bestAsk
      /\ VolumeAt(asks', BestAsk') = Top(DepthAt(n)).bestAskQuantity
  <2>1. BestBid' = Highest(bids') /\ BestAsk' = Lowest(asks')
    BY DEF BestBid, BestAsk, Highest, Lowest
  <2> QED BY <1>1, <2>1, TopOfLevels
<1>6. DepthAt(n)' = DepthAt(n) /\ Len(changes') = Len(changes)
  BY DEF exchangeVars, DepthAt
<1>7. event'.sequence = n
  BY <1>4
<1>8. event' \in MarketEvent /\ published' \in Nat
  BY <1>1, <1>3, <1>4 DEF TypeOK, MarketEvent
<1>9. EventMatches'
  BY <1>4, <1>5, <1>6, <1>7 DEF EventMatches, EventIsExchangeTop, DepthAt, Top, exchangeVars
<1> QED BY <1>2, <1>8, <1>9

\* A published quote is a price of the book, or 0 for a missing side.
LEMMA QuotesArePrices ==
    ASSUME bids' \in Levels, asks' \in Levels, NEW n, PublishMarketEvent(n)
    PROVE  event'.bestBid \in Prices \cup {0} /\ event'.bestAsk \in Prices \cup {0}
<1>1. event'.bestBid = BestBid' /\ event'.bestAsk = BestAsk'
  BY DEF PublishMarketEvent
<1>2. BestBid' = Highest(bids') /\ BestAsk' = Lowest(asks')
  BY DEF BestBid, BestAsk, Highest, Lowest
<1> QED BY <1>1, <1>2, BestType

LEMMA PublishedQuotes ==
    ASSUME TypeOK', published \in Nat, published' # published,
           HandleUpdate \/ \E n \in 0..MaxSequence : ReceiveSnapshot(n)
    PROVE  event'.bestBid \in Prices \cup {0} /\ event'.bestAsk \in Prices \cup {0}
<1>1. bids' \in Levels /\ asks' \in Levels
  BY DEF TypeOK
<1>2. \E n : PublishMarketEvent(n)
  <2>1. CASE HandleUpdate
    BY <2>1 DEF HandleUpdate, OnBookUpdate, eventVars
  <2>2. CASE \E n \in 0..MaxSequence : ReceiveSnapshot(n)
    BY <2>2 DEF ReceiveSnapshot, ApplySnapshot
  <2> QED BY <2>1, <2>2
<1> QED BY <1>1, <1>2, QuotesArePrices

LEMMA HandleUpdateStep ==
    ASSUME IInv, HandleUpdate
    PROVE  IInv'
<1>0. PICK update : update = Head(pending)
  OBVIOUS
<1>1. /\ pending \in Seq(BookUpdate) /\ pending # <<>>
      /\ changes \in Seq(BookUpdate) /\ Len(changes) \in Nat
      /\ pending' = Tail(pending) /\ UNCHANGED <<changes, depths>>
      /\ OnBookUpdate(update)
  BY <1>0, LenProperties DEF IInv, TypeOK, HandleUpdate, exchangeVars
<1>2. /\ update \in BookUpdate /\ update = pending[1] /\ 1 \in 1..Len(pending)
      /\ pending' \in Seq(BookUpdate) /\ Len(pending') = Len(pending) - 1
      /\ Len(pending) \in Nat
      /\ \A k \in 1..Len(pending') : pending'[k] = pending[k + 1]
  BY <1>0, <1>1, HeadTailProperties, LenProperties, EmptySeq
<1>3. Feed'
  <2> SUFFICES ASSUME NEW k \in 1..Len(pending'), pending'[k].ours
               PROVE  \E n \in 1..Len(changes') : pending'[k] = changes'[n]
    BY DEF Feed
  <2>1. k + 1 \in 1..Len(pending) /\ pending'[k] = pending[k + 1]
    BY <1>2
  <2> QED BY <1>1, <2>1 DEF IInv, Feed
<1>4. update.ours => \E n \in 1..Len(changes) : update = changes[n]
  BY <1>2 DEF IInv, Feed
<1>5. History'
  BY <1>1 DEF IInv, History, DepthAfter
<1>6. DepthAt(sequenceNumber)' = depths[sequenceNumber' + 1]
  BY <1>1 DEF DepthAt
<1>7. CASE ~update.ours \/ ~valid
  <2>1. UNCHANGED <<bids, asks, sequenceNumber, valid, event, published>>
    BY <1>1, <1>7 DEF OnBookUpdate, bookVars, eventVars
  <2>2. TypeOK'
    BY <1>1, <1>2, <2>1 DEF IInv, TypeOK
  <2>3. BookMatches' /\ EventMatches'
    BY <1>1, <2>1 DEF IInv, BookMatches, EventMatches, EventIsExchangeTop, DepthAt, LevelsOf, Top
  <2> QED BY <1>3, <1>5, <2>2, <2>3 DEF IInv
<1>8. CASE update.ours /\ valid /\ ~InSequence(update)
  <2>1. UNCHANGED <<bids, asks, sequenceNumber, event, published>> /\ valid' = FALSE
    BY <1>1, <1>8 DEF OnBookUpdate, Invalidate, eventVars
  <2>2. TypeOK'
    BY <1>1, <1>2, <2>1 DEF IInv, TypeOK
  <2>3. BookMatches' /\ EventMatches'
    BY <1>1, <2>1 DEF IInv, BookMatches, EventMatches, EventIsExchangeTop, DepthAt, Top
  <2> QED BY <1>3, <1>5, <2>2, <2>3 DEF IInv
<1>9. CASE update.ours /\ valid /\ InSequence(update)
  <2>1. SetLevel(update) /\ PublishMarketEvent(update.sequence)
    BY <1>1, <1>9 DEF OnBookUpdate
  <2>2. PICK n \in 1..Len(changes) : update = changes[n]
    BY <1>4, <1>9
  <2>3. /\ update.sequence = n /\ n = sequenceNumber + 1 /\ sequenceNumber \in 0..Len(changes)
        /\ n \in 0..Len(changes) /\ n \in Nat
        /\ depths[n + 1] = DepthAfter(depths[n], update.side, update.price, update.quantity)
    BY <1>1, <1>9, <2>2 DEF IInv, History, InSequence, TypeOK
  <2>4. DepthAt(sequenceNumber) = depths[n] /\ DepthAt(n) = depths[n + 1]
    BY <2>3 DEF DepthAt
  <2>5. depths[n] \in Depth
    BY <2>3, <2>4, DepthType DEF IInv
  <2>6. update.side \in Sides /\ update.price \in Prices /\ update.quantity \in Quantities
    BY <1>2 DEF BookUpdate
  <2>7. bids = LevelsOf(depths[n], "Buy") /\ asks = LevelsOf(depths[n], "Sell")
    BY <1>9, <2>4 DEF IInv, BookMatches
  <2>8. /\ LevelsOf(DepthAt(n), update.side)
              = WithLevel(LevelsOf(depths[n], update.side), update.price, update.quantity)
         /\ \A other \in Sides \ {update.side} :
              LevelsOf(DepthAt(n), other) = LevelsOf(depths[n], other)
    <3>1. \A d \in Depth, side \in Sides, price \in Prices, quantity \in Quantities :
             /\ LevelsOf(DepthAfter(d, side, price, quantity), side)
                  = WithLevel(LevelsOf(d, side), price, quantity)
             /\ \A other \in Sides \ {side} :
                  LevelsOf(DepthAfter(d, side, price, quantity), other) = LevelsOf(d, other)
      BY LevelsAfterChange
    <3>2. DepthAt(n) = DepthAfter(depths[n], update.side, update.price, update.quantity)
      BY <2>3, <2>4
    <3>3. PICK side \in Sides, price \in Prices, quantity \in Quantities :
             side = update.side /\ price = update.price /\ quantity = update.quantity
      BY <2>6
    <3>4. PICK d \in Depth : d = depths[n]
      BY <2>5
    <3>5. DepthAt(n) = DepthAfter(d, side, price, quantity)
      BY <3>2, <3>3, <3>4
    <3>6. /\ LevelsOf(DepthAfter(d, side, price, quantity), side)
               = WithLevel(LevelsOf(d, side), price, quantity)
          /\ \A other \in Sides \ {side} :
               LevelsOf(DepthAfter(d, side, price, quantity), other) = LevelsOf(d, other)
      BY <3>1
    <3> QED BY <3>3, <3>4, <3>5, <3>6
  <2>9. bids' = LevelsOf(DepthAt(n), "Buy") /\ asks' = LevelsOf(DepthAt(n), "Sell")
    <3>1. CASE update.side = "Buy"
      <4>1. bids' = WithLevel(bids, update.price, update.quantity) /\ asks' = asks
        BY <2>1, <3>1 DEF SetLevel
      <4>2. "Sell" \in Sides \ {update.side}
        BY <3>1 DEF Sides
      <4> QED BY <2>7, <2>8, <3>1, <4>1, <4>2
    <3>2. CASE update.side = "Sell"
      <4>1. asks' = WithLevel(asks, update.price, update.quantity) /\ bids' = bids
        BY <2>1, <3>2 DEF SetLevel
      <4>2. "Buy" \in Sides \ {update.side}
        BY <3>2 DEF Sides
      <4> QED BY <2>7, <2>8, <3>2, <4>1, <4>2
    <3> QED BY <2>6, <3>1, <3>2 DEF Sides
  <2>10. sequenceNumber' = n /\ valid' = valid
    BY <2>1, <2>3 DEF SetLevel
  <2>11. /\ bids' \in Levels /\ asks' \in Levels
         /\ event' \in MarketEvent /\ published' \in Nat
         /\ EventMatches'
    BY <1>1, <2>1, <2>3, <2>9, PublishStep DEF IInv, exchangeVars
  <2>12. TypeOK'
    BY <1>1, <1>2, <2>3, <2>10, <2>11 DEF IInv, TypeOK
  <2>13. BookMatches'
    BY <1>1, <2>9, <2>10 DEF BookMatches, DepthAt, LevelsOf
  <2> QED BY <1>3, <1>5, <2>11, <2>12, <2>13 DEF IInv
<1> QED BY <1>7, <1>8, <1>9

LEMMA ReceiveSnapshotStep ==
    ASSUME IInv, NEW n \in 0..MaxSequence, ReceiveSnapshot(n)
    PROVE  IInv'
<1>1. /\ n \in 0..Len(changes)
      /\ bids' = LevelsOf(DepthAt(n), "Buy") /\ asks' = LevelsOf(DepthAt(n), "Sell")
      /\ sequenceNumber' = n /\ valid' = TRUE
      /\ PublishMarketEvent(n) /\ UNCHANGED exchangeVars
      /\ UNCHANGED <<pending, changes, depths>>
  BY DEF ReceiveSnapshot, ApplySnapshot, Replace, exchangeVars
<1>2. /\ bids' \in Levels /\ asks' \in Levels
      /\ event' \in MarketEvent /\ published' \in Nat
      /\ EventMatches'
  BY <1>1, PublishStep DEF IInv
<1>3. TypeOK'
  BY <1>1, <1>2 DEF IInv, TypeOK
<1>4. History' /\ Feed'
  BY <1>1 DEF IInv, History, Feed, DepthAfter
<1>5. BookMatches'
  BY <1>1 DEF BookMatches, DepthAt, LevelsOf
<1> QED BY <1>2, <1>3, <1>4, <1>5 DEF IInv

-----------------------------------------------------------------------------
(* The theorems.                                                           *)

LEMMA InitIInv == Init => IInv
<1> SUFFICES ASSUME Init PROVE IInv
  OBVIOUS
<1>1. NoLevels \in Levels
  <2>1. NoLevels \in [{} -> Quantities] /\ {} \in SUBSET Prices
    BY DEF NoLevels
  <2> QED BY <2>1 DEF Levels
<1>2. EmptyDepth \in Depth
  BY DEF EmptyDepth, Depth, Sides
<1>3. NoEvent \in MarketEvent /\ NoEvent.sequence = 0
  BY DEF NoEvent, MarketEvent
<1>4. /\ pending = <<>> /\ changes = <<>> /\ depths = <<EmptyDepth>>
      /\ published = 0 /\ valid = FALSE /\ sequenceNumber = 0
      /\ bids = NoLevels /\ asks = NoLevels /\ event = NoEvent
  BY DEF Init
<1>5. Len(changes) = 0 /\ Len(pending) = 0 /\ pending \in Seq(BookUpdate)
      /\ changes \in Seq(BookUpdate)
  BY <1>4, EmptySeq
<1>6. depths \in Seq(Depth) /\ Len(depths) = 1
  BY <1>2, <1>4
<1>7. TypeOK
  <2>1. Len(depths) = Len(changes) + 1 /\ sequenceNumber \in 0..Len(changes)
    BY <1>4, <1>5, <1>6
  <2>2. bids \in Levels /\ asks \in Levels /\ valid \in BOOLEAN
        /\ event \in MarketEvent /\ published \in Nat
    BY <1>1, <1>3, <1>4
  <2> QED BY <1>5, <1>6, <2>1, <2>2 DEF TypeOK
<1>8. History /\ Feed /\ BookMatches
  BY <1>4, <1>5 DEF History, Feed, BookMatches
<1>9. EventMatches
  BY <1>3, <1>4, <1>5 DEF EventMatches, EventIsExchangeTop
<1> QED BY <1>7, <1>8, <1>9 DEF IInv

LEMMA StepIInv == IInv /\ [Next]_vars => IInv'
<1> SUFFICES ASSUME IInv, [Next]_vars PROVE IInv'
  OBVIOUS
<1>1. ASSUME NEW side \in Sides, NEW price \in Prices, NEW quantity \in Quantities,
             ExchangeChanges(side, price, quantity)
      PROVE  IInv'
  BY <1>1, ExchangeChangesStep
<1>2. CASE ReceiveMessage
  BY <1>2, ReceiveMessageStep
<1>3. CASE HandleUpdate
  BY <1>3, HandleUpdateStep
<1>4. ASSUME NEW n \in 0..MaxSequence, ReceiveSnapshot(n)
      PROVE  IInv'
  BY <1>4, ReceiveSnapshotStep
<1>5. CASE UNCHANGED vars
  <2>1. UNCHANGED <<bids, asks, sequenceNumber, valid, pending, event, published, changes, depths>>
    BY <1>5 DEF vars, bookVars, eventVars, exchangeVars
  <2>2. TypeOK' /\ History' /\ Feed'
    BY <2>1 DEF IInv, TypeOK, History, Feed, DepthAfter
  <2>3. BookMatches' /\ EventMatches'
    BY <2>1 DEF IInv, BookMatches, EventMatches, EventIsExchangeTop, DepthAt, LevelsOf, Top
  <2> QED BY <2>2, <2>3 DEF IInv
<1> QED BY <1>1, <1>2, <1>3, <1>4, <1>5 DEF Next

LEMMA Inductive == Spec => []IInv
BY InitIInv, StepIInv, PTL DEF Spec

\* Every variable keeps its type, and OrderBook's sequence is always one the
\* exchange has reached.
THEOREM TypeCorrect == Spec => []TypeOK
<1>1. IInv => TypeOK
  BY DEF IInv
<1> QED BY <1>1, Inductive, PTL

\* applyUpdate's test of the sequence is enough: whatever the feed loses,
\* repeats or reorders, a book that is valid is the exchange's.
THEOREM ValidBookCorrect == Spec => []ValidBookIsExchangeBook
<1>1. IInv => ValidBookIsExchangeBook
  BY DEF IInv, BookMatches, ValidBookIsExchangeBook, DepthOfBook, Shown
<1> QED BY <1>1, Inductive, PTL

\* Every event publishMarketEvent sends quotes a top of the book that existed.
THEOREM EventsCorrect == Spec => []EventIsExchangeTop
<1>1. IInv => EventIsExchangeTop
  BY DEF IInv, EventMatches
<1> QED BY <1>1, Inductive, PTL

-----------------------------------------------------------------------------
(* MarketData implements BookReplica.                                      *)

ViewOf(levels) == [side \in Sides |-> [price \in Prices |-> VolumeAt(levels[side], price)]]

NoView == [side \in {} |-> 0]

\* Volumes asked of the levels of a book give the book back.
LEMMA ViewOfLevels ==
    ASSUME NEW depth \in Depth, NEW levels,
           levels["Buy"] = LevelsOf(depth, "Buy"), levels["Sell"] = LevelsOf(depth, "Sell")
    PROVE  ViewOf(levels) = depth
<1>1. ASSUME NEW side \in Sides
      PROVE  [price \in Prices |-> VolumeAt(levels[side], price)] = depth[side]
  <2>1. levels[side] = LevelsOf(depth, side)
    BY DEF Sides
  <2>2. depth[side] \in [Prices -> Quantities]
    BY DEF Depth
  <2>3. \A price \in Prices : VolumeAt(LevelsOf(depth, side), price) = depth[side][price]
    BY DEF VolumeAt, LevelsOf
  <2> QED BY <2>1, <2>2, <2>3
<1>2. depth \in [Sides -> [Prices -> Quantities]]
  BY DEF Depth
<1> QED BY <1>1, <1>2 DEF ViewOf

VersionShown == IF valid THEN sequenceNumber + 1 ELSE 0

ViewShown == IF valid THEN ViewOf(DepthOfBook) ELSE NoView

ShowsVersion ==
    /\ VersionShown \in 1..Len(depths)
    /\ ViewShown = depths[VersionShown]

LEMMA ShownIsAVersion == IInv /\ valid => ShowsVersion
<1> SUFFICES ASSUME IInv, valid PROVE ShowsVersion
  OBVIOUS
<1>1. sequenceNumber \in 0..Len(changes) /\ Len(changes) \in Nat
      /\ Len(depths) = Len(changes) + 1
  BY LenProperties DEF IInv, TypeOK
<1>2. VersionShown = sequenceNumber + 1 /\ VersionShown \in 1..Len(depths)
  BY <1>1 DEF VersionShown
<1>3. DepthAt(sequenceNumber) \in Depth
  BY <1>1, DepthType DEF IInv
<1>4. /\ DepthOfBook["Buy"] = LevelsOf(DepthAt(sequenceNumber), "Buy")
      /\ DepthOfBook["Sell"] = LevelsOf(DepthAt(sequenceNumber), "Sell")
  BY DEF IInv, BookMatches, DepthOfBook
<1>5. ViewOf(DepthOfBook) = DepthAt(sequenceNumber)
  BY <1>3, <1>4, ViewOfLevels
<1> QED BY <1>2, <1>5 DEF ShowsVersion, ViewShown, DepthAt

\* OrderBook driven by BookBuilder refines the replica: applyUpdate follows,
\* applySnapshot resets, a gap drops the book, and nothing else shows.
THEOREM ImplementsReplicaSpec == Spec => ImplementsReplica
<1>1. Init => Replica!Init
  <2> SUFFICES ASSUME Init PROVE Replica!Init
    OBVIOUS
  <2>1. EmptyDepth \in Depth
    BY DEF EmptyDepth, Depth, Sides
  <2>2. depths = <<EmptyDepth>> /\ valid = FALSE
    BY DEF Init
  <2>3. depths \in Seq(Depth) /\ Len(depths) = 1
    BY <2>1, <2>2
  <2> QED BY <2>2, <2>3 DEF Replica!Init
<1>2. IInv /\ IInv' /\ [Next]_vars => [Replica!Next]_Replica!vars
  <2> SUFFICES ASSUME IInv, IInv', [Next]_vars
               PROVE  [Replica!Next]_Replica!vars
    OBVIOUS
  <2>1. Len(changes) \in Nat /\ Len(depths) = Len(changes) + 1 /\ depths \in Seq(Depth)
        /\ DOMAIN depths = 1..Len(depths) /\ sequenceNumber \in 0..Len(changes)
    BY LenProperties DEF IInv, TypeOK
  <2>2. ASSUME NEW side \in Sides, NEW price \in Prices, NEW quantity \in Quantities,
               ExchangeChanges(side, price, quantity)
        PROVE  Replica!ExchangeMoves
    <3>1. DepthAfter(DepthAt(Len(changes)), side, price, quantity) \in Depth
      BY <2>1, DepthType, LevelsAfterChange DEF IInv
    <3>2. /\ \E book \in Depth : depths' = Append(depths, book)
          /\ UNCHANGED <<bids, asks, sequenceNumber, valid>>
      BY <2>2, <3>1 DEF ExchangeChanges, bookVars
    <3> QED BY <3>2 DEF Replica!ExchangeMoves, DepthOfBook
  <2>3. ASSUME UNCHANGED <<bids, asks, sequenceNumber, valid, depths>>
        PROVE  UNCHANGED Replica!vars
    BY <2>3 DEF Replica!vars, DepthOfBook
  <2>4. ASSUME valid', UNCHANGED depths
        PROVE  Replica!Show(sequenceNumber' + 1)
    <3>1. ShowsVersion'
      BY <2>4, ShownIsAVersion, PTL
    <3>2. VersionShown' = sequenceNumber' + 1
      BY <2>4 DEF VersionShown
    <3> QED BY <2>1, <2>4, <3>1, <3>2 DEF ShowsVersion, Replica!Show, ViewShown, ViewOf
  <2>5. CASE ReceiveMessage
    BY <2>3, <2>5 DEF ReceiveMessage, OnMessage, bookVars, exchangeVars
  <2>6. CASE HandleUpdate
    <3>1. UNCHANGED depths /\ OnBookUpdate(Head(pending))
      BY <2>6 DEF HandleUpdate, exchangeVars
    <3>2. CASE UNCHANGED bookVars
      BY <2>3, <3>1, <3>2 DEF bookVars
    <3>3. CASE Invalidate
      <4>1. Replica!Drop
        BY <3>1, <3>3 DEF Invalidate, Replica!Drop
      <4> QED BY <4>1 DEF Replica!Next
    <3>4. CASE valid /\ InSequence(Head(pending)) /\ SetLevel(Head(pending))
      <4>1. valid' /\ sequenceNumber' = sequenceNumber + 1
        BY <3>4 DEF InSequence, SetLevel
      <4>2. Replica!Show(sequenceNumber' + 1)
        BY <2>4, <3>1, <4>1
      <4>3. Replica!Follow
        BY <2>1, <3>4, <4>1, <4>2 DEF Replica!Follow
      <4> QED BY <4>3 DEF Replica!Next
    <3> QED BY <3>1, <3>2, <3>3, <3>4 DEF OnBookUpdate
  <2>7. ASSUME NEW n \in 0..MaxSequence, ReceiveSnapshot(n)
        PROVE  Replica!Reset
    <3>1. valid' /\ sequenceNumber' = n /\ n \in 0..Len(changes) /\ UNCHANGED depths
      BY <2>7 DEF ReceiveSnapshot, ApplySnapshot, Replace, exchangeVars
    <3>2. Replica!Show(n + 1)
      BY <2>4, <3>1
    <3>3. n + 1 \in DOMAIN depths
      BY <2>1, <3>1
    <3> QED BY <3>2, <3>3 DEF Replica!Reset
  <2>8. CASE UNCHANGED vars
    BY <2>3, <2>8 DEF vars, bookVars, exchangeVars
  <2> QED BY <2>2, <2>5, <2>6, <2>7, <2>8 DEF Next, Replica!Next
<1> QED BY <1>1, <1>2, Inductive, PTL DEF Spec, ImplementsReplica, Replica!Spec

-----------------------------------------------------------------------------
(* What only a snapshot does.                                              *)

\* The book is at the sequence of the last event for as long as it is valid.
EventIsCurrent == valid => event.sequence = sequenceNumber

LEMMA EventIsCurrentStep ==
    ASSUME EventIsCurrent, [Next]_vars
    PROVE  EventIsCurrent'
<1>1. ASSUME NEW update, OnBookUpdate(update) PROVE EventIsCurrent'
  <2>1. CASE UNCHANGED <<bookVars, eventVars>>
    BY <2>1 DEF EventIsCurrent, bookVars, eventVars
  <2>2. CASE Invalidate
    BY <2>2 DEF EventIsCurrent, Invalidate
  <2>3. CASE SetLevel(update) /\ PublishMarketEvent(update.sequence)
    BY <2>3 DEF EventIsCurrent, SetLevel, PublishMarketEvent
  <2> QED BY <1>1, <2>1, <2>2, <2>3 DEF OnBookUpdate
<1>2. ASSUME NEW n \in 0..MaxSequence, ReceiveSnapshot(n) PROVE EventIsCurrent'
  BY <1>2 DEF ReceiveSnapshot, ApplySnapshot, Replace, PublishMarketEvent, EventIsCurrent
<1>3. ASSUME UNCHANGED <<bookVars, eventVars>> PROVE EventIsCurrent'
  BY <1>3 DEF EventIsCurrent, bookVars, eventVars
<1> QED BY <1>1, <1>2, <1>3
        DEF Next, HandleUpdate, ReceiveMessage, OnMessage, ExchangeChanges, vars

\* onBookUpdate publishes the sequence after the last event's, or nothing, and
\* never makes a book valid: what gets past a gap is a snapshot.
THEOREM SnapshotsOnlyJump == Spec => OnlySnapshotsJump
<1> DEFINE Jumps ==
        /\ published' # published /\ event'.sequence # event.sequence + 1
              => \E n \in 0..Len(changes) : ReceiveSnapshot(n)
        /\ valid' /\ ~valid => \E n \in 0..Len(changes) : ReceiveSnapshot(n)
<1>1. Init => EventIsCurrent
  BY DEF Init, EventIsCurrent
<1>2. EventIsCurrent /\ [Next]_vars => EventIsCurrent'
  BY EventIsCurrentStep
<1>3. EventIsCurrent /\ [Next]_vars => Jumps
  <2> SUFFICES ASSUME EventIsCurrent, [Next]_vars PROVE Jumps
    OBVIOUS
  <2>1. CASE HandleUpdate
    BY <2>1 DEF HandleUpdate, OnBookUpdate, SetLevel, Invalidate, InSequence,
                PublishMarketEvent, EventIsCurrent, bookVars, eventVars
  <2>2. ASSUME NEW n \in 0..MaxSequence, ReceiveSnapshot(n) PROVE Jumps
    <3>1. n \in 0..Len(changes)
      BY <2>2 DEF ReceiveSnapshot
    <3> QED BY <2>2, <3>1
  <2>3. ASSUME UNCHANGED <<bookVars, eventVars>> PROVE Jumps
    BY <2>3 DEF bookVars, eventVars
  <2> QED BY <2>1, <2>2, <2>3 DEF Next, ReceiveMessage, OnMessage, ExchangeChanges, vars
<1> QED BY <1>1, <1>2, <1>3, PTL DEF Spec, OnlySnapshotsJump

=============================================================================
