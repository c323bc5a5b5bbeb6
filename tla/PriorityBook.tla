---------------------------- MODULE PriorityBook ----------------------------
(***************************************************************************)
(* What an order matching engine promises: one queue of resting orders in  *)
(* the order they came, from which an incoming order takes, one trade at a *)
(* time, the order it must trade with first, and in which what is left of  *)
(* it comes last.  MatchingEngine implements it with two maps of price     *)
(* levels and a map of ids.                                                *)
(***************************************************************************)
EXTENDS Integers, Sequences

CONSTANTS Order, None, QuantityModulus

VARIABLES bestFirst,  \* whether the best price trades first, or the worst
          queue,      \* resting orders, the oldest first
          incoming,   \* the order being matched, or None
          trade       \* the last trade

vars == <<bestFirst, queue, incoming, trade>>

Matches(order, other) ==
    /\ order.side # other.side
    /\ IF order.side = "SELL" THEN other.price >= order.price
                              ELSE other.price <= order.price

\* queue[i] trades with the order before any other does: price, then time.
First(order, i) ==
    /\ i \in DOMAIN queue
    /\ Matches(order, queue[i])
    /\ \A j \in DOMAIN queue :
           /\ Matches(order, queue[j])
           /\ queue[j].price = queue[i].price
           => i <= j
    /\ \A j \in DOMAIN queue : Matches(order, queue[j]) =>
           IF (order.side = "SELL") = bestFirst
           THEN queue[i].price >= queue[j].price
           ELSE queue[i].price <= queue[j].price

Known(id) == \E i \in DOMAIN queue : queue[i].id = id

WithoutAt(i) == SubSeq(queue, 1, i - 1) \o SubSeq(queue, i + 1, Len(queue))

Init ==
    /\ bestFirst \in BOOLEAN
    /\ queue = <<>>
    /\ incoming = None
    /\ trade = None

Submit ==
    /\ incoming = None
    /\ incoming' \in Order
    /\ UNCHANGED <<bestFirst, queue, trade>>

Withdraw ==
    /\ incoming = None
    /\ \E i \in DOMAIN queue : queue' = WithoutAt(i)
    /\ UNCHANGED <<bestFirst, incoming, trade>>

\* A new quantity keeps the place in the queue.
Resize ==
    /\ incoming = None
    /\ \E i \in DOMAIN queue, order \in Order :
           /\ order = [queue[i] EXCEPT !.quantity = order.quantity]
           /\ queue' = [queue EXCEPT ![i] = order]
    /\ UNCHANGED <<bestFirst, incoming, trade>>

\* A new price gives it up.
Replace ==
    /\ incoming = None
    /\ \E i \in DOMAIN queue, order \in Order :
           /\ order.id = queue[i].id /\ order.side = queue[i].side
           /\ order.price # queue[i].price
           /\ queue' = WithoutAt(i)
           /\ incoming' = order
    /\ UNCHANGED <<bestFirst, trade>>

\* Both orders lose what is traded; the resting one stays unless it is filled.
TradeWith(i) ==
    LET resting == queue[i]
        traded == IF resting.quantity < incoming.quantity
                  THEN resting.quantity ELSE incoming.quantity
        buyer == IF incoming.side = "BUY" THEN incoming ELSE resting
        seller == IF incoming.side = "BUY" THEN resting ELSE incoming
    IN /\ incoming' = [incoming EXCEPT !.quantity = @ - traded]
       /\ queue' = IF traded = resting.quantity THEN WithoutAt(i)
                   ELSE [queue EXCEPT ![i].quantity = @ - traded]
       /\ trade' = [buyOrderInfo |-> [id |-> buyer.id, price |-> buyer.price],
                    sellOrderInfo |-> [id |-> seller.id, price |-> seller.price],
                    quantity |-> traded % QuantityModulus]

Trade ==
    /\ incoming # None
    /\ \E i \in DOMAIN queue : First(incoming, i) /\ TradeWith(i)
    /\ UNCHANGED bestFirst

\* What is left rests, when nothing is left that it could trade with.
Rest ==
    /\ incoming # None
    /\ \/ incoming.quantity = 0
       \/ \A i \in DOMAIN queue : ~Matches(incoming, queue[i])
    /\ queue' = IF incoming.quantity = 0 \/ Known(incoming.id) THEN queue
                ELSE Append(queue, incoming)
    /\ incoming' = None
    /\ UNCHANGED <<bestFirst, trade>>

Next == Submit \/ Withdraw \/ Resize \/ Replace \/ Trade \/ Rest

Safety == Init /\ [][Next]_vars

Spec == Safety /\ WF_vars(Trade \/ Rest)

=============================================================================
