----------------------------- MODULE LadderQueues -----------------------------
(***************************************************************************)
(* What a price ladder promises of its orders: at every price a queue by   *)
(* time of arrival.  An order joins at the end of one queue, leaves from   *)
(* wherever it stands, and keeps its place when its volume changes.        *)
(***************************************************************************)
EXTENDS Integers, Sequences, SequencesExt

CONSTANTS Prices, Orders, Sides, Volumes

VARIABLE queues

Init == queues = [price \in Prices |-> <<>>]

Join(price, order, side, volume) ==
    /\ \A p \in Prices : \A i \in DOMAIN queues[p] : queues[p][i].order # order
    /\ queues' = [queues EXCEPT ![price] =
                     Append(@, [order |-> order, side |-> side, volume |-> volume])]

Leave(price, i) == queues' = [queues EXCEPT ![price] = RemoveAt(@, i)]

Resize(price, i, volume) == queues' = [queues EXCEPT ![price][i].volume = volume]

Next ==
    \E price \in Prices :
        \/ \E order \in Orders, side \in Sides, volume \in Volumes :
               Join(price, order, side, volume)
        \/ \E i \in DOMAIN queues[price] :
               Leave(price, i) \/ \E volume \in Volumes : Resize(price, i, volume)

Spec == Init /\ [][Next]_queues

=============================================================================
