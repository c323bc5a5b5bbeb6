----------------------------- MODULE MessageFifo -----------------------------
(***************************************************************************)
(* What a bounded queue between one producer and one consumer promises:    *)
(* messages are received in the order they were sent, each of them once    *)
(* and whole, and at most Bound of them are on their way.                  *)
(***************************************************************************)
EXTENDS Naturals, Sequences

CONSTANTS Payloads, Bound

VARIABLES queue, received

vars == <<queue, received>>

Init == queue = <<>> /\ received = <<>>

Send(payload) ==
    /\ Len(queue) < Bound
    /\ queue' = Append(queue, payload)
    /\ UNCHANGED received

Receive ==
    /\ queue # <<>>
    /\ queue' = Tail(queue)
    /\ received' = Append(received, Head(queue))

Next == Receive \/ \E payload \in Payloads : Send(payload)

Spec == Init /\ [][Next]_vars

=============================================================================
