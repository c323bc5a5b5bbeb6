----------------------------- MODULE BookReplica -----------------------------
(***************************************************************************)
(* What an order book built from a feed promises, with nothing about how:  *)
(* the exchange's book goes through numbered versions, and the replica     *)
(* shows either nothing or exactly one of them.  It may follow to the next *)
(* version, be set to any version by a snapshot, or be dropped.            *)
(***************************************************************************)
EXTENDS Naturals, Sequences

CONSTANTS Books, NoBook

VARIABLES versions,  \* the exchange's books so far, oldest first
          version,   \* index of the version the replica shows, 0 when none
          view       \* the book the replica shows, NoBook when none

vars == <<versions, version, view>>

Init ==
    /\ versions \in Seq(Books)
    /\ Len(versions) = 1
    /\ version = 0
    /\ view = NoBook

ExchangeMoves ==
    /\ \E book \in Books : versions' = Append(versions, book)
    /\ UNCHANGED <<version, view>>

Show(n) ==
    /\ n \in DOMAIN versions
    /\ version' = n
    /\ view' = versions[n]
    /\ UNCHANGED versions

Follow == version # 0 /\ Show(version + 1)

Reset == \E n \in DOMAIN versions : Show(n)

Drop ==
    /\ version' = 0
    /\ view' = NoBook
    /\ UNCHANGED versions

Next == ExchangeMoves \/ Follow \/ Reset \/ Drop

Spec == Init /\ [][Next]_vars

=============================================================================
