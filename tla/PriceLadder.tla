----------------------------- MODULE PriceLadder -----------------------------
(***************************************************************************)
(* The price ladder of Collection/PriceLevels: a level for every price of  *)
(* a fixed range, each with the orders at that price on a doubly linked    *)
(* list that runs through the orders themselves, and an index by id.       *)
(*                                                                         *)
(* Storage_1 and Storage_2 differ in the queries only: Storage_2 tells the *)
(* sides of a level apart and can be asked for any depth.                  *)
(***************************************************************************)
EXTENDS Integers, Sequences, FiniteSets, Functions

CONSTANTS Storages,          \* the ladders to run
          Memory,            \* where orders can be; every new order is at one
          Null,              \* nullptr
          OrderIds,
          MinPrice, MaxPrice,
          Volumes,
          VolumeModulus      \* volumes wrap here; 2^64 in the code

Sides == {"Buy", "Sell"}

PriceTicks == MinPrice..MaxPrice

PriceLevelStorage_1 == [sides |-> FALSE, depths |-> {0}]
PriceLevelStorage_2 == [sides |-> TRUE, depths |-> 0..Cardinality(PriceTicks)]

ASSUME PriceLadderAssumption ==
    /\ Storages \subseteq {PriceLevelStorage_1, PriceLevelStorage_2}
    /\ IsFiniteSet(Memory)
    /\ Null \notin Memory \cup PriceTicks
    /\ MinPrice \in Nat \ {0} /\ MaxPrice \in Nat /\ MinPrice <= MaxPrice
    /\ VolumeModulus \in Nat \ {0}
    /\ Volumes \subseteq 0..VolumeModulus - 1

VARIABLES storage,     \* which ladder
          orders,      \* the orders, links included, by where they are
          levels,      \* head, tail and volume of every level
          orderIndex,  \* where the order of an id is
          doubled      \* external: whether an id was ever used by two orders

ladderVars == <<storage, orders, levels, orderIndex, doubled>>

\* The order at a place that is free: whoever takes it writes every field.
Free == [orderId |-> Null, side |-> Null, volume |-> 0,
         prev |-> Null, next |-> Null, level |-> Null]

Resting == {order \in Memory : orders[order].level # Null}

ExistingIds == {orders[order].orderId : order \in Resting}

-----------------------------------------------------------------------------
(* PriceLadder::addOrder with PriceLevel::addOrder.                        *)

\* A slip: the newest order goes to the front.
LinkFirst(order, id, side, price, volume) ==
    LET head == levels[price].head IN
    /\ orders' = [o \in Memory |->
           IF o = order THEN [orderId |-> id, side |-> side, volume |-> volume,
                              prev |-> Null, next |-> head, level |-> price]
           ELSE IF o = head THEN [orders[o] EXCEPT !.prev = order]
           ELSE orders[o]]
    /\ levels' = [levels EXCEPT ![price] =
           [head |-> order,
            tail |-> IF head = Null THEN order ELSE @.tail,
            totalVolume |-> (@.totalVolume + volume) % VolumeModulus]]

Link(order, id, side, price, volume) ==
    LET tail == levels[price].tail IN
    /\ orders' = [o \in Memory |->
           IF o = order THEN [orderId |-> id, side |-> side, volume |-> volume,
                              prev |-> tail, next |-> Null, level |-> price]
           ELSE IF o = tail THEN [orders[o] EXCEPT !.next = order]
           ELSE orders[o]]
    /\ levels' = [levels EXCEPT ![price] =
           [head |-> IF tail = Null THEN order ELSE @.head,
            tail |-> order,
            totalVolume |-> (@.totalVolume + volume) % VolumeModulus]]

\* An id that is in the index stays with the order it has.
Index(id, order) ==
    [i \in DOMAIN orderIndex \cup {id} |-> IF i \in DOMAIN orderIndex THEN orderIndex[i] ELSE order]

AddOrder(order, id, side, price, volume) ==
    /\ order \notin Resting
    /\ Link(order, id, side, price, volume)
    /\ orderIndex' = Index(id, order)
    /\ doubled' = (doubled \/ id \in ExistingIds)
    /\ UNCHANGED storage

-----------------------------------------------------------------------------
(* PriceLadder::removeOrder with PriceLevel::removeOrder.                  *)

\* A slip: the order behind keeps pointing at the one removed.
UnlinkOneWay(order) ==
    [o \in Memory |->
        IF o = order THEN Free
        ELSE IF o = orders[order].prev THEN [orders[o] EXCEPT !.next = orders[order].next]
        ELSE orders[o]]

Unlink(order) ==
    LET before == orders[order].prev
        after  == orders[order].next
    IN  [o \in Memory |->
            IF o = order THEN Free
            ELSE [orders[o] EXCEPT !.next = IF o = before THEN after ELSE @,
                                   !.prev = IF o = after THEN before ELSE @]]

RemovedVolume(order, total) == (total - orders[order].volume) % VolumeModulus

Forget(order) == [id \in DOMAIN orderIndex \ {orders[order].orderId} |-> orderIndex[id]]

RemoveOrder(order) ==
    /\ order \in Resting
    /\ orders' = Unlink(order)
    /\ levels' = [levels EXCEPT ![orders[order].level] =
           [head |-> IF orders[order].prev = Null THEN orders[order].next ELSE @.head,
            tail |-> IF orders[order].next = Null THEN orders[order].prev ELSE @.tail,
            totalVolume |-> RemovedVolume(order, @.totalVolume)]]
    /\ orderIndex' = Forget(order)
    /\ UNCHANGED <<storage, doubled>>

ModifiedVolume(order, total, newVolume) ==
    (total - orders[order].volume + newVolume) % VolumeModulus

ModifyOrderVolume(order, newVolume) ==
    /\ order \in Resting
    /\ orders' = [orders EXCEPT ![order].volume = newVolume]
    /\ levels' = [levels EXCEPT ![orders[order].level].totalVolume =
                                    ModifiedVolume(order, @, newVolume)]
    /\ UNCHANGED <<storage, orderIndex, doubled>>

-----------------------------------------------------------------------------
(* The queries, which walk the lists from their heads.                     *)

\* Where the walk along the list of a level stands, Null from its end on.  A
\* list has no more orders than there are places.
Walk(price) ==
    LET current[i \in 1..Cardinality(Memory)] ==
            IF i = 1 THEN levels[price].head
            ELSE IF current[i - 1] = Null THEN Null
            ELSE orders[current[i - 1]].next
    IN  current

\* The orders the walk meets.
List(price) ==
    LET walk == Walk(price)
    IN  [i \in {j \in DOMAIN walk : walk[j] # Null} |-> walk[i]]

\* A slip: only the head of the list is looked at.
HasOrdersOfSideAtHead(price, side) ==
    /\ List(price) # <<>>
    /\ storage.sides => orders[levels[price].head].side = side

HasOrdersOfSide(price, side) ==
    LET list == List(price)
    IN  \E i \in DOMAIN list : storage.sides => orders[list[i]].side = side

\* bidLevels and askLevels, the best price first.
SideLevels(side) ==
    [i \in 1..Cardinality(PriceTicks) |->
        IF side = "Buy" THEN MaxPrice + 1 - i ELSE MinPrice - 1 + i]

\* The loop's nonEmptyCount before it looks at a level.
NonEmptyCount(side) ==
    LET count[i \in 1..Cardinality(PriceTicks)] ==
            IF i = 1 THEN 0
            ELSE count[i - 1]
                 + (IF HasOrdersOfSide(SideLevels(side)[i - 1], side) THEN 1 ELSE 0)
    IN  count

\* getBestBid and getBestAsk for a depth of zero; the default is Null.
GetPriceAtDepth(side, depth) ==
    LET count == NonEmptyCount(side)
        hits == {i \in DOMAIN SideLevels(side) :
                    HasOrdersOfSide(SideLevels(side)[i], side) /\ count[i] = depth}
    IN  IF hits = {} THEN Null
        ELSE SideLevels(side)[CHOOSE i \in hits : \A j \in hits : i <= j]

-----------------------------------------------------------------------------
LadderInit ==
    /\ storage \in Storages
    /\ orders = [order \in Memory |-> Free]
    /\ levels = [price \in PriceTicks |-> [head |-> Null, tail |-> Null, totalVolume |-> 0]]
    /\ orderIndex = [id \in {} |-> Null]
    /\ doubled = FALSE

LadderNext ==
    \E order \in Memory :
        \/ \E id \in OrderIds, side \in Sides, price \in PriceTicks, volume \in Volumes :
               AddOrder(order, id, side, price, volume)
        \/ RemoveOrder(order)
        \/ \E newVolume \in Volumes : ModifyOrderVolume(order, newVolume)

LadderSpec == LadderInit /\ [][LadderNext]_ladderVars

-----------------------------------------------------------------------------
(* Properties.                                                             *)

LadderTypeOK ==
    /\ storage \in Storages
    /\ orders \in [Memory -> [orderId : OrderIds \cup {Null}, side : Sides \cup {Null},
                              volume : Volumes \cup {0}, prev : Memory \cup {Null},
                              next : Memory \cup {Null}, level : PriceTicks \cup {Null}]]
    /\ levels \in [PriceTicks -> [head : Memory \cup {Null}, tail : Memory \cup {Null},
                              totalVolume : 0..VolumeModulus - 1]]
    /\ DOMAIN orderIndex \subseteq OrderIds
    /\ \A id \in DOMAIN orderIndex : orderIndex[id] \in Memory
    /\ doubled \in BOOLEAN

\* The links of the orders and the ends of the levels are one structure: the
\* links to and from an order agree, stay within its level and end at the head
\* and the tail, so that an order can be taken out wherever it stands.
LinksAgree ==
    /\ \A order \in Resting :
           LET o == orders[order] IN
           /\ IF o.prev = Null THEN levels[o.level].head = order
              ELSE orders[o.prev].next = order /\ orders[o.prev].level = o.level
           /\ IF o.next = Null THEN levels[o.level].tail = order
              ELSE orders[o.next].prev = order /\ orders[o.next].level = o.level
    /\ \A price \in PriceTicks :
           (levels[price].head = Null) <=> (levels[price].tail = Null)

RestingAt(price) == {order \in Resting : orders[order].level = price}

\* The volume of a level is what the orders with that level add up to, up to
\* the width of a volume.
VolumeIsTotal ==
    \A price \in PriceTicks :
        levels[price].totalVolume =
            SumFunction([order \in RestingAt(price) |-> orders[order].volume]) % VolumeModulus

\* As long as no two orders shared an id, the index finds every order that
\* rests and no other.
IndexAgrees ==
    ~doubled =>
        /\ DOMAIN orderIndex = ExistingIds
        /\ \A order \in Resting : orderIndex[orders[order].orderId] = order

\* The ladder is one structure: its types, the links within it, the volumes kept
\* with it and the index into it, whatever order they are taken apart in.
LadderAgrees == LadderTypeOK /\ LinksAgree /\ VolumeIsTotal /\ IndexAgrees

RestingPrices(side) ==
    {orders[order].level : order \in
        {o \in Resting : storage.sides => orders[o].side = side}}

\* The price at a depth has that many better prices on its side, also where
\* orders of both sides stand on one level.
DepthIsRank ==
    \A side \in Sides, depth \in storage.depths :
        LET price == GetPriceAtDepth(side, depth)
            there == RestingPrices(side)
        IN  IF depth < Cardinality(there)
            THEN /\ price \in there
                 /\ depth = Cardinality({p \in there :
                                IF side = "Buy" THEN p > price ELSE p < price})
            ELSE price = Null

\* What the list of a level holds.
Queue(price) ==
    LET list == List(price)
    IN  [i \in DOMAIN list |-> [order  |-> list[i],
                               side   |-> orders[list[i]].side,
                               volume |-> orders[list[i]].volume]]

Queues == INSTANCE LadderQueues
    WITH Prices <- PriceTicks,
         Orders <- Memory,
         queues <- [price \in PriceTicks |-> Queue(price)]

\* The lists are queues in the order of arrival.
ImplementsLadderQueues == Queues!Spec

=============================================================================
