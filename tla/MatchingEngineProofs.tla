------------------------- MODULE MatchingEngineProofs -------------------------
(***************************************************************************)
(* Theorems about MatchingEngine for any engines of the kind, any ids,     *)
(* prices and quantities: its types, the agreement of the id map and the   *)
(* levels, a book that is never crossed, levels that count at least their  *)
(* orders, and the refinement of PriorityBook.                             *)
(***************************************************************************)
EXTENDS MatchingEngine, ArithmeticProofs, SequenceTheorems, TLAPS

\* The level matchOrderList walks has orders left.
TakerInLevel ==
    taker # None /\ taker.level # None =>
        /\ taker.level \in DOMAIN priceLevelMap[Opposite(taker.side)]
        /\ priceLevelMap[Opposite(taker.side)][taker.level].orders # <<>>

IInv == TypeOK /\ BookAgrees /\ NoEmptyLevel /\ Uncrossed /\ TakerInLevel

-----------------------------------------------------------------------------

\* getOrderPriceList, and erasing from the map, change one level.
LEMMA LevelChanged ==
    ASSUME BookTypeOK,
           NEW side \in OrderSide, NEW price \in Prices,
           NEW level \in PriceLevel,
           NEW m, m = WithLevel(side, price, level)
    PROVE  /\ DOMAIN m = OrderSide
           /\ \A s \in OrderSide : DOMAIN m[s] \subseteq Prices
           /\ \A s \in OrderSide : \A p \in DOMAIN m[s] :
                  \/ s = side /\ p = price /\ m[s][p] = level
                  \/ /\ s # side \/ p # price
                     /\ p \in DOMAIN priceLevelMap[s]
                     /\ m[s][p] = priceLevelMap[s][p]
           /\ \A s \in OrderSide : \A p \in DOMAIN priceLevelMap[s] :
                  s # side \/ p # price =>
                      p \in DOMAIN m[s] /\ m[s][p] = priceLevelMap[s][p]
           /\ level.orders # <<>> =>
                  price \in DOMAIN m[side] /\ m[side][price] = level
           /\ engine.erasesEmpty /\ price \in DOMAIN m[side] =>
                  level.orders # <<>>
<1> DEFINE old == priceLevelMap[side]
           changed == IF level.orders = <<>> /\ engine.erasesEmpty
                      THEN Removed(old, price) ELSE Updated(old, price, level)
<1>1. DOMAIN priceLevelMap = OrderSide /\ DOMAIN old \subseteq Prices
  BY DEF BookTypeOK
<1>2. \A s \in OrderSide : DOMAIN priceLevelMap[s] \subseteq Prices
  BY DEF BookTypeOK
<1>3. /\ DOMAIN changed \subseteq Prices
      /\ \A p \in DOMAIN changed :
             \/ p = price /\ changed[p] = level
             \/ p # price /\ p \in DOMAIN old /\ changed[p] = old[p]
      /\ \A p \in DOMAIN old : p # price =>
             p \in DOMAIN changed /\ changed[p] = old[p]
      /\ level.orders # <<>> =>
             price \in DOMAIN changed /\ changed[price] = level
      /\ engine.erasesEmpty /\ price \in DOMAIN changed => level.orders # <<>>
  <2>1. CASE level.orders = <<>> /\ engine.erasesEmpty
    <3>1. changed = Removed(old, price)
      BY <2>1
    <3> QED
      BY <3>1, <2>1, <1>1 DEF Removed
  <2>2. CASE ~(level.orders = <<>> /\ engine.erasesEmpty)
    <3>1. changed = Updated(old, price, level)
      BY <2>2
    <3> QED
      BY <3>1, <2>2, <1>1 DEF Updated
  <2> QED
    BY <2>1, <2>2
<1> HIDE DEF changed
<1>4. m = [priceLevelMap EXCEPT ![side] = changed]
  BY DEF WithLevel, changed
<1>5. /\ DOMAIN m = OrderSide
      /\ m[side] = changed
      /\ \A s \in OrderSide : s # side => m[s] = priceLevelMap[s]
  BY <1>1, <1>4
<1> QED
  BY <1>2, <1>3, <1>5

LEMMA LevelQuantities ==
    ASSUME BookTypeOK, NEW s \in OrderSide, NEW p \in DOMAIN priceLevelMap[s],
           NEW i \in 1..Len(priceLevelMap[s][p].orders)
    PROVE  /\ priceLevelMap[s][p].quantity \in Int
           /\ priceLevelMap[s][p].orders[i].quantity \in Int
           /\ priceLevelMap[s][p].orders[i] \in Resting
<1>1. PICK level \in PriceLevel : level = priceLevelMap[s][p]
  BY DEF BookTypeOK
<1>2. level.orders \in Seq(Resting) /\ level.quantity \in 0..QuantityModulus - 1
  BY DEF PriceLevel
<1>3. level.orders[i] \in Resting
  BY <1>1, <1>2
<1>4. level.quantity \in Int
  BY <1>2, MatchingEngineAssumption
<1> QED
  BY <1>1, <1>3, <1>4 DEF Resting

LEMMA EraseAtList ==
    ASSUME NEW list \in Seq(Resting), NEW i \in 1..Len(list)
    PROVE  /\ EraseAt(list, i) \in Seq(Resting)
           /\ Len(EraseAt(list, i)) = Len(list) - 1
           /\ \A k \in 1..Len(list) - 1 :
                  EraseAt(list, i)[k] = IF k < i THEN list[k] ELSE list[k + 1]
           /\ EraseAt(list, i) = <<>> <=> Len(list) = 1
<1>1. Len(list) \in Nat \ {0} /\ Len(list) - 1 \in Nat
  OBVIOUS
<1>2. \A k \in 1..Len(list) : list[k] \in Resting
  OBVIOUS
<1>3. \A k \in 1..Len(list) - 1 :
          (IF k < i THEN list[k] ELSE list[k + 1]) \in Resting
  BY <1>1, <1>2
<1>4. EraseAt(list, i) \in [1..Len(list) - 1 -> Resting]
  BY <1>3 DEF EraseAt
<1>5. EraseAt(list, i) \in Seq(Resting) /\ Len(EraseAt(list, i)) = Len(list) - 1
  BY <1>1, <1>4, SeqDef, LenProperties
<1>6. EraseAt(list, i) = <<>> <=> Len(list) = 1
  BY <1>5, <1>1, EmptySeq
<1> QED
  BY <1>1, <1>5, <1>6 DEF EraseAt

\* An order erased from its list and from the id map leaves both in agreement.
LEMMA ErasedAgrees ==
    ASSUME NEW list \in Seq(Resting), NEW i \in 1..Len(list),
           NEW places, NEW side, NEW price,
           ListAgrees(list, places, side, price)
    PROVE  ListAgrees(EraseAt(list, i), Removed(places, list[i].id), side, price)
<1> DEFINE shorter == EraseAt(list, i)
           from(k) == IF k < i THEN k ELSE k + 1
<1>1. Len(list) \in Nat /\ Len(shorter) = Len(list) - 1
  BY EraseAtList
<1>2. \A k \in 1..Len(shorter) :
          shorter[k] = list[from(k)] /\ from(k) \in 1..Len(list) /\ from(k) # i
  BY <1>1, EraseAtList
<1>3. \A k, n \in 1..Len(shorter) : from(k) = from(n) => k = n
  BY <1>1
<1> HIDE DEF from, shorter
<1>4. \A k \in 1..Len(shorter) :
          /\ shorter[k].id # list[i].id
          /\ shorter[k].id \in DOMAIN places
          /\ places[shorter[k].id] = [side |-> side, price |-> price]
  BY <1>2 DEF ListAgrees
<1>5. \A k, n \in 1..Len(shorter) : shorter[k].id = shorter[n].id => k = n
  BY <1>2, <1>3 DEF ListAgrees
<1>6. ListAgrees(shorter, Removed(places, list[i].id), side, price)
  BY <1>4, <1>5 DEF ListAgrees, Removed
<1> QED
  BY <1>6 DEF shorter

LEMMA ResizedList ==
    ASSUME NEW list \in Seq(Resting), NEW i \in 1..Len(list), NEW q \in Nat
    PROVE  /\ Resized(list, i, q) \in Seq(Resting)
           /\ Len(Resized(list, i, q)) = Len(list)
           /\ \A k \in 1..Len(list) : Resized(list, i, q)[k].id = list[k].id
           /\ Resized(list, i, q) # <<>>
<1>1. Len(list) \in Nat \ {0}
  OBVIOUS
<1>2. \A k \in 1..Len(list) : list[k] \in Resting
  OBVIOUS
<1>3. \A k \in 1..Len(list) :
          (IF k = i THEN [id |-> list[k].id, quantity |-> q] ELSE list[k])
              \in Resting
  BY <1>2 DEF Resting
<1>4. Resized(list, i, q) \in [1..Len(list) -> Resting]
  BY <1>3 DEF Resized
<1>5. Resized(list, i, q) \in Seq(Resting) /\ Len(Resized(list, i, q)) = Len(list)
  BY <1>1, <1>4, SeqDef, LenProperties
<1>6. Resized(list, i, q) # <<>>
  BY <1>5, <1>1
<1>7. \A k \in 1..Len(list) : Resized(list, i, q)[k].id = list[k].id
  BY <1>1 DEF Resized
<1> QED
  BY <1>5, <1>6, <1>7

LEMMA CountedRange ==
    ASSUME NEW n \in Int
    PROVE  Counted(n) \in 0..QuantityModulus - 1
<1>1. QuantityModulus \in Nat \ {0}
  BY MatchingEngineAssumption
<1>2. n % QuantityModulus \in 0..QuantityModulus - 1 /\ 0 \in 0..QuantityModulus - 1
  BY <1>1
<1> QED
  BY <1>2 DEF Counted

-----------------------------------------------------------------------------

\* The map and the levels after EraseOrder, by any of its callers.
LEMMA EraseOrderKeepsBook ==
    ASSUME BookTypeOK, BookAgrees, NoEmptyLevel, Uncrossed,
           NEW side \in OrderSide, NEW price \in DOMAIN priceLevelMap[side],
           NEW i \in 1..Len(priceLevelMap[side][price].orders),
           NEW q \in 0..QuantityModulus - 1,
           EraseOrder(side, price, i, q), UNCHANGED engine
    PROVE  /\ BookTypeOK' /\ BookAgrees' /\ NoEmptyLevel' /\ Uncrossed'
           /\ Len(priceLevelMap[side][price].orders) # 1 =>
                  /\ price \in DOMAIN priceLevelMap'[side]
                  /\ priceLevelMap'[side][price].orders # <<>>
<1> DEFINE list == priceLevelMap[side][price].orders
           id == list[i].id
           level == [orders |-> EraseAt(list, i), quantity |-> q]
<1>0. i \in 1..Len(list)
  OBVIOUS
<1>1. price \in Prices /\ list \in Seq(Resting)
  BY DEF BookTypeOK, PriceLevel
<1>2. /\ EraseAt(list, i) \in Seq(Resting)
      /\ Len(EraseAt(list, i)) = Len(list) - 1
      /\ \A k \in 1..Len(list) - 1 :
             EraseAt(list, i)[k] = IF k < i THEN list[k] ELSE list[k + 1]
      /\ EraseAt(list, i) = <<>> <=> Len(list) = 1
  BY <1>1, EraseAtList
<1>3. level \in PriceLevel
  BY <1>2 DEF PriceLevel
<1>4. PICK m : m = WithLevel(side, price, level)
  OBVIOUS
<1>5. /\ DOMAIN m = OrderSide
      /\ \A s \in OrderSide : DOMAIN m[s] \subseteq Prices
      /\ \A s \in OrderSide : \A p \in DOMAIN m[s] :
             \/ s = side /\ p = price /\ m[s][p] = level
             \/ /\ s # side \/ p # price
                /\ p \in DOMAIN priceLevelMap[s]
                /\ m[s][p] = priceLevelMap[s][p]
      /\ \A s \in OrderSide : \A p \in DOMAIN priceLevelMap[s] :
             s # side \/ p # price =>
                 p \in DOMAIN m[s] /\ m[s][p] = priceLevelMap[s][p]
      /\ level.orders # <<>> =>
             price \in DOMAIN m[side] /\ m[side][price] = level
      /\ engine.erasesEmpty /\ price \in DOMAIN m[side] => level.orders # <<>>
  <2> HIDE DEF level
  <2> QED
    BY <1>1, <1>3, <1>4, LevelChanged
<1>6. /\ priceLevelMap' = m
      /\ orderByIDMap' = Removed(orderByIDMap, id)
      /\ engine' = engine
  BY <1>4 DEF EraseOrder
<1>7. /\ DOMAIN orderByIDMap' = DOMAIN orderByIDMap \ {id}
      /\ \A d \in DOMAIN orderByIDMap : d # id => orderByIDMap'[d] = orderByIDMap[d]
  BY <1>6 DEF Removed
<1>8. level.orders = EraseAt(list, i)
  OBVIOUS
<1> HIDE DEF level
<1>9. BookTypeOK'
  <2>1. \A s \in OrderSide : \A p \in DOMAIN m[s] : m[s][p] \in PriceLevel
    BY <1>3, <1>5 DEF BookTypeOK
  <2>2. /\ DOMAIN orderByIDMap' \subseteq Ids
        /\ \A d \in DOMAIN orderByIDMap' : orderByIDMap'[d] \in Place
    BY <1>7 DEF BookTypeOK
  <2> QED
    BY <2>1, <2>2, <1>5, <1>6 DEF BookTypeOK
<1>10. BookAgrees'
  <2>1. ASSUME NEW s \in OrderSide, NEW p \in DOMAIN m[s]
        PROVE  ListAgrees(m[s][p].orders, orderByIDMap', s, p)
    <3>1. CASE s = side /\ p = price /\ m[s][p] = level
      <4>1. ListAgrees(list, orderByIDMap, s, p)
        BY <3>1 DEF BookAgrees
      <4> HIDE DEF list, id
      <4> QED
        BY <3>1, <4>1, <1>1, <1>8, ErasedAgrees, <1>6, <1>0 DEF id
    <3>2. CASE /\ s # side \/ p # price
               /\ p \in DOMAIN priceLevelMap[s]
               /\ m[s][p] = priceLevelMap[s][p]
      <4>1. ListAgrees(m[s][p].orders, orderByIDMap, s, p)
        BY <3>2 DEF BookAgrees
      <4>2. orderByIDMap[id] = [side |-> side, price |-> price]
        BY DEF BookAgrees, ListAgrees
      <4>3. [side |-> side, price |-> price] # [side |-> s, price |-> p]
        BY <3>2
      <4> QED
        BY <4>1, <4>2, <4>3, <1>7 DEF ListAgrees
    <3> QED
      BY <3>1, <3>2, <1>5
  <2>2. ASSUME NEW d \in DOMAIN orderByIDMap, d # id
        PROVE  PlaceAgrees(d, orderByIDMap[d], m)
    <3>1. PICK s, p : s = orderByIDMap[d].side /\ p = orderByIDMap[d].price
      OBVIOUS
    <3>2. /\ s \in OrderSide
          /\ p \in DOMAIN priceLevelMap[s]
          /\ \E k \in 1..Len(priceLevelMap[s][p].orders) :
                 priceLevelMap[s][p].orders[k].id = d
      BY <3>1 DEF BookAgrees, PlaceAgrees, BookTypeOK, Place
    <3>3. CASE s = side /\ p = price
      <4>1. PICK k \in 1..Len(list) : list[k].id = d
        BY <3>2, <3>3
      <4>2. k # i
        BY <4>1, <2>2
      <4>3. \E n \in 1..Len(list) - 1 : EraseAt(list, i)[n] = list[k]
        <5>1. CASE k < i
          BY <5>1, <1>1, <1>2
        <5>2. CASE k > i
          <6>1. k - 1 \in 1..Len(list) - 1 /\ ~(k - 1 < i) /\ (k - 1) + 1 = k
            BY <5>2, <1>1
          <6> QED
            BY <6>1, <1>2
        <5> QED
          BY <4>2, <5>1, <5>2
      <4>4. level.orders # <<>>
        BY <4>3, <1>1, <1>2, <1>8
      <4> QED
        BY <3>1, <3>3, <4>1, <4>3, <4>4, <1>2, <1>5, <1>8 DEF PlaceAgrees
    <3>4. CASE s # side \/ p # price
      BY <3>1, <3>2, <3>4, <1>5 DEF PlaceAgrees
    <3> QED
      BY <3>3, <3>4
  <2>3. \A d \in DOMAIN orderByIDMap' : PlaceAgrees(d, orderByIDMap'[d], m)
    BY <2>2, <1>7
  <2> QED
    BY <2>1, <2>3, <1>5, <1>6 DEF BookAgrees
<1>11. NoEmptyLevel'
  <2>1. ASSUME engine.erasesEmpty, NEW s \in OrderSide, NEW p \in DOMAIN m[s]
        PROVE  m[s][p].orders # <<>>
    BY <2>1, <1>5 DEF NoEmptyLevel
  <2> QED
    BY <2>1, <1>6 DEF NoEmptyLevel
<1>12. Uncrossed'
  <2>1. \A s \in OrderSide : \A p \in DOMAIN m[s] :
            m[s][p].orders # <<>> =>
                /\ p \in DOMAIN priceLevelMap[s]
                /\ priceLevelMap[s][p].orders # <<>>
    BY <1>1, <1>5
  <2> QED
    BY <2>1, <1>6 DEF Uncrossed, OrderSide
<1> QED
  BY <1>2, <1>5, <1>6, <1>8, <1>9, <1>10, <1>11, <1>12

\* An order of a level gets another quantity, and the level another total.
LEMMA ResizeKeepsBook ==
    ASSUME BookTypeOK, BookAgrees, NoEmptyLevel, Uncrossed,
           NEW side \in OrderSide, NEW price \in DOMAIN priceLevelMap[side],
           NEW i \in 1..Len(priceLevelMap[side][price].orders),
           NEW n \in Nat, NEW q \in 0..QuantityModulus - 1,
           priceLevelMap' = WithLevel(side, price,
               [orders |-> Resized(priceLevelMap[side][price].orders, i, n),
                quantity |-> q]),
           UNCHANGED <<orderByIDMap, engine>>
    PROVE  BookTypeOK' /\ BookAgrees' /\ NoEmptyLevel' /\ Uncrossed'
<1> DEFINE list == priceLevelMap[side][price].orders
           level == [orders |-> Resized(list, i, n), quantity |-> q]
<1>1. price \in Prices /\ list \in Seq(Resting)
  BY DEF BookTypeOK, PriceLevel
<1>2. /\ level.orders \in Seq(Resting)
      /\ Len(level.orders) = Len(list)
      /\ \A k \in 1..Len(list) : level.orders[k].id = list[k].id
      /\ level.orders # <<>>
  BY <1>1, ResizedList
<1>3. level \in PriceLevel
  BY <1>2 DEF PriceLevel
<1>4. PICK m : m = WithLevel(side, price, level)
  OBVIOUS
<1>5. priceLevelMap' = m
  BY <1>4
<1> HIDE DEF level
<1>6. /\ DOMAIN m = OrderSide
      /\ \A s \in OrderSide : DOMAIN m[s] \subseteq Prices
      /\ \A s \in OrderSide : \A p \in DOMAIN m[s] :
             \/ s = side /\ p = price /\ m[s][p] = level
             \/ /\ s # side \/ p # price
                /\ p \in DOMAIN priceLevelMap[s]
                /\ m[s][p] = priceLevelMap[s][p]
      /\ \A s \in OrderSide : \A p \in DOMAIN priceLevelMap[s] :
             s # side \/ p # price =>
                 p \in DOMAIN m[s] /\ m[s][p] = priceLevelMap[s][p]
      /\ price \in DOMAIN m[side] /\ m[side][price] = level
  BY <1>1, <1>2, <1>3, <1>4, LevelChanged
<1>7. BookTypeOK'
  <2>1. \A s \in OrderSide : \A p \in DOMAIN m[s] : m[s][p] \in PriceLevel
    BY <1>3, <1>6 DEF BookTypeOK
  <2> QED
    BY <2>1, <1>5, <1>6 DEF BookTypeOK
<1>8. BookAgrees'
  <2>1. ASSUME NEW s \in OrderSide, NEW p \in DOMAIN m[s]
        PROVE  ListAgrees(m[s][p].orders, orderByIDMap, s, p)
    <3>1. CASE s = side /\ p = price /\ m[s][p] = level
      <4>1. ListAgrees(list, orderByIDMap, s, p)
        BY <3>1 DEF BookAgrees
      <4> HIDE DEF list
      <4> QED
        BY <3>1, <4>1, <1>2 DEF ListAgrees
    <3>2. CASE p \in DOMAIN priceLevelMap[s] /\ m[s][p] = priceLevelMap[s][p]
      BY <3>2 DEF BookAgrees
    <3> QED
      BY <3>1, <3>2, <1>6
  <2>2. ASSUME NEW d \in DOMAIN orderByIDMap
        PROVE  PlaceAgrees(d, orderByIDMap[d], m)
    <3>1. PICK s, p : s = orderByIDMap[d].side /\ p = orderByIDMap[d].price
      OBVIOUS
    <3>2. /\ s \in OrderSide
          /\ p \in DOMAIN priceLevelMap[s]
          /\ \E k \in 1..Len(priceLevelMap[s][p].orders) :
                 priceLevelMap[s][p].orders[k].id = d
      BY <3>1 DEF BookAgrees, PlaceAgrees, BookTypeOK, Place
    <3>3. CASE s = side /\ p = price
      BY <3>1, <3>2, <3>3, <1>2, <1>6 DEF PlaceAgrees
    <3>4. CASE s # side \/ p # price
      BY <3>1, <3>2, <3>4, <1>6 DEF PlaceAgrees
    <3> QED
      BY <3>3, <3>4
  <2> QED
    BY <2>1, <2>2, <1>5, <1>6 DEF BookAgrees
<1>9. NoEmptyLevel'
  <2>1. ASSUME engine.erasesEmpty, NEW s \in OrderSide, NEW p \in DOMAIN m[s]
        PROVE  m[s][p].orders # <<>>
    BY <2>1, <1>2, <1>6 DEF NoEmptyLevel
  <2> QED
    BY <2>1, <1>5 DEF NoEmptyLevel
<1>10. Uncrossed'
  <2>1. list # <<>>
    BY <1>1
  <2>2. \A s \in OrderSide : \A p \in DOMAIN m[s] :
            m[s][p].orders # <<>> =>
                /\ p \in DOMAIN priceLevelMap[s]
                /\ priceLevelMap[s][p].orders # <<>>
    BY <2>1, <1>6
  <2> QED
    BY <2>2, <1>5 DEF Uncrossed, OrderSide
<1> QED
  BY <1>7, <1>8, <1>9, <1>10

\* The remainder of an order that nothing on the other side matches.
LEMMA InsertKeepsBook ==
    ASSUME BookTypeOK, BookAgrees, NoEmptyLevel, Uncrossed,
           NEW order \in Taker, order.id \notin DOMAIN orderByIDMap,
           Crossed(order) = {},
           InsertOrder(order), UNCHANGED engine
    PROVE  BookTypeOK' /\ BookAgrees' /\ NoEmptyLevel' /\ Uncrossed'
<1>0. PICK side, price, id :
          /\ side = order.side /\ side \in OrderSide
          /\ price = order.price /\ price \in Prices
          /\ id = order.id /\ id \in Ids /\ id \notin DOMAIN orderByIDMap
  BY DEF Taker
<1> DEFINE old == LevelAt(side, price)
           new == [id |-> id, quantity |-> order.quantity]
           level == [orders |-> Append(old.orders, new),
                     quantity |-> Counted(old.quantity + order.quantity)]
<1>1. /\ old \in PriceLevel
      /\ price \in DOMAIN priceLevelMap[side] => old = priceLevelMap[side][price]
      /\ price \notin DOMAIN priceLevelMap[side] => old.orders = <<>>
  <2>1. 0 \in 0..QuantityModulus - 1 /\ <<>> \in Seq(Resting)
    BY MatchingEngineAssumption
  <2> QED
    BY <1>0, <2>1 DEF LevelAt, BookTypeOK, PriceLevel
<1>2. new \in Resting /\ order.quantity \in Nat
  BY <1>0 DEF Resting, Taker
<1>3. old.orders \in Seq(Resting) /\ old.quantity \in 0..QuantityModulus - 1
  BY <1>1 DEF PriceLevel
<1> HIDE DEF old, new
<1>4. level \in PriceLevel
  <2>1. PICK total \in Int : total = old.quantity + order.quantity
    BY <1>2, <1>3, MatchingEngineAssumption
  <2>2. Counted(total) \in 0..QuantityModulus - 1
    BY CountedRange
  <2> QED
    BY <2>1, <2>2, <1>2, <1>3, AppendProperties DEF PriceLevel
<1>5. /\ Len(level.orders) = Len(old.orders) + 1
      /\ \A k \in 1..Len(old.orders) : level.orders[k] = old.orders[k]
      /\ level.orders[Len(old.orders) + 1] = new
      /\ level.orders # <<>>
  BY <1>2, <1>3, AppendProperties
<1>6. PICK m : m = WithLevel(side, price, level)
  OBVIOUS
<1>7. /\ priceLevelMap' = m
      /\ orderByIDMap' = Updated(orderByIDMap, id,
                                 [side |-> side, price |-> price])
  BY <1>0, <1>6 DEF InsertOrder, old, new
<1> HIDE DEF level
<1>8. /\ DOMAIN m = OrderSide
      /\ \A s \in OrderSide : DOMAIN m[s] \subseteq Prices
      /\ \A s \in OrderSide : \A p \in DOMAIN m[s] :
             \/ s = side /\ p = price /\ m[s][p] = level
             \/ /\ s # side \/ p # price
                /\ p \in DOMAIN priceLevelMap[s]
                /\ m[s][p] = priceLevelMap[s][p]
      /\ \A s \in OrderSide : \A p \in DOMAIN priceLevelMap[s] :
             s # side \/ p # price =>
                 p \in DOMAIN m[s] /\ m[s][p] = priceLevelMap[s][p]
      /\ price \in DOMAIN m[side] /\ m[side][price] = level
  BY <1>0, <1>4, <1>5, <1>6, LevelChanged
<1>9. /\ DOMAIN orderByIDMap' = DOMAIN orderByIDMap \cup {id}
      /\ orderByIDMap'[id] = [side |-> side, price |-> price]
      /\ \A d \in DOMAIN orderByIDMap : orderByIDMap'[d] = orderByIDMap[d]
  BY <1>0, <1>7 DEF Updated
<1>10. BookTypeOK'
  <2>1. \A s \in OrderSide : \A p \in DOMAIN m[s] : m[s][p] \in PriceLevel
    BY <1>4, <1>8 DEF BookTypeOK
  <2>2. \A d \in DOMAIN orderByIDMap' : orderByIDMap'[d] \in Place
    BY <1>0, <1>9 DEF BookTypeOK, Place
  <2> QED
    BY <2>1, <2>2, <1>0, <1>7, <1>8, <1>9 DEF BookTypeOK
<1>11. BookAgrees'
  <2>1. ASSUME NEW s \in OrderSide, NEW p \in DOMAIN m[s]
        PROVE  ListAgrees(m[s][p].orders, orderByIDMap', s, p)
    <3>1. CASE s = side /\ p = price /\ m[s][p] = level
      <4>1. ListAgrees(old.orders, orderByIDMap, s, p)
        <5>1. CASE price \in DOMAIN priceLevelMap[side]
          BY <5>1, <3>1, <1>0, <1>1 DEF BookAgrees
        <5>2. CASE price \notin DOMAIN priceLevelMap[side]
          BY <5>2, <1>1 DEF ListAgrees
        <5> QED
          BY <5>1, <5>2
      <4>2. \A k \in 1..Len(level.orders) :
                \/ k \in 1..Len(old.orders) /\ level.orders[k] = old.orders[k]
                \/ k = Len(old.orders) + 1 /\ level.orders[k].id = id
        BY <1>3, <1>5 DEF new
      <4>3. \A k \in 1..Len(old.orders) :
                old.orders[k].id \in DOMAIN orderByIDMap /\ old.orders[k].id # id
        BY <4>1, <1>0 DEF ListAgrees
      <4>4. \A k \in 1..Len(level.orders) :
                /\ level.orders[k].id \in DOMAIN orderByIDMap'
                /\ orderByIDMap'[level.orders[k].id] = [side |-> s, price |-> p]
        BY <3>1, <4>1, <4>2, <1>9 DEF ListAgrees
      <4>5. \A k, n \in 1..Len(level.orders) :
                level.orders[k].id = level.orders[n].id => k = n
        BY <4>1, <4>2, <4>3 DEF ListAgrees
      <4> QED
        BY <3>1, <4>4, <4>5 DEF ListAgrees
    <3>2. CASE /\ p \in DOMAIN priceLevelMap[s]
               /\ m[s][p] = priceLevelMap[s][p]
      <4>1. ListAgrees(m[s][p].orders, orderByIDMap, s, p)
        BY <3>2 DEF BookAgrees
      <4> QED
        BY <4>1, <1>9 DEF ListAgrees
    <3> QED
      BY <3>1, <3>2, <1>8
  <2>2. ASSUME NEW d \in DOMAIN orderByIDMap
        PROVE  PlaceAgrees(d, orderByIDMap[d], m)
    <3>1. PICK s, p : s = orderByIDMap[d].side /\ p = orderByIDMap[d].price
      OBVIOUS
    <3>2. /\ s \in OrderSide
          /\ p \in DOMAIN priceLevelMap[s]
          /\ \E k \in 1..Len(priceLevelMap[s][p].orders) :
                 priceLevelMap[s][p].orders[k].id = d
      BY <3>1 DEF BookAgrees, PlaceAgrees, BookTypeOK, Place
    <3>3. CASE s = side /\ p = price
      <4>1. PICK k \in 1..Len(old.orders) : old.orders[k].id = d
        BY <3>2, <3>3, <1>1
      <4>2. k \in 1..Len(level.orders) /\ level.orders[k].id = d
        BY <4>1, <1>3, <1>5
      <4> QED
        BY <3>1, <3>3, <4>2, <1>8 DEF PlaceAgrees
    <3>4. CASE s # side \/ p # price
      BY <3>1, <3>2, <3>4, <1>8 DEF PlaceAgrees
    <3> QED
      BY <3>3, <3>4
  <2>3. PlaceAgrees(id, [side |-> side, price |-> price], m)
    <3>1. Len(old.orders) + 1 \in 1..Len(level.orders)
      BY <1>3, <1>5
    <3>2. level.orders[Len(old.orders) + 1].id = id
      BY <1>5 DEF new
    <3> QED
      BY <3>1, <3>2, <1>8 DEF PlaceAgrees
  <2>4. \A d \in DOMAIN orderByIDMap' : PlaceAgrees(d, orderByIDMap'[d], m)
    BY <2>2, <2>3, <1>9
  <2> QED
    BY <2>1, <2>4, <1>7, <1>8 DEF BookAgrees
<1>12. NoEmptyLevel'
  <2>1. ASSUME engine.erasesEmpty, NEW s \in OrderSide, NEW p \in DOMAIN m[s]
        PROVE  m[s][p].orders # <<>>
    BY <2>1, <1>5, <1>8 DEF NoEmptyLevel
  <2> QED
    BY <2>1, <1>7 DEF NoEmptyLevel
<1>13. Uncrossed'
  <2>1. \A p \in DOMAIN priceLevelMap[Opposite(side)] :
            priceLevelMap[Opposite(side)][p].orders # <<>> =>
                IF side = "SELL" THEN p < price ELSE price < p
    <3>1. \A p \in DOMAIN priceLevelMap[Opposite(side)] : p \in Nat
      BY <1>0, MatchingEngineAssumption DEF BookTypeOK, Opposite, OrderSide
    <3>2. price \in Nat
      BY <1>0, MatchingEngineAssumption
    <3>3. \A p \in DOMAIN priceLevelMap[Opposite(side)] :
              priceLevelMap[Opposite(side)][p].orders # <<>> =>
                  ~Eligible(order, p)
      BY <1>0 DEF Crossed
    <3> QED
      BY <3>1, <3>2, <3>3, <1>0 DEF Eligible
  <2>2. \A s \in OrderSide : \A p \in DOMAIN m[s] :
            s # side \/ p # price =>
                p \in DOMAIN priceLevelMap[s] /\ m[s][p] = priceLevelMap[s][p]
    BY <1>8
  <2>3. ASSUME NEW b \in DOMAIN m["BUY"], NEW a \in DOMAIN m["SELL"],
               m["BUY"][b].orders # <<>>, m["SELL"][a].orders # <<>>
        PROVE  b < a
    <3>1. CASE side = "BUY"
      <4>1. a \in DOMAIN priceLevelMap["SELL"] /\ m["SELL"][a] = priceLevelMap["SELL"][a]
        BY <3>1, <2>2 DEF OrderSide
      <4>2. CASE b = price
        BY <3>1, <4>1, <4>2, <2>1, <2>3 DEF Opposite
      <4>3. CASE b # price
        BY <4>1, <4>3, <2>2, <2>3 DEF Uncrossed, OrderSide
      <4> QED
        BY <4>2, <4>3
    <3>2. CASE side = "SELL"
      <4>1. b \in DOMAIN priceLevelMap["BUY"] /\ m["BUY"][b] = priceLevelMap["BUY"][b]
        BY <3>2, <2>2 DEF OrderSide
      <4>2. CASE a = price
        BY <3>2, <4>1, <4>2, <2>1, <2>3 DEF Opposite
      <4>3. CASE a # price
        BY <4>1, <4>3, <2>2, <2>3 DEF Uncrossed, OrderSide
      <4> QED
        BY <4>2, <4>3
    <3> QED
      BY <3>1, <3>2, <1>0 DEF OrderSide
  <2> QED
    BY <2>3, <1>7 DEF Uncrossed
<1> QED
  BY <1>10, <1>11, <1>12, <1>13

-----------------------------------------------------------------------------

LEMMA InitIInv == Init => IInv
<1> SUFFICES ASSUME Init PROVE IInv
  OBVIOUS
<1>1. DOMAIN orderByIDMap = {} /\ DOMAIN priceLevelMap = OrderSide
  BY DEF Init
<1>2. \A s \in OrderSide : DOMAIN priceLevelMap[s] = {}
  BY DEF Init
<1>3. BookTypeOK
  BY <1>1, <1>2 DEF BookTypeOK
<1>4. TypeOK /\ taker = None
  BY <1>3, MatchingEngineAssumption DEF Init, TypeOK
<1>5. BookAgrees /\ NoEmptyLevel /\ Uncrossed
  BY <1>1, <1>2 DEF BookAgrees, NoEmptyLevel, Uncrossed, OrderSide
<1> QED
  BY <1>4, <1>5 DEF IInv, TakerInLevel

\* The order of a known id is where its place says.
LEMMA CancelKeepsBook ==
    ASSUME IInv, NEW id \in DOMAIN orderByIDMap, CancelOrder(id),
           UNCHANGED engine
    PROVE  BookTypeOK' /\ BookAgrees' /\ NoEmptyLevel' /\ Uncrossed'
<1>1. PICK s, p : /\ s = orderByIDMap[id].side /\ p = orderByIDMap[id].price
                  /\ s \in OrderSide /\ p \in DOMAIN priceLevelMap[s]
  BY DEF IInv, TypeOK, BookTypeOK, BookAgrees, PlaceAgrees, Place
<1>2. PICK i \in 1..Len(priceLevelMap[s][p].orders) :
          EraseOrder(s, p, i, Counted(priceLevelMap[s][p].quantity
                                  - priceLevelMap[s][p].orders[i].quantity))
  BY <1>1 DEF CancelOrder
<1>3. PICK n \in Int : n = priceLevelMap[s][p].quantity
                              - priceLevelMap[s][p].orders[i].quantity
  <2>1. /\ priceLevelMap[s][p].quantity \in Int
        /\ priceLevelMap[s][p].orders[i].quantity \in Int
    BY <1>1, LevelQuantities DEF IInv, TypeOK
  <2> QED
    BY <2>1
<1>4. PICK q \in 0..QuantityModulus - 1 : q = Counted(n)
  BY CountedRange
<1>5. EraseOrder(s, p, i, q)
  BY <1>2, <1>3, <1>4
<1> QED
  BY <1>1, <1>5, EraseOrderKeepsBook DEF IInv, TypeOK

LEMMA ProcessOrderIInv == IInv /\ ProcessOrder => IInv'
<1> SUFFICES ASSUME IInv, ProcessOrder PROVE IInv'
  OBVIOUS
<1>1. /\ taker = None /\ engine' = engine /\ engine' \in Engines
      /\ requests' \in 0..MaxRequests
  BY MatchingEngineAssumption DEF ProcessOrder, IInv, TypeOK
<1>2. ASSUME NEW order \in Order, StartMatching(order)
      PROVE  taker' \in Taker /\ taker'.level = None
  BY <1>2, MatchingEngineAssumption DEF StartMatching, Order, Taker
<1>3. ASSUME taker' \in Taker \cup {None},
             taker' # None => taker'.level = None,
             BookTypeOK', BookAgrees', NoEmptyLevel', Uncrossed'
      PROVE  IInv'
  BY <1>1, <1>3 DEF IInv, TypeOK, TakerInLevel
<1>4. UNCHANGED book => BookTypeOK' /\ BookAgrees' /\ NoEmptyLevel' /\ Uncrossed'
  BY <1>1 DEF book, IInv, TypeOK, BookTypeOK, BookAgrees, NoEmptyLevel, Uncrossed
<1>5. ASSUME NEW order \in Order, HandleOrderNew(order) PROVE IInv'
  BY <1>2, <1>3, <1>4, <1>5 DEF HandleOrderNew
<1>6. ASSUME NEW id \in Ids, NEW side \in OrderSide, HandleOrderCancel(id, side)
      PROVE  IInv'
  <2>1. taker' = None
    BY <1>1, <1>6 DEF HandleOrderCancel
  <2>2. CASE id \in DOMAIN orderByIDMap /\ CancelOrder(id)
    BY <1>1, <1>3, <2>1, <2>2, CancelKeepsBook
  <2>3. CASE UNCHANGED book
    BY <1>3, <1>4, <2>1, <2>3
  <2> QED
    BY <1>6, <2>2, <2>3 DEF HandleOrderCancel
<1>7. ASSUME NEW order \in Order, HandleOrderAmend(order) PROVE IInv'
  <2>1. CASE UNCHANGED <<book, taker>>
    BY <1>1, <1>3, <1>4, <2>1
  <2>2. CASE /\ order.id \in DOMAIN orderByIDMap
             /\ CancelOrder(order.id) /\ StartMatching(order)
    BY <1>1, <1>2, <1>3, <2>2, CancelKeepsBook
  <2>3. CASE /\ order.id \in DOMAIN orderByIDMap
             /\ orderByIDMap[order.id].side = order.side
             /\ orderByIDMap[order.id].price = order.price
             /\ AmendQuantity(order) /\ UNCHANGED <<orderByIDMap, taker>>
    <3>1. PICK s, p, r :
              /\ s = order.side /\ p = order.price /\ r = order.quantity
              /\ s \in OrderSide /\ p \in DOMAIN priceLevelMap[s] /\ r \in Nat
      BY <2>3, MatchingEngineAssumption
         DEF Order, IInv, BookAgrees, PlaceAgrees
    <3>2. PICK i \in 1..Len(priceLevelMap[s][p].orders) :
              priceLevelMap' = WithLevel(s, p,
                  [orders |-> Resized(priceLevelMap[s][p].orders, i, r),
                   quantity |-> Counted(priceLevelMap[s][p].quantity + r
                                    - priceLevelMap[s][p].orders[i].quantity)])
      BY <2>3, <3>1 DEF AmendQuantity
    <3>3. PICK n \in Int : n = priceLevelMap[s][p].quantity + r
                                  - priceLevelMap[s][p].orders[i].quantity
      BY <3>1, LevelQuantities DEF IInv, TypeOK
    <3>4. PICK q \in 0..QuantityModulus - 1 : q = Counted(n)
      BY CountedRange
    <3>5. BookTypeOK' /\ BookAgrees' /\ NoEmptyLevel' /\ Uncrossed'
      BY <1>1, <2>3, <3>1, <3>2, <3>3, <3>4, ResizeKeepsBook DEF IInv, TypeOK
    <3> QED
      BY <1>1, <1>3, <2>3, <3>5
  <2> QED
    BY <1>7, <2>1, <2>2, <2>3 DEF HandleOrderAmend
<1> QED
  BY <1>5, <1>6, <1>7 DEF ProcessOrder

\* Where matchOrderList is, it finds a first order.
LEMMA AtLevelHasOrders ==
    ASSUME IInv, NEW price \in Prices, AtLevel(price)
    PROVE  /\ taker \in Taker /\ taker.side \in OrderSide
           /\ Opposite(taker.side) \in OrderSide
           /\ price \in DOMAIN priceLevelMap[Opposite(taker.side)]
           /\ 1 \in 1..Len(priceLevelMap[Opposite(taker.side)][price].orders)
<1>1. /\ taker \in Taker /\ taker.side \in OrderSide
      /\ Opposite(taker.side) \in OrderSide
  BY DEF AtLevel, IInv, TypeOK, Taker, Opposite, OrderSide
<1>2. /\ price \in DOMAIN priceLevelMap[Opposite(taker.side)]
      /\ priceLevelMap[Opposite(taker.side)][price].orders # <<>>
  BY DEF AtLevel, NextLevel, Crossed, IInv, TakerInLevel
<1>3. PICK level \in PriceLevel :
          level = priceLevelMap[Opposite(taker.side)][price]
  BY <1>1, <1>2 DEF IInv, TypeOK, BookTypeOK
<1>4. level.orders \in Seq(Resting) /\ level.orders # <<>>
  BY <1>2, <1>3 DEF PriceLevel
<1>5. Len(level.orders) \in Nat \ {0}
  BY <1>4, EmptySeq
<1> QED
  BY <1>1, <1>2, <1>3, <1>5

LEMMA MatchIInv == IInv /\ Match => IInv'
<1> SUFFICES ASSUME IInv, Match PROVE IInv'
  OBVIOUS
<1>1. PICK price \in Prices :
          AtLevel(price) /\ (FillMatchedOrder(price) \/ FillTaker(price))
  BY DEF Match
<1>2. /\ engine' = engine /\ engine' \in Engines
      /\ requests' \in 0..MaxRequests
  BY DEF Match, IInv, TypeOK
<1>3. PICK side : /\ side = Opposite(taker.side) /\ side \in OrderSide
                  /\ price \in DOMAIN priceLevelMap[side]
                  /\ 1 \in 1..Len(priceLevelMap[side][price].orders)
  BY <1>1, AtLevelHasOrders
<1>4. /\ taker \in Taker
      /\ priceLevelMap[side][price].orders[1] \in Resting
      /\ priceLevelMap[side][price] \in PriceLevel
  BY <1>1, <1>3, AtLevelHasOrders, LevelQuantities
     DEF IInv, TypeOK, BookTypeOK
<1>5. PICK list, q, matched :
          /\ list = priceLevelMap[side][price].orders
          /\ q = priceLevelMap[side][price].quantity
          /\ q \in 0..QuantityModulus - 1
          /\ matched = list[1] /\ matched \in Resting /\ matched.quantity \in Nat
          /\ taker.quantity \in Nat
  BY <1>4 DEF PriceLevel, Resting, Taker
<1>6. CASE FillMatchedOrder(price)
  <2>1. /\ taker.quantity >= matched.quantity
        /\ taker' = [taker EXCEPT !.quantity = @ - matched.quantity,
                                  !.level = IF Len(list) = 1 THEN None
                                            ELSE price]
        /\ EraseOrder(side, price, 1, q)
    BY <1>3, <1>5, <1>6 DEF FillMatchedOrder
  <2>2. /\ BookTypeOK' /\ BookAgrees' /\ NoEmptyLevel' /\ Uncrossed'
        /\ Len(priceLevelMap[side][price].orders) # 1 =>
               /\ price \in DOMAIN priceLevelMap'[side]
               /\ priceLevelMap'[side][price].orders # <<>>
    BY <2>1, <1>2, <1>3, <1>5, EraseOrderKeepsBook DEF IInv, TypeOK
  <2>3. taker.quantity - matched.quantity \in Nat
    BY <2>1, <1>5
  <2>4. /\ taker' \in Taker /\ taker'.side = taker.side
        /\ taker'.level = IF Len(list) = 1 THEN None ELSE price
    BY <2>1, <2>3, <1>4 DEF Taker
  <2>5. TakerInLevel'
    BY <2>2, <2>4, <1>3, <1>5 DEF TakerInLevel
  <2> QED
    BY <2>2, <2>4, <2>5, <1>2 DEF IInv, TypeOK
<1>7. CASE FillTaker(price)
  <2>1. /\ taker.quantity < matched.quantity
        /\ taker' = [taker EXCEPT !.quantity = 0, !.level = None]
        /\ priceLevelMap' = WithLevel(side, price,
               [orders |-> Resized(list, 1, matched.quantity - taker.quantity),
                quantity |-> q])
        /\ UNCHANGED orderByIDMap
    BY <1>3, <1>5, <1>7 DEF FillTaker
  <2>2. PICK n \in Nat : n = matched.quantity - taker.quantity
    BY <2>1, <1>5
  <2>3. BookTypeOK' /\ BookAgrees' /\ NoEmptyLevel' /\ Uncrossed'
    BY <2>1, <2>2, <1>2, <1>3, <1>5, ResizeKeepsBook DEF IInv, TypeOK
  <2>4. taker' \in Taker /\ taker'.level = None
    BY <2>1, <1>4 DEF Taker
  <2> QED
    BY <2>3, <2>4, <1>2 DEF IInv, TypeOK, TakerInLevel
<1> QED
  BY <1>1, <1>6, <1>7

LEMMA EndMatchingIInv == IInv /\ EndMatching => IInv'
<1> SUFFICES ASSUME IInv, EndMatching PROVE IInv'
  OBVIOUS
<1>1. /\ engine' = engine /\ engine' \in Engines
      /\ requests' \in 0..MaxRequests /\ taker' = None
  BY DEF EndMatching, IInv, TypeOK
<1>2. BookTypeOK' /\ BookAgrees' /\ NoEmptyLevel' /\ Uncrossed'
  <2>1. CASE /\ taker.quantity > 0 /\ taker.id \notin DOMAIN orderByIDMap
             /\ InsertOrder(taker)
    <3>1. taker \in Taker /\ Crossed(taker) = {}
      BY <2>1 DEF EndMatching, IInv, TypeOK, Taker
    <3> QED
      BY <2>1, <3>1, <1>1, InsertKeepsBook DEF IInv, TypeOK
  <2>2. CASE UNCHANGED book
    BY <1>1, <2>2
       DEF book, IInv, TypeOK, BookTypeOK, BookAgrees, NoEmptyLevel, Uncrossed
  <2> QED
    BY <2>1, <2>2 DEF EndMatching
<1> QED
  BY <1>1, <1>2 DEF IInv, TypeOK, TakerInLevel

LEMMA StutterIInv == IInv /\ UNCHANGED vars => IInv'
BY DEF vars, book, IInv, TypeOK, BookTypeOK, BookAgrees, NoEmptyLevel,
       Uncrossed, TakerInLevel

\* The inductive invariant of the engine.
THEOREM MatchingEngineInvariant == Spec => []IInv
<1>1. IInv /\ [Next]_vars => IInv'
  BY ProcessOrderIInv, MatchIInv, EndMatchingIInv, StutterIInv DEF Next
<1> QED
  BY <1>1, InitIInv, PTL DEF Spec

\* No quantity falls below zero, and matchOrder only meets levels it knows.
THEOREM MatchingEngineTypeOK == Spec => []TypeOK
BY MatchingEngineInvariant, PTL DEF IInv

\* cancelOrder, handleOrderAmend and matchOrderList keep the id map and the
\* levels in agreement, whatever is requested in whatever order.
THEOREM IdMapAgreesWithLevels == Spec => []BookIsWhole
<1>1. IInv => BookIsWhole
  BY DEF IInv, BookIsWhole
<1> QED BY MatchingEngineInvariant, <1>1, PTL

\* handleOrderNew lets an order rest only below every ask and above every bid.
THEOREM BookIsNeverCrossed == Spec => []Uncrossed
BY MatchingEngineInvariant, PTL DEF IInv

-----------------------------------------------------------------------------
(* The quantities of the levels.  Matching never reduces them, so a level's *)
(* quantity is at most all that was ever asked for, and at least what its   *)
(* orders hold; the hypothesis of the theorem keeps the former from going   *)
(* round.                                                                   *)

QuantitiesOf(orders) == [i \in 1..Len(orders) |-> orders[i].quantity]

LEMMA QuantitiesSummable ==
    ASSUME NEW list \in Seq(Resting)
    PROVE  /\ Summable(QuantitiesOf(list)) /\ DOMAIN QuantitiesOf(list) = 1..Len(list)
           /\ \A i \in 1..Len(list) : /\ QuantitiesOf(list)[i] = list[i].quantity
                                      /\ list[i].quantity \in Nat
           /\ TotalQuantity(list) = SumFunction(QuantitiesOf(list))
           /\ TotalQuantity(list) \in Int
<1>1. \A i \in 1..Len(list) : list[i].quantity \in Nat
  <2>1. \A i \in 1..Len(list) : list[i] \in Resting
    OBVIOUS
  <2> QED BY <2>1 DEF Resting
<1>2. IsFiniteSet(1..Len(list))
  BY FS_Interval
<1>3. Summable(QuantitiesOf(list))
  BY <1>1, <1>2 DEF Summable, QuantitiesOf
<1>4. TotalQuantity(list) = SumFunction(QuantitiesOf(list))
  BY DEF TotalQuantity, QuantitiesOf
<1> QED BY <1>1, <1>3, <1>4, SumFunctionType DEF QuantitiesOf

\* An empty level has nothing, and no order has less than nothing.
LEMMA TotalOfEmpty == TotalQuantity(<<>>) = 0
<1>1. DOMAIN QuantitiesOf(<<>>) = {}
  BY DEF QuantitiesOf
<1>2. TotalQuantity(<<>>) = SumFunction(QuantitiesOf(<<>>))
  BY DEF TotalQuantity, QuantitiesOf
<1> QED BY <1>1, <1>2, SumFunctionEmpty

LEMMA TotalErased ==
    ASSUME NEW list \in Seq(Resting), NEW i \in 1..Len(list)
    PROVE  TotalQuantity(EraseAt(list, i)) = TotalQuantity(list) - list[i].quantity
<1> DEFINE shorter == EraseAt(list, i)
           f == QuantitiesOf(list)
           g == QuantitiesOf(shorter)
           S == 1..Len(list) \ {i}
<1>1. shorter \in Seq(Resting) /\ Len(shorter) = Len(list) - 1 /\ Len(list) \in Nat
  BY EraseAtList
<1>2. \A k \in 1..Len(shorter) : shorter[k] = IF k < i THEN list[k] ELSE list[k + 1]
  BY EraseAtList
<1>3. Summable(f) /\ DOMAIN f = 1..Len(list) /\ \A k \in 1..Len(list) : f[k] = list[k].quantity
  BY QuantitiesSummable
<1>4. Summable(g) /\ DOMAIN g = 1..Len(shorter)
      /\ \A k \in 1..Len(shorter) : g[k] = shorter[k].quantity
  BY <1>1, QuantitiesSummable
<1>5. PICK to : to = [k \in 1..Len(shorter) |-> IF k < i THEN k ELSE k + 1]
  OBVIOUS
<1> HIDE DEF f, g, shorter
<1>6. to \in [DOMAIN g -> S]
  BY <1>1, <1>4, <1>5
<1>7. \A x, y \in DOMAIN g : to[x] = to[y] => x = y
  BY <1>1, <1>4, <1>5
<1>8. \A s \in S : \E x \in DOMAIN g : to[x] = s
  <2> SUFFICES ASSUME NEW s \in S PROVE \E x \in DOMAIN g : to[x] = s
    OBVIOUS
  <2>1. CASE s < i
    <3>1. s \in DOMAIN g
      BY <1>1, <1>4, <2>1
    <3> QED BY <1>4, <1>5, <2>1, <3>1
  <2>2. CASE s > i
    <3>1. s - 1 \in DOMAIN g /\ ~(s - 1 < i) /\ (s - 1) + 1 = s
      BY <1>1, <1>4, <2>2
    <3> QED BY <1>4, <1>5, <3>1
  <2> QED BY <2>1, <2>2
<1>9. \A x \in DOMAIN g : g[x] = f[to[x]]
  BY <1>1, <1>2, <1>3, <1>4, <1>5
<1>10. S \in SUBSET DOMAIN f /\ IsFiniteSet(DOMAIN g)
  BY <1>3, <1>4 DEF Summable
<1>11. SumFunction(g) = SumFunctionOnSet(f, S)
  <2> HIDE DEF S
  <2> QED BY <1>3, <1>6, <1>7, <1>8, <1>9, <1>10, SumFunctionRenamed
<1>12. SumFunction(f) = f[i] + SumFunctionOnSet(f, S)
  BY <1>3, SumWithout DEF SumFunction, Summable
<1>13. f[i] \in Int /\ SumFunctionOnSet(f, S) \in Int
  BY <1>3, <1>10, SumType, FS_Subset DEF Summable
<1>14. /\ TotalQuantity(list) = SumFunction(f)
       /\ TotalQuantity(shorter) = SumFunction(g)
  BY <1>1, QuantitiesSummable DEF f, g
<1>15. TotalQuantity(shorter) = TotalQuantity(list) - list[i].quantity
  BY <1>3, <1>11, <1>12, <1>13, <1>14
<1> QED BY <1>15 DEF shorter

LEMMA TotalResized ==
    ASSUME NEW list \in Seq(Resting), NEW i \in 1..Len(list), NEW q \in Nat
    PROVE  TotalQuantity(Resized(list, i, q)) = TotalQuantity(list) + (q - list[i].quantity)
<1> DEFINE f == QuantitiesOf(list)
           g == QuantitiesOf(Resized(list, i, q))
<1>1. Resized(list, i, q) \in Seq(Resting) /\ Len(Resized(list, i, q)) = Len(list)
  BY ResizedList
<1>2. Summable(f) /\ DOMAIN f = 1..Len(list) /\ \A k \in 1..Len(list) : f[k] = list[k].quantity
  BY QuantitiesSummable
<1>3. DOMAIN g = 1..Len(list)
      /\ \A k \in 1..Len(list) : g[k] = IF k = i THEN q ELSE list[k].quantity
  BY <1>1 DEF QuantitiesOf, Resized
<1>4. /\ TotalQuantity(list) = SumFunction(f)
      /\ TotalQuantity(Resized(list, i, q)) = SumFunction(g)
  BY <1>1, QuantitiesSummable
<1> HIDE DEF f, g
<1>5. g[i] \in Int /\ \A k \in DOMAIN f : k # i => g[k] = f[k]
  BY <1>2, <1>3
<1>6. SumFunction(g) = SumFunction(f) + (g[i] - f[i])
  BY <1>2, <1>3, <1>5, SumFunctionChange
<1> QED BY <1>2, <1>3, <1>4, <1>6

LEMMA TotalAppended ==
    ASSUME NEW list \in Seq(Resting), NEW order \in Resting
    PROVE  TotalQuantity(Append(list, order)) = TotalQuantity(list) + order.quantity
<1> DEFINE f == QuantitiesOf(list)
           g == QuantitiesOf(Append(list, order))
           n == Len(list) + 1
<1>1. /\ Append(list, order) \in Seq(Resting) /\ Len(Append(list, order)) = n
      /\ Append(list, order)[n] = order /\ Len(list) \in Nat
      /\ \A k \in 1..Len(list) : Append(list, order)[k] = list[k]
  BY AppendProperties, LenProperties
<1>2. Summable(f) /\ DOMAIN f = 1..Len(list) /\ \A k \in 1..Len(list) : f[k] = list[k].quantity
  BY QuantitiesSummable
<1>3. /\ Summable(g) /\ DOMAIN g = 1..n
      /\ \A k \in 1..n : g[k] = Append(list, order)[k].quantity
  BY <1>1, QuantitiesSummable
<1>4. /\ TotalQuantity(list) = SumFunction(f)
      /\ TotalQuantity(Append(list, order)) = SumFunction(g)
  BY <1>1, QuantitiesSummable
<1>5. order.quantity \in Nat
  BY DEF Resting
<1> HIDE DEF f, g
<1>6. n \notin DOMAIN f /\ DOMAIN g = DOMAIN f \cup {n}
  BY <1>1, <1>2, <1>3
<1>7. g[n] = order.quantity /\ \A k \in DOMAIN f : g[k] = f[k]
  BY <1>1, <1>2, <1>3
<1>8. SumFunction(g) = SumFunction(f) + g[n]
  <2>1. g[n] \in Int
    BY <1>5, <1>7
  <2> HIDE DEF n
  <2> QED BY <1>2, <1>6, <1>7, <2>1, SumFunctionInsert
<1> QED BY <1>4, <1>7, <1>8

\* What is left when an order leaves is not negative.
LEMMA TotalCovers ==
    ASSUME NEW list \in Seq(Resting), NEW i \in 1..Len(list)
    PROVE  list[i].quantity <= TotalQuantity(list)
<1> DEFINE f == QuantitiesOf(list)
           S == 1..Len(list) \ {i}
<1>1. /\ Summable(f) /\ DOMAIN f = 1..Len(list)
      /\ \A k \in 1..Len(list) : f[k] = list[k].quantity /\ f[k] \in Nat
      /\ TotalQuantity(list) = SumFunction(f)
  BY QuantitiesSummable
<1> HIDE DEF f
<1>2. SumFunction(f) = f[i] + SumFunctionOnSet(f, S)
  <2> DEFINE D == DOMAIN f
  <2>1. IsFiniteSet(D) /\ (\A x \in D : f[x] \in Int) /\ i \in D
    BY <1>1 DEF Summable
  <2> HIDE DEF D
  <2>2. SumFunctionOnSet(f, D) = f[i] + SumFunctionOnSet(f, D \ {i})
    BY ONLY <2>1, SumWithout
  <2> QED BY ONLY <1>1, <2>2 DEF D, SumFunction
<1>3. IsFiniteSet(S)
  BY <1>1, FS_Subset DEF Summable
<1>4. SumFunctionOnSet(f, S) \in Nat
  BY <1>1, <1>3, SumNotNegative
<1> QED BY <1>1, <1>2, <1>4

\* The requests whose quantities are in the book: all, but for the one running.
Answered == IF taker = None THEN requests ELSE requests - 1

\* A level's quantity is between its orders' and the most the requests gave.
LevelCovered(level, most) ==
    /\ TotalQuantity(level.orders) <= level.quantity
    /\ level.quantity <= most

LevelsCovered(most) ==
    engine.countsQuantity =>
        \A side \in OrderSide : \A p \in DOMAIN priceLevelMap[side] :
            LevelCovered(priceLevelMap[side][p], most)

\* most bounds the quantity of a request.
Covered(most) ==
    /\ LevelsCovered(Answered * most)
    /\ taker # None => requests > 0 /\ taker.quantity <= most

FewQuantities(most) ==
    /\ \A q \in Quantities : q <= most
    /\ MaxRequests * most < QuantityModulus

\* One level changes.
LEMMA LevelChangeCovered ==
    ASSUME BookTypeOK, NEW most \in Nat, NEW more \in Nat, most <= more,
           LevelsCovered(most), NEW side \in OrderSide, NEW price \in Prices,
           NEW level \in PriceLevel, LevelCovered(level, more) \/ ~engine.countsQuantity,
           priceLevelMap' = WithLevel(side, price, level), UNCHANGED engine
    PROVE  LevelsCovered(more)'
<1>1. PICK m : m = WithLevel(side, price, level)
  OBVIOUS
<1>2. /\ DOMAIN m = OrderSide
      /\ \A s \in OrderSide : \A p \in DOMAIN m[s] :
             \/ s = side /\ p = price /\ m[s][p] = level
             \/ p \in DOMAIN priceLevelMap[s] /\ m[s][p] = priceLevelMap[s][p]
  BY <1>1, LevelChanged
<1>3. ASSUME engine.countsQuantity, NEW s \in OrderSide, NEW p \in DOMAIN m[s]
      PROVE  LevelCovered(m[s][p], more)
  <2>1. CASE m[s][p] = level
    BY <1>3, <2>1
  <2>2. CASE p \in DOMAIN priceLevelMap[s] /\ m[s][p] = priceLevelMap[s][p]
    <3>1. PICK l \in PriceLevel : l = m[s][p]
      BY <2>2 DEF BookTypeOK
    <3>2. LevelCovered(l, most)
      BY <1>3, <2>2, <3>1 DEF LevelsCovered
    <3>3. l.quantity \in Int
      BY MatchingEngineAssumption DEF PriceLevel
    <3> QED BY <3>1, <3>2, <3>3 DEF LevelCovered
  <2> QED BY <1>2, <2>1, <2>2
<1>4. priceLevelMap' = m /\ engine' = engine
  BY <1>1
<1> QED BY <1>3, <1>4 DEF LevelsCovered, LevelCovered, TotalQuantity

LEMMA CountedIsExact ==
    ASSUME NEW n \in Int, 0 <= n, n < QuantityModulus, engine.countsQuantity
    PROVE  Counted(n) = n
BY MatchingEngineAssumption DEF Counted

LEMMA LevelOfOrder ==
    ASSUME BookTypeOK, NEW side \in OrderSide, NEW price \in DOMAIN priceLevelMap[side]
    PROVE  /\ price \in Prices /\ priceLevelMap[side][price] \in PriceLevel
           /\ priceLevelMap[side][price].orders \in Seq(Resting)
           /\ priceLevelMap[side][price].quantity \in 0..QuantityModulus - 1
           /\ QuantityModulus \in Nat \ {0}
BY MatchingEngineAssumption DEF BookTypeOK, PriceLevel

\* An order leaves, and the level counts at least the rest.
LEMMA EraseOrderCovered ==
    ASSUME BookTypeOK, NEW most \in Nat, NEW more \in Nat, most <= more, LevelsCovered(most),
           NEW side \in OrderSide, NEW price \in DOMAIN priceLevelMap[side],
           NEW i \in 1..Len(priceLevelMap[side][price].orders),
           NEW q \in 0..QuantityModulus - 1,
           engine.countsQuantity =>
               /\ priceLevelMap[side][price].quantity
                    - priceLevelMap[side][price].orders[i].quantity <= q
               /\ q <= more,
           EraseOrder(side, price, i, q), UNCHANGED engine
    PROVE  LevelsCovered(more)'
<1> DEFINE list == priceLevelMap[side][price].orders
           level == [orders |-> EraseAt(list, i), quantity |-> q]
<1>1. price \in Prices /\ list \in Seq(Resting) /\ priceLevelMap[side][price].quantity \in Int
      /\ q \in Int
  BY LevelOfOrder
<1>2. /\ EraseAt(list, i) \in Seq(Resting)
      /\ TotalQuantity(EraseAt(list, i)) = TotalQuantity(list) - list[i].quantity
      /\ TotalQuantity(list) \in Int /\ list[i].quantity \in Int
  <2> HIDE DEF list
  <2>1. i \in 1..Len(list)
    BY DEF list
  <2> QED BY <1>1, <2>1, EraseAtList, TotalErased, QuantitiesSummable
<1>3. level \in PriceLevel
  BY <1>2 DEF PriceLevel
<1>4. LevelCovered(level, more) \/ ~engine.countsQuantity
  <2> SUFFICES ASSUME engine.countsQuantity PROVE LevelCovered(level, more)
    OBVIOUS
  <2>1. TotalQuantity(list) <= priceLevelMap[side][price].quantity
    BY DEF LevelsCovered, LevelCovered
  <2>2. level.orders = EraseAt(list, i) /\ level.quantity = q
    OBVIOUS
  <2>3. /\ priceLevelMap[side][price].quantity - list[i].quantity <= q
        /\ q <= more
    OBVIOUS
  <2> HIDE DEF level, list
  <2> QED BY <1>1, <1>2, <2>1, <2>2, <2>3 DEF LevelCovered
<1>5. priceLevelMap' = WithLevel(side, price, level)
  BY DEF EraseOrder
<1> HIDE DEF level
<1> QED BY <1>1, <1>3, <1>4, <1>5, LevelChangeCovered

\* An order of a level has another quantity, and the level counts it.
LEMMA ResizeCovered ==
    ASSUME BookTypeOK, NEW most \in Nat, NEW more \in Nat, most <= more, LevelsCovered(most),
           NEW side \in OrderSide, NEW price \in DOMAIN priceLevelMap[side],
           NEW i \in 1..Len(priceLevelMap[side][price].orders),
           NEW n \in Nat, NEW q \in 0..QuantityModulus - 1,
           engine.countsQuantity =>
               /\ priceLevelMap[side][price].quantity + n
                    - priceLevelMap[side][price].orders[i].quantity <= q
               /\ q <= more,
           priceLevelMap' = WithLevel(side, price,
               [orders |-> Resized(priceLevelMap[side][price].orders, i, n),
                quantity |-> q]),
           UNCHANGED engine
    PROVE  LevelsCovered(more)'
<1> DEFINE list == priceLevelMap[side][price].orders
           level == [orders |-> Resized(list, i, n), quantity |-> q]
<1>1. price \in Prices /\ list \in Seq(Resting) /\ priceLevelMap[side][price].quantity \in Int
      /\ q \in Int
  BY LevelOfOrder
<1>2. /\ Resized(list, i, n) \in Seq(Resting)
      /\ TotalQuantity(Resized(list, i, n)) = TotalQuantity(list) + (n - list[i].quantity)
      /\ TotalQuantity(list) \in Int /\ list[i].quantity \in Int
  <2> HIDE DEF list
  <2>1. i \in 1..Len(list)
    BY DEF list
  <2> QED BY <1>1, <2>1, ResizedList, TotalResized, QuantitiesSummable
<1>3. level \in PriceLevel
  BY <1>2 DEF PriceLevel
<1>4. LevelCovered(level, more) \/ ~engine.countsQuantity
  <2> SUFFICES ASSUME engine.countsQuantity PROVE LevelCovered(level, more)
    OBVIOUS
  <2>1. TotalQuantity(list) <= priceLevelMap[side][price].quantity
    BY DEF LevelsCovered, LevelCovered
  <2>2. level.orders = Resized(list, i, n) /\ level.quantity = q
    OBVIOUS
  <2>3. /\ priceLevelMap[side][price].quantity + n - list[i].quantity <= q
        /\ q <= more
    OBVIOUS
  <2> HIDE DEF level, list
  <2>4. TotalQuantity(Resized(list, i, n)) <= q
    <3>1. PICK total \in Int : total = TotalQuantity(list)
      BY <1>2
    <3>2. PICK part \in Int : part = list[i].quantity
      BY <1>2
    <3>3. PICK whole \in Int : whole = priceLevelMap[side][price].quantity
      BY <1>1
    <3>4. total <= whole /\ whole + n - part <= q
      BY ONLY <2>1, <2>3, <3>1, <3>2, <3>3
    <3>5. total + (n - part) <= q
      BY ONLY <1>1, <3>4, n \in Nat, total \in Int, part \in Int, whole \in Int
    <3> QED BY ONLY <1>2, <3>1, <3>2, <3>5
  <2> QED BY ONLY <2>2, <2>3, <2>4 DEF LevelCovered
<1>5. priceLevelMap' = WithLevel(side, price, level)
  OBVIOUS
<1> HIDE DEF level
<1> QED BY <1>1, <1>3, <1>4, <1>5, LevelChangeCovered

LEMMA CancelCovered ==
    ASSUME IInv, NEW most \in Nat, NEW more \in Nat, most <= more, LevelsCovered(most),
           NEW id \in DOMAIN orderByIDMap, CancelOrder(id), UNCHANGED engine
    PROVE  LevelsCovered(more)'
<1>1. PICK s, p : /\ s = orderByIDMap[id].side /\ p = orderByIDMap[id].price
                  /\ s \in OrderSide /\ p \in DOMAIN priceLevelMap[s]
  BY DEF IInv, TypeOK, BookTypeOK, BookAgrees, PlaceAgrees, Place
<1>2. PICK list, all : list = priceLevelMap[s][p].orders /\ all = priceLevelMap[s][p].quantity
  OBVIOUS
<1>3. /\ list \in Seq(Resting) /\ all \in 0..QuantityModulus - 1
      /\ QuantityModulus \in Nat \ {0}
  BY <1>1, <1>2, LevelOfOrder DEF IInv, TypeOK
<1>4. PICK i \in 1..Len(list) : EraseOrder(s, p, i, Counted(all - list[i].quantity))
  BY <1>1, <1>2 DEF CancelOrder
<1>5. /\ list[i].quantity \in Nat /\ list[i].quantity <= TotalQuantity(list)
      /\ TotalQuantity(list) \in Int
  BY <1>3, QuantitiesSummable, TotalCovers
<1>6. PICK n \in Int : n = all - list[i].quantity
  BY <1>3, <1>5
<1>7. PICK q \in 0..QuantityModulus - 1 : q = Counted(n)
  BY CountedRange
<1>8. engine.countsQuantity => n <= q /\ q <= more
  <2> SUFFICES ASSUME engine.countsQuantity PROVE n <= q /\ q <= more
    OBVIOUS
  <2>1. TotalQuantity(list) <= all /\ all <= most
    BY <1>1, <1>2 DEF LevelsCovered, LevelCovered
  <2>2. 0 <= n /\ n < QuantityModulus
    BY <1>3, <1>5, <1>6, <2>1
  <2>3. q = n
    BY <1>7, <2>2, CountedIsExact
  <2> QED BY <1>3, <1>5, <1>6, <2>1, <2>3
<1> QED BY <1>1, <1>2, <1>4, <1>6, <1>7, <1>8, EraseOrderCovered DEF IInv, TypeOK

\* Numbers of requests, and what they may have asked for.
LEMMA AnsweredFacts ==
    ASSUME IInv, NEW most \in Nat, FewQuantities(most), taker # None => requests > 0
    PROVE  /\ requests \in Nat /\ requests <= MaxRequests /\ Answered \in Nat
           /\ Answered * most \in Nat
           /\ requests * most < QuantityModulus
           /\ taker # None => Answered * most + most = requests * most
           /\ (requests + 1) * most = requests * most + most
           /\ requests < MaxRequests => (requests + 1) * most < QuantityModulus
<1>1. /\ requests \in Nat /\ requests <= MaxRequests /\ MaxRequests \in Nat
      /\ QuantityModulus \in Nat /\ MaxRequests * most < QuantityModulus
  BY MatchingEngineAssumption DEF IInv, TypeOK, FewQuantities
<1>2. Answered \in Nat
  BY <1>1 DEF Answered
<1>3. requests * most <= MaxRequests * most
  BY <1>1, TimesMonotone
<1>4. requests < MaxRequests => (requests + 1) * most <= MaxRequests * most
  BY <1>1, TimesMonotone
<1>5. /\ Answered * most \in Nat /\ requests * most \in Nat /\ MaxRequests * most \in Nat
      /\ (requests + 1) * most \in Nat
  BY <1>1, <1>2
<1>6. (requests + 1) * most = requests * most + most
  BY <1>1
<1>7. taker # None => Answered * most + most = requests * most
  <2>1. taker # None => Answered = requests - 1
    BY DEF Answered
  <2>2. (requests - 1) * most + most = requests * most
    BY <1>1
  <2> QED BY <2>1, <2>2
<1> HIDE DEF Answered
<1> QED BY <1>1, <1>2, <1>3, <1>4, <1>5, <1>6, <1>7

LEMMA ProcessOrderCovered ==
    ASSUME IInv, NEW most \in Nat, FewQuantities(most), Covered(most), ProcessOrder
    PROVE  Covered(most)'
<1> DEFINE given == Answered * most
<1>1. /\ taker = None /\ requests < MaxRequests /\ requests' = requests + 1
      /\ engine' = engine
  BY DEF ProcessOrder
<1>2. /\ requests \in Nat /\ given \in Nat /\ given = requests * most
      /\ (requests + 1) * most = given + most
      /\ (requests + 1) * most < QuantityModulus /\ QuantityModulus \in Nat \ {0}
  BY <1>1, AnsweredFacts, MatchingEngineAssumption DEF Answered
<1>3. LevelsCovered(given)
  BY DEF Covered
<1>4. PICK now \in Nat : now = (Answered * most)' /\ given <= now
  <2>1. Answered' = requests \/ Answered' = requests + 1
    BY <1>1, <1>2 DEF Answered
  <2>2. (Answered * most)' = Answered' * most
    OBVIOUS
  <2> QED BY <1>2, <2>1, <2>2
<1>5. taker' = None => now = given + most
  BY <1>1, <1>2, <1>4 DEF Answered
<1>6. ASSUME LevelsCovered(now)', taker' # None => taker'.quantity <= most
      PROVE  Covered(most)'
  BY <1>1, <1>2, <1>4, <1>6 DEF Covered
<1>7. ASSUME NEW order \in Order, StartMatching(order)
      PROVE  taker'.quantity <= most
  BY <1>7 DEF StartMatching, Order, FewQuantities
<1>8. UNCHANGED book => LevelsCovered(now)'
  <2> SUFFICES ASSUME UNCHANGED book PROVE LevelsCovered(now)'
    OBVIOUS
  <2>1. ASSUME NEW s \in OrderSide, NEW p \in DOMAIN priceLevelMap[s],
               LevelCovered(priceLevelMap[s][p], given)
        PROVE  LevelCovered(priceLevelMap[s][p], now)
    <3> HIDE DEF given
    <3>1. priceLevelMap[s][p].quantity \in Int
      BY LevelOfOrder DEF IInv, TypeOK
    <3> QED BY <1>2, <1>4, <2>1, <3>1 DEF LevelCovered
  <2> QED BY <1>1, <1>3, <2>1 DEF LevelsCovered, LevelCovered, TotalQuantity, book
<1> HIDE DEF given
<1>9. ASSUME NEW order \in Order, HandleOrderNew(order) PROVE Covered(most)'
  BY <1>6, <1>7, <1>8, <1>9 DEF HandleOrderNew
<1>10. ASSUME NEW id \in DOMAIN orderByIDMap, CancelOrder(id) PROVE LevelsCovered(now)'
  BY <1>1, <1>2, <1>3, <1>4, <1>10, CancelCovered
<1>11. ASSUME NEW id \in Ids, NEW side \in OrderSide, HandleOrderCancel(id, side)
       PROVE  Covered(most)'
  BY <1>1, <1>6, <1>8, <1>10, <1>11 DEF HandleOrderCancel
<1>12. ASSUME NEW order \in Order, HandleOrderAmend(order) PROVE Covered(most)'
  <2>1. CASE UNCHANGED <<book, taker>>
    BY <1>1, <1>6, <1>8, <2>1
  <2>2. CASE /\ order.id \in DOMAIN orderByIDMap
             /\ CancelOrder(order.id) /\ StartMatching(order)
    BY <1>6, <1>7, <1>10, <2>2
  <2>3. CASE /\ order.id \in DOMAIN orderByIDMap
             /\ orderByIDMap[order.id].side = order.side
             /\ orderByIDMap[order.id].price = order.price
             /\ AmendQuantity(order) /\ UNCHANGED taker
    <3>1. PICK s, p, r :
              /\ s = order.side /\ p = order.price /\ r = order.quantity
              /\ s \in OrderSide /\ p \in DOMAIN priceLevelMap[s] /\ r \in Nat /\ r <= most
      BY <2>3, MatchingEngineAssumption
         DEF Order, IInv, BookAgrees, PlaceAgrees, FewQuantities
    <3>2. PICK list, all : /\ list = priceLevelMap[s][p].orders
                           /\ all = priceLevelMap[s][p].quantity
      OBVIOUS
    <3>3. list \in Seq(Resting) /\ all \in 0..QuantityModulus - 1
      BY <3>1, <3>2, LevelOfOrder DEF IInv, TypeOK
    <3>4. PICK i \in 1..Len(list) :
              priceLevelMap' = WithLevel(s, p,
                  [orders |-> Resized(list, i, r),
                   quantity |-> Counted(all + r - list[i].quantity)])
      BY <2>3, <3>1, <3>2 DEF AmendQuantity
    <3>5. /\ list[i].quantity \in Nat /\ list[i].quantity <= TotalQuantity(list)
          /\ TotalQuantity(list) \in Int
      BY <3>3, QuantitiesSummable, TotalCovers
    <3>6. PICK n \in Int : n = all + r - list[i].quantity
      BY <1>2, <3>1, <3>3, <3>5
    <3>7. PICK q \in 0..QuantityModulus - 1 : q = Counted(n)
      BY CountedRange
    <3>8. now = given + most
      BY <1>1, <1>5, <2>3
    <3>9. engine.countsQuantity => n <= q /\ q <= now
      <4> SUFFICES ASSUME engine.countsQuantity PROVE n <= q /\ q <= now
        OBVIOUS
      <4>1. TotalQuantity(list) <= all /\ all <= given
        BY <1>3, <3>1, <3>2 DEF LevelsCovered, LevelCovered
      <4>2. 0 <= n /\ n <= now /\ n < QuantityModulus
        BY <1>2, <3>1, <3>3, <3>5, <3>6, <3>8, <4>1
      <4>3. q = n
        BY <3>7, <4>2, CountedIsExact
      <4> QED BY <3>6, <4>2, <4>3
    <3>10. LevelsCovered(now)'
      BY <1>1, <1>2, <1>3, <1>4, <3>1, <3>2, <3>4, <3>6, <3>7, <3>9, ResizeCovered
         DEF IInv, TypeOK
    <3> QED BY <1>1, <1>6, <2>3, <3>10
  <2> QED BY <1>12, <2>1, <2>2, <2>3 DEF HandleOrderAmend
<1> QED BY <1>9, <1>11, <1>12 DEF ProcessOrder

LEMMA MatchCovered ==
    ASSUME IInv, NEW most \in Nat, FewQuantities(most), Covered(most), Match
    PROVE  Covered(most)'
<1>1. PICK price \in Prices :
          AtLevel(price) /\ (FillMatchedOrder(price) \/ FillTaker(price))
  BY DEF Match
<1>2. engine' = engine /\ requests' = requests /\ taker # None
  BY <1>1 DEF Match, AtLevel
<1>3. PICK side : /\ side = Opposite(taker.side) /\ side \in OrderSide
                  /\ price \in DOMAIN priceLevelMap[side]
                  /\ 1 \in 1..Len(priceLevelMap[side][price].orders)
                  /\ taker \in Taker
  BY <1>1, AtLevelHasOrders
<1>4. PICK list, q, matched :
          /\ list = priceLevelMap[side][price].orders
          /\ q = priceLevelMap[side][price].quantity
          /\ list \in Seq(Resting) /\ q \in 0..QuantityModulus - 1
          /\ matched = list[1]
  BY <1>3, LevelOfOrder DEF IInv, TypeOK
<1>5. matched.quantity \in Nat /\ taker.quantity \in Nat /\ QuantityModulus \in Nat
  BY <1>3, <1>4, QuantitiesSummable, MatchingEngineAssumption DEF Taker
<1>6. PICK given \in Nat, now \in Nat :
          given = Answered * most /\ now = (Answered * most)' /\ given <= now
  <2>1. requests \in Nat /\ Answered * most \in Nat /\ requests * most = Answered * most + most
    BY <1>2, AnsweredFacts DEF Covered
  <2>2. Answered = requests - 1 /\ (Answered' = requests \/ Answered' = requests - 1)
    BY <1>2 DEF Answered
  <2>3. (Answered * most)' = Answered' * most
    OBVIOUS
  <2>4. CASE Answered' = requests
    BY <2>1, <2>3, <2>4
  <2>5. CASE Answered' = requests - 1
    BY <2>1, <2>2, <2>3, <2>5
  <2> QED BY <2>2, <2>4, <2>5
<1>7. LevelsCovered(given) /\ taker.quantity <= most /\ requests > 0
  BY <1>2, <1>6 DEF Covered
<1>8. engine.countsQuantity => q <= now
  BY <1>3, <1>4, <1>6, <1>7 DEF LevelsCovered, LevelCovered
<1>9. taker'.quantity \in Nat /\ taker'.quantity <= taker.quantity
  <2>1. CASE FillMatchedOrder(price)
    <3>1. taker.quantity >= matched.quantity
          /\ taker'.quantity = taker.quantity - matched.quantity
      BY <1>3, <1>4, <2>1 DEF FillMatchedOrder, Taker
    <3> QED BY <1>5, <3>1
  <2>2. CASE FillTaker(price)
    <3>1. taker'.quantity = 0
      BY <1>3, <2>2 DEF FillTaker, Taker
    <3> QED BY <1>5, <3>1
  <2> QED BY <1>1, <2>1, <2>2
<1>10. LevelsCovered(now)' => Covered(most)'
  BY <1>2, <1>3, <1>5, <1>6, <1>7, <1>9 DEF Covered, Taker
<1>11. CASE FillMatchedOrder(price)
  <2>1. EraseOrder(side, price, 1, q)
    BY <1>3, <1>4, <1>11 DEF FillMatchedOrder
  <2>2. q - list[1].quantity <= q
    BY <1>4, <1>5
  <2>3. LevelsCovered(now)'
    BY <1>2, <1>3, <1>4, <1>6, <1>7, <1>8, <2>1, <2>2, EraseOrderCovered DEF IInv, TypeOK
  <2> QED BY <1>10, <2>3
<1>12. CASE FillTaker(price)
  <2>1. PICK n \in Nat : n = matched.quantity - taker.quantity
    <3>1. taker.quantity < matched.quantity
      BY <1>3, <1>4, <1>12 DEF FillTaker
    <3>2. matched.quantity \in Nat /\ taker.quantity \in Nat
      BY <1>3, <1>4, <1>5
    <3> QED BY ONLY <3>1, <3>2
  <2>2. priceLevelMap' = WithLevel(side, price,
            [orders |-> Resized(list, 1, n), quantity |-> q])
    BY <1>3, <1>4, <1>12, <2>1 DEF FillTaker
  <2>3. q + n - list[1].quantity <= q
    <3>1. list[1].quantity = matched.quantity /\ q \in Int
      BY <1>4, <1>5
    <3> QED BY <1>5, <2>1, <3>1
  <2>4. LevelsCovered(now)'
    BY <1>2, <1>3, <1>4, <1>6, <1>7, <1>8, <2>2, <2>3, ResizeCovered DEF IInv, TypeOK
  <2> QED BY <1>10, <2>4
<1> QED BY <1>1, <1>11, <1>12

LEMMA EndMatchingCovered ==
    ASSUME IInv, NEW most \in Nat, FewQuantities(most), Covered(most), EndMatching
    PROVE  Covered(most)'
<1>1. /\ taker # None /\ taker' = None /\ engine' = engine /\ requests' = requests
      /\ taker \in Taker
  BY DEF EndMatching, IInv, TypeOK
<1>2. PICK given \in Nat, now \in Nat :
          /\ given = Answered * most /\ now = requests * most
          /\ given + most = now /\ now < QuantityModulus
  BY <1>1, AnsweredFacts DEF Covered
<1>3. LevelsCovered(given) /\ taker.quantity <= most /\ requests > 0
  BY <1>1, <1>2 DEF Covered
<1>4. now = (Answered * most)'
  BY <1>1, <1>2 DEF Answered
<1>5. LevelsCovered(now)' => Covered(most)'
  BY <1>1, <1>4 DEF Covered
<1>6. CASE UNCHANGED book
  <2>1. ASSUME NEW s \in OrderSide, NEW p \in DOMAIN priceLevelMap[s],
               LevelCovered(priceLevelMap[s][p], given)
        PROVE  LevelCovered(priceLevelMap[s][p], now)
    <3>1. priceLevelMap[s][p].quantity \in Int
      BY LevelOfOrder DEF IInv, TypeOK
    <3> QED BY <1>2, <2>1, <3>1 DEF LevelCovered
  <2>2. LevelsCovered(now)'
    BY <1>1, <1>3, <1>6, <2>1 DEF LevelsCovered, LevelCovered, TotalQuantity, book
  <2> QED BY <1>5, <2>2
<1>7. CASE InsertOrder(taker)
  <2> DEFINE side == taker.side
             price == taker.price
             old == LevelAt(side, price)
             new == [id |-> taker.id, quantity |-> taker.quantity]
             level == [orders |-> Append(old.orders, new),
                       quantity |-> Counted(old.quantity + taker.quantity)]
  <2>1. /\ side \in OrderSide /\ price \in Prices /\ new \in Resting
        /\ taker.quantity \in Nat /\ new.quantity = taker.quantity
    BY <1>1 DEF Taker, Resting
  <2>2. /\ old.orders \in Seq(Resting) /\ old.quantity \in 0..QuantityModulus - 1
        /\ QuantityModulus \in Nat \ {0}
        /\ engine.countsQuantity => LevelCovered(old, given)
    <3>1. CASE price \in DOMAIN priceLevelMap[side]
      <4>1. old = priceLevelMap[side][price]
        BY <3>1 DEF LevelAt
      <4> HIDE DEF old, side, price
      <4> QED BY <1>3, <2>1, <3>1, <4>1, LevelOfOrder DEF IInv, TypeOK, LevelsCovered
    <3>2. CASE price \notin DOMAIN priceLevelMap[side]
      <4>1. old = [orders |-> <<>>, quantity |-> 0]
        BY <3>2 DEF LevelAt
      <4>2. QuantityModulus \in Nat \ {0} /\ 0 \in 0..QuantityModulus - 1
        BY MatchingEngineAssumption
      <4> HIDE DEF old
      <4> QED BY <1>2, <4>1, <4>2, TotalOfEmpty DEF LevelCovered
    <3> QED BY <3>1, <3>2
  <2>3. priceLevelMap' = WithLevel(side, price, level)
    BY <1>7 DEF InsertOrder
  <2>4. PICK n \in Int : n = old.quantity + taker.quantity
    BY <2>1, <2>2
  <2>5. Counted(n) \in 0..QuantityModulus - 1
    BY CountedRange
  <2>6. level.orders = Append(old.orders, new) /\ level.quantity = Counted(n)
    BY <2>4
  <2>7. level \in PriceLevel
    <3>1. Append(old.orders, new) \in Seq(Resting)
      BY <2>1, <2>2, AppendProperties
    <3> QED BY <2>4, <2>5, <3>1 DEF PriceLevel
  <2>8. TotalQuantity(Append(old.orders, new)) = TotalQuantity(old.orders) + taker.quantity
        /\ TotalQuantity(old.orders) \in Int
    <3> HIDE DEF old, new
    <3> QED BY <2>1, <2>2, TotalAppended, QuantitiesSummable
  <2> HIDE DEF level, old, new, side, price
  <2>9. LevelCovered(level, now) \/ ~engine.countsQuantity
    <3> SUFFICES ASSUME engine.countsQuantity PROVE LevelCovered(level, now)
      OBVIOUS
    <3>1. TotalQuantity(old.orders) <= old.quantity /\ old.quantity <= given
      BY <2>2 DEF LevelCovered
    <3>2. 0 <= n /\ n <= now /\ n < QuantityModulus
      BY <1>2, <1>3, <2>1, <2>2, <2>4, <3>1
    <3>3. Counted(n) = n
      BY <3>2, CountedIsExact
    <3> QED BY <2>1, <2>2, <2>4, <2>6, <2>8, <3>1, <3>2, <3>3 DEF LevelCovered
  <2>10. given <= now
    BY <1>2
  <2> QED BY <1>1, <1>2, <1>3, <1>5, <2>1, <2>3, <2>7, <2>9, <2>10, LevelChangeCovered
             DEF IInv, TypeOK
<1> QED BY <1>6, <1>7 DEF EndMatching

\* Short of requests that could ask for more than a uint32_t holds, a level
\* never counts less than its orders hold: cancels and amends do not wrap.
THEOREM LevelsCountEnough ==
    ASSUME NEW most \in Nat, FewQuantities(most)
    PROVE  Spec => []LevelQuantityCovers
<1>1. Init => Covered(most)
  <2> SUFFICES ASSUME Init PROVE Covered(most)
    OBVIOUS
  <2>1. \A s \in OrderSide : DOMAIN priceLevelMap[s] = {}
    BY DEF Init
  <2>2. taker = None
    BY DEF Init
  <2> QED BY <2>1, <2>2 DEF Covered, LevelsCovered
<1>2. IInv /\ Covered(most) /\ [Next]_vars => Covered(most)'
  <2>1. IInv /\ Covered(most) /\ UNCHANGED vars => Covered(most)'
    BY DEF vars, book, Covered, LevelsCovered, LevelCovered, Answered, TotalQuantity
  <2> QED BY <2>1, ProcessOrderCovered, MatchCovered, EndMatchingCovered DEF Next
<1>3. Covered(most) /\ IInv => LevelQuantityCovers
  <2> SUFFICES ASSUME Covered(most), IInv, engine.countsQuantity,
                      NEW side \in OrderSide, NEW p \in DOMAIN priceLevelMap[side]
               PROVE  priceLevelMap[side][p].quantity
                        >= TotalQuantity(priceLevelMap[side][p].orders)
    BY DEF LevelQuantityCovers
  <2>1. TotalQuantity(priceLevelMap[side][p].orders) <= priceLevelMap[side][p].quantity
    BY DEF Covered, LevelsCovered, LevelCovered
  <2>2. /\ TotalQuantity(priceLevelMap[side][p].orders) \in Int
        /\ priceLevelMap[side][p].quantity \in Int
    BY LevelOfOrder, QuantitiesSummable DEF IInv, TypeOK
  <2> QED BY <2>1, <2>2
<1> QED BY <1>1, <1>2, <1>3, MatchingEngineInvariant, PTL DEF Spec

-----------------------------------------------------------------------------
(* The book as one queue.  `arrivals' has the ids of the resting orders in  *)
(* the order they came; a level's list is in the same order, and the level  *)
(* matchOrder walks is the first that a taker may trade with.               *)

\* The orders of a level came in the order of its list.
ListInOrder(orders, ids) ==
    \A k, n \in 1..Len(orders) : k < n =>
        \A i, j \in 1..Len(ids) :
            ids[i] = orders[k].id /\ ids[j] = orders[n].id => i < j

\* The ids are those of the id map, each once, and order every level.
InArrivalOrder(ids, places, levels) ==
    /\ ids \in Seq(Ids)
    /\ \A i \in 1..Len(ids) : ids[i] \in DOMAIN places
    /\ \A id \in DOMAIN places : \E i \in 1..Len(ids) : ids[i] = id
    /\ \A i, j \in 1..Len(ids) : ids[i] = ids[j] => i = j
    /\ \A s \in OrderSide : \A p \in DOMAIN levels[s] :
           ListInOrder(levels[s][p].orders, ids)

ArrivalsAgree == InArrivalOrder(arrivals, orderByIDMap, priceLevelMap)

\* matchOrder goes to another level only after emptying the one it is in.
WalksFirst ==
    taker # None /\ taker.level # None => NextLevel(taker, taker.level)

\* The inductive invariant under which every step is one of PriorityBook.
QueueInv == IInv /\ ArrivalsAgree /\ WalksFirst

\* RestingOrder, in a map and levels before or after a step.
RestingIn(id, places, levels) ==
    LET place == places[id]
        orders == levels[place.side][place.price].orders
        i == CHOOSE k \in 1..Len(orders) : orders[k].id = id
    IN [id |-> id, side |-> place.side, price |-> place.price,
        quantity |-> orders[i].quantity]

QueueOf(ids, places, levels) ==
    [i \in 1..Len(ids) |-> RestingIn(ids[i], places, levels)]

LEMMA QueueIs ==
    /\ Queue = QueueOf(arrivals, orderByIDMap, priceLevelMap)
    /\ Queue' = QueueOf(arrivals', orderByIDMap', priceLevelMap')
BY DEF Queue, RestingOrder, QueueOf, RestingIn

\* The entry that the k-th order of a level stands for.
EntryAt(list, k, s, p) ==
    [id |-> list[k].id, side |-> s, price |-> p, quantity |-> list[k].quantity]

\* The list of a level, which agrees with the id map.
AgreedList(orders, places, levels, s, p) ==
    orders = levels[s][p].orders /\ ListAgrees(orders, places, s, p)

\* CHOOSE finds the order of an id in the level of its place.
LEMMA RestingInLevel ==
    ASSUME NEW orders, NEW places, NEW levels, NEW s, NEW p,
           AgreedList(orders, places, levels, s, p), NEW k \in 1..Len(orders)
    PROVE  RestingIn(orders[k].id, places, levels) = EntryAt(orders, k, s, p)
<1>1. PICK id : id = orders[k].id
  OBVIOUS
<1>2. places[id] = [side |-> s, price |-> p]
  BY <1>1 DEF AgreedList, ListAgrees
<1>3. places[id].side = s /\ places[id].price = p
  BY <1>2
<1>4. k \in 1..Len(orders) /\ \A n \in 1..Len(orders) : orders[n].id = id => n = k
  BY <1>1 DEF AgreedList, ListAgrees
<1>5. (CHOOSE n \in 1..Len(orders) : orders[n].id = id) = k
  BY <1>1, <1>4
<1>6. orders = levels[s][p].orders
  BY DEF AgreedList
<1>7. RestingIn(id, places, levels)
          = [id |-> id, side |-> s, price |-> p, quantity |-> orders[k].quantity]
  BY <1>3, <1>5, <1>6 DEF RestingIn
<1> QED
  BY <1>1, <1>7 DEF EntryAt

\* An order that a step left in its level stands for the same entry.
LEMMA SameEntry ==
    ASSUME NEW orders, NEW places, NEW levels, NEW s, NEW p,
           AgreedList(orders, places, levels, s, p), NEW k \in 1..Len(orders),
           NEW later, NEW laterPlaces, NEW laterLevels,
           AgreedList(later, laterPlaces, laterLevels, s, p),
           NEW n \in 1..Len(later), later[n] = orders[k]
    PROVE  RestingIn(orders[k].id, laterPlaces, laterLevels)
               = RestingIn(orders[k].id, places, levels)
<1>1. RestingIn(orders[k].id, places, levels) = EntryAt(orders, k, s, p)
  BY RestingInLevel
<1>2. RestingIn(later[n].id, laterPlaces, laterLevels) = EntryAt(later, n, s, p)
  BY RestingInLevel
<1> QED
  BY <1>1, <1>2 DEF EntryAt

\* A known id is found in a level.
LEMMA KnownOrder ==
    ASSUME BookTypeOK, BookAgrees, NEW id \in DOMAIN orderByIDMap
    PROVE  \E s \in OrderSide : \E p \in DOMAIN priceLevelMap[s] :
               \E k \in 1..Len(priceLevelMap[s][p].orders) :
                   priceLevelMap[s][p].orders[k].id = id
BY DEF BookTypeOK, BookAgrees, PlaceAgrees, Place

LEMMA LevelLists ==
    ASSUME BookTypeOK, NEW s \in OrderSide, NEW p \in DOMAIN priceLevelMap[s]
    PROVE  /\ priceLevelMap[s][p].orders \in Seq(Resting)
           /\ Len(priceLevelMap[s][p].orders) \in Nat
           /\ \A k \in 1..Len(priceLevelMap[s][p].orders) :
                  /\ priceLevelMap[s][p].orders[k] \in Resting
                  /\ priceLevelMap[s][p].orders[k].id \in Ids
                  /\ priceLevelMap[s][p].orders[k].quantity \in Nat
<1>1. PICK list \in Seq(Resting) : list = priceLevelMap[s][p].orders
  BY DEF BookTypeOK, PriceLevel
<1>2. Len(list) \in Nat /\ \A k \in 1..Len(list) : list[k] \in Resting
  OBVIOUS
<1>3. \A r \in Resting : r.id \in Ids /\ r.quantity \in Nat
  BY DEF Resting
<1> QED
  BY <1>1, <1>2, <1>3

-----------------------------------------------------------------------------

\* The elements of a list after EraseAt, in the list.
From(i, k) == IF k < i THEN k ELSE k + 1

\* What is known of a list without its element at i.
LessOne(list, i, shorter) ==
    /\ Len(shorter) = Len(list) - 1
    /\ \A k \in 1..Len(list) - 1 :
           /\ shorter[k] = list[From(i, k)]
           /\ From(i, k) \in 1..Len(list) /\ From(i, k) # i
    /\ \A k, n \in 1..Len(list) - 1 : k < n <=> From(i, k) < From(i, n)
    /\ \A m \in 1..Len(list) : m # i =>
           \E k \in 1..Len(list) - 1 : From(i, k) = m

LEMMA ErasedSeq ==
    ASSUME NEW S, NEW list \in Seq(S), NEW i \in 1..Len(list)
    PROVE  EraseAt(list, i) \in Seq(S) /\ LessOne(list, i, EraseAt(list, i))
<1>1. Len(list) \in Nat \ {0} /\ Len(list) - 1 \in Nat
  OBVIOUS
<1>2. \A k \in 1..Len(list) : list[k] \in S
  OBVIOUS
<1>3. \A k \in 1..Len(list) - 1 : From(i, k) \in 1..Len(list) /\ From(i, k) # i
  BY <1>1 DEF From
<1>4. \A k, n \in 1..Len(list) - 1 : k < n <=> From(i, k) < From(i, n)
  BY <1>1 DEF From
<1>5. ASSUME NEW m \in 1..Len(list), m # i
      PROVE  \E k \in 1..Len(list) - 1 : From(i, k) = m
  <2>1. CASE m < i
    <3>1. m \in 1..Len(list) - 1 /\ From(i, m) = m
      BY <2>1, <1>1 DEF From
    <3> QED BY <3>1
  <2>2. CASE m > i
    <3>1. m - 1 \in 1..Len(list) - 1 /\ From(i, m - 1) = m
      BY <2>2, <1>1 DEF From
    <3> QED BY <3>1
  <2> QED BY <1>5, <2>1, <2>2
<1>6. \A k \in 1..Len(list) - 1 :
          (IF k < i THEN list[k] ELSE list[k + 1]) = list[From(i, k)]
  BY <1>1 DEF From
<1>7. EraseAt(list, i) = [k \in 1..Len(list) - 1 |-> list[From(i, k)]]
  BY <1>6 DEF EraseAt
<1>8. EraseAt(list, i) \in [1..Len(list) - 1 -> S]
  BY <1>2, <1>3, <1>7
<1>9. EraseAt(list, i) \in Seq(S) /\ Len(EraseAt(list, i)) = Len(list) - 1
  BY <1>1, <1>8, SeqDef, LenProperties
<1> QED
  BY <1>3, <1>4, <1>5, <1>7, <1>9 DEF LessOne

\* EraseAt is what the abstract specification calls WithoutAt.
LEMMA ErasedIsSubSeqs ==
    ASSUME NEW S, NEW list \in Seq(S), NEW i \in 1..Len(list)
    PROVE  EraseAt(list, i) = SubSeq(list, 1, i - 1) \o SubSeq(list, i + 1, Len(list))
<1> DEFINE front == SubSeq(list, 1, i - 1)
           back == SubSeq(list, i + 1, Len(list))
<1>1. Len(list) \in Nat \ {0} /\ Len(list) - 1 \in Nat
  OBVIOUS
<1>2. \A k \in 1..Len(list) : list[k] \in S
  OBVIOUS
<1>3. front \in Seq(S) /\ Len(front) = i - 1 /\ \A k \in 1..i - 1 : front[k] = list[k]
  <2>1. 1 \in Int /\ i - 1 \in Int /\ \A k \in 1..i - 1 : list[k] \in S
    BY <1>1, <1>2
  <2> HIDE DEF front
  <2>2. /\ front \in Seq(S)
        /\ Len(front) = IF 1 <= i - 1 THEN i - 1 - 1 + 1 ELSE 0
        /\ \A k \in 1..i - 1 - 1 + 1 : front[k] = list[1 + k - 1]
    BY <2>1, SubSeqProperties DEF front
  <2> QED BY <2>2, <1>1
<1>4. /\ back \in Seq(S) /\ Len(back) = Len(list) - i
      /\ \A k \in 1..Len(list) - i : back[k] = list[k + i]
  <2>1. i + 1 \in Int /\ Len(list) \in Int /\ \A k \in i + 1..Len(list) : list[k] \in S
    BY <1>1, <1>2
  <2> HIDE DEF back
  <2>2. /\ back \in Seq(S)
        /\ Len(back) = IF i + 1 <= Len(list) THEN Len(list) - (i + 1) + 1 ELSE 0
        /\ \A k \in 1..Len(list) - (i + 1) + 1 : back[k] = list[(i + 1) + k - 1]
    BY <2>1, SubSeqProperties DEF back
  <2> QED BY <2>2, <1>1
<1> HIDE DEF front, back
<1>5. /\ front \o back \in Seq(S)
      /\ Len(front \o back) = Len(front) + Len(back)
      /\ \A k \in 1..Len(front) + Len(back) :
             (front \o back)[k] = IF k <= Len(front) THEN front[k] ELSE back[k - Len(front)]
  BY <1>3, <1>4, ConcatProperties
<1>6. \A k \in 1..Len(list) - 1 :
          (front \o back)[k] = IF k < i THEN list[k] ELSE list[k + 1]
  <2> TAKE k \in 1..Len(list) - 1
  <2>1. CASE k < i
    BY <1>1, <1>3, <1>4, <1>5, <2>1
  <2>2. CASE ~(k < i)
    <3>1. k - (i - 1) \in 1..Len(list) - i /\ (k - (i - 1)) + i = k + 1
      BY <1>1, <2>2
    <3>2. (front \o back)[k] = back[k - (i - 1)]
      BY <1>1, <1>3, <1>4, <1>5, <2>2
    <3> QED BY <1>4, <2>2, <3>1, <3>2
  <2> QED BY <2>1, <2>2
<1>7. Len(front \o back) = Len(list) - 1
  BY <1>1, <1>3, <1>4, <1>5
<1>8. front \o back = [k \in 1..Len(list) - 1 |-> (front \o back)[k]]
  BY <1>5, <1>7, LenProperties
<1>9. front \o back = [k \in 1..Len(list) - 1 |-> IF k < i THEN list[k] ELSE list[k + 1]]
  BY <1>6, <1>8
<1> QED
  BY <1>9 DEF EraseAt, front, back

-----------------------------------------------------------------------------

\* An order left in a level by a step stands for the same entry.
LEMMA EntryKept ==
    ASSUME BookAgrees, BookAgrees', NEW s \in OrderSide,
           NEW p \in DOMAIN priceLevelMap[s], p \in DOMAIN priceLevelMap'[s],
           NEW k \in 1..Len(priceLevelMap[s][p].orders),
           NEW n \in 1..Len(priceLevelMap'[s][p].orders),
           priceLevelMap'[s][p].orders[n] = priceLevelMap[s][p].orders[k]
    PROVE  RestingIn(priceLevelMap[s][p].orders[k].id, orderByIDMap', priceLevelMap')
               = RestingIn(priceLevelMap[s][p].orders[k].id, orderByIDMap, priceLevelMap)
<1>1. PICK orders : orders = priceLevelMap[s][p].orders
  OBVIOUS
<1>2. PICK later : later = priceLevelMap'[s][p].orders
  OBVIOUS
<1>3. AgreedList(orders, orderByIDMap, priceLevelMap, s, p)
  BY <1>1 DEF AgreedList, BookAgrees
<1>4. AgreedList(later, orderByIDMap', priceLevelMap', s, p)
  BY <1>2 DEF AgreedList, BookAgrees
<1>5. k \in 1..Len(orders) /\ n \in 1..Len(later) /\ later[n] = orders[k]
  BY <1>1, <1>2
<1>6. RestingIn(orders[k].id, orderByIDMap', priceLevelMap')
          = RestingIn(orders[k].id, orderByIDMap, priceLevelMap)
  BY <1>3, <1>4, <1>5, SameEntry
<1> QED
  BY <1>1, <1>6

\* The lists of the levels after EraseOrder.
LEMMA EraseLists ==
    ASSUME BookTypeOK, NEW side \in OrderSide, NEW price \in DOMAIN priceLevelMap[side],
           NEW i \in 1..Len(priceLevelMap[side][price].orders),
           NEW q \in 0..QuantityModulus - 1,
           EraseOrder(side, price, i, q)
    PROVE  /\ \A s \in OrderSide : \A p \in DOMAIN priceLevelMap'[s] :
                  /\ p \in DOMAIN priceLevelMap[s]
                  /\ \/ priceLevelMap'[s][p] = priceLevelMap[s][p]
                     \/ /\ s = side /\ p = price
                        /\ priceLevelMap'[s][p].orders
                               = EraseAt(priceLevelMap[side][price].orders, i)
           /\ \A s \in OrderSide : \A p \in DOMAIN priceLevelMap[s] :
                  s # side \/ p # price =>
                      /\ p \in DOMAIN priceLevelMap'[s]
                      /\ priceLevelMap'[s][p] = priceLevelMap[s][p]
           /\ Len(priceLevelMap[side][price].orders) # 1 =>
                  /\ price \in DOMAIN priceLevelMap'[side]
                  /\ priceLevelMap'[side][price].orders
                         = EraseAt(priceLevelMap[side][price].orders, i)
<1>1. PICK list : list = priceLevelMap[side][price].orders
  OBVIOUS
<1>2. price \in Prices /\ list \in Seq(Resting) /\ i \in 1..Len(list)
  BY <1>1 DEF BookTypeOK, PriceLevel
<1>3. EraseAt(list, i) \in Seq(Resting) /\ (EraseAt(list, i) = <<>> <=> Len(list) = 1)
  BY <1>2, EraseAtList
<1>4. PICK level : level = [orders |-> EraseAt(list, i), quantity |-> q]
  OBVIOUS
<1>5. level \in PriceLevel /\ level.orders = EraseAt(list, i)
  BY <1>3, <1>4 DEF PriceLevel
<1>6. priceLevelMap' = WithLevel(side, price, level)
  BY <1>1, <1>4 DEF EraseOrder
<1>7. /\ \A s \in OrderSide : \A p \in DOMAIN priceLevelMap'[s] :
             \/ s = side /\ p = price /\ priceLevelMap'[s][p] = level
             \/ /\ s # side \/ p # price
                /\ p \in DOMAIN priceLevelMap[s]
                /\ priceLevelMap'[s][p] = priceLevelMap[s][p]
      /\ \A s \in OrderSide : \A p \in DOMAIN priceLevelMap[s] :
             s # side \/ p # price =>
                 p \in DOMAIN priceLevelMap'[s] /\ priceLevelMap'[s][p] = priceLevelMap[s][p]
      /\ level.orders # <<>> =>
             price \in DOMAIN priceLevelMap'[side] /\ priceLevelMap'[side][price] = level
  BY <1>2, <1>5, <1>6, LevelChanged
<1> QED
  BY <1>1, <1>3, <1>5, <1>7

\* Lists and arrivals lose an order and keep their order.
LEMMA EraseInOrder ==
    ASSUME NEW ids \in Seq(Ids), NEW orders \in Seq(Resting), ListInOrder(orders, ids),
           NEW j \in 1..Len(ids)
    PROVE  /\ ListInOrder(orders, EraseAt(ids, j))
           /\ \A i \in 1..Len(orders) : ListInOrder(EraseAt(orders, i), EraseAt(ids, j))
<1>1. LessOne(ids, j, EraseAt(ids, j)) /\ Len(ids) \in Nat /\ Len(orders) \in Nat
  BY ErasedSeq
<1>2. ListInOrder(orders, EraseAt(ids, j))
  <2>1. PICK others : others = EraseAt(ids, j)
    OBVIOUS
  <2>2. /\ Len(others) = Len(ids) - 1
        /\ \A a \in 1..Len(ids) - 1 :
               others[a] = ids[From(j, a)] /\ From(j, a) \in 1..Len(ids)
        /\ \A a, b \in 1..Len(ids) - 1 : a < b <=> From(j, a) < From(j, b)
    BY <1>1, <2>1 DEF LessOne
  <2>3. ASSUME NEW k \in 1..Len(orders), NEW n \in 1..Len(orders), k < n,
               NEW a \in 1..Len(others), NEW b \in 1..Len(others),
               others[a] = orders[k].id, others[b] = orders[n].id
        PROVE  a < b
    <3>1. a \in 1..Len(ids) - 1 /\ b \in 1..Len(ids) - 1
      BY <2>2
    <3>2. /\ ids[From(j, a)] = orders[k].id /\ From(j, a) \in 1..Len(ids)
          /\ ids[From(j, b)] = orders[n].id /\ From(j, b) \in 1..Len(ids)
      BY <2>2, <2>3, <3>1
    <3>3. From(j, a) < From(j, b)
      BY <2>3, <3>2 DEF ListInOrder
    <3> QED BY <2>2, <3>1, <3>3
  <2>4. ListInOrder(orders, others)
    BY <2>3 DEF ListInOrder
  <2> QED BY <2>1, <2>4
<1>3. ASSUME NEW i \in 1..Len(orders)
      PROVE  ListInOrder(EraseAt(orders, i), EraseAt(ids, j))
  <2>1. PICK shorter : shorter = EraseAt(orders, i)
    OBVIOUS
  <2>2. PICK others : others = EraseAt(ids, j)
    OBVIOUS
  <2>3. LessOne(orders, i, shorter)
    BY <2>1, ErasedSeq
  <2>4. /\ Len(shorter) = Len(orders) - 1
        /\ \A a \in 1..Len(orders) - 1 :
               shorter[a] = orders[From(i, a)] /\ From(i, a) \in 1..Len(orders)
        /\ \A a, b \in 1..Len(orders) - 1 : a < b <=> From(i, a) < From(i, b)
    BY <2>3 DEF LessOne
  <2>5. ASSUME NEW k \in 1..Len(shorter), NEW n \in 1..Len(shorter), k < n,
               NEW a \in 1..Len(others), NEW b \in 1..Len(others),
               others[a] = shorter[k].id, others[b] = shorter[n].id
        PROVE  a < b
    <3>1. k \in 1..Len(orders) - 1 /\ n \in 1..Len(orders) - 1
      BY <2>4
    <3>2. /\ others[a] = orders[From(i, k)].id /\ From(i, k) \in 1..Len(orders)
          /\ others[b] = orders[From(i, n)].id /\ From(i, n) \in 1..Len(orders)
          /\ From(i, k) < From(i, n)
      BY <2>4, <2>5, <3>1
    <3> QED BY <1>2, <2>2, <3>2 DEF ListInOrder
  <2>6. ListInOrder(shorter, others)
    BY <2>5 DEF ListInOrder
  <2> QED BY <2>1, <2>2, <2>6
<1> QED
  BY <1>2, <1>3

\* EraseOrder takes one entry out of the queue.
LEMMA EraseOrderQueue ==
    ASSUME BookTypeOK, BookAgrees, BookAgrees', ArrivalsAgree,
           NEW side \in OrderSide, NEW price \in DOMAIN priceLevelMap[side],
           NEW i \in 1..Len(priceLevelMap[side][price].orders),
           NEW q \in 0..QuantityModulus - 1,
           EraseOrder(side, price, i, q)
    PROVE  /\ ArrivalsAgree'
           /\ \E j \in 1..Len(arrivals) :
                  /\ arrivals[j] = priceLevelMap[side][price].orders[i].id
                  /\ Queue' = EraseAt(Queue, j)
<1>1. PICK list, id : list = priceLevelMap[side][price].orders /\ id = list[i].id
  OBVIOUS
<1>2. orderByIDMap' = Removed(orderByIDMap, id) /\ Forget(id)
  BY <1>1 DEF EraseOrder
<1>3. PICK j \in 1..Len(arrivals) : arrivals[j] = id /\ arrivals' = EraseAt(arrivals, j)
  BY <1>2 DEF Forget
<1>4. arrivals \in Seq(Ids)
  BY DEF ArrivalsAgree, InArrivalOrder
<1>5. /\ arrivals' \in Seq(Ids) /\ Len(arrivals') = Len(arrivals) - 1
      /\ Len(arrivals) \in Nat \ {0}
      /\ \A k \in 1..Len(arrivals) - 1 :
             /\ arrivals'[k] = arrivals[From(j, k)]
             /\ From(j, k) \in 1..Len(arrivals) /\ From(j, k) # j
      /\ \A k, n \in 1..Len(arrivals) - 1 : k < n <=> From(j, k) < From(j, n)
      /\ \A m \in 1..Len(arrivals) : m # j =>
             \E k \in 1..Len(arrivals) - 1 : From(j, k) = m
  <2>1. arrivals' \in Seq(Ids) /\ LessOne(arrivals, j, arrivals')
    BY <1>3, <1>4, ErasedSeq
  <2>2. Len(arrivals) \in Nat \ {0}
    BY <1>4
  <2> QED BY <2>1, <2>2 DEF LessOne
<1>6. /\ DOMAIN orderByIDMap' = DOMAIN orderByIDMap \ {id}
      /\ \A d \in DOMAIN orderByIDMap' : orderByIDMap'[d] = orderByIDMap[d]
  BY <1>2 DEF Removed
<1>7. /\ \A s \in OrderSide : \A p \in DOMAIN priceLevelMap'[s] :
             /\ p \in DOMAIN priceLevelMap[s]
             /\ \/ priceLevelMap'[s][p] = priceLevelMap[s][p]
                \/ /\ s = side /\ p = price
                   /\ priceLevelMap'[s][p].orders = EraseAt(list, i)
      /\ \A s \in OrderSide : \A p \in DOMAIN priceLevelMap[s] :
             s # side \/ p # price =>
                 /\ p \in DOMAIN priceLevelMap'[s]
                 /\ priceLevelMap'[s][p] = priceLevelMap[s][p]
      /\ Len(list) # 1 =>
             /\ price \in DOMAIN priceLevelMap'[side]
             /\ priceLevelMap'[side][price].orders = EraseAt(list, i)
  BY <1>1, EraseLists
<1>8. list \in Seq(Resting) /\ i \in 1..Len(list)
  BY <1>1, LevelLists
<1>9. ArrivalsAgree'
  <2>1. \A k \in 1..Len(arrivals') : arrivals'[k] \in DOMAIN orderByIDMap'
    <3>1. \A k \in 1..Len(arrivals) - 1 :
              arrivals[From(j, k)] # id /\ arrivals[From(j, k)] \in DOMAIN orderByIDMap
      BY <1>3, <1>5 DEF ArrivalsAgree, InArrivalOrder
    <3> QED BY <1>5, <1>6, <3>1
  <2>2. ASSUME NEW d \in DOMAIN orderByIDMap'
        PROVE  \E k \in 1..Len(arrivals') : arrivals'[k] = d
    <3>1. PICK m \in 1..Len(arrivals) : arrivals[m] = d
      BY <1>6 DEF ArrivalsAgree, InArrivalOrder
    <3>2. m # j
      BY <1>3, <1>6, <3>1
    <3> QED BY <1>5, <3>1, <3>2
  <2>3. \A k, n \in 1..Len(arrivals') : arrivals'[k] = arrivals'[n] => k = n
    <3>1. \A k, n \in 1..Len(arrivals) - 1 : From(j, k) = From(j, n) => k = n
      BY <1>5 DEF From
    <3>2. \A k, n \in 1..Len(arrivals) : arrivals[k] = arrivals[n] => k = n
      BY DEF ArrivalsAgree, InArrivalOrder
    <3>3. ASSUME NEW k \in 1..Len(arrivals'), NEW n \in 1..Len(arrivals'),
                 arrivals'[k] = arrivals'[n]
          PROVE  k = n
      <4>1. k \in 1..Len(arrivals) - 1 /\ n \in 1..Len(arrivals) - 1
        BY <1>5
      <4>2. From(j, k) = From(j, n)
        BY <1>5, <3>2, <3>3, <4>1
      <4> QED BY <3>1, <4>1, <4>2
    <3> QED BY <3>3
  <2>4. ASSUME NEW s \in OrderSide, NEW p \in DOMAIN priceLevelMap'[s]
        PROVE  ListInOrder(priceLevelMap'[s][p].orders, arrivals')
    <3>1. p \in DOMAIN priceLevelMap[s]
      BY <1>7
    <3>2. PICK orders \in Seq(Resting) : orders = priceLevelMap[s][p].orders
      BY <3>1, LevelLists
    <3>3. ListInOrder(orders, arrivals)
      BY <3>1, <3>2 DEF ArrivalsAgree, InArrivalOrder
    <3>4. /\ ListInOrder(orders, arrivals')
          /\ \A k \in 1..Len(orders) : ListInOrder(EraseAt(orders, k), arrivals')
      BY <1>3, <1>4, <3>3, EraseInOrder
    <3> QED BY <1>1, <1>7, <1>8, <3>2, <3>4
  <2> QED BY <1>5, <2>1, <2>2, <2>3, <2>4 DEF ArrivalsAgree, InArrivalOrder
<1>10. ASSUME NEW d \in DOMAIN orderByIDMap, d # id
       PROVE  RestingIn(d, orderByIDMap', priceLevelMap')
                  = RestingIn(d, orderByIDMap, priceLevelMap)
  <2>0. PICK s \in OrderSide :
            \E p \in DOMAIN priceLevelMap[s] :
                \E k \in 1..Len(priceLevelMap[s][p].orders) :
                    priceLevelMap[s][p].orders[k].id = d
    BY KnownOrder
  <2>1. PICK p \in DOMAIN priceLevelMap[s] :
            \E k \in 1..Len(priceLevelMap[s][p].orders) :
                priceLevelMap[s][p].orders[k].id = d
    BY <2>0
  <2>4. PICK k \in 1..Len(priceLevelMap[s][p].orders) :
            priceLevelMap[s][p].orders[k].id = d
    BY <2>1
  <2>2. /\ p \in DOMAIN priceLevelMap'[s]
        /\ \E n \in 1..Len(priceLevelMap'[s][p].orders) :
               priceLevelMap'[s][p].orders[n] = priceLevelMap[s][p].orders[k]
    <3>1. CASE s # side \/ p # price
      BY <3>1, <1>7
    <3>2. CASE s = side /\ p = price
      <4>1. k \in 1..Len(list) /\ k # i /\ list[k] = priceLevelMap[s][p].orders[k]
        BY <1>1, <1>10, <2>4, <3>2
      <4>2. LessOne(list, i, EraseAt(list, i))
        BY <1>8, ErasedSeq
      <4>3. PICK n \in 1..Len(list) - 1 : From(i, n) = k
        BY <4>1, <4>2 DEF LessOne
      <4>4. /\ EraseAt(list, i)[n] = list[k]
            /\ n \in 1..Len(EraseAt(list, i))
        BY <4>2, <4>3 DEF LessOne
      <4>5. Len(list) \in Nat
        BY <1>8
      <4>6. Len(list) # 1
        <5> SUFFICES ASSUME Len(list) = 1 PROVE FALSE
          OBVIOUS
        <5>1. n \in 1..0
          BY <4>3
        <5> QED BY <5>1
      <4> QED BY <1>7, <3>2, <4>1, <4>4, <4>6
    <3> QED BY <3>1, <3>2
  <2>3. PICK n \in 1..Len(priceLevelMap'[s][p].orders) :
               priceLevelMap'[s][p].orders[n] = priceLevelMap[s][p].orders[k]
    BY <2>2
  <2> QED BY <2>4, <2>2, <2>3, EntryKept
<1>11. Queue' = EraseAt(Queue, j)
  <2>1. /\ Len(Queue) = Len(arrivals)
        /\ \A k \in 1..Len(arrivals) :
               Queue[k] = RestingIn(arrivals[k], orderByIDMap, priceLevelMap)
    BY <1>5, QueueIs DEF QueueOf
  <2>2. \A k \in 1..Len(arrivals) - 1 :
            RestingIn(arrivals'[k], orderByIDMap', priceLevelMap')
                = IF k < j THEN Queue[k] ELSE Queue[k + 1]
    <3> TAKE k \in 1..Len(arrivals) - 1
    <3>1. arrivals'[k] = arrivals[From(j, k)] /\ From(j, k) \in 1..Len(arrivals)
      BY <1>5
    <3>2. arrivals[From(j, k)] # id /\ arrivals[From(j, k)] \in DOMAIN orderByIDMap
      BY <1>3, <1>5 DEF ArrivalsAgree, InArrivalOrder
    <3>3. RestingIn(arrivals'[k], orderByIDMap', priceLevelMap') = Queue[From(j, k)]
      BY <1>10, <2>1, <3>1, <3>2
    <3> QED BY <3>3 DEF From
  <2>3. Queue' = [k \in 1..Len(arrivals) - 1 |->
                     RestingIn(arrivals'[k], orderByIDMap', priceLevelMap')]
    BY <1>5, QueueIs DEF QueueOf
  <2>4. EraseAt(Queue, j)
            = [k \in 1..Len(arrivals) - 1 |-> IF k < j THEN Queue[k] ELSE Queue[k + 1]]
    BY <2>1 DEF EraseAt
  <2> QED BY <2>2, <2>3, <2>4
<1> QED
  BY <1>1, <1>3, <1>9, <1>11

-----------------------------------------------------------------------------

\* The i-th order of a level gets quantity n, and the level the total q.
ResizeOrder(side, price, i, n, q) ==
    /\ priceLevelMap' = WithLevel(side, price,
           [orders |-> Resized(priceLevelMap[side][price].orders, i, n),
            quantity |-> q])
    /\ UNCHANGED <<orderByIDMap, arrivals>>

WithQuantity(entries, j, n) == [entries EXCEPT ![j].quantity = n]

\* A new quantity for one order: its entry has it, the others stay.
LEMMA ResizeQueue ==
    ASSUME BookTypeOK, BookAgrees, BookAgrees', ArrivalsAgree,
           NEW side \in OrderSide, NEW price \in DOMAIN priceLevelMap[side],
           NEW i \in 1..Len(priceLevelMap[side][price].orders),
           NEW n \in Nat, NEW q \in 0..QuantityModulus - 1,
           ResizeOrder(side, price, i, n, q)
    PROVE  /\ ArrivalsAgree'
           /\ \E j \in 1..Len(arrivals) :
                  /\ arrivals[j] = priceLevelMap[side][price].orders[i].id
                  /\ Queue' = WithQuantity(Queue, j, n)
<1>1. PICK list : list = priceLevelMap[side][price].orders
  OBVIOUS
<1>2. PICK id : id = list[i].id
  OBVIOUS
<1>3. price \in Prices /\ list \in Seq(Resting) /\ i \in 1..Len(list)
  BY <1>1 DEF BookTypeOK, PriceLevel
<1>4. PICK later : later = Resized(list, i, n)
  OBVIOUS
<1>5. /\ later \in Seq(Resting) /\ Len(later) = Len(list) /\ later # <<>>
      /\ \A k \in 1..Len(list) : later[k].id = list[k].id
  BY <1>3, <1>4, ResizedList
<1>6. /\ later[i] = [id |-> list[i].id, quantity |-> n]
      /\ \A k \in 1..Len(list) : k # i => later[k] = list[k]
  BY <1>3, <1>4 DEF Resized
<1>7. PICK level : level = [orders |-> later, quantity |-> q]
  OBVIOUS
<1>8. level \in PriceLevel /\ level.orders = later
  BY <1>5, <1>7 DEF PriceLevel
<1>9. priceLevelMap' = WithLevel(side, price, level)
  BY <1>1, <1>4, <1>7 DEF ResizeOrder
<1>10. /\ \A s \in OrderSide : \A p \in DOMAIN priceLevelMap'[s] :
              \/ s = side /\ p = price /\ priceLevelMap'[s][p].orders = later
              \/ /\ s # side \/ p # price
                 /\ p \in DOMAIN priceLevelMap[s]
                 /\ priceLevelMap'[s][p] = priceLevelMap[s][p]
       /\ \A s \in OrderSide : \A p \in DOMAIN priceLevelMap[s] :
              s # side \/ p # price =>
                  p \in DOMAIN priceLevelMap'[s] /\ priceLevelMap'[s][p] = priceLevelMap[s][p]
       /\ price \in DOMAIN priceLevelMap'[side] /\ priceLevelMap'[side][price].orders = later
  <2>1. /\ \A s \in OrderSide : \A p \in DOMAIN priceLevelMap'[s] :
               \/ s = side /\ p = price /\ priceLevelMap'[s][p] = level
               \/ /\ s # side \/ p # price
                  /\ p \in DOMAIN priceLevelMap[s]
                  /\ priceLevelMap'[s][p] = priceLevelMap[s][p]
        /\ \A s \in OrderSide : \A p \in DOMAIN priceLevelMap[s] :
               s # side \/ p # price =>
                   p \in DOMAIN priceLevelMap'[s] /\ priceLevelMap'[s][p] = priceLevelMap[s][p]
        /\ level.orders # <<>> =>
               price \in DOMAIN priceLevelMap'[side] /\ priceLevelMap'[side][price] = level
    BY ONLY BookTypeOK, side \in OrderSide, <1>3, <1>8, <1>9, LevelChanged
  <2> QED BY <1>5, <1>8, <2>1
<1>11. /\ arrivals \in Seq(Ids) /\ arrivals' = arrivals /\ orderByIDMap' = orderByIDMap
       /\ \A k \in 1..Len(arrivals) : arrivals[k] \in DOMAIN orderByIDMap
       /\ \A d \in DOMAIN orderByIDMap : \E k \in 1..Len(arrivals) : arrivals[k] = d
       /\ \A k, m \in 1..Len(arrivals) : arrivals[k] = arrivals[m] => k = m
  BY DEF ArrivalsAgree, InArrivalOrder, ResizeOrder
<1>12. ArrivalsAgree'
  <2>1. ASSUME NEW s \in OrderSide, NEW p \in DOMAIN priceLevelMap'[s]
        PROVE  ListInOrder(priceLevelMap'[s][p].orders, arrivals)
    <3>1. CASE s = side /\ p = price /\ priceLevelMap'[s][p].orders = later
      <4>1. ListInOrder(list, arrivals)
        BY <1>1 DEF ArrivalsAgree, InArrivalOrder
      <4>2. ListInOrder(later, arrivals)
        BY <1>5, <4>1 DEF ListInOrder
      <4> QED BY <3>1, <4>2
    <3>2. CASE p \in DOMAIN priceLevelMap[s] /\ priceLevelMap'[s][p] = priceLevelMap[s][p]
      BY <3>2 DEF ArrivalsAgree, InArrivalOrder
    <3> QED BY <3>1, <3>2, <1>10
  <2> QED BY <1>11, <2>1 DEF ArrivalsAgree, InArrivalOrder
<1>13. ASSUME NEW d \in DOMAIN orderByIDMap, d # id
       PROVE  RestingIn(d, orderByIDMap', priceLevelMap')
                  = RestingIn(d, orderByIDMap, priceLevelMap)
  <2>1. PICK s \in OrderSide :
            \E p \in DOMAIN priceLevelMap[s] :
                \E k \in 1..Len(priceLevelMap[s][p].orders) :
                    priceLevelMap[s][p].orders[k].id = d
    BY KnownOrder
  <2>2. PICK p \in DOMAIN priceLevelMap[s] :
            \E k \in 1..Len(priceLevelMap[s][p].orders) :
                priceLevelMap[s][p].orders[k].id = d
    BY <2>1
  <2>3. PICK k \in 1..Len(priceLevelMap[s][p].orders) :
            priceLevelMap[s][p].orders[k].id = d
    BY <2>2
  <2>4. /\ p \in DOMAIN priceLevelMap'[s]
        /\ k \in 1..Len(priceLevelMap'[s][p].orders)
        /\ priceLevelMap'[s][p].orders[k] = priceLevelMap[s][p].orders[k]
    <3>1. CASE s # side \/ p # price
      BY <3>1, <1>10
    <3>2. CASE s = side /\ p = price
      <4>1. k \in 1..Len(list) /\ k # i /\ list[k] = priceLevelMap[s][p].orders[k]
        BY <1>1, <1>2, <1>13, <2>3, <3>2
      <4> QED BY <1>5, <1>6, <1>10, <3>2, <4>1
    <3> QED BY <3>1, <3>2
  <2> QED BY <2>3, <2>4, EntryKept
<1>14. /\ RestingIn(id, orderByIDMap, priceLevelMap)
              = [id |-> id, side |-> side, price |-> price, quantity |-> list[i].quantity]
       /\ RestingIn(id, orderByIDMap', priceLevelMap')
              = [id |-> id, side |-> side, price |-> price, quantity |-> n]
  <2>1. AgreedList(list, orderByIDMap, priceLevelMap, side, price)
    BY <1>1 DEF AgreedList, BookAgrees
  <2>2. AgreedList(later, orderByIDMap', priceLevelMap', side, price)
    BY <1>10 DEF AgreedList, BookAgrees
  <2>3. RestingIn(list[i].id, orderByIDMap, priceLevelMap) = EntryAt(list, i, side, price)
    BY <1>3, <2>1, RestingInLevel
  <2>4. i \in 1..Len(later)
    BY <1>3, <1>5
  <2>5. RestingIn(later[i].id, orderByIDMap', priceLevelMap') = EntryAt(later, i, side, price)
    BY <2>2, <2>4, RestingInLevel
  <2>6. later[i].id = id /\ later[i].quantity = n
    BY <1>2, <1>6
  <2> QED BY <1>2, <2>3, <2>5, <2>6 DEF EntryAt
<1>15. id \in DOMAIN orderByIDMap
  BY <1>1, <1>2, <1>3 DEF BookAgrees, ListAgrees
<1>16. PICK j \in 1..Len(arrivals) : arrivals[j] = id
  BY <1>11, <1>15
<1>17. Queue' = WithQuantity(Queue, j, n)
  <2>1. /\ Queue = [k \in 1..Len(arrivals) |-> RestingIn(arrivals[k], orderByIDMap, priceLevelMap)]
        /\ Queue' = [k \in 1..Len(arrivals) |-> RestingIn(arrivals[k], orderByIDMap', priceLevelMap')]
    BY <1>11, QueueIs DEF QueueOf
  <2>2. \A k \in 1..Len(arrivals) : k # j =>
            RestingIn(arrivals[k], orderByIDMap', priceLevelMap') = Queue[k]
    BY <1>11, <1>13, <1>16, <2>1
  <2>3. /\ Queue[j] = [id |-> id, side |-> side, price |-> price, quantity |-> list[i].quantity]
        /\ Queue'[j] = [id |-> id, side |-> side, price |-> price, quantity |-> n]
    BY <1>14, <1>16, <2>1
  <2>4. Queue'[j] = [Queue[j] EXCEPT !.quantity = n]
    BY <2>3
  <2>5. Queue' = [k \in 1..Len(arrivals) |-> IF k = j THEN [Queue[j] EXCEPT !.quantity = n] ELSE Queue[k]]
    BY <2>1, <2>2, <2>4
  <2>6. DOMAIN Queue = 1..Len(arrivals)
    BY <2>1
  <2> QED BY <2>5, <2>6 DEF WithQuantity
<1> QED
  BY <1>1, <1>2, <1>12, <1>16, <1>17

\* What rests is the last of the queue.
LEMMA InsertQueue ==
    ASSUME BookTypeOK, BookAgrees, BookAgrees', ArrivalsAgree,
           NEW order \in Taker, order.id \notin DOMAIN orderByIDMap,
           InsertOrder(order)
    PROVE  /\ ArrivalsAgree'
           /\ Queue' = Append(Queue, [id |-> order.id, side |-> order.side,
                                      price |-> order.price, quantity |-> order.quantity])
<1>0. PICK side, price, id, quantity :
          /\ side = order.side /\ side \in OrderSide
          /\ price = order.price /\ price \in Prices
          /\ id = order.id /\ id \in Ids /\ id \notin DOMAIN orderByIDMap
          /\ quantity = order.quantity /\ quantity \in Nat
  BY DEF Taker
<1>1. PICK old : old = LevelAt(side, price)
  OBVIOUS
<1>2. /\ old \in PriceLevel
      /\ price \in DOMAIN priceLevelMap[side] => old = priceLevelMap[side][price]
      /\ price \notin DOMAIN priceLevelMap[side] => old.orders = <<>>
  <2>1. 0 \in 0..QuantityModulus - 1 /\ <<>> \in Seq(Resting)
    BY MatchingEngineAssumption
  <2> QED BY <1>0, <1>1, <2>1 DEF LevelAt, BookTypeOK, PriceLevel
<1>3. PICK list : list = old.orders
  OBVIOUS
<1>4. list \in Seq(Resting) /\ Len(list) \in Nat
  BY <1>2, <1>3 DEF PriceLevel
<1>5. PICK new : new = [id |-> id, quantity |-> quantity]
  OBVIOUS
<1>6. new \in Resting /\ new.id = id /\ new.quantity = quantity
  BY <1>0, <1>5 DEF Resting
<1>7. PICK later : later = Append(list, new)
  OBVIOUS
<1>8. /\ later \in Seq(Resting) /\ later # <<>> /\ Len(later) = Len(list) + 1
      /\ \A k \in 1..Len(list) : later[k] = list[k]
      /\ later[Len(list) + 1] = new
  BY <1>4, <1>6, <1>7, AppendProperties
<1>9. PICK level : level = [orders |-> later, quantity |-> Counted(old.quantity + quantity)]
  OBVIOUS
<1>10. level \in PriceLevel /\ level.orders = later
  <2>1. PICK total \in Int : total = old.quantity + quantity
    BY <1>0, <1>2, MatchingEngineAssumption DEF PriceLevel
  <2>2. Counted(total) \in 0..QuantityModulus - 1
    BY CountedRange
  <2> QED BY <1>8, <1>9, <2>1, <2>2 DEF PriceLevel
<1>11. /\ priceLevelMap' = WithLevel(side, price, level)
       /\ orderByIDMap' = Updated(orderByIDMap, id, [side |-> side, price |-> price])
       /\ arrivals' = Append(arrivals, id)
  BY <1>0, <1>1, <1>3, <1>5, <1>7, <1>9 DEF InsertOrder
<1>12. /\ \A s \in OrderSide : \A p \in DOMAIN priceLevelMap'[s] :
              \/ s = side /\ p = price /\ priceLevelMap'[s][p].orders = later
              \/ /\ s # side \/ p # price
                 /\ p \in DOMAIN priceLevelMap[s]
                 /\ priceLevelMap'[s][p] = priceLevelMap[s][p]
       /\ \A s \in OrderSide : \A p \in DOMAIN priceLevelMap[s] :
              s # side \/ p # price =>
                  p \in DOMAIN priceLevelMap'[s] /\ priceLevelMap'[s][p] = priceLevelMap[s][p]
       /\ price \in DOMAIN priceLevelMap'[side] /\ priceLevelMap'[side][price].orders = later
  <2>1. /\ \A s \in OrderSide : \A p \in DOMAIN priceLevelMap'[s] :
               \/ s = side /\ p = price /\ priceLevelMap'[s][p] = level
               \/ /\ s # side \/ p # price
                  /\ p \in DOMAIN priceLevelMap[s]
                  /\ priceLevelMap'[s][p] = priceLevelMap[s][p]
        /\ \A s \in OrderSide : \A p \in DOMAIN priceLevelMap[s] :
               s # side \/ p # price =>
                   p \in DOMAIN priceLevelMap'[s] /\ priceLevelMap'[s][p] = priceLevelMap[s][p]
        /\ level.orders # <<>> =>
               price \in DOMAIN priceLevelMap'[side] /\ priceLevelMap'[side][price] = level
    BY <1>0, <1>10, <1>11, LevelChanged
  <2> QED BY <1>8, <1>10, <2>1
<1>13. /\ DOMAIN orderByIDMap' = DOMAIN orderByIDMap \cup {id}
       /\ \A d \in DOMAIN orderByIDMap : orderByIDMap'[d] = orderByIDMap[d]
  BY <1>0, <1>11 DEF Updated
<1>14. /\ arrivals \in Seq(Ids) /\ Len(arrivals) \in Nat
       /\ \A k \in 1..Len(arrivals) : arrivals[k] \in DOMAIN orderByIDMap
       /\ \A d \in DOMAIN orderByIDMap : \E k \in 1..Len(arrivals) : arrivals[k] = d
       /\ \A k, m \in 1..Len(arrivals) : arrivals[k] = arrivals[m] => k = m
  BY DEF ArrivalsAgree, InArrivalOrder
<1>15. /\ arrivals' \in Seq(Ids) /\ Len(arrivals') = Len(arrivals) + 1
       /\ \A k \in 1..Len(arrivals) : arrivals'[k] = arrivals[k]
       /\ arrivals'[Len(arrivals) + 1] = id
  BY <1>0, <1>11, <1>14, AppendProperties
<1>16. \A k \in 1..Len(arrivals') :
           \/ k \in 1..Len(arrivals) /\ arrivals'[k] = arrivals[k] /\ arrivals'[k] # id
           \/ k = Len(arrivals) + 1 /\ arrivals'[k] = id
  BY <1>0, <1>14, <1>15
<1>17. ArrivalsAgree'
  <2>1. \A k \in 1..Len(arrivals') : arrivals'[k] \in DOMAIN orderByIDMap'
    BY <1>13, <1>14, <1>16
  <2>2. \A d \in DOMAIN orderByIDMap' : \E k \in 1..Len(arrivals') : arrivals'[k] = d
    <3>1. Len(arrivals) + 1 \in 1..Len(arrivals') /\ 1..Len(arrivals) \subseteq 1..Len(arrivals')
      BY <1>14, <1>15
    <3> QED BY <1>13, <1>14, <1>15, <3>1
  <2>3. \A k, m \in 1..Len(arrivals') : arrivals'[k] = arrivals'[m] => k = m
    BY <1>14, <1>16
  <2>4. ASSUME NEW orders \in Seq(Resting), ListInOrder(orders, arrivals),
               \A k \in 1..Len(orders) : orders[k].id # id
        PROVE  ListInOrder(orders, arrivals')
    BY <1>16, <2>4 DEF ListInOrder
  <2>5. ASSUME NEW s \in OrderSide, NEW p \in DOMAIN priceLevelMap[s]
        PROVE  /\ ListInOrder(priceLevelMap[s][p].orders, arrivals')
               /\ \A k \in 1..Len(priceLevelMap[s][p].orders) :
                      priceLevelMap[s][p].orders[k].id \in DOMAIN orderByIDMap
    <3>1. PICK orders \in Seq(Resting) : orders = priceLevelMap[s][p].orders
      BY LevelLists
    <3>2. ListInOrder(orders, arrivals)
      BY <3>1 DEF ArrivalsAgree, InArrivalOrder
    <3>3. \A k \in 1..Len(orders) : orders[k].id \in DOMAIN orderByIDMap
      BY <3>1 DEF BookAgrees, ListAgrees
    <3> QED BY <1>0, <2>4, <3>1, <3>2, <3>3
  <2>6. /\ ListInOrder(list, arrivals')
        /\ \A k \in 1..Len(list) : list[k].id \in DOMAIN orderByIDMap
    <3>1. CASE price \in DOMAIN priceLevelMap[side]
      BY <1>0, <1>2, <1>3, <2>5, <3>1
    <3>2. CASE price \notin DOMAIN priceLevelMap[side]
      <4>1. list = <<>> /\ Len(list) = 0
        BY <1>2, <1>3, <3>2
      <4> QED BY <4>1 DEF ListInOrder
    <3> QED BY <3>1, <3>2
  <2>7. ListInOrder(later, arrivals')
    <3>1. ASSUME NEW k \in 1..Len(later), NEW n \in 1..Len(later), k < n,
                 NEW a \in 1..Len(arrivals'), NEW b \in 1..Len(arrivals'),
                 arrivals'[a] = later[k].id, arrivals'[b] = later[n].id
          PROVE  a < b
      <4>1. k \in 1..Len(list) /\ later[k] = list[k]
        BY <1>4, <1>8, <3>1
      <4>2. arrivals'[a] # id
        BY <1>0, <2>6, <3>1, <4>1
      <4>3. CASE n \in 1..Len(list)
        <5>1. later[n] = list[n]
          BY <1>8, <4>3
        <5>2. arrivals'[a] = list[k].id /\ arrivals'[b] = list[n].id
          BY <3>1, <4>1, <5>1
        <5> QED BY <2>6, <3>1, <4>1, <4>3, <5>2 DEF ListInOrder
      <4>4. CASE n = Len(list) + 1
        <5>1. arrivals'[b] = id
          BY <1>6, <1>8, <3>1, <4>4
        <5> QED BY <1>14, <1>16, <4>2, <5>1
      <4> QED BY <1>4, <1>8, <4>3, <4>4
    <3> QED BY <3>1 DEF ListInOrder
  <2>8. ASSUME NEW s \in OrderSide, NEW p \in DOMAIN priceLevelMap'[s]
        PROVE  ListInOrder(priceLevelMap'[s][p].orders, arrivals')
    BY <1>12, <2>5, <2>7
  <2> QED BY <1>15, <2>1, <2>2, <2>3, <2>8 DEF ArrivalsAgree, InArrivalOrder
<1>18. ASSUME NEW d \in DOMAIN orderByIDMap
       PROVE  RestingIn(d, orderByIDMap', priceLevelMap')
                  = RestingIn(d, orderByIDMap, priceLevelMap)
  <2>1. PICK s \in OrderSide :
            \E p \in DOMAIN priceLevelMap[s] :
                \E k \in 1..Len(priceLevelMap[s][p].orders) :
                    priceLevelMap[s][p].orders[k].id = d
    BY KnownOrder
  <2>2. PICK p \in DOMAIN priceLevelMap[s] :
            \E k \in 1..Len(priceLevelMap[s][p].orders) :
                priceLevelMap[s][p].orders[k].id = d
    BY <2>1
  <2>3. PICK k \in 1..Len(priceLevelMap[s][p].orders) :
            priceLevelMap[s][p].orders[k].id = d
    BY <2>2
  <2>4. /\ p \in DOMAIN priceLevelMap'[s]
        /\ k \in 1..Len(priceLevelMap'[s][p].orders)
        /\ priceLevelMap'[s][p].orders[k] = priceLevelMap[s][p].orders[k]
    <3>1. CASE s # side \/ p # price
      BY <3>1, <1>12
    <3>2. CASE s = side /\ p = price
      <4>1. k \in 1..Len(list) /\ list[k] = priceLevelMap[s][p].orders[k]
        BY <1>2, <1>3, <3>2
      <4> QED BY <1>4, <1>8, <1>12, <3>2, <4>1
    <3> QED BY <3>1, <3>2
  <2> QED BY <2>3, <2>4, EntryKept
<1>19. RestingIn(id, orderByIDMap', priceLevelMap')
           = [id |-> id, side |-> side, price |-> price, quantity |-> quantity]
  <2>1. AgreedList(later, orderByIDMap', priceLevelMap', side, price)
    BY <1>0, <1>12 DEF AgreedList, BookAgrees
  <2>2. Len(list) + 1 \in 1..Len(later)
    BY <1>4, <1>8
  <2>3. RestingIn(later[Len(list) + 1].id, orderByIDMap', priceLevelMap')
            = EntryAt(later, Len(list) + 1, side, price)
    BY <2>1, <2>2, RestingInLevel
  <2> QED BY <1>6, <1>8, <2>3 DEF EntryAt
<1>20. Queue' = Append(Queue, [id |-> id, side |-> side, price |-> price, quantity |-> quantity])
  <2>1. PICK entry : entry = [id |-> id, side |-> side, price |-> price, quantity |-> quantity]
    OBVIOUS
  <2>2. /\ Queue = [k \in 1..Len(arrivals) |-> RestingIn(arrivals[k], orderByIDMap, priceLevelMap)]
        /\ Queue' = [k \in 1..Len(arrivals) + 1 |-> RestingIn(arrivals'[k], orderByIDMap', priceLevelMap')]
    BY <1>15, QueueIs DEF QueueOf
  <2>3. \A k \in 1..Len(arrivals) + 1 :
            RestingIn(arrivals'[k], orderByIDMap', priceLevelMap')
                = IF k <= Len(arrivals) THEN Queue[k] ELSE entry
    <3>1. ASSUME NEW k \in 1..Len(arrivals)
          PROVE  RestingIn(arrivals'[k], orderByIDMap', priceLevelMap') = Queue[k]
      BY <1>14, <1>15, <1>18, <2>2
    <3>2. RestingIn(arrivals'[Len(arrivals) + 1], orderByIDMap', priceLevelMap') = entry
      BY <1>15, <1>19, <2>1
    <3> QED BY <1>14, <3>1, <3>2
  <2>4. /\ Len(Queue) = Len(arrivals)
        /\ Append(Queue, entry)
               = [k \in 1..Len(arrivals) + 1 |-> IF k <= Len(arrivals) THEN Queue[k] ELSE entry]
    <3>1. Queue \in Seq({Queue[k] : k \in 1..Len(arrivals)} \cup {entry}) /\ Len(Queue) = Len(arrivals)
      <4>1. Queue \in [1..Len(arrivals) -> {Queue[k] : k \in 1..Len(arrivals)} \cup {entry}]
        BY <2>2
      <4> QED BY <1>14, <4>1, SeqDef, LenProperties
    <3>2. /\ Append(Queue, entry) \in Seq({Queue[k] : k \in 1..Len(arrivals)} \cup {entry})
          /\ Len(Append(Queue, entry)) = Len(arrivals) + 1
          /\ \A k \in 1..Len(arrivals) : Append(Queue, entry)[k] = Queue[k]
          /\ Append(Queue, entry)[Len(arrivals) + 1] = entry
      BY <3>1, AppendProperties
    <3>3. Append(Queue, entry) = [k \in 1..Len(arrivals) + 1 |-> Append(Queue, entry)[k]]
      BY <3>2, LenProperties
    <3>4. \A k \in 1..Len(arrivals) + 1 :
              Append(Queue, entry)[k] = IF k <= Len(arrivals) THEN Queue[k] ELSE entry
      BY <1>14, <3>2
    <3> QED BY <3>1, <3>3, <3>4
  <2> QED BY <2>1, <2>2, <2>3, <2>4
<1> QED
  BY <1>0, <1>17, <1>20

-----------------------------------------------------------------------------

\* The j-th entry of the queue is the k-th order of a level.
Stands(j, s, p, k) ==
    /\ arrivals[j] = priceLevelMap[s][p].orders[k].id
    /\ Queue[j] = EntryAt(priceLevelMap[s][p].orders, k, s, p)

LEMMA QueueFacts ==
    ASSUME BookTypeOK, BookAgrees, ArrivalsAgree
    PROVE  /\ Queue \in Seq(Entry) /\ Len(Queue) = Len(arrivals) /\ Len(arrivals) \in Nat
           /\ DOMAIN Queue = 1..Len(arrivals)
           /\ \A j \in 1..Len(arrivals) :
                  /\ Queue[j] \in Entry
                  /\ \E s \in OrderSide : \E p \in DOMAIN priceLevelMap[s] :
                         \E k \in 1..Len(priceLevelMap[s][p].orders) : Stands(j, s, p, k)
           /\ \A s \in OrderSide : \A p \in DOMAIN priceLevelMap[s] :
                  \A k \in 1..Len(priceLevelMap[s][p].orders) :
                      \A j \in 1..Len(arrivals) :
                          arrivals[j] = priceLevelMap[s][p].orders[k].id => Stands(j, s, p, k)
<1>1. /\ Len(arrivals) \in Nat
      /\ \A j \in 1..Len(arrivals) : arrivals[j] \in DOMAIN orderByIDMap
  BY DEF ArrivalsAgree, InArrivalOrder
<1>2. Queue = [j \in 1..Len(arrivals) |-> RestingIn(arrivals[j], orderByIDMap, priceLevelMap)]
  BY QueueIs DEF QueueOf
<1>3. ASSUME NEW s \in OrderSide, NEW p \in DOMAIN priceLevelMap[s],
             NEW k \in 1..Len(priceLevelMap[s][p].orders),
             NEW j \in 1..Len(arrivals), arrivals[j] = priceLevelMap[s][p].orders[k].id
      PROVE  Stands(j, s, p, k)
  <2>1. PICK orders : orders = priceLevelMap[s][p].orders
    OBVIOUS
  <2>2. AgreedList(orders, orderByIDMap, priceLevelMap, s, p)
    BY <2>1 DEF AgreedList, BookAgrees
  <2>3. k \in 1..Len(orders) /\ arrivals[j] = orders[k].id
    BY <1>3, <2>1
  <2>4. RestingIn(orders[k].id, orderByIDMap, priceLevelMap) = EntryAt(orders, k, s, p)
    BY <2>2, <2>3, RestingInLevel
  <2>5. Queue[j] = EntryAt(orders, k, s, p)
    BY <1>2, <2>3, <2>4
  <2> QED BY <1>3, <2>1, <2>5 DEF Stands
<1>4. ASSUME NEW j \in 1..Len(arrivals)
      PROVE  /\ Queue[j] \in Entry
             /\ \E s \in OrderSide : \E p \in DOMAIN priceLevelMap[s] :
                    \E k \in 1..Len(priceLevelMap[s][p].orders) : Stands(j, s, p, k)
  <2>1. PICK d \in DOMAIN orderByIDMap : d = arrivals[j]
    BY <1>1
  <2>2. PICK s \in OrderSide :
            \E p \in DOMAIN priceLevelMap[s] :
                \E k \in 1..Len(priceLevelMap[s][p].orders) :
                    priceLevelMap[s][p].orders[k].id = d
    BY KnownOrder
  <2>3. PICK p \in DOMAIN priceLevelMap[s] :
            \E k \in 1..Len(priceLevelMap[s][p].orders) :
                priceLevelMap[s][p].orders[k].id = d
    BY <2>2
  <2>4. PICK k \in 1..Len(priceLevelMap[s][p].orders) :
            priceLevelMap[s][p].orders[k].id = d
    BY <2>3
  <2>5. Stands(j, s, p, k)
    BY <1>3, <2>1, <2>4
  <2>6. /\ p \in Prices /\ priceLevelMap[s][p].orders[k].id \in Ids
        /\ priceLevelMap[s][p].orders[k].quantity \in Nat
    BY LevelLists DEF BookTypeOK
  <2>7. Queue[j] \in Entry
    BY <2>5, <2>6 DEF Stands, EntryAt, Entry
  <2> QED BY <2>5, <2>7
<1>5. Queue \in [1..Len(arrivals) -> Entry]
  BY <1>2, <1>4
<1>6. Queue \in Seq(Entry) /\ Len(Queue) = Len(arrivals) /\ DOMAIN Queue = 1..Len(arrivals)
  BY <1>1, <1>5, SeqDef, LenProperties
<1> QED
  BY <1>1, <1>3, <1>4, <1>6

\* Where matchOrderList is, it trades with the order due.
LEMMA HeadIsDue ==
    ASSUME QueueInv, NEW price \in Prices, AtLevel(price),
           NEW j \in 1..Len(arrivals),
           arrivals[j] = priceLevelMap[Opposite(taker.side)][price].orders[1].id
    PROVE  PriceTime!First(Incoming, j)
<1>1. PICK side : side = Opposite(taker.side)
  OBVIOUS
<1>2. /\ taker \in Taker /\ taker.side \in OrderSide /\ taker # None
      /\ side \in OrderSide /\ price \in DOMAIN priceLevelMap[side]
      /\ 1 \in 1..Len(priceLevelMap[side][price].orders)
  BY <1>1, AtLevelHasOrders DEF QueueInv, AtLevel
<1>3. Incoming = [id |-> taker.id, side |-> taker.side, price |-> taker.price,
                  quantity |-> taker.quantity]
  BY <1>2 DEF Incoming
<1>4. Incoming.side = taker.side /\ Incoming.price = taker.price
  BY <1>3
<1>5. NextLevel(taker, price)
  BY DEF AtLevel, QueueInv, WalksFirst
<1>6. /\ Eligible(taker, price)
      /\ \A p \in Crossed(taker) :
             IF (taker.side = "SELL") = engine.bestFirst THEN price >= p ELSE price <= p
  BY <1>5 DEF NextLevel, Crossed
<1>7. /\ DOMAIN Queue = 1..Len(arrivals)
      /\ \A i \in 1..Len(arrivals) :
             \E s \in OrderSide : \E p \in DOMAIN priceLevelMap[s] :
                 \E k \in 1..Len(priceLevelMap[s][p].orders) : Stands(i, s, p, k)
      /\ Stands(j, side, price, 1)
  BY <1>1, <1>2, QueueFacts DEF QueueInv, IInv, TypeOK
<1>8. Queue[j].side = side /\ Queue[j].price = price
  BY <1>7 DEF Stands, EntryAt
<1>9. \A s \in OrderSide : s # taker.side <=> s = side
  BY <1>1, <1>2 DEF OrderSide, Opposite
<1>10. PriceTime!Matches(Incoming, Queue[j])
  BY <1>2, <1>4, <1>6, <1>8, <1>9 DEF PriceTime!Matches, Eligible
<1>11. ASSUME NEW i \in 1..Len(arrivals), PriceTime!Matches(Incoming, Queue[i])
       PROVE  /\ IF (taker.side = "SELL") = engine.bestFirst
                 THEN price >= Queue[i].price ELSE price <= Queue[i].price
              /\ Queue[i].price = price => j <= i
  <2>1. PICK s \in OrderSide :
            \E p \in DOMAIN priceLevelMap[s] :
                \E k \in 1..Len(priceLevelMap[s][p].orders) : Stands(i, s, p, k)
    BY <1>7
  <2>2. PICK p \in DOMAIN priceLevelMap[s] :
            \E k \in 1..Len(priceLevelMap[s][p].orders) : Stands(i, s, p, k)
    BY <2>1
  <2>3. PICK k \in 1..Len(priceLevelMap[s][p].orders) : Stands(i, s, p, k)
    BY <2>2
  <2>4. Queue[i].side = s /\ Queue[i].price = p
    BY <2>3 DEF Stands, EntryAt
  <2>5. s = side /\ Eligible(taker, p)
    BY <1>4, <1>9, <1>11, <2>4 DEF PriceTime!Matches, Eligible
  <2>6. PICK orders \in Seq(Resting) : orders = priceLevelMap[s][p].orders
    BY LevelLists DEF QueueInv, IInv, TypeOK
  <2>7. Len(orders) \in Nat /\ k \in 1..Len(orders)
    BY <2>3, <2>6
  <2>8. orders # <<>>
    BY <2>7
  <2>9. p \in Crossed(taker)
    BY <1>1, <2>5, <2>6, <2>8 DEF Crossed
  <2>10. IF (taker.side = "SELL") = engine.bestFirst THEN price >= p ELSE price <= p
    BY <1>6, <2>9
  <2>11. ASSUME p = price PROVE j <= i
    <3>1. arrivals[i] = orders[k].id /\ arrivals[j] = orders[1].id
      BY <1>1, <2>3, <2>5, <2>6, <2>11 DEF Stands
    <3>2. ListInOrder(orders, arrivals)
      BY <2>6 DEF QueueInv, ArrivalsAgree, InArrivalOrder
    <3>3. CASE k = 1
      <4>1. i = j
        BY <3>1, <3>3 DEF QueueInv, ArrivalsAgree, InArrivalOrder
      <4> QED BY <4>1
    <3>4. CASE k # 1
      <4>1. 1 \in 1..Len(orders) /\ 1 < k
        BY <2>7, <3>4
      <4>2. j < i
        BY <2>7, <3>1, <3>2, <4>1 DEF ListInOrder
      <4> QED BY <4>2
    <3> QED BY <3>3, <3>4
  <2> QED BY <2>4, <2>10, <2>11
<1> QED
  BY <1>4, <1>7, <1>8, <1>10, <1>11 DEF PriceTime!First

\* What EraseOrder does to the queue, as its own operators say it.
LEMMA EraseWithout ==
    ASSUME QueueInv, BookAgrees', NEW side \in OrderSide,
           NEW price \in DOMAIN priceLevelMap[side],
           NEW i \in 1..Len(priceLevelMap[side][price].orders),
           NEW q \in 0..QuantityModulus - 1,
           EraseOrder(side, price, i, q)
    PROVE  /\ ArrivalsAgree'
           /\ \E j \in DOMAIN Queue :
                  /\ arrivals[j] = priceLevelMap[side][price].orders[i].id
                  /\ j \in 1..Len(arrivals) /\ Stands(j, side, price, i)
                  /\ Queue' = PriceTime!WithoutAt(j)
<1>1. BookTypeOK /\ BookAgrees /\ ArrivalsAgree
  BY DEF QueueInv, IInv, TypeOK
<1>2. PICK j \in 1..Len(arrivals) :
          /\ arrivals[j] = priceLevelMap[side][price].orders[i].id
          /\ Queue' = EraseAt(Queue, j)
  BY <1>1, EraseOrderQueue
<1>3. ArrivalsAgree'
  BY <1>1, EraseOrderQueue
<1>4. /\ Queue \in Seq(Entry) /\ DOMAIN Queue = 1..Len(arrivals) /\ Len(Queue) = Len(arrivals)
      /\ Stands(j, side, price, i)
  BY <1>1, <1>2, QueueFacts
<1>5. EraseAt(Queue, j) = SubSeq(Queue, 1, j - 1) \o SubSeq(Queue, j + 1, Len(Queue))
  BY <1>4, ErasedIsSubSeqs
<1>6. Queue' = PriceTime!WithoutAt(j)
  BY <1>2, <1>5 DEF PriceTime!WithoutAt
<1> QED
  BY <1>2, <1>3, <1>4, <1>6

\* An iteration of matchOrderList that fills the resting order is a Trade.
LEMMA FillMatchedOrderTrades ==
    ASSUME QueueInv, IInv', NEW price \in Prices, AtLevel(price), FillMatchedOrder(price),
           UNCHANGED engine
    PROVE  ArrivalsAgree' /\ WalksFirst' /\ PriceTime!Trade
<1>1. PICK side : side = Opposite(taker.side)
  OBVIOUS
<1>2. /\ taker \in Taker /\ taker.side \in OrderSide /\ taker # None
      /\ side \in OrderSide /\ price \in DOMAIN priceLevelMap[side]
      /\ 1 \in 1..Len(priceLevelMap[side][price].orders)
  BY <1>1, AtLevelHasOrders DEF QueueInv, AtLevel
<1>3. PICK list \in Seq(Resting) : list = priceLevelMap[side][price].orders
  BY <1>2, LevelLists DEF QueueInv, IInv, TypeOK
<1>4. PICK q \in 0..QuantityModulus - 1 : q = priceLevelMap[side][price].quantity
  BY <1>2 DEF QueueInv, IInv, TypeOK, BookTypeOK, PriceLevel
<1>5. PICK matched \in Resting : matched = list[1]
  BY <1>2, <1>3, LevelLists DEF QueueInv, IInv, TypeOK
<1>6. /\ taker.quantity >= matched.quantity
      /\ RecordTrade(matched, price)
      /\ taker' = [taker EXCEPT !.quantity = @ - matched.quantity,
                                !.level = IF Len(list) = 1 THEN None ELSE price]
      /\ EraseOrder(side, price, 1, q)
  BY <1>1, <1>3, <1>4, <1>5 DEF FillMatchedOrder
<1>7. BookAgrees'
  BY DEF IInv
<1>8. /\ ArrivalsAgree'
      /\ \E j \in DOMAIN Queue :
             /\ arrivals[j] = priceLevelMap[side][price].orders[1].id
             /\ j \in 1..Len(arrivals) /\ Stands(j, side, price, 1)
             /\ Queue' = PriceTime!WithoutAt(j)
  BY <1>2, <1>6, <1>7, EraseWithout
<1>9. PICK j \in DOMAIN Queue :
          /\ arrivals[j] = priceLevelMap[side][price].orders[1].id
          /\ j \in 1..Len(arrivals) /\ Stands(j, side, price, 1)
          /\ Queue' = PriceTime!WithoutAt(j)
  BY <1>8
<1>10. PriceTime!First(Incoming, j)
  BY <1>1, <1>9, HeadIsDue
<1>11. PICK left \in Nat : left = taker.quantity - matched.quantity
  BY <1>2, <1>5, <1>6 DEF Taker, Resting
<1>12. /\ taker'.id = taker.id /\ taker'.side = taker.side /\ taker'.price = taker.price
       /\ taker'.quantity = left
       /\ taker'.level = IF Len(list) = 1 THEN None ELSE price
       /\ taker' \in Taker /\ taker' # None
  <2>1. /\ taker'.id = taker.id /\ taker'.side = taker.side /\ taker'.price = taker.price
        /\ taker'.quantity = left
        /\ taker'.level = IF Len(list) = 1 THEN None ELSE price
        /\ taker' \in Taker
    BY <1>2, <1>6, <1>11 DEF Taker
  <2> QED BY <2>1, NoneIsNoOrder
<1>13. WalksFirst'
  <2> SUFFICES ASSUME taker'.level # None PROVE NextLevel(taker, taker.level)'
    BY DEF WalksFirst
  <2>1. taker'.level = price /\ Len(list) # 1
    BY <1>12
  <2>2. NextLevel(taker, price)
    BY DEF AtLevel, QueueInv, WalksFirst
  <2>3. /\ \A s \in OrderSide : \A p \in DOMAIN priceLevelMap'[s] :
               /\ p \in DOMAIN priceLevelMap[s]
               /\ \/ priceLevelMap'[s][p] = priceLevelMap[s][p]
                  \/ s = side /\ p = price
        /\ price \in DOMAIN priceLevelMap'[side]
        /\ priceLevelMap'[side][price].orders = EraseAt(list, 1)
    BY <1>2, <1>3, <1>6, <2>1, EraseLists DEF QueueInv, IInv, TypeOK
  <2>4. EraseAt(list, 1) # <<>>
    BY <1>2, <1>3, <2>1, EraseAtList
  <2>5. \A p \in DOMAIN priceLevelMap[side] :
            p \in Crossed(taker) <=> Eligible(taker, p) /\ priceLevelMap[side][p].orders # <<>>
    BY <1>1 DEF Crossed
  <2>6. \A p : p \in Crossed(taker)' <=>
                   /\ p \in DOMAIN priceLevelMap'[side]
                   /\ Eligible(taker, p) /\ priceLevelMap'[side][p].orders # <<>>
    BY <1>1, <1>12 DEF Crossed, Eligible
  <2>7. price \in Crossed(taker) /\ Eligible(taker, price)
    BY <2>2 DEF NextLevel, Crossed
  <2>8. price \in Crossed(taker)'
    BY <2>3, <2>4, <2>6, <2>7
  <2>9. \A p : p \in Crossed(taker)' => p \in Crossed(taker)
    BY <1>2, <2>3, <2>5, <2>6, <2>7
  <2>10. \A p \in Crossed(taker)' :
             IF (taker'.side = "SELL") = engine'.bestFirst THEN price >= p ELSE price <= p
    BY <1>12, <2>2, <2>9 DEF NextLevel
  <2> QED BY <2>1, <2>8, <2>10 DEF NextLevel
<1>14. PriceTime!TradeWith(j)
  <2>1. Incoming = [id |-> taker.id, side |-> taker.side, price |-> taker.price,
                    quantity |-> taker.quantity]
    BY <1>2 DEF Incoming
  <2>2. Incoming' = [id |-> taker.id, side |-> taker.side, price |-> taker.price,
                     quantity |-> left]
    BY <1>12 DEF Incoming
  <2>3. Queue[j] = [id |-> matched.id, side |-> side, price |-> price,
                    quantity |-> matched.quantity]
    BY <1>3, <1>5, <1>9 DEF Stands, EntryAt
  <2>4. (IF matched.quantity < taker.quantity THEN matched.quantity ELSE taker.quantity)
            = matched.quantity
    BY <1>2, <1>5, <1>6 DEF Taker, Resting
  <2>5. PICK resting : resting = Queue[j]
    OBVIOUS
  <2>6. /\ resting.id = matched.id /\ resting.side = side /\ resting.price = price
        /\ resting.quantity = matched.quantity
    BY <2>3, <2>5
  <2>7. /\ Incoming.id = taker.id /\ Incoming.side = taker.side /\ Incoming.price = taker.price
        /\ Incoming.quantity = taker.quantity
    BY <2>1
  <2>8. PICK traded : traded = IF resting.quantity < Incoming.quantity
                               THEN resting.quantity ELSE Incoming.quantity
    OBVIOUS
  <2>9. traded = matched.quantity
    BY <2>4, <2>6, <2>7, <2>8
  <2>10. Incoming' = [Incoming EXCEPT !.quantity = @ - traded]
    BY <1>11, <2>1, <2>2, <2>9
  <2>11. trade' = [buyOrderInfo |->
                       [id |-> (IF Incoming.side = "BUY" THEN Incoming ELSE resting).id,
                        price |-> (IF Incoming.side = "BUY" THEN Incoming ELSE resting).price],
                   sellOrderInfo |->
                       [id |-> (IF Incoming.side = "BUY" THEN resting ELSE Incoming).id,
                        price |-> (IF Incoming.side = "BUY" THEN resting ELSE Incoming).price],
                   quantity |-> traded % QuantityModulus]
    <3>1. CASE taker.side = "SELL"
      <4>1. trade' = [buyOrderInfo |-> [id |-> matched.id, price |-> price],
                      sellOrderInfo |-> [id |-> taker.id, price |-> taker.price],
                      quantity |-> matched.quantity % QuantityModulus]
        BY <1>6, <2>4, <3>1 DEF RecordTrade, OrderInfo
      <4>2. Incoming.side # "BUY"
        BY <2>7, <3>1
      <4> QED BY <2>6, <2>7, <2>9, <4>1, <4>2
    <3>2. CASE taker.side = "BUY"
      <4>1. trade' = [buyOrderInfo |-> [id |-> taker.id, price |-> taker.price],
                      sellOrderInfo |-> [id |-> matched.id, price |-> price],
                      quantity |-> matched.quantity % QuantityModulus]
        BY <1>6, <2>4, <3>2 DEF RecordTrade, OrderInfo
      <4>2. Incoming.side = "BUY"
        BY <2>7, <3>2
      <4> QED BY <2>6, <2>7, <2>9, <4>1, <4>2
    <3> QED BY <1>2, <3>1, <3>2 DEF OrderSide
  <2>12. traded = resting.quantity
    BY <2>6, <2>9
  <2> HIDE DEF Queue, Incoming
  <2> QED BY <1>9, <2>5, <2>8, <2>10, <2>11, <2>12 DEF PriceTime!TradeWith
<1>15. Incoming # None
  <2>1. Incoming \in Entry
    BY <1>2 DEF Incoming, Entry, Taker
  <2> QED BY <2>1, NoneIsNoOrder
<1> QED
  BY <1>8, <1>10, <1>13, <1>14, <1>15 DEF PriceTime!Trade

\* So is one that fills the taker, and the resting order keeps its place.
LEMMA FillTakerTrades ==
    ASSUME QueueInv, IInv', NEW price \in Prices, AtLevel(price), FillTaker(price),
           UNCHANGED engine
    PROVE  ArrivalsAgree' /\ WalksFirst' /\ PriceTime!Trade
<1>1. PICK side : side = Opposite(taker.side)
  OBVIOUS
<1>2. /\ taker \in Taker /\ taker.side \in OrderSide /\ taker # None
      /\ side \in OrderSide /\ price \in DOMAIN priceLevelMap[side]
      /\ 1 \in 1..Len(priceLevelMap[side][price].orders)
  BY <1>1, AtLevelHasOrders DEF QueueInv, AtLevel
<1>3. PICK list \in Seq(Resting) : list = priceLevelMap[side][price].orders
  BY <1>2, LevelLists DEF QueueInv, IInv, TypeOK
<1>4. PICK q \in 0..QuantityModulus - 1 : q = priceLevelMap[side][price].quantity
  BY <1>2 DEF QueueInv, IInv, TypeOK, BookTypeOK, PriceLevel
<1>5. PICK matched \in Resting : matched = list[1]
  BY <1>2, <1>3, LevelLists DEF QueueInv, IInv, TypeOK
<1>6. taker.quantity \in Nat /\ matched.quantity \in Nat /\ taker.quantity < matched.quantity
  BY <1>1, <1>2, <1>3, <1>5 DEF FillTaker, Taker, Resting
<1>7. PICK n \in Nat : n = matched.quantity - taker.quantity
  BY <1>6
<1>8. /\ RecordTrade(matched, price)
      /\ taker' = [taker EXCEPT !.quantity = 0, !.level = None]
      /\ ResizeOrder(side, price, 1, n, q)
  BY <1>1, <1>3, <1>4, <1>5, <1>7 DEF FillTaker, ResizeOrder
<1>9. BookTypeOK /\ BookAgrees /\ ArrivalsAgree /\ BookAgrees'
  BY DEF QueueInv, IInv, TypeOK
<1>10. ArrivalsAgree'
  BY <1>2, <1>8, <1>9, ResizeQueue
<1>11. PICK j \in 1..Len(arrivals) :
           /\ arrivals[j] = priceLevelMap[side][price].orders[1].id
           /\ Queue' = WithQuantity(Queue, j, n)
  BY <1>2, <1>8, <1>9, ResizeQueue
<1>12. DOMAIN Queue = 1..Len(arrivals) /\ Stands(j, side, price, 1)
  BY <1>2, <1>9, <1>11, QueueFacts
<1>13. PriceTime!First(Incoming, j)
  BY <1>1, <1>11, HeadIsDue
<1>14. /\ taker'.id = taker.id /\ taker'.side = taker.side /\ taker'.price = taker.price
       /\ taker'.quantity = 0 /\ taker'.level = None
       /\ taker' \in Taker /\ taker' # None
  <2>1. /\ taker'.id = taker.id /\ taker'.side = taker.side /\ taker'.price = taker.price
        /\ taker'.quantity = 0 /\ taker'.level = None /\ taker' \in Taker
    BY <1>2, <1>8 DEF Taker
  <2> QED BY <2>1, NoneIsNoOrder
<1>15. WalksFirst'
  BY <1>14 DEF WalksFirst
<1>16. PriceTime!TradeWith(j)
  <2>1. Incoming = [id |-> taker.id, side |-> taker.side, price |-> taker.price,
                    quantity |-> taker.quantity]
    BY <1>2 DEF Incoming
  <2>2. Incoming' = [id |-> taker.id, side |-> taker.side, price |-> taker.price,
                     quantity |-> 0]
    BY <1>14 DEF Incoming
  <2>3. Queue[j] = [id |-> matched.id, side |-> side, price |-> price,
                    quantity |-> matched.quantity]
    BY <1>3, <1>5, <1>12 DEF Stands, EntryAt
  <2>5. PICK resting : resting = Queue[j]
    OBVIOUS
  <2>6. /\ resting.id = matched.id /\ resting.side = side /\ resting.price = price
        /\ resting.quantity = matched.quantity
    BY <2>3, <2>5
  <2>7. /\ Incoming.id = taker.id /\ Incoming.side = taker.side /\ Incoming.price = taker.price
        /\ Incoming.quantity = taker.quantity
    BY <2>1
  <2>8. PICK traded : traded = IF resting.quantity < Incoming.quantity
                               THEN resting.quantity ELSE Incoming.quantity
    OBVIOUS
  <2>9. traded = taker.quantity
    BY <1>6, <2>6, <2>7, <2>8
  <2>10. Incoming' = [Incoming EXCEPT !.quantity = @ - traded]
    <3>1. taker.quantity - taker.quantity = 0
      BY <1>6
    <3> QED BY <2>1, <2>2, <2>9, <3>1
  <2>11. trade' = [buyOrderInfo |->
                       [id |-> (IF Incoming.side = "BUY" THEN Incoming ELSE resting).id,
                        price |-> (IF Incoming.side = "BUY" THEN Incoming ELSE resting).price],
                   sellOrderInfo |->
                       [id |-> (IF Incoming.side = "BUY" THEN resting ELSE Incoming).id,
                        price |-> (IF Incoming.side = "BUY" THEN resting ELSE Incoming).price],
                   quantity |-> traded % QuantityModulus]
    <3>0. (IF matched.quantity < taker.quantity THEN matched.quantity ELSE taker.quantity)
              = taker.quantity
      BY <1>6
    <3>1. CASE taker.side = "SELL"
      <4>1. trade' = [buyOrderInfo |-> [id |-> matched.id, price |-> price],
                      sellOrderInfo |-> [id |-> taker.id, price |-> taker.price],
                      quantity |-> taker.quantity % QuantityModulus]
        BY <1>8, <3>0, <3>1 DEF RecordTrade, OrderInfo
      <4>2. Incoming.side # "BUY"
        BY <2>7, <3>1
      <4> QED BY <2>6, <2>7, <2>9, <4>1, <4>2
    <3>2. CASE taker.side = "BUY"
      <4>1. trade' = [buyOrderInfo |-> [id |-> taker.id, price |-> taker.price],
                      sellOrderInfo |-> [id |-> matched.id, price |-> price],
                      quantity |-> taker.quantity % QuantityModulus]
        BY <1>8, <3>0, <3>2 DEF RecordTrade, OrderInfo
      <4>2. Incoming.side = "BUY"
        BY <2>7, <3>2
      <4> QED BY <2>6, <2>7, <2>9, <4>1, <4>2
    <3> QED BY <1>2, <3>1, <3>2 DEF OrderSide
  <2>12. traded # resting.quantity
    BY <1>6, <2>6, <2>9
  <2>13. n = Queue[j].quantity - traded
    BY <1>7, <2>5, <2>6, <2>9
  <2>14. Queue' = [Queue EXCEPT ![j].quantity = @ - traded]
    BY <1>11, <2>13 DEF WithQuantity
  <2> HIDE DEF Queue, Incoming
  <2> QED BY <2>5, <2>8, <2>10, <2>11, <2>12, <2>14 DEF PriceTime!TradeWith
<1>17. Incoming # None
  <2>1. Incoming \in Entry
    BY <1>2 DEF Incoming, Entry, Taker
  <2> QED BY <2>1, NoneIsNoOrder
<1> QED
  BY <1>10, <1>12, <1>13, <1>15, <1>16, <1>17 DEF PriceTime!Trade

\* What is left of an order rests when nothing can trade with it any more.
LEMMA EndMatchingRests ==
    ASSUME QueueInv, IInv', EndMatching
    PROVE  ArrivalsAgree' /\ WalksFirst' /\ PriceTime!Rest
<1>1. /\ taker \in Taker /\ taker # None /\ taker' = None
      /\ taker.quantity = 0 \/ Crossed(taker) = {}
      /\ UNCHANGED <<engine, trade>>
  BY DEF EndMatching, QueueInv, IInv, TypeOK
<1>2. BookTypeOK /\ BookAgrees /\ ArrivalsAgree /\ BookAgrees'
  BY DEF QueueInv, IInv, TypeOK
<1>3. PICK entry : entry = [id |-> taker.id, side |-> taker.side, price |-> taker.price,
                            quantity |-> taker.quantity]
  OBVIOUS
<1>4. Incoming = entry /\ Incoming' = None
  BY <1>1, <1>3 DEF Incoming
<1>5. /\ entry.id = taker.id /\ entry.side = taker.side /\ entry.price = taker.price
      /\ entry.quantity = taker.quantity /\ entry \in Entry /\ entry # None
  <2>1. entry \in Entry
    BY <1>1, <1>3 DEF Entry, Taker
  <2> QED BY <1>3, <2>1, NoneIsNoOrder
<1>6. /\ DOMAIN Queue = 1..Len(arrivals)
      /\ \A i \in 1..Len(arrivals) :
             \E s \in OrderSide : \E p \in DOMAIN priceLevelMap[s] :
                 \E k \in 1..Len(priceLevelMap[s][p].orders) : Stands(i, s, p, k)
  BY <1>2, QueueFacts
<1>7. \/ entry.quantity = 0
      \/ \A i \in DOMAIN Queue : ~PriceTime!Matches(entry, Queue[i])
  <2> SUFFICES ASSUME Crossed(taker) = {}, NEW i \in 1..Len(arrivals),
                      PriceTime!Matches(entry, Queue[i])
               PROVE  FALSE
    BY <1>1, <1>5, <1>6
  <2>1. PICK s \in OrderSide :
            \E p \in DOMAIN priceLevelMap[s] :
                \E k \in 1..Len(priceLevelMap[s][p].orders) : Stands(i, s, p, k)
    BY <1>6
  <2>2. PICK p \in DOMAIN priceLevelMap[s] :
            \E k \in 1..Len(priceLevelMap[s][p].orders) : Stands(i, s, p, k)
    BY <2>1
  <2>3. PICK k \in 1..Len(priceLevelMap[s][p].orders) : Stands(i, s, p, k)
    BY <2>2
  <2>4. Queue[i].side = s /\ Queue[i].price = p
    BY <2>3 DEF Stands, EntryAt
  <2>5. s # taker.side /\ Eligible(taker, p)
    BY <1>5, <2>4 DEF PriceTime!Matches, Eligible
  <2>6. s = Opposite(taker.side)
    BY <1>1, <2>5 DEF Opposite, OrderSide, Taker
  <2>7. PICK orders \in Seq(Resting) : orders = priceLevelMap[s][p].orders
    BY <1>2, LevelLists
  <2>8. orders # <<>>
    BY <2>3, <2>7
  <2> QED BY <2>5, <2>6, <2>7, <2>8 DEF Crossed
<1>8. PriceTime!Known(taker.id) <=> taker.id \in DOMAIN orderByIDMap
  <2>1. \A i \in 1..Len(arrivals) : Queue[i].id = arrivals[i]
    BY <1>6 DEF Stands, EntryAt
  <2>2. PriceTime!Known(taker.id) <=> \E i \in 1..Len(arrivals) : arrivals[i] = taker.id
    BY <1>6, <2>1 DEF PriceTime!Known
  <2> QED BY <1>2, <2>2 DEF ArrivalsAgree, InArrivalOrder
<1>9. /\ ArrivalsAgree'
      /\ Queue' = IF entry.quantity = 0 \/ PriceTime!Known(entry.id) THEN Queue
                  ELSE Append(Queue, entry)
  <2>1. CASE taker.quantity > 0 /\ taker.id \notin DOMAIN orderByIDMap
    <3>1. InsertOrder(taker)
      BY <2>1 DEF EndMatching
    <3>2. ArrivalsAgree' /\ Queue' = Append(Queue, entry)
      BY <1>1, <1>2, <1>3, <2>1, <3>1, InsertQueue
    <3> QED BY <1>1, <1>5, <1>8, <2>1, <3>2
  <2>2. CASE ~(taker.quantity > 0 /\ taker.id \notin DOMAIN orderByIDMap)
    <3>1. UNCHANGED <<orderByIDMap, priceLevelMap, arrivals>>
      BY <2>2 DEF EndMatching, book
    <3>2. ArrivalsAgree' /\ Queue' = Queue
      BY <1>2, <3>1, QueueIs DEF ArrivalsAgree
    <3>3. taker.quantity \in Nat
      BY <1>1 DEF Taker
    <3> QED BY <1>5, <1>8, <2>2, <3>2, <3>3
  <2> QED BY <2>1, <2>2
<1>10. WalksFirst'
  BY <1>1 DEF WalksFirst
<1>11. PriceTime!Rest
  <2> HIDE DEF Queue, Incoming
  <2> QED BY <1>1, <1>4, <1>5, <1>7, <1>9 DEF PriceTime!Rest
<1> QED
  BY <1>9, <1>10, <1>11

\* handleOrderNew, and handleOrderAmend with another price, submit an order.
LEMMA StartMatchingSubmits ==
    ASSUME NEW order \in Order, StartMatching(order)
    PROVE  Incoming' = order /\ taker'.level = None
<1>1. /\ taker' = [id |-> order.id, side |-> order.side, price |-> order.price,
                   quantity |-> order.quantity, level |-> None]
      /\ order = [id |-> order.id, side |-> order.side, price |-> order.price,
                  quantity |-> order.quantity]
  BY DEF StartMatching, Order
<1>2. taker' \in Taker
  BY <1>1, MatchingEngineAssumption DEF Order, Taker
<1>3. taker' # None
  BY <1>2, NoneIsNoOrder
<1> QED
  BY <1>1, <1>3 DEF Incoming

\* cancelOrder takes the entry of its id out of the queue.
LEMMA CancelWithdraws ==
    ASSUME QueueInv, BookAgrees', NEW id \in DOMAIN orderByIDMap, CancelOrder(id)
    PROVE  /\ ArrivalsAgree'
           /\ \E j \in DOMAIN Queue :
                  /\ Queue[j].id = id
                  /\ Queue[j].side = orderByIDMap[id].side
                  /\ Queue[j].price = orderByIDMap[id].price
                  /\ Queue' = PriceTime!WithoutAt(j)
<1>1. PICK s, p : /\ s = orderByIDMap[id].side /\ p = orderByIDMap[id].price
                  /\ s \in OrderSide /\ p \in DOMAIN priceLevelMap[s]
  BY DEF QueueInv, IInv, TypeOK, BookTypeOK, BookAgrees, PlaceAgrees, Place
<1>2. PICK i \in 1..Len(priceLevelMap[s][p].orders) :
          /\ priceLevelMap[s][p].orders[i].id = id
          /\ EraseOrder(s, p, i, Counted(priceLevelMap[s][p].quantity
                                  - priceLevelMap[s][p].orders[i].quantity))
  BY <1>1 DEF CancelOrder
<1>3. PICK n \in Int : n = priceLevelMap[s][p].quantity
                              - priceLevelMap[s][p].orders[i].quantity
  <2>1. /\ priceLevelMap[s][p].quantity \in Int
        /\ priceLevelMap[s][p].orders[i].quantity \in Int
    BY <1>1, LevelQuantities DEF QueueInv, IInv, TypeOK
  <2> QED
    BY <2>1
<1>4. PICK q \in 0..QuantityModulus - 1 : q = Counted(n)
  BY CountedRange
<1>5. EraseOrder(s, p, i, q)
  BY <1>2, <1>3, <1>4
<1>6. /\ ArrivalsAgree'
      /\ \E j \in DOMAIN Queue :
             /\ arrivals[j] = priceLevelMap[s][p].orders[i].id
             /\ j \in 1..Len(arrivals) /\ Stands(j, s, p, i)
             /\ Queue' = PriceTime!WithoutAt(j)
  BY <1>1, <1>5, EraseWithout
<1>7. PICK j \in DOMAIN Queue : Stands(j, s, p, i) /\ Queue' = PriceTime!WithoutAt(j)
  BY <1>6
<1>8. Queue[j].id = id /\ Queue[j].side = s /\ Queue[j].price = p
  BY <1>2, <1>7 DEF Stands, EntryAt
<1> QED
  BY <1>1, <1>6, <1>7, <1>8

\* handleOrderAmend with the price the order has changes its quantity in place.
LEMMA AmendResizes ==
    ASSUME QueueInv, BookAgrees', NEW order \in Order, order.id \in DOMAIN orderByIDMap,
           orderByIDMap[order.id].side = order.side,
           orderByIDMap[order.id].price = order.price,
           AmendQuantity(order), UNCHANGED <<orderByIDMap, arrivals>>
    PROVE  /\ ArrivalsAgree'
           /\ \E j \in DOMAIN Queue :
                  /\ order = [Queue[j] EXCEPT !.quantity = order.quantity]
                  /\ Queue' = [Queue EXCEPT ![j] = order]
<1>1. PICK s, p, r :
          /\ s = order.side /\ p = order.price /\ r = order.quantity
          /\ s \in OrderSide /\ p \in DOMAIN priceLevelMap[s] /\ r \in Nat
  <2>1. order.side \in OrderSide /\ order.quantity \in Nat
    BY MatchingEngineAssumption DEF Order
  <2>2. order.price \in DOMAIN priceLevelMap[order.side]
    BY DEF QueueInv, IInv, BookAgrees, PlaceAgrees
  <2> QED BY ONLY <2>1, <2>2
<1>2. PICK i \in 1..Len(priceLevelMap[s][p].orders) :
          /\ priceLevelMap[s][p].orders[i].id = order.id
          /\ priceLevelMap' = WithLevel(s, p,
              [orders |-> Resized(priceLevelMap[s][p].orders, i, r),
               quantity |-> Counted(priceLevelMap[s][p].quantity + r
                                - priceLevelMap[s][p].orders[i].quantity)])
  BY <1>1 DEF AmendQuantity
<1>3. PICK n \in Int : n = priceLevelMap[s][p].quantity + r
                              - priceLevelMap[s][p].orders[i].quantity
  BY <1>1, LevelQuantities DEF QueueInv, IInv, TypeOK
<1>4. PICK q \in 0..QuantityModulus - 1 : q = Counted(n)
  BY CountedRange
<1>5. ResizeOrder(s, p, i, r, q)
  BY <1>2, <1>3, <1>4 DEF ResizeOrder
<1>6. BookTypeOK /\ BookAgrees /\ ArrivalsAgree
  BY DEF QueueInv, IInv, TypeOK
<1>7. PICK j \in 1..Len(arrivals) :
          /\ arrivals[j] = priceLevelMap[s][p].orders[i].id
          /\ Queue' = WithQuantity(Queue, j, r)
  BY <1>1, <1>5, <1>6, ResizeQueue
<1>8. ArrivalsAgree'
  BY <1>1, <1>5, <1>6, ResizeQueue
<1>9. DOMAIN Queue = 1..Len(arrivals) /\ Stands(j, s, p, i)
  BY <1>1, <1>6, <1>7, QueueFacts
<1>10. Queue[j] = [id |-> order.id, side |-> s, price |-> p,
                   quantity |-> priceLevelMap[s][p].orders[i].quantity]
  BY <1>2, <1>9 DEF Stands, EntryAt
<1>11. order = [Queue[j] EXCEPT !.quantity = order.quantity]
  BY <1>1, <1>10 DEF Order
<1>12. Queue' = [Queue EXCEPT ![j] = order]
  BY <1>1, <1>7, <1>11 DEF WithQuantity
<1> QED
  BY <1>8, <1>9, <1>11, <1>12

\* A request that is refused changes nothing that PriorityBook sees.
LEMMA ProcessOrderSteps ==
    ASSUME QueueInv, IInv', ProcessOrder
    PROVE  /\ ArrivalsAgree' /\ WalksFirst'
           /\ \/ PriceTime!Submit \/ PriceTime!Withdraw
              \/ PriceTime!Resize \/ PriceTime!Replace
              \/ UNCHANGED PriceTime!vars
<1>1. taker = None /\ engine' = engine /\ Incoming = None
  BY DEF ProcessOrder, Incoming
<1>2. BookAgrees' /\ ArrivalsAgree
  BY DEF IInv, QueueInv
<1>3. ASSUME UNCHANGED <<orderByIDMap, priceLevelMap, arrivals>>
      PROVE  ArrivalsAgree' /\ Queue' = Queue
  BY <1>2, <1>3, QueueIs DEF ArrivalsAgree
<1>4. ASSUME taker' = None PROVE WalksFirst' /\ Incoming' = None
  BY <1>4 DEF WalksFirst, Incoming
<1>5. ASSUME NEW order \in Order, HandleOrderNew(order)
      PROVE  ArrivalsAgree' /\ WalksFirst' /\ PriceTime!Submit
  <2>1. Incoming' = order /\ taker'.level = None
    BY <1>5, StartMatchingSubmits DEF HandleOrderNew
  <2>2. ArrivalsAgree' /\ Queue' = Queue /\ trade' = trade
    BY <1>3, <1>5 DEF HandleOrderNew, book
  <2>3. WalksFirst'
    BY <2>1 DEF WalksFirst
  <2> HIDE DEF Queue, Incoming
  <2> QED BY <1>1, <1>5, <2>1, <2>2, <2>3 DEF PriceTime!Submit
<1>6. ASSUME NEW id \in Ids, NEW side \in OrderSide, HandleOrderCancel(id, side)
      PROVE  ArrivalsAgree' /\ WalksFirst' /\ (PriceTime!Withdraw \/ UNCHANGED PriceTime!vars)
  <2>1. taker' = None /\ trade' = trade /\ WalksFirst' /\ Incoming' = None
    BY <1>1, <1>4, <1>6 DEF HandleOrderCancel
  <2>2. CASE id \in DOMAIN orderByIDMap /\ CancelOrder(id)
    <3>1. ArrivalsAgree' /\ \E j \in DOMAIN Queue : Queue' = PriceTime!WithoutAt(j)
      BY <1>2, <2>2, CancelWithdraws
    <3> HIDE DEF Queue, Incoming
    <3> QED BY <1>1, <2>1, <3>1 DEF PriceTime!Withdraw
  <2>3. CASE UNCHANGED <<book, arrivals>>
    <3>1. ArrivalsAgree' /\ Queue' = Queue
      BY <1>3, <2>3 DEF book
    <3> HIDE DEF Queue, Incoming
    <3> QED BY <1>1, <2>1, <3>1 DEF PriceTime!vars
  <2> QED BY <1>6, <2>2, <2>3 DEF HandleOrderCancel
<1>7. ASSUME NEW order \in Order, HandleOrderAmend(order)
      PROVE  /\ ArrivalsAgree' /\ WalksFirst'
             /\ PriceTime!Resize \/ PriceTime!Replace \/ UNCHANGED PriceTime!vars
  <2>1. trade' = trade
    BY <1>7 DEF HandleOrderAmend
  <2>2. CASE UNCHANGED <<book, taker, arrivals>>
    <3>1. ArrivalsAgree' /\ Queue' = Queue /\ WalksFirst' /\ Incoming' = None
      BY <1>1, <1>3, <1>4, <2>2 DEF book
    <3> HIDE DEF Queue, Incoming
    <3> QED BY <1>1, <2>1, <3>1 DEF PriceTime!vars
  <2>3. CASE /\ order.id \in DOMAIN orderByIDMap
             /\ orderByIDMap[order.id].side = order.side
             /\ orderByIDMap[order.id].price # order.price
             /\ CancelOrder(order.id) /\ StartMatching(order)
    <3>1. Incoming' = order /\ taker'.level = None
      BY <2>3, StartMatchingSubmits
    <3>2. WalksFirst'
      BY <3>1 DEF WalksFirst
    <3>3. /\ ArrivalsAgree'
          /\ \E j \in DOMAIN Queue :
                 /\ Queue[j].id = order.id
                 /\ Queue[j].side = order.side /\ Queue[j].price # order.price
                 /\ Queue' = PriceTime!WithoutAt(j)
      BY <1>2, <2>3, CancelWithdraws
    <3> HIDE DEF Queue, Incoming
    <3> QED BY <1>1, <2>1, <3>1, <3>2, <3>3 DEF PriceTime!Replace
  <2>4. CASE /\ order.id \in DOMAIN orderByIDMap
             /\ orderByIDMap[order.id].side = order.side
             /\ orderByIDMap[order.id].price = order.price
             /\ AmendQuantity(order) /\ UNCHANGED <<orderByIDMap, taker, arrivals>>
    <3>1. WalksFirst' /\ Incoming' = None
      BY <1>1, <1>4, <2>4
    <3>2. /\ ArrivalsAgree'
          /\ \E j \in DOMAIN Queue :
                 /\ order = [Queue[j] EXCEPT !.quantity = order.quantity]
                 /\ Queue' = [Queue EXCEPT ![j] = order]
      BY <1>2, <2>4, AmendResizes
    <3> HIDE DEF Queue, Incoming
    <3> QED BY <1>1, <2>1, <3>1, <3>2 DEF PriceTime!Resize
  <2> QED BY <1>7, <2>2, <2>3, <2>4 DEF HandleOrderAmend
<1> QED
  BY <1>5, <1>6, <1>7 DEF ProcessOrder

LEMMA InitQueue == Init => QueueInv /\ PriceTime!Init
<1> SUFFICES ASSUME Init PROVE QueueInv /\ PriceTime!Init
  OBVIOUS
<1>1. IInv
  BY InitIInv
<1>2. /\ taker = None /\ trade = None /\ arrivals = <<>> /\ Len(arrivals) = 0
      /\ DOMAIN orderByIDMap = {} /\ \A s \in OrderSide : DOMAIN priceLevelMap[s] = {}
  BY DEF Init
<1>3. ArrivalsAgree /\ WalksFirst
  BY <1>2 DEF ArrivalsAgree, InArrivalOrder, WalksFirst
<1>4. engine.bestFirst \in BOOLEAN
  BY MatchingEngineAssumption DEF Init, EngineKind
<1>5. Queue = <<>> /\ Incoming = None
  BY <1>2 DEF Queue, Incoming
<1> HIDE DEF Queue, Incoming
<1> QED
  BY <1>1, <1>2, <1>3, <1>4, <1>5 DEF QueueInv, PriceTime!Init

\* Every step maps to a step of PriorityBook or to a stutter.
LEMMA NextQueue ==
    QueueInv /\ [Next]_vars => QueueInv' /\ [PriceTime!Next]_(PriceTime!vars)
<1> SUFFICES ASSUME QueueInv, [Next]_vars
             PROVE  QueueInv' /\ [PriceTime!Next]_(PriceTime!vars)
  OBVIOUS
<1>1. IInv'
  BY ProcessOrderIInv, MatchIInv, EndMatchingIInv, StutterIInv DEF QueueInv, Next
<1>2. CASE ProcessOrder
  BY <1>1, <1>2, ProcessOrderSteps DEF QueueInv, PriceTime!Next
<1>3. CASE Match
  <2>1. PICK price \in Prices :
            AtLevel(price) /\ (FillMatchedOrder(price) \/ FillTaker(price))
    BY <1>3 DEF Match
  <2>2. UNCHANGED engine
    BY <1>3 DEF Match
  <2>3. ArrivalsAgree' /\ WalksFirst' /\ PriceTime!Trade
    BY <1>1, <2>1, <2>2, FillMatchedOrderTrades, FillTakerTrades
  <2> QED BY <1>1, <2>3 DEF QueueInv, PriceTime!Next
<1>4. CASE EndMatching
  BY <1>1, <1>4, EndMatchingRests DEF QueueInv, PriceTime!Next
<1>5. CASE UNCHANGED vars
  <2>1. UNCHANGED <<orderByIDMap, priceLevelMap, arrivals, taker, engine, trade>>
    BY <1>5 DEF vars, book
  <2>2. ArrivalsAgree' /\ Queue' = Queue /\ Incoming' = Incoming
    BY <2>1, QueueIs DEF QueueInv, ArrivalsAgree, Incoming
  <2>3. WalksFirst'
    BY <2>1 DEF QueueInv, WalksFirst, NextLevel, Crossed
  <2> HIDE DEF Queue, Incoming
  <2> QED BY <1>1, <2>1, <2>2, <2>3 DEF QueueInv, PriceTime!vars
<1> QED
  BY <1>2, <1>3, <1>4, <1>5 DEF Next

\* The safety half of ImplementsPriorityBook: through every handler the two maps
\* of levels and the id map are one queue, every trade of matchOrderList is with
\* the order due by price and then by time, it takes from both what it records,
\* and what is left rests last.
THEOREM MatchingKeepsPriority == Spec => PriceTime!Safety
BY InitQueue, NextQueue, PTL DEF Spec, PriceTime!Safety

=============================================================================
