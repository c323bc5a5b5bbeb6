-------------------------- MODULE AccountingProofs --------------------------
(***************************************************************************)
(* Proofs about Accounting for every price scale and every set of prices   *)
(* and quantities.                                                         *)
(***************************************************************************)
EXTENDS Accounting, ArithmeticProofs

USE AccountingAssumption

LEMMA QuotientType ==
    ASSUME NEW a \in Int, NEW b \in Nat \ {0}
    PROVE  Quotient(a, b) \in Int
BY DEF Quotient

LEMMA CalculateRealizedType ==
    ASSUME NEW pos \in PositionValue, NEW side \in Side,
           NEW price \in Nat, NEW quantity \in Nat
    PROVE  CalculateRealized(pos, side, price, quantity) \in Int
<1> DEFINE c == ClosedQuantity(pos, quantity)
<1>1. pos.quantity \in Int /\ pos.averagePrice \in Nat
  BY DEF PositionValue
<1>2. c \in Int
  BY <1>1 DEF ClosedQuantity, Lesser, Abs
<1> HIDE DEF c
<1>3. (price - pos.averagePrice) * c \in Int /\ (pos.averagePrice - price) * c \in Int
  BY <1>1, <1>2
<1>4. /\ FromProduct(price - pos.averagePrice, c) \in Int
      /\ FromProduct(pos.averagePrice - price, c) \in Int
  BY <1>3, QuotientType DEF FromProduct
<1> QED BY <1>4 DEF CalculateRealized, c

\* The type invariant: no sequence of trades takes the position, the realized
\* PnL or the history variables out of their types.
THEOREM TypeCorrect == Spec => []TypeOK
<1>1. Init => TypeOK
  BY DEF Init, TypeOK, Flat, NoEntry
<1>2. TypeOK /\ [Next]_vars => TypeOK'
  <2> SUFFICES ASSUME TypeOK, [Next]_vars PROVE TypeOK'
    OBVIOUS
  <2>1. ASSUME NEW side \in Side, NEW price \in Prices, NEW quantity \in Quantities,
               Trade(side, price, quantity)
        PROVE  TypeOK'
    <3>1. price \in Nat /\ quantity \in Nat /\ position \in PositionValue
      BY DEF TypeOK, PositionValue
    <3>2. position' \in PositionValue
      BY <2>1, <3>1, ApplyTradeType DEF Trade
    <3>3. realized' \in Int
      BY <2>1, <3>1, CalculateRealizedType DEF Trade, TypeOK
    <3>4. cash' \in Int
      BY <2>1, <3>1 DEF Trade, TypeOK, Signed, Side
    <3>5. entry' \in [low : Nat, high : Nat]
      BY <2>1, <3>1 DEF Trade, TypeOK, EntryAfter, NoEntry, Lesser
    <3>6. slack' \in Nat
      BY <2>1, <3>1 DEF Trade, TypeOK, Rounding, Abs, PositionValue
    <3>7. trades' \in 0..MaxTrades
      BY <2>1 DEF Trade, TypeOK
    <3> QED BY <3>2, <3>3, <3>4, <3>5, <3>6, <3>7 DEF TypeOK, PositionValue
  <2>2. CASE UNCHANGED vars
    BY <2>2 DEF TypeOK, vars
  <2> QED BY <2>1, <2>2 DEF Next
<1> QED BY <1>1, <1>2, PTL DEF Spec

\* A flat position has no average and an open one has a positive one, after
\* any number of trades (position.cpp:246).
THEOREM FlatHasNoAverage == Spec => []FlatIffNoAverage
<1>1. Init => FlatIffNoAverage
  BY DEF Init, FlatIffNoAverage, Flat
<1>2. TypeOK /\ FlatIffNoAverage /\ [Next]_vars => FlatIffNoAverage'
  <2> SUFFICES ASSUME TypeOK, FlatIffNoAverage, [Next]_vars PROVE FlatIffNoAverage'
    OBVIOUS
  <2>1. ASSUME NEW side \in Side, NEW price \in Prices, NEW quantity \in Quantities,
               Trade(side, price, quantity)
        PROVE  FlatIffNoAverage'
    <3>1. position \in PositionValue /\ AverageIffOpen(position)
      BY DEF TypeOK, PositionValue, FlatIffNoAverage, AverageIffOpen
    <3>2. AverageIffOpen(ApplyTrade(position, side, price, quantity))
      BY <3>1, ApplyTradeAverageIffOpen
    <3> QED BY <2>1, <3>2 DEF Trade, FlatIffNoAverage, AverageIffOpen
  <2>2. CASE UNCHANGED vars
    BY <2>2 DEF FlatIffNoAverage, vars
  <2> QED BY <2>1, <2>2 DEF Next
<1> QED BY <1>1, <1>2, TypeCorrect, PTL DEF Spec

\* The average entry price never leaves the range of the prices at which the
\* open position was entered, truncating divisions included.
THEOREM AverageInRange == Spec => []AverageWithinEntries
<1>1. Init => AverageWithinEntries
  BY DEF Init, AverageWithinEntries, Flat
<1>2. TypeOK /\ AverageWithinEntries /\ [Next]_vars => AverageWithinEntries'
  <2> SUFFICES ASSUME TypeOK, AverageWithinEntries, [Next]_vars
               PROVE  AverageWithinEntries'
    OBVIOUS
  <2>1. ASSUME NEW side \in Side, NEW price \in Prices, NEW quantity \in Quantities,
               Trade(side, price, quantity)
        PROVE  AverageWithinEntries'
    <3> DEFINE signed == Signed(side, quantity)
    <3>1. /\ position \in PositionValue
          /\ position.quantity \in Int /\ position.averagePrice \in Nat
          /\ entry.low \in Nat /\ entry.high \in Nat
          /\ price \in Nat /\ quantity \in Nat
      BY DEF TypeOK, PositionValue
    <3>2. CASE quantity = 0
      BY <2>1, <3>2 DEF Trade, ApplyTrade, AverageWithinEntries
    <3>3. CASE quantity # 0
      <4>1. /\ signed \in Int /\ signed # 0
            /\ Reduces(position, side) <=>
                 position.quantity # 0 /\ ~SameDirection(position.quantity, signed)
        BY <3>1, <3>3 DEF Side, Signed, Reduces, SameDirection
      <4>2. /\ position'.quantity = position.quantity + signed
            /\ position'.averagePrice = AverageAfter(position, price, signed)
            /\ entry' = EntryAfter(side, price, quantity)
        BY <2>1, <3>3 DEF Trade, ApplyTrade
      <4>3. EntryAfter(side, price, quantity) =
              IF position.quantity + signed = 0 THEN NoEntry
              ELSE IF position.quantity = 0
                      \/ (position.quantity > 0) # (position.quantity + signed > 0)
              THEN [low |-> price, high |-> price]
              ELSE IF Reduces(position, side) THEN entry
              ELSE [low  |-> Lesser(entry.low, price),
                    high |-> IF entry.high < price THEN price ELSE entry.high]
        BY DEF EntryAfter
      <4> HIDE DEF signed
      <4>4. CASE position.quantity + signed = 0
        BY <4>2, <4>4 DEF AverageWithinEntries
      <4>5. CASE position.quantity + signed # 0 /\ position.quantity = 0
        BY <3>1, <4>2, <4>3, <4>5 DEF AverageWithinEntries, AverageAfter
      <4>6. CASE /\ position.quantity + signed # 0
                 /\ SameDirection(position.quantity, signed)
        <5> DEFINE low == Lesser(entry.low, price)
                   high == IF entry.high < price THEN price ELSE entry.high
        <5>1. /\ low \in Nat /\ high \in Nat
              /\ low <= position.averagePrice /\ position.averagePrice <= high
              /\ low <= price /\ price <= high
          BY <3>1, <4>6 DEF Lesser, AverageWithinEntries, SameDirection
        <5>2. entry' = [low |-> low, high |-> high]
          BY <3>1, <4>1, <4>2, <4>3, <4>6 DEF SameDirection
        <5>3. position'.averagePrice = WeightedAverage(position, price, signed)
          BY <4>2, <4>6 DEF AverageAfter, SameDirection
        <5>4. position.quantity # 0
          BY <4>6 DEF SameDirection
        <5> HIDE DEF low, high
        <5>5. /\ low <= WeightedAverage(position, price, signed)
              /\ WeightedAverage(position, price, signed) <= high
          BY <3>1, <4>1, <5>1, <5>4, WeightedAverageBetween
        <5> QED BY <5>2, <5>3, <5>5 DEF AverageWithinEntries
      <4>7. CASE /\ position.quantity + signed # 0 /\ position.quantity # 0
                 /\ ~SameDirection(position.quantity, signed)
        BY <3>1, <4>1, <4>2, <4>3, <4>7
           DEF AverageWithinEntries, AverageAfter, SameDirection, Abs, AverageWhenReversed
      <4> QED BY <4>4, <4>5, <4>6, <4>7 DEF SameDirection
    <3> QED BY <3>2, <3>3
  <2>2. CASE UNCHANGED vars
    BY <2>2 DEF AverageWithinEntries, vars
  <2> QED BY <2>1, <2>2 DEF Next
<1> QED BY <1>1, <1>2, TypeCorrect, PTL DEF Spec

-----------------------------------------------------------------------------
(* What PnLCalculator attributes is what the trades moved.                 *)

\* What a division loses, in units of the product.
LEMMA QuotientLoses ==
    ASSUME NEW a \in Int, NEW b \in Nat \ {0}
    PROVE  /\ b * Quotient(a, b) - a \in -(b - 1)..b - 1
           /\ a >= 0 => b * Quotient(a, b) <= a
<1>1. \A x \in Nat : x \div b \in Int /\ b * (x \div b) <= x /\ x < b * (x \div b) + b
  OBVIOUS
<1>2. CASE a >= 0
  <2>1. a \in Nat /\ Quotient(a, b) = a \div b
    BY <1>2 DEF Quotient
  <2> QED BY <1>1, <2>1
<1>3. CASE a < 0
  <2> DEFINE q == (-a) \div b
  <2>1. -a \in Nat /\ Quotient(a, b) = -q
    BY <1>3 DEF Quotient
  <2>2. q \in Int /\ b * q <= -a /\ -a < b * q + b
    BY <1>1, <2>1
  <2> HIDE DEF q
  <2>3. b * (-q) = -(b * q) /\ b * q \in Int
    BY <2>2
  <2> QED BY <1>3, <2>1, <2>2, <2>3
<1> QED BY <1>2, <1>3

LEMMA ClosingPart ==
    ASSUME NEW p \in Int, NEW a \in Int, NEW q \in Int, NEW held \in Int
    PROVE  /\ (p - a) * q - p * q - (held - q) * a + held * a = 0
           /\ (a - p) * q + p * q - (held + q) * a + held * a = 0
OBVIOUS

LEMMA ReversingPart ==
    ASSUME NEW p \in Int, NEW a \in Int, NEW q \in Int, NEW held \in Int
    PROVE  /\ (p - a) * held - p * q - (held - q) * p + held * a = 0
           /\ (a - p) * (-held) + p * q - (held + q) * p + held * a = 0
OBVIOUS

\* What a trade leaves unexplained: PnL, and cash against the position at cost.
Unexplained(pos, side, price, quantity) ==
    PriceScale * CalculateRealized(pos, side, price, quantity)
      + price * Signed(side, quantity)
      - ApplyTrade(pos, side, price, quantity).quantity
          * ApplyTrade(pos, side, price, quantity).averagePrice
      + pos.quantity * pos.averagePrice

\* A trade that closes: the realized amount is rounded once.
LEMMA ReducingTrade ==
    ASSUME NEW pos \in PositionValue, NEW side \in Side,
           NEW price \in Nat, NEW quantity \in Nat \ {0}, Reduces(pos, side)
    PROVE  Unexplained(pos, side, price, quantity) \in -(PriceScale - 1)..PriceScale - 1
<1> DEFINE held == pos.quantity
           a == pos.averagePrice
           c == ClosedQuantity(pos, quantity)
           gain == IF held > 0 THEN price - a ELSE a - price
           lost == PriceScale * Quotient(gain * c, PriceScale) - gain * c
           after == ApplyTrade(pos, side, price, quantity)
<1>1. held \in Int /\ a \in Nat /\ held # 0
  BY DEF PositionValue, Reduces
<1>2. c \in Nat /\ c = (IF Abs(held) < quantity THEN Abs(held) ELSE quantity)
  BY <1>1 DEF ClosedQuantity, Lesser, Abs
<1>3. gain \in Int /\ gain * c \in Int
  <2>1. gain \in Int
    BY <1>1
  <2> HIDE DEF gain, c
  <2> QED BY <1>2, <2>1
<1>4. lost \in -(PriceScale - 1)..PriceScale - 1
  <2> HIDE DEF gain, c
  <2> QED BY <1>3, QuotientLoses
<1>5. PriceScale * CalculateRealized(pos, side, price, quantity) = gain * c + lost
  <2>1. CalculateRealized(pos, side, price, quantity) = Quotient(gain * c, PriceScale)
    BY <1>1 DEF CalculateRealized, FromProduct
  <2>2. Quotient(gain * c, PriceScale) \in Int
    <3> HIDE DEF gain, c
    <3> QED BY <1>3, QuotientType
  <2>3. PriceScale * Quotient(gain * c, PriceScale) \in Int
    <3> HIDE DEF gain, c
    <3> QED BY <2>2
  <2> HIDE DEF gain, c
  <2> QED BY <1>3, <2>1, <2>3
<1>6. /\ after.quantity = held + Signed(side, quantity)
      /\ after.averagePrice = AverageAfter(pos, price, Signed(side, quantity))
  BY DEF ApplyTrade
<1>7. gain * c + price * Signed(side, quantity)
        - after.quantity * after.averagePrice + held * a = 0
  <2>1. CASE held > 0
    <3>1. Signed(side, quantity) = -quantity /\ price * (-quantity) = -(price * quantity)
      <4>1. side # "Buy"
        BY <1>1, <2>1 DEF Reduces
      <4>2. Signed(side, quantity) = -quantity
        BY <4>1 DEF Signed
      <4> HIDE DEF held, a, c, gain, lost, after
      <4>3. price * (-quantity) = -(price * quantity)
        OBVIOUS
      <4> QED BY <4>2, <4>3
    <3>2. CASE quantity < held
      <4>1. c = quantity /\ after.quantity = held - quantity /\ after.averagePrice = a
        BY <1>1, <1>2, <1>6, <2>1, <3>1, <3>2 DEF Abs, AverageAfter, SameDirection
      <4> HIDE DEF held, a, c, after
      <4> QED BY <1>1, <2>1, <3>1, <4>1, ClosingPart
    <3>3. CASE quantity >= held
      <4>1. c = held /\ after.quantity = held - quantity
        BY <1>1, <1>2, <1>6, <2>1, <3>1, <3>3 DEF Abs
      <4>2. after.quantity * after.averagePrice = (held - quantity) * price
        <5>1. after.averagePrice = IF quantity = held THEN 0 ELSE price
          BY <1>1, <1>6, <2>1, <3>1, <3>3
             DEF Abs, AverageAfter, SameDirection, AverageWhenFlat, AverageWhenReversed
        <5> HIDE DEF held, after
        <5> QED BY <1>1, <4>1, <5>1
      <4> HIDE DEF held, a, c, after
      <4> QED BY <1>1, <2>1, <3>1, <4>1, <4>2, ReversingPart
    <3> QED BY <1>1, <3>2, <3>3
  <2>2. CASE held < 0
    <3>1. Signed(side, quantity) = quantity
      BY <1>1, <2>2 DEF Reduces, Signed
    <3>2. CASE quantity < -held
      <4>1. c = quantity /\ after.quantity = held + quantity /\ after.averagePrice = a
        BY <1>1, <1>2, <1>6, <2>2, <3>1, <3>2 DEF Abs, AverageAfter, SameDirection
      <4> HIDE DEF held, a, c, after
      <4> QED BY <1>1, <2>2, <3>1, <4>1, ClosingPart
    <3>3. CASE quantity >= -held
      <4>1. c = -held /\ after.quantity = held + quantity
        BY <1>1, <1>2, <1>6, <2>2, <3>1, <3>3 DEF Abs
      <4>2. after.quantity * after.averagePrice = (held + quantity) * price
        <5>1. after.averagePrice = IF quantity = -held THEN 0 ELSE price
          BY <1>1, <1>6, <2>2, <3>1, <3>3
             DEF Abs, AverageAfter, SameDirection, AverageWhenFlat, AverageWhenReversed
        <5> HIDE DEF held, after
        <5> QED BY <1>1, <4>1, <5>1
      <4> HIDE DEF held, a, c, after
      <4> QED BY <1>1, <2>2, <3>1, <4>1, <4>2, ReversingPart
    <3> QED BY <1>1, <3>2, <3>3
  <2> QED BY <1>1, <2>1, <2>2
<1>8. /\ after.quantity * after.averagePrice \in Int /\ held * a \in Int
      /\ price * Signed(side, quantity) \in Int
  <2>1. after \in PositionValue
    BY ApplyTradeType
  <2>2. after.quantity \in Int /\ after.averagePrice \in Nat
    BY <2>1 DEF PositionValue
  <2>3. Signed(side, quantity) \in Int
    BY DEF Signed
  <2> HIDE DEF after, held, a
  <2> QED BY <1>1, <2>2, <2>3
<1>9. Unexplained(pos, side, price, quantity) = lost
  <2>1. Unexplained(pos, side, price, quantity)
          = (gain * c + lost) + price * Signed(side, quantity)
              - after.quantity * after.averagePrice + held * a
    BY <1>5 DEF Unexplained
  <2>2. lost \in Int
    BY <1>4
  <2> HIDE DEF gain, c, lost, after, held, a
  <2> QED BY <1>3, <1>7, <1>8, <2>1, <2>2
<1> QED BY <1>4, <1>9

\* A trade that opens or adds: the average is rounded once.
LEMMA AddingTrade ==
    ASSUME NEW pos \in PositionValue, NEW side \in Side,
           NEW price \in Nat, NEW quantity \in Nat \ {0}, ~Reduces(pos, side)
    PROVE  LET most == IF pos.quantity = 0 THEN 0 ELSE Abs(pos.quantity) + quantity - 1
           IN  Unexplained(pos, side, price, quantity) \in -most..most
<1> DEFINE held == pos.quantity
           a == pos.averagePrice
           signed == Signed(side, quantity)
           after == ApplyTrade(pos, side, price, quantity)
<1>1. /\ held \in Int /\ a \in Nat /\ signed \in {quantity, -quantity} /\ signed \in Int
      /\ held # 0 => SameDirection(held, signed)
  BY DEF PositionValue, Signed, Side, Reduces, SameDirection
<1>2. /\ after.quantity = held + signed
      /\ after.averagePrice = AverageAfter(pos, price, signed)
  BY DEF ApplyTrade
<1>3. CalculateRealized(pos, side, price, quantity) = 0 /\ PriceScale * 0 = 0
  BY DEF CalculateRealized
<1>4. Unexplained(pos, side, price, quantity)
        = 0 + price * signed - after.quantity * after.averagePrice + held * a
  BY <1>3 DEF Unexplained
<1>5. CASE held = 0
  <2>1. after.quantity = signed /\ after.averagePrice = price
    BY <1>1, <1>2, <1>5 DEF AverageAfter
  <2>2. held * a = 0 /\ price * signed = signed * price /\ price * signed \in Int
    BY <1>1, <1>5
  <2>3. Unexplained(pos, side, price, quantity) = 0
    <3> HIDE DEF held, a, signed, after
    <3> QED BY <1>4, <2>1, <2>2
  <2> QED BY <1>5, <2>3
<1>6. CASE held # 0
  <2> DEFINE size == Abs(held)
             n == size + quantity
             w == Quotient(a * size + price * quantity, n)
  <2>1. size \in Nat \ {0} /\ n \in Nat \ {0} /\ Abs(signed) = quantity
    BY <1>1, <1>6 DEF Abs
  <2>2. /\ a * size \in Nat /\ price * quantity \in Nat
        /\ a * size + price * quantity \in Nat
    <3> HIDE DEF size, a
    <3> QED BY <1>1, <2>1
  <2>3. /\ n * w - (a * size + price * quantity) \in -(n - 1)..0
        /\ n * w \in Int /\ w \in Int
    <3> HIDE DEF n, a, size
    <3>1. w \in Int
      BY <2>1, <2>2, QuotientType
    <3>2. n * w \in Int
      <4> HIDE DEF w
      <4> QED BY <2>1, <3>1
    <3>3. /\ n * w - (a * size + price * quantity) \in -(n - 1)..n - 1
          /\ n * w <= a * size + price * quantity
      <4> DEFINE t == a * size + price * quantity
      <4>1. t \in Int /\ t >= 0
        BY <2>2
      <4> HIDE DEF t
      <4>2. n * Quotient(t, n) - t \in -(n - 1)..n - 1 /\ n * Quotient(t, n) <= t
        BY ONLY <2>1, <4>1, QuotientLoses
      <4> QED BY ONLY <4>2 DEF t, w
    <3> HIDE DEF w
    <3> QED BY <2>1, <2>2, <3>1, <3>2, <3>3
  <2>4. after.averagePrice = w
    BY <1>1, <1>2, <1>6, <2>1 DEF AverageAfter, WeightedAverage
  <2>5. CASE held > 0
    <3>1. signed = quantity /\ after.quantity = n /\ held = size
      BY <1>1, <1>2, <2>5 DEF SameDirection, Abs
    <3>2. held * a = a * size
      BY <1>1, <3>1
    <3> HIDE DEF held, a, signed, after, size, w
    <3>3. Unexplained(pos, side, price, quantity) = a * size + price * quantity - n * w
      <4> HIDE DEF n
      <4> QED BY <1>4, <2>2, <2>3, <2>4, <3>1, <3>2
    <3>4. Unexplained(pos, side, price, quantity) \in 0..n - 1
      <4> HIDE DEF n
      <4> QED BY <2>1, <2>2, <2>3, <3>3
    <3> QED BY <1>6, <2>1, <3>4 DEF size, held
  <2>6. CASE held < 0
    <3>1. signed = -quantity /\ after.quantity = -n /\ held = -size
      BY <1>1, <1>2, <2>6 DEF SameDirection, Abs
    <3>2. held * a = -(a * size) /\ price * signed = -(price * quantity)
      <4> HIDE DEF held, a, size, signed
      <4> QED BY <1>1, <2>1, <3>1
    <3>3. (-n) * w = -(n * w)
      <4> HIDE DEF n, w
      <4> QED BY <2>1, <2>3
    <3> HIDE DEF held, a, signed, after, size, w
    <3>4. Unexplained(pos, side, price, quantity) = n * w - (a * size + price * quantity)
      <4> HIDE DEF n
      <4> QED BY <1>4, <2>2, <2>3, <2>4, <3>1, <3>2, <3>3
    <3>5. Unexplained(pos, side, price, quantity) \in -(n - 1)..0
      <4> HIDE DEF n
      <4> QED BY <2>1, <2>2, <2>3, <3>4
    <3> QED BY <1>6, <2>1, <3>5 DEF size, held
  <2> QED BY <1>1, <1>6, <2>5, <2>6
<1> QED BY <1>5, <1>6

\* PnL so far, and cash against the position at cost.
Balance == PriceScale * realized - cash - position.quantity * position.averagePrice

Balanced == Balance \in -slack..slack

LEMMA BalancedStep ==
    ASSUME TypeOK, Balanced, NEW side \in Side, NEW price \in Prices,
           NEW quantity \in Quantities, Trade(side, price, quantity)
    PROVE  Balanced'
<1> DEFINE pnl == CalculateRealized(position, side, price, quantity)
           paid == price * Signed(side, quantity)
           off == Unexplained(position, side, price, quantity)
           old == position.quantity * position.averagePrice
           new == position'.quantity * position'.averagePrice
<1>1. position \in PositionValue /\ price \in Nat /\ quantity \in Nat
  BY DEF TypeOK, PositionValue
<1>2. position' \in PositionValue
  BY <1>1, ApplyTradeType DEF Trade
<1>3. /\ paid \in Int /\ old \in Int /\ new \in Int /\ pnl \in Int
      /\ realized \in Int /\ cash \in Int /\ slack \in Nat /\ PriceScale * pnl \in Int
      /\ PriceScale * realized \in Int
      /\ PriceScale * (realized + pnl) = PriceScale * realized + PriceScale * pnl
  <2>1. pnl \in Int
    BY <1>1, CalculateRealizedType
  <2>2. /\ Signed(side, quantity) \in Int
        /\ position.quantity \in Int /\ position.averagePrice \in Int
        /\ position'.quantity \in Int /\ position'.averagePrice \in Int
        /\ realized \in Int /\ cash \in Int /\ slack \in Nat
    BY <1>1, <1>2 DEF Signed, PositionValue, TypeOK
  <2> HIDE DEF pnl
  <2> QED BY <1>1, <2>1, <2>2
<1>4. off = PriceScale * pnl + paid - new + old
  BY DEF Unexplained, Trade
<1>5. Balance' = PriceScale * (realized + pnl) - (cash - paid) - new
  BY DEF Balance, Trade
<1>6. Balance = PriceScale * realized - cash - old
  BY DEF Balance
<1>7. off \in -Rounding(side, quantity)..Rounding(side, quantity)
  <2>1. CASE quantity = 0
    <3>1. pnl = 0 /\ new = old /\ Signed(side, quantity) = 0
      BY <2>1, SignedZero DEF CalculateRealized, ApplyTrade, Trade
    <3>2. paid = 0 /\ PriceScale * pnl = 0
      BY <1>1, <3>1
    <3> HIDE DEF pnl, paid, new, old, off
    <3> QED BY <1>3, <1>4, <2>1, <3>1, <3>2 DEF Rounding
  <2>2. CASE quantity # 0 /\ Reduces(position, side)
    <3>1. position.quantity # 0
      BY <1>1, <2>2 DEF Reduces
    <3> QED BY <1>1, <2>2, <3>1, ReducingTrade DEF Rounding
  <2>3. CASE quantity # 0 /\ ~Reduces(position, side)
    BY <1>1, <2>3, AddingTrade DEF Rounding
  <2> QED BY <2>1, <2>2, <2>3
<1>8. Rounding(side, quantity) \in Nat
  BY <1>1 DEF Rounding, Abs, PositionValue
<1>9. slack' = slack + Rounding(side, quantity)
  BY DEF Trade
<1> HIDE DEF pnl, paid, new, old, off
<1>10. Balance' = Balance + off /\ off \in Int /\ Balance \in Int
  BY <1>3, <1>4, <1>5, <1>6
<1> QED BY <1>3, <1>7, <1>8, <1>9, <1>10 DEF Balanced

\* Marking what is open loses less than one division more.
LEMMA MarkedBalance ==
    ASSUME TypeOK, Balanced
    PROVE  PnLExplainsCash
<1> SUFFICES ASSUME NEW mark \in Prices
             PROVE  LET event == [bestBid |-> mark, bestBidQuantity |-> 1,
                                  bestAsk |-> mark, bestAskQuantity |-> 1]
                        total == realized + CalculateUnrealized(position, event)
                        value == cash + position.quantity * mark
                    IN  Abs(PriceScale * total - value) <= slack + PriceScale - 1
  BY DEF PnLExplainsCash
<1> DEFINE event == [bestBid |-> mark, bestBidQuantity |-> 1,
                     bestAsk |-> mark, bestAskQuantity |-> 1]
           open == CalculateUnrealized(position, event)
           held == position.quantity
           a == position.averagePrice
           lost == PriceScale * open - (mark - a) * held
<1>1. /\ held \in Int /\ a \in Nat /\ mark \in Nat /\ realized \in Int /\ cash \in Int
      /\ slack \in Nat
  BY DEF TypeOK
<1>2. open \in Int /\ lost \in -(PriceScale - 1)..PriceScale - 1
  <2>1. CASE held = 0
    <3>1. open = 0 /\ (mark - a) * held = 0 /\ PriceScale * 0 = 0
      BY <1>1, <2>1 DEF CalculateUnrealized
    <3> QED BY <3>1
  <2>2. CASE held > 0
    <3>1. open = Quotient((mark - a) * held, PriceScale)
      BY <1>1, <2>2 DEF CalculateUnrealized, FromProduct
    <3>2. (mark - a) * held \in Int
      BY <1>1
    <3> HIDE DEF held, a
    <3> QED BY <3>1, <3>2, QuotientType, QuotientLoses
  <2>3. CASE held < 0
    <3>1. open = Quotient((a - mark) * (-held), PriceScale)
      BY <1>1, <2>3 DEF CalculateUnrealized, FromProduct, Abs
    <3>2. (a - mark) * (-held) = (mark - a) * held /\ (mark - a) * held \in Int
      BY <1>1
    <3> HIDE DEF held, a
    <3> QED BY <3>1, <3>2, QuotientType, QuotientLoses
  <2> QED BY <1>1, <2>1, <2>2, <2>3
<1> HIDE DEF open
<1>3. /\ PriceScale * (realized + open) = PriceScale * realized + PriceScale * open
      /\ (mark - a) * held = held * mark - held * a
      /\ PriceScale * realized \in Int /\ PriceScale * open \in Int
      /\ held * mark \in Int /\ held * a \in Int
  <2> HIDE DEF held, a
  <2> QED BY <1>1, <1>2
<1>4. PriceScale * (realized + open) - (cash + held * mark) = Balance + lost
  <2>1. Balance = PriceScale * realized - cash - held * a
    BY DEF Balance
  <2> HIDE DEF held, a
  <2> QED BY <1>1, <1>2, <1>3, <2>1
<1>5. Balance \in Int /\ -slack <= Balance /\ Balance <= slack
  BY <1>1 DEF Balanced
<1>6. lost \in Int /\ -(PriceScale - 1) <= lost /\ lost <= PriceScale - 1
  BY <1>2
<1> HIDE DEF held, a, lost
<1>7. Abs(Balance + lost) <= slack + PriceScale - 1
  BY <1>1, <1>5, <1>6 DEF Abs
<1> QED BY <1>4, <1>7 DEF open, held

\* calculateRealized and applyTrade look at each report on their own, and still
\* account for all of the cash: no share of a closing or reversing trade is
\* counted twice or lost, beyond one truncated division for each trade.
THEOREM PnLAccountsForCash == Spec => []PnLExplainsCash
<1>1. Init => Balanced
  <2>1. PriceScale * 0 = 0 /\ 0 * 0 = 0
    OBVIOUS
  <2> QED BY <2>1 DEF Init, Balanced, Balance, Flat
<1>2. TypeOK /\ Balanced /\ [Next]_vars => Balanced'
  <2>1. ASSUME Balanced, UNCHANGED vars PROVE Balanced'
    BY <2>1 DEF Balanced, Balance, vars
  <2> QED BY <2>1, BalancedStep DEF Next
<1> QED BY <1>1, <1>2, MarkedBalance, TypeCorrect, PTL DEF Spec

=============================================================================
