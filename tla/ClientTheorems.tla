--------------------------- MODULE ClientTheorems ---------------------------
(***************************************************************************)
(* What the client's operators promise, for every argument: the price      *)
(* texts of Format and the way to the engine, and what the reducer does to *)
(* the parts of the state a frame is not about.                            *)
(***************************************************************************)
EXTENDS Reducer, Inbound, FiniteSetTheorems, TLAPS

\* The four digits are digits.
LEMMA DigitsAreDigits ==
    ASSUME NEW px \in Nat
    PROVE  /\ Digits(px) \in Seq(0 .. 9)
           /\ Len(Digits(px)) = 4
           /\ \A i \in 1 .. 4 : Digits(px)[i] \in 0 .. 9
<1> DEFINE a == px \div 1000 % 10
           b == px \div 100 % 10
           c == px \div 10 % 10
           d == px % 10
<1>1. a \in 0 .. 9 /\ b \in 0 .. 9 /\ c \in 0 .. 9 /\ d \in 0 .. 9
  OBVIOUS
<1>2. Digits(px) = <<a, b, c, d>>
  BY DEF Digits
<1> HIDE DEF a, b, c, d
<1> QED
  BY <1>1, <1>2

Shows(px, n) ==
    /\ n = 2 \/ Digits(px)[n] # 0
    /\ \A i \in n + 1 .. 4 : Digits(px)[i] = 0

\* There is a number of decimals to show.
LEMMA SomeDecimals ==
    ASSUME NEW px \in Nat
    PROVE  \E n \in 2 .. 4 : Shows(px, n)
<1>1. CASE Digits(px)[4] # 0
  <2>1. Shows(px, 4)
    BY <1>1 DEF Shows
  <2> QED
    BY <2>1
<1>2. CASE Digits(px)[4] = 0 /\ Digits(px)[3] # 0
  <2>1. Shows(px, 3)
    BY <1>2 DEF Shows
  <2> QED
    BY <2>1
<1>3. CASE Digits(px)[4] = 0 /\ Digits(px)[3] = 0
  <2>1. Shows(px, 2)
    BY <1>3 DEF Shows
  <2> QED
    BY <2>1
<1> QED
  BY <1>1, <1>2, <1>3

\* formatPrice writes a text, whatever the units (format.ts).
LEMMA PricesAreTexts ==
    ASSUME NEW px \in Int
    PROVE  formatPrice(px) \in Text
<1>1. CASE px < 0
  BY <1>1 DEF formatPrice, EMPTY_PRICE, NotANumber, Text
<1>2. CASE px \in Nat
  <2> DEFINE shown == CHOOSE n \in 2 .. 4 : Shows(px, n)
  <2>1. shown \in 2 .. 4
    BY <1>2, SomeDecimals
  <2>2. formatPrice(px) =
          [ whole |-> px \div UNITS, fraction |-> SubSeq(Digits(px), 1, shown) ]
    BY <1>2 DEF formatPrice, Shows
  <2> HIDE DEF shown
  <2>3. SubSeq(Digits(px), 1, shown) \in Seq(0 .. 9)
    BY <2>1, <1>2, DigitsAreDigits
  <2>4. px \div UNITS \in Nat
    BY <1>2 DEF UNITS
  <2> QED
    BY <2>2, <2>3, <2>4 DEF Text
<1> QED
  BY <1>1, <1>2

\* The digit at a place of the fraction, which is zero where there is none.
DigitAt(text, i) == IF i \in DOMAIN text.fraction THEN text.fraction[i] ELSE 0

\* What parsePrice makes of a text that is a number.
LEMMA ParsedUnits ==
    ASSUME NEW text \in Text, text # NotANumber, Len(text.fraction) <= 2,
           NEW units,
           units = text.whole * UNITS + DigitAt(text, 1) * 1000 + DigitAt(text, 2) * 100
    PROVE  parsePrice(text) = IF units = 0 THEN NA ELSE units
<1>1. ~ (Len(text.fraction) > 2)
  BY DEF Text
<1> QED
  BY <1>1 DEF parsePrice, DigitAt

\* What is left of a division, and what its quotient is.
LEMMA QuotientIs ==
    ASSUME NEW n \in Nat, NEW d \in {10, 100, 1000, 10000}, NEW q \in Nat, NEW r \in Nat,
           n = q * d + r, r < d
    PROVE  n \div d = q
<1>1. CASE d = 10
  BY <1>1
<1>2. CASE d = 100
  BY <1>2
<1>3. CASE d = 1000
  BY <1>3
<1>4. CASE d = 10000
  BY <1>4
<1> QED
  BY <1>1, <1>2, <1>3, <1>4

\* Dollars and the two digits of the cents make up a price on the tick.
LEMMA DigitsAddUp ==
    ASSUME NEW px \in Nat, px % 100 = 0
    PROVE  (px \div 10000) * 10000 + (px \div 1000 % 10) * 1000 + (px \div 100 % 10) * 100 = px
<1> DEFINE k == px \div 100
           m == k \div 10
           b == k % 10
           w == m \div 10
           a == m % 10
<1>1. k \in Nat /\ px = k * 100
  OBVIOUS
<1> HIDE DEF k
<1>2. m \in Nat /\ b \in 0 .. 9 /\ k = m * 10 + b
  BY <1>1
<1> HIDE DEF m, b
<1>3. w \in Nat /\ a \in 0 .. 9 /\ m = w * 10 + a
  BY <1>2
<1> HIDE DEF w, a
<1>4. px \div 1000 = m
  <2> DEFINE r == b * 100
  <2>1. px = m * 1000 + r /\ r \in Nat /\ r < 1000
    BY <1>1, <1>2
  <2> HIDE DEF r
  <2> QED
    BY <1>2, <2>1, QuotientIs
<1>5. px \div 10000 = w
  <2> DEFINE r == a * 1000 + b * 100
  <2>1. px = w * 10000 + r /\ r \in Nat /\ r < 10000
    BY <1>1, <1>2, <1>3
  <2> HIDE DEF r
  <2> QED
    BY <1>3, <2>1, QuotientIs
<1>6. px \div 1000 % 10 = a /\ px \div 100 % 10 = b
  BY <1>4 DEF k, b, a
<1>7. w * 10000 + a * 1000 + b * 100 = px
  BY <1>1, <1>2, <1>3
<1> QED
  BY <1>5, <1>6, <1>7

\* A price on the tick is written with two decimals and read back as itself:
\* what a chip, a nudge or a click on the curve fills in is the price it was
\* asked to fill in (formatPrice and parsePrice, format.ts).
THEOREM PricesReadBack ==
    ASSUME NEW px \in Nat, IsOnTick(px)
    PROVE  parsePrice(formatPrice(px)) = px
<1>1. px > 0 /\ px % 100 = 0
  BY DEF IsOnTick, TICK
<1>2. /\ Digits(px)[4] = 0 /\ Digits(px)[3] = 0
      /\ Digits(px)[1] = px \div 1000 % 10 /\ Digits(px)[2] = px \div 100 % 10
  BY <1>1 DEF Digits
<1> DEFINE shown == CHOOSE n \in 2 .. 4 : Shows(px, n)
<1>3. \A n \in 2 .. 4 : Shows(px, n) => n = 2
  BY <1>2 DEF Shows
<1>4. shown = 2
  BY <1>3, SomeDecimals
<1>5. formatPrice(px) =
        [ whole |-> px \div UNITS, fraction |-> SubSeq(Digits(px), 1, shown) ]
  BY DEF formatPrice, Shows
<1> HIDE DEF shown
<1> DEFINE f == SubSeq(Digits(px), 1, 2)
<1>6. /\ DOMAIN f = 1 .. 2 /\ Len(f) = 2
      /\ f[1] = px \div 1000 % 10 /\ f[2] = px \div 100 % 10
  BY <1>2, DigitsAreDigits
<1>7. formatPrice(px) = [ whole |-> px \div UNITS, fraction |-> f ]
  BY <1>4, <1>5
<1> HIDE DEF f
<1>8. (px \div 10000) * 10000 + (px \div 1000 % 10) * 1000 + (px \div 100 % 10) * 100 = px
  BY <1>1, DigitsAddUp
<1>9. [ whole |-> px \div UNITS, fraction |-> f ] # NotANumber
  BY DEF UNITS, NotANumber, NA
<1>10. px \div UNITS \in Nat
  BY DEF UNITS
<1> DEFINE text == [ whole |-> px \div UNITS, fraction |-> f ]
<1>11. /\ text \in Text /\ text # NotANumber /\ Len(text.fraction) <= 2
        /\ DigitAt(text, 1) = f[1] /\ DigitAt(text, 2) = f[2]
        /\ text.whole = px \div UNITS
  <2>1. text \in Text
    BY <1>7, PricesAreTexts
  <2>2. text.fraction = f /\ text.whole = px \div UNITS
    OBVIOUS
  <2>3. text # NotANumber
    BY <1>9
  <2> HIDE DEF text
  <2>4. DigitAt(text, 1) = f[1] /\ DigitAt(text, 2) = f[2]
    BY <1>6, <2>2 DEF DigitAt
  <2>5. Len(text.fraction) <= 2
    <3>1. Len(text.fraction) = 2
      BY <1>6, <2>2, Zenon
    <3> QED
      BY <3>1
  <2> QED
    BY <2>1, <2>2, <2>3, <2>4, <2>5
<1>12. px = text.whole * UNITS + DigitAt(text, 1) * 1000 + DigitAt(text, 2) * 100
  BY <1>6, <1>8, <1>11 DEF UNITS
<1>13. parsePrice(text) = IF px = 0 THEN NA ELSE px
  BY <1>11, <1>12, ParsedUnits
<1> QED
  BY <1>1, <1>7, <1>13

\* Whatever is typed, a price that is read is above zero and on the tick
\* (parsePrice, format.ts).
THEOREM ParsedPricesAreOnTick ==
    ASSUME NEW text \in Text, parsePrice(text) # NA
    PROVE  parsePrice(text) \in Nat /\ IsOnTick(parsePrice(text))
<1> DEFINE w == text.whole
           d1 == DigitAt(text, 1)
           d2 == DigitAt(text, 2)
           k == w * 100 + d1 * 10 + d2
<1>1. text # NotANumber /\ Len(text.fraction) <= 2
  BY DEF parsePrice, Text
<1>2. w \in Nat /\ text.fraction \in Seq(0 .. 9)
  BY <1>1 DEF Text
<1>3. d1 \in 0 .. 9 /\ d2 \in 0 .. 9
  BY <1>2 DEF DigitAt
<1>4. parsePrice(text) = LET units == w * UNITS + d1 * 1000 + d2 * 100
                         IN  IF units = 0 THEN NA ELSE units
  BY <1>1, ParsedUnits
<1> HIDE DEF w, d1, d2
<1>5. w * UNITS + d1 * 1000 + d2 * 100 = k * 100 /\ k \in Nat
  BY <1>2, <1>3 DEF UNITS
<1> HIDE DEF k
<1> QED
  BY <1>4, <1>5 DEF IsOnTick, TICK

\* A price on the tick is written into tag 44 with two decimals, which the
\* parser reads as the same price (JsonToFix.formatPrice, FixParser.parsePrice).
THEOREM PricesSurviveTheWire ==
    ASSUME NEW px \in Nat, IsOnTick(px)
    PROVE  parsePriceTag(priceTag(px)) = px
<1>1. px > 0 /\ px % 100 = 0
  BY DEF IsOnTick, TICK
<1> DEFINE f == SubSeq(Digits(px), 1, 2)
<1>2. Digits(px)[1] = px \div 1000 % 10 /\ Digits(px)[2] = px \div 100 % 10
  BY DEF Digits
<1>3. Len(f) = 2 /\ f[1] = px \div 1000 % 10 /\ f[2] = px \div 100 % 10
  BY <1>2, DigitsAreDigits
<1>4. priceTag(px) = [ whole |-> px \div UNITS, fraction |-> f ]
  BY <1>1 DEF priceTag, TICK
<1> HIDE DEF f
<1>5. priceTag(px) # NotANumber
  BY <1>4 DEF UNITS, NotANumber, NA
<1> DEFINE a == px \div 1000 % 10
           b == px \div 100 % 10
           w == px \div 10000
<1>6. w * 10000 + (a * 10 + b) * 100 = px
  <2>1. w * 10000 + a * 1000 + b * 100 = px
    <3>1. (px \div 10000) * 10000 + (px \div 1000 % 10) * 1000 + (px \div 100 % 10) * 100 = px
      BY <1>1, DigitsAddUp
    <3> QED
      BY <3>1
  <2>2. a \in Int /\ b \in Int /\ w \in Int
    OBVIOUS
  <2> HIDE DEF a, b, w
  <2> QED
    BY <2>1, <2>2
<1> DEFINE text == priceTag(px)
<1>7. text.whole = px \div 10000 /\ text.fraction = f
  BY <1>4 DEF UNITS
<1>8. text # NotANumber
  BY <1>5
<1> HIDE DEF text
<1>9. text.whole * UNITS + (text.fraction[1] * 10 + text.fraction[2]) * 100 = px
  <2>1. f[1] = a /\ f[2] = b
    BY <1>3
  <2>2. text.whole = w
    BY <1>7
  <2> HIDE DEF a, b, w
  <2>3. text.fraction[1] = a /\ text.fraction[2] = b
    BY <1>7, <2>1
  <2> QED
    BY <1>6, <2>2, <2>3 DEF UNITS
<1>10. Len(text.fraction) = 2
  <2>1. Len(f) = 2
    BY <1>3
  <2>2. text.fraction = f
    BY <1>7
  <2> QED
    BY <2>1, <2>2, Zenon
<1>11. parsePriceTag(text) = px
  BY <1>1, <1>8, <1>9, <1>10 DEF parsePriceTag
<1> QED
  BY <1>11 DEF text

\* Division leaves what is below the divisor.
LEMMA SmallRemainder ==
    ASSUME NEW k \in Nat \ {0}, NEW n \in 0 .. k - 1
    PROVE  n % k = n
OBVIOUS

\* The cast keeps what an int can hold (MatchingEngineHandler.process).
LEMMA ShortEnough ==
    ASSUME NEW n \in 0 .. MAX_INT
    PROVE  toInt(n) = n
<1> DEFINE k == 2 * (MAX_INT + 1)
<1>1. k \in Nat \ {0} /\ n + MAX_INT + 1 \in 0 .. k - 1
  BY WidthAssumption
<1> HIDE DEF k
<1>2. (n + MAX_INT + 1) % k = n + MAX_INT + 1
  BY <1>1, SmallRemainder
<1>3. toInt(n) = ((n + MAX_INT + 1) % k) - (MAX_INT + 1)
  BY DEF toInt, k
<1> QED
  BY <1>2, <1>3, WidthAssumption

\* What a NEW frame asks for.
FrameTerms(frame) ==
    [ orderID |-> frame.clOrdId, side |-> frame.side, quantity |-> frame.qty,
      price |-> frame.price, tif |-> frame.tif, peak |-> frame.maxFloor,
      ordType |-> frame.ordType ]

\* A frame whose terms the constructor takes gets through the FIX message and
\* the parser, and its terms arrive unless they are too wide for an int.
LEMMA FramesArrive ==
    ASSUME NEW f \in NewOrderFrame, ConstructorAccepts(FrameTerms(f))
    PROVE  /\ IsParsed(newOrderSingle(f))
           /\ f.qty <= MAX_INT =>
                 TicketOf(f) = FrameTerms(f) /\ ConstructorAccepts(TicketOf(f))
<1> DEFINE m == newOrderSingle(f)
           tag == priceTag(f.price)
<1>1. /\ f.clOrdId \in Int /\ f.clOrdId > 0 /\ f.qty \in Int /\ f.qty > 0
      /\ f.maxFloor \in 0 .. f.qty /\ f.price \in Int
      /\ f.side \in Sides /\ f.tif \in TimesInForce /\ f.ordType \in OrdTypes
      /\ f.ordType = "LIMIT" => IsOnTick(f.price)
      /\ f.ordType = "PEG_MID" => f.price = NA
  BY DEF ConstructorAccepts, FrameTerms, NewOrderFrame
<1>2. /\ m.clOrdID = f.clOrdId /\ m.side = sideCode(f.side) /\ m.orderQty = f.qty
      /\ m.ordType = ordTypeCode(f.ordType) /\ m.timeInForce = tifCode(f.tif)
      /\ m.price = IF f.ordType = "PEG_MID" THEN {} ELSE {tag}
      /\ m.execInst = IF f.ordType = "PEG_MID" THEN {"M"} ELSE {}
      /\ m.maxFloor = IF f.maxFloor > 0 THEN {f.maxFloor} ELSE {}
  BY DEF newOrderSingle
<1> HIDE DEF m, tag
<1>3. mapSide(m.side) = f.side /\ f.side # Null
  BY <1>1, <1>2 DEF mapSide, sideCode, Sides, Null
<1>4. mapOrdType(m.ordType) = f.ordType /\ f.ordType # Null
  BY <1>1, <1>2 DEF mapOrdType, ordTypeCode, OrdTypes, Null
<1>5. mapTif(m.timeInForce) = f.tif /\ f.tif # Null
  BY <1>1, <1>2 DEF mapTif, tifCode, TimesInForce, Null
<1>6. f.ordType = "LIMIT" => parsePriceTag(tag) = f.price /\ f.price > 0
  BY <1>1, PricesSurviveTheWire DEF tag, IsOnTick
<1>7. IsParsed(m)
  <2>1. f.ordType = "LIMIT" => \E text \in m.price : parsePriceTag(text) # NA
    BY <1>1, <1>2, <1>6 DEF NA
  <2>2. f.ordType # "LIMIT" => m.price = {} /\ m.execInst = {"M"}
    BY <1>1, <1>2 DEF OrdTypes
  <2>3. \A floor \in m.maxFloor : floor \in 1 .. m.orderQty
    BY <1>1, <1>2
  <2> QED
    BY <1>1, <1>2, <1>3, <1>4, <1>5, <2>1, <2>2, <2>3 DEF IsParsed
<1>8. ASSUME f.qty <= MAX_INT
      PROVE  TicketOf(f) = FrameTerms(f)
  <2> DEFINE e == EventOf(m)
  <2>1. /\ e.orderId = f.clOrdId /\ e.side = f.side /\ e.ordType = f.ordType
        /\ e.tif = f.tif /\ e.quantity = f.qty
    BY <1>2, <1>3, <1>4, <1>5 DEF EventOf
  <2>2. e.price = f.price
    <3>1. e.price = IF f.ordType = "LIMIT"
                    THEN parsePriceTag(CHOOSE text \in m.price : TRUE) ELSE NA
      BY <1>4 DEF EventOf
    <3>2. f.ordType = "LIMIT" => m.price = {tag}
      BY <1>2
    <3>3. CASE f.ordType = "LIMIT"
      <4>1. (CHOOSE text \in m.price : TRUE) = tag
        BY <3>2, <3>3
      <4> QED
        BY <1>6, <3>1, <3>3, <4>1
    <3>4. CASE f.ordType = "PEG_MID"
      BY <1>1, <3>1, <3>4
    <3> QED
      BY <1>1, <3>3, <3>4 DEF OrdTypes
  <2>3. e.maxFloor = f.maxFloor
    <3>1. e.maxFloor = IF m.maxFloor = {} THEN 0
                       ELSE CHOOSE floor \in m.maxFloor : TRUE
      BY DEF EventOf
    <3> QED
      BY <1>1, <1>2, <3>1
  <2> HIDE DEF e
  <2>4. toInt(f.qty) = f.qty /\ toInt(f.maxFloor) = f.maxFloor
    BY <1>1, <1>8, ShortEnough, WidthAssumption
  <2>5. TicketOf(f) = OrderArguments(e)
    BY DEF TicketOf, e, m
  <2> QED
    BY <2>1, <2>2, <2>3, <2>4, <2>5 DEF OrderArguments, FrameTerms
<1> QED
  BY <1>7, <1>8 DEF m

-----------------------------------------------------------------------------
\* A row keeps who it is and what it was sent with.
SameOrder(row, old) ==
    /\ row.clOrdId = old.clOrdId /\ row.side = old.side
    /\ row.pricePx = old.pricePx /\ row.originalQty = old.originalQty
    /\ row.displayQty = old.displayQty

\* Prepend keeps a list a list of the same things.
LEMMA PrependType ==
    ASSUME NEW S, NEW entry \in S, NEW list \in Seq(S), NEW cap \in Nat
    PROVE  Prepend(entry, list, cap) \in Seq(S)
<1> DEFINE n == Least(cap, Len(list) + 1)
<1>1. n \in Nat /\ n <= Len(list) + 1
  BY DEF Least
<1>2. \A i \in 1 .. n : (IF i = 1 THEN entry ELSE list[i - 1]) \in S
  BY <1>1
<1>3. Prepend(entry, list, cap) = [ i \in 1 .. n |-> IF i = 1 THEN entry ELSE list[i - 1] ]
  BY DEF Prepend
<1> HIDE DEF n
<1> QED
  BY <1>1, <1>2, <1>3

\* A report changes the status and the remainder of the row it names, and
\* nothing else of it.
LEMMA NextOrderType ==
    ASSUME NEW order \in MyOrder, NEW frame \in ExecFrame
    PROVE  nextOrder(order, frame) \in MyOrder /\ SameOrder(nextOrder(order, frame), order)
<1>1. frame.execType \in ExecTypes /\ frame.remainingQuantity \in Int
  BY DEF ExecFrame
<1>2. StatusReported[frame.execType] \in OrderStatuses
  BY <1>1 DEF StatusReported, ExecTypes, FillTypes, OrderStatuses, TERMINAL
<1>3. RemainingReported(order, frame) \in Int
  BY <1>1 DEF RemainingReported, MyOrder, ExecTypes, FillTypes
<1>4. order.status \in OrderStatuses
  BY DEF MyOrder
<1> QED
  BY <1>2, <1>3, <1>4 DEF nextOrder, MyOrder, SameOrder

\* So does a fill for the row it names as passive.
LEMMA PassiveFillType ==
    ASSUME NEW order \in MyOrder, NEW qty \in Int
    PROVE  passiveFill(order, qty) \in MyOrder /\ SameOrder(passiveFill(order, qty), order)
<1>1. Greatest(0, order.remainingQty - qty) \in Int
  BY DEF Greatest, MyOrder
<1>2. {"FILLED", "PARTIALLY_FILLED"} \subseteq OrderStatuses
  BY DEF OrderStatuses, TERMINAL
<1> QED
  BY <1>1, <1>2 DEF passiveFill, MyOrder, SameOrder

\* A report leaves the list of rows as long as it is, and each row the order
\* it was.
LEMMA UpdatedRowsType ==
    ASSUME NEW myOrders \in Seq(MyOrder), NEW frame \in ExecFrame
    PROVE  /\ UpdatedRows(myOrders, frame) \in Seq(MyOrder)
           /\ DOMAIN UpdatedRows(myOrders, frame) = DOMAIN myOrders
           /\ \A i \in DOMAIN myOrders :
                 SameOrder(UpdatedRows(myOrders, frame)[i], myOrders[i])
<1> DEFINE rows == UpdatedRows(myOrders, frame)
<1>1. frame.filledQuantity \in Int
  BY DEF ExecFrame
<1>2. ASSUME NEW i \in DOMAIN myOrders
      PROVE  rows[i] \in MyOrder /\ SameOrder(rows[i], myOrders[i])
  <2>1. myOrders[i] \in MyOrder /\ SameOrder(myOrders[i], myOrders[i])
    BY DEF SameOrder
  <2>2. rows[i] \in { nextOrder(myOrders[i], frame),
                      passiveFill(myOrders[i], frame.filledQuantity), myOrders[i] }
    BY DEF UpdatedRows
  <2> QED
    BY <1>1, <2>1, <2>2, NextOrderType, PassiveFillType
<1>3. rows = [ i \in DOMAIN myOrders |-> rows[i] ]
  BY DEF UpdatedRows
<1>4. DOMAIN myOrders = 1 .. Len(myOrders) /\ Len(myOrders) \in Nat
  OBVIOUS
<1> HIDE DEF rows
<1>5. /\ rows \in Seq(MyOrder) /\ DOMAIN rows = DOMAIN myOrders
      /\ \A i \in DOMAIN myOrders : SameOrder(rows[i], myOrders[i])
  BY <1>2, <1>3, <1>4
<1> QED
  BY <1>5 DEF rows

\* A trade's entry on the tape is one.
LEMMA TapeEntryType ==
    ASSUME NEW state, state.myOrders \in Seq(MyOrder), NEW frame \in ExecFrame
    PROVE  TapeEntryOf(state, frame) \in TapeEntry
<1>1. ASSUME NEW id, knows(state.myOrders, id)
      PROVE  SideOf(state.myOrders, id) \in Sides
  <2> DEFINE i == CHOOSE i \in DOMAIN state.myOrders : state.myOrders[i].clOrdId = id
  <2>1. i \in DOMAIN state.myOrders
    BY <1>1 DEF knows
  <2>2. SideOf(state.myOrders, id) = state.myOrders[i].side
    BY DEF SideOf
  <2> HIDE DEF i
  <2>3. state.myOrders[i] \in MyOrder
    BY <2>1
  <2> QED
    BY <2>2, <2>3 DEF MyOrder
<1>2. \A side \in Sides : Opposite(side) \in Sides
  BY DEF Sides, Opposite
<1>3. aggressorSideFor(state.myOrders, frame.aggressorOrderId, frame.passiveOrderId)
        \in Sides \cup {Undefined}
  BY <1>1, <1>2 DEF aggressorSideFor
<1>4. \A id : knows(state.myOrders, id) \in BOOLEAN
  BY DEF knows
<1> QED
  BY <1>3, <1>4 DEF TapeEntryOf, TapeEntry, ExecFrame

\* A trade touches the tape and the aggregates only.
LEMMA WithTradeType ==
    ASSUME NEW state \in AppState, NEW frame \in ExecFrame
    PROVE  /\ WithTrade(state, frame) \in AppState
           /\ \A f \in {"connection", "myOrders", "msgSeqNum", "book", "inspectorLog"} :
                 WithTrade(state, frame)[f] = state[f]
<1> DEFINE tape == Prepend(TapeEntryOf(state, frame), state.tape, TAPE_CAP)
           unset == state.sessionHighPx <= 0 \/ state.sessionLowPx <= 0
           volume == state.sessionVolume + frame.filledQuantity
           open == IF state.sessionOpenPx <= 0 THEN frame.price ELSE state.sessionOpenPx
           high == IF unset THEN frame.price ELSE Greatest(state.sessionHighPx, frame.price)
           low  == IF unset THEN frame.price ELSE Least(state.sessionLowPx, frame.price)
           count == state.sessionTradeCount + 1
<1>1. tape \in Seq(TapeEntry)
  <2>1. /\ state.tape \in Seq(TapeEntry) /\ state.myOrders \in Seq(MyOrder)
        /\ TAPE_CAP \in Nat
    BY CapsAssumption DEF AppState
  <2> QED
    BY <2>1, TapeEntryType, PrependType
<1>2. volume \in Int /\ open \in Int /\ high \in Int /\ low \in Int /\ count \in Int
  BY DEF AppState, ExecFrame, Greatest, Least
<1>3. WithTrade(state, frame) =
        [ state EXCEPT !.tape = tape, !.sessionVolume = volume, !.sessionOpenPx = open,
                       !.sessionHighPx = high, !.sessionLowPx = low,
                       !.sessionTradeCount = count ]
  BY DEF WithTrade
<1> HIDE DEF tape, volume, open, high, low, count
<1> QED
  BY <1>1, <1>2, <1>3 DEF AppState

\* A frame leaves the connection and the outgoing sequence number alone, and
\* the rows the orders they were (reduceFrame, reducer.ts).
LEMMA FrameKeepsTheOrders ==
    ASSUME NEW state \in AppState, NEW frame \in ServerFrame
    PROVE  LET next == reduceFrame(state, frame)
           IN  /\ next \in AppState
               /\ next.connection = state.connection /\ next.msgSeqNum = state.msgSeqNum
               /\ DOMAIN next.myOrders = DOMAIN state.myOrders
               /\ \A i \in DOMAIN state.myOrders :
                     SameOrder(next.myOrders[i], state.myOrders[i])
<1> DEFINE next == reduceFrame(state, frame)
<1>0. /\ state.myOrders \in Seq(MyOrder)
      /\ \A i \in DOMAIN state.myOrders : SameOrder(state.myOrders[i], state.myOrders[i])
  BY DEF AppState, SameOrder
<1>1. CASE frame \in BookFrame
  <2>1. next = applyBook(state, frame)
    BY <1>1 DEF BookFrame, reduceFrame
  <2> DEFINE shown == [ bestBid |-> frame.bestBid, bestAsk |-> frame.bestAsk,
                        bids |-> frame.bids, asks |-> frame.asks,
                        timestamp |-> frame.timestamp ]
  <2>2. shown \in BookState /\ frame.timestamp \in Int
    BY <1>1 DEF BookState, BookFrame
  <2>3. next = [ state EXCEPT !.book = shown, !.lastFrameNanos = frame.timestamp ]
    BY <2>1 DEF applyBook
  <2> HIDE DEF shown, next
  <2>4. /\ next \in AppState /\ next.myOrders = state.myOrders
        /\ next.connection = state.connection /\ next.msgSeqNum = state.msgSeqNum
    BY <2>2, <2>3 DEF AppState
  <2> QED
    BY <1>0, <2>4 DEF next
<1>2. CASE frame \in FixFrame
  <2>1. next = applyFix(state, frame)
    BY <1>2 DEF FixFrame, reduceFrame
  <2>2. Prepend(frame, state.inspectorLog, INSPECTOR_CAP) \in Seq(InspectorEntry)
    BY <1>2, CapsAssumption, PrependType DEF AppState, InspectorEntry
  <2> QED
    BY <1>0, <1>2, <2>1, <2>2 DEF applyFix, AppState, FixFrame
<1>3. CASE frame \in ExecFrame
  <2>1. next = applyExec(state, frame)
    BY <1>3 DEF ExecFrame, reduceFrame
  <2> DEFINE traded == IF isFill(frame) THEN WithTrade(state, frame) ELSE state
             rows == UpdatedRows(traded.myOrders, frame)
             entries == Prepend(frame, traded.inspectorLog, INSPECTOR_CAP)
  <2>2. /\ traded \in AppState /\ traded.myOrders = state.myOrders
        /\ traded.connection = state.connection /\ traded.msgSeqNum = state.msgSeqNum
    BY <1>3, WithTradeType
  <2>3. next = [ traded EXCEPT !.myOrders = rows, !.lastFrameNanos = frame.timestamp,
                               !.inspectorLog = entries ]
    BY <2>1 DEF applyExec
  <2>4. /\ rows \in Seq(MyOrder) /\ DOMAIN rows = DOMAIN state.myOrders
        /\ \A i \in DOMAIN state.myOrders : SameOrder(rows[i], state.myOrders[i])
    BY <1>0, <1>3, <2>2, UpdatedRowsType
  <2>5. entries \in Seq(InspectorEntry)
    <3>1. traded.inspectorLog \in Seq(InspectorEntry) /\ frame \in InspectorEntry
      BY <1>3, <2>2 DEF AppState, InspectorEntry
    <3> QED
      BY <3>1, CapsAssumption, PrependType
  <2>6. frame.timestamp \in Int
    BY <1>3 DEF ExecFrame
  <2> HIDE DEF traded, rows, entries, next
  <2>7. next \in AppState
    BY <2>2, <2>3, <2>4, <2>5, <2>6 DEF AppState
  <2>8. /\ next.connection = traded.connection /\ next.msgSeqNum = traded.msgSeqNum
        /\ next.myOrders = rows
    BY <2>2, <2>3 DEF AppState
  <2> QED
    BY <2>2, <2>4, <2>7, <2>8 DEF next
<1> QED
  BY <1>1, <1>2, <1>3 DEF ServerFrame

\* A change of the connection is nothing else (reduceConnection).
LEMMA ConnectionKeepsTheRest ==
    ASSUME NEW state \in AppState, NEW status \in ConnectionStatuses
    PROVE  LET next == reduceConnection(state, status)
           IN  /\ next \in AppState /\ next.connection = status
               /\ next.msgSeqNum = state.msgSeqNum /\ next.myOrders = state.myOrders
BY DEF reduceConnection, AppState

\* A frame that was written counts, and an order under a new id is a row at the
\* front (applySent).
LEMMA SentAddsTheRow ==
    ASSUME NEW state \in AppState, NEW frame \in NewOrderFrame \cup CancelOrderFrame
    PROVE  LET next == reduceSent(state, frame)
           IN  /\ next \in AppState /\ next.connection = state.connection
               /\ next.msgSeqNum = state.msgSeqNum + 1
               /\ next.myOrders =
                    IF frame.type = "NEW" /\ ~ IsDuplicate(state.myOrders, frame.clOrdId)
                    THEN <<RowOf(frame)>> \o state.myOrders ELSE state.myOrders
<1> DEFINE next == reduceSent(state, frame)
           rows == IF frame.type = "NEW" /\ ~ IsDuplicate(state.myOrders, frame.clOrdId)
                   THEN <<RowOf(frame)>> \o state.myOrders ELSE state.myOrders
<1>1. state.myOrders \in Seq(MyOrder) /\ state.msgSeqNum \in Int
  BY DEF AppState
<1>2. ASSUME frame.type = "NEW"
      PROVE  RowOf(frame) \in MyOrder
  <2>1. frame \in NewOrderFrame
    BY <1>2 DEF CancelOrderFrame
  <2> QED
    BY <2>1 DEF RowOf, MyOrder, NewOrderFrame, OrderStatuses
<1>3. rows \in Seq(MyOrder)
  BY <1>1, <1>2
<1>4. next = [ state EXCEPT !.msgSeqNum = state.msgSeqNum + 1, !.myOrders = rows ]
  BY DEF reduceSent, applySent
<1> HIDE DEF next, rows
<1>5. /\ next \in AppState /\ next.connection = state.connection
      /\ next.msgSeqNum = state.msgSeqNum + 1 /\ next.myOrders = rows
  <2>1. state.msgSeqNum + 1 \in Int
    BY <1>1
  <2> DEFINE n == state.msgSeqNum + 1
  <2> HIDE DEF n
  <2>2. n \in Int /\ next = [ state EXCEPT !.msgSeqNum = n, !.myOrders = rows ]
    BY <1>4, <2>1 DEF n
  <2>3. /\ next \in AppState /\ next.connection = state.connection
        /\ next.msgSeqNum = n /\ next.myOrders = rows
    BY <1>3, <2>2 DEF AppState
  <2> QED
    BY <2>3 DEF n
<1> QED
  BY <1>5 DEF next, rows

\* The state a page starts with.
LEMMA InitialStateType ==
    initialState \in AppState
BY DEF initialState, AppState, EMPTY_BOOK, BookState, ConnectionStatuses, NA,
       SESSION_OPEN_UNSET

-----------------------------------------------------------------------------
(* What a frame does to the rows and to the session's figures, whatever is *)
(* in the book and in the inspector's log.                                 *)

\* A state with the fields of AppState, of which the typed ones are used.

IsApp(a) ==
    /\ a = [ connection |-> a.connection, book |-> a.book, tape |-> a.tape,
             myOrders |-> a.myOrders, sessionVolume |-> a.sessionVolume,
             sessionOpenPx |-> a.sessionOpenPx, sessionHighPx |-> a.sessionHighPx,
             sessionLowPx |-> a.sessionLowPx, sessionTradeCount |-> a.sessionTradeCount,
             msgSeqNum |-> a.msgSeqNum, lastFrameNanos |-> a.lastFrameNanos,
             inspectorLog |-> a.inspectorLog ]
    /\ a.tape \in Seq(TapeEntry) /\ a.myOrders \in Seq(MyOrder)
    /\ a.sessionVolume \in Int /\ a.sessionOpenPx \in Int /\ a.sessionHighPx \in Int
    /\ a.sessionLowPx \in Int /\ a.sessionTradeCount \in Int

SameAggregates(a, b) ==
    /\ a.tape = b.tape /\ a.sessionVolume = b.sessionVolume
    /\ a.sessionOpenPx = b.sessionOpenPx /\ a.sessionHighPx = b.sessionHighPx
    /\ a.sessionLowPx = b.sessionLowPx /\ a.sessionTradeCount = b.sessionTradeCount

\* A book with its tops.
IsTopped(book) ==
    /\ IsBook(book)
    /\ book.bestBid = TopOf(book.bids) /\ book.bestAsk = TopOf(book.asks)

\* A book replaces the book only (applyBook).
LEMMA BookEffect ==
    ASSUME NEW a, IsApp(a), NEW frame, frame.type = "BOOK"
    PROVE  LET next == reduceFrame(a, frame)
           IN  /\ IsApp(next) /\ next.myOrders = a.myOrders /\ SameAggregates(next, a)
               /\ next.inspectorLog = a.inspectorLog
               /\ next.book.bids = frame.bids /\ next.book.asks = frame.asks
               /\ next.book.bestBid = frame.bestBid /\ next.book.bestAsk = frame.bestAsk
<1>1. reduceFrame(a, frame) = applyBook(a, frame)
  BY DEF reduceFrame
<1> DEFINE shown == [ bestBid |-> frame.bestBid, bestAsk |-> frame.bestAsk,
                      bids |-> frame.bids, asks |-> frame.asks,
                      timestamp |-> frame.timestamp ]
           next == reduceFrame(a, frame)
<1>2. next = [ a EXCEPT !.book = shown, !.lastFrameNanos = frame.timestamp ]
  BY <1>1 DEF applyBook
<1> HIDE DEF shown, next
<1>3. next = [ connection |-> a.connection, book |-> shown, tape |-> a.tape,
             myOrders |-> a.myOrders, sessionVolume |-> a.sessionVolume,
             sessionOpenPx |-> a.sessionOpenPx, sessionHighPx |-> a.sessionHighPx,
             sessionLowPx |-> a.sessionLowPx, sessionTradeCount |-> a.sessionTradeCount,
             msgSeqNum |-> a.msgSeqNum, lastFrameNanos |-> frame.timestamp,
             inspectorLog |-> a.inspectorLog ]
  BY <1>2 DEF IsApp
<1>4. /\ IsApp(next) /\ next.myOrders = a.myOrders /\ SameAggregates(next, a)
      /\ next.inspectorLog = a.inspectorLog /\ next.book = shown
  BY <1>3 DEF IsApp, SameAggregates
<1> QED BY <1>4 DEF next, shown

\* An echo is for the inspector's log only (applyFix).
LEMMA FixEffect ==
    ASSUME NEW a, IsApp(a), NEW frame, frame.type = "FIX"
    PROVE  LET next == reduceFrame(a, frame)
           IN  /\ IsApp(next) /\ next.myOrders = a.myOrders /\ SameAggregates(next, a)
               /\ next.inspectorLog = Prepend(frame, a.inspectorLog, INSPECTOR_CAP)
               /\ next.book = a.book
<1> DEFINE next == reduceFrame(a, frame)
<1>1. next = applyFix(a, frame)
  BY DEF reduceFrame
<1>2. PICK entries : entries = Prepend(frame, a.inspectorLog, INSPECTOR_CAP)
  OBVIOUS
<1>3. next = [ a EXCEPT !.lastFrameNanos = frame.timestamp, !.inspectorLog = entries ]
  BY <1>1, <1>2 DEF applyFix
<1> HIDE DEF next
<1>4. next = [ connection |-> a.connection, book |-> a.book, tape |-> a.tape,
             myOrders |-> a.myOrders, sessionVolume |-> a.sessionVolume,
             sessionOpenPx |-> a.sessionOpenPx, sessionHighPx |-> a.sessionHighPx,
             sessionLowPx |-> a.sessionLowPx, sessionTradeCount |-> a.sessionTradeCount,
             msgSeqNum |-> a.msgSeqNum, lastFrameNanos |-> frame.timestamp,
             inspectorLog |-> entries ]
  BY <1>3 DEF IsApp
<1>5. /\ IsApp(next) /\ next.myOrders = a.myOrders /\ SameAggregates(next, a)
      /\ next.inspectorLog = entries /\ next.book = a.book
  BY <1>4 DEF IsApp, SameAggregates
<1> QED BY <1>2, <1>5 DEF next

\* The connection's status is a field of its own (reduceConnection).
LEMMA ConnectionEffect ==
    ASSUME NEW a, IsApp(a), NEW status
    PROVE  LET next == reduceConnection(a, status)
           IN  /\ IsApp(next) /\ next.myOrders = a.myOrders /\ SameAggregates(next, a)
               /\ next.book = a.book
<1> DEFINE next == reduceConnection(a, status)
<1>0. next = [ a EXCEPT !.connection = status ]
  BY DEF reduceConnection
<1> HIDE DEF next
<1>1. next = [ connection |-> status, book |-> a.book, tape |-> a.tape,
             myOrders |-> a.myOrders, sessionVolume |-> a.sessionVolume,
             sessionOpenPx |-> a.sessionOpenPx, sessionHighPx |-> a.sessionHighPx,
             sessionLowPx |-> a.sessionLowPx, sessionTradeCount |-> a.sessionTradeCount,
             msgSeqNum |-> a.msgSeqNum, lastFrameNanos |-> a.lastFrameNanos,
             inspectorLog |-> a.inspectorLog ]
  BY <1>0 DEF IsApp
<1>2. /\ IsApp(next) /\ next.myOrders = a.myOrders /\ SameAggregates(next, a)
      /\ next.book = a.book
  BY <1>1 DEF IsApp, SameAggregates
<1> QED BY <1>2 DEF next

\* A frame that was written adds its row (applySent).
LEMMA SentEffect ==
    ASSUME NEW a, IsApp(a), NEW frame \in NewOrderFrame \cup CancelOrderFrame
    PROVE  LET next == reduceSent(a, frame)
           IN  /\ IsApp(next) /\ SameAggregates(next, a) /\ next.book = a.book
               /\ next.myOrders =
                    IF frame.type = "NEW" /\ ~ IsDuplicate(a.myOrders, frame.clOrdId)
                    THEN <<RowOf(frame)>> \o a.myOrders ELSE a.myOrders
<1> DEFINE next == reduceSent(a, frame)
           rows == IF frame.type = "NEW" /\ ~ IsDuplicate(a.myOrders, frame.clOrdId)
                   THEN <<RowOf(frame)>> \o a.myOrders ELSE a.myOrders
           n == a.msgSeqNum + 1
<1>1. next = [ a EXCEPT !.msgSeqNum = n, !.myOrders = rows ]
  BY DEF reduceSent, applySent
<1>2. rows \in Seq(MyOrder)
  <2>1. ASSUME frame.type = "NEW"
        PROVE  RowOf(frame) \in MyOrder
    <3>1. frame \in NewOrderFrame
      BY <2>1 DEF CancelOrderFrame
    <3> QED BY <3>1 DEF RowOf, MyOrder, NewOrderFrame, OrderStatuses
  <2>2. a.myOrders \in Seq(MyOrder)
    BY DEF IsApp
  <2> QED BY <2>1, <2>2
<1> HIDE DEF next, rows, n
<1>3. next = [ connection |-> a.connection, book |-> a.book, tape |-> a.tape,
             myOrders |-> rows, sessionVolume |-> a.sessionVolume,
             sessionOpenPx |-> a.sessionOpenPx, sessionHighPx |-> a.sessionHighPx,
             sessionLowPx |-> a.sessionLowPx, sessionTradeCount |-> a.sessionTradeCount,
             msgSeqNum |-> n, lastFrameNanos |-> a.lastFrameNanos,
             inspectorLog |-> a.inspectorLog ]
  BY <1>1 DEF IsApp
<1>4. /\ IsApp(next) /\ SameAggregates(next, a) /\ next.myOrders = rows
      /\ next.book = a.book
  BY <1>2, <1>3 DEF IsApp, SameAggregates
<1> QED BY <1>4 DEF next, rows

\* What a fill makes of the tape and the figures.
Traded(next, a, frame) ==
    LET unset == a.sessionHighPx <= 0 \/ a.sessionLowPx <= 0
    IN  /\ next.tape = Prepend(TapeEntryOf(a, frame), a.tape, TAPE_CAP)
        /\ next.sessionVolume = a.sessionVolume + frame.filledQuantity
        /\ next.sessionOpenPx = IF a.sessionOpenPx <= 0 THEN frame.price ELSE a.sessionOpenPx
        /\ next.sessionHighPx = IF unset THEN frame.price
                                ELSE Greatest(a.sessionHighPx, frame.price)
        /\ next.sessionLowPx = IF unset THEN frame.price
                               ELSE Least(a.sessionLowPx, frame.price)
        /\ next.sessionTradeCount = a.sessionTradeCount + 1

\* A report moves the rows, and a fill also the tape and the figures (applyExec).
LEMMA ExecEffect ==
    ASSUME NEW a, IsApp(a), NEW frame \in ExecFrame
    PROVE  LET next == reduceFrame(a, frame)
           IN  /\ IsApp(next) /\ next.myOrders = UpdatedRows(a.myOrders, frame)
               /\ next.book = a.book
               /\ next.inspectorLog = Prepend(frame, a.inspectorLog, INSPECTOR_CAP)
               /\ isFill(frame) => Traded(next, a, frame)
               /\ ~ isFill(frame) => SameAggregates(next, a)
<1> DEFINE next == reduceFrame(a, frame)
           rows == UpdatedRows(a.myOrders, frame)
<1>0. rows \in Seq(MyOrder)
  BY UpdatedRowsType DEF IsApp
<1>1. next = applyExec(a, frame)
  BY DEF reduceFrame, ExecFrame
<1>2. ASSUME NEW traded, IsApp(traded), traded.myOrders = a.myOrders,
             next = [ traded EXCEPT !.myOrders = UpdatedRows(@, frame),
                        !.lastFrameNanos = frame.timestamp,
                        !.inspectorLog = Prepend(frame, @, INSPECTOR_CAP) ]
      PROVE  /\ IsApp(next) /\ next.myOrders = rows /\ SameAggregates(next, traded)
             /\ next.book = traded.book
             /\ next.inspectorLog = Prepend(frame, traded.inspectorLog, INSPECTOR_CAP)
  <2>1. PICK entries : entries = Prepend(frame, traded.inspectorLog, INSPECTOR_CAP)
    OBVIOUS
  <2> HIDE DEF rows
  <2>2. next = [ traded EXCEPT !.myOrders = rows, !.lastFrameNanos = frame.timestamp,
                               !.inspectorLog = entries ]
    BY <1>2, <2>1 DEF rows
  <2> HIDE DEF next
  <2>3. next = [ connection |-> traded.connection, book |-> traded.book, tape |-> traded.tape,
             myOrders |-> rows, sessionVolume |-> traded.sessionVolume,
             sessionOpenPx |-> traded.sessionOpenPx, sessionHighPx |-> traded.sessionHighPx,
             sessionLowPx |-> traded.sessionLowPx,
             sessionTradeCount |-> traded.sessionTradeCount,
             msgSeqNum |-> traded.msgSeqNum, lastFrameNanos |-> frame.timestamp,
             inspectorLog |-> entries ]
    BY <1>2, <2>2, ZenonT(30) DEF IsApp
  <2>4. /\ next.myOrders = rows /\ SameAggregates(next, traded)
        /\ next.inspectorLog = entries /\ next.book = traded.book
    BY <2>3 DEF SameAggregates
  <2>5. rows \in Seq(MyOrder)
    BY <1>0 DEF rows
  <2>6. /\ traded.tape \in Seq(TapeEntry) /\ traded.sessionVolume \in Int
        /\ traded.sessionOpenPx \in Int /\ traded.sessionHighPx \in Int
        /\ traded.sessionLowPx \in Int /\ traded.sessionTradeCount \in Int
    BY <1>2 DEF IsApp
  <2>7. IsApp(next)
    BY <2>3, <2>5, <2>6 DEF IsApp
  <2> QED BY <2>1, <2>4, <2>7
<1>3. CASE isFill(frame)
  <2> DEFINE t == WithTrade(a, frame)
             tape == Prepend(TapeEntryOf(a, frame), a.tape, TAPE_CAP)
             unset == a.sessionHighPx <= 0 \/ a.sessionLowPx <= 0
             volume == a.sessionVolume + frame.filledQuantity
             open == IF a.sessionOpenPx <= 0 THEN frame.price ELSE a.sessionOpenPx
             high == IF unset THEN frame.price ELSE Greatest(a.sessionHighPx, frame.price)
             low  == IF unset THEN frame.price ELSE Least(a.sessionLowPx, frame.price)
             count == a.sessionTradeCount + 1
  <2>1. tape \in Seq(TapeEntry)
    BY TapeEntryType, PrependType, CapsAssumption DEF IsApp
  <2>2. volume \in Int /\ open \in Int /\ high \in Int /\ low \in Int /\ count \in Int
    BY DEF IsApp, ExecFrame, Greatest, Least
  <2>3. t = [ a EXCEPT !.tape = tape, !.sessionVolume = volume, !.sessionOpenPx = open,
                       !.sessionHighPx = high, !.sessionLowPx = low,
                       !.sessionTradeCount = count ]
    BY DEF WithTrade
  <2>4. Traded(t, a, frame) <=>
           /\ t.tape = tape /\ t.sessionVolume = volume /\ t.sessionOpenPx = open
           /\ t.sessionHighPx = high /\ t.sessionLowPx = low /\ t.sessionTradeCount = count
    BY DEF Traded
  <2>5. next = [ t EXCEPT !.myOrders = UpdatedRows(@, frame),
                          !.lastFrameNanos = frame.timestamp,
                          !.inspectorLog = Prepend(frame, @, INSPECTOR_CAP) ]
    BY <1>1, <1>3 DEF applyExec
  <2> HIDE DEF t, tape, volume, open, high, low, count, next, rows
  <2>6. t = [ connection |-> a.connection, book |-> a.book, tape |-> tape,
              myOrders |-> a.myOrders, sessionVolume |-> volume,
              sessionOpenPx |-> open, sessionHighPx |-> high,
              sessionLowPx |-> low, sessionTradeCount |-> count,
              msgSeqNum |-> a.msgSeqNum, lastFrameNanos |-> a.lastFrameNanos,
              inspectorLog |-> a.inspectorLog ]
    BY <2>3 DEF IsApp
  <2>7. /\ IsApp(t) /\ t.myOrders = a.myOrders /\ Traded(t, a, frame)
        /\ t.inspectorLog = a.inspectorLog /\ t.book = a.book
    BY <2>1, <2>2, <2>4, <2>6 DEF IsApp
  <2>8. /\ IsApp(next) /\ next.myOrders = rows /\ SameAggregates(next, t)
        /\ next.book = a.book
        /\ next.inspectorLog = Prepend(frame, a.inspectorLog, INSPECTOR_CAP)
    BY <1>2, <2>5, <2>7
  <2>9. Traded(next, a, frame)
    BY <2>7, <2>8 DEF Traded, SameAggregates
  <2> QED BY <1>3, <2>8, <2>9 DEF next, rows
<1>4. CASE ~ isFill(frame)
  <2>1. next = [ a EXCEPT !.myOrders = UpdatedRows(@, frame),
                          !.lastFrameNanos = frame.timestamp,
                          !.inspectorLog = Prepend(frame, @, INSPECTOR_CAP) ]
    BY <1>1, <1>4 DEF applyExec
  <2> HIDE DEF next, rows
  <2>2. /\ IsApp(next) /\ next.myOrders = rows /\ SameAggregates(next, a)
        /\ next.book = a.book
        /\ next.inspectorLog = Prepend(frame, a.inspectorLog, INSPECTOR_CAP)
    BY <1>2, <2>1
  <2> QED BY <1>4, <2>2 DEF next, rows
<1> QED BY <1>3, <1>4

-----------------------------------------------------------------------------
(* The places of the members of a finite set, when each stands behind      *)
(* those that are ahead of it, itself included.                            *)

LEMMA PlacesAreTaken ==
    ASSUME NEW S, IsFiniteSet(S), NEW ahead \in [S -> SUBSET S], NEW place,
           place = [p \in S |-> Cardinality(ahead[p])],
           \A p \in S : p \in ahead[p],
           \A p, q \in S : p # q => \/ ahead[p] \subseteq ahead[q] /\ q \notin ahead[p]
                                    \/ ahead[q] \subseteq ahead[p] /\ p \notin ahead[q]
    PROVE  /\ Cardinality(S) \in Nat
           /\ \A p \in S : place[p] \in 1 .. Cardinality(S)
           /\ \A p, q \in S : place[p] = place[q] => p = q
           /\ \A i \in 1 .. Cardinality(S) : \E p \in S : place[p] = i
<1>1. PICK n \in Nat : n = Cardinality(S)
  BY FS_CardinalityType
<1>2. ASSUME NEW p \in S
      PROVE  IsFiniteSet(ahead[p]) /\ place[p] \in 1 .. n
  <2>1. ahead[p] \in SUBSET S /\ ahead[p] # {}
    OBVIOUS
  <2>2. PICK A : A = ahead[p]
    OBVIOUS
  <2>3. /\ IsFiniteSet(A) /\ Cardinality(A) <= n /\ Cardinality(A) \in Nat
        /\ Cardinality(A) # 0
    BY <1>1, <2>1, <2>2, FS_Subset, FS_CardinalityType, FS_EmptySet
  <2> QED BY <2>2, <2>3
<1>3. ASSUME NEW p \in S, NEW q \in S, place[p] = place[q],
             ahead[p] \subseteq ahead[q] /\ q \notin ahead[p]
      PROVE  FALSE
  <2>1. ahead[p] = ahead[q]
    BY <1>2, <1>3, FS_Subset
  <2> QED BY <1>3, <2>1
<1>4. \A p, q \in S : place[p] = place[q] => p = q
  BY <1>3
<1>5. place \in Injection(S, 1 .. n)
  <2>1. place \in [S -> 1 .. n]
    BY <1>2
  <2> QED BY <1>4, <2>1 DEF Injection, IsInjective
<1>6. IsFiniteSet(1 .. n) /\ Cardinality(1 .. n) = n
  BY <1>1, FS_Interval
<1>7. place \in Surjection(S, 1 .. n)
  BY <1>1, <1>5, <1>6, FS_Injection
<1> QED BY <1>1, <1>2, <1>4, <1>7 DEF Surjection
=============================================================================
