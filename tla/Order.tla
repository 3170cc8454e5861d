------------------------------- MODULE Order -------------------------------
(***************************************************************************)
(* One order as the engine holds it (model/Order.java, model/Prices.java): *)
(* the checks of its canonical constructor, and the four operations that   *)
(* change it afterwards: fill, refreshDisplay, cancel and expire.          *)
(* Operators marked (fault) are plausible slips in the operator that       *)
(* follows them; nothing uses them but the mutants that show which         *)
(* property notices.                                                       *)
(*                                                                         *)
(* A ticket is the record of constructor arguments; an order is the object *)
(* built from it.  Prices are integers in units of $0.0001, as in the      *)
(* code.  The participant id is left out: the handler passes a constant.   *)
(***************************************************************************)
EXTENDS Integers

NA   == -1      \* Prices.NA: no price, an empty side, a midpoint peg's limit
TICK == 100     \* Prices.TICK: one cent
Null == "null"  \* a Java null reference

Sides        == {"BUY", "SELL"}
TimesInForce == {"GTC", "IOC", "FOK"}
OrdTypes     == {"LIMIT", "PEG_MID"}
Statuses     == {"OPEN", "PARTIALLY_FILLED", "FILLED", "CANCELLED", "EXPIRED"}

Opposite(side) == IF side = "BUY" THEN "SELL" ELSE "BUY"

Least(a, b) == IF a <= b THEN a ELSE b

IsOnTick(price) == price > 0 /\ price % TICK = 0

(***************************************************************************)
(* The constructor throws IllegalArgumentException unless this holds.  A   *)
(* peak equal to the quantity counts as no peak, and is normalised before  *)
(* the rule that an iceberg must be good till cancelled.                   *)
(***************************************************************************)
ConstructorAccepts(ticket) ==
    /\ ticket.orderID > 0
    /\ ticket.quantity > 0
    /\ ticket.side # Null
    /\ ticket.tif # Null
    /\ ticket.ordType # Null
    /\ ticket.ordType = "LIMIT" => IsOnTick(ticket.price)
    /\ ticket.ordType = "PEG_MID" => ticket.price = NA /\ ticket.peak = 0
    /\ ticket.peak \in 0 .. ticket.quantity
    /\ ticket.peak \notin {0, ticket.quantity} => ticket.tif = "GTC"

\* (fault) A last slice smaller than the peak is shown as a whole peak.
DisplayOfWholePeak(peak, quantity) == IF peak > 0 THEN peak ELSE quantity

\* The slice an order shows: its peak if it is an iceberg with that much left.
DisplayOf(peak, quantity) ==
    IF peak > 0 THEN Least(peak, quantity) ELSE quantity

(***************************************************************************)
(* new Order(...).  The field orderQty is a history field: the quantity    *)
(* the order was built with, which the code overwrites as it fills.        *)
(***************************************************************************)
NewOrder(ticket, timeStamp) ==
    LET peak == IF ticket.peak = ticket.quantity THEN 0 ELSE ticket.peak
    IN  [ orderID    |-> ticket.orderID,
          timeStamp  |-> timeStamp,
          side       |-> ticket.side,
          orderQty   |-> ticket.quantity,
          quantity   |-> ticket.quantity,
          price      |-> ticket.price,
          status     |-> "OPEN",
          tif        |-> ticket.tif,
          peak       |-> peak,
          visibleQty |-> DisplayOf(peak, ticket.quantity),
          ordType    |-> ticket.ordType ]

\* Order.fill.  It throws for an amount that is not in 1 .. quantity.
\* (fault) The displayed slice is not clamped at zero.
FillUnclamped(order, n) ==
    [ order EXCEPT !.quantity   = @ - n,
                   !.visibleQty = @ - n,
                   !.status     = IF order.quantity = n
                                  THEN "FILLED" ELSE "PARTIALLY_FILLED" ]

\* (fault) Only what is displayed can be taken.
FillDisplayedOnly(order, n) ==
    [ order EXCEPT !.quantity   = @ - Least(n, order.visibleQty),
                   !.visibleQty = @ - Least(n, @),
                   !.status     = IF order.quantity = n
                                  THEN "FILLED" ELSE "PARTIALLY_FILLED" ]

Fill(order, n) ==
    [ order EXCEPT !.quantity   = @ - n,
                   !.visibleQty = @ - Least(n, @),
                   !.status     = IF order.quantity = n
                                  THEN "FILLED" ELSE "PARTIALLY_FILLED" ]

RefreshDisplay(order) ==
    [ order EXCEPT !.visibleQty = DisplayOf(order.peak, order.quantity) ]

Cancel(order) == [ order EXCEPT !.status = "CANCELLED" ]

Expire(order) == [ order EXCEPT !.status = "EXPIRED" ]
=============================================================================
