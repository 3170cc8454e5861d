------------------------------- MODULE Inbound -------------------------------
(***************************************************************************)
(* The way of an order from the client's frame to the engine: the JSON     *)
(* edge makes a FIX message of it (WebSocketFrameHandler.handleOrderJson,  *)
(* JsonToFix), the gateway's parser checks it and fills an event           *)
(* (FixParser), and the handler calls the constructor with what the event  *)
(* holds (MatchingEngineHandler.process).                                  *)
(*                                                                         *)
(* A message is what its tags hold.  A tag that may be absent is a set of  *)
(* at most one value, and a price is a Text of Format.  Framing, checksum  *)
(* and symbol are left out: JsonToFix writes what the parser compares them *)
(* with.  Numbers of the wire are 64 bits wide, which the client's safe    *)
(* integers do not reach; an order's are those of an int.                  *)
(***************************************************************************)
EXTENDS Format

CONSTANT MAX_INT        \* the largest int (2^31 - 1 in the code)

ASSUME WidthAssumption == MAX_INT \in Nat \ {0}

-----------------------------------------------------------------------------
(***************************************************************************)
(* JsonToFix.                                                              *)
(***************************************************************************)
sideCode(side)       == IF side = "BUY" THEN "1" ELSE "2"
ordTypeCode(ordType) == IF ordType = "PEG_MID" THEN "P" ELSE "2"
tifCode(tif) ==
    CASE tif = "IOC" -> "3"
      [] tif = "FOK" -> "4"
      [] OTHER       -> "1"

\* Tag 44: two decimals on the tick, four off it.
priceTag(px) ==
    [ whole |-> px \div UNITS,
      fraction |-> SubSeq(Digits(px), 1, IF px % TICK = 0 THEN 2 ELSE 4) ]

\* A peg has no price and says what it is pegged to.
newOrderSingle(frame) ==
    LET isPeg == frame.ordType = "PEG_MID"
    IN  [ clOrdID     |-> frame.clOrdId,
          side        |-> sideCode(frame.side),
          orderQty    |-> frame.qty,
          ordType     |-> ordTypeCode(frame.ordType),
          price       |-> IF isPeg THEN {} ELSE {priceTag(frame.price)},
          execInst    |-> IF isPeg THEN {"M"} ELSE {},
          timeInForce |-> tifCode(frame.tif),
          maxFloor    |-> IF frame.maxFloor > 0 THEN {frame.maxFloor} ELSE {} ]

-----------------------------------------------------------------------------
(***************************************************************************)
(* FixParser.                                                              *)
(***************************************************************************)
mapSide(code) ==
    CASE code = "1" -> "BUY"
      [] code = "2" -> "SELL"
      [] OTHER      -> Null

mapOrdType(code) ==
    CASE code = "2" -> "LIMIT"
      [] code = "P" -> "PEG_MID"
      [] OTHER      -> Null

mapTif(code) ==
    CASE code = "1" -> "GTC"
      [] code = "3" -> "IOC"
      [] code = "4" -> "FOK"
      [] OTHER      -> Null

\* Units of $0.0001, or NA: at most two decimals, and more than zero.
parsePriceTag(text) ==
    LET digits == text.fraction
        scaled == CASE Len(digits) = 0 -> 0
                    [] Len(digits) = 1 -> digits[1] * 1000
                    [] OTHER           -> (digits[1] * 10 + digits[2]) * 100
        units  == text.whole * UNITS + scaled
    IN  IF text = NotANumber \/ Len(digits) > 2 \/ units = 0 THEN NA ELSE units

\* parseNewOrder returns true; it drops the message otherwise.
IsParsed(message) ==
    /\ message.clOrdID >= 0
    /\ mapSide(message.side) # Null
    /\ message.orderQty > 0
    /\ mapOrdType(message.ordType) # Null
    /\ IF mapOrdType(message.ordType) = "LIMIT"
       THEN \E text \in message.price : parsePriceTag(text) # NA
       ELSE message.price = {} /\ message.execInst = {"M"}
    /\ mapTif(message.timeInForce) # Null
    /\ \A floor \in message.maxFloor : floor \in 1 .. message.orderQty

EventOf(message) ==
    [ orderId  |-> message.clOrdID,
      side     |-> mapSide(message.side),
      ordType  |-> mapOrdType(message.ordType),
      tif      |-> mapTif(message.timeInForce),
      price    |-> IF mapOrdType(message.ordType) = "LIMIT"
                   THEN parsePriceTag(CHOOSE text \in message.price : TRUE) ELSE NA,
      quantity |-> message.orderQty,
      maxFloor |-> IF message.maxFloor = {} THEN 0
                   ELSE CHOOSE floor \in message.maxFloor : TRUE ]

-----------------------------------------------------------------------------
(***************************************************************************)
(* MatchingEngineHandler.                                                  *)
(***************************************************************************)
\* The cast (int): of the bits of a long, those that fit.
toInt(n) == ((n + MAX_INT + 1) % (2 * (MAX_INT + 1))) - (MAX_INT + 1)

\* What the constructor is called with.
OrderArguments(event) ==
    [ orderID |-> event.orderId, side |-> event.side, quantity |-> toInt(event.quantity),
      price |-> event.price, tif |-> event.tif, peak |-> toInt(event.maxFloor),
      ordType |-> event.ordType ]

\* What becomes of a NEW frame that the parser takes.
TicketOf(frame) == OrderArguments(EventOf(newOrderSingle(frame)))
=============================================================================
