---------------------------- MODULE MCEngineLit ----------------------------
(***************************************************************************)
(* The lit book: limit orders and icebergs at two prices, with every time  *)
(* in force.  Each ticket has an id of its own.                            *)
(***************************************************************************)
EXTENDS EngineProperties

Limit(id, side, quantity, price, tif, peak) ==
    [ orderID |-> id, side |-> side, quantity |-> quantity, price |-> price,
      tif |-> tif, peak |-> peak, ordType |-> "LIMIT" ]

LitTickets ==
    { Limit(1, "BUY",  2, 100, "GTC", 0),
      Limit(2, "BUY",  1, 100, "GTC", 0),
      Limit(3, "BUY",  4, 100, "GTC", 2),
      Limit(4, "BUY",  3, 200, "GTC", 0),
      Limit(5, "SELL", 3, 100, "IOC", 0),
      Limit(6, "SELL", 4, 100, "FOK", 0),
      Limit(7, "SELL", 3, 200, "GTC", 1),
      Limit(8, "SELL", 2, 100, "GTC", 0),
      Limit(9, "BUY",  2, 100, "FOK", 0) }

LitCancelIds == {1, 3, 7}
OneStep == {1}
=============================================================================
