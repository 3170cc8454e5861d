------------------------- MODULE MCEngineReusedIds -------------------------
(***************************************************************************)
(* Clients that send an id twice: two orders rest under one id.            *)
(***************************************************************************)
EXTENDS EngineProperties

Limit(id, side, quantity) ==
    [ orderID |-> id, side |-> side, quantity |-> quantity, price |-> 100,
      tif |-> "GTC", peak |-> 0, ordType |-> "LIMIT" ]

SameIdTickets == { Limit(1, "BUY", 1), Limit(1, "BUY", 2), Limit(2, "SELL", 1) }
TheId   == {1}
OneStep == {1}
=============================================================================
