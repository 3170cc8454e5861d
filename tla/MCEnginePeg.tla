---------------------------- MODULE MCEnginePeg ----------------------------
(***************************************************************************)
(* Midpoint pegs on both sides, with enough limit orders to make a         *)
(* midpoint, take it away and bring it back.                               *)
(***************************************************************************)
EXTENDS EngineProperties

Ticket(id, side, quantity, price, tif, ordType) ==
    [ orderID |-> id, side |-> side, quantity |-> quantity, price |-> price,
      tif |-> tif, peak |-> 0, ordType |-> ordType ]

PegTickets ==
    { Ticket(1, "BUY",  2, 100, "GTC", "LIMIT"),
      Ticket(2, "SELL", 1, 200, "GTC", "LIMIT"),
      Ticket(3, "SELL", 2, NA,  "GTC", "PEG_MID"),
      Ticket(4, "BUY",  1, NA,  "GTC", "PEG_MID"),
      Ticket(5, "BUY",  2, NA,  "GTC", "PEG_MID"),
      Ticket(6, "SELL", 3, NA,  "FOK", "PEG_MID"),
      Ticket(7, "SELL", 3, 100, "IOC", "LIMIT"),
      Ticket(8, "BUY",  3, 200, "FOK", "LIMIT"),
      Ticket(9, "BUY",  1, 100, "IOC", "LIMIT") }

PegCancelIds == {2, 4}
OneStep == {1}
=============================================================================
