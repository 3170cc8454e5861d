-------------------------- MODULE MCClientSession --------------------------
(***************************************************************************)
(* A client with an immediate sell and a buy that rests, or is killed      *)
(* unless all of it trades, and others that trade with it and with each    *)
(* other at two prices.  The tape forgets all but its newest entry, and a  *)
(* snapshot holds one level of a side: a better bid of another takes the   *)
(* client's own off the ladder.                                            *)
(***************************************************************************)
EXTENDS ClientSession

Limit(id, side, quantity, price, tif) ==
    [ orderID |-> id, side |-> side, quantity |-> quantity, price |-> price,
      tif |-> tif, peak |-> 0, ordType |-> "LIMIT" ]

MineTickets ==
    { Limit(1, "BUY", 3, 100, "GTC"), Limit(2, "SELL", 2, 100, "IOC"),
      Limit(1, "BUY", 1, 200, "FOK") }

AllTickets == MineTickets \cup
    { Limit(3, "SELL", 1, 100, "GTC"), Limit(4, "BUY", 1, 200, "GTC") }

\* One order of its own and one that fills a part of it.
OneOfMine == { Limit(1, "BUY", 3, 200, "GTC") }
TwoTickets == OneOfMine \cup { Limit(3, "SELL", 1, 100, "GTC") }

Cancels == {1, 2, 3}
OneStep == {1}
=============================================================================
