--------------------------- MODULE MCOrderTicket ---------------------------
(***************************************************************************)
(* A page that mounts twice, as in StrictMode, with one failure, on which  *)
(* two ids are used.  The server sends a book, an acceptance and messages  *)
(* that are not what they should be.                                       *)
(***************************************************************************)
EXTENDS OrderTicket

Book ==
    [ type |-> "BOOK", bestBid |-> 100, bestAsk |-> 200,
      bids |-> <<<<100, 1>>>>, asks |-> <<<<200, 1>>>>, timestamp |-> 1 ]

Accepted ==
    [ type |-> "EXEC", execType |-> "ORDER_ACCEPTED", orderId |-> 1, tradeId |-> NA,
      price |-> 100, filledQuantity |-> NA, remainingQuantity |-> 2,
      aggressorOrderId |-> NA, passiveOrderId |-> NA, timestamp |-> 1 ]

SomeMessages ==
    { [ frame |-> Book, malformed |-> {} ],
      [ frame |-> Accepted, malformed |-> {"symbol"} ],
      [ frame |-> Accepted, malformed |-> {"execType"} ],
      [ frame |-> Book, malformed |-> {NotJson} ] }

\* Half a cent more than a cent, which is no price.
Prices   == { [ whole |-> 0, fraction |-> <<0, 1, 5>> ] }
Qtys     == {2}
WideQtys == {21}     \* wider than an int, by 5 more than it wraps at
Displays == {1, 3}
OneSide  == {"BUY"}
TwoTifs  == {"GTC", "IOC"}
=============================================================================
