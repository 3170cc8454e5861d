--------------------------- MODULE MCClientViews ---------------------------
(***************************************************************************)
(* A one-sided and a deep book; a small trade between two ticks and larger *)
(* ones around it; a new order echoed back; and Alpaca failing, or         *)
(* answering with a price between two cents.  Once the price is there or   *)
(* has been given up, more frames arrive than the log and the tape hold.   *)
(***************************************************************************)
EXTENDS ClientViews

Book(bids, asks) == [ bids |-> bids, asks |-> asks ]

SomeBooks ==
    { Book(<<<<300, 2>>>>, <<>>),
      Book(<<<<300, 2>>, <<100, 5>>>>, <<<<600, 1>>, <<700, 3>>>>) }

SomePrints ==
    { [ price |-> 450, quantity |-> 1 ], [ price |-> 300, quantity |-> 300 ],
      [ price |-> 600, quantity |-> 600 ] }

SomeEchoes == { <<<<"8", "FIX.4.4">>, <<"35", "D">>>> }

SomeOpens == {NA, 460}

TwoFilters == {"all", "new"}
=============================================================================
