------------------------------- MODULE Venue -------------------------------
(***************************************************************************)
(* What the venue promises to those who trade on it, with no queues, maps, *)
(* loops or caches: an account per order, and who may trade with whom, at  *)
(* what price, and when an order may stop working.  MatchingEngine is      *)
(* shown to implement it.                                                  *)
(*                                                                         *)
(* At most one order is working: the one last sent.  The others rest or    *)
(* are over.  Time priority at a price is not part of this module, because *)
(* an iceberg gives it up at moments only the engine knows.                *)
(***************************************************************************)
EXTENDS Order, Sequences, FiniteSets, FiniteSetsExt

CONSTANTS Tickets       \* the orders that may be sent

VARIABLES accounts,     \* what is known of each order, in order of arrival
          prints        \* the trades, in order

venueVars == <<accounts, prints>>

Stages == {"working", "resting", "filled", "cancelled", "expired"}

In(stage) == {r \in DOMAIN accounts : accounts[r].stage = stage}

RestingAt(side, ordType) ==
    {r \in In("resting") : accounts[r].side = side /\ accounts[r].ordType = ordType}

Limits(side) == {accounts[r].price : r \in RestingAt(side, "LIMIT")}

\* The midpoint of the resting limit orders, where there is one.
HasMid   == Limits("BUY") # {} /\ Limits("SELL") # {}
Midpoint == (Max(Limits("BUY")) + Min(Limits("SELL"))) \div 2

\* A limit accepts a price; a midpoint peg has no limit of its own.  The
\* argument is an account or a ticket.
Accepts(a, price) ==
    \/ a.ordType = "PEG_MID"
    \/ a.side = "BUY" /\ price <= a.price
    \/ a.side = "SELL" /\ price >= a.price

\* The resting orders it may trade with now.
PegContra(a) ==
    IF HasMid /\ Accepts(a, Midpoint) THEN RestingAt(Opposite(a.side), "PEG_MID") ELSE {}

LitContra(a) ==
    IF a.ordType = "PEG_MID" THEN {}
    ELSE {q \in RestingAt(Opposite(a.side), "LIMIT") : Accepts(a, accounts[q].price)}

Contra(a) == PegContra(a) \cup LitContra(a)

\* Two pegs rest on opposite sides of a midpoint: they must trade first.
PegsMustTrade ==
    HasMid /\ \A s \in Sides : RestingAt(s, "PEG_MID") # {}

Account(ticket, stage) ==
    [ side |-> ticket.side, ordType |-> ticket.ordType, tif |-> ticket.tif,
      price |-> ticket.price, orderQty |-> ticket.quantity,
      remaining |-> ticket.quantity, stage |-> stage ]

Quiet == In("working") = {} /\ ~ PegsMustTrade

VenueInit == accounts = <<>> /\ prints = <<>>

Send(ticket) ==
    /\ Quiet
    /\ accounts' = Append(accounts, Account(ticket, "working"))
    /\ UNCHANGED prints

\* A fill-or-kill order is turned away whole, and only when what it could
\* trade with falls short.
Kill(ticket) ==
    /\ Quiet
    /\ ticket.tif = "FOK"
    /\ MapThenSumSet(LAMBDA q : accounts[q].remaining, Contra(ticket)) < ticket.quantity
    /\ accounts' = Append(accounts, Account(ticket, "expired"))
    /\ UNCHANGED prints

Filled(account, n) ==
    [ account EXCEPT !.remaining = @ - n,
                     !.stage = IF account.remaining = n THEN "filled" ELSE @ ]

Exchange(buyer, seller, n, price) ==
    /\ n \in 1 .. Least(accounts[buyer].remaining, accounts[seller].remaining)
    /\ accounts' = [accounts EXCEPT ![buyer] = Filled(@, n), ![seller] = Filled(@, n)]
    /\ prints' = Append(prints, [ buy |-> buyer, sell |-> seller,
                                  price |-> price, quantity |-> n ])

\* The working order r trades with the resting order q, at no worse a price
\* than any other resting order offers it, and pegs in order of arrival.
TradeWorking(r, q, n) ==
    LET order == accounts[r]
        pegs  == PegContra(order)
        price == IF pegs # {} THEN Midpoint ELSE accounts[q].price
    IN  /\ r \in In("working")
        /\ IF pegs # {} THEN q = Min(pegs)
           ELSE /\ q \in LitContra(order)
                /\ \A other \in LitContra(order) :
                     IF order.side = "BUY" THEN price <= accounts[other].price
                                           ELSE price >= accounts[other].price
        /\ IF order.side = "BUY" THEN Exchange(r, q, n, price)
                                 ELSE Exchange(q, r, n, price)

\* Two resting pegs trade at the midpoint, each the oldest of its side.
TradePegs(n) ==
    /\ In("working") = {} /\ PegsMustTrade
    /\ Exchange(Min(RestingAt("BUY", "PEG_MID")), Min(RestingAt("SELL", "PEG_MID")),
                n, Midpoint)

SetStage(r, stage) ==
    /\ accounts' = [accounts EXCEPT ![r].stage = stage]
    /\ UNCHANGED prints

Rest(r) ==
    /\ r \in In("working") /\ accounts[r].tif = "GTC" /\ Contra(accounts[r]) = {}
    /\ SetStage(r, "resting")

\* An immediate-or-cancel order gives up what nothing is left to fill; a
\* fill-or-kill order that was let in does not get here.
GiveUp(r) ==
    /\ r \in In("working") /\ accounts[r].tif = "IOC" /\ Contra(accounts[r]) = {}
    /\ SetStage(r, "expired")

Withdraw(r) ==
    /\ Quiet /\ r \in In("resting")
    /\ SetStage(r, "cancelled")

VenueNext ==
    \/ \E t \in Tickets : Send(t) \/ Kill(t)
    \/ \E r \in DOMAIN accounts :
          \/ \E q \in DOMAIN accounts, n \in 1 .. accounts[r].remaining :
                TradeWorking(r, q, n)
          \/ Rest(r) \/ GiveUp(r) \/ Withdraw(r)
    \/ \E r \in DOMAIN accounts : \E n \in 1 .. accounts[r].remaining : TradePegs(n)

VenueSpec == VenueInit /\ [][VenueNext]_venueVars
=============================================================================
