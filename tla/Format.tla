------------------------------- MODULE Format -------------------------------
(***************************************************************************)
(* Prices as text and back (format.ts).                                    *)
(*                                                                         *)
(* A text is what it spells: the number before the point and the digits    *)
(* after it.  NotANumber is every text the grammar of parsePrice refuses,  *)
(* and formatPrice's sign for an absent price is one of them.              *)
(***************************************************************************)
EXTENDS Order, Sequences

NotANumber  == [ whole |-> NA, fraction |-> <<>> ]
EMPTY_PRICE == NotANumber

Text == [ whole : Nat, fraction : Seq(0 .. 9) ] \cup {NotANumber}

UNITS == 10000      \* units of $0.0001 in a dollar

\* The four digits of the fraction of a price.
Digits(px) ==
    <<px \div 1000 % 10, px \div 100 % 10, px \div 10 % 10, px % 10>>

\* Two decimals, or up to four when they are not zero.
formatPrice(px) ==
    LET shown == CHOOSE n \in 2 .. 4 :
                    /\ n = 2 \/ Digits(px)[n] # 0
                    /\ \A i \in n + 1 .. 4 : Digits(px)[i] = 0
    IN  IF px < 0 THEN EMPTY_PRICE
        ELSE [ whole |-> px \div UNITS, fraction |-> SubSeq(Digits(px), 1, shown) ]

\* The units of a text with at most two decimals that is not zero, or NA for
\* null: what it returns is on the tick.  That it must also be a safe integer is
\* left out, as the integers here have no width.
parsePrice(text) ==
    LET digit(i) == IF i \in DOMAIN text.fraction THEN text.fraction[i] ELSE 0
        units    == text.whole * UNITS + digit(1) * 1000 + digit(2) * 100
    IN  IF text = NotANumber \/ Len(text.fraction) > 2 \/ units = 0 THEN NA ELSE units

\* Both tops are on the tick, so the midpoint is a whole number of units.
midpointPx(bestBid, bestAsk) ==
    IF bestBid <= 0 \/ bestAsk <= 0 THEN NA ELSE (bestBid + bestAsk) \div 2

midpointLabel(bestBid, bestAsk) == formatPrice(midpointPx(bestBid, bestAsk))
=============================================================================
