---------------------------- MODULE OrderTicket ----------------------------
(***************************************************************************)
(* Sending orders from the page: the order ticket, the two ways to cancel, *)
(* the depth curve that fills in a price, and App, which mints an id for   *)
(* every intent and hands it to the socket (components/OrderEntry.tsx,     *)
(* CancelTicket.tsx, OpenOrders.tsx, pages/TradingPage.tsx, App.tsx).      *)
(*                                                                         *)
(* A form field holds text.  The price field's is a Text of Format; the    *)
(* other two fields' stands for the integer it spells, and Blank for no    *)
(* text.  The error line and the layout are left out.                      *)
(*                                                                         *)
(* The page shows what App last rendered: App renders when the state       *)
(* changes, and not when an id is taken.                                   *)
(***************************************************************************)
EXTENDS ClientSocket, Inbound

CONSTANTS
    TypedPrices,        \* what is typed into the price field
    TypedQtys,          \* into the quantity field
    TypedDisplays,      \* into the display field
    ChosenSides,        \* the sides that are clicked
    ChosenTifs,         \* the times in force that are clicked
    MaxPrice,           \* bound on the prices the nudges reach
    MaxIds              \* bound on the ids that are used, and so on the edits

Blank == -1

ASSUME TypedAssumption ==
    /\ TypedPrices \subseteq Text /\ TypedQtys \subseteq Int /\ TypedDisplays \subseteq Int
    /\ ChosenSides \subseteq Sides /\ ChosenTifs \subseteq TimesInForce
    /\ MaxPrice \in Nat /\ MaxIds \in Nat

VARIABLES
    ticket,      \* the fields of OrderEntry
    nextId,      \* next, of the one id generator
    preview      \* the id the ticket shows, as last rendered

ticketVars == <<ticket, nextId, preview>>
pageVars   == <<socketVars, ticketVars>>

EmptyTicket ==
    [ side |-> "BUY", tif |-> "GTC", ordType |-> "LIMIT",
      price |-> NotANumber, qty |-> Blank, display |-> Blank ]

PageInit ==
    /\ SocketInit
    /\ ticket = EmptyTicket
    /\ nextId = 1 /\ preview = 1

-----------------------------------------------------------------------------
(***************************************************************************)
(* What the ticket accepts.                                                *)
(***************************************************************************)
IsPrice(text) == parsePrice(text) # NA

\* validateQtyInput, but for the check that it is a safe integer.
IsQty(text) == text > 0

\* validateDisplayQty, where a display of the whole order means none.
IsDisplay(text, qty) == text = Blank \/ text \in 1 .. qty
DisplayQty(text, qty) == IF text \in {Blank, qty} THEN 0 ELSE text

\* midChipPx: the midpoint, moved up to the tick.
MidChip(bestBid, bestAsk) ==
    ((bestBid + bestAsk + 2 * TICK - 1) \div (2 * TICK)) * TICK

nudgePx(px, steps) == Greatest(TICK, px + steps * TICK)

-----------------------------------------------------------------------------
(***************************************************************************)
(* App.                                                                    *)
(***************************************************************************)
\* (fault) The id shown is the one of the first render.
EmitMemoised(frame) ==
    /\ nextId <= MaxIds
    /\ Send(frame)
    /\ nextId' = nextId + 1
    /\ UNCHANGED preview

\* A frame with a fresh id.  The id is used up whether or not the frame is
\* written; a write changes the state, and so renders the page.
Emit(frame) ==
    /\ nextId <= MaxIds
    /\ Send(frame)
    /\ nextId' = nextId + 1
    /\ preview' = IF CanSend THEN nextId + 1 ELSE preview

handleSubmit(intent) == Emit(newOrderFrame(nextId, intent))

handleCancel(origClOrdId) ==
    Emit(cancelOrderFrame(nextId, origClOrdId)) /\ UNCHANGED ticket

-----------------------------------------------------------------------------
(***************************************************************************)
(* The ticket.  Its controls are disabled unless the connection is open.   *)
(***************************************************************************)
Enabled == Mounted /\ app.connection = "open"
IsPeg   == ticket.ordType = "PEG_MID"

EditTo(newTicket) ==
    /\ nextId <= MaxIds
    /\ ticket' = newTicket
    /\ UNCHANGED <<socketVars, nextId, preview>>

ChooseSide(s)    == Enabled /\ EditTo([ticket EXCEPT !.side = s])
ChooseTif(t)     == Enabled /\ EditTo([ticket EXCEPT !.tif = t])
ChooseOrdType(o) == Enabled /\ EditTo([ticket EXCEPT !.ordType = o])

TypePrice(text) == Enabled /\ ~ IsPeg /\ EditTo([ticket EXCEPT !.price = text])
TypeQty(text)   == Enabled /\ EditTo([ticket EXCEPT !.qty = text])

\* The field is there for a resting limit order only.
TypeDisplay(text) ==
    /\ Enabled /\ ~ IsPeg /\ ticket.tif = "GTC"
    /\ EditTo([ticket EXCEPT !.display = text])

\* A preset never overwrites a typed quantity.
Preset(qty) ==
    /\ Enabled
    /\ EditTo([ticket EXCEPT !.qty = IF @ = Blank THEN qty ELSE @])

ApplyPrice(px) == EditTo([ticket EXCEPT !.price = formatPrice(px)])

ChipBid == Enabled /\ ~ IsPeg /\ app.book.bestBid > 0 /\ ApplyPrice(app.book.bestBid)
ChipAsk == Enabled /\ ~ IsPeg /\ app.book.bestAsk > 0 /\ ApplyPrice(app.book.bestAsk)
ChipMid ==
    /\ Enabled /\ ~ IsPeg /\ app.book.bestBid > 0 /\ app.book.bestAsk > 0
    /\ ApplyPrice(MidChip(app.book.bestBid, app.book.bestAsk))

Nudge(steps) ==
    /\ Enabled /\ ~ IsPeg /\ IsPrice(ticket.price)
    /\ nudgePx(parsePrice(ticket.price), steps) <= MaxPrice
    /\ ApplyPrice(nudgePx(parsePrice(ticket.price), steps))

\* A click on the depth curve sets the price through the ticket's handle,
\* which looks neither at the connection nor at the order type.
ClickCurve(px) == Mounted /\ ApplyPrice(px)

\* A peg has no price and hides nothing; the hidden fields keep their text.
SubmitPeg ==
    /\ Enabled /\ IsPeg /\ IsQty(ticket.qty)
    /\ handleSubmit([ side |-> ticket.side, ordType |-> "PEG_MID", tif |-> ticket.tif,
                      pricePx |-> NA, qty |-> ticket.qty, displayQty |-> 0 ])
    /\ ticket' = [ticket EXCEPT !.qty = Blank]

\* (fault) The text of the hidden field is used for any time in force.
HiddenDisplayUsed == TRUE

ShowsDisplay == ticket.tif = "GTC"

SubmitLimit ==
    /\ Enabled /\ ~ IsPeg /\ IsPrice(ticket.price) /\ IsQty(ticket.qty)
    /\ ShowsDisplay => IsDisplay(ticket.display, ticket.qty)
    /\ handleSubmit([ side |-> ticket.side, ordType |-> "LIMIT", tif |-> ticket.tif,
                      pricePx |-> parsePrice(ticket.price), qty |-> ticket.qty,
                      displayQty |-> IF ShowsDisplay
                                     THEN DisplayQty(ticket.display, ticket.qty) ELSE 0 ])
    /\ ticket' = [ticket EXCEPT !.price = NotANumber, !.qty = Blank, !.display = Blank]

-----------------------------------------------------------------------------
(***************************************************************************)
(* Cancelling: a row's button, which is there while the row is open        *)
(* whatever the connection, or an id that is typed.                        *)
(***************************************************************************)
CancelRow(i) ==
    /\ Mounted /\ isCancellable(app.myOrders[i].status)
    /\ handleCancel(app.myOrders[i].clOrdId)

CancelTyped(id) == Enabled /\ id > 0 /\ handleCancel(id)

\* Another page has a ticket of its own, and coming back brings a new one.
Navigate == Mounted /\ EditTo(EmptyTicket)

\* The page renders when the state changes.  (A frame that changes nothing
\* renders it too; fewer renders leave an old id on show for longer.)
SocketStep ==
    /\ SocketNext
    /\ preview' = IF app' # app THEN nextId ELSE preview
    /\ UNCHANGED <<ticket, nextId>>

TicketNext ==
    \/ \E s \in ChosenSides : ChooseSide(s)
    \/ \E t \in ChosenTifs : ChooseTif(t)
    \/ \E o \in OrdTypes : ChooseOrdType(o)
    \/ \E text \in TypedPrices : TypePrice(text)
    \/ \E text \in TypedQtys : TypeQty(text) \/ Preset(text)
    \/ \E text \in TypedDisplays : TypeDisplay(text)
    \/ ChipBid \/ ChipMid \/ ChipAsk
    \/ \E steps \in {-1, 1} : Nudge(steps)
    \/ \E i \in DOMAIN app.book.bids : ClickCurve(app.book.bids[i][1])
    \/ \E i \in DOMAIN app.book.asks : ClickCurve(app.book.asks[i][1])
    \/ SubmitPeg \/ SubmitLimit
    \/ \E i \in DOMAIN app.myOrders : CancelRow(i)
    \/ \E id \in 1 .. MaxIds : CancelTyped(id)
    \/ Navigate

PageNext == SocketStep \/ TicketNext

PageSpec == PageInit /\ [][PageNext]_pageVars

\* Nobody need use the page; its socket works on by itself.
FairPageSpec ==
    /\ PageSpec
    /\ WF_pageVars(SocketStep /\ \E e \in DOMAIN effects : TimerFires(e))
    /\ WF_pageVars(SocketStep /\ \E s \in DOMAIN sockets : SocketOpens(s) \/ SocketCloses(s))

-----------------------------------------------------------------------------
TypeOK ==
    /\ SocketTypeOK
    /\ ticket \in [ side : Sides, tif : TimesInForce, ordType : OrdTypes,
                    price : Text, qty : Int, display : Int ]
    /\ nextId \in 1 .. MaxIds + 1 /\ preview \in 1 .. MaxIds + 1

(***************************************************************************)
(* Every order the page sends gets through the FIX message and the parser, *)
(* and within an int the constructor is called with the terms of the frame *)
(* and takes them: whatever was typed, clicked and switched before, the    *)
(* fields a switch hides included.  The server gives the ticket no other   *)
(* feedback, as parsePrice's comment says: what the parser drops stays     *)
(* PENDING for ever, what the constructor refuses is only REJECTED.        *)
(***************************************************************************)
TermsOf(frame) ==
    [ orderID |-> frame.clOrdId, side |-> frame.side, quantity |-> frame.qty,
      price |-> frame.price, tif |-> frame.tif, peak |-> frame.maxFloor,
      ordType |-> frame.ordType ]

NewFrames == {written[i] : i \in {j \in DOMAIN written : written[j].type = "NEW"}}

OrdersAreAcceptable ==
    \A frame \in NewFrames :
        /\ IsParsed(newOrderSingle(frame))
        /\ frame.qty <= MAX_INT =>
              TicketOf(frame) = TermsOf(frame) /\ ConstructorAccepts(TicketOf(frame))

(***************************************************************************)
(* The comment on quantities in handleOrderJson: their validation is the   *)
(* parser's and the constructor's.  So no order gets past both with a      *)
(* quantity that is not the one that was sent.                             *)
(***************************************************************************)
OrdersArriveWhole ==
    \A frame \in NewFrames :
        IsParsed(newOrderSingle(frame)) /\ ConstructorAccepts(TicketOf(frame)) =>
            TicketOf(frame).quantity = frame.qty

(***************************************************************************)
(* The blotter has a row for each order that was written to a socket,      *)
(* newest first, each under an id of its own, and no other row, over every *)
(* connection and every failed send; and msgSeqNum counts the writes and   *)
(* nothing else.                                                           *)
(***************************************************************************)
IsRowOf(row, frame) ==
    /\ frame.type = "NEW" /\ row.clOrdId = frame.clOrdId
    /\ row.originalQty = frame.qty /\ row.pricePx = frame.price

RowsAreTheWrittenOrders ==
    /\ app.msgSeqNum = Len(written)
    /\ \A i, j \in DOMAIN written : i < j => written[i].clOrdId < written[j].clOrdId
    /\ \A i, j \in DOMAIN app.myOrders :
          i < j => app.myOrders[i].clOrdId > app.myOrders[j].clOrdId
    /\ \A i \in DOMAIN written : written[i].type = "NEW" =>
          \E j \in DOMAIN app.myOrders : IsRowOf(app.myOrders[j], written[i])
    /\ \A j \in DOMAIN app.myOrders :
          \E i \in DOMAIN written : IsRowOf(app.myOrders[j], written[i])

(***************************************************************************)
(* The order that is written carries the id the ticket showed when it was  *)
(* submitted, although ids are also taken by cancels, by sends that fail   *)
(* and while the page is not rendered anew (clOrdIdPreview).               *)
(***************************************************************************)
ShownIdIsUsed ==
    [][\A i \in DOMAIN written' \ DOMAIN written :
          written'[i].type = "NEW" => written'[i].clOrdId = preview]_pageVars

(***************************************************************************)
(* What the comment on the property disabled says (OrderEntryProps): while *)
(* the socket is not open "the whole ticket is inert".                     *)
(***************************************************************************)
DisabledTicketIsInert ==
    [][~ Enabled => ticket' \in {ticket, EmptyTicket}]_pageVars
=============================================================================
