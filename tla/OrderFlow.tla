----------------------------- MODULE OrderFlow -----------------------------
(***************************************************************************)
(* The orders behind the messages: the exchange invents an order flow,     *)
(* applies it to its authoritative book and publishes each step            *)
(* (src/exchange/exchange_simulator.cpp), and the engine rebuilds the book *)
(* from what reaches it (src/orderbook/order_book_engine.cpp).  Between    *)
(* the two is the feed of module LossyFeed, which module Pipeline          *)
(* implements: in order, at most once, possibly with holes.  Both books    *)
(* are values of PriceTimeQueues and change as AbstractBook, which module  *)
(* OrderBook implements, says.  The engine is given the price band of the  *)
(* exchange: its --min-price and --max-price are options whose defaults    *)
(* are the exchange's band (order_book_engine.cpp:55-56).                  *)
(***************************************************************************)
EXTENDS PriceTimeQueues

CONSTANTS
    Mid, Depth,             \* kMidPrice and the largest distance from it
    Lots,                   \* the quantities of new and amended orders
    VenueOrders,            \* pool size of the exchange's book
    EngineOrders,           \* --max-orders, pool size of the engine's book
    MaxMessages,            \* bound: messages published
    MaxLag                  \* bound: messages published and not yet taken

ASSUME FlowAssumption ==
    /\ MinPrice \in Int /\ MaxPrice \in Int /\ Mid \in Int
    /\ Depth \in Nat \ {0} /\ Mid - Depth >= MinPrice /\ Mid + Depth <= MaxPrice
    /\ Lots # {} /\ Lots \subseteq {10 * k : k \in 1 .. 20}
    /\ VenueOrders \in Nat \ {0} /\ EngineOrders \in Nat \ {0}
    /\ MaxMessages \in Nat /\ MaxLag \in Nat

VARIABLES
    venue, answer,      \* exchange: the book and what it answered last
    live,               \* exchange: the orders it may still amend
    next_order_id,      \* exchange
    stream, published,  \* messages not yet taken by the engine, messages in all
    book, result,       \* engine: the book and what it answered last
    skipped,            \* history: orders with a message the engine never got
    refused             \* history: orders one of the pools had no room for

exchange == <<venue, answer, live, next_order_id>>
engine == <<book, result, skipped>>
vars == <<exchange, stream, published, engine, refused>>

Init ==
    /\ venue = EmptyQueues /\ answer = "Ok" /\ live = << >> /\ next_order_id = 1
    /\ stream = << >> /\ published = 0
    /\ book = EmptyQueues /\ result = "Ok" /\ skipped = {} /\ refused = {}

-----------------------------------------------------------------------------
(* The exchange: one turn of its loop. *)

\* The prices price_for may return.
price_for(side) ==
    IF side = "Buy" THEN {Mid - d : d \in 1 .. Depth} ELSE {Mid + d : d \in 1 .. Depth}

\* The message goes to the history and the packet; its number is its place.
Emit(type, id, side, price, quantity) ==
    /\ published < MaxMessages /\ Len(stream) < MaxLag
    /\ published' = published + 1
    /\ stream' = Append(stream, [type |-> type, order_id |-> id, side |-> side,
                                 price |-> price, quantity |-> quantity])
    /\ UNCHANGED engine

VenueDoes(outcome) == venue' = outcome.queues /\ answer' = outcome.result

\* An Add is published whether or not the book had room for the order.
AddOrder(side, price, quantity) ==
    /\ Emit("Add", next_order_id, side, price, quantity)
    /\ VenueDoes(Add(venue, VenueOrders, next_order_id, side, price, quantity))
    /\ live' = IF answer' # "Ok" THEN live
               ELSE Append(live, [id |-> next_order_id, side |-> side, price |-> price,
                                  quantity |-> quantity])
    /\ refused' = IF answer' = "Ok" THEN refused ELSE refused \cup {next_order_id}
    /\ next_order_id' = next_order_id + 1

\* Mutant: the last entry goes, whichever was picked.
DropPopOnly(s, i) == SubSeq(s, 1, Len(s) - 1)

\* target = live.back(); live.pop_back().
Drop(s, i) == SubSeq([s EXCEPT ![i] = s[Len(s)]], 1, Len(s) - 1)

CancelOrder(i) ==
    LET target == live[i]
    IN  /\ Emit("Cancel", target.id, target.side, target.price, target.quantity)
        /\ VenueDoes(Cancel(venue, target.id))
        /\ live' = Drop(live, i)
        /\ UNCHANGED <<next_order_id, refused>>

ModifyOrder(i, price, quantity) ==
    LET target == live[i]
    IN  /\ price \in price_for(target.side)
        /\ Emit("Modify", target.id, target.side, price, quantity)
        /\ VenueDoes(Modify(venue, target.id, price, quantity))
        /\ live' = IF answer' # "Ok" THEN live
                   ELSE [live EXCEPT ![i].price = price, ![i].quantity = quantity]
        /\ UNCHANGED <<next_order_id, refused>>

\* Half of the order trades, or all of it when ten or fewer are left.
TradeOrder(i) ==
    LET target == live[i]
        fill == IF target.quantity > 10 THEN target.quantity \div 2 ELSE target.quantity
    IN  /\ Emit("Trade", target.id, target.side, target.price, fill)
        /\ VenueDoes(Execute(venue, target.id, fill))
        /\ live' = IF fill >= target.quantity THEN Drop(live, i)
                   ELSE [live EXCEPT ![i].quantity = @ - fill]
        /\ UNCHANGED <<next_order_id, refused>>

-----------------------------------------------------------------------------
(* The engine: one event off the ring. *)

\* Mutant: a trade takes the order off the book.
DispatchTradeEnds(qs, room, m) ==
    CASE m.type = "Add" -> Add(qs, room, m.order_id, m.side, m.price, m.quantity)
      [] m.type \in {"Cancel", "Trade"} -> Cancel(qs, m.order_id)
      [] m.type = "Modify" -> Modify(qs, m.order_id, m.price, m.quantity)

\* The switch on the message type, for a book with room for that many orders.
Dispatch(qs, room, m) ==
    CASE m.type = "Add" -> Add(qs, room, m.order_id, m.side, m.price, m.quantity)
      [] m.type = "Cancel" -> Cancel(qs, m.order_id)
      [] m.type = "Modify" -> Modify(qs, m.order_id, m.price, m.quantity)
      [] m.type = "Trade" -> Execute(qs, m.order_id, m.quantity)

EngineDoes(outcome) == book' = outcome.queues /\ result' = outcome.result

\* The n-th message under way is the next to arrive; record() counts result'.
Apply(n) ==
    /\ EngineDoes(Dispatch(book, EngineOrders, stream[n]))
    /\ stream' = SubSeq(stream, n + 1, Len(stream))
    /\ skipped' = skipped \cup {stream[i].order_id : i \in 1 .. n - 1}
    /\ refused' = IF result' # "PoolExhausted" THEN refused
                  ELSE refused \cup {stream[n].order_id}
    /\ UNCHANGED <<exchange, published>>

-----------------------------------------------------------------------------
Next ==
    \/ \E side \in Sides, quantity \in Lots :
          \E price \in price_for(side) : AddOrder(side, price, quantity)
    \/ \E i \in DOMAIN live : CancelOrder(i) \/ TradeOrder(i)
    \/ \E i \in DOMAIN live, price \in MinPrice .. MaxPrice, quantity \in Lots :
          ModifyOrder(i, price, quantity)
    \/ \E n \in DOMAIN stream : Apply(n)

Spec == Init /\ [][Next]_vars

-----------------------------------------------------------------------------
CaughtUp == stream = << >>

\* What a book says of the resting orders that are not in the set without:
\* where they are, and their order of priority.
Rest(qs, without) ==
    [orders |-> {o \in Orders(qs) : o.id \notin without},
     ahead |-> {a \in Ahead(qs) : a[1] \notin without /\ a[2] \notin without}]

\* The exchange keeps each resting order twice, in the book and in the vector
\* it picks amendments from; they agree on identity, side, price and remaining
\* quantity after every add, cancel, amendment and partial fill.
LiveMatchesBook == {live[i] : i \in DOMAIN live} = Orders(venue)

\* "The engine's reconstructed book matched the exchange's authoritative book
\* exactly" (README): when nothing was lost and the pools are of one size, an
\* engine that has caught up holds the same orders at the same places in the
\* same queues, although the exchange publishes orders its own pool refused.
BooksAgree ==
    CaughtUp /\ skipped = {} /\ VenueOrders = EngineOrders => book = venue

\* A lost message harms no order but its own: an engine that has caught up has
\* every other order, unless a pool had no room for it, where the exchange has
\* it, with the same quantity and the same priority among such orders.
LossIsIsolated ==
    CaughtUp => Rest(book, skipped \cup refused) = Rest(venue, skipped \cup refused)

\* The engine's counters tell the truth: an unknown order is one with a lost
\* message or one a pool refused, only an Add exhausts the pool, and no message
\* is counted as duplicate, out of band or invalid.  "Never out of band" rests
\* on the one band of both books.
RejectionsExplained ==
    [][\A n \in DOMAIN stream : Len(stream') = Len(stream) - n =>
          \/ result' = "Ok"
          \/ result' = "PoolExhausted" /\ stream[n].type = "Add"
          \/ result' = "UnknownOrder" /\ stream[n].order_id \in skipped' \cup refused']_vars
=============================================================================
