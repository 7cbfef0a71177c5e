-------------------------- MODULE PriceTimeQueues --------------------------
(***************************************************************************)
(* A limit order book with price-time priority as a value: one FIFO queue  *)
(* of orders per side and price, and what each operation of OrderBook      *)
(* (src/include/llte/order_book.hpp) makes of such a book and returns.     *)
(***************************************************************************)
EXTENDS Integers, Sequences, FiniteSets

CONSTANTS MinPrice, MaxPrice

Sides == {"Buy", "Sell"}
Prices == MinPrice .. MaxPrice

\* side -> price -> the resting orders, oldest first.
EmptyQueues == [s \in Sides |-> [p \in Prices |-> << >>]]

\* The resting orders, each with its place.
Orders(qs) ==
    UNION {{[id |-> qs[w[1]][w[2]][i].id, side |-> w[1], price |-> w[2],
             quantity |-> qs[w[1]][w[2]][i].quantity] : i \in DOMAIN qs[w[1]][w[2]]} :
           w \in Sides \X Prices}

\* Pairs of ids of which the first is ahead of the second in their queue.
Ahead(qs) ==
    UNION {UNION {{<<qs[w[1]][w[2]][i].id, qs[w[1]][w[2]][j].id>> : i \in 1 .. j - 1} :
                  j \in DOMAIN qs[w[1]][w[2]]} :
           w \in Sides \X Prices}

Known(qs, id) == \E o \in Orders(qs) : o.id = id
OrderOf(qs, id) == CHOOSE o \in Orders(qs) : o.id = id
PositionOf(q, id) == CHOOSE i \in DOMAIN q : q[i].id = id

\* q without its k-th element.
Without(q, k) == [i \in 1 .. Len(q) - 1 |-> IF i < k THEN q[i] ELSE q[i + 1]]

Removed(qs, o) ==
    [qs EXCEPT ![o.side][o.price] = Without(@, PositionOf(@, o.id))]
Appended(qs, id, side, price, quantity) ==
    [qs EXCEPT ![side][price] = Append(@, [id |-> id, quantity |-> quantity])]
\* Same place in the queue, other quantity.
Resized(qs, o, quantity) ==
    [qs EXCEPT ![o.side][o.price] =
        [@ EXCEPT ![PositionOf(@, o.id)] = [id |-> o.id, quantity |-> quantity]]]

-----------------------------------------------------------------------------
(* The operations: what a book with room for that many orders becomes, and *)
(* what the caller is told.                                                *)

Reject(qs, reason) == [queues |-> qs, result |-> reason]
Done(qs) == [queues |-> qs, result |-> "Ok"]

Add(qs, room, id, side, price, quantity) ==
    IF id = 0 THEN Reject(qs, "UnknownOrder")
    ELSE IF quantity = 0 THEN Reject(qs, "InvalidQuantity")
    ELSE IF price \notin Prices THEN Reject(qs, "PriceOutOfBand")
    ELSE IF Known(qs, id) THEN Reject(qs, "DuplicateOrder")
    ELSE IF Cardinality(Orders(qs)) = room THEN Reject(qs, "PoolExhausted")
    ELSE Done(Appended(qs, id, side, price, quantity))

Cancel(qs, id) ==
    IF Known(qs, id) THEN Done(Removed(qs, OrderOf(qs, id))) ELSE Reject(qs, "UnknownOrder")

\* A smaller quantity at the same price keeps the place in the queue; any other
\* amendment moves the order to the back of the queue of its price.
Modify(qs, id, price, quantity) ==
    LET o == OrderOf(qs, id)
    IN  IF quantity = 0 THEN Reject(qs, "InvalidQuantity")
        ELSE IF price \notin Prices THEN Reject(qs, "PriceOutOfBand")
        ELSE IF ~Known(qs, id) THEN Reject(qs, "UnknownOrder")
        ELSE IF price = o.price /\ quantity < o.quantity THEN Done(Resized(qs, o, quantity))
        ELSE Done(Appended(Removed(qs, o), id, o.side, price, quantity))

\* A fill keeps the place in the queue until nothing is left.
Execute(qs, id, quantity) ==
    LET o == OrderOf(qs, id)
    IN  IF quantity = 0 THEN Reject(qs, "InvalidQuantity")
        ELSE IF ~Known(qs, id) THEN Reject(qs, "UnknownOrder")
        ELSE IF quantity >= o.quantity THEN Done(Removed(qs, o))
        ELSE Done(Resized(qs, o, o.quantity - quantity))
=============================================================================
