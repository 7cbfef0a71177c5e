---------------------------- MODULE AbstractBook ----------------------------
(***************************************************************************)
(* What OrderBook (src/include/llte/order_book.hpp) promises: a central    *)
(* limit order book with price-time priority that holds at most MaxOrders  *)
(* orders, under any sequence of calls.                                    *)
(***************************************************************************)
EXTENDS PriceTimeQueues

CONSTANTS Ids, MaxOrders, MaxQuantity

VARIABLES
    queues,     \* the book
    result      \* what the last operation returned

bookVars == <<queues, result>>

BookInit == queues = EmptyQueues /\ result = "Ok"

\* Some operation makes this of the book.
BookNext ==
    \E qs \in {queues}, outcome \in {[queues |-> queues', result |-> result']} :
    \/ \E id \in Ids : outcome = Cancel(qs, id)
    \/ \E id \in Ids, quantity \in 0 .. MaxQuantity : outcome = Execute(qs, id, quantity)
    \/ \E id \in Ids, price \in MinPrice - 1 .. MaxPrice + 1, quantity \in 0 .. MaxQuantity :
          outcome = Modify(qs, id, price, quantity)
    \/ \E id \in Ids \cup {0}, side \in Sides, price \in MinPrice - 1 .. MaxPrice + 1,
          quantity \in 0 .. MaxQuantity :
          outcome = Add(qs, MaxOrders, id, side, price, quantity)

BookSpec == BookInit /\ [][BookNext]_bookVars
=============================================================================
