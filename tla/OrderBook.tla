----------------------------- MODULE OrderBook -----------------------------
(***************************************************************************)
(* The preallocated limit order book (src/orderbook/order_book.cpp): an    *)
(* array of price levels per side, each an intrusive doubly linked list of *)
(* orders, a pool of orders with an intrusive free list, the order-id      *)
(* table of OrderIndex and the cached best levels.  The whole object is    *)
(* one record; the private member functions map records to records.        *)
(*                                                                         *)
(* A slot on the free list keeps stale fields in the code; add overwrites  *)
(* them before anything reads them, and here release_slot clears them.     *)
(***************************************************************************)
EXTENDS OrderIndex

CONSTANTS
    MinPrice, MaxPrice,     \* config.min_price, config.max_price
    MaxOrders,              \* config.max_orders, the size of the pool
    MaxQuantity,            \* bound: largest quantity of an operation
    Hashes                  \* the hash functions considered

ASSUME BookAssumption ==
    /\ MaxPrice >= MinPrice /\ MaxOrders > 0        \* the constructor's asserts
    /\ MinPrice \in Nat                            \* above kNoPrice
    /\ Size >= 2 * MaxOrders                        \* load factor at most 0.5
    /\ Ids \subseteq Nat \ {0}

VARIABLES
    book,       \* the object
    hash,       \* order id -> mix(id) & index_mask_, fixed
    result      \* what the last operation returned

vars == <<book, hash, result>>

kNullOrder == -1
Sides == {"Buy", "Sell"}
Levels == 0 .. MaxPrice - MinPrice
PoolSlots == 0 .. MaxOrders - 1

in_band(price) == price >= MinPrice /\ price <= MaxPrice
level_index(price) == price - MinPrice
level_price(l) == MinPrice + l
\* Stands for the least Price, below every price of the band.
kNoPrice == -1000000

NoOrder(next) == [id |-> 0, price |-> MinPrice, quantity |-> 0, side |-> "Buy",
                  next |-> next, prev |-> kNullOrder]
NoOrders == [total_quantity |-> 0, order_count |-> 0, head |-> kNullOrder, tail |-> kNullOrder]

\* The constructor, which ends in clear().
clear == [
    levels |-> [s \in Sides |-> [l \in Levels |-> NoOrders]],
    pool |-> [i \in PoolSlots |-> NoOrder(IF i + 1 < MaxOrders THEN i + 1 ELSE kNullOrder)],
    index |-> EmptyTable,
    free_head |-> 0,
    live_orders |-> 0,
    best |-> [s \in Sides |-> kNoLevel]]

Init ==
    /\ book = clear
    /\ hash \in Hashes
    /\ result = "Ok"

-----------------------------------------------------------------------------
(* Private member functions, from book to book. *)

\* acquire_slot returns free_head_; this is what it leaves behind.
acquire_slot(b) == [b EXCEPT !.free_head = b.pool[b.free_head].next]

release_slot(b, slot) ==
    [b EXCEPT !.pool[slot] = NoOrder(b.free_head), !.free_head = slot]

link_back(b, l, side, slot) ==
    LET level == b.levels[side][l]
        linked == [b.pool EXCEPT ![slot].next = kNullOrder, ![slot].prev = level.tail]
    IN  [b EXCEPT
          !.pool = IF level.tail # kNullOrder THEN [linked EXCEPT ![level.tail].next = slot]
                   ELSE linked,
          !.levels[side][l] = [
              total_quantity |-> level.total_quantity + b.pool[slot].quantity,
              order_count |-> level.order_count + 1,
              head |-> IF level.tail # kNullOrder THEN level.head ELSE slot,
              tail |-> slot]]

note_level_filled(b, side, l) ==
    LET best == b.best[side]
        better == IF side = "Buy" THEN l > best ELSE l < best
    IN  IF best = kNoLevel \/ better THEN [b EXCEPT !.best[side] = l] ELSE b

\* Mutant: bids scanned from the wrong end.
on_level_emptied_far(b, side, l) ==
    LET worse == {k \in Levels : /\ IF side = "Buy" THEN k < l ELSE k > l
                                 /\ b.levels[side][k].order_count > 0}
    IN  IF l # b.best[side] THEN b
        ELSE [b EXCEPT !.best[side] = IF worse = {} THEN kNoLevel ELSE Min(worse)]

\* Scan away from the touch for the next level that holds an order.
on_level_emptied(b, side, l) ==
    LET worse == {k \in Levels : /\ IF side = "Buy" THEN k < l ELSE k > l
                                 /\ b.levels[side][k].order_count > 0}
    IN  IF l # b.best[side] THEN b
        ELSE [b EXCEPT !.best[side] =
                IF worse = {} THEN kNoLevel
                ELSE IF side = "Buy" THEN Max(worse) ELSE Min(worse)]

unlink(b, l, side, slot) ==
    LET level == b.levels[side][l]
        order == b.pool[slot]
        fromPrev == IF order.prev # kNullOrder
                    THEN [b.pool EXCEPT ![order.prev].next = order.next] ELSE b.pool
        pool == IF order.next # kNullOrder
                THEN [fromPrev EXCEPT ![order.next].prev = order.prev] ELSE fromPrev
        left == [b EXCEPT
          !.pool = pool,
          !.levels[side][l] = [
              total_quantity |-> level.total_quantity - order.quantity,
              order_count |-> level.order_count - 1,
              head |-> IF order.prev # kNullOrder THEN level.head ELSE order.next,
              tail |-> IF order.next # kNullOrder THEN level.tail ELSE order.prev]]
    IN  IF level.order_count = 1 THEN on_level_emptied(left, side, l) ELSE left

\* Mutant: the slot is not released.
Remove_order_leaks(b, position) ==
    LET slot == b.index[position].value
        order == b.pool[slot]
        unlinked == unlink(b, level_index(order.price), order.side, slot)
    IN  [unlinked EXCEPT !.index = index_erase(@, hash, position), !.live_orders = @ - 1]

\* The common tail of cancel and of an execute that fills the order.
Remove_order(b, position) ==
    LET slot == b.index[position].value
        order == b.pool[slot]
        unlinked == unlink(b, level_index(order.price), order.side, slot)
        erased == [unlinked EXCEPT !.index = index_erase(@, hash, position)]
    IN  [release_slot(erased, slot) EXCEPT !.live_orders = @ - 1]

-----------------------------------------------------------------------------
(* The public operations. *)

find(id) == find_index(book.index, hash, id)
SlotOf(id) == book.index[find(id)].value

Return(r, b) == result' = r /\ book' = b /\ UNCHANGED hash

\* What add does once every test has passed.
Inserted(id, side, price, quantity) ==
    LET slot == book.free_head
        stamped == [acquire_slot(book) EXCEPT !.pool[slot] =
                      [@ EXCEPT !.id = id, !.price = price, !.quantity = quantity, !.side = side]]
        linked == link_back(stamped, level_index(price), side, slot)
        noted == note_level_filled(linked, side, level_index(price))
    IN  [noted EXCEPT !.index = index_insert(@, hash, id, slot), !.live_orders = @ + 1]

add(id, side, price, quantity) ==
    IF id = kEmptyKey THEN Return("UnknownOrder", book)
    ELSE IF quantity = 0 THEN Return("InvalidQuantity", book)
    ELSE IF ~in_band(price) THEN Return("PriceOutOfBand", book)
    ELSE IF find(id) # kNoLevel THEN Return("DuplicateOrder", book)
    ELSE IF book.free_head = kNullOrder THEN Return("PoolExhausted", book)
    ELSE Return("Ok", Inserted(id, side, price, quantity))

cancel(id) ==
    IF find(id) = kNoLevel THEN Return("UnknownOrder", book)
    ELSE Return("Ok", Remove_order(book, find(id)))

\* The last part of modify: off its level and to the back of the new one.
Requeued(slot, price, quantity) ==
    LET order == book.pool[slot]
        off == unlink(book, level_index(order.price), order.side, slot)
        stamped == [off EXCEPT !.pool[slot].price = price, !.pool[slot].quantity = quantity]
        linked == link_back(stamped, level_index(price), order.side, slot)
    IN  note_level_filled(linked, order.side, level_index(price))

\* Mutant: the level's total is forgotten.
ShrunkAlone(slot, quantity) == [book EXCEPT !.pool[slot].quantity = quantity]

\* A smaller quantity in place, for modify and for a partial fill.
Shrunk(slot, quantity) ==
    LET order == book.pool[slot]
        l == level_index(order.price)
    IN  [book EXCEPT !.levels[order.side][l].total_quantity = @ - (order.quantity - quantity),
                     !.pool[slot].quantity = quantity]

\* Mutant: a larger quantity keeps its place too.
modify_keeps_place(id, new_price, new_quantity) ==
    IF new_quantity = 0 THEN Return("InvalidQuantity", book)
    ELSE IF ~in_band(new_price) THEN Return("PriceOutOfBand", book)
    ELSE IF find(id) = kNoLevel THEN Return("UnknownOrder", book)
    ELSE IF new_price = book.pool[SlotOf(id)].price
         THEN Return("Ok", Shrunk(SlotOf(id), new_quantity))
         ELSE Return("Ok", Requeued(SlotOf(id), new_price, new_quantity))

modify(id, new_price, new_quantity) ==
    IF new_quantity = 0 THEN Return("InvalidQuantity", book)
    ELSE IF ~in_band(new_price) THEN Return("PriceOutOfBand", book)
    ELSE IF find(id) = kNoLevel THEN Return("UnknownOrder", book)
    ELSE LET order == book.pool[SlotOf(id)] IN
         IF new_price = order.price /\ new_quantity < order.quantity
         THEN Return("Ok", Shrunk(SlotOf(id), new_quantity))
         ELSE Return("Ok", Requeued(SlotOf(id), new_price, new_quantity))

execute(id, quantity) ==
    IF quantity = 0 THEN Return("InvalidQuantity", book)
    ELSE IF find(id) = kNoLevel THEN Return("UnknownOrder", book)
    ELSE LET order == book.pool[SlotOf(id)] IN
         IF quantity >= order.quantity THEN Return("Ok", Remove_order(book, find(id)))
         ELSE Return("Ok", Shrunk(SlotOf(id), order.quantity - quantity))

Quantities == 0 .. MaxQuantity
SomePrices == MinPrice - 1 .. MaxPrice + 1

Next ==
    \/ \E id \in Ids \cup {0}, side \in Sides, price \in SomePrices, quantity \in Quantities :
          add(id, side, price, quantity)
    \/ \E id \in Ids : cancel(id)
    \/ \E id \in Ids, price \in SomePrices, quantity \in Quantities :
          modify(id, price, quantity)
    \/ \E id \in Ids, quantity \in Quantities : execute(id, quantity)

Spec == Init /\ [][Next]_vars

-----------------------------------------------------------------------------
(* Views of the object. *)

\* The slots met by n steps along next from slot first (kNullOrder past the end).
Along(first, n) ==
    LET at[i \in 1 .. n] == IF i = 1 THEN first
                            ELSE IF at[i - 1] = kNullOrder THEN kNullOrder
                            ELSE book.pool[at[i - 1]].next
    IN  [i \in 1 .. n |-> at[i]]

\* The orders of a level, oldest first, as order_count and next give them.
OrdersAt(side, l) == Along(book.levels[side][l].head, book.levels[side][l].order_count)
FreeList == SelectSeq(Along(book.free_head, MaxOrders), LAMBDA slot : slot # kNullOrder)

best_bid == IF book.best["Buy"] = kNoLevel THEN kNoPrice ELSE level_price(book.best["Buy"])
best_ask == IF book.best["Sell"] = kNoLevel THEN kNoPrice ELSE level_price(book.best["Sell"])
quantity_at(side, price) ==
    IF in_band(price) THEN book.levels[side][level_index(price)].total_quantity ELSE 0
Occupied(side) == {l \in Levels : book.levels[side][l].order_count > 0}

queues ==
    [side \in Sides |-> [price \in MinPrice .. MaxPrice |->
        LET slots == OrdersAt(side, level_index(price))
        IN  [i \in DOMAIN slots |->
                IF slots[i] = kNullOrder THEN [id |-> 0, quantity |-> 0]
                ELSE [id |-> book.pool[slots[i]].id,
                      quantity |-> book.pool[slots[i]].quantity]]]]

Abstract == INSTANCE AbstractBook

\* The linked lists, the pool and the table together behave as one FIFO queue
\* of orders per side and price, with the same results: price-time priority
\* survives every sequence of add, cancel, modify and execute.
ImplementsBook == Abstract!BookSpec

\* The cached best levels are the best occupied ones after any sequence of
\* operations: on_level_emptied's scan and note_level_filled never leave the
\* touch behind or beyond the book.
BestLevelsCorrect ==
    /\ best_bid = IF Occupied("Buy") = {} THEN kNoPrice ELSE level_price(Max(Occupied("Buy")))
    /\ best_ask = IF Occupied("Sell") = {} THEN kNoPrice ELSE level_price(Min(Occupied("Sell")))

\* total_quantity of every level is the sum over its list, and tail and prev
\* mirror head and next: what quantity_at reports is what rests there.
LevelsConsistent ==
    \A side \in Sides, l \in Levels :
        LET level == book.levels[side][l]
            slots == OrdersAt(side, l)
            n == Len(slots)
        IN  /\ quantity_at(side, level_price(l)) =
                   FoldLeft(LAMBDA sum, slot : sum + book.pool[slot].quantity, 0, slots)
            /\ level.tail = IF n = 0 THEN kNullOrder ELSE slots[n]
            /\ \A i \in 1 .. n :
                  /\ book.pool[slots[i]].prev = IF i = 1 THEN kNullOrder ELSE slots[i - 1]
                  /\ book.pool[slots[i]].side = side
                  /\ level_index(book.pool[slots[i]].price) = l

\* Every slot of the pool is on the free list or on exactly one level, once: no
\* slot is lost to the book or handed out twice, and live_orders_ counts the
\* latter.
PoolPartitioned ==
    LET onLevels == MapThenSumSet(LAMBDA w : Len(OrdersAt(w[1], w[2])), Sides \X Levels)
        slotsOn == UNION {ToSet(OrdersAt(w[1], w[2])) : w \in Sides \X Levels}
    IN  /\ slotsOn \cup ToSet(FreeList) = PoolSlots
        /\ onLevels + Len(FreeList) = MaxOrders
        /\ onLevels = book.live_orders

\* The table finds exactly the orders that rest in the book, each in its own
\* slot, and always has an empty slot that ends a probe.
IndexMatchesPool ==
    /\ \A id \in Ids :
          LET live == {slot \in PoolSlots : book.pool[slot].id = id}
          IN  IF find(id) = kNoLevel THEN live = {} ELSE live = {SlotOf(id)}
    /\ \E p \in Positions : book.index[p].key = kEmptyKey
=============================================================================
