---------------------------- MODULE MCOrderIndex ----------------------------
(***************************************************************************)
(* The order-id table alone, under every sequence of insertions and        *)
(* erasures that OrderBook can make (at most MaxOrders keys, no duplicate) *)
(* and every hash function, against the set of pairs it stands for.        *)
(***************************************************************************)
EXTENDS OrderIndex

CONSTANT MaxOrders

VARIABLES table, hash, held
vars == <<table, hash, held>>

Init ==
    /\ table = EmptyTable
    /\ hash \in [Ids -> Positions]
    /\ held = {}

\* add() after its duplicate test and acquire_slot().
Insert(id) ==
    /\ \A h \in held : h[1] # id
    /\ Cardinality(held) < MaxOrders
    /\ LET slot == Min({s \in 0 .. MaxOrders - 1 : \A h \in held : h[2] # s})
       IN  /\ table' = index_insert(table, hash, id, slot)
           /\ held' = held \cup {<<id, slot>>}
    /\ UNCHANGED hash

\* cancel() or a full execute().
Erase(id) ==
    /\ find_index(table, hash, id) # kNoLevel
    /\ table' = index_erase(table, hash, find_index(table, hash, id))
    /\ held' = {h \in held : h[1] # id}
    /\ UNCHANGED hash

Next == \E id \in Ids : Insert(id) \/ Erase(id)

Spec == Init /\ [][Next]_vars

\* find_index finds exactly the ids that were inserted and not erased, with the
\* pool slot they were inserted with, and the table holds nothing else:
\* backward-shift deletion never cuts a probe sequence nor leaves a copy behind,
\* whatever collides and wherever the table wraps.
FindsExactlyTheHeld ==
    /\ Cardinality({p \in Positions : table[p].key # kEmptyKey}) = Cardinality(held)
    /\ \A id \in Ids :
           LET p == find_index(table, hash, id)
           IN  IF p = kNoLevel THEN \A h \in held : h[1] # id
               ELSE <<id, table[p].value>> \in held
=============================================================================
