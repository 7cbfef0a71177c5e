----------------------------- MODULE OrderIndex -----------------------------
(***************************************************************************)
(* The order-id table of the book (find_index, index_insert and            *)
(* index_erase of src/orderbook/order_book.cpp): open addressing, linear   *)
(* probing, backward-shift deletion.  The operators work on a table idx, a *)
(* function from positions to [key, value]; home is the hash of the keys,  *)
(* mix(key) & index_mask_.  mix is not modelled: it may be any function.   *)
(* The stale value the code leaves beside an empty key is cleared here.    *)
(***************************************************************************)
EXTENDS Integers, SequencesExt

CONSTANTS
    Ids,        \* order ids, positive
    Size        \* index_mask_ + 1

kEmptyKey == 0
kNoLevel == -1
Positions == 0 .. Size - 1
Free == [key |-> kEmptyKey, value |-> 0]
EmptyTable == [p \in Positions |-> Free]

\* The position j steps into a probe sequence that starts at p.
Probe(p, j) == (p + j) % Size

\* The distance from p of the first position whose key is in stop.  Some
\* position must qualify, or the code's while loop does not end.
FirstIn(idx, p, stop) ==
    CHOOSE j \in Positions :
        /\ idx[Probe(p, j)].key \in stop
        /\ \A i \in 0 .. j - 1 : idx[Probe(p, i)].key \notin stop

find_index(idx, home, id) ==
    LET p == Probe(home[id], FirstIn(idx, home[id], {kEmptyKey, id}))
    IN  IF idx[p].key = kEmptyKey THEN kNoLevel ELSE p

index_insert(idx, home, id, slot) ==
    LET p == Probe(home[id], FirstIn(idx, home[id], {kEmptyKey}))
    IN  [idx EXCEPT ![p] = [key |-> id, value |-> slot]]

\* Mutant: the table's wrap-around is forgotten.
must_stay_flat(hole, probe, ideal) == ideal > hole /\ ideal <= probe

\* A key at probe with this ideal position is unreachable once hole is empty,
\* unless ideal lies cyclically in (hole, probe].
must_stay(hole, probe, ideal) ==
    IF hole < probe THEN ideal > hole /\ ideal <= probe
    ELSE ideal > hole \/ ideal <= probe

\* One turn of index_erase's inner loop: st is the table, the hole and whether
\* the scan has met an empty slot.
EraseStep(home, st, probe) ==
    IF st.done \/ st.idx[probe].key = kEmptyKey THEN [st EXCEPT !.done = TRUE]
    ELSE IF must_stay(st.hole, probe, home[st.idx[probe].key]) THEN st
    ELSE [st EXCEPT !.idx = [@ EXCEPT ![st.hole] = st.idx[probe], ![probe] = Free],
                    !.hole = probe]

\* Mutant: no backward shift.
index_erase_only(idx, home, position) == [idx EXCEPT ![position] = Free]

index_erase(idx, home, position) ==
    LET start == [idx |-> [idx EXCEPT ![position] = Free],
                  hole |-> position, done |-> FALSE]
        probes == [j \in 1 .. Size |-> Probe(position, j)]
    IN  FoldLeft(LAMBDA st, probe : EraseStep(home, st, probe), start, probes).idx
=============================================================================
