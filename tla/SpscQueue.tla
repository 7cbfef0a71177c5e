----------------------------- MODULE SpscQueue -----------------------------
(***************************************************************************)
(* The lock-free ring between the market-data handler and the order-book   *)
(* engine (src/include/llte/spsc_queue.hpp).  try_push and try_pop are     *)
(* split at every access to memory the other thread also touches: the load *)
(* of the other side's index, the slot copy (not atomic: it lasts from the *)
(* step that enters "write" or "copy" to the step that leaves it) and the  *)
(* release store of the own index.                                         *)
(*                                                                         *)
(* Indices are size_t counters that wrap: they count modulo W, and W is a  *)
(* multiple of Capacity, both being powers of two in the code.  An acquire *)
(* load need not return the latest store: it returns any value of the      *)
(* index no older than the last one this thread has read.                  *)
(***************************************************************************)
EXTENDS Integers, Sequences

CONSTANTS
    Capacity,   \* entries in the ring
    W,          \* number of values of an index (2^64 in the code)
    Values,     \* what can be pushed
    Zero        \* content of a slot that was never written

ASSUME SpscAssumption ==
    /\ Capacity \in Nat \ {0}
    /\ W \in Nat /\ W > Capacity /\ W % Capacity = 0
    /\ Zero \notin Values

VARIABLES
    write_idx, read_idx,                \* the two shared atomics
    cached_read_idx, cached_write_idx,  \* private to producer and consumer
    buffer,
    ppc, value,     \* producer: where it is in try_push, and the argument
    cpc, out,       \* consumer: where it is in try_pop, and the copied slot
    got             \* what the last successful try_pop returned

producerVars == <<write_idx, cached_read_idx, ppc, value>>
consumerVars == <<read_idx, cached_write_idx, cpc, out, got>>
vars == <<producerVars, consumerVars, buffer>>

Index == 0 .. W - 1
Slots == 0 .. Capacity - 1

\* b - a on size_t.
Dist(a, b) == (b - a) % W
Succ(a) == (a + 1) % W
\* Mutant: the mask used as a modulus.
SlotByMask(a) == a % (Capacity - 1)

\* index & kMask
SlotOf(a) == a % Capacity

\* The values a load of an index may return: the last one read is seen, the
\* latest one stored is current.
Loadable(seen, current) == {i \in Index : Dist(seen, i) <= Dist(seen, current)}

TypeOK ==
    /\ write_idx \in Index /\ read_idx \in Index
    /\ cached_read_idx \in Index /\ cached_write_idx \in Index
    /\ buffer \in [Slots -> Values \cup {Zero}]
    /\ ppc \in {"idle", "refresh", "write", "publish"}
    /\ cpc \in {"idle", "refresh", "copy", "publish"}
    /\ value \in Values \cup {Zero}
    /\ out \in Values \cup {Zero} /\ got \in Values \cup {Zero}

Init ==
    /\ write_idx = 0 /\ read_idx = 0
    /\ cached_read_idx = 0 /\ cached_write_idx = 0
    /\ buffer = [s \in Slots |-> Zero]
    /\ ppc = "idle" /\ value = Zero
    /\ cpc = "idle" /\ out = Zero /\ got = Zero

-----------------------------------------------------------------------------
(* try_push *)

\* Mutant: full one entry too late.
PushCallLate(v) ==
    /\ ppc = "idle"
    /\ value' = v
    /\ ppc' = IF Dist(cached_read_idx, write_idx) > Capacity THEN "refresh" ELSE "write"
    /\ UNCHANGED <<write_idx, cached_read_idx, consumerVars, buffer>>

\* Entry: the ring looks full through the cached index, or it does not.
PushCall(v) ==
    /\ ppc = "idle"
    /\ value' = v
    /\ ppc' = IF Dist(cached_read_idx, write_idx) >= Capacity
              THEN "refresh" ELSE "write"
    /\ UNCHANGED <<write_idx, cached_read_idx, consumerVars, buffer>>

\* The acquire load of read_idx_, and the second test (return false).
PushRefresh(seen) ==
    /\ ppc = "refresh"
    /\ seen \in Loadable(cached_read_idx, read_idx)
    /\ cached_read_idx' = seen
    /\ ppc' = IF Dist(seen, write_idx) >= Capacity THEN "idle" ELSE "write"
    /\ UNCHANGED <<write_idx, value, consumerVars, buffer>>

\* buffer_[write & kMask] = value
PushWrite ==
    /\ ppc = "write"
    /\ buffer' = [buffer EXCEPT ![SlotOf(write_idx)] = value]
    /\ ppc' = "publish"
    /\ UNCHANGED <<write_idx, cached_read_idx, value, consumerVars>>

\* The release store of write + 1 (return true).
PushPublish ==
    /\ ppc = "publish"
    /\ write_idx' = Succ(write_idx)
    /\ ppc' = "idle"
    /\ UNCHANGED <<cached_read_idx, value, consumerVars, buffer>>

-----------------------------------------------------------------------------
(* try_pop *)

\* Mutant: try_pop does not test for empty.
PopCallUntested ==
    /\ cpc = "idle"
    /\ cpc' = "copy"
    /\ UNCHANGED <<producerVars, read_idx, cached_write_idx, out, got, buffer>>

PopCall ==
    /\ cpc = "idle"
    /\ cpc' = IF read_idx = cached_write_idx THEN "refresh" ELSE "copy"
    /\ UNCHANGED <<producerVars, read_idx, cached_write_idx, out, got, buffer>>

\* Mutant: the refreshed index is not tested again.
PopRefreshUntested(seen) ==
    /\ cpc = "refresh"
    /\ seen \in Loadable(cached_write_idx, write_idx)
    /\ cached_write_idx' = seen
    /\ cpc' = "copy"
    /\ UNCHANGED <<producerVars, read_idx, out, got, buffer>>

\* Mutant: the refreshed index is not kept.
PopRefreshDropped(seen) ==
    /\ cpc = "refresh"
    /\ seen \in Loadable(cached_write_idx, write_idx)
    /\ cpc' = "idle"
    /\ UNCHANGED <<producerVars, read_idx, cached_write_idx, out, got, buffer>>

PopRefresh(seen) ==
    /\ cpc = "refresh"
    /\ seen \in Loadable(cached_write_idx, write_idx)
    /\ cached_write_idx' = seen
    /\ cpc' = IF read_idx = seen THEN "idle" ELSE "copy"
    /\ UNCHANGED <<producerVars, read_idx, out, got, buffer>>

\* out = buffer_[read & kMask]
PopCopy ==
    /\ cpc = "copy"
    /\ out' = buffer[SlotOf(read_idx)]
    /\ cpc' = "publish"
    /\ UNCHANGED <<producerVars, read_idx, cached_write_idx, got, buffer>>

\* The release store of read + 1 (return true).
PopPublish ==
    /\ cpc = "publish"
    /\ read_idx' = Succ(read_idx)
    /\ got' = out
    /\ cpc' = "idle"
    /\ UNCHANGED <<producerVars, cached_write_idx, out, buffer>>

-----------------------------------------------------------------------------
Producer ==
    \/ \E v \in Values : PushCall(v)
    \/ \E seen \in Index : PushRefresh(seen)
    \/ PushWrite
    \/ PushPublish

Consumer ==
    \/ PopCall
    \/ \E seen \in Index : PopRefresh(seen)
    \/ PopCopy
    \/ PopPublish

Next == Producer \/ Consumer

Spec == Init /\ [][Next]_vars

\* The engine calls try_pop in a loop, so the consumer never stops; a store
\* becomes visible to a thread that keeps loading it; and a producer that
\* has entered try_push runs it to its end.
Fairness ==
    /\ WF_vars(Consumer)
    /\ SF_vars(PopRefresh(write_idx))
    /\ WF_vars(PushWrite \/ PushPublish \/ \E seen \in Index : PushRefresh(seen))

FairSpec == Spec /\ Fairness

-----------------------------------------------------------------------------
(* What empty() and size() return to a thread whose loads are current. *)
size == Dist(read_idx, write_idx)
empty == read_idx = write_idx

\* The ring never holds more than Capacity entries, although the producer
\* decides from a cached read_idx_ that may be arbitrarily old and although
\* both counters wrap (try_push's two tests of write - cached_read_idx_).
NeverOverfull == size <= Capacity

\* Producer and consumer are never inside the copy of the same slot at the
\* same time: the plain accesses to buffer_ in try_push and try_pop do not
\* race, whatever the two cached indices are.
NoSlotRace ==
    ~ (ppc = "write" /\ cpc = "copy" /\ SlotOf(write_idx) = SlotOf(read_idx))

\* The inductive invariant behind the two properties above and the
\* refinement below.  Going round the counters one meets cached_read_idx_,
\* read_idx_, cached_write_idx_ and write_idx_ in this order, within Capacity:
\* each side's cached copy of the other's index errs on the safe side.  A
\* producer past its tests has a free slot by its own stale view, a consumer
\* past its tests has a published entry, and a finished slot copy stays what
\* was copied until the index is published.
IndInv ==
    /\ TypeOK
    /\ Dist(cached_read_idx, write_idx) <= Capacity
    /\ Dist(cached_read_idx, read_idx) <= Dist(cached_read_idx, cached_write_idx)
    /\ Dist(cached_read_idx, cached_write_idx) <= Dist(cached_read_idx, write_idx)
    /\ ppc \in {"write", "publish"} => Dist(cached_read_idx, write_idx) < Capacity
    /\ ppc # "idle" => value \in Values
    /\ ppc = "publish" => buffer[SlotOf(write_idx)] = value
    /\ cpc \in {"copy", "publish"} => read_idx # cached_write_idx
    /\ cpc = "publish" => out = buffer[SlotOf(read_idx)]

\* The entries between the two indices, oldest first.
queue == [i \in 1 .. size |-> buffer[SlotOf((read_idx + i - 1) % W)]]

Fifo == INSTANCE BoundedFifo WITH q <- queue

\* The ring implements a bounded FIFO: publishing the index is the moment a
\* push or a pop takes effect, no entry is lost, duplicated, reordered or
\* overwritten before it is read.
ImplementsFifo == Fifo!FifoSpec

\* Every published entry is eventually popped by a consumer that keeps
\* polling: no value of the two indices leaves try_pop reporting an empty
\* ring for ever.
EveryEntryPopped ==
    \A i \in Index : (read_idx = i /\ write_idx # i) ~> (read_idx # i)
=============================================================================
