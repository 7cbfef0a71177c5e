------------------------------ MODULE RaceDemo ------------------------------
(***************************************************************************)
(* The demonstration of the single-producer rule                           *)
(* (src/tools/spsc_race_demo.cpp).  In mode "broken" several producers     *)
(* share one ring: each try_push is taken apart at its accesses to shared  *)
(* memory, and an item is copied word by word in any order, so that items  *)
(* overwrite, tear and hide each other.  In mode "fixed" each producer has *)
(* a queue of its own and one sequencer thread merges them; every queue    *)
(* has one producer and one consumer there and is the bounded FIFO that    *)
(* module SpscQueue implements.  The consumer judges what arrives.         *)
(***************************************************************************)
EXTENDS Integers, Sequences

CONSTANTS
    N,              \* --producers
    Per,            \* --messages, items of each producer
    Capacity,       \* kQueueCapacity, of the ring of mode "broken"
    OwnCapacity,    \* ... and of the queues of mode "fixed", to be bounded apart
    W               \* the indices count modulo W

ASSUME DemoAssumption ==
    /\ N \in Nat \ {0} /\ Per \in Nat \ {0} /\ Capacity \in Nat \ {0} /\ OwnCapacity \in Nat \ {0}
    /\ W \in Nat /\ W % Capacity = 0

VARIABLES
    mode, expired,                      \* --mode, and now_ns() > deadline_ns
    pc, i,                              \* producer -> where it is, its loop index
    stalled,                            \* items given up
    write_idx, cached_read, read_idx, cached_write, slots,      \* broken: the ring
    w, todo,                            \* broken: producer -> write, words to copy
    inbound, downstream,                \* fixed: the queues
    spc, turn, moved, item,             \* fixed: the sequencer thread
    cpc, gave_up,                       \* the consumer thread
    next_expected, received, corrupted, out_of_order,           \* the Verifier
    got                                 \* history: producer -> its items received

producers == <<pc, i>>
ring == <<write_idx, cached_read, read_idx, cached_write, slots, w, todo>>
sequencer == <<inbound, downstream, spc, turn, moved, item>>
verifier == <<next_expected, received, corrupted, out_of_order, got>>
consumer == <<cpc, gave_up, verifier>>
vars == <<mode, expired, producers, stalled, ring, sequencer, consumer>>

Producers == 0 .. N - 1
expected_total == N * Per
Words == {"producer", "sequence", "checksum"}

\* The two multiplications and the exclusive or do not collide on these items.
checksum_for(p, s) == <<p, s>>
Item(p, s) == [producer |-> p, sequence |-> s, checksum |-> checksum_for(p, s)]

Init ==
    /\ mode \in {"broken", "fixed"} /\ expired = FALSE
    /\ pc = [p \in Producers |-> "load"] /\ i = [p \in Producers |-> 0] /\ stalled = 0
    /\ write_idx = 0 /\ cached_read = 0 /\ read_idx = 0 /\ cached_write = 0
    /\ slots = [k \in 0 .. Capacity - 1 |-> Item(0, 0)]      \* zero bytes
    /\ w = [p \in Producers |-> 0] /\ todo = [p \in Producers |-> {}]
    /\ inbound = [p \in Producers |-> << >>] /\ downstream = << >>
    /\ spc = "scan" /\ turn = 0 /\ moved = FALSE /\ item = Item(0, 0)
    /\ cpc = "top" /\ gave_up = FALSE
    /\ next_expected = [p \in Producers |-> 0]
    /\ received = 0 /\ corrupted = 0 /\ out_of_order = 0
    /\ got = [p \in Producers |-> << >>]

\* The deadline passes.
Deadline ==
    /\ ~expired /\ expired' = TRUE
    /\ UNCHANGED <<mode, producers, stalled, ring, sequencer, consumer>>

-----------------------------------------------------------------------------
(* The producers *)

At(p, from, to) == pc[p] = from /\ pc' = [pc EXCEPT ![p] = to]
Full(write, read) == (write - read) % W >= Capacity

\* The push of item i[p] is over, and the loop goes on.
Advance(p, from) ==
    /\ At(p, from, IF i[p] + 1 = Per THEN "end" ELSE "load")
    /\ i' = [i EXCEPT ![p] = @ + 1]

\* Broken, try_push: load the write index, ...
LoadWrite(p) ==
    /\ mode = "broken" /\ At(p, "load", "test")
    /\ w' = [w EXCEPT ![p] = write_idx]
    /\ UNCHANGED <<i, stalled, write_idx, cached_read, read_idx, cached_write, slots, todo>>

\* ... compare it with the cached read index, ...
TestFull(p) ==
    /\ At(p, "test", IF Full(w[p], cached_read) THEN "refresh" ELSE "copy")
    /\ todo' = [todo EXCEPT ![p] = Words]
    /\ UNCHANGED <<i, stalled, write_idx, cached_read, read_idx, cached_write, slots, w>>

\* ... after loading the read index into the cache if that says full: the
\* second test takes the value just loaded, or reads the cache again, ...
RefreshRead(p) ==
    /\ \E to \in {"retest", IF Full(w[p], read_idx) THEN "full" ELSE "copy"} :
          At(p, "refresh", to)
    /\ cached_read' = read_idx
    /\ UNCHANGED <<i, stalled, write_idx, read_idx, cached_write, slots, w, todo>>

\* ... which another producer may have overwritten in between, ...
RetestFull(p) ==
    /\ At(p, "retest", IF Full(w[p], cached_read) THEN "full" ELSE "copy")
    /\ UNCHANGED <<i, stalled, ring>>

\* ... copy the item into the slot, one word after the other, ...
CopyWord(p, word) ==
    /\ word \in todo[p]
    /\ At(p, "copy", IF todo[p] = {word} THEN "publish" ELSE "copy")
    /\ slots' = [slots EXCEPT ![w[p] % Capacity][word] = Item(p, i[p])[word]]
    /\ todo' = [todo EXCEPT ![p] = @ \ {word}]
    /\ UNCHANGED <<i, stalled, write_idx, cached_read, read_idx, cached_write, w>>

\* ... and store the index.
PublishWrite(p) ==
    /\ Advance(p, "publish")
    /\ write_idx' = (w[p] + 1) % W
    /\ UNCHANGED <<stalled, cached_read, read_idx, cached_write, slots, w, todo>>

Shared(p) ==
    /\ LoadWrite(p) \/ TestFull(p) \/ RefreshRead(p) \/ RetestFull(p)
       \/ PublishWrite(p) \/ \E word \in Words : CopyWord(p, word)
    /\ UNCHANGED <<mode, expired, sequencer, consumer>>

\* Fixed, try_push on the producer's own queue.
PushOwn(p) ==
    /\ mode = "fixed"
    /\ IF Len(inbound[p]) < OwnCapacity
       THEN Advance(p, "load") /\ inbound' = [inbound EXCEPT ![p] = Append(@, Item(p, i[p]))]
       ELSE At(p, "load", "full") /\ UNCHANGED <<i, inbound>>
    /\ UNCHANGED <<mode, expired, stalled, ring, downstream, spc, turn, moved, item, consumer>>

\* push_bounded tries again ...
Retry(p) ==
    /\ At(p, "full", "load")
    /\ UNCHANGED <<mode, expired, i, stalled, ring, sequencer, consumer>>

\* Mutant: the deadline is not looked at.
GiveUpNever(p) ==
    /\ expired /\ Retry(p)

\* ... or sees that the deadline has passed.  In mode "broken" the producer
\* then gives up what is left, in mode "fixed" this item.
GiveUp(p) ==
    /\ expired
    /\ IF mode = "broken"
       THEN At(p, "full", "end") /\ stalled' = stalled + Per - i[p] /\ UNCHANGED i
       ELSE Advance(p, "full") /\ stalled' = stalled + 1
    /\ UNCHANGED <<mode, expired, ring, sequencer, consumer>>

\* finished.fetch_add(1).
Finish(p) ==
    /\ At(p, "end", "done")
    /\ UNCHANGED <<mode, expired, i, stalled, ring, sequencer, consumer>>

all_finished == \A p \in Producers : pc[p] = "done"

-----------------------------------------------------------------------------
(* The sequencer thread of mode "fixed" *)

\* try_pop on the next inbound queue.
Scan ==
    /\ mode = "fixed" /\ spc = "scan" /\ turn < N
    /\ IF inbound[turn] = << >>
       THEN turn' = turn + 1 /\ UNCHANGED <<inbound, spc, moved, item>>
       ELSE /\ item' = Head(inbound[turn]) /\ inbound' = [inbound EXCEPT ![turn] = Tail(@)]
            /\ moved' = TRUE /\ spc' = "push" /\ UNCHANGED turn
    /\ UNCHANGED <<mode, expired, producers, stalled, ring, downstream, consumer>>

\* try_push on the downstream queue.
PushDown ==
    /\ spc = "push"
    /\ IF Len(downstream) < OwnCapacity
       THEN downstream' = Append(downstream, item) /\ spc' = "scan" /\ turn' = turn + 1
       ELSE spc' = "full" /\ UNCHANGED <<downstream, turn>>
    /\ UNCHANGED <<mode, expired, producers, stalled, ring, inbound, moved, item, consumer>>

RetryDown ==
    /\ spc = "full" /\ spc' = "push"
    /\ UNCHANGED <<mode, expired, producers, stalled, ring, inbound, downstream, turn, moved, item,
                   consumer>>

GiveUpDown ==
    /\ spc = "full" /\ expired
    /\ stalled' = stalled + 1 /\ spc' = "scan" /\ turn' = turn + 1
    /\ UNCHANGED <<mode, expired, producers, ring, inbound, downstream, moved, item, consumer>>

\* Mutant: the inbound queues are not looked at again.
drained_unseen == TRUE

drained == \A p \in Producers : inbound[p] = << >>

\* Another pass, unless this one moved nothing, the producers have finished
\* and, looked at after that, the inbound queues are empty.
EndOfScan ==
    /\ spc = "scan" /\ turn = N
    /\ IF moved \/ ~all_finished \/ ~drained
       THEN spc' = "scan" /\ turn' = 0
       ELSE spc' = "done" /\ turn' = turn       \* sequencer_done
    /\ moved' = FALSE
    /\ UNCHANGED <<mode, expired, producers, stalled, ring, inbound, downstream, item, consumer>>

-----------------------------------------------------------------------------
(* The consumer thread *)

\* Mutant: only a jump forward counts.
unexpected_forward(it) == it.sequence > next_expected[it.producer]

unexpected(it) == it.sequence # next_expected[it.producer]

\* Verifier::check.  The producer word is always that of some producer.
check(it) ==
    /\ received' = received + 1
    /\ IF it.checksum # checksum_for(it.producer, it.sequence)
       THEN corrupted' = corrupted + 1 /\ UNCHANGED <<out_of_order, next_expected, got>>
       ELSE /\ out_of_order' = IF unexpected(it) THEN out_of_order + 1 ELSE out_of_order
            /\ next_expected' = [next_expected EXCEPT ![it.producer] = it.sequence + 1]
            /\ got' = [got EXCEPT ![it.producer] = Append(@, it.sequence)]
            /\ UNCHANGED corrupted

\* Broken: the loop test and try_pop up to the second look at the write index.
PopShared ==
    /\ mode = "broken" /\ cpc \in {"top", "tail"}
    /\ IF received >= expected_total THEN cpc' = "done" /\ UNCHANGED cached_write
       ELSE IF read_idx # cached_write THEN cpc' = "copy" /\ UNCHANGED cached_write
       ELSE /\ cached_write' = write_idx
            /\ cpc' = IF read_idx = write_idx THEN "nothing" ELSE "copy"
    /\ UNCHANGED <<mode, expired, producers, stalled, write_idx, cached_read, read_idx, slots, w, todo,
                   sequencer, gave_up, verifier>>

\* The slot is copied and released, and the item checked.
TakeShared ==
    /\ cpc = "copy" /\ cpc' = "tail"
    /\ check(slots[read_idx % Capacity])
    /\ read_idx' = (read_idx + 1) % W
    /\ UNCHANGED <<mode, expired, producers, stalled, write_idx, cached_read, cached_write, slots, w,
                   todo, sequencer, gave_up>>

\* The deadline is looked at now and then at the end of a turn.
ConsumerGivesUp ==
    /\ mode = "broken" /\ cpc = "tail" /\ expired
    /\ cpc' = "done" /\ gave_up' = TRUE
    /\ UNCHANGED <<mode, expired, producers, stalled, ring, sequencer, verifier>>

\* Fixed: try_pop on the downstream queue.
PopDown ==
    /\ mode = "fixed" /\ cpc \in {"top", "tail"}
    /\ IF downstream = << >> THEN cpc' = "nothing" /\ UNCHANGED <<downstream, verifier>>
       ELSE /\ check(Head(downstream)) /\ downstream' = Tail(downstream)
            /\ cpc' = "tail"
    /\ UNCHANGED <<mode, expired, producers, stalled, ring, inbound, spc, turn, moved, item, gave_up>>

\* Nothing was there: the consumer is done once its sources are, and the queue
\* is still empty.
exhausted ==
    \/ mode = "broken" /\ all_finished /\ read_idx = write_idx
    \/ mode = "fixed" /\ spc = "done" /\ downstream = << >>

PopNothing ==
    /\ cpc = "nothing"
    /\ cpc' = IF exhausted THEN "done" ELSE "tail"
    /\ UNCHANGED <<mode, expired, producers, stalled, ring, sequencer, gave_up, verifier>>

-----------------------------------------------------------------------------
Producer(p) == Shared(p) \/ PushOwn(p) \/ Retry(p) \/ GiveUp(p) \/ Finish(p)
Sequencer == Scan \/ PushDown \/ RetryDown \/ GiveUpDown \/ EndOfScan
Consumer == PopShared \/ TakeShared \/ ConsumerGivesUp \/ PopDown \/ PopNothing

Next == Deadline \/ (\E p \in Producers : Producer(p)) \/ Sequencer \/ Consumer

Spec == Init /\ [][Next]_vars

\* The threads keep running and time passes; a thread that keeps finding the
\* queue full looks at the clock again and again (every 4096 spins).
FairSpec ==
    /\ Spec /\ WF_vars(Deadline) /\ WF_vars(Sequencer) /\ WF_vars(Consumer)
    /\ \A p \in Producers : WF_vars(Producer(p)) /\ SF_vars(GiveUp(p))
    /\ SF_vars(GiveUpDown)

-----------------------------------------------------------------------------
(* main, after the threads are joined *)

joined == all_finished /\ cpc = "done" /\ (mode = "fixed" => spc = "done")
lost == IF expected_total > received THEN expected_total - received ELSE 0
clean == lost = 0 /\ corrupted = 0 /\ out_of_order = 0 /\ stalled = 0 /\ ~gave_up

\* "stream intact" is never printed of a damaged stream: then every item of
\* every producer was received once and in its order, whatever was torn,
\* overwritten or read twice on the way.
VerdictSound ==
    joined /\ clean => \A p \in Producers : got[p] = [k \in 1 .. Per |-> k - 1]

\* With one owner per queue nothing is corrupted and every item is received or
\* counted as stalled, and an item is out of order only behind a stalled one:
\* a run in which no push stalls is intact.
FixedAccounts ==
    joined /\ mode = "fixed" =>
        /\ corrupted = 0 /\ received + stalled = expected_total
        /\ out_of_order <= stalled /\ (stalled = 0 => clean)

\* "Livelock is one of the failure modes being shown; hanging is not"
\* (spsc_race_demo.cpp:35-36): the program ends in both modes.
Ends == <>joined
=============================================================================
