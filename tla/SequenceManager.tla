-------------------------- MODULE SequenceManager --------------------------
(***************************************************************************)
(* The sequencer of the market-data handler                                *)
(* (src/market_data/sequence_manager.cpp): a reorder buffer of N slots     *)
(* that turns the multicast feed into an in-order stream and fills holes   *)
(* with retransmissions.  A message is its sequence number.                *)
(*                                                                         *)
(* accept() blocks in RecoveryClient::request while it recovers a gap, so  *)
(* it is split there: Accept runs up to the first request, Reply and       *)
(* RequestFails are the answers (the answer itself is external to this     *)
(* module), and the last of them finishes recover_range.  While a request  *)
(* is outstanding the single-threaded caller can do nothing else.          *)
(***************************************************************************)
EXTENDS Integers, FiniteSets

CONSTANTS
    N,              \* buffer_.size(), the --reorder argument
    KBatch,         \* kMaxRecoveryBatch
    FirstSeq,       \* lowest sequence number on the feed
    MaxSeq,         \* bound: highest sequence number on the feed
    MaxAccepts      \* bound: calls of accept

ASSUME SequencerAssumption ==
    /\ N \in Nat \ {0} /\ KBatch \in Nat \ {0}
    /\ FirstSeq \in Nat /\ MaxSeq \in Nat /\ MaxAccepts \in Nat

VARIABLES
    buffer,     \* slot -> [state, seq]
    expected, started,
    recovery,   \* recovery_ # nullptr
    range,      \* recover_range's from, to and start while a request is out
    stats,
    first,      \* history: the sequence number that set expected_ (0 before)
    last        \* history: the last sequence number delivered (-1 before)

vars == <<buffer, expected, started, recovery, range, stats, first, last>>

Seqs == FirstSeq .. MaxSeq
Slots == 0 .. N - 1
SlotState == {"Empty", "Filled", "Skipped"}
NoRange == [from |-> 1, to |-> 0, start |-> 1]
Recovering == range # NoRange

Counters == {"accepted", "delivered", "duplicates", "gaps_detected", "missing_messages",
             "recovery_requests", "messages_recovered", "unrecoverable",
             "reorder_overflows"}

Init ==
    /\ buffer = [k \in Slots |-> [state |-> "Empty", seq |-> 0]]
    /\ expected = 0 /\ started = FALSE
    /\ recovery \in BOOLEAN
    /\ range = NoRange
    /\ stats = [c \in Counters |-> 0]
    /\ first = 0 /\ last = -1

-----------------------------------------------------------------------------
(* Helpers on a buffer b and an expected sequence e. *)

State(b, s) == b[s % N].state
Store(b, s) == [b EXCEPT ![s % N] = [state |-> "Filled", seq |-> s]]
\* Mutant: a window one too wide.
InWindowWide(s, e) == s >= e /\ s - e <= N

InWindow(s, e) == s >= e /\ s - e < N

\* Mutant: messages already held are taken again.
FreshHeld(b, e, msgs) == {s \in msgs : InWindow(s, e)}

\* What a reply adds: its messages that lie in the window and are not yet held.
Fresh(b, e, msgs) == {s \in msgs : InWindow(s, e) /\ State(b, s) # "Filled"}
Fill(b, e, msgs) ==
    [k \in Slots |->
        IF \E s \in Fresh(b, e, msgs) : s % N = k
        THEN [state |-> "Filled", seq |-> CHOOSE s \in Fresh(b, e, msgs) : s % N = k]
        ELSE b[k]]

\* The tail of recover_range: whatever is still missing in from..to is skipped.
Missing(b, from, to) == {s \in from .. to : State(b, s) = "Empty"}
Skip(b, from, to) ==
    [k \in Slots |->
        IF \E s \in Missing(b, from, to) : s % N = k
        THEN [b[k] EXCEPT !.state = "Skipped"] ELSE b[k]]

\* Counters incremented as a set of pairs <<counter, by>>.
Count(st, incs) ==
    [c \in Counters |-> IF \E i \in incs : i[1] = c
                        THEN st[c] + (CHOOSE i \in incs : i[1] = c)[2] ELSE st[c]]

-----------------------------------------------------------------------------
(* accept *)

\* sequence < expected_: counted and dropped.
AcceptStale(s, e) ==
    /\ s < e
    /\ stats' = Count(stats, {<<"accepted", 1>>, <<"duplicates", 1>>})
    /\ expected' = e
    /\ UNCHANGED <<buffer, range>>

\* Mutant: the slots are not emptied.
AcceptOverflowKept(s, e) ==
    /\ s >= e /\ s - e >= N
    /\ stats' = Count(stats, {<<"accepted", 1>>, <<"reorder_overflows", 1>>,
                              <<"unrecoverable", s - e>>})
    /\ buffer' = Store(buffer, s)
    /\ expected' = s
    /\ UNCHANGED range

\* Beyond the window: drop the whole buffer and resynchronize on s.
AcceptOverflow(s, e) ==
    /\ s >= e /\ s - e >= N
    /\ stats' = Count(stats, {<<"accepted", 1>>, <<"reorder_overflows", 1>>,
                              <<"unrecoverable", s - e>>})
    /\ buffer' = Store([k \in Slots |-> [buffer[k] EXCEPT !.state = "Empty"]], s)
    /\ expected' = s
    /\ UNCHANGED range

\* In the window: store, then recover what lies between when the slot of
\* expected_ is empty.
AcceptInWindow(s, e) ==
    LET gap == s > e /\ State(buffer, e) = "Empty"
        held == State(buffer, s) = "Filled"
        stored == IF held THEN buffer ELSE Store(buffer, s)
        dup == {<<"accepted", 1>>} \cup IF held THEN {<<"duplicates", 1>>} ELSE {}
        found == {<<"gaps_detected", 1>>, <<"missing_messages", s - e>>}
    IN  /\ InWindow(s, e)
        /\ expected' = e
        /\ \/ /\ ~gap
              /\ buffer' = stored
              /\ stats' = Count(stats, dup)
              /\ UNCHANGED range
           \/ /\ gap /\ recovery
              /\ buffer' = stored
              /\ range' = [from |-> e, to |-> s - 1, start |-> e]
              /\ stats' = Count(stats, dup \cup found \cup {<<"recovery_requests", 1>>})
           \/ /\ gap /\ ~recovery
              /\ buffer' = Skip(stored, e, s - 1)
              /\ stats' = Count(stats, dup \cup found \cup
                     {<<"unrecoverable", Cardinality(Missing(stored, e, s - 1))>>})
              /\ UNCHANGED range

Accept(s) ==
    LET e == IF started THEN expected ELSE s
    IN  /\ ~Recovering
        /\ stats["accepted"] < MaxAccepts
        /\ AcceptStale(s, e) \/ AcceptOverflow(s, e) \/ AcceptInWindow(s, e)
        /\ started' = TRUE
        /\ first' = IF started THEN first ELSE s
        /\ UNCHANGED <<recovery, last>>

-----------------------------------------------------------------------------
(* recover_range, from the first request on *)

\* The last sequence number of the outstanding request.
End == IF range.start + KBatch - 1 < range.to THEN range.start + KBatch - 1 ELSE range.to

\* Mutant: what was skipped is not counted.
FinishUncounted(b, incs) ==
    /\ buffer' = Skip(b, range.from, range.to)
    /\ stats' = Count(stats, incs)
    /\ range' = NoRange

\* Mutant: what the chunks before the failed one did not bring is not skipped.
FinishLastChunk(b, incs) ==
    /\ buffer' = Skip(b, range.start, range.to)
    /\ stats' = Count(stats, incs \cup
           {<<"unrecoverable", Cardinality(Missing(b, range.start, range.to))>>})
    /\ range' = NoRange

\* Leaving the loop: skip what is still empty in b and return.
Finish(b, incs) ==
    /\ buffer' = Skip(b, range.from, range.to)
    /\ stats' = Count(stats, incs \cup
           {<<"unrecoverable", Cardinality(Missing(b, range.from, range.to))>>})
    /\ range' = NoRange

\* Mutant: a last chunk of one message is never requested.
ReplyShort(msgs) ==
    LET filled == Fill(buffer, expected, msgs)
        got == {<<"messages_recovered", Cardinality(Fresh(buffer, expected, msgs))>>}
    IN  /\ Recovering
        /\ IF range.start + KBatch < range.to
           THEN /\ buffer' = filled
                /\ stats' = Count(stats, got \cup {<<"recovery_requests", 1>>})
                /\ range' = [range EXCEPT !.start = @ + KBatch]
           ELSE Finish(filled, got)
        /\ UNCHANGED <<expected, started, recovery, first, last>>

\* request() returns true with the messages msgs: take them, then go on to the
\* next chunk or leave the loop.
Reply(msgs) ==
    LET filled == Fill(buffer, expected, msgs)
        got == {<<"messages_recovered", Cardinality(Fresh(buffer, expected, msgs))>>}
    IN  /\ Recovering
        /\ IF range.start + KBatch <= range.to
           THEN /\ buffer' = filled
                /\ stats' = Count(stats, got \cup {<<"recovery_requests", 1>>})
                /\ range' = [range EXCEPT !.start = @ + KBatch]
           ELSE Finish(filled, got)
        /\ UNCHANGED <<expected, started, recovery, first, last>>

\* request() returns false: leave the loop.
RequestFails ==
    /\ Recovering
    /\ Finish(buffer, {})
    /\ UNCHANGED <<expected, started, recovery, first, last>>

-----------------------------------------------------------------------------
(* next_deliverable *)

\* The slots it passes over before it meets one that is not skipped (a buffer
\* of nothing but skipped slots is emptied all round).
Skips(n) ==
    /\ \A j \in 0 .. n - 1 : State(buffer, expected + j) = "Skipped"
    /\ n = N \/ State(buffer, expected + n) # "Skipped"

\* Mutant: a delivered slot is not emptied.
EmptiedNot(n) == buffer

Emptied(n) == [k \in Slots |->
    IF \E j \in 0 .. n - 1 : (expected + j) % N = k
    THEN [buffer[k] EXCEPT !.state = "Empty"] ELSE buffer[k]]

\* Returns true: the slot after the skipped ones is filled.
Deliver(n) ==
    /\ started /\ ~Recovering
    /\ Skips(n) /\ n < N /\ State(buffer, expected + n) = "Filled"
    /\ buffer' = Emptied(n + 1)
    /\ expected' = expected + n + 1
    /\ stats' = Count(stats, {<<"delivered", 1>>})
    /\ last' = buffer[(expected + n) % N].seq
    /\ UNCHANGED <<started, recovery, range, first>>

\* Returns false: the slot after the skipped ones is empty.
NothingToDeliver(n) ==
    /\ started /\ ~Recovering
    /\ Skips(n) /\ (n = N \/ State(buffer, expected + n) = "Empty")
    /\ buffer' = Emptied(n)
    /\ expected' = expected + n
    /\ UNCHANGED <<started, recovery, range, stats, first, last>>

next_deliverable == \E n \in 0 .. N : Deliver(n) \/ NothingToDeliver(n)

-----------------------------------------------------------------------------
\* The exchange answers with what its history holds of the requested chunk.
Next ==
    \/ \E s \in Seqs : Accept(s)
    \/ \E msgs \in SUBSET (range.start .. End) : Reply(msgs)
    \/ RequestFails
    \/ next_deliverable

Spec == Init /\ [][Next]_vars

-----------------------------------------------------------------------------
Window == expected .. expected + N - 1
Filled == {s \in Window : State(buffer, s) = "Filled"}
Skipped == {s \in Window : State(buffer, s) = "Skipped"}

\* Every filled slot holds a number of the window from e on that maps to it.
Placed(b, e) ==
    \A k \in Slots : b[k].state = "Filled" =>
        b[k].seq >= e /\ b[k].seq < e + N /\ b[k].seq % N = k

\* The inductive invariant: types, placement, nothing held before the first
\* message, everything delivered lies before expected_, and a recovery under way
\* begins at expected_.
SeqInv ==
    /\ buffer \in [Slots -> [state : SlotState, seq : Nat]]
    /\ expected \in Nat /\ started \in BOOLEAN /\ last \in Nat \cup {-1}
    /\ range \in [from : Nat, to : Nat, start : Nat]
    /\ Placed(buffer, expected)
    /\ last < expected
    /\ ~started => ~Recovering /\ last = -1 /\ \A k \in Slots : buffer[k].state = "Empty"
    /\ Recovering => range.from = expected /\ range.from <= range.to

\* A filled slot holds the one sequence number of the current window that maps
\* to it: slot reuse modulo N never leaves an old message behind, whatever was
\* stored, recovered, skipped, dropped by an overflow and delivered before.
SlotsHoldTheirWindow == \A s \in Filled : buffer[s % N].seq = s

\* Each next_deliverable that returns a message returns the one numbered
\* expected_ once the skipped numbers are passed, a number higher than any it
\* returned before: in order, exactly once, and never a stale slot.
InOrderOnce ==
    [][ stats'["delivered"] # stats["delivered"] =>
            last' = expected' - 1 /\ last' >= expected /\ last' > last ]_vars

\* Every sequence number the stream has moved past since the first message was
\* either delivered or counted as unrecoverable; the ones marked skipped are
\* counted before they are passed.
NoSilentLoss ==
    stats["delivered"] + stats["unrecoverable"] >=
        (expected - first) + Cardinality(Skipped)

\* Messages are conserved: what was accepted or recovered was delivered,
\* dropped as a duplicate, is still held, or was discarded by an overflow.
Conservation ==
    LET into == stats["accepted"] + stats["messages_recovered"]
        outof == stats["delivered"] + stats["duplicates"] + Cardinality(Filled)
    IN  into >= outof /\ (stats["reorder_overflows"] = 0 => into = outof)

\* What a step leaves of the gap from .. to: no number of it is empty, the message
\* behind it is held, and the numbers given up in this step are counted, each once.
Settled(from, to) ==
    /\ \A s \in from .. to : State(buffer', s) # "Empty"
    /\ State(buffer', to + 1) = "Filled"
    /\ stats'["unrecoverable"] = stats["unrecoverable"] +
           Cardinality({s \in from .. to : State(buffer', s) = "Skipped"
                                          /\ State(buffer, s) # "Skipped"})

Missed == stats'["missing_messages"] - stats["missing_messages"]

\* When accept() is done with a gap, after any number of chunks that came complete,
\* short or not at all, or at once without a recovery client, all of the gap is
\* settled: nothing stalls before the message that revealed it, and what is given
\* up is counted as unrecoverable exactly once.
GapSettled ==
    [][ /\ Recovering /\ ~Recovering' => Settled(range.from, range.to)
        /\ ~Recovering /\ ~Recovering' /\ Missed > 0 =>
               Settled(expected', expected' + Missed - 1) ]_vars
=============================================================================
