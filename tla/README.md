# Verification of the low-latency trading engine

TLA+ models of the feed pipeline in `src/`, checked with TLC on small instances,
and proofs checked with TLAPS. `PROJECT.json` lists the runs, the source lines each
definition stands for, the hazards and the findings.

## The system

Three processes. The **exchange** numbers messages, keeps the last ones in a history
ring, batches them into multicast packets (some deliberately dropped) and answers
retransmission requests over TCP from a server thread. The **market-data handler**
receives packets, puts the messages through a sequencer that reorders them and
recovers gaps synchronously over TCP, and pushes the in-order stream into a
single-producer single-consumer ring in shared memory. The **engine** pops the ring
and applies each message to a preallocated order book.

| Part | Source | Module | State and actions |
| --- | --- | --- | --- |
| SPSC ring | `include/llte/spsc_queue.hpp` | `SpscQueue`, abstract `BoundedFifo`, proofs `SpscQueueProofs`, `RingArithmetic` | the two atomics, the two cached indices, the slots; `try_push` and `try_pop` are four steps each, split at every access to shared memory |
| Sequencer | `market_data/sequence_manager.cpp` | `SequenceManager`, proofs `SequenceManagerProofs`, `LedgerProofs` | slots, `expected_`, all counters; `Accept` up to the first request, `Reply`/`RequestFails` for its outcome, `Deliver`/`NothingToDeliver` for `next_deliverable` |
| History | `exchange/recovery_server.cpp` | `HistoryStore`, proofs in `RecoveryServiceProofs` and `RingArithmetic` | `append` and `fetch`, each under the mutex |
| Recovery server and client | `exchange/recovery_server.cpp`, `market_data/recovery_client.cpp` | `RecoveryService`, proofs `RecoveryServiceProofs` | server thread, `stop()`, clients, frames on the connection; every blocking call has its success, close and timeout outcomes |
| Order-id table | `orderbook/order_book.cpp` | `OrderIndex` (operators) | linear probing and backward-shift deletion; `MCOrderIndex` drives it |
| Order book | `orderbook/order_book.cpp` | `OrderBook`, abstract `AbstractBook` over `PriceTimeQueues` | the whole object as one record; one action per public operation |
| Exchange, network, handler and engine loops | `exchange/exchange_simulator.cpp`, `market_data/market_data_handler.cpp`, `orderbook/order_book_engine.cpp`, `market_data/multicast_receiver.cpp` | `Pipeline`, abstract `LossyFeed`, proofs `PipelineProofs` | composes `SequenceManager` and `HistoryStore` with the three loops, the receive timeouts and the counters |
| Order flow and the two books | `exchange/exchange_simulator.cpp`, `orderbook/order_book_engine.cpp` | `OrderFlow` over `PriceTimeQueues`, proofs `OrderFlowProofs` | two abstract books and a `LossyFeed` between them: every kind of message the exchange invents, its vector of live orders, the engine's dispatch and results |
| Shared-memory channel, start and end of handler and engine | `ipc/shared_memory_queue.cpp`, `scripts/run_pipeline.sh` | `ShmChannel`, proofs `ShmChannelProofs` | the name, the segments, one step per system call of `create` and `attach`; kills and failures anywhere |
| Two-producer demonstration | `tools/spsc_race_demo.cpp` | `RaceDemo` | `broken`: producers share one ring, items are copied word by word; `fixed`: a queue per producer and a sequencer thread; the verifier and the verdict |

The pieces fit together as follows. `SpscQueue` implements `BoundedFifo`, and `Pipeline`
and the fixed mode of `RaceDemo` use the ring as that FIFO. `Pipeline` takes an answer to
a request as `RecoveryService` shows it: the history's content at one moment of the
request, or a failure after which the connection stays closed. `Pipeline` implements
`LossyFeed`, `OrderBook` implements `AbstractBook`, and `OrderFlow` relates the exchange's
book to the engine's over exactly these two abstractions: `PriceTimeQueues` defines what each
operation makes of an abstract book and returns, `AbstractBook` is the machine that takes such
steps, and `OrderFlow` applies the same operators to its two books.

## Abstractions

* A message is its sequence number; payloads, timestamps and logging are left out.
  In the book models an order has id, side, price and quantity, and `OrderFlow` keeps
  these fields of a message. Random draws are free choices.
* An acquire load of a ring index returns any value between the last one this thread
  saw and the latest stored. Index counters count modulo `W`, a multiple of
  `Capacity` (2^64 in the code).
* So a `try_push` or `try_pop` may also fail on an old load. `BoundedFifo` lets any attempt
  fail; in `Pipeline` a `try_pop` may fail on a ring that is not empty, and a push may be
  given up on a signal on a ring that only looks full. A failed attempt that is simply
  repeated is no step of its own. The fixed mode of `RaceDemo` fails a try only on a full or
  an empty queue: its loops repeat the try and look again before they end.
* The hash `mix` is an arbitrary function. `order_index` checks all of them.
* TCP is external: whole frames in order; a receive gets a frame, sees the close, or
  times out. Partial reads are loops in `read_exact`/`write_exact` and are one step.
  A send that blocks for two seconds is modelled only towards a closed peer: the
  client is always reading when the server writes.
* The network keeps a packet for another delivery or not, in any order; a packet
  that is never received is lost. A silent feed is counted in receive timeouts of
  50 ms (`MaxIdle`), as the handler does when it compares with `--idle-ms`.
* Both books of `OrderFlow` have one price band. The engine's `--min-price` and `--max-price`
  are options of their own; their defaults are the exchange's constants
  (`order_book_engine.cpp:55-56`, `exchange_simulator.cpp:26-27`), and `run_pipeline.sh` leaves
  them so. That the engine never counts a message as out of band rests on this.
* `append` and `fetch` hold the history's mutex from end to end and are one step each: no
  torn copy is possible by construction, and none is looked for.
* A free pool slot and an empty table slot keep stale fields in the code that are
  never read; the model clears them.
* In the broken mode of `RaceDemo` the program has data races. Index accesses are
  sequentially consistent and each is a step; the second test of `try_push` uses the index
  it has just loaded or reads the shared `cached_read_idx_` again, which another producer
  may have changed (a compiler may do either). The three words of an item are
  written in any order, and the consumer reads a slot in one step: every lost, repeated,
  overwritten or torn item the verifier distinguishes can happen. Untouched slots are
  zero bytes. The checksum does not collide on the items of the instance.

## Runs

| Run | Instance | Shows |
| --- | --- | --- |
| `spsc_queue` | capacity 4, counters mod 8, 2 values | the inductive invariant, `NeverOverfull`, `NoSlotRace`, refinement of the bounded FIFO, every published entry is popped. The counters wrap after two laps, and stale indices can be a full lap old |
| `sequencer` | window 5, chunks of 2, numbers 1..12, 5 arrivals, with and without a recovery client | the inductive invariant, no stale slot, in-order delivery once, accounting of losses, conservation, every gap settled: each of its numbers is held or marked, each new mark is counted once, and the message behind the gap is held. Numbers span three laps of the window and a gap takes up to two requests, either of which may fail or be short |
| `order_index` | 4 ids, 8 positions, 3 live keys, all 4096 hash functions | lookup finds exactly what is held, and no key is held twice |
| `order_book` | 4 ids, 3 pool slots, 3 prices, a colliding hash | best levels, pool partition, table against pool. Three orders leave two candidates when the best level empties; a fourth meets the exhausted pool |
| `book_refines` | 3 ids, 2 pool slots, 2 prices, quantities up to 2 | level totals and list structure; refinement of one FIFO per side and price. Two prices let an amendment move an order to another level or shrink it in place, a third id meets the exhausted pool. The hash does not collide here. Unlinking from the middle of a queue takes three orders, which `order_book` has: a slip in the links there loses or repeats a slot, now or at a later removal, and breaks `PoolPartitioned` |
| `recovery_service` | 2 clients of which 1 makes requests, history 2, batches of 2, numbers 1..3 | history window, answers match requests, a short answer means the rest aged out, `stop()` returns, `request()` returns. The second client is the one that holds the only server thread |
| `pipeline` | packets of 2, window 4, history 2, numbers 1..5, ring of 1, `--expect 4`, idle limit 2 | empty buffer between packets, losses only after ageing out, `produced_count`, no event left behind at exit, refinement of `LossyFeed`, handler and engine end |
| `order_flow` | 2 prices a side, lots 10 and 20, pools of 2, 5 messages, lag 2 | the exchange's two records of an order agree, the engine's book equals the exchange's without loss, a lost message harms its own order only, the engine's rejection counters are right. Five messages leave room for add, partial fill, amendment, cancel and a refused add |
| `race_demo` | 2 producers of 2 items, a shared ring of 2 or queues of 1 that all fill | "stream intact" is printed of an intact stream only, the fixed design accounts for every item, the program ends |
| `channel` | 3 runs of the script, 2 events each | an engine only gets its own run's segment, fully constructed; the name stays while the handler has it; the engine ends after the handler, or has attached to what a killed or failed handler left behind, has taken all of it and polls |
| `idle_hangup` | 1 client, history 2 | violation, finding 2 |
| `overflow` | window 3, packets of 2 | violation, finding 1 |

Each property of a passing run has a mutant in `PROJECT.json`: an operator beside the
definition it changes (marked `Mutant`) that a plausible slip in the code would
give, and that violates the property. `Next` never uses it.

Bounds: `MaxSeq`, `MaxAccepts`, `MaxPackets`, `MaxMessages`, `MaxQuantity`, `MaxRuns` and
`MaxEvents` cap what would grow without limit; `MaxLag` caps the messages between exchange
and engine, `Requesters` the clients that make requests. Deadlock is not checked where all
processes may have ended or the bounded input is used up.

### Fairness

* Ring: the engine polls in a loop (weak fairness of the consumer), a store becomes
  visible to a thread that keeps loading (strong fairness of the load that returns the
  latest index), and a producer inside `try_push` finishes it.
* Recovery: the server thread and a client inside `request()` keep running, because
  every blocking call has a timeout (100 ms for accept, 2 s for receive). Nothing is
  assumed of clients between requests.
* Pipeline: handler and engine keep running; the exchange and the signals are not
  fair. `HandlerEnds` excepts what the code does not promise: a handler that never
  published anything waits for ever (the idle countdown starts with the first event), and
  one that spins on a full ring after the engine was stopped waits for its signal. `Pop` is
  strongly fair, as for the ring: an engine that keeps loading sees what was stored.
* Channel: handler and engine keep running, and the give-up of `attach` is strongly fair
  because its deadline is tested in every round of the wait.
* Race demonstration: all threads run and the deadline passes. Giving up is strongly fair:
  a spinning producer tests the deadline whenever `spins % 4096 == 0`, which recurs.

## Findings

1. **A resynchronization throws away deliverable messages** (`overflow`).
   `accept` resynchronizes when `sequence - expected_ >= buffer_.size()`, but the
   handler accepts a whole packet before it drains. With window 3, packet 5,6 after
   1,2: accepting 5 recovers 3 and 4; accepting 6 empties the buffer that holds 3, 4, 5
   and counts them unrecoverable. The comment says the hole is wider than
   anything the buffer could hold. With the default window of 65536 it takes a gap
   just short of the window. Without recovery the numbers 3 and 4 are counted
   unrecoverable twice, once when they are skipped and once by the resynchronization;
   this is one reason why `NoSilentLoss` is an inequality. The other: a late message that
   arrives after its number was marked, and before the stream has passed the mark, takes the
   mark's slot and is delivered, although it was counted. That a gap's numbers are counted
   once each when the gap is dealt with is `GapSettled`.
2. **The server hangs up on an idle client** (`idle_hangup`). Two seconds without a
   gap end `serve_connection`; the client never reconnects, so from its next request
   on nothing is recovered. The comment says the client keeps one connection open.

Observed and not counted as findings: messages before the first one received are
not missed by anyone (`expected_` starts there), nor is a lost tail; an amendment with
unchanged price and quantity loses time priority, which the comment on `modify` leaves
open; a handler whose start-up fails after the segment is published never sets
`producer_done`, so an engine that attached polls for ever; `produced_count` counts an
event whose push was given up on a signal.

## Proofs

All proofs hold for every value of the constants that satisfies the modules' named
assumptions: positive sizes (`HistoryAssumption`, `SequencerAssumption`,
`PipelineAssumption`), `Nobody` not a client, for the ring `SpscAssumption` (`W` a larger
multiple of `Capacity`, `Zero` not a value), for the order flow `FlowAssumption` (the
prices of `price_for` lie in the band, lots are positive multiples of ten up to 200, as
`lot(rng) * 10` draws them, pools are not empty) and for the channel `ChannelAssumption`.
`RingArithmetic` holds what several proofs share: lemmas on remainders with a symbolic divisor
(`DivMod`, `ModUnique` and what follows from them) and what storing the next number does
to a ring of retained numbers (`NextNumber`).

**The ring** (`SpscQueueProofs`). `IndInvariant`: `Spec => []IndInv`, and from it
`TypeCorrect`, `NeverOverfullHolds` and `NoSlotRaceHolds`; `Refinement`:
`Spec => ImplementsFifo`. Neither safety property is inductive: a producer past its test must
know that the space it saw is still there. `IndInv` says that going round the counters
one meets `cached_read_idx_`, `read_idx_`, `cached_write_idx_`, `write_idx_` in this order
within `Capacity`, what each program counter has established, and that a copied slot stays
as copied until it is published. For the refinement, `PushPublish` appends to the abstract
queue, `PopPublish` removes its head and every other step stutters.

**The sequencer** (`SequenceManagerProofs`). `SequencerInvariant`, and from it `NoStaleSlot` and
`DeliveredInOrder`. `SeqInv` says that a filled slot holds a number of
the window `expected_ .. expected_ + N - 1` in that number's own slot, that `last` is below
`expected_`, that nothing is held before the first message, and that a gap under recovery
begins at `expected_`. Two numbers of one window never share a slot
(`OwnSlot`), which is what makes a slot's number determined by its position. An answer may
be any set of numbers: `Fill` ignores what is not in the window.

**The sequencer's accounts** (`LedgerProofs`). `LedgerInvariant`, and from it
`NeverSilentLoss`: `Spec => []NoSilentLoss` and `MessagesConserved`: `Spec => []Conservation`. Both
count the numbers of the window whose slot is filled or marked as skipped. The counting lemmas
say what each helper does to these two counts: `Store` adds one filled number (`StoreCounts`),
`Fill` as many as it reports (`FillCounts`), marking turns empty numbers into skipped ones
(`SkipCounts`), delivery passes a run of marks and one filled number (`PassCounts`), `Clear`
leaves none. Each step then posts amounts to the counters and to the counts at once
(`Tally`, `Posts`). The properties are not inductive alone: `LedgerInv` adds that a gap under
recovery ends inside the window, so that no number outside it is counted as skipped, and that
`expected_` is zero before the first message. It rests on `SeqInv`, which says that two
numbers of the window never share a slot. `GapAlwaysSettled`: `Spec => GapSettled` needs one
invariant more (`Revealed`): while a gap is under recovery the message that revealed it stays
held, since an answer fills empty slots of the window only. When the last request has
returned, marking leaves no number of the gap empty and counts what it marks
(`FinishSettles`); without a recovery client this happens in `accept` itself
(`AcceptSettles`).

**History and retransmission protocol** (`RecoveryServiceProofs`). `append` keeps the retained window in place (`AppendKeeps`) and
`fetch` returns exactly what is retained of a range (`FetchExact`); the service and the
pipeline both rest on these two lemmas. For the protocol, `RecoveryInvariant`, and from it `WindowAlwaysIntact`,
`AnswersAlwaysMatch` and `ShortAlwaysMeansAgedOut`. A frame carries no request number, so
that an answer belongs to the request that returns it rests on the order of events alone.
The invariant gives the phases of a connection the client keeps open (no request,
request sent, fetched, header sent, both frames sent, ...): at most one request and its
answer are under way, and between requests nothing is. A `Good` answer is part of the
range asked for and leaves out only what was not published yet or has aged out; it stays
good, because messages only leave the window. A failed request closes the connection,
so no late frame is ever read. One lemma per step; a step touches one connection, and
`OthersKeep` covers all others.

**From end to end** (`PipelineProofs`). `FeedInvariant`, then `FeedRefinement`:
`PipelineSpec => ImplementsFeed`, `NothingLeftBehind`: `PipelineSpec => []EngineDrainsAll`, and
`CountsAlwaysAgree`: `PipelineSpec => []CountsAgree`.
The sequencer's lemmas are used as they stand, with the packets and the history's answers
as inputs. `FeedInv` adds that every number on the wire, in the reorder buffer or in an
answer was given out by the exchange, and that what is taken, what waits in the ring and
the event being pushed ascend in this order. `Publish` maps to a new message, `Pop` to a
take, every other step stutters. For the engine's end `DrainInv` adds that what entered
the ring is what was taken followed by what waits in it, and that once `producer_done` was
loaded nothing enters any more. `CountInv` says that the handler's count falls apart from the
number of events that entered only after a signal; with `DrainInv` it gives the engine's
count at its end.

**What is lost** (`PipelineProofs`). `BufferDrained`: `PipelineSpec => []DrainedClean`, and
`LossOnlyByAge`: `PipelineSpec => []LostOnlyIfAgedOut`. A packet is a run of consecutive
numbers, so while it is accepted the window is held without a hole up to some number and
empty beyond it (`Front`), except during a recovery, when only the message that revealed
the gap is held beyond it (`Hole`); the lemmas on `accept` and on an answer are in
`SequenceManagerProofs`. Draining takes all of a `Front`, so the buffer is empty (`Clean`)
before the next receive. For the loss, `LossInv` adds that a skipped mark stands for a
message older than the history, and so does a number of the gap that its chunk did not
bring: a gap lies below a published number, and the exchange retains a message before it
sends it, so `FetchExact` says what is missing from an answer has aged out. The premise of
the property (connected, no overflow, no signal) never becomes true again once it is
false (`SteadyStep`).

**The order flow and the two books** (`OrderFlowProofs`). `FlowInvariant`, and from it
`LiveAlwaysMatchesBook`, `BooksAlwaysAgree`, `LossAlwaysIsolated` and `RejectionsAlwaysExplained`.
The three last properties speak of an engine that has caught up or of the message it takes
next, and between two such moments the exchange moves on. `FlowInv` bridges the distance by
`Replay`: there are books, one per message under way, of which the last is the exchange's
book now, each follows from the one before by dispatching the message between them, and the
engine's book agrees with the first on all orders but those with a lost message or a refused
one. When the engine takes the n-th message the first n books are dropped; that the messages
skipped over concern only their own orders is `SameRest`, agreement on the orders outside a set
and on the priority among them. The lemmas below it say for each operation of
`PriceTimeQueues` which orders and which pairs in priority it changes (`Orders` and `Ahead` of the
result), and that the same operation on two books that agree outside a set leaves them so.
`IdsFresh` is needed for the counters: an id is new until its `Add` is published and the `Add`
arrives before anything else of that order, so no message is a duplicate.

**The channel** (`ShmChannelProofs`). `ChannelInvariant`, and from it `AlwaysAttachesToOwnRun`,
`AttachedAlwaysConstructed` and `AlwaysReachableWhileOpen`. `ChannelInv` says that the name leads
nowhere or to the segment of the present run, which is what the script's `rm` buys before it
starts the two processes (without it an engine could open a left-over segment before `create`
unlinks it), that `ready` is the last flag of a segment to be set and is never taken back, and
which flags the handler's position vouches for. Kills and failed calls leave the segment as it is.

The inductive invariants `IndInv` and `SeqInv` are also checked by the runs `spsc_queue` and
`sequencer`. `FlowInv` quantifies over sequences of books and is out of TLC's reach; what it
implies is checked by `order_flow`.

Only model-checked: all liveness properties (out of the prover's reach); the order-id table,
whose deletion folds a step over the probe sequence, so that what it computes is an
induction over data (`FindsExactlyTheHeld`), and with it the book and its refinement (`BestLevelsCorrect`, `PoolPartitioned`, `IndexMatchesPool`, `LevelsConsistent`,
`ImplementsBook`); the race demonstration (`VerdictSound`, `FixedAccounts`).

## Not modelled, and the plan

1. Proofs for the order book: the free list and the pool, the table against the pool, the
   levels; then its refinement of `AbstractBook`. They need the fold of the table's deletion as
   a function of the probe distance, with an invariant of its steps.
2. Proofs for the fixed mode of the race demonstration.
3. The percentile function of `latency_stats.hpp`, which runs after the loop has ended and
   feeds a report only, and the mutex queue of the benchmark.

Left out for good: socket set-up, argument parsing, clocks, CPU pinning, the build and
analysis scripts (`run_pipeline.sh` is part of `ShmChannel`), the measuring parts of the
benchmarks. They hold no state a property is about.
