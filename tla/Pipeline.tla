------------------------------ MODULE Pipeline ------------------------------
(***************************************************************************)
(* The three processes together: the exchange's publishing loop            *)
(* (src/exchange/exchange_simulator.cpp), the multicast network, the       *)
(* handler's main loop with its sequencer                                  *)
(* (src/market_data/market_data_handler.cpp), the shared-memory ring and   *)
(* the engine's main loop (src/orderbook/order_book_engine.cpp).           *)
(*                                                                         *)
(* The ring is the bounded FIFO that module SpscQueue implements, and a    *)
(* retransmission request is answered as module RecoveryService shows: by  *)
(* what the history retains at one moment of the request, or not at all,   *)
(* after which the connection stays closed.                                *)
(***************************************************************************)
EXTENDS SequenceManager, HistoryStore, Sequences

CONSTANTS
    Batch,          \* --batch, messages in a full packet
    Capacity,       \* entries in the ring
    Expect,         \* --expect, 0 when not given
    MaxIdle,        \* --idle-ms in receive timeouts of 50 ms
    MaxPackets      \* bound: packets the handler receives

ASSUME PipelineAssumption ==
    /\ Batch \in Nat \ {0} /\ Capacity \in Nat \ {0}
    /\ Expect \in Nat /\ MaxIdle \in Nat \ {0} /\ MaxPackets \in Nat
    /\ FirstSeq > 0 /\ MaxAccepts >= MaxPackets * Batch

VARIABLES
    sent,           \* exchange: last sequence number put in a packet
    open,           \* exchange: still in its publishing loop
    wire,           \* packets on the network
    connected,      \* handler: recovery_.fd_ >= 0
    hpc,            \* handler: where it is in its loop
    packet,         \* handler: what is left of the packet it processes
    packets,        \* handler: packets_received
    idle,           \* handler: idle_elapsed_ms, in timeouts
    event,          \* handler: the event it is pushing
    published,      \* handler: published
    shm,            \* entries of the ring, oldest first
    epc,            \* engine: where it is in its loop
    stop,           \* process -> g_stop
    pushed, popped  \* history: what entered the ring and what the engine took,
                    \* in order

exchange == <<history, sent, open>>
sequencer == vars
handler == <<connected, hpc, packet, packets, idle, event, published, pushed>>
engine == <<epc, popped>>
allVars == <<exchange, wire, sequencer, handler, shm, engine, stop>>

NoPacket == [lo |-> 1, hi |-> 0]

PipelineInit ==
    /\ Init /\ HistoryInit
    /\ sent = FirstSeq - 1 /\ open = TRUE /\ wire = {}
    /\ connected = recovery
    /\ hpc = "top" /\ packet = NoPacket /\ packets = 0 /\ idle = 0
    /\ event = 0 /\ published = 0
    /\ shm = << >> /\ epc = "top" /\ popped = << >>
    /\ stop = [p \in {"handler", "engine"} |-> FALSE]
    /\ pushed = << >>

-----------------------------------------------------------------------------
(* The exchange *)

latest == IF newest = 0 THEN FirstSeq - 1 ELSE newest
pending == latest - sent

\* One turn of the loop: number a message, retain it, then add it to the packet.
Publish ==
    /\ open /\ pending < Batch /\ latest < MaxSeq
    /\ append(latest + 1)
    /\ UNCHANGED <<sent, open, wire, sequencer, handler, shm, engine, stop>>

\* MulticastPublisher::send.
publisher_send(p) == wire' = wire \cup {p}

\* flush_packet: the simulated loss drops the packet, or it is sent.
flush_packet(drop) ==
    /\ IF drop \/ pending = 0 THEN UNCHANGED wire
       ELSE publisher_send([lo |-> sent + 1, hi |-> latest])
    /\ sent' = latest

FlushFull(drop) ==
    /\ open /\ pending = Batch
    /\ flush_packet(drop)
    /\ UNCHANGED <<history, open, sequencer, handler, shm, engine, stop>>

\* sendto fails: the exchange returns at once.
SendFails ==
    /\ open /\ pending = Batch
    /\ open' = FALSE
    /\ UNCHANGED <<history, sent, wire, sequencer, handler, shm, engine, stop>>

\* The loop ends, all published or stopped by a signal, and the rest is sent.
EndOfFeed(drop) ==
    /\ open /\ pending < Batch
    /\ flush_packet(drop)
    /\ open' = FALSE
    /\ UNCHANGED <<history, sequencer, handler, shm, engine, stop>>

-----------------------------------------------------------------------------
(* The handler *)

\* while (g_stop == 0); leaving the loop sets producer_done.
HandlerTop ==
    /\ hpc = "top"
    /\ hpc' = IF stop["handler"] THEN "done" ELSE "recv"
    /\ UNCHANGED <<connected, packet, packets, idle, event, published, pushed,
                   exchange, wire, sequencer, shm, engine, stop>>

\* Nothing for 50 ms.  Once the feed has begun, enough of these in a row end
\* the loop.
ReceiveTimeout ==
    /\ hpc = "recv"
    /\ idle' = IF published > 0 THEN idle + 1 ELSE idle
    /\ hpc' = IF idle' = MaxIdle THEN "done" ELSE "top"
    /\ UNCHANGED <<connected, packet, packets, event, published, pushed,
                   exchange, wire, sequencer, shm, engine, stop>>

\* recv fails otherwise: the loop ends.
ReceiveFails ==
    /\ hpc = "recv"
    /\ hpc' = "done"
    /\ UNCHANGED <<connected, packet, packets, idle, event, published, pushed,
                   exchange, wire, sequencer, shm, engine, stop>>

\* MulticastReceiver::receive gets a packet, in any order; the network may
\* deliver it once more.
receiver_receive(p, again) == wire' = IF again THEN wire ELSE wire \ {p}

\* A datagram is a packet of the feed ...
Receive(p, again) ==
    /\ hpc = "recv" /\ packets < MaxPackets
    /\ receiver_receive(p, again)
    /\ packets' = packets + 1 /\ idle' = 0
    /\ packet' = p /\ hpc' = "accept"
    /\ UNCHANGED <<connected, event, published, pushed, exchange, sequencer, shm, engine, stop>>

\* ... or something that is not a feed packet.
ReceiveMalformed ==
    /\ hpc = "recv" /\ packets < MaxPackets
    /\ packets' = packets + 1 /\ idle' = 0
    /\ hpc' = "top"
    /\ UNCHANGED <<connected, packet, event, published, pushed,
                   exchange, wire, sequencer, shm, engine, stop>>

\* sequencer.accept for the next message of the packet.
AcceptNext ==
    /\ hpc = "accept"
    /\ Accept(packet.lo)
    /\ packet' = IF packet.lo = packet.hi THEN NoPacket ELSE [packet EXCEPT !.lo = @ + 1]
    /\ hpc' = IF packet.lo = packet.hi THEN "drain" ELSE "accept"
    /\ UNCHANGED <<connected, packets, idle, event, published, pushed,
                   exchange, wire, shm, engine, stop>>

\* The recovery request accept() waits for is answered from the history ...
Answer ==
    /\ Recovering /\ connected
    /\ Reply(fetch(range.start, End, End - range.start + 1))
    /\ UNCHANGED <<exchange, wire, handler, shm, engine, stop>>

\* ... or fails, for good.
NoAnswer ==
    /\ RequestFails
    /\ connected' = FALSE
    /\ UNCHANGED <<hpc, packet, packets, idle, event, published, pushed,
                   exchange, wire, shm, engine, stop>>

\* next_deliverable returns a message ...
DrainOne ==
    /\ hpc = "drain"
    /\ \E n \in 0 .. N : Deliver(n)
    /\ event' = last' /\ hpc' = "push"
    /\ UNCHANGED <<connected, packet, packets, idle, published, pushed,
                   exchange, wire, shm, engine, stop>>

\* ... or none, and the loop starts over unless --expect is reached.
Drained ==
    /\ hpc = "drain"
    /\ \E n \in 0 .. N : NothingToDeliver(n)
    /\ hpc' = IF Expect > 0 /\ published >= Expect THEN "done" ELSE "top"
    /\ UNCHANGED <<connected, packet, packets, idle, event, published, pushed,
                   exchange, wire, shm, engine, stop>>

\* Mutant: the spin on a full ring ignores the signal.
PushSpins ==
    /\ hpc = "push" /\ Len(shm) < Capacity
    /\ shm' = Append(shm, event) /\ pushed' = Append(pushed, event)
    /\ published' = published + 1
    /\ hpc' = "drain"
    /\ UNCHANGED <<connected, packet, packets, idle, event, exchange, wire, sequencer, engine, stop>>

\* Mutant: only the first try_push is looked at, and its failure ignored.
PushOnce ==
    /\ hpc = "push"
    /\ IF Len(shm) < Capacity THEN shm' = Append(shm, event) /\ pushed' = Append(pushed, event)
       ELSE UNCHANGED <<shm, pushed>>
    /\ published' = published + 1
    /\ hpc' = "drain"
    /\ UNCHANGED <<connected, packet, packets, idle, event, exchange, wire, sequencer, engine, stop>>

\* try_push succeeds, or it fails and the spin is given up on a signal.  It
\* fails on a full ring, and on one that looks full by an old load of the read
\* index, which takes Capacity entries at least.
Push ==
    /\ hpc = "push"
    /\ \/ /\ Len(shm) < Capacity
          /\ shm' = Append(shm, event) /\ pushed' = Append(pushed, event)
       \/ /\ Len(pushed) >= Capacity /\ stop["handler"]
          /\ UNCHANGED <<shm, pushed>>
    /\ published' = published + 1
    /\ hpc' = "drain"
    /\ UNCHANGED <<connected, packet, packets, idle, event, exchange, wire, sequencer, engine, stop>>

-----------------------------------------------------------------------------
(* The engine *)

producer_done == hpc = "done"

EngineTop ==
    /\ epc = "top"
    /\ epc' = IF stop["engine"] THEN "exited" ELSE "pop"
    /\ UNCHANGED <<popped, exchange, wire, sequencer, handler, shm, stop>>

\* try_pop returns an event, which is applied to the book ...
Pop ==
    /\ epc = "pop" /\ shm # << >>
    /\ shm' = Tail(shm) /\ popped' = Append(popped, Head(shm))
    /\ epc' = "top"
    /\ UNCHANGED <<exchange, wire, sequencer, handler, stop>>

\* Mutant: producer_done is never looked at.
PopFailsRetries ==
    /\ epc = "pop"
    /\ epc' = "top"
    /\ UNCHANGED <<popped, exchange, wire, sequencer, handler, shm, stop>>

\* ... or finds the ring empty, by a load that may be old.
PopFails ==
    /\ epc = "pop"
    /\ epc' = "done?"
    /\ UNCHANGED <<popped, exchange, wire, sequencer, handler, shm, stop>>

\* Mutant: the ring is not looked at again.
LoadDoneExits ==
    /\ epc = "done?"
    /\ epc' = IF producer_done THEN "exited" ELSE "top"
    /\ UNCHANGED <<popped, exchange, wire, sequencer, handler, shm, stop>>

\* Loads producer_done, ...
LoadDone ==
    /\ epc = "done?"
    /\ epc' = IF producer_done THEN "empty?" ELSE "top"
    /\ UNCHANGED <<popped, exchange, wire, sequencer, handler, shm, stop>>

\* ... and only then looks at the ring again: what was pushed before the store
\* of producer_done is visible to a load after it.
CheckEmpty ==
    /\ epc = "empty?"
    /\ epc' = IF shm = << >> THEN "exited" ELSE "top"
    /\ UNCHANGED <<popped, exchange, wire, sequencer, handler, shm, stop>>

\* SIGINT or SIGTERM.
Signal(p) ==
    /\ ~stop[p]
    /\ stop' = [stop EXCEPT ![p] = TRUE]
    /\ UNCHANGED <<exchange, wire, sequencer, handler, shm, engine>>

-----------------------------------------------------------------------------
Exchange == Publish \/ SendFails \/ \E drop \in BOOLEAN : FlushFull(drop) \/ EndOfFeed(drop)

Handler ==
    \/ HandlerTop
    \/ ReceiveTimeout \/ ReceiveFails \/ ReceiveMalformed
    \/ \E p \in wire, again \in BOOLEAN : Receive(p, again)
    \/ AcceptNext
    \/ Answer
    \/ NoAnswer
    \/ DrainOne
    \/ Drained
    \/ Push

Engine == EngineTop \/ Pop \/ PopFails \/ LoadDone \/ CheckEmpty

PipelineNext ==
    \/ Exchange
    \/ Handler
    \/ Engine
    \/ \E p \in {"handler", "engine"} : Signal(p)

PipelineSpec == PipelineInit /\ [][PipelineNext]_allVars

\* Both consumers poll: the handler's receive and its requests have timeouts
\* and the engine spins.  A try_pop does not fail by an old load for ever.
PipelineFairSpec ==
    PipelineSpec /\ WF_allVars(Handler) /\ WF_allVars(Engine) /\ SF_allVars(Pop)

-----------------------------------------------------------------------------
\* The handler goes back to its socket with an empty reorder buffer: after a
\* packet has been accepted and drained nothing waits behind a hole, so no
\* message is held up until the next packet.
DrainedClean ==
    hpc \in {"top", "recv"} => \A k \in Slots : buffer[k].state = "Empty"

Pushed == {pushed[i] : i \in DOMAIN pushed}

\* As long as recovery works and the window is not exceeded, a number the
\* stream has moved past reached the ring or has aged out of the exchange's
\* history: a message is in the history before its packet, or any later one,
\* can reveal that it is missing.
LostOnlyIfAgedOut ==
    connected /\ stats["reorder_overflows"] = 0 /\ ~stop["handler"] =>
        \A s \in first .. expected - 1 :
            started => s \in Pushed \/ s < oldest \/ (hpc = "push" /\ s = event)

\* An engine that was not interrupted exits only when the handler has finished
\* and the events that entered the ring were taken, all and in order, whatever
\* happens between its failed try_pop, its load of producer_done and its second
\* look at the ring.
EngineDrainsAll ==
    epc = "exited" /\ ~stop["engine"] =>
        producer_done /\ popped = pushed

lastTaken == popped[Len(popped)]

\* From end to end the three processes are a LossyFeed: the engine takes only
\* what was published, each number at most once and in ascending order,
\* although the network loses, duplicates and reorders packets and
\* retransmissions arrive on another path.
Feed == INSTANCE LossyFeed WITH
    published <- latest - (FirstSeq - 1),
    taken <- IF popped = << >> THEN 0 ELSE lastTaken - (FirstSeq - 1)
ImplementsFeed == Feed!FeedSpec

\* The handler's count of published events, which --expect is compared with
\* and produced_count exports, is the number of events that entered the ring,
\* and in the end the number the engine consumed.  It exceeds it only after a
\* signal, when events given up after a failed try_push are counted too.
CountsAgree ==
    /\ published >= Len(pushed)
    /\ published # Len(pushed) => stop["handler"]
    /\ epc = "exited" /\ ~stop["engine"] => Len(popped) = Len(pushed)

\* The handler leaves its loop and sets producer_done after a signal, even when
\* the ring is full and the engine is gone.  Without a signal it does so after
\* the feed has ended, by --expect or by silence, however much of the end was
\* lost, unless it meets a full ring that a stopped engine has left, and unless
\* it has published nothing: "Only start the idle countdown once the feed has
\* actually begun" (market_data_handler.cpp:109).
HandlerEnds ==
    stop["handler"] \/ (~open /\ published > 0)
        ~> \/ producer_done
           \/ hpc = "push" /\ Len(shm) = Capacity /\ stop["engine"] /\ ~stop["handler"]

\* Once the handler has finished, the engine finishes.
EngineFinishes == producer_done ~> epc = "exited"

\* "Beyond the reorder window there is nothing useful left to do: the hole is
\* wider than anything we could hold" (sequence_manager.cpp:40-41): when the
\* buffer is thrown away it holds no message.  Stated for a handler whose
\* recovery works, so that a hole within the window has been filled.
NothingUsefulLeft ==
    [][connected /\ stats'["reorder_overflows"] # stats["reorder_overflows"] =>
           Filled = {}]_allVars
=============================================================================
