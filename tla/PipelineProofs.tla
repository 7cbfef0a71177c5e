--------------------------- MODULE PipelineProofs ---------------------------
(***************************************************************************)
(* From end to end, for every window, history, batch, chunk and ring size: *)
(* the three processes implement LossyFeed, the engine leaves nothing      *)
(* behind, the handler goes back to its socket with an empty reorder       *)
(* buffer, and while recovery works a message is lost only when it has     *)
(* aged out of the exchange's history.                                     *)
(***************************************************************************)
EXTENDS Pipeline, SequenceManagerProofs

LEMMA Sizes == H \in Nat \ {0} /\ FirstSeq \in Nat \ {0} /\ Capacity \in Nat \ {0}
BY HistoryAssumption, PipelineAssumption, SequencerAssumption

-----------------------------------------------------------------------------
(* Nothing but what the exchange has numbered is anywhere in the system. *)

Numbered(s) == s \in Nat /\ s >= FirstSeq /\ s <= latest
Sound(p) == p \in [lo : Nat, hi : Nat] /\ Numbered(p.lo) /\ Numbered(p.hi) /\ p.lo <= p.hi

\* Every filled slot of b holds a number up to m.
Known(b, m) == \A k \in Slots : b[k].state = "Filled" => b[k].seq <= m

ExchangeInv ==
    /\ newest \in Nat /\ (newest # 0 => newest >= FirstSeq)
    /\ ring \in [0 .. H - 1 -> Nat] /\ \A k \in 0 .. H - 1 : ring[k] <= latest
    /\ sent \in Int /\ sent <= latest /\ sent >= FirstSeq - 1
    /\ \A p \in wire : Sound(p)

\* The stream from the sequencer on: last is what next_deliverable returned
\* last, the ring holds ascending numbers up to it, all beyond what the engine
\* has taken, and an event about to be pushed is beyond all of them.
StreamInv ==
    /\ shm \in Seq(Nat) /\ popped \in Seq(Nat)
    /\ last <= latest
    /\ \A i \in 1 .. Len(shm) : shm[i] >= FirstSeq /\ shm[i] <= last
    /\ \A i, j \in 1 .. Len(shm) : i < j => shm[i] < shm[j]
    /\ popped # << >> =>
          /\ lastTaken >= FirstSeq /\ lastTaken <= last
          /\ \A i \in 1 .. Len(shm) : lastTaken < shm[i]
    /\ hpc = "push" =>
          /\ event = last /\ last >= FirstSeq
          /\ \A i \in 1 .. Len(shm) : shm[i] < event
          /\ popped # << >> => lastTaken < event

FeedInv ==
    /\ SeqInv /\ ExchangeInv /\ StreamInv
    /\ Known(buffer, latest) /\ (started => expected >= FirstSeq)
    /\ hpc = "accept" => Sound(packet)

-----------------------------------------------------------------------------
(* What the sequencer's helpers do to Known. *)

LEMMA KnownLater ==
    ASSUME NEW b \in BufferType, NEW m \in Int, NEW n \in Int, m <= n, Known(b, m)
    PROVE  Known(b, n)
BY DEF Known, BufferType

LEMMA StoreKnown ==
    ASSUME NEW b \in BufferType, NEW s \in Nat, NEW m \in Int, Known(b, m), s <= m
    PROVE  Known(Store(b, s), m)
<1>1. s % N \in Slots BY SlotOfSeq
<1>2. \A k \in Slots : Store(b, s)[k] = IF k = s % N THEN [state |-> "Filled", seq |-> s] ELSE b[k]
  BY <1>1, Zenon DEF Store, BufferType
<1> QED BY <1>2 DEF Known

LEMMA FillKnown ==
    ASSUME NEW b, NEW e, NEW msgs, NEW m, Known(b, m), \A s \in msgs : s <= m
    PROVE  Known(Fill(b, e, msgs), m)
<1> DEFINE f == Fill(b, e, msgs)
<1>1. ASSUME NEW k \in Slots
      PROVE  f[k] = b[k] \/ \E s \in msgs : f[k] = [state |-> "Filled", seq |-> s]
  BY Zenon DEF Fill, Fresh
<1> HIDE DEF f
<1>2. ASSUME NEW k \in Slots, f[k].state = "Filled" PROVE f[k].seq <= m
  <2>1. CASE f[k] = b[k] BY <1>2, <2>1, Zenon DEF Known
  <2>2. ASSUME NEW s \in msgs, f[k] = [state |-> "Filled", seq |-> s] PROVE f[k].seq <= m
    BY <2>2
  <2> QED BY <1>1, <2>1, <2>2, Zenon
<1>3. Known(f, m) BY <1>2, Zenon DEF Known
<1> QED BY <1>3, Zenon DEF f

LEMMA SkipKnown ==
    ASSUME NEW b \in BufferType, NEW from, NEW to, NEW m, Known(b, m)
    PROVE  Known(Skip(b, from, to), m)
<1>1. \A k \in Slots : Skip(b, from, to)[k] = b[k] \/ Skip(b, from, to)[k].state = "Skipped"
  BY Zenon DEF Skip, BufferType
<1> QED BY <1>1, Zenon DEF Known

LEMMA EmptiedKnown ==
    ASSUME NEW n, NEW m, buffer \in BufferType, Known(buffer, m)
    PROVE  Known(Emptied(n), m)
<1>1. \A k \in Slots : Emptied(n)[k] = buffer[k] \/ Emptied(n)[k].state = "Empty"
  BY Zenon DEF Emptied, BufferType
<1> QED BY <1>1, Zenon DEF Known

\* accept() of a number brings in no other.
LEMMA AcceptKnown ==
    ASSUME SeqInv, NEW s \in Nat, NEW m \in Int, s <= m, Known(buffer, m), s >= FirstSeq,
           started => expected >= FirstSeq, Accept(s)
    PROVE  Known(buffer', m) /\ expected' >= FirstSeq
<1> DEFINE e == IF started THEN expected ELSE s
<1>1. buffer \in BufferType /\ e \in Nat /\ e >= FirstSeq BY Zenon DEF SeqInv, BufferType
<1>2. AcceptStale(s, e) \/ AcceptOverflow(s, e) \/ AcceptInWindow(s, e) BY Zenon DEF Accept
<1> HIDE DEF e
<1>3. CASE AcceptStale(s, e) BY <1>1, <1>3, Zenon DEF AcceptStale
<1>4. CASE AcceptOverflow(s, e)
  <2> DEFINE b == [k \in Slots |-> [buffer[k] EXCEPT !.state = "Empty"]]
  <2>1. b \in BufferType /\ Known(b, m) BY <1>1, Zenon DEF BufferType, SlotState, Known
  <2>2. buffer' = Store(b, s) /\ expected' = s BY <1>4, Zenon DEF AcceptOverflow
  <2> HIDE DEF b
  <2> QED BY <2>1, <2>2, StoreKnown, Zenon
<1>5. CASE AcceptInWindow(s, e)
  <2> DEFINE stored == IF State(buffer, s) = "Filled" THEN buffer ELSE Store(buffer, s)
  <2>1. expected' = e BY <1>5, Zenon DEF AcceptInWindow
  <2>2. Known(stored, m) BY <1>1, StoreKnown, Zenon
  <2>3. stored \in BufferType
    <3>1. s % N \in Slots BY SlotOfSeq
    <3> QED BY <1>1, <3>1, Zenon DEF Store, BufferType, SlotState
  <2>4. buffer' = stored \/ buffer' = Skip(stored, e, s - 1) BY <1>5, Zenon DEF AcceptInWindow
  <2> HIDE DEF stored
  <2> QED BY <1>1, <2>1, <2>2, <2>3, <2>4, SkipKnown, Zenon
<1> QED BY <1>2, <1>3, <1>4, <1>5, Zenon

\* Nor does an answer or the end of a recovery.
LEMMA AnswerKnown ==
    ASSUME SeqInv, NEW m \in Int, Known(buffer, m), NEW msgs \in SUBSET Nat,
           \A s \in msgs : s <= m, Reply(msgs) \/ RequestFails
    PROVE  Known(buffer', m)
<1> DEFINE filled == Fill(buffer, expected, msgs)
<1>1. buffer \in BufferType /\ expected \in Nat /\ Placed(buffer, expected)
  BY Zenon DEF SeqInv, BufferType
<1>2. filled \in BufferType /\ Known(filled, m) BY <1>1, FillKeeps, FillKnown, Zenon
<1>3. buffer' \in {filled, Skip(filled, range.from, range.to), Skip(buffer, range.from, range.to)}
  BY Zenon DEF Reply, RequestFails, Finish
<1> HIDE DEF filled
<1> QED BY <1>1, <1>2, <1>3, SkipKnown, Zenon

-----------------------------------------------------------------------------
(* The parts of the invariant that a step leaves alone. *)

LEMMA LatestType == ExchangeInv => latest \in Nat /\ latest >= FirstSeq - 1
BY Sizes DEF ExchangeInv, latest

LEMMA ExchangeStays ==
    ASSUME ExchangeInv, UNCHANGED <<history, sent>>, wire' \subseteq wire
    PROVE  ExchangeInv' /\ latest' = latest /\ (\A p : Sound(p) => Sound(p)')
<1>1. latest' = latest BY Zenon DEF latest, history
<1> QED BY <1>1, Zenon DEF ExchangeInv, Sound, Numbered, history

LEMMA StreamStays ==
    ASSUME StreamInv, UNCHANGED <<shm, popped, last>>, latest \in Nat, latest' \in Nat,
           latest' >= latest, last \in Int,
           hpc' # "push" \/ (hpc = "push" /\ event' = event)
    PROVE  StreamInv'
<1>1. last' <= latest' BY DEF StreamInv
<1>2. popped # << >> => lastTaken' = lastTaken BY Zenon DEF lastTaken
<1> QED BY <1>1, <1>2, Zenon DEF StreamInv

\* The exchange's steps: numbers only grow, and packets hold what is numbered.
LEMMA ExchangeKeeps == ASSUME FeedInv, Exchange PROVE FeedInv'
<1>1. /\ latest \in Nat /\ latest >= FirstSeq - 1 /\ ExchangeInv /\ SeqInv /\ StreamInv
      /\ buffer \in BufferType /\ last \in Int
  BY LatestType DEF FeedInv, SeqInv, BufferType
<1>2. UNCHANGED sequencer /\ UNCHANGED handler /\ UNCHANGED <<shm, popped>>
  BY Zenon DEF Exchange, Publish, SendFails, FlushFull, EndOfFeed, engine
<1>3. ExchangeInv' /\ latest' \in Nat /\ latest' >= latest
  <2>1. CASE Publish
    <3>1. /\ ring' = [ring EXCEPT ![(latest + 1) % H] = latest + 1] /\ newest' = latest + 1
          /\ sent' = sent /\ wire' = wire
      BY <2>1, Zenon DEF Publish, append
    <3>2. latest + 1 \in Nat \ {0} /\ latest + 1 >= FirstSeq /\ (latest + 1) % H \in 0 .. H - 1
      <4>1. latest + 1 \in Int BY <1>1
      <4>2. (latest + 1) % H \in 0 .. H - 1 BY <4>1, Sizes, SlotRange, Zenon
      <4> QED BY <1>1, <4>2, Sizes
    <3>3. latest' = latest + 1 BY <3>1, <3>2, Zenon DEF latest
    <3>4. ring' \in [0 .. H - 1 -> Nat] BY <1>1, <3>1, <3>2, Zenon DEF ExchangeInv
    <3>5. ASSUME NEW k \in 0 .. H - 1 PROVE ring'[k] <= latest'
      <4>1. ring[k] \in Nat /\ ring[k] <= latest BY <1>1, Zenon DEF ExchangeInv
      <4>2. ring'[k] = ring[k] \/ ring'[k] = latest + 1 BY <1>1, <3>1, <3>2, Zenon DEF ExchangeInv
      <4> QED BY <1>1, <3>3, <4>1, <4>2
    <3>6. \A p \in wire' : Sound(p)'
      BY <1>1, <3>1, <3>3 DEF ExchangeInv, Sound, Numbered
    <3>7. sent \in Int /\ sent <= latest' /\ sent >= FirstSeq - 1 BY <1>1, <3>3 DEF ExchangeInv
    <3> QED BY <1>1, <3>1, <3>2, <3>3, <3>4, <3>5, <3>6, <3>7 DEF ExchangeInv
  <2>2. CASE SendFails
    BY <1>1, <2>2, ExchangeStays DEF SendFails
  <2>3. CASE \E drop \in BOOLEAN : FlushFull(drop) \/ EndOfFeed(drop)
    <3>1. /\ UNCHANGED history /\ sent' = latest
          /\ wire' = wire \/ (pending # 0 /\ wire' = wire \cup {[lo |-> sent + 1, hi |-> latest]})
      BY <2>3, Zenon DEF FlushFull, EndOfFeed, flush_packet, publisher_send
    <3>2. latest' = latest BY <3>1, Zenon DEF latest, history
    <3>3. ASSUME pending # 0 PROVE Sound([lo |-> sent + 1, hi |-> latest])
      <4>1. sent \in Int /\ sent <= latest /\ sent >= FirstSeq - 1 BY <1>1, Zenon DEF ExchangeInv
      <4>2. sent + 1 \in Nat /\ sent + 1 >= FirstSeq /\ sent + 1 <= latest
        BY <1>1, <3>3, <4>1, Sizes DEF pending
      <4>3. Numbered(sent + 1) /\ Numbered(latest) BY <1>1, <4>1, <4>2, Sizes DEF Numbered
      <4> QED BY <1>1, <4>2, <4>3, Zenon DEF Sound
    <3>4. \A p \in wire' : Sound(p) BY <1>1, <3>1, <3>3, Zenon DEF ExchangeInv
    <3>5. \A p \in wire' : Sound(p)' BY <3>2, <3>4, Zenon DEF Sound, Numbered
    <3> QED BY <1>1, <3>1, <3>2, <3>5 DEF ExchangeInv, history
  <2> QED BY <2>1, <2>2, <2>3, Zenon DEF Exchange
<1>4. UNCHANGED <<buffer, expected, started, last, hpc, packet, event, range>>
  BY <1>2, Zenon DEF sequencer, vars, handler
<1>5. SeqInv' BY <1>1, <1>4, Zenon DEF SeqInv, Placed, Recovering
<1>6. StreamInv' BY <1>1, <1>2, <1>3, <1>4, StreamStays, Zenon
<1>7. Known(buffer', latest') BY <1>1, <1>3, <1>4, KnownLater DEF FeedInv
<1>8. hpc' = "accept" => Sound(packet)'
  BY <1>1, <1>3, <1>4 DEF FeedInv, Sound, Numbered
<1> QED BY <1>3, <1>4, <1>5, <1>6, <1>7, <1>8, Zenon DEF FeedInv, Known

-----------------------------------------------------------------------------
(* The handler *)

\* Its steps between two calls of the sequencer and the ring.
LEMMA LoopKeeps ==
    ASSUME FeedInv,
           \/ HandlerTop \/ ReceiveTimeout \/ ReceiveFails \/ ReceiveMalformed
           \/ \E p \in wire, again \in BOOLEAN : Receive(p, again)
    PROVE  FeedInv'
<1>1. /\ latest \in Nat /\ ExchangeInv /\ SeqInv /\ StreamInv /\ last \in Int
  BY LatestType DEF FeedInv, SeqInv
<1>2. /\ UNCHANGED exchange /\ UNCHANGED sequencer /\ UNCHANGED <<shm, popped>>
      /\ wire' \subseteq wire /\ hpc' # "push"
      /\ hpc' = "accept" => packet' \in wire
  BY Zenon DEF HandlerTop, ReceiveTimeout, ReceiveFails, ReceiveMalformed, Receive,
         receiver_receive, engine
<1>3. ExchangeInv' /\ latest' = latest /\ (\A p : Sound(p) => Sound(p)')
  BY <1>1, <1>2, ExchangeStays, Zenon DEF exchange
<1>4. UNCHANGED <<buffer, expected, started, last, range>> BY <1>2, Zenon DEF sequencer, vars
<1>5. SeqInv' BY <1>1, <1>4, Zenon DEF SeqInv, Placed, Recovering
<1>6. StreamInv' BY <1>1, <1>2, <1>3, <1>4, StreamStays
<1>7. hpc' = "accept" => Sound(packet)'
  <2>1. ASSUME hpc' = "accept" PROVE Sound(packet)'
    <3>1. Sound(packet') BY <1>1, <1>2, <2>1, Zenon DEF ExchangeInv
    <3> QED BY <1>3, <3>1, Zenon DEF Sound, Numbered
  <2> QED BY <2>1, Zenon
<1> QED BY <1>3, <1>4, <1>5, <1>6, <1>7, Zenon DEF FeedInv, Known

LEMMA AcceptNextKeeps == ASSUME FeedInv, AcceptNext PROVE FeedInv'
<1>1. /\ latest \in Nat /\ ExchangeInv /\ SeqInv /\ StreamInv /\ last \in Int /\ Sound(packet)
      /\ Known(buffer, latest) /\ (started => expected >= FirstSeq)
  BY LatestType DEF FeedInv, SeqInv, AcceptNext
<1> DEFINE s == packet.lo
<1>2. s \in Nat /\ s >= FirstSeq /\ s <= latest /\ packet.hi \in Nat /\ s <= packet.hi
      /\ packet.hi <= latest
  BY <1>1, Zenon DEF Sound, Numbered
<1>3. /\ Accept(s) /\ UNCHANGED exchange /\ UNCHANGED <<shm, popped, wire>>
      /\ packet' = IF s = packet.hi THEN NoPacket ELSE [packet EXCEPT !.lo = @ + 1]
      /\ hpc' = IF s = packet.hi THEN "drain" ELSE "accept"
  BY Zenon DEF AcceptNext, engine
<1>4. ExchangeInv' /\ latest' = latest BY <1>1, <1>3, ExchangeStays, Zenon DEF exchange
<1>5. SeqInv' BY <1>1, <1>2, <1>3, AcceptKeeps, Zenon
<1>6. Known(buffer', latest') /\ expected' >= FirstSeq
  BY <1>1, <1>2, <1>3, <1>4, AcceptKnown
<1>7. last' = last BY <1>3, Zenon DEF Accept
<1>8. StreamInv' BY <1>1, <1>3, <1>4, <1>7, StreamStays
<1>9. ASSUME hpc' = "accept" PROVE Sound(packet)'
  <2>1. s # packet.hi /\ packet' = [packet EXCEPT !.lo = @ + 1] BY <1>3, <1>9, Zenon
  <2>2. packet'.hi = packet.hi /\ packet'.lo = s + 1
    BY <1>1, <2>1, Zenon DEF Sound
  <2>3. s + 1 \in Nat /\ s + 1 >= FirstSeq /\ s + 1 <= packet.hi BY <1>2, <2>1, Sizes
  <2>4. packet.hi >= FirstSeq /\ s + 1 <= latest BY <1>1, <1>2, <2>3, Sizes
  <2> HIDE DEF s
  <2>5. packet' \in [lo : Nat, hi : Nat] BY <1>1, <2>1 DEF Sound
  <2> QED BY <1>2, <1>4, <2>2, <2>3, <2>4, <2>5, Zenon DEF Sound, Numbered
<1> QED BY <1>4, <1>5, <1>6, <1>8, <1>9, Zenon DEF FeedInv, Known

\* The history returns numbers the exchange has given out.
LEMMA FetchNumbered ==
    ASSUME ExchangeInv, NEW from \in Int, NEW to \in Int, NEW max
    PROVE  /\ fetch(from, to, max) \in SUBSET Nat
           /\ \A s \in fetch(from, to, max) : s <= latest
<1>1. ASSUME NEW s \in from .. to PROVE ring[s % H] \in Nat /\ ring[s % H] <= latest
  <2>1. s % H \in 0 .. H - 1 BY Sizes, SlotRange
  <2> QED BY <2>1, Zenon DEF ExchangeInv
<1>2. \A s \in fetch(from, to, max) : \E t \in from .. to : s = ring[t % H] BY Zenon DEF fetch
<1> QED BY <1>1, <1>2, Zenon

LEMMA RecoveryKeeps == ASSUME FeedInv, Answer \/ NoAnswer PROVE FeedInv'
<1>1. /\ latest \in Nat /\ ExchangeInv /\ SeqInv /\ StreamInv /\ last \in Int
      /\ Known(buffer, latest) /\ (started => expected >= FirstSeq)
  BY LatestType DEF FeedInv, SeqInv
<1> DEFINE msgs == fetch(range.start, End, End - range.start + 1)
<1>2. msgs \in SUBSET Nat /\ \A s \in msgs : s <= latest
  <2>1. range.start \in Int /\ End \in Int BY <1>1, Size DEF SeqInv, End
  <2> QED BY <1>1, <2>1, FetchNumbered, Zenon
<1>3. /\ Reply(msgs) \/ RequestFails
      /\ UNCHANGED exchange /\ UNCHANGED <<shm, popped, wire, hpc, packet, event>>
  BY Zenon DEF Answer, NoAnswer, engine, handler
<1> HIDE DEF msgs
<1>4. ExchangeInv' /\ latest' = latest /\ (\A p : Sound(p) => Sound(p)')
  BY <1>1, <1>3, ExchangeStays, Zenon DEF exchange
<1>5. SeqInv' BY <1>1, <1>2, <1>3, ReplyKeeps, RequestFailsKeeps, Zenon
<1>6. Known(buffer', latest') BY <1>1, <1>2, <1>3, <1>4, AnswerKnown
<1>7. UNCHANGED <<expected, started, last>> BY <1>3, Zenon DEF Reply, RequestFails
<1>8. StreamInv' BY <1>1, <1>3, <1>4, <1>7, StreamStays
<1>9. hpc' = "accept" => Sound(packet)'
  BY <1>3, <1>4, Zenon DEF FeedInv, Sound, Numbered
<1> QED BY <1>1, <1>4, <1>5, <1>6, <1>7, <1>8, <1>9, Zenon DEF FeedInv, Known

\* The next event is beyond all earlier ones.
LEMMA DrainOneKeeps == ASSUME FeedInv, DrainOne PROVE FeedInv'
<1>1. /\ latest \in Nat /\ ExchangeInv /\ SeqInv /\ StreamInv /\ last \in Int
      /\ Known(buffer, latest) /\ (started => expected >= FirstSeq)
      /\ buffer \in BufferType /\ expected \in Nat
  BY LatestType DEF FeedInv, SeqInv, BufferType
<1>2. PICK n \in 0 .. N : Deliver(n) BY Zenon DEF DrainOne
<1>3. /\ UNCHANGED exchange /\ UNCHANGED <<shm, popped, wire>>
      /\ event' = last' /\ hpc' = "push"
  BY Zenon DEF DrainOne, engine
<1>4. ExchangeInv' /\ latest' = latest BY <1>1, <1>3, ExchangeStays, Zenon DEF exchange
<1>5. SeqInv' /\ last' = expected' - 1 /\ last' >= expected /\ last' > last
  BY <1>1, <1>2, DeliverKeeps, Zenon
<1>6. Known(buffer', latest') BY <1>1, <1>2, <1>4, EmptiedKnown, Zenon DEF Deliver
<1>7. /\ started /\ started' = started /\ expected' = expected + n + 1 /\ n \in Nat
      /\ last' = buffer[(expected + n) % N].seq /\ State(buffer, expected + n) = "Filled"
  BY <1>2, Size DEF Deliver
<1>8. last' <= latest'
  <2>1. (expected + n) % N \in Slots BY <1>1, <1>7, SlotOfSeq
  <2> QED BY <1>1, <1>4, <1>7, <2>1, Zenon DEF Known, State
<1>9. last' \in Int /\ last' >= FirstSeq /\ expected' >= FirstSeq
  BY <1>1, <1>5, <1>7, Sizes
<1>10. StreamInv'
  <2>1. \A i \in 1 .. Len(shm) : shm[i] \in Nat /\ shm[i] < last'
    <3>1. \A i \in 1 .. Len(shm) : shm[i] \in Nat BY <1>1 DEF StreamInv
    <3>2. \A i \in 1 .. Len(shm) : shm[i] <= last BY <1>1, Zenon DEF StreamInv
    <3> QED BY <1>1, <1>5, <1>9, <3>1, <3>2
  <2>2. popped # << >> => lastTaken \in Nat /\ lastTaken < last'
    <3>1. popped # << >> => lastTaken \in Nat BY <1>1 DEF StreamInv, lastTaken
    <3> QED BY <1>1, <1>5, <1>9, <3>1 DEF StreamInv
  <2>3. lastTaken' = lastTaken BY <1>3, Zenon DEF lastTaken
  <2>4. \A i \in 1 .. Len(shm) : shm[i] <= last' BY <1>9, <2>1
  <2>5. popped # << >> => lastTaken <= last' BY <1>9, <2>2
  <2> QED BY <1>1, <1>3, <1>8, <1>9, <2>1, <2>2, <2>3, <2>4, <2>5, Zenon DEF StreamInv
<1> QED BY <1>3, <1>4, <1>5, <1>6, <1>9, <1>10, Zenon DEF FeedInv, Known

LEMMA DrainedKeeps == ASSUME FeedInv, Drained PROVE FeedInv'
<1>1. /\ latest \in Nat /\ ExchangeInv /\ SeqInv /\ StreamInv /\ last \in Int
      /\ Known(buffer, latest) /\ (started => expected >= FirstSeq)
      /\ buffer \in BufferType /\ expected \in Nat
  BY LatestType DEF FeedInv, SeqInv, BufferType
<1>2. PICK n \in 0 .. N : NothingToDeliver(n) BY Zenon DEF Drained
<1>3. /\ UNCHANGED exchange /\ UNCHANGED <<shm, popped, wire>> /\ hpc' \in {"done", "top"}
  BY Zenon DEF Drained, engine
<1>4. ExchangeInv' /\ latest' = latest BY <1>1, <1>3, ExchangeStays, Zenon DEF exchange
<1>5. SeqInv' BY <1>1, <1>2, NothingKeeps, Zenon
<1>6. Known(buffer', latest') BY <1>1, <1>2, <1>4, EmptiedKnown, Zenon DEF NothingToDeliver
<1>7. started /\ last' = last /\ expected' = expected + n /\ n \in Nat
  BY <1>2, Size DEF NothingToDeliver
<1>8. StreamInv' BY <1>1, <1>3, <1>4, <1>7, StreamStays
<1>9. expected' >= FirstSeq BY <1>1, <1>7, Sizes
<1> QED BY <1>3, <1>4, <1>5, <1>6, <1>8, <1>9, Zenon DEF FeedInv, Known

\* A step that touches neither the exchange nor the sequencer.
LEMMA RingKeeps ==
    ASSUME FeedInv, UNCHANGED exchange, UNCHANGED sequencer, wire' = wire, packet' = packet,
           hpc' = "accept" => hpc = "accept", StreamInv'
    PROVE  FeedInv'
<1>1. ExchangeInv' /\ latest' = latest /\ (\A p : Sound(p) => Sound(p)')
  BY ExchangeStays, Zenon DEF FeedInv, exchange
<1>2. UNCHANGED <<buffer, expected, started, last, range>> BY Zenon DEF sequencer, vars
<1>3. SeqInv' BY <1>2, Zenon DEF FeedInv, SeqInv, Placed, Recovering
<1>4. hpc' = "accept" => Sound(packet)' BY <1>1, Zenon DEF FeedInv, Sound, Numbered
<1> QED BY <1>1, <1>2, <1>3, <1>4, Zenon DEF FeedInv, Known

LEMMA PushKeeps == ASSUME FeedInv, Push PROVE FeedInv'
<1>1. latest \in Nat /\ StreamInv /\ last \in Int BY LatestType DEF FeedInv, SeqInv
<1>2. /\ UNCHANGED exchange /\ UNCHANGED sequencer /\ UNCHANGED <<wire, packet, event, popped>>
      /\ hpc = "push" /\ hpc' = "drain" /\ (shm' = shm \/ shm' = Append(shm, event))
  BY Zenon DEF Push, engine
<1>3. last' = last /\ latest' = latest
  BY <1>2, Zenon DEF sequencer, vars, latest, exchange, history
<1>4. CASE shm' = shm
  <2>1. StreamInv' BY <1>1, <1>2, <1>3, <1>4, StreamStays
  <2> QED BY <1>2, <2>1, RingKeeps, Zenon
<1>5. CASE shm' = Append(shm, event)
  <2>1. event = last /\ event \in Nat /\ event >= FirstSeq /\ shm \in Seq(Nat)
    BY <1>1, <1>2, Sizes DEF StreamInv
  <2>2. /\ shm' \in Seq(Nat) /\ Len(shm') = Len(shm) + 1 /\ shm'[Len(shm) + 1] = event
        /\ \A i \in 1 .. Len(shm) : shm'[i] = shm[i]
    BY <1>5, <2>1
  <2>3. Len(shm) \in Nat BY <2>1
  <2>4. \A i \in 1 .. Len(shm') : i \in 1 .. Len(shm) \/ i = Len(shm) + 1 BY <2>2, <2>3
  <2>5. \A i \in 1 .. Len(shm) : shm[i] \in Nat /\ shm[i] < event /\ shm[i] >= FirstSeq
    <3>1. \A i \in 1 .. Len(shm) : shm[i] \in Nat BY <2>1
    <3>2. \A i \in 1 .. Len(shm) : shm[i] < event /\ shm[i] >= FirstSeq
      BY <1>1, <1>2, Zenon DEF StreamInv
    <3> QED BY <3>1, <3>2, Zenon
  <2>6. \A i \in 1 .. Len(shm') : shm'[i] >= FirstSeq /\ shm'[i] <= last'
    <3>1. \A i \in 1 .. Len(shm) : shm'[i] >= FirstSeq /\ shm'[i] <= last'
      BY <1>1, <1>3, <2>2, Zenon DEF StreamInv
    <3>2. shm'[Len(shm) + 1] >= FirstSeq /\ shm'[Len(shm) + 1] <= last' BY <1>3, <2>1, <2>2
    <3> QED BY <2>4, <3>1, <3>2, Zenon
  <2>7. \A i, j \in 1 .. Len(shm') : i < j => shm'[i] < shm'[j]
    <3> SUFFICES ASSUME NEW i \in 1 .. Len(shm'), NEW j \in 1 .. Len(shm'), i < j
                 PROVE  shm'[i] < shm'[j]
      BY Zenon
    <3>1. i \in 1 .. Len(shm) BY <2>2, <2>3
    <3>2. CASE j \in 1 .. Len(shm) BY <1>1, <2>2, <3>1, <3>2, Zenon DEF StreamInv
    <3>3. CASE j = Len(shm) + 1 BY <2>2, <2>5, <3>1, <3>3, Zenon
    <3> QED BY <2>4, <3>2, <3>3, Zenon
  <2>8. popped # << >> => /\ lastTaken >= FirstSeq /\ lastTaken <= last'
                          /\ \A i \in 1 .. Len(shm') : lastTaken < shm'[i]
    <3> SUFFICES ASSUME popped # << >>
                 PROVE  /\ lastTaken >= FirstSeq /\ lastTaken <= last'
                        /\ \A i \in 1 .. Len(shm') : lastTaken < shm'[i]
      BY Zenon
    <3>1. /\ lastTaken >= FirstSeq /\ lastTaken <= last /\ lastTaken < event
          /\ \A i \in 1 .. Len(shm) : lastTaken < shm[i]
      BY <1>1, <1>2, Zenon DEF StreamInv
    <3> QED BY <1>3, <2>2, <2>4, <3>1, Zenon
  <2>9. last' <= latest' /\ lastTaken' = lastTaken
    BY <1>1, <1>2, <1>3, Zenon DEF StreamInv, lastTaken
  <2>10. StreamInv' BY <1>1, <1>2, <2>2, <2>6, <2>7, <2>8, <2>9, Zenon DEF StreamInv
  <2> QED BY <1>2, <2>10, RingKeeps, Zenon
<1> QED BY <1>2, <1>4, <1>5, Zenon

-----------------------------------------------------------------------------
(* The engine *)

\* try_pop takes the oldest event, which is beyond all the engine has taken.
LEMMA PopTakes ==
    ASSUME FeedInv, Pop
    PROVE  /\ StreamInv' /\ lastTaken' = shm[1] /\ popped' # << >>
           /\ shm[1] \in Nat /\ shm[1] >= FirstSeq /\ shm[1] <= latest
           /\ popped # << >> => lastTaken < shm[1]
<1>1. latest \in Nat /\ StreamInv /\ last \in Int BY LatestType DEF FeedInv, SeqInv
<1>2. /\ UNCHANGED exchange /\ UNCHANGED sequencer /\ UNCHANGED <<hpc, event>>
      /\ shm # << >> /\ shm' = Tail(shm) /\ popped' = Append(popped, Head(shm))
  BY Zenon DEF Pop, handler
<1>3. last' = last /\ latest' = latest
  BY <1>2, Zenon DEF sequencer, vars, latest, exchange, history
<1>4. shm \in Seq(Nat) /\ popped \in Seq(Nat) /\ Len(shm) \in Nat /\ Len(shm) >= 1
  BY <1>1, <1>2 DEF StreamInv
<1>5. /\ Head(shm) = shm[1] /\ shm' \in Seq(Nat) /\ Len(shm') = Len(shm) - 1
      /\ \A i \in 1 .. Len(shm') : shm'[i] = shm[i + 1]
  BY <1>2, <1>4
<1>6. 1 \in 1 .. Len(shm) /\ \A i \in 1 .. Len(shm') : i + 1 \in 1 .. Len(shm) BY <1>4, <1>5
<1>7. shm[1] \in Nat /\ shm[1] >= FirstSeq /\ shm[1] <= last /\ last <= latest
  BY <1>1, <1>4, <1>6 DEF StreamInv
<1>8. popped' \in Seq(Nat) /\ popped' # << >> /\ lastTaken' = shm[1]
  <2>1. Head(shm) \in Nat BY <1>5, <1>7, Zenon
  <2>2. /\ popped' \in Seq(Nat) /\ Len(popped') = Len(popped) + 1
        /\ popped'[Len(popped) + 1] = Head(shm) /\ Len(popped) \in Nat
    BY <1>2, <1>4, <2>1
  <2> QED BY <1>5, <2>2 DEF lastTaken
<1>9. \A i \in 1 .. Len(shm') : shm'[i] >= FirstSeq /\ shm'[i] <= last /\ shm[1] < shm'[i]
  <2> TAKE i \in 1 .. Len(shm')
  <2>1. i + 1 \in 1 .. Len(shm) /\ shm'[i] = shm[i + 1] /\ 1 < i + 1 BY <1>5, <1>6
  <2> QED BY <1>1, <1>6, <2>1, Zenon DEF StreamInv
<1>10. \A i, j \in 1 .. Len(shm') : i < j => shm'[i] < shm'[j]
  <2> TAKE i, j \in 1 .. Len(shm')
  <2>1. /\ i + 1 \in 1 .. Len(shm) /\ shm'[i] = shm[i + 1]
        /\ j + 1 \in 1 .. Len(shm) /\ shm'[j] = shm[j + 1] /\ (i < j => i + 1 < j + 1)
    BY <1>5, <1>6
  <2> QED BY <1>1, <2>1, Zenon DEF StreamInv
<1>11. hpc' = "push" => /\ event' = last' /\ last' >= FirstSeq /\ shm[1] < event'
                        /\ \A i \in 1 .. Len(shm') : shm'[i] < event'
  BY <1>1, <1>2, <1>3, <1>5, <1>6, Zenon DEF StreamInv
<1>12. StreamInv'
  BY <1>3, <1>5, <1>7, <1>8, <1>9, <1>10, <1>11, Zenon DEF StreamInv
<1>13. popped # << >> => lastTaken < shm[1] BY <1>1, <1>6, Zenon DEF StreamInv
<1>14. shm[1] <= latest BY <1>1, <1>7
<1> QED BY <1>7, <1>8, <1>12, <1>13, <1>14, Zenon

LEMMA PopKeeps == ASSUME FeedInv, Pop PROVE FeedInv'
<1>1. StreamInv' BY PopTakes, Zenon
<1>2. /\ UNCHANGED exchange /\ UNCHANGED sequencer /\ UNCHANGED <<wire, packet, hpc>>
  BY Zenon DEF Pop, handler
<1> QED BY <1>1, <1>2, RingKeeps, Zenon

\* The engine's other steps, signals and stutters touch nothing of the stream.
LEMMA IdleKeeps ==
    ASSUME FeedInv, UNCHANGED <<exchange, wire, sequencer, handler, shm, popped>>
    PROVE  FeedInv'
<1>1. latest \in Nat /\ StreamInv /\ last \in Int BY LatestType DEF FeedInv, SeqInv
<1>2. /\ UNCHANGED exchange /\ UNCHANGED sequencer
      /\ UNCHANGED <<wire, packet, hpc, event, shm, popped>>
  BY Zenon DEF handler
<1>3. last' = last /\ latest' = latest
  BY <1>2, Zenon DEF sequencer, vars, latest, exchange, history
<1>4. StreamInv' BY <1>1, <1>2, <1>3, StreamStays
<1> QED BY <1>2, <1>4, RingKeeps, Zenon

\* Which steps number a message, which take one, and that no other does either.
LEMMA StepKinds ==
    ASSUME [PipelineNext]_allVars
    PROVE  \/ Exchange \/ Handler \/ Pop
           \/ UNCHANGED <<exchange, wire, sequencer, handler, shm, popped>>
<1>1. CASE Engine
  BY <1>1, Zenon DEF Engine, EngineTop, PopFails, LoadDone, CheckEmpty
<1>2. CASE \E p \in {"handler", "engine"} : Signal(p)
  BY <1>2, Zenon DEF Signal, engine
<1>3. CASE UNCHANGED allVars BY <1>3, Zenon DEF allVars, engine
<1> QED BY <1>1, <1>2, <1>3, Zenon DEF PipelineNext

LEMMA InitFeed == ASSUME PipelineInit PROVE FeedInv
<1>1. SeqInv BY InitKeeps, Zenon DEF PipelineInit
<1>2. latest = FirstSeq - 1 /\ newest = 0 BY Zenon DEF PipelineInit, HistoryInit, latest
<1>3. ExchangeInv
  <2>1. ring = [k \in 0 .. H - 1 |-> 0] BY Zenon DEF PipelineInit, HistoryInit
  <2> QED BY <1>2, <2>1, Sizes DEF PipelineInit, ExchangeInv
<1>4. StreamInv BY <1>2, Sizes DEF PipelineInit, StreamInv, Init
<1>5. Known(buffer, latest) /\ ~started BY Zenon DEF PipelineInit, Init, Known
<1> QED BY <1>1, <1>3, <1>4, <1>5, Zenon DEF FeedInv, PipelineInit

LEMMA FeedStep == ASSUME FeedInv, [PipelineNext]_allVars PROVE FeedInv'
<1>1. CASE Exchange BY <1>1, ExchangeKeeps, Zenon
<1>2. CASE Handler
  BY <1>2, LoopKeeps, AcceptNextKeeps, RecoveryKeeps, DrainOneKeeps, DrainedKeeps, PushKeeps, Zenon
  DEF Handler
<1>3. CASE Pop BY <1>3, PopKeeps, Zenon
<1>4. CASE UNCHANGED <<exchange, wire, sequencer, handler, shm, popped>> BY <1>4, IdleKeeps, Zenon
<1> QED BY <1>1, <1>2, <1>3, <1>4, StepKinds, Zenon

\* Every number anywhere between the exchange and the engine was given out by
\* the exchange, and the stream from next_deliverable on is ascending.
THEOREM FeedInvariant == PipelineSpec => []FeedInv
<1>1. PipelineInit => FeedInv BY InitFeed, Zenon
<1>2. FeedInv /\ [PipelineNext]_allVars => FeedInv' BY FeedStep, Zenon
<1> QED BY <1>1, <1>2, PTL DEF PipelineSpec

-----------------------------------------------------------------------------
(* The refinement *)

\* Numbering a message is FeedPublish, a successful try_pop is FeedTake, and
\* all other steps stutter.
LEMMA StepRefines ==
    ASSUME FeedInv, [PipelineNext]_allVars
    PROVE  [Feed!FeedPublish \/ Feed!FeedTake]_(Feed!feedVars)
<1> DEFINE took == IF popped = << >> THEN 0 ELSE lastTaken - (FirstSeq - 1)
<1>1. latest \in Nat /\ latest >= FirstSeq - 1 /\ StreamInv BY LatestType, Zenon DEF FeedInv
<1>2. ASSUME UNCHANGED popped PROVE took' = took BY <1>2, Zenon DEF lastTaken
<1>3. ASSUME UNCHANGED newest PROVE latest' = latest BY <1>3, Zenon DEF latest
<1>4. CASE Publish
  <2>1. newest' = latest + 1 /\ popped' = popped BY <1>4, Zenon DEF Publish, append, engine
  <2>2. latest' = latest + 1 BY <1>1, <2>1 DEF latest
  <2>3. latest' - (FirstSeq - 1) = (latest - (FirstSeq - 1)) + 1 BY <1>1, <2>2, Sizes
  <2> QED BY <1>2, <2>1, <2>3, Zenon DEF Feed!FeedPublish
<1>5. CASE Pop
  <2>1. newest' = newest BY <1>5, Zenon DEF Pop, exchange, history
  <2>2. /\ lastTaken' = shm[1] /\ popped' # << >> /\ shm[1] \in Nat /\ shm[1] >= FirstSeq
        /\ shm[1] <= latest /\ (popped # << >> => lastTaken < shm[1])
    BY <1>5, PopTakes, Zenon
  <2>3. took' = shm[1] - (FirstSeq - 1) BY <2>2, Zenon
  <2>4. popped # << >> => lastTaken \in Nat BY <1>1 DEF StreamInv, lastTaken
  <2>5. took' \in took + 1 .. latest - (FirstSeq - 1)
    BY <1>1, <2>2, <2>3, <2>4, Sizes
  <2> QED BY <1>3, <2>1, <2>5, Zenon DEF Feed!FeedTake
<1>6. ASSUME UNCHANGED <<newest, popped>> PROVE UNCHANGED Feed!feedVars
  BY <1>2, <1>3, <1>6, Zenon DEF Feed!feedVars
<1>7. CASE Exchange /\ ~Publish
  BY <1>6, <1>7, Zenon DEF Exchange, SendFails, FlushFull, EndOfFeed, history, engine
<1>8. CASE Handler
  <2>1. UNCHANGED exchange /\ UNCHANGED engine
    BY <1>8, Zenon DEF Handler, HandlerTop, ReceiveTimeout, ReceiveFails, ReceiveMalformed, Receive,
                AcceptNext, Answer, NoAnswer, DrainOne, Drained, Push
  <2> QED BY <1>6, <2>1, Zenon DEF exchange, history, engine
<1>9. CASE UNCHANGED <<exchange, wire, sequencer, handler, shm, popped>>
  BY <1>6, <1>9, Zenon DEF exchange, history
<1> QED BY <1>4, <1>5, <1>7, <1>8, <1>9, StepKinds, Zenon

\* From end to end the exchange, the handler and the engine are a LossyFeed: the
\* engine takes only what was published, in ascending order and each number once.
THEOREM FeedRefinement == PipelineSpec => ImplementsFeed
<1>1. ASSUME PipelineInit PROVE Feed!FeedInit
  BY <1>1, Sizes DEF PipelineInit, HistoryInit, latest, Feed!FeedInit
<1> QED BY <1>1, StepRefines, FeedInvariant, PTL DEF PipelineSpec, ImplementsFeed, Feed!FeedSpec

-----------------------------------------------------------------------------
(* The end of the engine *)

\* What entered the ring was taken or waits in it, in the order of entry.  The
\* engine looks at the ring for the last time when nothing can enter any more.
DrainInv ==
    /\ pushed = popped \o shm
    /\ epc = "empty?" => producer_done
    /\ epc = "exited" /\ ~stop["engine"] => producer_done /\ shm = << >>
    /\ stop \in [{"handler", "engine"} -> BOOLEAN]

\* A last event appended to two pieces is appended to the second.
LEMMA AppendLast ==
    ASSUME NEW a \in Seq(Nat), NEW b \in Seq(Nat), NEW e \in Nat
    PROVE  Append(a \o b, e) = a \o Append(b, e)
<1> DEFINE x == Append(a \o b, e)
           y == a \o Append(b, e)
<1>1. a \o b \in Seq(Nat) /\ Append(b, e) \in Seq(Nat) OBVIOUS
<1>2. x \in Seq(Nat) /\ y \in Seq(Nat) BY <1>1
<1>3. Len(x) = Len(a) + Len(b) + 1 /\ Len(y) = Len(x) BY <1>1
<1>4. ASSUME NEW i \in 1 .. Len(x) PROVE x[i] = y[i]
  <2>1. CASE i <= Len(a) BY <1>1, <1>3, <2>1
  <2>2. CASE i > Len(a) /\ i <= Len(a) + Len(b) BY <1>1, <1>3, <2>2
  <2>3. CASE i = Len(a) + Len(b) + 1 BY <1>1, <1>3, <2>3
  <2> QED BY <1>3, <2>1, <2>2, <2>3
<1> HIDE DEF x, y
<1>5. x = y BY <1>2, <1>3, <1>4
<1> QED BY <1>5, Zenon DEF x, y

\* The first event waiting goes from one piece to the other.
LEMMA MoveFirst ==
    ASSUME NEW a \in Seq(Nat), NEW b \in Seq(Nat), b # << >>
    PROVE  a \o b = Append(a, Head(b)) \o Tail(b)
BY SMTT(40)

\* Steps that touch neither ring nor engine; the handler never leaves "done".
LEMMA OutsideKeeps ==
    ASSUME DrainInv, UNCHANGED <<pushed, popped, shm, epc, stop>>, hpc = "done" => hpc' = "done"
    PROVE  DrainInv'
BY Zenon DEF DrainInv, producer_done

LEMMA PushDrains == ASSUME FeedInv, DrainInv, Push PROVE DrainInv'
<1>1. /\ hpc = "push" /\ UNCHANGED <<popped, epc, stop>>
      /\ \/ shm' = shm /\ pushed' = pushed
         \/ shm' = Append(shm, event) /\ pushed' = Append(pushed, event)
  BY Zenon DEF Push, engine
<1>2. epc # "empty?" /\ (epc = "exited" => stop["engine"])
  BY <1>1, Zenon DEF DrainInv, producer_done
<1>3. pushed' = popped' \o shm'
  <2>1. pushed = popped \o shm BY Zenon DEF DrainInv
  <2>2. shm \in Seq(Nat) /\ popped \in Seq(Nat) /\ event \in Nat
    BY <1>1, Sizes DEF FeedInv, StreamInv, SeqInv
  <2>3. Append(popped \o shm, event) = popped \o Append(shm, event)
    BY <2>2, AppendLast, Zenon
  <2> QED BY <1>1, <2>1, <2>3, Zenon
<1> QED BY <1>1, <1>2, <1>3, Zenon DEF DrainInv

LEMMA PopDrains == ASSUME FeedInv, DrainInv, Pop PROVE DrainInv'
<1>1. /\ epc' = "top" /\ UNCHANGED <<pushed, stop>> /\ shm # << >>
      /\ shm' = Tail(shm) /\ popped' = Append(popped, Head(shm))
  BY Zenon DEF Pop, handler
<1>2. shm \in Seq(Nat) /\ popped \in Seq(Nat) BY Zenon DEF FeedInv, StreamInv
<1>3. popped \o shm = popped' \o shm' BY <1>1, <1>2, MoveFirst, Zenon
<1> QED BY <1>1, <1>3, Zenon DEF DrainInv

LEMMA EngineDrains ==
    ASSUME DrainInv, EngineTop \/ PopFails \/ LoadDone \/ CheckEmpty PROVE DrainInv'
<1>1. UNCHANGED <<pushed, popped, shm, stop, hpc>>
  BY Zenon DEF EngineTop, PopFails, LoadDone, CheckEmpty, handler
<1>2. /\ epc' = "empty?" => producer_done
      /\ epc' = "exited" /\ ~stop["engine"] => producer_done /\ shm = << >>
  BY Zenon DEF DrainInv, EngineTop, PopFails, LoadDone, CheckEmpty
<1> QED BY <1>1, <1>2, Zenon DEF DrainInv, producer_done

LEMMA SignalDrains ==
    ASSUME DrainInv, NEW p \in {"handler", "engine"}, Signal(p) PROVE DrainInv'
<1>1. UNCHANGED <<pushed, popped, shm, epc, hpc>> /\ stop' = [stop EXCEPT ![p] = TRUE]
  BY Zenon DEF Signal, handler, engine
<1>2. stop' \in [{"handler", "engine"} -> BOOLEAN] BY <1>1, Zenon DEF DrainInv
<1>3. ~stop'["engine"] => ~stop["engine"] BY <1>1, Zenon DEF DrainInv
<1> QED BY <1>1, <1>2, <1>3, Zenon DEF DrainInv, producer_done

LEMMA StepDrains == ASSUME FeedInv, DrainInv, [PipelineNext]_allVars PROVE DrainInv'
<1>1. CASE Exchange
  BY <1>1, OutsideKeeps, Zenon DEF Exchange, Publish, SendFails, FlushFull, EndOfFeed, handler, engine
<1>2. CASE Handler /\ ~Push
  <2>1. UNCHANGED <<pushed, popped, shm, epc, stop>> /\ (hpc = "done" => hpc' = "done")
    BY <1>2, Zenon DEF Handler, HandlerTop, ReceiveTimeout, ReceiveFails, ReceiveMalformed, Receive,
                AcceptNext, Answer, NoAnswer, DrainOne, Drained, handler, engine
  <2> QED BY <2>1, OutsideKeeps, Zenon
<1>3. CASE Push BY <1>3, PushDrains, Zenon
<1>4. CASE Engine BY <1>4, PopDrains, EngineDrains, Zenon DEF Engine
<1>5. CASE \E p \in {"handler", "engine"} : Signal(p) BY <1>5, SignalDrains, Zenon
<1>6. CASE UNCHANGED allVars BY <1>6, OutsideKeeps, Zenon DEF allVars, handler, engine
<1> QED BY <1>1, <1>2, <1>3, <1>4, <1>5, <1>6, SMTT(40) DEF PipelineNext

LEMMA DrainInvariant == PipelineSpec => []DrainInv
<1>1. PipelineInit => DrainInv
  BY DEF PipelineInit, DrainInv, producer_done
<1>2. FeedInv /\ DrainInv /\ [PipelineNext]_allVars => DrainInv' BY StepDrains, Zenon
<1> QED BY <1>1, <1>2, FeedInvariant, PTL DEF PipelineSpec

\* The handler has finished and nothing waits: what was taken is what entered.
LEMMA AllTaken ==
    ASSUME FeedInv, DrainInv, epc = "exited", ~stop["engine"]
    PROVE  producer_done /\ popped = pushed
<1>1. producer_done /\ shm = << >> /\ pushed = popped \o shm BY Zenon DEF DrainInv
<1>2. popped \in Seq(Nat) BY Zenon DEF FeedInv, StreamInv
<1> QED BY <1>1, <1>2

\* An engine that was not interrupted leaves its loop only when the handler has
\* finished and the events that entered the ring were taken, all and in order:
\* producer_done is loaded before the second look at the ring.
THEOREM NothingLeftBehind == PipelineSpec => []EngineDrainsAll
<1>1. FeedInv /\ DrainInv => EngineDrainsAll BY AllTaken, Zenon DEF EngineDrainsAll
<1> QED BY <1>1, DrainInvariant, FeedInvariant, PTL

-----------------------------------------------------------------------------
(* The counts *)

CountInv ==
    /\ published \in Nat /\ published >= Len(pushed)
    /\ published # Len(pushed) => stop["handler"]

LEMMA StepCounts ==
    ASSUME FeedInv, DrainInv, CountInv, [PipelineNext]_allVars PROVE CountInv'
<1>1. CASE UNCHANGED <<published, pushed, stop>> BY <1>1, Zenon DEF CountInv
<1>2. CASE Push
  <2>1. popped \in Seq(Nat) /\ shm \in Seq(Nat) BY Zenon DEF FeedInv, StreamInv
  <2>2. pushed \in Seq(Nat) BY <2>1 DEF DrainInv
  <2>3. /\ published' = published + 1 /\ UNCHANGED stop
        /\ pushed' = Append(pushed, event) \/ (pushed' = pushed /\ stop["handler"])
    BY <1>2, Zenon DEF Push
  <2>4. event \in Nat BY <1>2, Sizes DEF Push, FeedInv, StreamInv, SeqInv
  <2>5. Len(Append(pushed, event)) = Len(pushed) + 1 /\ Len(pushed) \in Nat BY <2>2, <2>4
  <2> QED BY <2>3, <2>5 DEF CountInv
<1>3. CASE \E p \in {"handler", "engine"} : Signal(p)
  BY <1>3, Zenon DEF Signal, handler, DrainInv, CountInv
<1>4. CASE Exchange
  BY <1>1, <1>4, Zenon DEF Exchange, Publish, SendFails, FlushFull, EndOfFeed, handler
<1>5. CASE Handler /\ ~Push
  <2>1. UNCHANGED <<published, pushed, stop>>
    BY <1>5, Zenon DEF Handler, HandlerTop, ReceiveTimeout, ReceiveFails, ReceiveMalformed, Receive,
                AcceptNext, Answer, NoAnswer, DrainOne, Drained, handler
  <2> QED BY <1>1, <2>1, Zenon
<1>6. CASE Engine
  BY <1>1, <1>6, Zenon DEF Engine, EngineTop, Pop, PopFails, LoadDone, CheckEmpty, handler
<1>7. CASE UNCHANGED allVars BY <1>1, <1>7, Zenon DEF allVars, handler
<1> QED BY <1>2, <1>3, <1>4, <1>5, <1>6, <1>7, Zenon DEF PipelineNext

\* The handler's count of published events is the number of events that entered
\* the ring, and in the end of those the engine consumed: --expect is compared
\* with it and produced_count exports it.  It is greater only after a signal.
THEOREM CountsAlwaysAgree == PipelineSpec => []CountsAgree
<1>1. PipelineInit => CountInv BY DEF PipelineInit, CountInv
<1>2. FeedInv /\ DrainInv /\ CountInv /\ [PipelineNext]_allVars => CountInv' BY StepCounts, Zenon
<1>3. FeedInv /\ DrainInv /\ CountInv => CountsAgree
  BY AllTaken, Zenon DEF CountInv, CountsAgree
<1> QED BY <1>1, <1>2, <1>3, DrainInvariant, FeedInvariant, PTL DEF PipelineSpec

-----------------------------------------------------------------------------
(* The history: append() keeps the retained window in place and fetch()    *)
(* returns exactly what is retained of a range, for every ring size.       *)

Retained(f) == Retains(H, ring, oldest, newest, f)

LEMMA HistoryStarts == ASSUME HistoryInit, NEW f PROVE Retained(f)
BY HistoryAssumption, Zenon DEF HistoryInit, Retained, Retains

LEMMA AppendKeeps ==
    ASSUME NEW f \in Nat \ {0}, Retained(f), append(IF newest = 0 THEN f ELSE newest + 1)
    PROVE  Retained(f)' /\ oldest' >= oldest /\ newest' >= newest
<1> DEFINE s == IF newest = 0 THEN f ELSE newest + 1
<1>1. Stores(H, ring, oldest, newest, f, s, oldest', ring') /\ newest' = s
  BY Zenon DEF append, Stores
<1>2. Retains(H, ring, oldest, newest, f) /\ H \in Nat \ {0} BY HistoryAssumption, Zenon DEF Retained
<1> HIDE DEF s
<1>3. Retains(H, ring', oldest', s, f) /\ oldest' >= oldest /\ s >= newest
  BY <1>1, <1>2, NextNumber, Zenon
<1> QED BY <1>1, <1>3, Zenon DEF Retained

LEMMA FetchExact ==
    ASSUME NEW f, Retained(f), NEW from \in Nat, NEW to \in Nat, from <= to
    PROVE  fetch(from, to, to - from + 1) =
             {s \in from .. to : newest # 0 /\ s >= oldest /\ s <= newest}
<1> DEFINE kept == {s \in from .. to : newest # 0 /\ s >= oldest /\ s <= newest}
           all == {k \in from .. to : /\ newest # 0 /\ k >= oldest /\ k <= newest
                                      /\ before(k, from) < to - from + 1}
<1>1. all = kept BY DEF before, Retained, Retains
<1>2. fetch(from, to, to - from + 1) = {ring[s % H] : s \in all} BY Zenon DEF fetch
<1>3. \A s \in kept : s \in oldest .. newest BY DEF Retained, Retains
<1>4. \A s \in kept : ring[s % H] = s BY <1>3, Zenon DEF Retained, Retains
<1> HIDE DEF kept
<1>5. {ring[s % H] : s \in kept} = kept BY <1>4, Zenon
<1> QED BY <1>1, <1>2, <1>5, Zenon DEF kept

-----------------------------------------------------------------------------
(* The handler between two packets *)

\* Where the sequencer stands at each point of the handler's loop.
PacketInv ==
    /\ Retained(FirstSeq)
    /\ Recovering => /\ Hole /\ hpc \in {"accept", "drain"}
                     /\ hpc = "accept" => packet.lo = range.to + 2
    /\ ~Recovering =>
          /\ hpc \in {"top", "recv"} => Clean
          /\ hpc = "accept" => Clean \/ (started /\ Front(packet.lo))
          /\ hpc \in {"drain", "push"} => \E p \in Nat : Front(p)

\* The sequencer does not move.
LEMMA StaysPut ==
    ASSUME UNCHANGED <<buffer, expected, range>>
    PROVE  /\ Clean' <=> Clean
           /\ Hole' <=> Hole
           /\ Recovering' <=> Recovering
           /\ \A p : Front(p)' <=> Front(p)
BY Zenon DEF Clean, Hole, Recovering, Front

\* The history moves with Publish only.
LEMMA HistoryKeeps ==
    ASSUME FeedInv, Retained(FirstSeq), [PipelineNext]_allVars
    PROVE  /\ Retained(FirstSeq)' /\ oldest' >= oldest /\ newest' >= newest
           /\ ~Publish => UNCHANGED history
<1>1. CASE Publish
  <2>1. append(IF newest = 0 THEN FirstSeq ELSE newest + 1)
    <3>1. latest + 1 = IF newest = 0 THEN FirstSeq ELSE newest + 1
      BY Sizes DEF latest, Retained, Retains
    <3> QED BY <1>1, <3>1, Zenon DEF Publish
  <2> QED BY <1>1, <2>1, Sizes, AppendKeeps, Zenon
<1>2. CASE ~Publish
  <2>1. UNCHANGED history
    <3>1. CASE Exchange BY <1>2, <3>1, Zenon DEF Exchange, SendFails, FlushFull, EndOfFeed
    <3>2. CASE Handler
      BY <3>2, Zenon DEF Handler, HandlerTop, ReceiveTimeout, ReceiveFails, ReceiveMalformed,
                  Receive, AcceptNext, Answer, NoAnswer, DrainOne, Drained, Push, exchange
    <3>3. CASE Pop BY <3>3, Zenon DEF Pop, exchange
    <3>4. CASE UNCHANGED <<exchange, wire, sequencer, handler, shm, popped>>
      BY <3>4, Zenon DEF exchange
    <3> QED BY <3>1, <3>2, <3>3, <3>4, StepKinds, Zenon
  <2> QED BY <1>2, <2>1 DEF history, Retained, Retains
<1> QED BY <1>1, <1>2, Zenon

\* What an answer holds: of the outstanding chunk, exactly what is retained.
LEMMA ChunkFetched ==
    ASSUME FeedInv, Retained(FirstSeq), Recovering, Hole
    PROVE  /\ fetch(range.start, End, End - range.start + 1) =
                {s \in range.start .. End : newest # 0 /\ s >= oldest /\ s <= newest}
           /\ range.start \in Nat /\ End \in Nat /\ range.start <= End /\ End <= range.to
<1>1. range.start \in Nat /\ range.to \in Nat /\ range.start <= range.to /\ KBatch \in Nat \ {0}
  BY Size, Zenon DEF FeedInv, SeqInv, Hole
<1>2. End \in Nat /\ range.start <= End /\ End <= range.to BY <1>1 DEF End
<1> QED BY <1>1, <1>2, FetchExact, Zenon

LEMMA AcceptPacket == ASSUME FeedInv, PacketInv, AcceptNext, Retained(FirstSeq)' PROVE PacketInv'
<1> DEFINE s == packet.lo
<1>1. /\ SeqInv /\ Accept(s) /\ ~Recovering /\ started' = TRUE
      /\ hpc = "accept" /\ hpc' \in {"accept", "drain"}
      /\ hpc' = "accept" => packet' = [packet EXCEPT !.lo = s + 1]
      /\ Sound(packet)
  BY Zenon DEF FeedInv, AcceptNext, Accept
<1>2. s \in Nat /\ (hpc' = "accept" => packet'.lo = s + 1) BY <1>1, Zenon DEF Sound
<1>3. Clean \/ (started /\ Front(s)) BY <1>1, Zenon DEF PacketInv
<1>4. \E m \in Nat : m = s BY <1>2, Zenon
<1> HIDE DEF s
<1>5. PICK m \in Nat : m = s BY <1>4, Zenon
<1>6. \/ Clean' /\ ~Recovering' /\ \E p \in Nat : Front(p)'
      \/ Front(m + 1)' /\ ~Recovering'
      \/ Hole' /\ Recovering' /\ range'.to = m - 1
  BY <1>1, <1>3, <1>5, AcceptEffect, Zenon
<1>7. hpc' = "accept" => packet'.lo = m + 1 BY <1>2, <1>5, Zenon
<1>8. CASE Clean' /\ ~Recovering' /\ \E p \in Nat : Front(p)'
  BY <1>1, <1>8, Zenon DEF PacketInv
<1>9. CASE Front(m + 1)' /\ ~Recovering'
  <2>1. hpc' = "accept" => Front(packet.lo)' BY <1>7, <1>9, Zenon DEF Front
  <2>2. \E p \in Nat : Front(p)' BY <1>9
  <2> QED BY <1>1, <1>9, <2>1, <2>2, Zenon DEF PacketInv
<1>10. CASE Hole' /\ Recovering' /\ range'.to = m - 1
  <2>1. hpc' = "accept" => packet'.lo = range'.to + 2 BY <1>7, <1>10
  <2> QED BY <1>1, <1>10, <2>1, Zenon DEF PacketInv
<1> QED BY <1>6, <1>8, <1>9, <1>10, Zenon

LEMMA AnswerPacket ==
    ASSUME FeedInv, PacketInv, Answer \/ NoAnswer, Retained(FirstSeq)' PROVE PacketInv'
<1> DEFINE msgs == fetch(range.start, End, End - range.start + 1)
<1>1. /\ SeqInv /\ Recovering /\ Hole /\ UNCHANGED <<hpc, packet>>
      /\ hpc \in {"accept", "drain"} /\ (hpc = "accept" => packet.lo = range.to + 2)
      /\ Retained(FirstSeq) /\ (Reply(msgs) \/ RequestFails)
  BY Zenon DEF FeedInv, PacketInv, Answer, NoAnswer, Reply, RequestFails, handler
<1>2. msgs \in SUBSET Nat /\ \A m \in msgs : m <= range.to
  <2>1. /\ msgs \subseteq range.start .. End /\ range.start \in Nat /\ End \in Nat
        /\ End <= range.to
    BY <1>1, ChunkFetched, Zenon
  <2>2. range.to \in Nat BY <1>1, Zenon DEF SeqInv
  <2> HIDE DEF msgs
  <2> QED BY <2>1, <2>2
<1> HIDE DEF msgs
<1>3. PICK p \in Nat : p = range.to + 2
  <2>1. range.to + 2 \in Nat BY <1>1 DEF SeqInv
  <2> QED BY <2>1, Zenon
<1>4. \/ Hole' /\ Recovering' /\ range'.to = range.to
      \/ Front(p)' /\ ~Recovering'
  BY <1>1, <1>2, <1>3, AnswerEffect, Zenon
<1>5. started' = started /\ started BY <1>1, Zenon DEF Reply, RequestFails, SeqInv
<1>6. CASE Hole' /\ Recovering' /\ range'.to = range.to BY <1>1, <1>6, Zenon DEF PacketInv
<1>7. CASE Front(p)' /\ ~Recovering'
  <2>1. hpc' = "accept" => Front(packet.lo)' BY <1>1, <1>3, <1>7, Zenon DEF Front
  <2> QED BY <1>1, <1>5, <1>7, <2>1, Zenon DEF PacketInv
<1> QED BY <1>4, <1>6, <1>7, Zenon

LEMMA DrainPacket ==
    ASSUME FeedInv, PacketInv, DrainOne \/ Drained, Retained(FirstSeq)' PROVE PacketInv'
<1>1. SeqInv /\ hpc = "drain" BY Zenon DEF FeedInv, DrainOne, Drained
<1>2. CASE DrainOne
  <2>1. PICK n \in 0 .. N : Deliver(n) BY <1>2, SMTT(40) DEF DrainOne
  <2>2. ~Recovering /\ range' = range /\ hpc' = "push" BY <1>2, <2>1, Zenon DEF DrainOne, Deliver
  <2>3. PICK p \in Nat : Front(p) BY <1>1, <2>2, Zenon DEF PacketInv
  <2>4. Front(p)' BY <1>1, <2>1, <2>3, DeliverEffect, Zenon
  <2> QED BY <2>2, <2>4, Zenon DEF PacketInv, Recovering
<1>3. CASE Drained
  <2>1. PICK n \in 0 .. N : NothingToDeliver(n) BY <1>3, SMTT(40) DEF Drained
  <2>2. ~Recovering /\ range' = range /\ hpc' \in {"done", "top"}
    BY <1>3, <2>1, Zenon DEF Drained, NothingToDeliver
  <2>3. PICK p \in Nat : Front(p) BY <1>1, <2>2, Zenon DEF PacketInv
  <2>4. Clean' BY <1>1, <2>1, <2>3, NothingEffect, Zenon
  <2> QED BY <2>2, <2>4, Zenon DEF PacketInv, Recovering
<1> QED BY <1>2, <1>3, Zenon

\* A step that leaves the sequencer and what is left of the packet alone.
LEMMA IdlePacket ==
    ASSUME PacketInv, Retained(FirstSeq)', UNCHANGED sequencer,
           \/ UNCHANGED <<hpc, packet>>
           \/ hpc = "push" /\ hpc' = "drain"
           \/ hpc \in {"top", "recv"} /\ hpc' \in {"top", "recv", "accept", "done"}
    PROVE  PacketInv'
<1>1. UNCHANGED <<buffer, expected, range, started>> BY Zenon DEF sequencer, vars
<1>2. /\ Clean' <=> Clean
      /\ Hole' <=> Hole
      /\ Recovering' <=> Recovering
      /\ \A p : Front(p)' <=> Front(p)
  BY <1>1, StaysPut, Zenon
<1>3. CASE UNCHANGED <<hpc, packet>>
  <2>1. Front(packet.lo)' <=> Front(packet.lo) BY <1>1, <1>3, Zenon DEF Front
  <2> QED BY <1>1, <1>2, <1>3, <2>1, Zenon DEF PacketInv
<1>4. CASE hpc = "push" /\ hpc' = "drain" BY <1>1, <1>2, <1>4, Zenon DEF PacketInv
<1>5. CASE hpc \in {"top", "recv"} /\ hpc' \in {"top", "recv", "accept", "done"}
  BY <1>1, <1>2, <1>5, Zenon DEF PacketInv
<1> QED BY <1>3, <1>4, <1>5, Zenon

LEMMA PacketStep == ASSUME FeedInv, PacketInv, [PipelineNext]_allVars PROVE PacketInv'
<1>1. Retained(FirstSeq)' BY HistoryKeeps, SMTT(40) DEF PacketInv
<1>2. CASE Exchange
  BY <1>1, <1>2, IdlePacket, SMTT(40) DEF Exchange, Publish, SendFails, FlushFull, EndOfFeed, handler
<1>3. CASE HandlerTop \/ ReceiveTimeout \/ ReceiveFails \/ ReceiveMalformed
           \/ \E p \in wire, again \in BOOLEAN : Receive(p, again)
  BY <1>1, <1>3, IdlePacket, Zenon
  DEF HandlerTop, ReceiveTimeout, ReceiveFails, ReceiveMalformed, Receive
<1>4. CASE Push BY <1>1, <1>4, IdlePacket, Zenon DEF Push
<1>5. CASE Handler
  BY <1>1, <1>3, <1>4, <1>5, AcceptPacket, AnswerPacket, DrainPacket, Zenon DEF Handler
<1>6. CASE Pop BY <1>1, <1>6, IdlePacket, Zenon DEF Pop, handler
<1>7. CASE UNCHANGED <<exchange, wire, sequencer, handler, shm, popped>>
  BY <1>1, <1>7, IdlePacket, Zenon DEF handler
<1> QED BY <1>2, <1>5, <1>6, <1>7, StepKinds, Zenon

LEMMA PacketStarts == PipelineInit => PacketInv
<1> SUFFICES ASSUME PipelineInit PROVE PacketInv BY Zenon
<1>1. Retained(FirstSeq) BY HistoryStarts, Zenon DEF PipelineInit
<1>2. Clean /\ ~Recovering BY Zenon DEF PipelineInit, Init, Clean, Recovering
<1> QED BY <1>1, <1>2, Zenon DEF PacketInv, PipelineInit

\* While a packet is processed the reorder buffer is held without a hole, or one
\* recovery is under way below the message that revealed it; between packets it
\* is empty (the handler's receive, accept and drain loop).
THEOREM PacketInvariant == PipelineSpec => []PacketInv
<1>1. FeedInv /\ PacketInv /\ [PipelineNext]_allVars => PacketInv' BY PacketStep, Zenon
<1> QED BY <1>1, PacketStarts, FeedInvariant, PTL DEF PipelineSpec

\* The handler waits for a packet with an empty reorder buffer: nothing that was
\* received is held up until the next packet arrives.
THEOREM BufferDrained == PipelineSpec => []DrainedClean
<1>1. PacketInv => DrainedClean BY Zenon DEF PacketInv, DrainedClean, Clean
<1> QED BY <1>1, PacketInvariant, PTL

-----------------------------------------------------------------------------
(* What ends the promise: a failed request, an overflow, a signal. *)

\* Recovery works, the window was never exceeded and nobody interrupted the
\* handler.
Steady == connected /\ stats["reorder_overflows"] = 0 /\ ~stop["handler"]

SteadyInv ==
    /\ connected => recovery
    /\ stats["reorder_overflows"] \in Nat
    /\ stop \in [{"handler", "engine"} -> BOOLEAN]
    /\ started => first \in Nat

\* What once ended it has ended it for good.
LEMMA SteadyStep ==
    ASSUME FeedInv, SteadyInv, [PipelineNext]_allVars
    PROVE  SteadyInv' /\ (Steady' => Steady)
<1> DEFINE c == "reorder_overflows"
<1>1. stop' \in [{"handler", "engine"} -> BOOLEAN] /\ (stop["handler"] => stop'["handler"])
  <2>1. CASE \E p \in {"handler", "engine"} : Signal(p) BY <2>1, Zenon DEF SteadyInv, Signal
  <2>2. CASE Exchange
    BY <2>2, Zenon DEF SteadyInv, Exchange, Publish, SendFails, FlushFull, EndOfFeed
  <2>3. CASE Handler
    BY <2>3, Zenon DEF SteadyInv, Handler, HandlerTop, ReceiveTimeout, ReceiveFails, ReceiveMalformed,
                Receive, AcceptNext, Answer, NoAnswer, DrainOne, Drained, Push
  <2>4. CASE Engine
    BY <2>4, Zenon DEF SteadyInv, Engine, EngineTop, Pop, PopFails, LoadDone, CheckEmpty
  <2>5. CASE UNCHANGED allVars BY <2>5, Zenon DEF SteadyInv, allVars
  <2> QED BY <2>1, <2>2, <2>3, <2>4, <2>5, Zenon DEF PipelineNext
<1>2. ASSUME UNCHANGED <<sequencer, connected>>
      PROVE  SteadyInv' /\ (Steady' => Steady)
  BY <1>1, <1>2, Zenon DEF SteadyInv, Steady, sequencer, vars
<1>3. ASSUME UNCHANGED <<recovery, connected>>, stats'[c] = stats[c] \/ stats'[c] = stats[c] + 1,
             started' => first' \in Nat
      PROVE  SteadyInv' /\ (Steady' => Steady)
  BY <1>1, <1>3 DEF SteadyInv, Steady
<1>4. CASE AcceptNext
  <2>1. /\ Accept(packet.lo) /\ packet.lo \in Nat /\ UNCHANGED <<recovery, connected>>
        /\ started' => first' \in Nat
    BY <1>4, Zenon DEF AcceptNext, FeedInv, Sound, Accept, SteadyInv
  <2>2. \E e : \/ AcceptStale(packet.lo, e) \/ AcceptOverflow(packet.lo, e)
              \/ AcceptInWindow(packet.lo, e)
    BY <2>1, Zenon DEF Accept
  <2>3. stats'[c] = stats[c] \/ stats'[c] = stats[c] + 1
    BY <2>2, OverflowCounted, OverflowElsewhere, Zenon
  <2> QED BY <1>3, <2>1, <2>3, Zenon
<1>5. CASE Answer \/ DrainOne \/ Drained
  <2>1. UNCHANGED <<recovery, connected, started, first>>
    BY <1>5, SMTT(40) DEF Answer, Reply, DrainOne, Deliver, Drained, NothingToDeliver, handler
  <2>2. stats'[c] = stats[c] BY <1>5, OverflowElsewhere, Zenon DEF Answer, DrainOne, Drained
  <2> QED BY <1>3, <2>1, <2>2, Zenon DEF SteadyInv
<1>6. CASE NoAnswer
  <2>1. UNCHANGED <<recovery, started, first>> /\ connected' = FALSE
    BY <1>6, SMTT(40) DEF NoAnswer, RequestFails
  <2>2. stats'[c] = stats[c] BY <1>6, OverflowElsewhere, SMTT(40) DEF NoAnswer
  <2> QED BY <1>1, <2>1, <2>2, Zenon DEF SteadyInv, Steady
<1>7. CASE Exchange
  BY <1>2, <1>7, SMTT(40) DEF Exchange, Publish, SendFails, FlushFull, EndOfFeed, handler
<1>8. CASE Handler
  BY <1>2, <1>4, <1>5, <1>6, <1>8, SMTT(40) DEF Handler, HandlerTop, ReceiveTimeout, ReceiveFails,
     ReceiveMalformed, Receive, Push
<1>9. CASE Pop \/ UNCHANGED <<exchange, wire, sequencer, handler, shm, popped>>
  BY <1>2, <1>9, Zenon DEF Pop, handler
<1> QED BY <1>7, <1>8, <1>9, StepKinds, Zenon

-----------------------------------------------------------------------------
(* What the handler has passed, or will pass, without the message. *)

Excused(s) == s \in Pushed \/ s < oldest \/ (hpc = "push" /\ s = event)

\* A mark in the window, and a number of the gap that its chunk did not bring,
\* belongs to a message that had aged out of the history.
PassedInv == \A s \in first .. expected - 1 : Excused(s)
MarksInv == \A t \in expected .. expected + N - 1 : State(buffer, t) = "Skipped" => t < oldest
RangeInv ==
    Recovering =>
        /\ range.to < newest
        /\ \A t \in range.from .. range.start - 1 : State(buffer, t) # "Empty" \/ t < oldest

LossInv == Steady /\ started => PassedInv /\ MarksInv /\ RangeInv

\* A step that leaves the sequencer alone and gives up no number.
LEMMA IdleLoss ==
    ASSUME SeqInv, LossInv, UNCHANGED sequencer, Steady' => Steady,
           oldest \in Nat, newest \in Nat, oldest' \in Nat, newest' \in Nat,
           oldest' >= oldest, newest' >= newest, started => first \in Nat,
           Steady' => \A s \in Int : s \in Pushed \/ (hpc = "push" /\ s = event) => Excused(s)'
    PROVE  LossInv'
<1>1. UNCHANGED <<buffer, expected, range, started, first>> BY Zenon DEF sequencer, vars
<1>2. SUFFICES ASSUME Steady', started' PROVE PassedInv' /\ MarksInv' /\ RangeInv'
  BY Zenon DEF LossInv
<1>3. Steady /\ started /\ PassedInv /\ MarksInv /\ RangeInv BY <1>1, <1>2, Zenon DEF LossInv
<1>4. expected \in Nat /\ first \in Nat /\ range \in [from : Nat, to : Nat, start : Nat] /\ N \in Nat
  BY <1>3, Size, Zenon DEF SeqInv
<1>5. PassedInv'
  <2> SUFFICES ASSUME NEW s \in first .. expected - 1 PROVE Excused(s)'
    BY <1>1, Zenon DEF PassedInv
  <2>1. s \in Int /\ Excused(s) BY <1>3, <1>4 DEF PassedInv
  <2>2. s < oldest => s < oldest' BY <2>1
  <2> QED BY <1>2, <2>1, <2>2, Zenon DEF Excused
<1>6. MarksInv'
  <2> SUFFICES ASSUME NEW t \in expected .. expected + N - 1, State(buffer, t) = "Skipped"
               PROVE  t < oldest'
    BY <1>1, Zenon DEF MarksInv, State
  <2>1. t \in Int /\ t < oldest BY <1>3, <1>4 DEF MarksInv
  <2> QED BY <2>1
<1>7. RangeInv'
  <2> SUFFICES ASSUME Recovering
               PROVE  /\ range.to < newest'
                      /\ \A t \in range.from .. range.start - 1 :
                             State(buffer, t) # "Empty" \/ t < oldest'
    BY <1>1, Zenon DEF RangeInv, Recovering, State
  <2>1. range.to \in Nat /\ range.from \in Nat /\ range.start \in Nat BY <1>4, Zenon
  <2> QED BY <1>3, <2>1, SMTT(40) DEF RangeInv
<1> QED BY <1>5, <1>6, <1>7, Zenon

\* accept() marks nothing while there is a connection, and a gap lies below a
\* number the exchange has published.
LEMMA AcceptLoss ==
    ASSUME FeedInv, SteadyInv, LossInv, AcceptNext, SteadyInv', Steady' => Steady
    PROVE  LossInv'
<1> DEFINE s == packet.lo
           e == IF started THEN expected ELSE s
<1>1. /\ SeqInv /\ Accept(s) /\ s \in Nat /\ s >= FirstSeq /\ s <= latest /\ ~Recovering
      /\ hpc = "accept" /\ UNCHANGED <<history, Pushed>>
      /\ buffer \in BufferType /\ N \in Nat \ {0} /\ e \in Nat
  BY Size, Zenon DEF FeedInv, AcceptNext, Sound, Numbered, Accept, exchange, SeqInv, BufferType, Pushed
<1>2. SUFFICES ASSUME Steady' PROVE PassedInv' /\ MarksInv' /\ RangeInv'
  BY Zenon DEF LossInv
<1>3. Steady /\ recovery BY <1>2, Zenon DEF SteadyInv, Steady
<1>4. s < newest + 1 /\ newest \in Nat BY <1>1, Sizes, SMTT(40) DEF latest, FeedInv, ExchangeInv
<1>5. /\ first' = IF started THEN first ELSE s
      /\ AcceptStale(s, e) \/ AcceptOverflow(s, e) \/ AcceptInWindow(s, e)
      /\ started => first \in Nat
  BY <1>1, Zenon DEF Accept, SteadyInv
<1>6. started => PassedInv /\ MarksInv BY <1>3, SMTT(40) DEF LossInv
<1>7. ~started => \A t \in e .. e + N - 1 : State(buffer, t) = "Empty"
  <2>1. \A t \in e .. e + N - 1 : t % N \in Slots BY <1>1, SlotOfSeq
  <2> QED BY <1>1, <2>1, Zenon DEF SeqInv, State
<1>8. e = expected \/ (~started /\ e = s) BY Zenon
<1>9. started => e = expected BY Zenon
<1>10. UNCHANGED <<oldest, newest>> BY <1>1, Zenon DEF history
<1> HIDE DEF s, e
<1>11. ASSUME expected' = e PROVE PassedInv'
  <2>1. CASE started
    <3>1. \A i \in first .. expected - 1 : i \in Pushed \/ i < oldest
      BY <1>1, <1>6, <2>1, Zenon DEF PassedInv, Excused
    <3>2. first' = first /\ expected' = expected BY <1>5, <1>9, <1>11, <2>1, Zenon
    <3> QED BY <1>1, <1>10, <3>1, <3>2, Zenon DEF PassedInv, Excused
  <2>2. CASE ~started
    <3>1. first' = s /\ expected' = s BY <1>5, <1>8, <1>9, <1>11, <2>2, Zenon DEF e
    <3>2. s .. s - 1 = {} BY <1>1
    <3> QED BY <3>1, <3>2, Zenon DEF PassedInv
  <2> QED BY <2>1, <2>2, Zenon
<1>12. \A t \in e .. e + N - 1 : State(buffer, t) = "Skipped" => t < oldest
  BY <1>6, <1>7, <1>9, Zenon DEF MarksInv
<1>13. CASE AcceptStale(s, e)
  <2>1. expected' = e /\ UNCHANGED <<buffer, range>> BY <1>13, Zenon DEF AcceptStale
  <2> QED BY <1>1, <1>10, <1>11, <1>12, <2>1, Zenon DEF MarksInv, RangeInv, Recovering
<1>14. CASE AcceptOverflow(s, e)
  <2>1. stats'["reorder_overflows"] = stats["reorder_overflows"] + 1 BY <1>14, OverflowCounted, Zenon
  <2> QED BY <1>2, <1>3, <2>1 DEF Steady
<1>15. CASE AcceptInWindow(s, e)
  <2> DEFINE stored == IF State(buffer, s) = "Filled" THEN buffer ELSE Store(buffer, s)
  <2>1. expected' = e /\ s \in e .. e + N - 1
    BY <1>1, <1>15 DEF AcceptInWindow, InWindow
  <2>2. \A t \in e .. e + N - 1 :
          State(stored, t) = IF t = s THEN "Filled" ELSE State(buffer, t)
    BY <1>1, <2>1, StoreState, SMTT(40)
  <2>3. /\ buffer' = stored
        /\ range' = range \/ range' = [from |-> e, to |-> s - 1, start |-> e]
    BY <1>3, <1>15, Zenon DEF AcceptInWindow
  <2> HIDE DEF stored
  <2>4. MarksInv' BY <1>10, <1>12, <2>1, <2>2, <2>3, SMTT(40) DEF MarksInv
  <2>5. RangeInv'
    <3>1. CASE range' = range BY <1>1, <3>1, Zenon DEF RangeInv, Recovering
    <3>2. CASE range' = [from |-> e, to |-> s - 1, start |-> e]
      <4>1. range'.to = s - 1 /\ range'.from = e /\ range'.start = e BY <3>2, Zenon
      <4>2. e .. e - 1 = {} BY <1>1
      <4> QED BY <1>1, <1>4, <1>10, <4>1, <4>2 DEF RangeInv
    <3> QED BY <2>3, <3>1, <3>2, Zenon
  <2> QED BY <1>11, <2>1, <2>4, <2>5, SMTT(40)
<1> QED BY <1>5, <1>13, <1>14, <1>15, Zenon

\* An answer brings of its chunk all that has not aged out.
LEMMA AnswerLoss ==
    ASSUME FeedInv, PacketInv, LossInv, Answer, Steady' => Steady
    PROVE  LossInv'
<1> DEFINE msgs == fetch(range.start, End, End - range.start + 1)
           filled == Fill(buffer, expected, msgs)
           W == expected .. expected + N - 1
<1>1. /\ SeqInv /\ Recovering /\ Hole /\ Reply(msgs) /\ Retained(FirstSeq)
      /\ UNCHANGED <<history, Pushed, hpc, event>>
      /\ UNCHANGED <<expected, started, first>>
  BY Zenon DEF FeedInv, PacketInv, Answer, Reply, exchange, handler, Pushed
<1>2. /\ expected \in Nat /\ N \in Nat \ {0} /\ KBatch \in Nat \ {0} /\ buffer \in BufferType
      /\ range.from \in Nat /\ range.to \in Nat /\ range.start \in Nat /\ started
      /\ Placed(buffer, expected) /\ oldest \in Nat /\ newest \in Nat
  BY <1>1, Size, Zenon DEF SeqInv, BufferType, Retained, Retains
<1>3. /\ range.from = expected /\ range.start >= expected /\ range.start <= range.to
      /\ range.to + 1 < expected + N
  BY <1>1, Zenon DEF Hole
<1>4. SUFFICES ASSUME Steady' PROVE PassedInv' /\ MarksInv' /\ RangeInv'
  BY Zenon DEF LossInv
<1>5. PassedInv /\ MarksInv /\ RangeInv BY <1>2, <1>4, Zenon DEF LossInv
<1>6. /\ msgs = {t \in range.start .. End : newest # 0 /\ t >= oldest /\ t <= newest}
      /\ End \in Nat /\ End <= range.to
  BY <1>1, ChunkFetched, Zenon
<1>7. range.to < newest BY <1>1, <1>5, Zenon DEF RangeInv
<1>8. msgs \in SUBSET Nat /\ \A t \in range.start .. End : t \in msgs \/ t < oldest
  <2> HIDE DEF msgs
  <2> QED BY <1>2, <1>6, <1>7
<1>9. \A t \in W : State(filled, t) = IF t \in msgs THEN "Filled" ELSE State(buffer, t)
  <2> HIDE DEF msgs
  <2> QED BY <1>2, <1>8, FillState
<1>10. filled \in BufferType
  <2> HIDE DEF msgs
  <2> QED BY <1>2, <1>8, FillKeeps, Zenon
<1>11. \/ /\ buffer' = filled /\ range' = [range EXCEPT !.start = @ + KBatch]
          /\ range.start + KBatch <= range.to
       \/ /\ buffer' = Skip(filled, range.from, range.to) /\ range' = NoRange
          /\ ~ (range.start + KBatch <= range.to)
  BY <1>1, Zenon DEF Reply, Finish
<1> HIDE DEF filled, msgs
<1>12. \A t \in range.from .. End : State(filled, t) # "Empty" \/ t < oldest
  <2> TAKE t \in range.from .. End
  <2>1. t \in W /\ t \in Int BY <1>2, <1>3, <1>6
  <2>2. CASE t < range.start BY <1>1, <1>2, <1>5, <1>9, <2>1, <2>2 DEF RangeInv
  <2>3. CASE t >= range.start BY <1>2, <1>6, <1>8, <1>9, <2>1, <2>3
  <2> QED BY <1>2, <2>1, <2>2, <2>3
<1>13. \A t \in W : State(filled, t) = "Skipped" => t < oldest BY <1>5, <1>9, Zenon DEF MarksInv
<1>14. PassedInv' BY <1>1, <1>5, Zenon DEF PassedInv, Excused, history
<1>15. UNCHANGED <<oldest, newest>> BY <1>1, Zenon DEF history
<1>16. CASE /\ buffer' = filled /\ range' = [range EXCEPT !.start = @ + KBatch]
            /\ range.start + KBatch <= range.to
  <2>1. MarksInv' BY <1>1, <1>13, <1>15, <1>16, Zenon DEF MarksInv
  <2>2. /\ range'.from = range.from /\ range'.to = range.to
        /\ range'.start = range.start + KBatch
    BY <1>1, <1>16, Zenon DEF SeqInv
  <2>3. range.start + KBatch - 1 = End BY <1>2, <1>16 DEF End
  <2>4. \A t \in range'.from .. range'.start - 1 : State(buffer', t) # "Empty" \/ t < oldest
    <3>1. range'.from .. range'.start - 1 = range.from .. End BY <1>2, <2>2, <2>3
    <3> QED BY <1>12, <1>16, <3>1, Zenon
  <2>5. RangeInv' BY <1>7, <1>15, <2>2, <2>4, SMTT(40) DEF RangeInv
  <2> QED BY <1>14, <2>1, <2>5, Zenon
<1>17. CASE /\ buffer' = Skip(filled, range.from, range.to) /\ range' = NoRange
            /\ ~ (range.start + KBatch <= range.to)
  <2>1. End = range.to BY <1>2, <1>17 DEF End
  <2>2. range.to \in Int /\ range.to < expected + N BY <1>2, <1>3
  <2>3. \A t \in W : State(buffer', t) = IF t <= range.to /\ State(filled, t) = "Empty"
                                         THEN "Skipped" ELSE State(filled, t)
    BY <1>2, <1>3, <1>10, <1>17, <2>2, SkipState
  <2>4. \A t \in W : State(buffer', t) = "Skipped" => t < oldest
    <3> TAKE t \in W
    <3>1. t <= range.to => t \in range.from .. End BY <1>2, <1>3, <2>1
    <3> QED BY <1>12, <1>13, <2>3, <3>1, Zenon
  <2>5. MarksInv' BY <1>1, <1>15, <2>4, Zenon DEF MarksInv
  <2>6. RangeInv' BY <1>17, Zenon DEF RangeInv, Recovering
  <2> QED BY <1>14, <2>5, <2>6, Zenon
<1> QED BY <1>11, <1>16, <1>17, Zenon

\* next_deliverable passes over marks, whose messages had aged out, and hands
\* the message it stops at to the push.
LEMMA DrainLoss ==
    ASSUME FeedInv, SteadyInv, LossInv, DrainOne \/ Drained, Steady' => Steady,
           oldest \in Nat
    PROVE  LossInv'
<1>1. /\ SeqInv /\ hpc = "drain" /\ UNCHANGED <<history, Pushed>>
      /\ expected \in Nat /\ N \in Nat \ {0} /\ oldest' = oldest
  BY Size, Zenon DEF FeedInv, DrainOne, Drained, exchange, history, SeqInv, Pushed
<1>2. SUFFICES ASSUME Steady', started' PROVE PassedInv' /\ MarksInv' /\ RangeInv'
  BY Zenon DEF LossInv
<1>3. PICK n \in 0 .. N :
        \/ Deliver(n) /\ hpc' = "push" /\ event' = last'
        \/ NothingToDeliver(n)
  BY Zenon DEF DrainOne, Drained
<1>4. /\ started /\ ~Recovering /\ UNCHANGED <<range, first>> /\ Skips(n) /\ n \in Nat /\ n <= N
  BY <1>1, <1>3 DEF Deliver, NothingToDeliver
<1>5. PassedInv /\ MarksInv /\ first \in Nat BY <1>2, <1>4, Zenon DEF LossInv, SteadyInv
<1>6. \A s \in expected .. expected + n - 1 : s < oldest
  <2> TAKE s \in expected .. expected + n - 1
  <2>1. /\ s - expected \in 0 .. n - 1 /\ expected + (s - expected) = s
        /\ s \in expected .. expected + N - 1
    BY <1>1, <1>4
  <2>2. State(buffer, expected + (s - expected)) = "Skipped" BY <1>4, <2>1, Zenon DEF Skips
  <2> QED BY <1>5, <2>1, <2>2, Zenon DEF MarksInv
<1>7. \A s \in first .. expected + n - 1 : s \in Pushed \/ s < oldest
  <2> TAKE s \in first .. expected + n - 1
  <2>1. CASE s < expected
    <3>1. s \in first .. expected - 1 BY <1>1, <1>4, <1>5, <2>1
    <3> QED BY <1>1, <1>5, <3>1, Zenon DEF PassedInv, Excused
  <2>2. CASE s >= expected
    <3>1. s \in expected .. expected + n - 1 BY <1>1, <1>4, <1>5, <2>2
    <3> QED BY <1>6, <3>1, Zenon
  <2> QED BY <1>1, <1>4, <1>5, <2>1, <2>2
<1>8. PICK m \in 0 .. N :
        /\ expected' = expected + m /\ buffer' = Emptied(m)
        /\ m = n \/ (m = n + 1 /\ hpc' = "push" /\ event' = expected + n)
  <2>1. CASE Deliver(n) /\ hpc' = "push" /\ event' = last'
    <3>1. /\ n + 1 \in 0 .. N /\ expected' = expected + (n + 1) /\ buffer' = Emptied(n + 1)
      BY <1>1, <1>4, <2>1 DEF Deliver
    <3>2. event' = expected + n
      <4>1. last' = expected' - 1 BY <1>1, <2>1, DeliverKeeps, Zenon
      <4> QED BY <1>1, <1>4, <2>1, <3>1, <4>1
    <3> QED BY <2>1, <3>1, <3>2, SMTT(40)
  <2>2. CASE NothingToDeliver(n) BY <2>2, Zenon DEF NothingToDeliver
  <2> QED BY <1>3, <2>1, <2>2, Zenon
<1>9. PassedInv'
  <2> SUFFICES ASSUME NEW s \in first .. expected' - 1 PROVE Excused(s)'
    BY <1>4, Zenon DEF PassedInv
  <2>1. s \in first .. expected + n - 1 \/ (s = expected + n /\ hpc' = "push" /\ event' = s)
    BY <1>1, <1>4, <1>5, <1>8, SMTT(40)
  <2> QED BY <1>1, <1>7, <2>1, Zenon DEF Excused
<1>10. MarksInv'
  <2> SUFFICES ASSUME NEW t \in expected' .. expected' + N - 1, State(buffer', t) = "Skipped"
               PROVE  t < oldest
    BY <1>1, Zenon DEF MarksInv
  <2>1. t \in expected + m .. expected + m + N - 1 BY <1>8, Zenon
  <2>2. State(buffer', t) = IF t < expected + N THEN State(buffer, t) ELSE "Empty"
    BY <1>1, <1>8, <2>1, EmptiedState, Zenon
  <2>3. t \in expected .. expected + N - 1 BY <1>1, <2>1, <2>2
  <2> QED BY <1>1, <1>5, <2>2, <2>3, Zenon DEF MarksInv
<1>11. RangeInv' BY <1>4, Zenon DEF RangeInv, Recovering
<1> QED BY <1>9, <1>10, <1>11, SMTT(40)

LEMMA LossStep ==
    ASSUME FeedInv, PacketInv, DrainInv, SteadyInv, LossInv, [PipelineNext]_allVars
    PROVE  LossInv'
<1>1. SteadyInv' /\ (Steady' => Steady) BY SteadyStep, SMTT(40)
<1>2. /\ oldest \in Nat /\ newest \in Nat /\ oldest' \in Nat /\ newest' \in Nat
      /\ oldest' >= oldest /\ newest' >= newest
  BY HistoryKeeps, Zenon DEF PacketInv, Retained, Retains
<1>3. SeqInv /\ (started => first \in Nat) BY Zenon DEF FeedInv, SteadyInv
<1>4. ASSUME UNCHANGED sequencer, UNCHANGED pushed,
             \/ UNCHANGED <<hpc, event>>
             \/ hpc # "push"
      PROVE  LossInv'
  <2>1. \A s \in Int : s \in Pushed \/ (hpc = "push" /\ s = event) => Excused(s)'
    BY <1>4, SMTT(40) DEF Excused, Pushed
  <2> QED BY <1>1, <1>2, <1>3, <1>4, <2>1, IdleLoss, SMTT(40)
<1>5. CASE Exchange
  BY <1>4, <1>5, SMTT(40) DEF Exchange, Publish, SendFails, FlushFull, EndOfFeed, handler
<1>6. CASE HandlerTop \/ ReceiveTimeout \/ ReceiveFails \/ ReceiveMalformed
           \/ \E p \in wire, again \in BOOLEAN : Receive(p, again)
  BY <1>4, <1>6, Zenon DEF HandlerTop, ReceiveTimeout, ReceiveFails, ReceiveMalformed, Receive
<1>7. CASE AcceptNext BY <1>1, <1>7, AcceptLoss, Zenon
<1>8. CASE Answer BY <1>1, <1>8, AnswerLoss, Zenon
<1>9. CASE NoAnswer BY <1>9, Zenon DEF NoAnswer, LossInv, Steady
<1>10. CASE DrainOne \/ Drained BY <1>1, <1>2, <1>10, DrainLoss, Zenon
<1>11. CASE Push
  <2>1. UNCHANGED <<sequencer, event, stop>> BY <1>11, Zenon DEF Push
  <2>2. Pushed' = Pushed \cup {event} \/ (Pushed' = Pushed /\ stop["handler"])
    <3>1. \/ pushed' = Append(pushed, event)
          \/ pushed' = pushed /\ stop["handler"]
      BY <1>11, Zenon DEF Push
    <3>2. CASE pushed' = pushed /\ stop["handler"] BY <3>2, SMTT(40) DEF Pushed
    <3>3. CASE pushed' = Append(pushed, event)
      <4>1. popped \in Seq(Nat) /\ shm \in Seq(Nat) /\ event \in Nat
        BY <1>11, Sizes DEF FeedInv, StreamInv, SeqInv, Push
      <4>2. pushed \in Seq(Nat) BY <4>1 DEF DrainInv
      <4>3. /\ DOMAIN pushed = 1 .. Len(pushed) /\ DOMAIN pushed' = 1 .. Len(pushed) + 1
            /\ Len(pushed) \in Nat /\ pushed'[Len(pushed) + 1] = event
            /\ \A i \in 1 .. Len(pushed) : pushed'[i] = pushed[i]
        BY <3>3, <4>1, <4>2
      <4>4. DOMAIN pushed' = DOMAIN pushed \cup {Len(pushed) + 1} BY <4>3
      <4> QED BY <4>3, <4>4, SMTT(40) DEF Pushed
    <3> QED BY <3>1, <3>2, <3>3, Zenon
  <2>3. Steady' => \A s \in Int : s \in Pushed \/ (hpc = "push" /\ s = event) => Excused(s)'
    BY <2>1, <2>2, Zenon DEF Excused, Steady
  <2> QED BY <1>1, <1>2, <1>3, <2>1, <2>3, IdleLoss, Zenon
<1>12. CASE Handler BY <1>6, <1>7, <1>8, <1>9, <1>10, <1>11, <1>12, SMTT(40) DEF Handler
<1>13. CASE Pop \/ UNCHANGED <<exchange, wire, sequencer, handler, shm, popped>>
  BY <1>4, <1>13, Zenon DEF Pop, handler
<1> QED BY <1>5, <1>12, <1>13, StepKinds, Zenon

LEMMA LossStarts == PipelineInit => SteadyInv /\ LossInv
<1> SUFFICES ASSUME PipelineInit PROVE SteadyInv /\ LossInv BY Zenon
<1>1. stats["reorder_overflows"] = 0 BY Zenon DEF PipelineInit, Init, Counters
<1>2. ~started /\ (connected => recovery) BY Zenon DEF PipelineInit, Init
<1>3. stop \in [{"handler", "engine"} -> BOOLEAN] BY Zenon DEF PipelineInit
<1> QED BY <1>1, <1>2, <1>3 DEF SteadyInv, LossInv

\* As long as the recovery connection is up, the reorder window was not exceeded
\* and the handler was not interrupted, every number the stream has moved past
\* entered the ring, is being pushed, or has aged out of the exchange's
\* history, whatever the network lost, repeated or reordered.
THEOREM LossOnlyByAge == PipelineSpec => []LostOnlyIfAgedOut
<1>1. FeedInv /\ PacketInv /\ DrainInv /\ SteadyInv /\ LossInv /\ [PipelineNext]_allVars
        => SteadyInv' /\ LossInv'
  BY SteadyStep, LossStep, Zenon
<1>2. LossInv => LostOnlyIfAgedOut
  BY Zenon DEF LossInv, Steady, PassedInv, Excused, LostOnlyIfAgedOut
<1> QED BY <1>1, <1>2, LossStarts, PacketInvariant, DrainInvariant, FeedInvariant, PTL DEF PipelineSpec
=============================================================================
