----------------------- MODULE SequenceManagerProofs -----------------------
(***************************************************************************)
(* The reorder buffer for every window, every request size and every range *)
(* of sequence numbers: no stale slot, and delivery in order and once,     *)
(* whatever arrives and whatever is retransmitted.                         *)
(***************************************************************************)
EXTENDS SequenceManager, RingArithmetic

BufferType == [Slots -> [state : SlotState, seq : Nat]]

\* The window is not empty.
LEMMA Size == N \in Nat \ {0} /\ KBatch \in Nat \ {0} /\ Seqs \subseteq Nat
BY SequencerAssumption DEF Seqs

\* sequence_number % buffer_.size() is a slot.
LEMMA SlotOfSeq == ASSUME NEW s \in Int PROVE s % N \in Slots
BY Size, SlotRange, Zenon DEF Slots

\* Two numbers of one window share no slot.
LEMMA OwnSlot ==
    \A s, t \in Int : s % N = t % N /\ s - t < N /\ t - s < N => s = t
BY Size, SlotsApart, Zenon

-----------------------------------------------------------------------------
(* What the helpers do to the placement. *)

\* store() of a number of the window.
LEMMA StoreKeeps ==
    ASSUME NEW b \in BufferType, NEW e \in Nat, NEW s \in Nat, Placed(b, e), InWindow(s, e)
    PROVE  Store(b, s) \in BufferType /\ Placed(Store(b, s), e)
           /\ State(Store(b, s), s) = "Filled"
<1>1. s % N \in Slots BY SlotOfSeq
<1>2. Store(b, s) \in BufferType BY <1>1, Zenon DEF Store, BufferType, SlotState
<1>3. ASSUME NEW k \in Slots
      PROVE  Store(b, s)[k] = IF k = s % N THEN [state |-> "Filled", seq |-> s] ELSE b[k]
  BY <1>1, Zenon DEF Store, BufferType
<1>4. s >= e /\ s < e + N BY Size DEF InWindow
<1>5. Placed(Store(b, s), e) BY <1>3, <1>4 DEF Placed
<1> QED BY <1>1, <1>2, <1>3, <1>5 DEF State

\* The loop over recovery_scratch_.
LEMMA FillKeeps ==
    ASSUME NEW b \in BufferType, NEW e \in Nat, NEW msgs \in SUBSET Nat, Placed(b, e)
    PROVE  Fill(b, e, msgs) \in BufferType /\ Placed(Fill(b, e, msgs), e)
<1> DEFINE f == Fill(b, e, msgs)
           F == Fresh(b, e, msgs)
<1>1. ASSUME NEW k \in Slots
      PROVE  f[k] = b[k] \/ \E s \in F : s % N = k /\ f[k] = [state |-> "Filled", seq |-> s]
  BY Zenon DEF Fill
<1>2. \A s \in F : s \in Nat /\ s >= e /\ s < e + N BY Size DEF Fresh, InWindow
<1>3. f = [k \in Slots |-> f[k]] BY Zenon DEF Fill
<1> HIDE DEF f, F
<1>4. f \in BufferType
  <2>1. \A k \in Slots : b[k] \in [state : SlotState, seq : Nat] BY Zenon DEF BufferType
  <2>2. \A k \in Slots : f[k] \in [state : SlotState, seq : Nat]
    <3> TAKE k \in Slots
    <3>1. ASSUME NEW s \in F, f[k] = [state |-> "Filled", seq |-> s]
          PROVE  f[k] \in [state : SlotState, seq : Nat]
      BY <1>2, <3>1 DEF SlotState
    <3> QED BY <1>1, <2>1, <3>1, Zenon
  <2> QED BY <1>3, <2>2, Zenon DEF BufferType
<1>5. Placed(f, e)
  <2> SUFFICES ASSUME NEW k \in Slots, f[k].state = "Filled"
               PROVE  f[k].seq >= e /\ f[k].seq < e + N /\ f[k].seq % N = k
    BY Zenon DEF Placed
  <2>1. CASE f[k] = b[k] BY <2>1, Zenon DEF Placed
  <2>2. ASSUME NEW s \in F, s % N = k, f[k] = [state |-> "Filled", seq |-> s]
        PROVE  f[k].seq >= e /\ f[k].seq < e + N /\ f[k].seq % N = k
    BY <1>2, <2>2
  <2> QED BY <1>1, <2>1, <2>2, Zenon
<1> QED BY <1>4, <1>5, Zenon DEF f

\* The loop that marks what recovery could not supply.
LEMMA SkipKeeps ==
    ASSUME NEW b \in BufferType, NEW e \in Nat, NEW from \in Nat, NEW to \in Int, Placed(b, e)
    PROVE  Skip(b, from, to) \in BufferType /\ Placed(Skip(b, from, to), e)
<1> DEFINE f == Skip(b, from, to)
<1>1. ASSUME NEW k \in Slots
      PROVE  f[k] = b[k] \/ (f[k].state = "Skipped" /\ f[k] \in [state : SlotState, seq : Nat])
  BY Zenon DEF Skip, BufferType, SlotState
<1>2. f \in BufferType BY <1>1, Zenon DEF Skip, BufferType
<1>3. Placed(f, e) BY <1>1, Zenon DEF Placed
<1> QED BY <1>2, <1>3, Zenon

\* expected_ moves on by n over slots it leaves empty.
LEMMA EmptiedKeeps ==
    ASSUME SeqInv, NEW n \in Nat
    PROVE  Emptied(n) \in BufferType /\ Placed(Emptied(n), expected + n)
<1>1. ASSUME NEW k \in Slots
      PROVE  \/ Emptied(n)[k] = buffer[k] /\ \A j \in 0 .. n - 1 : (expected + j) % N # k
             \/ Emptied(n)[k].state = "Empty"
                /\ Emptied(n)[k] \in [state : SlotState, seq : Nat]
  BY Zenon DEF Emptied, SeqInv, SlotState
<1>2. Emptied(n) \in BufferType BY <1>1, Zenon DEF Emptied, BufferType, SeqInv
<1>3. ASSUME NEW k \in Slots, Emptied(n)[k].state = "Filled"
      PROVE  LET s == Emptied(n)[k].seq IN s >= expected + n /\ s < expected + n + N /\ s % N = k
  <2>1. Emptied(n)[k] = buffer[k] /\ \A j \in 0 .. n - 1 : (expected + j) % N # k BY <1>1, <1>3, Zenon
  <2> DEFINE s == buffer[k].seq
  <2>2. s \in Nat /\ s >= expected /\ s < expected + N /\ s % N = k /\ expected \in Nat
    BY <1>3, <2>1, Zenon DEF SeqInv, Placed
  <2>3. s >= expected + n
    <3> SUFFICES ASSUME s < expected + n PROVE FALSE BY <2>2
    <3>1. s - expected \in 0 .. n - 1 /\ expected + (s - expected) = s BY <2>2
    <3> QED BY <2>1, <2>2, <3>1, Zenon
  <2>4. s < expected + n + N BY <2>2, Size
  <2> HIDE DEF s
  <2>5. Emptied(n)[k].seq = s BY <2>1, Zenon DEF s
  <2> QED BY <2>2, <2>3, <2>4, <2>5, Zenon
<1>4. Placed(Emptied(n), expected + n) BY <1>3, Zenon DEF Placed
<1> QED BY <1>2, <1>4, Zenon

\* A filled slot of the window holds the number that is looked for there.
LEMMA FilledIsOwn ==
    ASSUME SeqInv, NEW s \in Int, s >= expected, s < expected + N, State(buffer, s) = "Filled"
    PROVE  buffer[s % N].seq = s
<1>1. s % N \in Slots BY SlotOfSeq, Zenon
<1> DEFINE t == buffer[s % N].seq
<1>2. t \in Nat /\ t >= expected /\ t < expected + N /\ t % N = s % N /\ expected \in Nat
  BY <1>1, Zenon DEF SeqInv, Placed, State
<1> HIDE DEF t
<1>3. t - s < N /\ s - t < N BY <1>2, Size
<1>4. t \in Int /\ t % N = s % N BY <1>2
<1>5. t = s BY <1>3, <1>4, OwnSlot, Zenon
<1> QED BY <1>5, Zenon DEF t

-----------------------------------------------------------------------------
(* SeqInv is inductive. *)

\* accept().
LEMMA AcceptKeeps ==
    ASSUME SeqInv, NEW s \in Nat, Accept(s)
    PROVE  SeqInv'
<1> DEFINE e == IF started THEN expected ELSE s
<1>1. /\ buffer \in BufferType /\ e \in Nat /\ last \in Nat \cup {-1}
      /\ Placed(buffer, e) /\ last < e /\ started' = TRUE /\ last' = last /\ ~Recovering
  BY DEF SeqInv, BufferType, Placed, Accept
<1>2. range \in [from : Nat, to : Nat, start : Nat] BY Zenon DEF SeqInv
<1>3. AcceptStale(s, e) \/ AcceptOverflow(s, e) \/ AcceptInWindow(s, e) BY Zenon DEF Accept
<1> HIDE DEF e
<1>4. SUFFICES /\ buffer' \in BufferType /\ expected' \in Nat /\ Placed(buffer', expected')
               /\ expected' >= e /\ range' \in [from : Nat, to : Nat, start : Nat]
               /\ Recovering' => range'.from = expected' /\ range'.from <= range'.to
  BY <1>1 DEF SeqInv, BufferType, Placed
<1>5. CASE AcceptStale(s, e)
  BY <1>1, <1>2, <1>5 DEF AcceptStale, Recovering
<1>6. CASE AcceptOverflow(s, e)
  <2> DEFINE b == [k \in Slots |-> [buffer[k] EXCEPT !.state = "Empty"]]
  <2>1. b \in BufferType /\ Placed(b, s) BY <1>1, Zenon DEF BufferType, SlotState, Placed
  <2>2. InWindow(s, s) BY Size DEF InWindow
  <2>3. buffer' = Store(b, s) /\ expected' = s /\ s >= e /\ range' = range
    BY <1>6, Zenon DEF AcceptOverflow
  <2> HIDE DEF b
  <2>4. buffer' \in BufferType /\ Placed(buffer', s) BY <2>1, <2>2, <2>3, StoreKeeps, Zenon
  <2> QED BY <1>1, <1>2, <2>3, <2>4, Zenon DEF Recovering
<1>7. CASE AcceptInWindow(s, e)
  <2> DEFINE held == State(buffer, s) = "Filled"
             stored == IF held THEN buffer ELSE Store(buffer, s)
             gap == s > e /\ State(buffer, e) = "Empty"
  <2>1. InWindow(s, e) /\ expected' = e BY <1>7, Zenon DEF AcceptInWindow
  <2>2. stored \in BufferType /\ Placed(stored, e) BY <1>1, <2>1, StoreKeeps, Zenon
  <2>3. \/ buffer' = stored /\ range' = range
        \/ gap /\ buffer' = stored /\ range' = [from |-> e, to |-> s - 1, start |-> e]
        \/ gap /\ buffer' = Skip(stored, e, s - 1) /\ range' = range
    BY <1>7, Zenon DEF AcceptInWindow
  <2> HIDE DEF stored, held
  <2>4. CASE buffer' = stored /\ range' = range
    BY <1>1, <1>2, <2>1, <2>2, <2>4 DEF Recovering
  <2>5. CASE gap /\ buffer' = stored /\ range' = [from |-> e, to |-> s - 1, start |-> e]
    <3>1. s - 1 \in Nat /\ e <= s - 1 BY <1>1, <2>5
    <3> QED BY <1>1, <2>1, <2>2, <2>5, <3>1
  <2>6. CASE gap /\ buffer' = Skip(stored, e, s - 1) /\ range' = range
    <3>1. s - 1 \in Int OBVIOUS
    <3>2. buffer' \in BufferType /\ Placed(buffer', e) BY <1>1, <2>2, <2>6, <3>1, SkipKeeps, Zenon
    <3> QED BY <1>1, <1>2, <2>1, <2>6, <3>2 DEF Recovering
  <2> QED BY <2>3, <2>4, <2>5, <2>6, Zenon
<1> QED BY <1>3, <1>5, <1>6, <1>7, Zenon

\* Leaving recover_range's loop with the buffer b.
LEMMA FinishKeeps ==
    ASSUME SeqInv, Recovering, NEW b \in BufferType, NEW incs, Placed(b, expected),
           Finish(b, incs), UNCHANGED <<expected, started, recovery, first, last>>
    PROVE  SeqInv'
<1>1. range.from \in Nat /\ range.to \in Int /\ range.from = expected /\ range.from <= range.to
      /\ expected \in Nat /\ started = TRUE
  BY DEF SeqInv
<1>2. buffer' = Skip(b, range.from, range.to) /\ range' = NoRange BY Zenon DEF Finish
<1>3. buffer' \in BufferType /\ Placed(buffer', expected)
  BY <1>1, <1>2, SkipKeeps, Zenon
<1>4. NoRange \in [from : Nat, to : Nat, start : Nat] /\ ~Recovering'
  BY <1>2, Zenon DEF NoRange, Recovering
<1> QED BY <1>1, <1>2, <1>3, <1>4, Zenon DEF SeqInv, BufferType, Placed

\* An answer holds sequence numbers.
LEMMA AnswerType == SeqInv => range.start .. End \subseteq Nat
BY Size DEF SeqInv, End

\* request() returned true.
LEMMA ReplyKeeps ==
    ASSUME SeqInv, NEW msgs \in SUBSET Nat, Reply(msgs)
    PROVE  SeqInv'
<1> DEFINE filled == Fill(buffer, expected, msgs)
<1>1. /\ buffer \in BufferType /\ expected \in Nat /\ Placed(buffer, expected) /\ Recovering
      /\ range \in [from : Nat, to : Nat, start : Nat] /\ range.from <= range.to
      /\ range.from = expected /\ started = TRUE
      /\ UNCHANGED <<expected, started, recovery, first, last>>
  BY Zenon DEF SeqInv, BufferType, Reply
<1>2. filled \in BufferType /\ Placed(filled, expected) BY <1>1, FillKeeps, Zenon
<1>3. \/ buffer' = filled /\ range' = [range EXCEPT !.start = @ + KBatch]
      \/ \E incs : Finish(filled, incs)
  BY Zenon DEF Reply
<1> HIDE DEF filled
<1>4. CASE buffer' = filled /\ range' = [range EXCEPT !.start = @ + KBatch]
  <2>1. /\ range' \in [from : Nat, to : Nat, start : Nat]
        /\ range'.from = range.from /\ range'.to = range.to
    BY <1>1, <1>4, Size
  <2> QED BY <1>1, <1>2, <1>4, <2>1, Zenon DEF SeqInv, BufferType, Placed
<1>5. CASE \E incs : Finish(filled, incs) BY <1>1, <1>2, <1>5, FinishKeeps, Zenon
<1> QED BY <1>3, <1>4, <1>5, Zenon

\* next_deliverable() returned a message.
LEMMA DeliverKeeps ==
    ASSUME SeqInv, NEW n \in 0 .. N, Deliver(n)
    PROVE  /\ SeqInv' /\ last' = expected' - 1 /\ last' >= expected /\ last' > last
<1>1. /\ n \in Nat /\ n < N /\ expected \in Nat /\ started /\ last \in Nat \cup {-1}
      /\ last < expected /\ State(buffer, expected + n) = "Filled"
      /\ buffer' = Emptied(n + 1) /\ expected' = expected + n + 1
      /\ last' = buffer[(expected + n) % N].seq
      /\ UNCHANGED <<started, recovery, range, first>> /\ ~Recovering
  BY DEF Deliver, SeqInv
<1>2. last' = expected + n
  <2>1. expected + n \in Int /\ expected + n >= expected /\ expected + n < expected + N
    BY <1>1, Size
  <2> QED BY <1>1, <2>1, FilledIsOwn, Zenon
<1>3. n + 1 \in Nat /\ expected + (n + 1) = expected + n + 1 BY <1>1
<1>4. buffer' \in BufferType /\ Placed(buffer', expected')
  BY <1>1, <1>3, EmptiedKeeps, Zenon
<1>5. last' \in Nat /\ last' = expected' - 1 /\ last' >= expected /\ last' > last
      /\ expected' \in Nat /\ last' < expected'
  BY <1>1, <1>2
<1>6. SeqInv' BY <1>1, <1>4, <1>5, Zenon DEF SeqInv, BufferType, Placed, Recovering
<1> QED BY <1>5, <1>6, Zenon

\* next_deliverable() returned none.
LEMMA NothingKeeps ==
    ASSUME SeqInv, NEW n \in 0 .. N, NothingToDeliver(n)
    PROVE  SeqInv'
<1>1. /\ n \in Nat /\ expected \in Nat /\ started /\ last \in Nat \cup {-1}
      /\ last < expected /\ buffer' = Emptied(n) /\ expected' = expected + n
      /\ UNCHANGED <<started, recovery, range, first, last>> /\ ~Recovering
  BY DEF NothingToDeliver, SeqInv
<1>2. buffer' \in BufferType /\ Placed(buffer', expected') BY <1>1, EmptiedKeeps, Zenon
<1>3. expected' \in Nat /\ last' < expected' BY <1>1
<1> QED BY <1>1, <1>2, <1>3, Zenon DEF SeqInv, BufferType, Placed, Recovering

\* request() returned false.
LEMMA RequestFailsKeeps ==
    ASSUME SeqInv, RequestFails
    PROVE  SeqInv'
<1>1. buffer \in BufferType /\ Placed(buffer, expected) BY Zenon DEF SeqInv, BufferType
<1> QED BY <1>1, FinishKeeps, Zenon DEF RequestFails

\* The constructor.
LEMMA InitKeeps == Init => SeqInv
<1> SUFFICES ASSUME Init PROVE SeqInv BY Zenon
<1>1. \A k \in Slots : buffer[k] = [state |-> "Empty", seq |-> 0] BY Zenon DEF Init
<1>2. buffer \in [Slots -> [state : SlotState, seq : Nat]] BY Zenon DEF Init, SlotState
<1>3. Placed(buffer, expected) /\ \A k \in Slots : buffer[k].state = "Empty"
  BY <1>1 DEF Placed
<1>4. range \in [from : Nat, to : Nat, start : Nat] /\ ~Recovering
  BY Zenon DEF Init, NoRange, Recovering
<1>5. expected \in Nat /\ last \in Nat \cup {-1} /\ last = -1 /\ last < expected BY DEF Init
<1>6. started \in BOOLEAN BY Zenon DEF Init
<1> QED BY <1>2, <1>3, <1>4, <1>5, <1>6, Zenon DEF SeqInv

\* Every call and every answer of the recovery server keeps the invariant.
LEMMA StepKeeps == SeqInv /\ [Next]_vars => SeqInv'
<1> SUFFICES ASSUME SeqInv, [Next]_vars PROVE SeqInv' BY Zenon
<1>1. ASSUME NEW s \in Seqs, Accept(s) PROVE SeqInv' BY <1>1, Size, AcceptKeeps, Zenon
<1>2. ASSUME NEW msgs \in SUBSET (range.start .. End), Reply(msgs) PROVE SeqInv'
  BY <1>2, AnswerType, ReplyKeeps, Zenon
<1>3. CASE RequestFails BY <1>3, RequestFailsKeeps, Zenon
<1>4. ASSUME NEW n \in 0 .. N, Deliver(n) PROVE SeqInv' BY <1>4, DeliverKeeps, Zenon
<1>5. ASSUME NEW n \in 0 .. N, NothingToDeliver(n) PROVE SeqInv' BY <1>5, NothingKeeps, Zenon
<1>6. CASE UNCHANGED vars BY <1>6, Zenon DEF vars, SeqInv, Placed, Recovering
<1> QED BY <1>1, <1>2, <1>3, <1>4, <1>5, <1>6, Zenon DEF Next, next_deliverable

\* The reorder buffer keeps its invariant whatever is accepted, retransmitted,
\* skipped, dropped by a resynchronization and delivered.
THEOREM SequencerInvariant == Spec => []SeqInv
BY InitKeeps, StepKeeps, PTL DEF Spec

\* No slot of the window ever holds a message of an earlier lap.
THEOREM NoStaleSlot == Spec => []SlotsHoldTheirWindow
<1>1. SeqInv => SlotsHoldTheirWindow
  <2> SUFFICES ASSUME SeqInv, NEW s \in Filled PROVE buffer[s % N].seq = s
    BY Zenon DEF SlotsHoldTheirWindow
  <2>1. expected \in Nat BY Zenon DEF SeqInv
  <2>2. s \in Int /\ s >= expected /\ s < expected + N /\ State(buffer, s) = "Filled"
    BY <2>1, Size DEF Filled, Window
  <2> QED BY <2>2, FilledIsOwn, Zenon
<1> QED BY <1>1, SequencerInvariant, PTL

-----------------------------------------------------------------------------
(* What a step does to the stream. *)

\* A counter that is not incremented keeps its value.
LEMMA CountOther ==
    ASSUME NEW st, NEW incs, NEW c \in Counters, \A i \in incs : i[1] # c
    PROVE  Count(st, incs)[c] = st[c]
BY Zenon DEF Count

\* Only next_deliverable counts a delivery.
LEMMA DeliveredElsewhere ==
    ASSUME \/ \E s \in Seqs : Accept(s)
           \/ \E msgs \in SUBSET (range.start .. End) : Reply(msgs)
           \/ RequestFails
           \/ \E n \in 0 .. N : NothingToDeliver(n)
           \/ UNCHANGED vars
    PROVE  stats'["delivered"] = stats["delivered"]
<1>0. "delivered" \in Counters BY Zenon DEF Counters
<1>1. ASSUME NEW incs, stats' = Count(stats, incs), \A i \in incs : i[1] # "delivered"
      PROVE  stats'["delivered"] = stats["delivered"]
  BY <1>0, <1>1, CountOther, Zenon
<1>2. ASSUME NEW s \in Seqs, NEW e, AcceptStale(s, e) \/ AcceptOverflow(s, e) \/ AcceptInWindow(s, e)
      PROVE  stats'["delivered"] = stats["delivered"]
  <2>1. CASE AcceptStale(s, e) BY <1>1, <2>1 DEF AcceptStale
  <2>2. CASE AcceptOverflow(s, e)
    <3>1. \E by : stats' = Count(stats, {<<"accepted", 1>>, <<"reorder_overflows", 1>>,
                                          <<"unrecoverable", by>>})
      BY <2>2, Zenon DEF AcceptOverflow
    <3> QED BY <1>1, <3>1
  <2>3. CASE AcceptInWindow(s, e) BY <1>1, <2>3 DEF AcceptInWindow
  <2> QED BY <1>2, <2>1, <2>2, <2>3, Zenon
<1>3. ASSUME NEW b, NEW by, Finish(b, {<<"messages_recovered", by>>}) \/ Finish(b, {})
      PROVE  stats'["delivered"] = stats["delivered"]
  BY <1>1, <1>3 DEF Finish
<1>4. ASSUME NEW s \in Seqs, Accept(s) PROVE stats'["delivered"] = stats["delivered"]
  BY <1>2, <1>4, Zenon DEF Accept
<1>5. ASSUME NEW msgs \in SUBSET (range.start .. End), Reply(msgs)
      PROVE  stats'["delivered"] = stats["delivered"]
  <2>1. \E by, b : \/ stats' = Count(stats, {<<"messages_recovered", by>>} \cup
                                            {<<"recovery_requests", 1>>})
                   \/ Finish(b, {<<"messages_recovered", by>>})
    BY <1>5, Zenon DEF Reply
  <2>2. ASSUME NEW by, stats' = Count(stats, {<<"messages_recovered", by>>} \cup
                                             {<<"recovery_requests", 1>>})
        PROVE  stats'["delivered"] = stats["delivered"]
    <3> DEFINE incs == {<<"messages_recovered", by>>} \cup {<<"recovery_requests", 1>>}
    <3>1. \A i \in incs : i[1] # "delivered" OBVIOUS
    <3> QED BY <1>1, <2>2, <3>1, Zenon
  <2> QED BY <1>3, <2>1, <2>2, Zenon
<1> QED BY <1>3, <1>4, <1>5, Zenon DEF RequestFails, NothingToDeliver, vars

\* An overflow is counted ...
LEMMA OverflowCounted ==
    ASSUME NEW s, NEW e, AcceptOverflow(s, e)
    PROVE  stats'["reorder_overflows"] = stats["reorder_overflows"] + 1
<1>1. PICK by : stats' = Count(stats, {<<"accepted", 1>>, <<"reorder_overflows", 1>>,
                                       <<"unrecoverable", by>>})
  BY Zenon DEF AcceptOverflow
<1> DEFINE incs == {<<"accepted", 1>>, <<"reorder_overflows", 1>>, <<"unrecoverable", by>>}
           c == "reorder_overflows"
<1>2. c \in Counters BY Zenon DEF Counters
<1>3. \A i \in incs : i[1] = c => i = <<c, 1>> OBVIOUS
<1>4. <<c, 1>> \in incs /\ <<c, 1>>[1] = c BY Zenon
<1> HIDE DEF incs
<1>5. (CHOOSE i \in incs : i[1] = c) = <<c, 1>> BY <1>3, <1>4, Zenon
<1>6. stats'[c] = stats[c] + (CHOOSE i \in incs : i[1] = c)[2]
  BY <1>1, <1>2, <1>4, Zenon DEF Count, incs
<1>7. <<c, 1>>[2] = 1 BY Zenon
<1> QED BY <1>5, <1>6, <1>7, Zenon

\* ... and nothing else is counted as one.
LEMMA OverflowElsewhere ==
    ASSUME \/ \E s, e : AcceptStale(s, e) \/ AcceptInWindow(s, e)
           \/ \E msgs : Reply(msgs)
           \/ RequestFails
           \/ \E n : Deliver(n) \/ NothingToDeliver(n)
    PROVE  stats'["reorder_overflows"] = stats["reorder_overflows"]
<1> DEFINE c == "reorder_overflows"
<1>0. c \in Counters BY Zenon DEF Counters
<1>1. ASSUME NEW incs, stats' = Count(stats, incs), \A i \in incs : i[1] # c
      PROVE  stats'[c] = stats[c]
  BY <1>0, <1>1, CountOther, Zenon
<1>2. ASSUME NEW s, NEW e, AcceptStale(s, e) PROVE stats'[c] = stats[c]
  BY <1>1, <1>2 DEF AcceptStale
<1>3. ASSUME NEW s, NEW e, AcceptInWindow(s, e) PROVE stats'[c] = stats[c]
  BY <1>1, <1>3 DEF AcceptInWindow
<1>4. ASSUME NEW b, NEW by, Finish(b, {<<"messages_recovered", by>>}) \/ Finish(b, {})
      PROVE  stats'[c] = stats[c]
  BY <1>1, <1>4 DEF Finish
<1>5. ASSUME NEW msgs, Reply(msgs) PROVE stats'[c] = stats[c]
  <2>1. \E by, b : \/ stats' = Count(stats, {<<"messages_recovered", by>>} \cup
                                            {<<"recovery_requests", 1>>})
                   \/ Finish(b, {<<"messages_recovered", by>>})
    BY <1>5, Zenon DEF Reply
  <2>2. ASSUME NEW by, stats' = Count(stats, {<<"messages_recovered", by>>} \cup
                                             {<<"recovery_requests", 1>>})
        PROVE  stats'[c] = stats[c]
    <3> DEFINE incs == {<<"messages_recovered", by>>} \cup {<<"recovery_requests", 1>>}
    <3>1. \A i \in incs : i[1] # c OBVIOUS
    <3> QED BY <1>1, <2>2, <3>1, Zenon
  <2> QED BY <1>4, <2>1, <2>2, Zenon
<1>6. ASSUME NEW n, Deliver(n) PROVE stats'[c] = stats[c]
  BY <1>1, <1>6 DEF Deliver
<1> QED BY <1>2, <1>3, <1>4, <1>5, <1>6, Zenon DEF RequestFails, NothingToDeliver

\* next_deliverable hands out ascending numbers, each the one expected_ stands at
\* once the skipped ones are passed: no message is delivered twice, late or in
\* place of another.
THEOREM DeliveredInOrder == Spec => InOrderOnce
<1>1. SeqInv /\ [Next]_vars =>
        [stats'["delivered"] # stats["delivered"] =>
            last' = expected' - 1 /\ last' >= expected /\ last' > last]_vars
  <2> SUFFICES ASSUME SeqInv, [Next]_vars, stats'["delivered"] # stats["delivered"]
               PROVE  last' = expected' - 1 /\ last' >= expected /\ last' > last
    BY Zenon
  <2>1. PICK n \in 0 .. N : Deliver(n) BY DeliveredElsewhere, Zenon DEF Next, next_deliverable
  <2> QED BY <2>1, DeliverKeeps, Zenon
<1> QED BY <1>1, SequencerInvariant, PTL DEF Spec, InOrderOnce

-----------------------------------------------------------------------------
(* The state of a number of the window under the sequencer's helpers. *)

\* Every slot belongs to a number of the window.
LEMMA SlotHasNumber ==
    ASSUME NEW k \in Slots, NEW e \in Nat
    PROVE  \E t \in e .. e + N - 1 : t % N = k
<1> DEFINE r == (k - e) % N
           q == (k - e) \div N
<1>1. k \in Int /\ k \in 0 .. N - 1 /\ k - e \in Int /\ N \in Nat \ {0} BY Size DEF Slots
<1>2. k - e = N * q + r /\ r \in 0 .. N - 1 /\ q \in Int BY <1>1, DivMod, Zenon
<1> HIDE DEF r, q
<1>3. PICK j \in Int : e + r = N * j + k
  <2>1. 0 - q \in Int /\ e + r = N * (0 - q) + k BY <1>1, <1>2
  <2> QED BY <2>1, Zenon
<1>4. (e + r) % N = k
  <2> DEFINE a == e + r
  <2>1. a \in Int /\ a = N * j + k BY <1>2, <1>3
  <2> HIDE DEF a
  <2>2. a % N = k BY <1>1, <2>1, ModUnique
  <2> QED BY <2>2, Zenon DEF a
<1>5. e + r \in e .. e + N - 1 BY <1>1, <1>2
<1> QED BY <1>4, <1>5, Zenon

\* One lap earlier is the same slot.
LEMMA LapBefore == ASSUME NEW t \in Int PROVE (t - N) % N = t % N
<1> DEFINE r == t % N
           q == t \div N
<1>1. N \in Nat \ {0} /\ N \in Int BY Size
<1>2. t = N * q + r /\ r \in 0 .. N - 1 /\ q \in Int BY <1>1, DivMod, Zenon
<1> HIDE DEF r, q
<1>3. t - N = N * (q - 1) + r /\ q - 1 \in Int /\ t - N \in Int BY <1>1, <1>2
<1>4. (t - N) % N = r BY <1>1, <1>2, <1>3, ModUnique
<1> QED BY <1>4, Zenon DEF r

LEMMA SameSlot ==
    ASSUME NEW e \in Nat, NEW s \in e .. e + N - 1, NEW t \in e .. e + N - 1, s % N = t % N
    PROVE  s = t
<1>1. s \in Int /\ t \in Int /\ s - t < N /\ t - s < N BY Size
<1> QED BY <1>1, OwnSlot, Zenon

LEMMA StoreState ==
    ASSUME NEW b \in BufferType, NEW e \in Nat,
           NEW s \in e .. e + N - 1, NEW t \in e .. e + N - 1
    PROVE  State(Store(b, s), t) = IF t = s THEN "Filled" ELSE State(b, t)
<1>1. s % N \in Slots /\ t % N \in Slots BY SlotOfSeq
<1>2. Store(b, s)[t % N] = IF t % N = s % N THEN [state |-> "Filled", seq |-> s] ELSE b[t % N]
  BY <1>1, Zenon DEF Store, BufferType
<1>3. CASE t = s BY <1>2, <1>3 DEF State
<1>4. CASE t # s
  <2>1. t % N # s % N BY <1>4, SameSlot, Zenon
  <2> QED BY <1>2, <1>4, <2>1, Zenon DEF State
<1> QED BY <1>3, <1>4, Zenon

\* An answer fills the slots of its own numbers.
LEMMA FillState ==
    ASSUME NEW b \in BufferType, NEW e \in Nat, NEW msgs \in SUBSET Nat,
           NEW t \in e .. e + N - 1
    PROVE  State(Fill(b, e, msgs), t) = IF t \in msgs THEN "Filled" ELSE State(b, t)
<1> DEFINE F == Fresh(b, e, msgs)
           f == Fill(b, e, msgs)
<1>1. t % N \in Slots /\ t \in Int /\ InWindow(t, e) BY SlotOfSeq, Size DEF InWindow
<1>2. ASSUME NEW s \in F, s % N = t % N PROVE s = t
  <2>1. s \in e .. e + N - 1 BY Size DEF Fresh, InWindow
  <2> QED BY <1>2, <2>1, SameSlot, Zenon
<1>3. f[t % N] = IF \E s \in F : s % N = t % N
                 THEN [state |-> "Filled", seq |-> CHOOSE s \in F : s % N = t % N] ELSE b[t % N]
  BY <1>1, Zenon DEF Fill
<1>4. CASE t \in F
  <2>1. t \in msgs /\ \E s \in F : s % N = t % N BY <1>4, Zenon DEF Fresh
  <2> HIDE DEF F, f
  <2>2. f[t % N].state = "Filled" BY <1>3, <2>1
  <2> QED BY <2>1, <2>2, Zenon DEF State, f
<1>5. CASE t \notin F
  <2>1. f[t % N] = b[t % N] BY <1>2, <1>3, <1>5, Zenon
  <2>2. t \in msgs => State(b, t) = "Filled" BY <1>1, <1>5, Zenon DEF Fresh
  <2> QED BY <2>1, <2>2, Zenon DEF State
<1> QED BY <1>4, <1>5, Zenon

\* What is still empty of the gap is marked, and nothing else.
LEMMA SkipState ==
    ASSUME NEW b \in BufferType, NEW e \in Nat, NEW to \in Int, to < e + N,
           NEW t \in e .. e + N - 1
    PROVE  State(Skip(b, e, to), t) =
             IF t <= to /\ State(b, t) = "Empty" THEN "Skipped" ELSE State(b, t)
<1> DEFINE M == Missing(b, e, to)
           f == Skip(b, e, to)
<1>1. t % N \in Slots /\ t \in Int /\ t >= e BY SlotOfSeq
<1>2. ASSUME NEW s \in M, s % N = t % N PROVE s = t
  <2>1. s \in e .. e + N - 1 BY Size DEF Missing
  <2> QED BY <1>2, <2>1, SameSlot, Zenon
<1>3. t \in M <=> t <= to /\ State(b, t) = "Empty" BY <1>1 DEF Missing
<1>4. f[t % N] = IF \E s \in M : s % N = t % N
                 THEN [b[t % N] EXCEPT !.state = "Skipped"] ELSE b[t % N]
  BY <1>1, Zenon DEF Skip
<1> HIDE DEF M, f
<1>5. CASE t \in M
  <2>1. b[t % N] \in [state : SlotState, seq : Nat] BY <1>1, Zenon DEF BufferType
  <2>2. f[t % N].state = "Skipped" BY <1>4, <1>5, <2>1, Zenon
  <2> QED BY <1>3, <1>5, <2>2, Zenon DEF State, f
<1>6. CASE t \notin M
  <2>1. f[t % N] = b[t % N] BY <1>2, <1>4, <1>6, Zenon
  <2> QED BY <1>3, <1>6, <2>1, Zenon DEF State, f
<1> QED BY <1>5, <1>6, Zenon

\* expected_ moves on by n: the numbers that enter the window have empty slots.
LEMMA EmptiedState ==
    ASSUME SeqInv, NEW n \in 0 .. N, NEW t \in expected + n .. expected + n + N - 1
    PROVE  State(Emptied(n), t) = IF t < expected + N THEN State(buffer, t) ELSE "Empty"
<1>1. expected \in Nat /\ t \in Int /\ t % N \in Slots /\ N \in Nat \ {0} /\ n \in Nat /\ n <= N
  <2>1. expected \in Nat /\ N \in Nat \ {0} /\ n \in Nat /\ n <= N BY Size DEF SeqInv
  <2>2. t \in Int BY <2>1
  <2> QED BY <2>1, <2>2, SlotOfSeq, Zenon
<1>2. Emptied(n)[t % N] = IF \E j \in 0 .. n - 1 : (expected + j) % N = t % N
                          THEN [buffer[t % N] EXCEPT !.state = "Empty"] ELSE buffer[t % N]
  BY <1>1, Zenon DEF Emptied
<1>3. CASE t < expected + N
  <2>1. ASSUME NEW j \in 0 .. n - 1, (expected + j) % N = t % N PROVE FALSE
    <3>1. /\ expected + j \in expected .. expected + N - 1 /\ t \in expected .. expected + N - 1
          /\ expected + j < t
      BY <1>1, <1>3
    <3>2. expected + j = t BY <1>1, <2>1, <3>1, SameSlot, Zenon
    <3> QED BY <1>1, <3>1, <3>2
  <2>2. Emptied(n)[t % N] = buffer[t % N] BY <1>2, <2>1, Zenon
  <2> QED BY <1>3, <2>2, Zenon DEF State
<1>4. CASE ~ (t < expected + N)
  <2> DEFINE i == t - N - expected
  <2>1. i \in 0 .. n - 1 /\ expected + i = t - N BY <1>1, <1>4
  <2>2. (expected + i) % N = t % N BY <1>1, <2>1, LapBefore, Zenon
  <2>3. buffer[t % N] \in [state : SlotState, seq : Nat] BY <1>1, Zenon DEF SeqInv
  <2>4. Emptied(n)[t % N].state = "Empty" BY <1>2, <2>1, <2>2, <2>3, Zenon
  <2> QED BY <1>4, <2>4, Zenon DEF State
<1> QED BY <1>3, <1>4, Zenon

-----------------------------------------------------------------------------
(* What the buffer holds while a packet of consecutive numbers is accepted. *)

Clean == \A k \in Slots : buffer[k].state = "Empty"

\* The window is held, as messages or marks, up to p and empty from there on.
Front(p) ==
    /\ p \in Nat /\ expected <= p /\ p <= expected + N
    /\ \A t \in expected .. expected + N - 1 : State(buffer, t) # "Empty" <=> t < p

\* A recovery is under way: the message that revealed the gap is held, and
\* nothing beyond it.
Hole ==
    /\ range.from = expected /\ range.start >= range.from /\ range.start <= range.to
    /\ range.to + 1 < expected + N
    /\ State(buffer, range.to + 1) # "Empty"
    /\ \A t \in range.to + 2 .. expected + N - 1 : State(buffer, t) = "Empty"

LEMMA CleanWindow ==
    ASSUME SeqInv
    PROVE  Clean <=> \A t \in expected .. expected + N - 1 : State(buffer, t) = "Empty"
<1>1. ASSUME NEW t \in expected .. expected + N - 1 PROVE t % N \in Slots
  BY SlotOfSeq DEF SeqInv
<1>2. expected \in Nat BY Zenon DEF SeqInv
<1>3. ASSUME NEW k \in Slots PROVE \E t \in expected .. expected + N - 1 : t % N = k
  BY <1>2, SlotHasNumber, Zenon
<1> QED BY <1>1, <1>3, Zenon DEF Clean, State

\* accept() of the next number of the packet: it was too late, or it extends
\* what is held, or it reveals a gap.
LEMMA AcceptEffect ==
    ASSUME SeqInv, NEW s \in Nat, Accept(s), Clean \/ (started /\ Front(s))
    PROVE  \/ Clean' /\ ~Recovering' /\ \E p \in Nat : Front(p)'
           \/ Front(s + 1)' /\ ~Recovering'
           \/ Hole' /\ Recovering' /\ range'.to = s - 1 /\ range'.start = range'.from
<1> DEFINE e == IF started THEN expected ELSE s
<1>0. SeqInv' BY AcceptKeeps, Zenon
<1>1. /\ e \in Nat /\ buffer \in BufferType /\ ~Recovering /\ N \in Nat \ {0} /\ N \in Int
      /\ ~started => e = s
  BY Size DEF SeqInv, BufferType, Accept
<1>2. AcceptStale(s, e) \/ AcceptOverflow(s, e) \/ AcceptInWindow(s, e) BY Zenon DEF Accept
<1>3. \/ \A t \in e .. e + N - 1 : State(buffer, t) = "Empty"
      \/ /\ e <= s /\ s <= e + N
         /\ \A t \in e .. e + N - 1 : State(buffer, t) # "Empty" <=> t < s
  <2>1. CASE Clean
    <3>1. \A t \in e .. e + N - 1 : t % N \in Slots BY <1>1, SlotOfSeq
    <3> QED BY <2>1, <3>1, Zenon DEF Clean, State
  <2>2. CASE started /\ Front(s) BY <2>2, Zenon DEF Front
  <2> QED BY <2>1, <2>2, Zenon
<1>4. started => e = expected BY Zenon
<1>5. s < e => Clean /\ started BY <1>1 DEF Front
<1> HIDE DEF e
<1>6. CASE AcceptStale(s, e)
  <2>1. Clean /\ UNCHANGED <<buffer, expected, range>>
    BY <1>4, <1>5, <1>6, Zenon DEF AcceptStale
  <2>2. \A t \in expected .. expected + N - 1 : State(buffer, t) = "Empty" BY <2>1, CleanWindow, Zenon
  <2>3. PICK p \in Nat : p = expected BY Zenon DEF SeqInv
  <2>4. Front(p)' BY <1>1, <2>1, <2>2, <2>3 DEF Front
  <2> QED BY <1>1, <2>1, <2>4, Zenon DEF Clean, Recovering
<1>7. CASE AcceptOverflow(s, e)
  <2> DEFINE b == [k \in Slots |-> [buffer[k] EXCEPT !.state = "Empty"]]
  <2>1. b \in BufferType /\ \A k \in Slots : b[k].state = "Empty"
    BY <1>1, Zenon DEF BufferType, SlotState
  <2>2. buffer' = Store(b, s) /\ expected' = s /\ range' = range BY <1>7, Zenon DEF AcceptOverflow
  <2> HIDE DEF b
  <2>3. s \in s .. s + N - 1 BY <1>1
  <2>4. ASSUME NEW t \in s .. s + N - 1
        PROVE  State(buffer', t) = IF t = s THEN "Filled" ELSE "Empty"
    <3>1. t % N \in Slots BY SlotOfSeq
    <3> QED BY <2>1, <2>2, <2>3, <3>1, StoreState DEF State
  <2>5. \A t \in s .. s + N - 1 : State(buffer', t) # "Empty" <=> t < s + 1 BY <1>1, <2>4
  <2>6. Front(s + 1)' BY <1>1, <2>2, <2>5 DEF Front
  <2> QED BY <1>1, <2>2, <2>6, Zenon DEF Recovering
<1>8. CASE AcceptInWindow(s, e)
  <2> DEFINE stored == IF State(buffer, s) = "Filled" THEN buffer ELSE Store(buffer, s)
             gap == s > e /\ State(buffer, e) = "Empty"
  <2>1. expected' = e /\ s \in e .. e + N - 1 /\ e \in e .. e + N - 1
    BY <1>1, <1>8 DEF AcceptInWindow, InWindow
  <2>2. ASSUME NEW t \in e .. e + N - 1
        PROVE  State(stored, t) = IF t = s THEN "Filled" ELSE State(buffer, t)
    BY <1>1, <2>1, StoreState
  <2>3. \/ ~gap /\ buffer' = stored /\ range' = range
        \/ gap /\ buffer' = stored /\ range' = [from |-> e, to |-> s - 1, start |-> e]
        \/ gap /\ buffer' = Skip(stored, e, s - 1) /\ range' = range
    BY <1>8, Zenon DEF AcceptInWindow
  <2>4. stored \in BufferType
    <3>1. s % N \in Slots BY SlotOfSeq
    <3> QED BY <1>1, <3>1, Zenon DEF Store, BufferType, SlotState
  <2> HIDE DEF stored
  <2>5. CASE ~gap /\ buffer' = stored /\ range' = range
    <3>1. \A t \in e .. e + N - 1 : State(buffer, t) # "Empty" <=> t < s
      BY <1>1, <1>3, <2>1, <2>5
    <3>2. \A t \in e .. e + N - 1 : State(buffer', t) # "Empty" <=> t < s + 1
      BY <1>1, <2>1, <2>2, <2>5, <3>1
    <3>3. Front(s + 1)' BY <1>1, <2>1, <3>2 DEF Front
    <3> QED BY <1>1, <2>5, <3>3, Zenon DEF Recovering
  <2>6. ASSUME gap PROVE \A t \in e .. e + N - 1 : State(buffer, t) = "Empty"
    BY <1>1, <1>3, <2>1, <2>6, Zenon
  <2>7. CASE gap /\ buffer' = stored /\ range' = [from |-> e, to |-> s - 1, start |-> e]
    <3>1. range'.from = e /\ range'.to = s - 1 /\ range'.start = e BY <2>7, Zenon
    <3>2. range' # NoRange BY <1>1, <2>7, <3>1 DEF NoRange
    <3>3. State(buffer', s) # "Empty" BY <2>1, <2>2, <2>7, Zenon
    <3>4. \A t \in s + 1 .. e + N - 1 : State(buffer', t) = "Empty"
      BY <1>1, <2>1, <2>2, <2>6, <2>7
    <3>5. (s - 1) + 1 = s /\ (s - 1) + 2 = s + 1 BY <1>1
    <3>6. Hole' BY <1>1, <2>1, <2>7, <3>1, <3>3, <3>4, <3>5 DEF Hole
    <3> QED BY <3>1, <3>2, <3>6, Zenon DEF Recovering
  <2>8. CASE gap /\ buffer' = Skip(stored, e, s - 1) /\ range' = range
    <3>1. s - 1 \in Int /\ s - 1 < e + N BY <1>1, <2>1
    <3>2. ASSUME NEW t \in e .. e + N - 1
          PROVE  State(buffer', t) = IF t <= s - 1 /\ State(stored, t) = "Empty"
                                     THEN "Skipped" ELSE State(stored, t)
      BY <1>1, <2>4, <2>8, <3>1, SkipState, Zenon
    <3>3. \A t \in e .. e + N - 1 : State(buffer', t) # "Empty" <=> t < s + 1
      BY <1>1, <2>1, <2>2, <2>6, <2>8, <3>2
    <3>4. Front(s + 1)' BY <1>1, <2>1, <3>3 DEF Front
    <3> QED BY <1>1, <2>8, <3>4, Zenon DEF Recovering
  <2> QED BY <2>3, <2>5, <2>7, <2>8, Zenon
<1> QED BY <1>2, <1>6, <1>7, <1>8, Zenon

\* An answer, or its failure, leaves the gap open for the next chunk or closed.
LEMMA AnswerEffect ==
    ASSUME SeqInv, Hole, Recovering, NEW msgs \in SUBSET Nat, \A m \in msgs : m <= range.to,
           Reply(msgs) \/ RequestFails, NEW p, p = range.to + 2
    PROVE  \/ Hole' /\ Recovering' /\ range'.to = range.to
           \/ Front(p)' /\ ~Recovering'
<1> DEFINE filled == Fill(buffer, expected, msgs)
           W == expected .. expected + N - 1
<1>1. /\ expected \in Nat /\ buffer \in BufferType /\ N \in Nat \ {0} /\ Placed(buffer, expected)
      /\ range \in [from : Nat, to : Nat, start : Nat] /\ KBatch \in Nat \ {0}
  BY Size, Zenon DEF SeqInv, BufferType
<1>2. \A t \in W : State(filled, t) = IF t \in msgs THEN "Filled" ELSE State(buffer, t)
  BY <1>1, FillState
<1>3. filled \in BufferType BY <1>1, FillKeeps, Zenon
<1>4. expected' = expected BY Zenon DEF Reply, RequestFails
<1>5. \/ buffer' = filled /\ range' = [range EXCEPT !.start = @ + KBatch]
         /\ range.start + KBatch <= range.to
      \/ buffer' = Skip(filled, range.from, range.to) /\ range' = NoRange
      \/ buffer' = Skip(buffer, range.from, range.to) /\ range' = NoRange
  BY Zenon DEF Reply, RequestFails, Finish
<1> HIDE DEF filled
<1>6. \A t \in W : t > range.to => State(filled, t) = State(buffer, t) BY <1>1, <1>2
<1>7. CASE /\ buffer' = filled /\ range' = [range EXCEPT !.start = @ + KBatch]
           /\ range.start + KBatch <= range.to
  <2>1. /\ range'.from = range.from /\ range'.to = range.to
        /\ range'.start = range.start + KBatch
    BY <1>1, <1>7, Zenon
  <2>2. range' # NoRange BY <1>1, <2>1 DEF Hole, NoRange
  <2>3. range.to + 1 \in W /\ \A t \in range.to + 2 .. expected + N - 1 : t \in W /\ t > range.to
    BY <1>1 DEF Hole
  <2>4. /\ State(buffer', range.to + 1) # "Empty"
        /\ \A t \in range.to + 2 .. expected + N - 1 : State(buffer', t) = "Empty"
    BY <1>1, <1>6, <1>7, <2>3 DEF Hole
  <2>5. /\ range'.from = expected' /\ range'.start >= range'.from /\ range'.start <= range'.to
        /\ range'.to + 1 < expected' + N
    BY <1>1, <1>4, <1>7, <2>1 DEF Hole
  <2>6. Hole' BY <1>4, <2>1, <2>4, <2>5, Zenon DEF Hole
  <2> QED BY <2>1, <2>2, <2>6, Zenon DEF Recovering
<1>8. ASSUME NEW b \in BufferType, buffer' = Skip(b, range.from, range.to), range' = NoRange,
             \A t \in W : t > range.to => State(b, t) = State(buffer, t)
      PROVE  Front(p)' /\ ~Recovering'
  <2>1. range.from = expected /\ range.to \in Int /\ range.to < expected + N
    BY <1>1 DEF Hole
  <2>2. \A t \in W : State(buffer', t) = IF t <= range.to /\ State(b, t) = "Empty"
                                         THEN "Skipped" ELSE State(b, t)
    BY <1>1, <1>8, <2>1, SkipState
  <2>3. \A t \in W : t > range.to => (State(buffer, t) # "Empty" <=> t < p)
    BY <1>1 DEF Hole
  <2>4. \A t \in W : State(buffer', t) # "Empty" <=> t < p
    <3> TAKE t \in W
    <3>1. t \in Int BY <1>1
    <3>2. CASE t > range.to BY <1>1, <1>8, <2>2, <2>3, <3>1, <3>2
    <3>3. CASE t <= range.to BY <1>1, <2>2, <3>1, <3>3
    <3> QED BY <1>1, <3>1, <3>2, <3>3
  <2>5. p \in Nat /\ expected <= p /\ p <= expected + N BY <1>1 DEF Hole
  <2>6. Front(p)' BY <1>4, <2>4, <2>5, Zenon DEF Front
  <2> QED BY <1>8, <2>6, Zenon DEF Recovering
<1> QED BY <1>1, <1>3, <1>5, <1>6, <1>7, <1>8, Zenon

\* next_deliverable takes from the front of what is held ...
LEMMA DeliverEffect ==
    ASSUME SeqInv, NEW n \in 0 .. N, Deliver(n), NEW p, Front(p)
    PROVE  Front(p)'
<1>1. /\ expected \in Nat /\ N \in Nat \ {0} /\ n \in Nat /\ n < N /\ n + 1 \in 0 .. N
      /\ expected' = expected + (n + 1) /\ buffer' = Emptied(n + 1)
      /\ State(buffer, expected + n) = "Filled"
  BY Size DEF SeqInv, Deliver
<1>2. expected + n < p /\ p \in Nat /\ p <= expected + N
  BY <1>1 DEF Front
<1>3. \A t \in expected' .. expected' + N - 1 :
         State(buffer', t) = IF t < expected + N THEN State(buffer, t) ELSE "Empty"
  BY <1>1, EmptiedState, Zenon
<1>4. \A t \in expected' .. expected' + N - 1 : State(buffer', t) # "Empty" <=> t < p
  <2> TAKE t \in expected' .. expected' + N - 1
  <2>1. t \in Int /\ t >= expected BY <1>1
  <2>2. CASE t < expected + N
    <3>1. t \in expected .. expected + N - 1 BY <1>1, <2>1, <2>2
    <3> QED BY <1>3, <2>2, <3>1, Zenon DEF Front
  <2>3. CASE ~ (t < expected + N) BY <1>1, <1>2, <1>3, <2>1, <2>3
  <2> QED BY <2>2, <2>3, Zenon
<1> QED BY <1>1, <1>2, <1>4 DEF Front

\* ... and finds nothing when all of it is gone.
LEMMA NothingEffect ==
    ASSUME SeqInv, NEW n \in 0 .. N, NothingToDeliver(n), NEW p, Front(p)
    PROVE  Clean'
<1>1. /\ expected \in Nat /\ N \in Nat \ {0} /\ n \in Nat /\ n <= N /\ expected + n \in Nat
      /\ expected' = expected + n /\ buffer' = Emptied(n)
      /\ n = N \/ State(buffer, expected + n) = "Empty"
  BY Size DEF SeqInv, NothingToDeliver
<1>2. p \in Nat /\ p <= expected + n
  <2>1. CASE n = N BY <1>1, <2>1, Zenon DEF Front
  <2>2. CASE n # N
    <3>1. expected + n \in expected .. expected + N - 1 /\ State(buffer, expected + n) = "Empty"
      BY <1>1, <2>2
    <3> QED BY <1>1, <3>1 DEF Front
  <2> QED BY <2>1, <2>2, Zenon
<1>3. ASSUME NEW t \in expected + n .. expected + n + N - 1 PROVE State(buffer', t) = "Empty"
  <2>1. State(buffer', t) = IF t < expected + N THEN State(buffer, t) ELSE "Empty"
    BY <1>1, EmptiedState, Zenon
  <2>2. t \in Int /\ t >= expected /\ ~ (t < p) BY <1>1, <1>2
  <2>3. ASSUME t < expected + N PROVE State(buffer, t) = "Empty"
    <3>1. t \in expected .. expected + N - 1 BY <1>1, <2>2, <2>3
    <3> QED BY <2>2, <3>1, Zenon DEF Front
  <2> QED BY <2>1, <2>3, Zenon
<1>4. ASSUME NEW k \in Slots PROVE buffer'[k].state = "Empty"
  <2>1. PICK t \in expected + n .. expected + n + N - 1 : t % N = k BY <1>1, SlotHasNumber, Zenon
  <2> QED BY <1>3, <2>1, Zenon DEF State
<1> QED BY <1>4, Zenon DEF Clean
=============================================================================
