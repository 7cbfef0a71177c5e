---------------------------- MODULE LedgerProofs ----------------------------
(***************************************************************************)
(* The sequencer's accounts, for every window and batch size.  Counting    *)
(* the numbers the window holds or has marked, each step enters every      *)
(* number it passes and every message it takes in under exactly one of the *)
(* counters: nothing is lost silently and nothing is counted twice.        *)
(***************************************************************************)
EXTENDS SequenceManagerProofs, FiniteSetTheorems

-----------------------------------------------------------------------------
(* How many numbers of the window from e on a buffer b holds or has marked *)

FilledIn(b, e) == {s \in e .. e + N - 1 : State(b, s) = "Filled"}
SkippedIn(b, e) == {s \in e .. e + N - 1 : State(b, s) = "Skipped"}

LEMMA Disjoint ==
    ASSUME NEW S, IsFiniteSet(S), NEW T, IsFiniteSet(T), S \cap T = {}
    PROVE  IsFiniteSet(S \cup T) /\ Cardinality(S \cup T) = Cardinality(S) + Cardinality(T)
<1>1. /\ IsFiniteSet(S \cup T) /\ Cardinality({}) = 0
      /\ Cardinality(S \cup T) = Cardinality(S) + Cardinality(T) - Cardinality(S \cap T)
  BY FS_Union, FS_EmptySet, Zenon
<1>2. Cardinality(S) \in Nat /\ Cardinality(T) \in Nat BY FS_CardinalityType, Zenon
<1>3. Cardinality(S \cap T) = 0 BY <1>1, Zenon
<1> QED BY <1>1, <1>2, <1>3

LEMMA Counted ==
    ASSUME NEW b, NEW e \in Nat
    PROVE  /\ IsFiniteSet(FilledIn(b, e)) /\ IsFiniteSet(SkippedIn(b, e))
           /\ Cardinality(FilledIn(b, e)) \in Nat /\ Cardinality(SkippedIn(b, e)) \in Nat
<1>1. IsFiniteSet(e .. e + N - 1)
  <2>1. e \in Int /\ e + N - 1 \in Int BY Size
  <2> QED BY <2>1, FS_Interval, Zenon
<1>2. /\ FilledIn(b, e) \in SUBSET (e .. e + N - 1)
      /\ SkippedIn(b, e) \in SUBSET (e .. e + N - 1)
  BY Zenon DEF FilledIn, SkippedIn
<1>3. IsFiniteSet(FilledIn(b, e)) /\ IsFiniteSet(SkippedIn(b, e))
  BY <1>1, <1>2, FS_Subset, Zenon
<1> QED BY <1>3, FS_CardinalityType, Zenon

\* store() of a number not held: one message more.
LEMMA StoreCounts ==
    ASSUME NEW b \in BufferType, NEW e \in Nat, NEW s \in e .. e + N - 1,
           State(b, s) # "Filled"
    PROVE  /\ Cardinality(FilledIn(Store(b, s), e)) = Cardinality(FilledIn(b, e)) + 1
           /\ Cardinality(SkippedIn(Store(b, s), e)) <= Cardinality(SkippedIn(b, e))
<1> DEFINE c == Store(b, s)
<1>1. \A t \in e .. e + N - 1 : State(c, t) = IF t = s THEN "Filled" ELSE State(b, t)
  BY StoreState, Zenon
<1> HIDE DEF c
<1>2. FilledIn(c, e) = FilledIn(b, e) \cup {s} BY <1>1, Zenon DEF FilledIn
<1>3. SkippedIn(c, e) \in SUBSET SkippedIn(b, e) BY <1>1, Zenon DEF SkippedIn
<1>4. s \notin FilledIn(b, e) BY Zenon DEF FilledIn
<1>5. Cardinality(FilledIn(c, e)) = Cardinality(FilledIn(b, e)) + 1
  BY <1>2, <1>4, Counted, FS_AddElement, Zenon
<1>6. Cardinality(SkippedIn(c, e)) <= Cardinality(SkippedIn(b, e))
  BY <1>3, Counted, FS_Subset, Zenon
<1> QED BY <1>5, <1>6, Zenon DEF c

\* An answer: as many messages more as were new.
LEMMA FillCounts ==
    ASSUME NEW b \in BufferType, NEW e \in Nat, NEW msgs \in SUBSET Nat
    PROVE  /\ Cardinality(Fresh(b, e, msgs)) \in Nat
           /\ Cardinality(FilledIn(Fill(b, e, msgs), e)) =
                 Cardinality(FilledIn(b, e)) + Cardinality(Fresh(b, e, msgs))
           /\ Cardinality(SkippedIn(Fill(b, e, msgs), e)) <= Cardinality(SkippedIn(b, e))
<1> DEFINE c == Fill(b, e, msgs)
           new == Fresh(b, e, msgs)
<1>1. \A t \in e .. e + N - 1 : State(c, t) = IF t \in msgs THEN "Filled" ELSE State(b, t)
  BY FillState
<1>2. new = {t \in e .. e + N - 1 : t \in msgs /\ State(b, t) # "Filled"}
  <2>1. \A t \in msgs : InWindow(t, e) <=> t \in e .. e + N - 1 BY Size DEF InWindow
  <2> QED BY <2>1, Zenon DEF Fresh
<1> HIDE DEF c, new
<1>3. FilledIn(c, e) = FilledIn(b, e) \cup new /\ FilledIn(b, e) \cap new = {}
  BY <1>1, <1>2, Zenon DEF FilledIn
<1>4. SkippedIn(c, e) \in SUBSET SkippedIn(b, e) BY <1>1, Zenon DEF SkippedIn
<1>5. IsFiniteSet(new)
  <2>1. new \in SUBSET FilledIn(c, e) BY <1>3, Zenon
  <2> QED BY <2>1, Counted, FS_Subset, Zenon
<1>6. Cardinality(FilledIn(c, e)) = Cardinality(FilledIn(b, e)) + Cardinality(new)
  BY <1>3, <1>5, Counted, Disjoint, Zenon
<1>7. Cardinality(SkippedIn(c, e)) <= Cardinality(SkippedIn(b, e))
  BY <1>4, Counted, FS_Subset, Zenon
<1>8. Cardinality(new) \in Nat BY <1>5, FS_CardinalityType, Zenon
<1> QED BY <1>6, <1>7, <1>8, Zenon DEF c, new

\* The tail of recover_range: as many marks more as were missing.
LEMMA SkipCounts ==
    ASSUME NEW b \in BufferType, NEW e \in Nat, NEW to \in Int, to < e + N
    PROVE  /\ Cardinality(Missing(b, e, to)) \in Nat
           /\ Cardinality(FilledIn(Skip(b, e, to), e)) = Cardinality(FilledIn(b, e))
           /\ Cardinality(SkippedIn(Skip(b, e, to), e)) =
                 Cardinality(SkippedIn(b, e)) + Cardinality(Missing(b, e, to))
<1> DEFINE c == Skip(b, e, to)
           gone == Missing(b, e, to)
<1>1. \A t \in e .. e + N - 1 : State(c, t) =
             IF t <= to /\ State(b, t) = "Empty" THEN "Skipped" ELSE State(b, t)
  BY SkipState, Zenon
<1>2. gone = {t \in e .. e + N - 1 : t <= to /\ State(b, t) = "Empty"}
  BY Size DEF Missing
<1> HIDE DEF c, gone
<1>3. SkippedIn(c, e) = SkippedIn(b, e) \cup gone /\ SkippedIn(b, e) \cap gone = {}
  BY <1>1, <1>2, Zenon DEF SkippedIn
<1>4. FilledIn(c, e) = FilledIn(b, e) BY <1>1, Zenon DEF FilledIn
<1>5. IsFiniteSet(gone)
  <2>1. gone \in SUBSET SkippedIn(c, e) BY <1>3, Zenon
  <2> QED BY <2>1, Counted, FS_Subset, Zenon
<1>6. Cardinality(SkippedIn(c, e)) = Cardinality(SkippedIn(b, e)) + Cardinality(gone)
  BY <1>3, <1>5, Counted, Disjoint, Zenon
<1>7. Cardinality(gone) \in Nat BY <1>5, FS_CardinalityType, Zenon
<1> QED BY <1>4, <1>6, <1>7, Zenon DEF c, gone

\* expected_ moves on by m: the marks and the message it passes are gone.
LEMMA PassCounts ==
    ASSUME SeqInv, NEW n \in 0 .. N, Skips(n),
           NEW m \in n .. N, m = n \/ (m = n + 1 /\ State(buffer, expected + n) = "Filled")
    PROVE  /\ Cardinality(FilledIn(Emptied(m), expected + m)) + (m - n) =
                 Cardinality(FilledIn(buffer, expected))
           /\ Cardinality(SkippedIn(Emptied(m), expected + m)) + n =
                 Cardinality(SkippedIn(buffer, expected))
<1> DEFINE c == Emptied(m)
           e == expected + m
<1>1. expected \in Nat /\ N \in Nat \ {0} /\ n \in Nat /\ m \in 0 .. N /\ m \in Nat /\ n <= m
      /\ m <= N /\ e \in Nat
  BY Size DEF SeqInv
<1>2. \A t \in e .. e + N - 1 :
         State(c, t) = IF t < expected + N THEN State(buffer, t) ELSE "Empty"
  BY <1>1, EmptiedState, Zenon
<1>3. \A t \in expected .. expected + n - 1 : State(buffer, t) = "Skipped"
  <2> SUFFICES ASSUME NEW t \in expected .. expected + n - 1
               PROVE  State(buffer, t) = "Skipped"
    BY Zenon
  <2>1. t - expected \in 0 .. n - 1 /\ expected + (t - expected) = t BY <1>1
  <2> QED BY <2>1, Zenon DEF Skips
<1> DEFINE passed == expected .. expected + n - 1
           taken == {t \in {expected + n} : m # n}
<1>4. FilledIn(buffer, expected) = FilledIn(c, e) \cup taken /\ FilledIn(c, e) \cap taken = {}
  <2>1. ASSUME NEW t PROVE t \in FilledIn(buffer, expected) <=> t \in FilledIn(c, e) \cup taken
    <3> HIDE DEF c
    <3>1. t \in taken <=> t = expected + n /\ m # n BY Zenon
    <3>2. t \in FilledIn(c, e) <=>
             t \in Int /\ t >= expected + m /\ t < expected + N /\ State(buffer, t) = "Filled"
      BY <1>1, <1>2 DEF FilledIn
    <3>3. t \in FilledIn(buffer, expected) <=>
             t \in Int /\ t >= expected /\ t < expected + N /\ State(buffer, t) = "Filled"
      BY <1>1 DEF FilledIn
    <3>4. ASSUME t \in Int, t >= expected, t < expected + n PROVE State(buffer, t) # "Filled"
      BY <1>1, <1>3, <3>4
    <3>5. m # n => m = n + 1 /\ State(buffer, expected + n) = "Filled" BY Zenon
    <3> HIDE DEF taken, e
    <3> QED BY <1>1, <3>1, <3>2, <3>3, <3>4, <3>5
  <2>2. FilledIn(c, e) \cap taken = {} BY <1>1 DEF FilledIn
  <2> QED BY <2>1, <2>2, Zenon
<1>5. SkippedIn(buffer, expected) = SkippedIn(c, e) \cup passed
      /\ SkippedIn(c, e) \cap passed = {}
  <2>1. ASSUME NEW t PROVE t \in SkippedIn(buffer, expected) <=> t \in SkippedIn(c, e) \cup passed
    BY <1>1, <1>2, <1>3 DEF SkippedIn
  <2>2. SkippedIn(c, e) \cap passed = {} BY <1>1 DEF SkippedIn
  <2> QED BY <2>1, <2>2, Zenon
<1>6. IsFiniteSet(passed) /\ Cardinality(passed) = n
  <2>1. expected \in Int /\ expected + n - 1 \in Int
    BY <1>1
  <2>2. IsFiniteSet(passed) /\ Cardinality(passed) =
           IF expected > expected + n - 1 THEN 0 ELSE (expected + n - 1) - expected + 1
    BY <2>1, FS_Interval, Zenon
  <2> HIDE DEF passed
  <2> QED BY <1>1, <2>2
<1>7. IsFiniteSet(taken) /\ Cardinality(taken) = m - n
  <2>1. CASE m = n
    <3>1. taken = {} BY <2>1, Zenon
    <3>2. m - n = 0 BY <1>1, <2>1
    <3> QED BY <3>1, <3>2, FS_EmptySet, Zenon
  <2>2. CASE m # n
    <3>1. taken = {expected + n} BY <2>2, Zenon
    <3>2. m - n = 1 BY <1>1, <2>2
    <3> QED BY <3>1, <3>2, FS_Singleton, Zenon
  <2> QED BY <2>1, <2>2, Zenon
<1> HIDE DEF c, e, passed, taken
<1>8. /\ Cardinality(FilledIn(buffer, expected)) = Cardinality(FilledIn(c, e)) + (m - n)
      /\ Cardinality(SkippedIn(buffer, expected)) = Cardinality(SkippedIn(c, e)) + n
  BY <1>1, <1>4, <1>5, <1>6, <1>7, Counted, Disjoint, Zenon
<1> QED BY <1>8, Zenon DEF c, e

LEMMA NoneCounted ==
    ASSUME NEW b, NEW e \in Nat, \A k \in Slots : b[k].state = "Empty"
    PROVE  Cardinality(FilledIn(b, e)) = 0 /\ Cardinality(SkippedIn(b, e)) = 0
<1>1. \A t \in e .. e + N - 1 : State(b, t) = "Empty" BY SlotOfSeq DEF State
<1>2. FilledIn(b, e) = {} /\ SkippedIn(b, e) = {} BY <1>1, Zenon DEF FilledIn, SkippedIn
<1> QED BY <1>2, FS_EmptySet, Zenon

-----------------------------------------------------------------------------
(* The counters *)

\* What a step may add: each counter is named once.
Entries(missed, got, gone) ==
    {<<"accepted", 1>>, <<"duplicates", 1>>, <<"delivered", 1>>, <<"gaps_detected", 1>>,
     <<"missing_messages", missed>>, <<"recovery_requests", 1>>,
     <<"messages_recovered", got>>, <<"unrecoverable", gone>>, <<"reorder_overflows", 1>>}

\* The amount under c among the increments, when it can only be v.
Amount(incs, c, v) == IF <<c, v>> \in incs THEN v ELSE 0

LEMMA CountOne ==
    ASSUME NEW incs, NEW c \in Counters, NEW v \in Nat, \A i \in incs : i[1] = c => i = <<c, v>>,
           stats \in [Counters -> Nat]
    PROVE  Count(stats, incs)[c] = stats[c] + Amount(incs, c, v)
<1>1. Count(stats, incs)[c] = IF \E i \in incs : i[1] = c
                              THEN stats[c] + (CHOOSE i \in incs : i[1] = c)[2] ELSE stats[c]
  BY Zenon DEF Count
<1>2. CASE <<c, v>> \in incs
  <2>1. \E i \in incs : i[1] = c BY <1>2, Zenon
  <2>2. PICK j : j = CHOOSE i \in incs : i[1] = c BY Zenon
  <2>3. j \in incs /\ j[1] = c BY <2>1, <2>2, Zenon
  <2>4. j[2] = v BY <2>3
  <2> QED BY <1>1, <1>2, <2>1, <2>2, <2>4, Zenon DEF Amount
<1>3. CASE <<c, v>> \notin incs
  <2>1. ~ \E i \in incs : i[1] = c BY <1>3, Zenon
  <2> QED BY <1>1, <1>3, <2>1 DEF Amount
<1> QED BY <1>2, <1>3, Zenon

LEMMA Tally ==
    ASSUME NEW missed \in Nat, NEW got \in Nat, NEW gone \in Nat,
           NEW incs \in SUBSET Entries(missed, got, gone),
           stats \in [Counters -> Nat], stats' = Count(stats, incs)
    PROVE  /\ stats' \in [Counters -> Nat]
           /\ stats'["accepted"] = stats["accepted"] + Amount(incs, "accepted", 1)
           /\ stats'["duplicates"] = stats["duplicates"] + Amount(incs, "duplicates", 1)
           /\ stats'["delivered"] = stats["delivered"] + Amount(incs, "delivered", 1)
           /\ stats'["messages_recovered"] =
                 stats["messages_recovered"] + Amount(incs, "messages_recovered", got)
           /\ stats'["unrecoverable"] =
                 stats["unrecoverable"] + Amount(incs, "unrecoverable", gone)
           /\ stats'["reorder_overflows"] =
                 stats["reorder_overflows"] + Amount(incs, "reorder_overflows", 1)
<1> DEFINE V(c) == CASE c = "missing_messages" -> missed [] c = "messages_recovered" -> got
                     [] c = "unrecoverable" -> gone [] OTHER -> 1
<1>1. \A c \in Counters : V(c) \in Nat /\ \A i \in incs : i[1] = c => i = <<c, V(c)>>
  BY DEF Entries, Counters
<1>2. /\ V("accepted") = 1 /\ V("duplicates") = 1 /\ V("delivered") = 1
      /\ V("messages_recovered") = got /\ V("unrecoverable") = gone
      /\ V("reorder_overflows") = 1
  BY Zenon
<1> HIDE DEF V
<1>3. \A c \in Counters : stats'[c] = stats[c] + Amount(incs, c, V(c))
  BY <1>1, CountOne, Zenon
<1>4. stats' \in [Counters -> Nat]
  <2>1. ASSUME NEW c \in Counters PROVE stats'[c] \in Nat
    <3>1. Amount(incs, c, V(c)) \in Nat BY <1>1, Zenon DEF Amount
    <3>2. stats[c] \in Nat BY Zenon
    <3> QED BY <1>3, <3>1, <3>2
  <2>2. stats' = [c \in Counters |-> stats'[c]] BY Zenon DEF Count
  <2> QED BY <2>1, <2>2, Zenon
<1> QED BY <1>2, <1>3, <1>4, Zenon DEF Counters

-----------------------------------------------------------------------------
(* The ledger *)

\* What NoSilentLoss and Conservation need to be inductive: the gap under
\* recovery lies within the window, and nothing is counted before the start.
LedgerInv ==
    /\ stats \in [Counters -> Nat] /\ first \in Nat
    /\ ~started => expected = 0 /\ first = 0
    /\ Recovering => range.to < expected + N
    /\ NoSilentLoss
    /\ Conservation

\* The two balances of the counters st when the stream has moved on by d, f
\* messages are held and k numbers are marked.
Balance(st, d, f, k) ==
    /\ st["delivered"] + st["unrecoverable"] >= d + k
    /\ st["accepted"] + st["messages_recovered"] >= st["delivered"] + st["duplicates"] + f
    /\ st["reorder_overflows"] = 0 =>
          st["accepted"] + st["messages_recovered"] = st["delivered"] + st["duplicates"] + f

\* The increments are matched by how far the stream moves on and by what is held
\* and marked, f and k before the step and f2 and k2 after it.
Even(incs, got, gone, by, f, k, f2, k2) ==
    LET a == Amount(incs, "accepted", 1)
        u == Amount(incs, "duplicates", 1)
        d == Amount(incs, "delivered", 1)
        r == Amount(incs, "messages_recovered", got)
        g == Amount(incs, "unrecoverable", gone)
    IN  /\ d + g + k >= by + k2
        /\ a + r + f >= d + u + f2
        /\ <<"reorder_overflows", 1>> \notin incs => a + r + f = d + u + f2

LEMMA Posts ==
    ASSUME NEW missed \in Nat, NEW got \in Nat, NEW gone \in Nat,
           NEW incs \in SUBSET Entries(missed, got, gone),
           stats \in [Counters -> Nat], stats' = Count(stats, incs),
           NEW m \in Int, NEW f \in Nat, NEW k \in Nat, Balance(stats, m, f, k),
           NEW m2 \in Int, NEW f2 \in Nat, NEW k2 \in Nat,
           Even(incs, got, gone, m2 - m, f, k, f2, k2)
    PROVE  stats' \in [Counters -> Nat] /\ Balance(stats', m2, f2, k2)
<1>1. PICK a, u, d, r, g, o :
         /\ a = Amount(incs, "accepted", 1) /\ u = Amount(incs, "duplicates", 1)
         /\ d = Amount(incs, "delivered", 1) /\ r = Amount(incs, "messages_recovered", got)
         /\ g = Amount(incs, "unrecoverable", gone) /\ o = Amount(incs, "reorder_overflows", 1)
  BY Zenon
<1>2. a \in Nat /\ u \in Nat /\ d \in Nat /\ r \in Nat /\ g \in Nat /\ o \in Nat
      /\ (o = 0 => <<"reorder_overflows", 1>> \notin incs)
  BY <1>1 DEF Amount
<1>3. /\ d + g + k >= (m2 - m) + k2
      /\ a + r + f >= d + u + f2
      /\ o = 0 => a + r + f = d + u + f2
  BY <1>1, <1>2, Zenon DEF Even
<1>4. /\ stats' \in [Counters -> Nat]
      /\ stats'["accepted"] = stats["accepted"] + Amount(incs, "accepted", 1)
      /\ stats'["duplicates"] = stats["duplicates"] + Amount(incs, "duplicates", 1)
      /\ stats'["delivered"] = stats["delivered"] + Amount(incs, "delivered", 1)
      /\ stats'["messages_recovered"] =
            stats["messages_recovered"] + Amount(incs, "messages_recovered", got)
      /\ stats'["unrecoverable"] =
            stats["unrecoverable"] + Amount(incs, "unrecoverable", gone)
      /\ stats'["reorder_overflows"] =
            stats["reorder_overflows"] + Amount(incs, "reorder_overflows", 1)
  BY Tally
<1>5. /\ stats'["accepted"] = stats["accepted"] + a
      /\ stats'["duplicates"] = stats["duplicates"] + u
      /\ stats'["delivered"] = stats["delivered"] + d
      /\ stats'["messages_recovered"] = stats["messages_recovered"] + r
      /\ stats'["unrecoverable"] = stats["unrecoverable"] + g
      /\ stats'["reorder_overflows"] = stats["reorder_overflows"] + o
  BY <1>1, <1>4, Zenon
<1>6. \A c \in Counters : stats[c] \in Nat BY Zenon
<1> DEFINE A == stats["accepted"]
           U == stats["duplicates"]
           D == stats["delivered"]
           R == stats["messages_recovered"]
           G == stats["unrecoverable"]
           O == stats["reorder_overflows"]
<1>7. A \in Nat /\ U \in Nat /\ D \in Nat /\ R \in Nat /\ G \in Nat /\ O \in Nat
  BY <1>6, Zenon DEF Counters
<1>8. D + G >= m + k /\ A + R >= D + U + f /\ (O = 0 => A + R = D + U + f) BY Zenon DEF Balance
<1> HIDE DEF A, U, D, R, G, O
<1>9. /\ (D + d) + (G + g) >= m2 + k2
      /\ (A + a) + (R + r) >= (D + d) + (U + u) + f2
      /\ O + o = 0 => (A + a) + (R + r) = (D + d) + (U + u) + f2
  BY <1>2, <1>3, <1>7, <1>8
<1>10. Balance(stats', m2, f2, k2) BY <1>5, <1>9, Zenon DEF Balance, A, U, D, R, G, O
<1> QED BY <1>4, <1>10, Zenon

Held == Cardinality(FilledIn(buffer, expected))
Marked == Cardinality(SkippedIn(buffer, expected))

LEMMA Balanced ==
    ASSUME SeqInv, LedgerInv
    PROVE  /\ Balance(stats, expected - first, Held, Marked)
           /\ Held \in Nat /\ Marked \in Nat /\ expected \in Nat /\ first \in Nat
           /\ \A c \in Counters : stats[c] \in Nat
<1>1. Balance(stats, expected - first, Held, Marked)
  BY Zenon DEF LedgerInv, NoSilentLoss, Conservation, Balance, Filled, Skipped, Window,
         FilledIn, SkippedIn, Held, Marked
<1>2. expected \in Nat BY Zenon DEF SeqInv
<1>3. Held \in Nat /\ Marked \in Nat BY <1>2, Counted, Zenon DEF Held, Marked
<1> QED BY <1>1, <1>2, <1>3, Zenon DEF LedgerInv

LEMMA Rebalanced ==
    ASSUME Balance(stats', expected' - first', Held', Marked')
    PROVE  NoSilentLoss' /\ Conservation'
BY Zenon DEF NoSilentLoss, Conservation, Balance, Filled, Skipped, Window,
       FilledIn, SkippedIn, Held, Marked

\* accept(), with expected_ at e.
LEMMA AcceptBalances ==
    ASSUME SeqInv, LedgerInv, NEW s \in Nat, Accept(s)
    PROVE  /\ stats' \in [Counters -> Nat]
           /\ Balance(stats', expected' - first', Held', Marked')
           /\ Recovering' => range'.to < expected' + N
<1> DEFINE e == IF started THEN expected ELSE s
<1>1. /\ e \in Nat /\ buffer \in BufferType /\ stats \in [Counters -> Nat] /\ ~Recovering
      /\ N \in Nat \ {0}
  BY Size, Zenon DEF SeqInv, BufferType, Accept, LedgerInv
<1>2. Balance(stats, e - first', Cardinality(FilledIn(buffer, e)),
                                 Cardinality(SkippedIn(buffer, e)))
  <2>1. CASE started BY <2>1, Balanced, Zenon DEF Accept, Held, Marked
  <2>2. CASE ~started
    <3>1. e = s /\ first' = s /\ expected = 0 /\ first = 0 BY <2>2, Zenon DEF Accept, LedgerInv
    <3>2. Held = 0 /\ Marked = 0 /\ Cardinality(FilledIn(buffer, e)) = 0
          /\ Cardinality(SkippedIn(buffer, e)) = 0
      BY <1>1, <2>2, NoneCounted, Zenon DEF SeqInv, Held, Marked
    <3>3. s - s = 0 - 0 OBVIOUS
    <3> QED BY <3>1, <3>2, <3>3, Balanced, Zenon
  <2> QED BY <2>1, <2>2, Zenon
<1>3. AcceptStale(s, e) \/ AcceptOverflow(s, e) \/ AcceptInWindow(s, e) BY Zenon DEF Accept
<1>4. first' \in Nat BY Zenon DEF Accept, LedgerInv
<1>5. \A c \in Counters : stats[c] \in Nat BY <1>1, Zenon
<1> DEFINE f == Cardinality(FilledIn(buffer, e))
           k == Cardinality(SkippedIn(buffer, e))
<1>6. f \in Nat /\ k \in Nat BY <1>1, Counted, Zenon
<1> HIDE DEF e
<1>7. e - first' \in Int BY <1>1, <1>4
<1>8. CASE AcceptStale(s, e)
  <2> DEFINE incs == {<<"accepted", 1>>, <<"duplicates", 1>>}
             m == e - first'
  <2>1. /\ stats' = Count(stats, incs) /\ expected' = e /\ buffer' = buffer /\ range' = range
    BY <1>8, Zenon DEF AcceptStale
  <2>2. Held' = f /\ Marked' = k /\ m \in Int /\ Balance(stats, m, f, k)
    BY <1>2, <1>7, <2>1, Zenon DEF Held, Marked
  <2> HIDE DEF m, f, k
  <2>3. incs \in SUBSET Entries(0, 0, 0) /\ Even(incs, 0, 0, m - m, f, k, f, k)
    BY <1>6, <2>2 DEF Entries, Even, Amount
  <2> HIDE DEF incs
  <2>4. stats' \in [Counters -> Nat] /\ Balance(stats', m, f, k)
    BY <1>1, <1>6, <2>1, <2>2, <2>3, Posts, 0 \in Nat, Zenon
  <2>5. ~Recovering' BY <1>1, <2>1, Zenon DEF Recovering
  <2>6. expected' - first' = m BY <2>1, Zenon DEF m
  <2> QED BY <2>2, <2>4, <2>5, <2>6, Zenon
<1>9. CASE AcceptOverflow(s, e)
  <2>0. PICK gone : gone = s - e BY Zenon
  <2> DEFINE b == [j \in Slots |-> [buffer[j] EXCEPT !.state = "Empty"]]
             incs == {<<"accepted", 1>>, <<"reorder_overflows", 1>>, <<"unrecoverable", gone>>}
             m == e - first'
             m2 == s - first'
  <2>1. /\ stats' = Count(stats, incs) /\ expected' = s /\ buffer' = Store(b, s)
        /\ range' = range /\ gone \in Nat
    BY <1>1, <1>9, <2>0 DEF AcceptOverflow
  <2>2. b \in BufferType /\ \A j \in Slots : b[j].state = "Empty"
    BY <1>1, Zenon DEF BufferType, SlotState
  <2>3. s \in s .. s + N - 1 /\ State(b, s) # "Filled"
    <3>1. State(b, s) = "Empty" BY <2>2, SlotOfSeq DEF State
    <3> QED BY <1>1, <3>1
  <2> HIDE DEF b
  <2>4. Cardinality(FilledIn(b, s)) = 0 /\ Cardinality(SkippedIn(b, s)) = 0
    BY <2>2, NoneCounted, Zenon
  <2>5. Held' = 1 /\ Marked' = 0
    <3>1. /\ Cardinality(FilledIn(Store(b, s), s)) = Cardinality(FilledIn(b, s)) + 1
          /\ Cardinality(SkippedIn(Store(b, s), s)) <= Cardinality(SkippedIn(b, s))
      BY <2>2, <2>3, StoreCounts, Zenon
    <3>2. Cardinality(SkippedIn(Store(b, s), s)) \in Nat BY Counted, Zenon
    <3> QED BY <2>1, <2>4, <3>1, <3>2 DEF Held, Marked
  <2>6. m \in Int /\ m2 \in Int /\ m2 - m = gone /\ Balance(stats, m, f, k)
    <3>1. \A x \in Nat : (s - x) - (e - x) = s - e /\ s - x \in Int /\ e - x \in Int BY <1>1
    <3> QED BY <1>2, <1>4, <2>0, <3>1, Zenon
  <2> HIDE DEF m, m2, f, k
  <2>7. incs \in SUBSET Entries(0, 0, gone) /\ Even(incs, 0, gone, m2 - m, f, k, 1, 0)
    <3>1. /\ Amount(incs, "accepted", 1) = 1 /\ Amount(incs, "duplicates", 1) = 0
          /\ Amount(incs, "delivered", 1) = 0 /\ Amount(incs, "messages_recovered", 0) = 0
          /\ Amount(incs, "unrecoverable", gone) = gone
      BY Zenon DEF Amount
    <3>2. <<"reorder_overflows", 1>> \in incs /\ incs \in SUBSET Entries(0, 0, gone)
      BY Zenon DEF Entries
    <3> HIDE DEF incs
    <3> QED BY <1>6, <2>1, <2>6, <3>1, <3>2 DEF Even
  <2> HIDE DEF incs
  <2>8. stats' \in [Counters -> Nat] /\ Balance(stats', m2, 1, 0)
    BY <1>1, <1>6, <2>1, <2>6, <2>7, Posts, 0 \in Nat, 1 \in Nat, Zenon
  <2>9. ~Recovering' BY <1>1, <2>1, Zenon DEF Recovering
  <2>10. expected' - first' = m2 BY <2>1, Zenon DEF m2
  <2> QED BY <2>5, <2>8, <2>9, <2>10, Zenon
<1>10. CASE AcceptInWindow(s, e)
  <2> DEFINE held == State(buffer, s) = "Filled"
             stored == IF held THEN buffer ELSE Store(buffer, s)
             f2 == Cardinality(FilledIn(stored, e))
             k2 == Cardinality(SkippedIn(stored, e))
             gap == s > e /\ State(buffer, e) = "Empty"
             dup == {<<"accepted", 1>>} \cup IF held THEN {<<"duplicates", 1>>} ELSE {}
             found == {<<"gaps_detected", 1>>, <<"missing_messages", s - e>>}
             gone == Cardinality(Missing(stored, e, s - 1))
             m == e - first'
  <2>1. s \in e .. e + N - 1 /\ s - e \in Nat /\ expected' = e /\ s - 1 \in Int /\ s - 1 < e + N
    BY <1>1, <1>10 DEF AcceptInWindow, InWindow
  <2>2. \/ /\ buffer' = stored /\ range' = range /\ stats' = Count(stats, dup)
        \/ /\ buffer' = stored /\ range' = [from |-> e, to |-> s - 1, start |-> e]
           /\ stats' = Count(stats, dup \cup found \cup {<<"recovery_requests", 1>>})
        \/ /\ buffer' = Skip(stored, e, s - 1) /\ range' = range
           /\ stats' = Count(stats, dup \cup found \cup {<<"unrecoverable", gone>>})
    BY <1>10, Zenon DEF AcceptInWindow
  <2>3. m \in Int /\ Balance(stats, m, f, k) /\ expected' - first' = m
    BY <1>1, <1>2, <1>4, <2>1
  <2>4. stored \in BufferType
    <3>1. CASE held BY <1>1, <3>1, Zenon
    <3>2. CASE ~held
      <4>1. s % N \in Slots BY SlotOfSeq
      <4> QED BY <1>1, <3>2, <4>1, Zenon DEF Store, BufferType, SlotState
    <3> QED BY <3>1, <3>2, Zenon
  <2>5. /\ f2 = IF held THEN f ELSE f + 1
        /\ k2 <= k
    <3>1. CASE held BY <1>6, <3>1
    <3>2. CASE ~held BY <1>1, <2>1, <3>2, StoreCounts, Zenon
    <3> QED BY <3>1, <3>2, Zenon
  <2>6. f2 \in Nat /\ k2 \in Nat BY <1>1, Counted, Zenon
  <2> HIDE DEF stored, f2, k2, f, k, m
  <2>7. CASE buffer' = stored /\ range' = range /\ stats' = Count(stats, dup)
    <3>1. dup \in SUBSET Entries(0, 0, 0) /\ Even(dup, 0, 0, m - m, f, k, f2, k2)
      BY <1>6, <2>3, <2>5, <2>6 DEF Entries, Even, Amount
    <3> HIDE DEF dup
    <3>2. stats' \in [Counters -> Nat] /\ Balance(stats', m, f2, k2)
      BY <1>1, <1>6, <2>3, <2>6, <2>7, <3>1, Posts, 0 \in Nat, Zenon
    <3>3. ~Recovering' BY <1>1, <2>7, Zenon DEF Recovering
    <3>4. Held' = f2 /\ Marked' = k2 BY <2>1, <2>7, Zenon DEF Held, Marked, f2, k2
    <3> QED BY <2>3, <3>2, <3>3, <3>4, Zenon
  <2>8. CASE /\ buffer' = stored /\ range' = [from |-> e, to |-> s - 1, start |-> e]
             /\ stats' = Count(stats, dup \cup found \cup {<<"recovery_requests", 1>>})
    <3> DEFINE incs == dup \cup found \cup {<<"recovery_requests", 1>>}
    <3>1. incs \in SUBSET Entries(s - e, 0, 0) /\ Even(incs, 0, 0, m - m, f, k, f2, k2)
      BY <1>6, <2>1, <2>3, <2>5, <2>6 DEF Entries, Even, Amount
    <3> HIDE DEF incs
    <3>2. stats' = Count(stats, incs) BY <2>8, Zenon DEF incs
    <3>3. stats' \in [Counters -> Nat] /\ Balance(stats', m, f2, k2)
      BY <1>1, <1>6, <2>1, <2>3, <2>6, <3>1, <3>2, Posts, 0 \in Nat, Zenon
    <3>4. range'.to < expected' + N BY <1>1, <2>1, <2>8, Zenon
    <3>5. Held' = f2 /\ Marked' = k2 BY <2>1, <2>8, Zenon DEF Held, Marked, f2, k2
    <3> QED BY <2>3, <3>3, <3>4, <3>5, Zenon
  <2>9. CASE /\ buffer' = Skip(stored, e, s - 1) /\ range' = range
              /\ stats' = Count(stats, dup \cup found \cup {<<"unrecoverable", gone>>})
    <3> DEFINE incs == dup \cup found \cup {<<"unrecoverable", gone>>}
    <3>1. /\ gone \in Nat /\ Held' = f2 /\ Marked' = k2 + gone
      BY <1>1, <2>1, <2>4, <2>9, SkipCounts, Zenon DEF Held, Marked, f2, k2
    <3> HIDE DEF gone
    <3>2. k2 + gone \in Nat BY <2>6, <3>1
    <3>3. /\ incs \in SUBSET Entries(s - e, 0, gone)
          /\ Even(incs, 0, gone, m - m, f, k, f2, k2 + gone)
      BY <1>6, <2>1, <2>3, <2>5, <2>6, <3>1 DEF Entries, Even, Amount
    <3> HIDE DEF incs
    <3>4. stats' = Count(stats, incs) BY <2>9, Zenon DEF incs
    <3>5. stats' \in [Counters -> Nat] /\ Balance(stats', m, f2, k2 + gone)
      BY <1>1, <1>6, <2>1, <2>3, <2>6, <3>1, <3>2, <3>3, <3>4, Posts, 0 \in Nat, ZenonT(40)
    <3>6. ~Recovering' BY <1>1, <2>9, Zenon DEF Recovering
    <3> QED BY <2>3, <3>1, <3>5, <3>6, Zenon
  <2> QED BY <2>2, <2>7, <2>8, <2>9, Zenon
<1> QED BY <1>3, <1>8, <1>9, <1>10, Zenon

\* Leaving recover_range with the buffer b, after got messages were added to it.
LEMMA FinishBalances ==
    ASSUME SeqInv, LedgerInv, Recovering, NEW b \in BufferType, NEW got \in Nat,
           NEW incs \in SUBSET {<<"messages_recovered", got>>},
           Amount(incs, "messages_recovered", got) = got,
           Cardinality(FilledIn(b, expected)) = Held + got,
           Cardinality(SkippedIn(b, expected)) <= Marked,
           Finish(b, incs), UNCHANGED <<expected, first>>
    PROVE  stats' \in [Counters -> Nat] /\ Balance(stats', expected' - first', Held', Marked')
<1> DEFINE gone == Cardinality(Missing(b, expected, range.to))
           all == incs \cup {<<"unrecoverable", gone>>}
           f2 == Cardinality(FilledIn(b, expected))
           k2 == Cardinality(SkippedIn(b, expected))
           m == expected - first
<1>1. /\ expected \in Nat /\ first \in Nat /\ range.from = expected /\ range.to \in Int
      /\ range.to < expected + N /\ stats \in [Counters -> Nat]
  BY DEF SeqInv, LedgerInv
<1>2. buffer' = Skip(b, expected, range.to) /\ stats' = Count(stats, all)
  BY <1>1, Zenon DEF Finish
<1>3. gone \in Nat /\ Held' = f2 /\ Marked' = k2 + gone
  BY <1>1, <1>2, SkipCounts, Zenon DEF Held, Marked
<1>4. f2 \in Nat /\ k2 \in Nat BY <1>1, Counted, Zenon
<1>5. /\ Balance(stats, m, Held, Marked) /\ m \in Int /\ Held \in Nat /\ Marked \in Nat
      /\ expected' - first' = m
  BY <1>1, Balanced
<1> HIDE DEF gone, f2, k2, m
<1>6. k2 + gone \in Nat BY <1>3, <1>4
<1>7. all \in SUBSET Entries(0, got, gone) BY Zenon DEF Entries
<1>8. Even(all, got, gone, m - m, Held, Marked, f2, k2 + gone)
  <2>1. /\ Amount(all, "accepted", 1) = 0 /\ Amount(all, "duplicates", 1) = 0
        /\ Amount(all, "delivered", 1) = 0 /\ Amount(all, "unrecoverable", gone) = gone
    BY Zenon DEF Amount
  <2>2. Amount(all, "messages_recovered", got) = got BY Zenon DEF Amount
  <2>3. f2 = Held + got /\ k2 <= Marked BY Zenon DEF f2, k2
  <2> HIDE DEF all
  <2> QED BY <1>3, <1>4, <1>5, <2>1, <2>2, <2>3 DEF Even
<1> HIDE DEF all
<1>9. stats' \in [Counters -> Nat] /\ Balance(stats', m, f2, k2 + gone)
  BY <1>1, <1>2, <1>3, <1>4, <1>5, <1>6, <1>7, <1>8, Posts, 0 \in Nat, ZenonT(40)
<1> QED BY <1>3, <1>5, <1>9, Zenon

LEMMA ReplyBalances ==
    ASSUME SeqInv, LedgerInv, NEW msgs \in SUBSET Nat, Reply(msgs)
    PROVE  /\ stats' \in [Counters -> Nat]
           /\ Balance(stats', expected' - first', Held', Marked')
           /\ Recovering' => range'.to < expected' + N
<1> DEFINE filled == Fill(buffer, expected, msgs)
           got == Cardinality(Fresh(buffer, expected, msgs))
           f2 == Cardinality(FilledIn(filled, expected))
           k2 == Cardinality(SkippedIn(filled, expected))
           incs == {<<"messages_recovered", got>>}
           more == incs \cup {<<"recovery_requests", 1>>}
           m == expected - first
<1>1. /\ Recovering /\ UNCHANGED <<expected, first>> /\ buffer \in BufferType
      /\ expected \in Nat /\ first \in Nat /\ stats \in [Counters -> Nat]
      /\ range \in [from : Nat, to : Nat, start : Nat] /\ range.to < expected + N
      /\ Placed(buffer, expected)
  BY Zenon DEF Reply, SeqInv, BufferType, LedgerInv
<1>2. \/ /\ buffer' = filled /\ stats' = Count(stats, more)
         /\ range' = [range EXCEPT !.start = @ + KBatch]
      \/ Finish(filled, incs)
  BY Zenon DEF Reply
<1>3. /\ got \in Nat
      /\ Cardinality(FilledIn(filled, expected)) = Held + got
      /\ Cardinality(SkippedIn(filled, expected)) <= Marked
  BY <1>1, FillCounts, Zenon DEF Held, Marked
<1>4. filled \in BufferType BY <1>1, FillKeeps, Zenon
<1>5. f2 \in Nat /\ k2 \in Nat BY <1>1, Counted, Zenon
<1>6. /\ Balance(stats, m, Held, Marked) /\ m \in Int /\ Held \in Nat /\ Marked \in Nat
      /\ expected' - first' = m
  BY <1>1, Balanced
<1> HIDE DEF filled, got, m
<1>7. CASE buffer' = filled /\ stats' = Count(stats, more)
           /\ range' = [range EXCEPT !.start = @ + KBatch]
  <2>1. more \in SUBSET Entries(0, got, 0) BY Zenon DEF Entries
  <2>2. Even(more, got, 0, m - m, Held, Marked, f2, k2)
    <3>1. /\ Amount(more, "accepted", 1) = 0 /\ Amount(more, "duplicates", 1) = 0
          /\ Amount(more, "delivered", 1) = 0 /\ Amount(more, "unrecoverable", 0) = 0
          /\ Amount(more, "messages_recovered", got) = got
      BY Zenon DEF Amount
    <3> HIDE DEF more
    <3> QED BY <1>3, <1>5, <1>6, <3>1 DEF Even
  <2>3. Held' = f2 /\ Marked' = k2 BY <1>1, <1>7, Zenon DEF Held, Marked
  <2> HIDE DEF more, f2, k2
  <2>4. stats' \in [Counters -> Nat] /\ Balance(stats', m, f2, k2)
    BY <1>1, <1>3, <1>5, <1>6, <1>7, <2>1, <2>2, Posts, 0 \in Nat, ZenonT(40)
  <2>5. range'.to = range.to BY <1>1, <1>7, Zenon
  <2> QED BY <1>1, <1>6, <2>3, <2>4, <2>5, Zenon
<1>8. CASE Finish(filled, incs)
  <2>1. incs \in SUBSET {<<"messages_recovered", got>>}
        /\ Amount(incs, "messages_recovered", got) = got
    BY Zenon DEF Amount
  <2> HIDE DEF incs
  <2>2. stats' \in [Counters -> Nat] /\ Balance(stats', expected' - first', Held', Marked')
    BY <1>1, <1>3, <1>4, <1>8, <2>1, FinishBalances, Zenon
  <2>3. ~Recovering' BY <1>8, Zenon DEF Finish, Recovering
  <2> QED BY <2>2, <2>3, Zenon
<1> QED BY <1>2, <1>7, <1>8, Zenon

LEMMA FailsBalances ==
    ASSUME SeqInv, LedgerInv, RequestFails
    PROVE  /\ stats' \in [Counters -> Nat]
           /\ Balance(stats', expected' - first', Held', Marked')
           /\ Recovering' => range'.to < expected' + N
<1>1. /\ Recovering /\ Finish(buffer, {}) /\ UNCHANGED <<expected, first>>
      /\ buffer \in BufferType /\ Held \in Nat /\ Marked \in Nat
  BY Balanced, Zenon DEF RequestFails, SeqInv, BufferType
<1>2. /\ Amount({}, "messages_recovered", 0) = 0 /\ {} \in SUBSET {<<"messages_recovered", 0>>}
      /\ Cardinality(FilledIn(buffer, expected)) = Held + 0
      /\ Cardinality(SkippedIn(buffer, expected)) <= Marked
  BY <1>1 DEF Amount, Held, Marked
<1>3. stats' \in [Counters -> Nat] /\ Balance(stats', expected' - first', Held', Marked')
  BY <1>1, <1>2, FinishBalances, 0 \in Nat, Zenon
<1>4. ~Recovering' BY <1>1, Zenon DEF Finish, Recovering
<1> QED BY <1>3, <1>4, Zenon


LEMMA DeliverBalances ==
    ASSUME SeqInv, LedgerInv, NEW n \in 0 .. N, Deliver(n)
    PROVE  /\ stats' \in [Counters -> Nat]
           /\ Balance(stats', expected' - first', Held', Marked')
           /\ ~Recovering'
<1> DEFINE incs == {<<"delivered", 1>>}
           m == expected - first
           m2 == expected' - first'
<1>1. /\ n \in Nat /\ n < N /\ n + 1 \in n .. N /\ N \in Nat /\ Skips(n) /\ ~Recovering
      /\ State(buffer, expected + n) = "Filled"
      /\ buffer' = Emptied(n + 1) /\ expected' = expected + (n + 1)
      /\ stats' = Count(stats, incs) /\ first' = first /\ range' = range
      /\ expected \in Nat /\ first \in Nat /\ stats \in [Counters -> Nat]
  BY Size DEF Deliver, SeqInv, LedgerInv
<1>2. Held' + ((n + 1) - n) = Held /\ Marked' + n = Marked
  BY <1>1, PassCounts, Zenon DEF Held, Marked
<1>3. Held' \in Nat /\ Marked' \in Nat
  <2>1. expected' \in Nat BY <1>1
  <2> QED BY <2>1, Counted, Zenon DEF Held, Marked
<1>4. Balance(stats, m, Held, Marked) /\ Held \in Nat /\ Marked \in Nat BY Balanced, Zenon
<1>5. m \in Int /\ m2 \in Int /\ m2 - m = n + 1
  <2>1. \A x, y \in Nat : (x + (n + 1)) - y - (x - y) = n + 1 BY <1>1
  <2>2. m \in Int /\ m2 \in Int BY <1>1
  <2> QED BY <1>1, <2>1, <2>2, Zenon
<1> HIDE DEF m, m2
<1>6. incs \in SUBSET Entries(0, 0, 0) BY Zenon DEF Entries
<1>7. Even(incs, 0, 0, m2 - m, Held, Marked, Held', Marked')
  <2>1. /\ Amount(incs, "accepted", 1) = 0 /\ Amount(incs, "duplicates", 1) = 0
        /\ Amount(incs, "delivered", 1) = 1 /\ Amount(incs, "unrecoverable", 0) = 0
        /\ Amount(incs, "messages_recovered", 0) = 0
    BY Zenon DEF Amount
  <2> HIDE DEF incs
  <2>2. n \in Nat /\ m2 - m = n + 1 /\ Held = Held' + 1 /\ Marked = Marked' + n
    BY <1>1, <1>2, <1>3, <1>5
  <2>3. /\ 1 + 0 + Marked >= (m2 - m) + Marked' /\ 0 + 0 + Held = 1 + 0 + Held'
        /\ 0 + 0 + Held >= 1 + 0 + Held'
    <3>1. \A h, k, j \in Nat : /\ 1 + 0 + (k + j) >= (j + 1) + k
                              /\ 0 + 0 + (h + 1) = 1 + 0 + h /\ 0 + 0 + (h + 1) >= 1 + 0 + h
      OBVIOUS
    <3> QED BY <1>3, <2>2, <3>1, Zenon
  <2> QED BY <2>1, <2>3, Zenon DEF Even
<1> HIDE DEF incs
<1>8. stats' \in [Counters -> Nat] /\ Balance(stats', m2, Held', Marked')
  BY <1>1, <1>3, <1>4, <1>5, <1>6, <1>7, Posts, 0 \in Nat, Zenon
<1> QED BY <1>1, <1>8, Zenon DEF m2, Recovering

LEMMA NothingBalances ==
    ASSUME SeqInv, LedgerInv, NEW n \in 0 .. N, NothingToDeliver(n)
    PROVE  /\ stats' \in [Counters -> Nat]
           /\ Balance(stats', expected' - first', Held', Marked')
           /\ ~Recovering'
<1>1. /\ n \in Nat /\ n \in n .. N /\ Skips(n) /\ ~Recovering
      /\ buffer' = Emptied(n) /\ expected' = expected + n
      /\ stats' = stats /\ first' = first /\ range' = range
      /\ expected \in Nat /\ first \in Nat /\ stats \in [Counters -> Nat]
  BY Size DEF NothingToDeliver, SeqInv, LedgerInv
<1>2. Held' + (n - n) = Held /\ Marked' + n = Marked
  BY <1>1, PassCounts, Zenon DEF Held, Marked
<1>3. Held' \in Nat /\ Marked' \in Nat
  <2>1. expected' \in Nat BY <1>1
  <2> QED BY <2>1, Counted, Zenon DEF Held, Marked
<1>4. Balance(stats, expected - first, Held, Marked) BY Balanced, Zenon
<1>5. Held' = Held BY <1>1, <1>2, <1>3
<1>6. (expected' - first') + Marked' = (expected - first) + Marked BY <1>1, <1>2, <1>3
<1>7. Balance(stats', expected' - first', Held', Marked')
  BY <1>1, <1>4, <1>5, <1>6, Zenon DEF Balance
<1> QED BY <1>1, <1>7, Zenon DEF Recovering

LEMMA LedgerStarts == Init => LedgerInv
<1> SUFFICES ASSUME Init PROVE LedgerInv BY Zenon
<1>1. /\ expected = 0 /\ first = 0 /\ ~Recovering
      /\ \A k \in Slots : buffer[k].state = "Empty"
  BY Zenon DEF Init, Recovering
<1>2. stats = [c \in Counters |-> 0] BY Zenon DEF Init
<1>3. Cardinality(FilledIn(buffer, 0)) = 0 /\ Cardinality(SkippedIn(buffer, 0)) = 0
  BY <1>1, NoneCounted, Zenon
<1>4. Cardinality(Filled) = 0 /\ Cardinality(Skipped) = 0
  BY <1>1, <1>3, Zenon DEF Filled, Skipped, Window, FilledIn, SkippedIn
<1>5. NoSilentLoss /\ Conservation
  BY <1>1, <1>2, <1>4 DEF NoSilentLoss, Conservation, Counters
<1> QED BY <1>1, <1>2, <1>5, Zenon DEF LedgerInv

LEMMA LedgerStep == SeqInv /\ LedgerInv /\ [Next]_vars => LedgerInv'
<1> SUFFICES ASSUME SeqInv, LedgerInv, [Next]_vars PROVE LedgerInv' BY Zenon
<1>1. ASSUME NEW s \in Seqs, Accept(s) PROVE LedgerInv'
  <2>1. s \in Nat BY Size, Zenon
  <2>2. started' = TRUE /\ first' \in Nat BY <1>1, <2>1, Zenon DEF Accept, LedgerInv
  <2> QED BY <1>1, <2>1, <2>2, AcceptBalances, Rebalanced, Zenon DEF LedgerInv
<1>2. ASSUME NEW msgs \in SUBSET (range.start .. End), Reply(msgs) PROVE LedgerInv'
  <2>1. msgs \in SUBSET Nat BY AnswerType, Zenon
  <2>2. UNCHANGED <<started, expected, first>> BY <1>2, Zenon DEF Reply
  <2> QED BY <1>2, <2>1, <2>2, ReplyBalances, Rebalanced, Zenon DEF LedgerInv
<1>3. CASE RequestFails
  <2>1. UNCHANGED <<started, expected, first>> BY <1>3, Zenon DEF RequestFails
  <2> QED BY <1>3, <2>1, FailsBalances, Rebalanced, Zenon DEF LedgerInv
<1>4. ASSUME NEW n \in 0 .. N, Deliver(n) PROVE LedgerInv'
  <2>1. started' /\ first' = first BY <1>4, Zenon DEF Deliver
  <2> QED BY <1>4, <2>1, DeliverBalances, Rebalanced, Zenon DEF LedgerInv
<1>5. ASSUME NEW n \in 0 .. N, NothingToDeliver(n) PROVE LedgerInv'
  <2>1. started' /\ first' = first BY <1>5, Zenon DEF NothingToDeliver
  <2> QED BY <1>5, <2>1, NothingBalances, Rebalanced, Zenon DEF LedgerInv
<1>6. CASE UNCHANGED vars
  BY <1>6, Zenon DEF vars, LedgerInv, NoSilentLoss, Conservation, Recovering, Filled, Skipped, Window
<1> QED BY <1>1, <1>2, <1>3, <1>4, <1>5, <1>6, Zenon DEF Next, next_deliverable

\* The accounts balance in every reachable state, and a range under recovery
\* ends within the window, so that every number marked in it is counted.
THEOREM LedgerInvariant == Spec => []LedgerInv
<1>1. Init => SeqInv /\ LedgerInv BY InitKeeps, LedgerStarts, Zenon
<1> QED BY <1>1, SequencerInvariant, LedgerStep, PTL DEF Spec

\* Every sequence number that the stream has moved past was delivered or counted
\* as unrecoverable, whatever was retransmitted, skipped or dropped.
THEOREM NeverSilentLoss == Spec => []NoSilentLoss
<1>1. LedgerInv => NoSilentLoss BY Zenon DEF LedgerInv
<1> QED BY <1>1, LedgerInvariant, PTL

\* What was delivered, dropped as a duplicate or is held came in before, and as
\* long as no overflow has discarded any, every message that came in is counted
\* under exactly one of these.
THEOREM MessagesConserved == Spec => []Conservation
<1>1. LedgerInv => Conservation BY Zenon DEF LedgerInv
<1> QED BY <1>1, LedgerInvariant, PTL

-----------------------------------------------------------------------------
(* Gaps *)

\* While a gap is under recovery the message that revealed it is held.
Revealed ==
    Recovering => /\ range.to + 1 \in expected .. expected + N - 1
                  /\ State(buffer, range.to + 1) = "Filled"

\* store(), or the message was held already.
LEMMA StoredState ==
    ASSUME NEW b \in BufferType, NEW e \in Nat, NEW s \in e .. e + N - 1, NEW c,
           c = IF State(b, s) = "Filled" THEN b ELSE Store(b, s)
    PROVE  /\ c \in BufferType
           /\ \A t \in e .. e + N - 1 : State(c, t) = IF t = s THEN "Filled" ELSE State(b, t)
<1>1. s % N \in Slots /\ s \in Nat BY SlotOfSeq
<1>2. Store(b, s) \in BufferType BY <1>1, Zenon DEF Store, BufferType, SlotState
<1>3. \A t \in e .. e + N - 1 : State(Store(b, s), t) = IF t = s THEN "Filled" ELSE State(b, t)
  BY StoreState, Zenon
<1> QED BY <1>2, <1>3, Zenon

LEMMA RevealedStep == SeqInv /\ Revealed /\ [Next]_vars => Revealed'
<1> SUFFICES ASSUME SeqInv, Revealed, [Next]_vars, Recovering' PROVE Revealed' BY Zenon DEF Revealed
<1>0. expected \in Nat /\ buffer \in BufferType /\ N \in Nat \ {0}
  BY Size, Zenon DEF SeqInv, BufferType
<1>1. ASSUME NEW s \in Seqs, Accept(s) PROVE Revealed'
  <2> DEFINE e == IF started THEN expected ELSE s
             stored == IF State(buffer, s) = "Filled" THEN buffer ELSE Store(buffer, s)
  <2>1. s \in Nat /\ e \in Nat /\ ~Recovering BY <1>0, <1>1, Size, Zenon DEF Accept
  <2>2. AcceptInWindow(s, e) /\ range' # range
    BY <1>1, <2>1, Zenon DEF Accept, AcceptStale, AcceptOverflow, Recovering
  <2> HIDE DEF e
  <2>3. /\ InWindow(s, e) /\ expected' = e /\ buffer' = stored
        /\ range' = [from |-> e, to |-> s - 1, start |-> e]
    BY <2>2, Zenon DEF AcceptInWindow
  <2>4. s \in e .. e + N - 1 /\ (s - 1) + 1 = s BY <1>0, <2>1, <2>3 DEF InWindow
  <2>5. PICK c : c = stored BY Zenon
  <2>6. State(c, s) = "Filled" BY <1>0, <2>1, <2>4, <2>5, StoredState
  <2>7. range'.to + 1 = s BY <2>3, <2>4, Zenon
  <2> HIDE DEF stored
  <2> QED BY <2>3, <2>4, <2>5, <2>6, <2>7, Zenon DEF Revealed
<1>2. ASSUME NEW msgs \in SUBSET (range.start .. End), Reply(msgs) PROVE Revealed'
  <2> DEFINE filled == Fill(buffer, expected, msgs)
  <2>1. msgs \in SUBSET Nat /\ Recovering /\ expected' = expected
    BY <1>2, AnswerType, Zenon DEF Reply
  <2>2. buffer' = filled /\ range' = [range EXCEPT !.start = @ + KBatch]
    BY <1>2, Zenon DEF Reply, Finish, Recovering
  <2>3. range'.to = range.to BY <2>2, Zenon DEF SeqInv
  <2>4. PICK t : t = range.to + 1 BY Zenon
  <2>5. t \in expected .. expected + N - 1 /\ State(buffer, t) = "Filled"
    BY <2>1, <2>4, Zenon DEF Revealed
  <2>6. State(filled, t) = IF t \in msgs THEN "Filled" ELSE State(buffer, t)
    BY <1>0, <2>1, <2>5, FillState
  <2>7. State(filled, t) = "Filled" BY <2>5, <2>6, Zenon
  <2> HIDE DEF filled
  <2> QED BY <2>1, <2>2, <2>3, <2>4, <2>5, <2>7, Zenon DEF Revealed
<1>3. \A n : ~Deliver(n) /\ ~NothingToDeliver(n) /\ ~RequestFails
  BY Zenon DEF Deliver, NothingToDeliver, RequestFails, Finish, Recovering
<1>4. CASE UNCHANGED vars BY <1>4, Zenon DEF vars, Revealed, Recovering
<1> QED BY <1>1, <1>2, <1>3, <1>4, Zenon DEF Next, next_deliverable

\* Marking what is still missing in b settles a gap, when b differs from the buffer
\* before the step only in messages that have come in.
LEMMA SkipSettles ==
    ASSUME NEW b \in BufferType, NEW e \in Nat, NEW to \in Int, to + 1 \in e .. e + N - 1,
           State(b, to + 1) = "Filled",
           \A t \in e .. to : State(b, t) \in {"Filled", State(buffer, t)},
           buffer' = Skip(b, e, to),
           stats'["unrecoverable"] = stats["unrecoverable"] + Cardinality(Missing(b, e, to))
    PROVE  Settled(e, to)
<1> DEFINE gone == {t \in e .. to : State(buffer', t) = "Skipped" /\ State(buffer, t) # "Skipped"}
<1>1. to < e + N /\ ~ (to + 1 <= to) /\ \A t \in e .. to : t \in e .. e + N - 1 /\ t <= to
  BY Size
<1>2. \A t \in e .. e + N - 1 : State(buffer', t) =
             IF t <= to /\ State(b, t) = "Empty" THEN "Skipped" ELSE State(b, t)
  BY <1>1, SkipState, Zenon
<1>3. State(buffer', to + 1) = "Filled" BY <1>1, <1>2, Zenon
<1>4. \A t \in e .. to : State(buffer', t) # "Empty" BY <1>1, <1>2, Zenon
<1>5. gone = Missing(b, e, to)
  <2>1. ASSUME NEW t \in e .. to
        PROVE  (State(buffer', t) = "Skipped" /\ State(buffer, t) # "Skipped") <=>
                   State(b, t) = "Empty"
    <3>1. State(buffer', t) = IF State(b, t) = "Empty" THEN "Skipped" ELSE State(b, t)
      BY <1>1, <1>2, Zenon
    <3>2. State(b, t) = "Filled" \/ State(b, t) = State(buffer, t) BY Zenon
    <3> QED BY <3>1, <3>2
  <2> QED BY <2>1, Zenon DEF Missing
<1> QED BY <1>3, <1>4, <1>5, Zenon DEF Settled

\* Leaving recover_range with the buffer b.
LEMMA FinishSettles ==
    ASSUME SeqInv, LedgerInv, Revealed, Recovering, NEW b \in BufferType, NEW got,
           NEW incs \in SUBSET {<<"messages_recovered", got>>}, Finish(b, incs),
           \A t \in expected .. expected + N - 1 : State(b, t) \in {"Filled", State(buffer, t)}
    PROVE  Settled(range.from, range.to)
<1>1. PICK e, to : e = expected /\ to = range.to BY Zenon
<1>2. /\ e \in Nat /\ to \in Int /\ range.from = e /\ to + 1 \in e .. e + N - 1
      /\ stats \in [Counters -> Nat] /\ State(b, to + 1) = "Filled"
  BY <1>1 DEF SeqInv, LedgerInv, Revealed
<1>3. to < e + N /\ \A t \in e .. to : t \in e .. e + N - 1 BY <1>2, Size
<1> DEFINE gone == Cardinality(Missing(b, e, to))
           all == incs \cup {<<"unrecoverable", gone>>}
           c == "unrecoverable"
<1>4. buffer' = Skip(b, e, to) /\ stats' = Count(stats, all) BY <1>1, <1>2, Zenon DEF Finish
<1>5. gone \in Nat BY <1>2, <1>3, SkipCounts, Zenon
<1>6. c \in Counters /\ \A i \in all : i[1] = c => i = <<c, gone>> BY DEF Counters
<1>7. Amount(all, c, gone) = gone BY Zenon DEF Amount
<1> HIDE DEF all
<1>8. Count(stats, all)[c] = stats[c] + Amount(all, c, gone)
  BY <1>2, <1>5, <1>6, CountOne, Zenon
<1>9. stats'[c] = stats[c] + gone BY <1>4, <1>7, <1>8, Zenon
<1>10. \A t \in e .. to : State(b, t) \in {"Filled", State(buffer, t)} BY <1>1, <1>3, Zenon
<1>11. Settled(e, to) BY <1>2, <1>4, <1>9, <1>10, SkipSettles, Zenon
<1> QED BY <1>1, <1>2, <1>11, Zenon

\* accept() without a recovery client.
LEMMA AcceptSettles ==
    ASSUME SeqInv, LedgerInv, NEW s \in Nat, Accept(s), ~Recovering', Missed > 0
    PROVE  Settled(expected', expected' + Missed - 1)
<1> DEFINE e == IF started THEN expected ELSE s
           stored == IF State(buffer, s) = "Filled" THEN buffer ELSE Store(buffer, s)
           gone == Cardinality(Missing(stored, e, s - 1))
           dup == {<<"accepted", 1>>} \cup
                     IF State(buffer, s) = "Filled" THEN {<<"duplicates", 1>>} ELSE {}
           found == {<<"gaps_detected", 1>>, <<"missing_messages", s - e>>}
           all == dup \cup found \cup {<<"unrecoverable", gone>>}
           m == "missing_messages"
           u == "unrecoverable"
<1>1. e \in Nat /\ buffer \in BufferType /\ stats \in [Counters -> Nat] /\ ~Recovering
  BY Zenon DEF SeqInv, BufferType, Accept, LedgerInv
<1>2. AcceptStale(s, e) \/ AcceptOverflow(s, e) \/ AcceptInWindow(s, e) BY Zenon DEF Accept
<1> HIDE DEF e
<1>3. m \in Counters /\ u \in Counters /\ stats[m] \in Nat BY <1>1 DEF Counters
<1>4. ASSUME NEW incs, stats' = Count(stats, incs), \A i \in incs : i[1] # m PROVE FALSE
  <2>1. stats'[m] = stats[m] BY <1>3, <1>4, CountOther, Zenon
  <2> QED BY <1>3, <2>1 DEF Missed
<1>5. AcceptInWindow(s, e)
  <2>1. CASE AcceptStale(s, e) BY <1>4, <2>1 DEF AcceptStale
  <2>2. CASE AcceptOverflow(s, e)
    <3>1. \E by : stats' = Count(stats, {<<"accepted", 1>>, <<"reorder_overflows", 1>>,
                                          <<"unrecoverable", by>>})
      BY <2>2, Zenon DEF AcceptOverflow
    <3> QED BY <1>4, <3>1
  <2> QED BY <1>2, <2>1, <2>2, Zenon
<1>6. \A i \in dup : i[1] # m OBVIOUS
<1>7. range' # [from |-> e, to |-> s - 1, start |-> e] \/ ~ (s > e)
  BY <1>1 DEF Recovering, NoRange
<1>8. /\ InWindow(s, e) /\ expected' = e /\ s > e
      /\ buffer' = Skip(stored, e, s - 1) /\ stats' = Count(stats, all)
  BY <1>4, <1>5, <1>6, <1>7, Zenon DEF AcceptInWindow
<1>9. /\ s \in e .. e + N - 1 /\ s - e \in Nat /\ (s - 1) + 1 = s /\ s - 1 \in Int
      /\ s - 1 < e + N /\ \A t \in e .. s - 1 : t \in e .. e + N - 1 /\ t # s
  BY <1>1, <1>8, Size DEF InWindow
<1>10. PICK b : b = stored BY Zenon
<1>11. /\ b \in BufferType
       /\ \A t \in e .. e + N - 1 : State(b, t) = IF t = s THEN "Filled" ELSE State(buffer, t)
  BY <1>1, <1>9, <1>10, StoredState
<1>12. gone \in Nat BY <1>1, <1>9, <1>10, <1>11, SkipCounts, Zenon
<1>13. /\ \A i \in all : i[1] = m => i = <<m, s - e>>
       /\ \A i \in all : i[1] = u => i = <<u, gone>>
  BY DEF stored
<1>14. Amount(all, m, s - e) = s - e /\ Amount(all, u, gone) = gone BY Zenon DEF Amount
<1> HIDE DEF all, gone, stored
<1>15. stats'[m] = stats[m] + (s - e) /\ stats'[u] = stats[u] + gone
  <2>1. Count(stats, all)[m] = stats[m] + Amount(all, m, s - e)
    BY <1>1, <1>3, <1>9, <1>13, CountOne, Zenon
  <2>2. Count(stats, all)[u] = stats[u] + Amount(all, u, gone)
    BY <1>1, <1>3, <1>12, <1>13, CountOne, Zenon
  <2> QED BY <1>8, <1>14, <2>1, <2>2, Zenon
<1>16. Missed = s - e /\ e + (s - e) - 1 = s - 1 BY <1>1, <1>3, <1>15 DEF Missed
<1>17. State(b, s) = "Filled" /\ \A t \in e .. s - 1 : State(b, t) \in {"Filled", State(buffer, t)}
  BY <1>9, <1>11, Zenon
<1>18. Settled(e, s - 1)
  BY <1>1, <1>8, <1>9, <1>10, <1>11, <1>15, <1>17, SkipSettles, Zenon DEF gone
<1> QED BY <1>8, <1>16, <1>18, Zenon

\* Whatever a request brings, accept() returns with the whole gap filled or given
\* up, each number it gives up counted once, and the message that revealed the gap
\* held behind it.
THEOREM GapAlwaysSettled == Spec => GapSettled
<1> DEFINE Step == /\ Recovering /\ ~Recovering' => Settled(range.from, range.to)
                   /\ ~Recovering /\ ~Recovering' /\ Missed > 0 =>
                          Settled(expected', expected' + Missed - 1)
<1>1. SeqInv /\ LedgerInv /\ Revealed /\ [Next]_vars => [Step]_vars
  <2> SUFFICES ASSUME SeqInv, LedgerInv, Revealed, Next PROVE Step BY Zenon
  <2>0. expected \in Nat /\ buffer \in BufferType /\ N \in Nat \ {0}
        /\ stats["missing_messages"] \in Nat
    BY Size DEF SeqInv, BufferType, LedgerInv, Counters
  <2>1. ASSUME NEW s \in Seqs, Accept(s) PROVE Step
    <3>1. s \in Nat /\ ~Recovering BY <2>1, Size, Zenon DEF Accept
    <3> QED BY <2>1, <3>1, AcceptSettles, Zenon
  <2>2. ASSUME NEW msgs \in SUBSET (range.start .. End), Reply(msgs) PROVE Step
    <3> DEFINE filled == Fill(buffer, expected, msgs)
               incs == {<<"messages_recovered", Cardinality(Fresh(buffer, expected, msgs))>>}
    <3>1. msgs \in SUBSET Nat /\ Recovering BY <2>2, AnswerType, Zenon DEF Reply
    <3>2. filled \in BufferType BY <2>0, <3>1, FillKeeps, Zenon DEF SeqInv
    <3>3. \A t \in expected .. expected + N - 1 : State(filled, t) \in {"Filled", State(buffer, t)}
      BY <2>0, <3>1, FillState
    <3>4. ASSUME ~Recovering' PROVE Finish(filled, incs)
      <4>1. range' # [range EXCEPT !.start = @ + KBatch]
        BY <3>1, <3>4 DEF Recovering, NoRange, SeqInv
      <4> QED BY <2>2, <4>1, Zenon DEF Reply
    <3> HIDE DEF filled
    <3> QED BY <3>1, <3>2, <3>3, <3>4, FinishSettles, Zenon
  <2>3. CASE RequestFails
    <3>1. Recovering /\ Finish(buffer, {}) BY <2>3, Zenon DEF RequestFails
    <3>2. \A t \in expected .. expected + N - 1 : State(buffer, t) \in {"Filled", State(buffer, t)}
      BY Zenon
    <3>3. {} \in SUBSET {<<"messages_recovered", 0>>} BY Zenon
    <3> QED BY <2>0, <3>1, <3>2, <3>3, FinishSettles, Zenon
  <2>4. ASSUME NEW n \in 0 .. N, Deliver(n) \/ NothingToDeliver(n) PROVE Step
    <3>1. ~Recovering BY <2>4, Zenon DEF Deliver, NothingToDeliver
    <3>2. stats'["missing_messages"] = stats["missing_messages"]
      <4>1. CASE NothingToDeliver(n) BY <4>1, Zenon DEF NothingToDeliver
      <4>2. CASE Deliver(n)
        <5>1. stats' = Count(stats, {<<"delivered", 1>>}) BY <4>2, Zenon DEF Deliver
        <5>2. \A i \in {<<"delivered", 1>>} : i[1] # "missing_messages" OBVIOUS
        <5>3. "missing_messages" \in Counters BY Zenon DEF Counters
        <5> QED BY <5>1, <5>2, <5>3, CountOther, Zenon
      <4> QED BY <2>4, <4>1, <4>2, Zenon
    <3>3. ~ (Missed > 0) BY <2>0, <3>2 DEF Missed
    <3> QED BY <3>1, <3>3, Zenon
  <2> QED BY <2>1, <2>2, <2>3, <2>4, Zenon DEF Next, next_deliverable
<1>2. Init => Revealed BY Zenon DEF Init, Revealed, Recovering
<1>3. Spec => [](SeqInv /\ LedgerInv /\ Revealed)
  BY <1>2, SequencerInvariant, LedgerInvariant, RevealedStep, PTL DEF Spec
<1> QED BY <1>1, <1>3, PTL DEF Spec, GapSettled
=============================================================================
