-------------------------- MODULE SpscQueueProofs --------------------------
(***************************************************************************)
(* The ring of SpscQueue for every capacity, every index width that is a   *)
(* multiple of it, and every set of values: no overfull ring, no slot race *)
(* and refinement of BoundedFifo.                                          *)
(***************************************************************************)
EXTENDS SpscQueue, RingArithmetic, SequenceTheorems

-----------------------------------------------------------------------------
(* Arithmetic modulo a symbolic divisor. *)

\* write - read on wrapping counters, without the modulus.
LEMMA DistForm ==
    ASSUME NEW a \in Index, NEW b \in Index
    PROVE  Dist(a, b) = IF b >= a THEN b - a ELSE b - a + W
<1>0. W \in Nat \ {0} BY SpscAssumption
<1>1. CASE b >= a
  <2>1. b - a = W * 0 + (b - a) /\ b - a \in 0 .. W - 1 BY <1>0, <1>1 DEF Index
  <2> QED BY <1>0, <1>1, <2>1, ModUnique DEF Dist, Index
<1>2. CASE b < a
  <2>1. b - a = W * (-1) + (b - a + W) /\ b - a + W \in 0 .. W - 1
    BY <1>0, <1>2 DEF Index
  <2> QED BY <1>0, <1>2, <2>1, ModUnique DEF Dist, Index
<1> QED BY <1>1, <1>2, <1>0 DEF Index

\* The successor of a wrapping counter, without the modulus.
LEMMA WrapForm ==
    ASSUME NEW a \in Index, NEW n \in 0 .. W
    PROVE  (a + n) % W = IF a + n >= W THEN a + n - W ELSE a + n
<1>0. W \in Nat \ {0} BY SpscAssumption
<1>1. CASE a + n < W
  <2>1. a + n = W * 0 + (a + n) /\ a + n \in 0 .. W - 1 BY <1>0, <1>1 DEF Index
  <2> QED BY <1>0, <1>1, <2>1, ModUnique DEF Index
<1>2. CASE a + n >= W
  <2>1. a + n = W * 1 + (a + n - W) /\ a + n - W \in 0 .. W - 1
    BY <1>0, <1>2 DEF Index
  <2> QED BY <1>0, <1>2, <2>1, ModUnique DEF Index
<1> QED BY <1>1, <1>2, <1>0 DEF Index

\* write + 1 on a wrapping counter is again an index.
LEMMA SuccForm ==
    ASSUME NEW a \in Index
    PROVE  Succ(a) = (IF a + 1 >= W THEN a + 1 - W ELSE a + 1) /\ Succ(a) \in Index
<1>1. 1 \in 0 .. W BY SpscAssumption
<1> QED BY <1>1, WrapForm, SpscAssumption DEF Succ, Index

\* Two different indices less than Capacity apart occupy different slots,
\* even across the wrap of the counter: W is a multiple of Capacity.
LEMMA SlotsDiffer ==
    ASSUME NEW a \in Index, NEW b \in Index, a # b, Dist(a, b) < Capacity
    PROVE  SlotOf(a) # SlotOf(b)
<1> SUFFICES ASSUME SlotOf(a) = SlotOf(b) PROVE FALSE BY Zenon
<1>0. Capacity \in Nat \ {0} /\ W \in Nat /\ a \in Int /\ b \in Int
  BY SpscAssumption DEF Index
<1> DEFINE k == (b \div Capacity) - (a \div Capacity)
           m == W \div Capacity
           d == Dist(a, b)
<1>1. b - a = Capacity * k /\ k \in Int
  <2> DEFINE qa == a \div Capacity
             qb == b \div Capacity
             r == a % Capacity
  <2>1. a = Capacity * qa + r /\ qa \in Int BY <1>0, DivMod, Zenon
  <2>0. r \in Int
    <3>1. a % Capacity \in 0 .. Capacity - 1 BY <1>0, DivMod, Zenon
    <3> QED BY <1>0, <3>1
  <2>2. b = Capacity * qb + (b % Capacity) /\ qb \in Int BY <1>0, DivMod, Zenon
  <2>3. b = Capacity * qb + r BY <2>2, Zenon DEF SlotOf
  <2>4. k = qb - qa BY Zenon
  <2> HIDE DEF qa, qb, r, k
  <2> QED BY <1>0, <2>0, <2>1, <2>2, <2>3, <2>4
<1>2. W = Capacity * m /\ m \in Int
  <2>1. W % Capacity = 0 /\ W \in Int BY SpscAssumption
  <2> QED BY <1>0, <2>1, DivMod
<1>3. d \in Int /\ d > 0 /\ d < Capacity /\ d > -Capacity
  <2>1. d = IF b >= a THEN b - a ELSE b - a + W BY DistForm, Zenon
  <2> QED BY <1>0, <2>1 DEF Index
<1>4. d = b - a \/ d = b - a + W BY DistForm, Zenon
<1> HIDE DEF k, m, d
<1>5. d = Capacity * k \/ d = Capacity * (k + m) BY <1>0, <1>1, <1>2, <1>4
<1>6. k = 0 \/ k + m = 0 BY <1>0, <1>1, <1>2, <1>3, <1>5, SmallMultiple
<1> QED BY <1>0, <1>1, <1>2, <1>3, <1>5, <1>6

\* index & kMask is a slot of buffer_.
LEMMA SlotType == ASSUME NEW a \in Index PROVE SlotOf(a) \in Slots
BY DivMod, SpscAssumption DEF SlotOf, Slots, Index

-----------------------------------------------------------------------------
(* The circular order cached_read_idx, read_idx, cached_write_idx, write_idx. *)

\* What the order needs of the two widths.
LEMMA Widths == Capacity \in Nat /\ Capacity > 0 /\ W \in Nat /\ W > Capacity
BY SpscAssumption

Chain(cr, r, cw, w) ==
    /\ Dist(cr, w) <= Capacity
    /\ Dist(cr, r) <= Dist(cr, cw)
    /\ Dist(cr, cw) <= Dist(cr, w)

\* The producer re-reads read_idx_: any value a load may return keeps the order,
\* and brings the producer's view no further from write_idx_ than it was.
LEMMA ChainRefreshRead ==
    ASSUME NEW cr \in Index, NEW r \in Index, NEW cw \in Index, NEW w \in Index,
           NEW x \in Index, Chain(cr, r, cw, w), x \in Loadable(cr, r)
    PROVE  Chain(x, r, cw, w)
<1>1. /\ Dist(cr, w) = IF w >= cr THEN w - cr ELSE w - cr + W
      /\ Dist(cr, r) = IF r >= cr THEN r - cr ELSE r - cr + W
      /\ Dist(cr, cw) = IF cw >= cr THEN cw - cr ELSE cw - cr + W
      /\ Dist(cr, x) = IF x >= cr THEN x - cr ELSE x - cr + W
      /\ Dist(x, w) = IF w >= x THEN w - x ELSE w - x + W
      /\ Dist(x, r) = IF r >= x THEN r - x ELSE r - x + W
      /\ Dist(x, cw) = IF cw >= x THEN cw - x ELSE cw - x + W
  BY DistForm, Zenon
<1> QED BY <1>1, Widths DEF Chain, Index, Loadable

\* The consumer re-reads write_idx_.
LEMMA ChainRefreshWrite ==
    ASSUME NEW cr \in Index, NEW r \in Index, NEW cw \in Index, NEW w \in Index,
           NEW x \in Index, Chain(cr, r, cw, w), x \in Loadable(cw, w)
    PROVE  Chain(cr, r, x, w) /\ (r # cw => r # x)
<1>1. /\ Dist(cr, w) = IF w >= cr THEN w - cr ELSE w - cr + W
      /\ Dist(cr, r) = IF r >= cr THEN r - cr ELSE r - cr + W
      /\ Dist(cr, cw) = IF cw >= cr THEN cw - cr ELSE cw - cr + W
      /\ Dist(cr, x) = IF x >= cr THEN x - cr ELSE x - cr + W
      /\ Dist(cw, x) = IF x >= cw THEN x - cw ELSE x - cw + W
      /\ Dist(cw, w) = IF w >= cw THEN w - cw ELSE w - cw + W
  BY DistForm, Zenon
<1> QED BY <1>1, Widths DEF Chain, Index, Loadable

\* The producer publishes a slot that is free by its own view.
LEMMA ChainPush ==
    ASSUME NEW cr \in Index, NEW r \in Index, NEW cw \in Index, NEW w \in Index,
           Chain(cr, r, cw, w), Dist(cr, w) < Capacity
    PROVE  Chain(cr, r, cw, Succ(w))
<1>0. Succ(w) = (IF w + 1 >= W THEN w + 1 - W ELSE w + 1) /\ Succ(w) \in Index
  BY SuccForm, Zenon
<1>1. /\ Dist(cr, w) = IF w >= cr THEN w - cr ELSE w - cr + W
      /\ Dist(cr, r) = IF r >= cr THEN r - cr ELSE r - cr + W
      /\ Dist(cr, cw) = IF cw >= cr THEN cw - cr ELSE cw - cr + W
      /\ Dist(cr, Succ(w)) = IF Succ(w) >= cr THEN Succ(w) - cr ELSE Succ(w) - cr + W
  BY DistForm, <1>0, Zenon
<1> QED BY <1>0, <1>1, Widths DEF Chain, Index

\* The consumer retires a slot that is published by its own view.
LEMMA ChainPop ==
    ASSUME NEW cr \in Index, NEW r \in Index, NEW cw \in Index, NEW w \in Index,
           Chain(cr, r, cw, w), r # cw
    PROVE  Chain(cr, Succ(r), cw, w)
<1>0. Succ(r) = (IF r + 1 >= W THEN r + 1 - W ELSE r + 1) /\ Succ(r) \in Index
  BY SuccForm, Zenon
<1>1. /\ Dist(cr, w) = IF w >= cr THEN w - cr ELSE w - cr + W
      /\ Dist(cr, r) = IF r >= cr THEN r - cr ELSE r - cr + W
      /\ Dist(cr, cw) = IF cw >= cr THEN cw - cr ELSE cw - cr + W
      /\ Dist(cr, Succ(r)) = IF Succ(r) >= cr THEN Succ(r) - cr ELSE Succ(r) - cr + W
  BY DistForm, <1>0, Zenon
<1> QED BY <1>0, <1>1, Widths DEF Chain, Index

\* Distances along the chain.
LEMMA ChainBounds ==
    ASSUME NEW cr \in Index, NEW r \in Index, NEW cw \in Index, NEW w \in Index,
           Chain(cr, r, cw, w)
    PROVE  /\ Dist(r, w) \in Nat /\ Dist(r, w) <= Dist(cr, w) /\ Dist(r, w) <= Capacity
           /\ Dist(cr, w) \in Nat /\ (r # cw => r # w)
<1>1. /\ Dist(cr, w) = IF w >= cr THEN w - cr ELSE w - cr + W
      /\ Dist(cr, r) = IF r >= cr THEN r - cr ELSE r - cr + W
      /\ Dist(cr, cw) = IF cw >= cr THEN cw - cr ELSE cw - cr + W
      /\ Dist(r, w) = IF w >= r THEN w - r ELSE w - r + W
  BY DistForm, Zenon
<1> QED BY <1>1, Widths DEF Chain, Index

-----------------------------------------------------------------------------
(* Invariance *)

\* An empty, zeroed ring satisfies the inductive invariant.
LEMMA InitIndInv == Init => IndInv
<1> SUFFICES ASSUME Init PROVE IndInv BY Zenon
<1>1. 0 \in Index /\ Capacity \in Nat BY Widths DEF Index
<1>2. Dist(0, 0) = 0 BY <1>1, DistForm
<1>3. TypeOK BY <1>1, Zenon DEF Init, TypeOK
<1> QED BY <1>1, <1>2, <1>3 DEF Init, IndInv

\* Every step of try_push and try_pop keeps the inductive invariant.
LEMMA NextIndInv == IndInv /\ [Next]_vars => IndInv'
<1> SUFFICES ASSUME IndInv, [Next]_vars PROVE IndInv' BY Zenon
<1> DEFINE C == Chain(cached_read_idx, read_idx, cached_write_idx, write_idx)
<1>0. /\ TypeOK /\ C
      /\ write_idx \in Index /\ read_idx \in Index
      /\ cached_read_idx \in Index /\ cached_write_idx \in Index
  BY Zenon DEF IndInv, TypeOK, Chain
<1>1. ASSUME NEW v \in Values, PushCall(v) PROVE IndInv'
  <2>1. TypeOK' BY <1>0, <1>1, Zenon DEF TypeOK, PushCall, consumerVars
  <2>2. Dist(cached_read_idx, write_idx) \in Nat BY <1>0, ChainBounds, Zenon
  <2> QED BY <1>1, <2>1, <2>2, Widths DEF IndInv, PushCall, consumerVars
<1>2. ASSUME NEW x \in Index, PushRefresh(x) PROVE IndInv'
  <2>1. TypeOK' BY <1>0, <1>2, Zenon DEF TypeOK, PushRefresh, consumerVars
  <2>2. Chain(x, read_idx, cached_write_idx, write_idx)
    BY <1>0, <1>2, ChainRefreshRead, Zenon DEF PushRefresh
  <2>3. Dist(x, write_idx) \in Nat BY <1>0, <2>2, ChainBounds, Zenon
  <2> QED BY <1>2, <2>1, <2>2, <2>3, Widths DEF IndInv, PushRefresh, consumerVars, Chain
<1>3. CASE PushWrite
  <2>1. SlotOf(write_idx) \in Slots BY <1>0, SlotType, Zenon
  <2>2. value \in Values BY <1>3, Zenon DEF IndInv, PushWrite
  <2>3. TypeOK' BY <1>0, <1>3, <2>1, <2>2, Zenon DEF TypeOK, PushWrite, consumerVars
  <2>4. buffer'[SlotOf(write_idx)] = value BY <1>0, <1>3, <2>1, Zenon DEF PushWrite, TypeOK
  <2>5. ASSUME cpc = "publish" PROVE buffer'[SlotOf(read_idx)] = buffer[SlotOf(read_idx)]
    <3>1. read_idx # cached_write_idx BY <2>5, Zenon DEF IndInv
    <3>2. read_idx # write_idx /\ Dist(read_idx, write_idx) < Capacity
      BY <1>0, <1>3, <3>1, ChainBounds, Widths DEF IndInv, PushWrite
    <3>3. SlotOf(read_idx) # SlotOf(write_idx) BY <1>0, <3>2, SlotsDiffer, Zenon
    <3> QED BY <1>0, <1>3, <3>3, SlotType, Zenon DEF PushWrite, TypeOK
  <2> QED BY <1>3, <2>2, <2>3, <2>4, <2>5, Zenon DEF IndInv, PushWrite, consumerVars
<1>4. CASE PushPublish
  <2>1. Succ(write_idx) \in Index BY <1>0, SuccForm, Zenon
  <2>2. TypeOK' BY <1>0, <1>4, <2>1, Zenon DEF TypeOK, PushPublish, consumerVars
  <2>3. Chain(cached_read_idx, read_idx, cached_write_idx, Succ(write_idx))
    BY <1>0, <1>4, ChainPush, Zenon DEF IndInv, PushPublish
  <2> QED BY <1>4, <2>2, <2>3, Zenon DEF IndInv, PushPublish, consumerVars, Chain
<1>5. CASE PopCall
  <2>1. TypeOK' BY <1>0, <1>5, Zenon DEF TypeOK, PopCall, producerVars
  <2> QED BY <1>5, <2>1, Zenon DEF IndInv, PopCall, producerVars
<1>6. ASSUME NEW x \in Index, PopRefresh(x) PROVE IndInv'
  <2>1. TypeOK' BY <1>0, <1>6, Zenon DEF TypeOK, PopRefresh, producerVars
  <2>2. Chain(cached_read_idx, read_idx, x, write_idx)
    BY <1>0, <1>6, ChainRefreshWrite, Zenon DEF PopRefresh
  <2> QED BY <1>6, <2>1, <2>2, Zenon DEF IndInv, PopRefresh, producerVars, Chain
<1>7. CASE PopCopy
  <2>1. buffer[SlotOf(read_idx)] \in Values \cup {Zero}
    BY <1>0, SlotType, Zenon DEF TypeOK
  <2>2. TypeOK' BY <1>0, <1>7, <2>1, Zenon DEF TypeOK, PopCopy, producerVars
  <2> QED BY <1>7, <2>2, Zenon DEF IndInv, PopCopy, producerVars
<1>8. CASE PopPublish
  <2>1. Succ(read_idx) \in Index BY <1>0, SuccForm, Zenon
  <2>2. TypeOK' BY <1>0, <1>8, <2>1, Zenon DEF TypeOK, PopPublish, producerVars
  <2>3. Chain(cached_read_idx, Succ(read_idx), cached_write_idx, write_idx)
    BY <1>0, <1>8, ChainPop, Zenon DEF IndInv, PopPublish
  <2> QED BY <1>8, <2>2, <2>3, Zenon DEF IndInv, PopPublish, producerVars, Chain
<1>9. CASE UNCHANGED vars
  BY <1>9, Zenon DEF IndInv, TypeOK, vars, producerVars, consumerVars
<1> QED BY <1>1, <1>2, <1>3, <1>4, <1>5, <1>6, <1>7, <1>8, <1>9, Zenon
        DEF Next, Producer, Consumer

\* The order of the four indices, the free slot of a producer past its tests
\* and the published entry of a consumer past its tests hold in every state.
THEOREM IndInvariant == Spec => []IndInv
<1>1. Init => IndInv BY InitIndInv, Zenon
<1>2. IndInv /\ [Next]_vars => IndInv' BY NextIndInv, Zenon
<1> QED BY <1>1, <1>2, PTL DEF Spec

\* The state of the ring keeps its type.
THEOREM TypeCorrect == Spec => []TypeOK
<1>1. IndInv => TypeOK BY Zenon DEF IndInv
<1> QED BY <1>1, IndInvariant, PTL

\* For every capacity and every width of the counters, the ring never holds
\* more than Capacity entries (the two tests in try_push).
THEOREM NeverOverfullHolds == Spec => []NeverOverfull
<1>1. IndInv => NeverOverfull
  BY ChainBounds, Zenon DEF IndInv, TypeOK, Chain, NeverOverfull, size
<1> QED BY <1>1, IndInvariant, PTL

\* For every capacity, producer and consumer never copy the same slot of
\* buffer_ at the same time: the plain accesses do not race.
THEOREM NoSlotRaceHolds == Spec => []NoSlotRace
<1>1. IndInv => NoSlotRace
  <2> SUFFICES ASSUME IndInv, ppc = "write", cpc = "copy"
               PROVE  SlotOf(read_idx) # SlotOf(write_idx)
    BY Zenon DEF NoSlotRace
  <2>1. /\ Chain(cached_read_idx, read_idx, cached_write_idx, write_idx)
        /\ write_idx \in Index /\ read_idx \in Index
        /\ cached_read_idx \in Index /\ cached_write_idx \in Index
    BY Zenon DEF IndInv, TypeOK, Chain
  <2>2. read_idx # write_idx /\ Dist(read_idx, write_idx) < Capacity
    BY <2>1, ChainBounds, Widths DEF IndInv
  <2> QED BY <2>1, <2>2, SlotsDiffer, Zenon
<1> QED BY <1>1, IndInvariant, PTL

-----------------------------------------------------------------------------
(* Refinement of BoundedFifo *)

\* The facts about the indices that the refinement uses, in any good state.
LEMMA Window ==
    ASSUME IndInv
    PROVE  /\ Chain(cached_read_idx, read_idx, cached_write_idx, write_idx)
           /\ write_idx \in Index /\ read_idx \in Index
           /\ cached_read_idx \in Index /\ cached_write_idx \in Index
           /\ size \in Nat /\ size <= Capacity
           /\ size = IF write_idx >= read_idx THEN write_idx - read_idx
                     ELSE write_idx - read_idx + W
<1>1. /\ Chain(cached_read_idx, read_idx, cached_write_idx, write_idx)
      /\ write_idx \in Index /\ read_idx \in Index
      /\ cached_read_idx \in Index /\ cached_write_idx \in Index
  BY Zenon DEF IndInv, TypeOK, Chain
<1> QED BY <1>1, ChainBounds, DistForm, Zenon DEF size

\* The i-th entry sits i - 1 past read_idx_; from there to write_idx_ it is
\* size - i + 1 steps.
LEMMA EntryIndex ==
    ASSUME IndInv, NEW i \in 1 .. size + 1
    PROVE  /\ (read_idx + i - 1) % W \in Index
           /\ Dist((read_idx + i - 1) % W, write_idx) = size - i + 1
           /\ i = size + 1 => (read_idx + i - 1) % W = write_idx
<1>0. /\ write_idx \in Index /\ read_idx \in Index /\ size \in Nat /\ size <= Capacity
      /\ size = IF write_idx >= read_idx THEN write_idx - read_idx
                ELSE write_idx - read_idx + W
  BY Window, Zenon
<1> DEFINE x == (read_idx + (i - 1)) % W
<1>1. i - 1 \in 0 .. W /\ i \in Nat BY <1>0, Widths
<1>2. x = IF read_idx + (i - 1) >= W THEN read_idx + (i - 1) - W ELSE read_idx + (i - 1)
  BY <1>0, <1>1, WrapForm, Zenon
<1>3. x = (read_idx + i - 1) % W
  <2>1. read_idx + (i - 1) = read_idx + i - 1 BY <1>0, <1>1, Zenon DEF Index
  <2> QED BY <2>1, Zenon
<1> HIDE DEF x
<1>4. x \in Index BY <1>0, <1>1, <1>2, Widths DEF Index
<1>5. Dist(x, write_idx) = IF write_idx >= x THEN write_idx - x ELSE write_idx - x + W
  BY <1>0, <1>4, DistForm, Zenon
<1>6. Dist(x, write_idx) = size - i + 1 /\ (i = size + 1 => x = write_idx)
  BY <1>0, <1>1, <1>2, <1>4, <1>5, Widths DEF Index
<1> QED BY <1>3, <1>4, <1>6, Zenon

\* The window is a sequence of entries.
LEMMA QueueSeq ==
    ASSUME IndInv
    PROVE  queue \in Seq(Values \cup {Zero}) /\ Len(queue) = size
<1>1. size \in Nat BY Window, Zenon
<1>2. ASSUME NEW i \in 1 .. size
      PROVE  buffer[SlotOf((read_idx + i - 1) % W)] \in Values \cup {Zero}
  <2>1. i \in 1 .. size + 1 BY <1>1
  <2>2. SlotOf((read_idx + i - 1) % W) \in Slots BY <2>1, EntryIndex, SlotType, Zenon
  <2> QED BY <2>2, Zenon DEF IndInv, TypeOK
<1> QED BY <1>1, <1>2 DEF queue

\* A sequence one longer than s that agrees with s and ends in e.
LEMMA IsAppend ==
    ASSUME NEW S, NEW s \in Seq(S), NEW e \in S, NEW t \in Seq(S),
           Len(t) = Len(s) + 1, \A i \in 1 .. Len(s) : t[i] = s[i], t[Len(s) + 1] = e
    PROVE  t = Append(s, e)
BY SeqEqual, AppendProperties

\* A sequence one shorter than s that agrees with s moved by one.
LEMMA IsTail ==
    ASSUME NEW S, NEW s \in Seq(S), s # << >>, NEW t \in Seq(S),
           Len(t) = Len(s) - 1, \A i \in 1 .. Len(t) : t[i] = s[i + 1]
    PROVE  t = Tail(s)
<1>1. /\ Tail(s) \in Seq(S) /\ Len(Tail(s)) = Len(s) - 1
      /\ \A i \in 1 .. Len(Tail(s)) : Tail(s)[i] = s[i + 1]
  BY HeadTailProperties, Zenon
<1> QED BY <1>1, SeqEqual, Zenon

\* Writing the slot at write_idx_ leaves every published entry alone.
LEMMA WriteStutters == IndInv /\ PushWrite => queue' = queue
<1> SUFFICES ASSUME IndInv, PushWrite PROVE queue' = queue BY Zenon
<1>0. size \in Nat /\ write_idx \in Index /\ read_idx \in Index BY Window, Zenon
<1>1. size' = size BY Zenon DEF size, PushWrite, consumerVars
<1>2. size < Capacity
  BY <1>0, Window, ChainBounds, Widths DEF IndInv, PushWrite, size
<1>3. ASSUME NEW i \in 1 .. size
      PROVE  buffer'[SlotOf((read_idx + i - 1) % W)] = buffer[SlotOf((read_idx + i - 1) % W)]
  <2> DEFINE x == (read_idx + i - 1) % W
  <2>1. i \in 1 .. size + 1 /\ i \in Nat /\ i <= size /\ i >= 1 BY <1>0
  <2>2. x \in Index /\ Dist(x, write_idx) = size - i + 1 BY <2>1, EntryIndex, Zenon
  <2> HIDE DEF x
  <2>3. Dist(x, write_idx) < Capacity /\ x # write_idx
    <3>1. Dist(write_idx, write_idx) = 0 BY <1>0, DistForm DEF Index
    <3> QED BY <1>0, <1>2, <2>1, <2>2, <3>1, Widths
  <2>4. SlotOf(x) # SlotOf(write_idx) BY <1>0, <2>2, <2>3, SlotsDiffer, Zenon
  <2>5. buffer'[SlotOf(x)] = buffer[SlotOf(x)]
    BY <1>0, <2>2, <2>4, SlotType, Zenon DEF PushWrite, IndInv, TypeOK
  <2> QED BY <2>5, Zenon DEF x
<1> QED BY <1>1, <1>3, Zenon DEF queue, PushWrite, consumerVars

\* Publishing write + 1 appends the pushed value.
LEMMA PublishPushes == IndInv /\ PushPublish => Fifo!FifoPush(value)
<1> SUFFICES ASSUME IndInv, PushPublish PROVE Fifo!FifoPush(value) BY Zenon
<1>0. size \in Nat /\ write_idx \in Index /\ read_idx \in Index BY Window, Zenon
<1>1. size < Capacity
  BY <1>0, Window, ChainBounds, Widths DEF IndInv, PushPublish, size
<1>2. size' = size + 1
  <2>1. /\ Succ(write_idx) \in Index
        /\ Succ(write_idx) = IF write_idx + 1 >= W THEN write_idx + 1 - W ELSE write_idx + 1
    BY <1>0, SuccForm, Zenon
  <2>2. Dist(read_idx, Succ(write_idx)) = IF Succ(write_idx) >= read_idx
                                          THEN Succ(write_idx) - read_idx
                                          ELSE Succ(write_idx) - read_idx + W
    BY <1>0, <2>1, DistForm, Zenon
  <2>3. size' = Dist(read_idx, Succ(write_idx)) BY Zenon DEF size, PushPublish, consumerVars
  <2> QED BY <1>0, <1>1, <2>1, <2>2, <2>3, Window, Widths DEF Index
<1>3. buffer[SlotOf((read_idx + (size + 1) - 1) % W)] = value
  <2>1. size + 1 \in 1 .. size + 1 BY <1>0
  <2>2. (read_idx + (size + 1) - 1) % W = write_idx BY <2>1, EntryIndex, Zenon
  <2> QED BY <2>2, Zenon DEF IndInv, PushPublish
<1>4. queue' = [i \in 1 .. size + 1 |-> buffer[SlotOf((read_idx + i - 1) % W)]]
  BY <1>2, Zenon DEF queue, PushPublish, consumerVars
<1>5. queue' = Append(queue, value)
  <2> DEFINE S == Values \cup {Zero}
  <2>1. Len(queue) = size /\ queue \in Seq(S) BY QueueSeq, Zenon
  <2>2. value \in S BY Zenon DEF IndInv, PushPublish
  <2>3. ASSUME NEW i \in 1 .. size PROVE queue'[i] = queue[i]
    <3>1. i \in 1 .. size + 1 BY <1>0
    <3>2. queue[i] = buffer[SlotOf((read_idx + i - 1) % W)] BY Zenon DEF queue
    <3> QED BY <1>4, <3>1, <3>2, Zenon
  <2>4. queue'[size + 1] = value
    <3>1. size + 1 \in 1 .. size + 1 BY <1>0
    <3>2. queue'[size + 1] = buffer[SlotOf((read_idx + (size + 1) - 1) % W)] BY <1>4, <3>1, Zenon
    <3> QED BY <1>3, <3>2, Zenon
  <2>5. queue' \in Seq(S) /\ Len(queue') = size + 1
    <3>1. \A i \in 1 .. size : queue[i] \in S BY <2>1, ElementOfSeq, Zenon
    <3>2. \A i \in 1 .. size + 1 : queue'[i] \in S BY <1>0, <2>2, <2>3, <2>4, <3>1
    <3> HIDE DEF S
    <3> QED BY <1>0, <1>4, <3>2
  <2> HIDE DEF S
  <2> QED BY <2>1, <2>2, <2>3, <2>4, <2>5, IsAppend, Zenon
<1> QED BY <1>1, <1>5, QueueSeq, Zenon DEF Fifo!FifoPush, PushPublish, consumerVars

\* Publishing read + 1 removes the oldest entry, which is what try_pop copied.
LEMMA PublishPops == IndInv /\ PopPublish => Fifo!FifoPop
<1> SUFFICES ASSUME IndInv, PopPublish PROVE Fifo!FifoPop BY Zenon
<1>0. size \in Nat /\ write_idx \in Index /\ read_idx \in Index BY Window, Zenon
<1>1. size > 0 /\ size <= Capacity
  <2>1. read_idx # write_idx BY Window, ChainBounds DEF IndInv, PopPublish
  <2> QED BY <1>0, <2>1, Window, Widths DEF Index
<1>2. /\ Succ(read_idx) \in Index
      /\ Succ(read_idx) = IF read_idx + 1 >= W THEN read_idx + 1 - W ELSE read_idx + 1
  BY <1>0, SuccForm, Zenon
<1>3. size' = size - 1
  <2>1. Dist(Succ(read_idx), write_idx) = IF write_idx >= Succ(read_idx)
                                          THEN write_idx - Succ(read_idx)
                                          ELSE write_idx - Succ(read_idx) + W
    BY <1>0, <1>2, DistForm, Zenon
  <2>2. size' = Dist(Succ(read_idx), write_idx) BY Zenon DEF size, PopPublish, producerVars
  <2> QED BY <1>0, <1>1, <1>2, <2>1, <2>2, Window, Widths DEF Index
<1>4. Len(queue) = size /\ queue \in Seq(Values \cup {Zero}) /\ queue # << >>
  BY <1>0, <1>1, QueueSeq
<1>5. Head(queue) = out
  <2>1. (read_idx + 1 - 1) % W = read_idx
    <3>1. 0 \in 0 .. W BY Widths
    <3>2. (read_idx + 0) % W = IF read_idx + 0 >= W THEN read_idx + 0 - W ELSE read_idx + 0
      BY <1>0, <3>1, WrapForm, Zenon
    <3>3. read_idx + 0 = read_idx + 1 - 1 /\ read_idx + 0 = read_idx /\ ~(read_idx >= W)
      BY <1>0, Widths DEF Index
    <3> QED BY <3>2, <3>3, Zenon
  <2>2. queue[1] = buffer[SlotOf((read_idx + 1 - 1) % W)] BY <1>0, <1>1 DEF queue
  <2> QED BY <1>4, <2>1, <2>2 DEF IndInv, PopPublish
<1>6. queue' = Tail(queue)
  <2>2. queue' = [i \in 1 .. size - 1 |-> buffer[SlotOf((Succ(read_idx) + i - 1) % W)]]
    BY <1>3, Zenon DEF queue, PopPublish, producerVars
  <2>3. ASSUME NEW i \in 1 .. size - 1
        PROVE  buffer[SlotOf((Succ(read_idx) + i - 1) % W)] = queue[i + 1]
    <3>1. i \in Nat /\ i >= 1 /\ i + 1 \in 1 .. size /\ i \in 0 .. W /\ i - 1 \in 0 .. W
      BY <1>0, Window, Widths
    <3>2. queue[i + 1] = buffer[SlotOf((read_idx + (i + 1) - 1) % W)] BY <3>1, Zenon DEF queue
    <3>3. (read_idx + i) % W = IF read_idx + i >= W THEN read_idx + i - W ELSE read_idx + i
      BY <1>0, <3>1, WrapForm, Zenon
    <3>4. (Succ(read_idx) + (i - 1)) % W =
            IF Succ(read_idx) + (i - 1) >= W THEN Succ(read_idx) + (i - 1) - W
            ELSE Succ(read_idx) + (i - 1)
      BY <1>2, <3>1, WrapForm, Zenon
    <3>5. (Succ(read_idx) + (i - 1)) % W = (read_idx + i) % W
      BY <1>0, <1>2, <3>1, <3>3, <3>4, Window, Widths DEF Index
    <3>6. /\ read_idx + (i + 1) - 1 = read_idx + i
          /\ Succ(read_idx) + i - 1 = Succ(read_idx) + (i - 1)
      BY <1>0, <1>2, <3>1 DEF Index
    <3> QED BY <3>2, <3>5, <3>6, Zenon
  <2> DEFINE S == Values \cup {Zero}
  <2>4. \A i \in 1 .. size : queue[i] \in S BY <1>4, ElementOfSeq, Zenon
  <2>5. queue' \in Seq(S) /\ Len(queue') = size - 1
    <3>1. \A i \in 1 .. size - 1 : queue'[i] \in S BY <1>0, <2>2, <2>3, <2>4
    <3> HIDE DEF S
    <3> QED BY <1>0, <1>1, <2>2, <3>1
  <2>6. \A i \in 1 .. size - 1 : queue'[i] = queue[i + 1] BY <2>2, <2>3, Zenon
  <2> HIDE DEF S
  <2> QED BY <1>4, <2>5, <2>6, IsTail, Zenon DEF S
<1> QED BY <1>4, <1>5, <1>6, Zenon DEF Fifo!FifoPop, PopPublish

\* The ring implements the bounded FIFO for every capacity, every width of the
\* counters and every set of values: try_push and try_pop lose, duplicate and
\* reorder nothing.
THEOREM Refinement == Spec => ImplementsFifo
<1>1. Init => Fifo!FifoInit
  <2> SUFFICES ASSUME Init PROVE queue = << >> /\ got = Zero BY Zenon DEF Fifo!FifoInit
  <2>1. IndInv BY InitIndInv, Zenon
  <2>2. size = 0 BY <2>1, Window DEF Init, Index
  <2>3. Len(queue) = 0 /\ queue \in Seq(Values \cup {Zero}) BY <2>1, <2>2, QueueSeq, Zenon
  <2> QED BY <2>3 DEF Init
<1>2. IndInv /\ [Next]_vars => [Fifo!FifoNext]_(Fifo!fifoVars)
  <2> SUFFICES ASSUME IndInv, [Next]_vars
               PROVE  Fifo!FifoNext \/ (queue' = queue /\ got' = got)
    BY Zenon DEF Fifo!fifoVars
  <2>1. CASE PushWrite
    BY <2>1, WriteStutters, Zenon DEF PushWrite, consumerVars
  <2>2. CASE PushPublish
    <3>1. value \in Values BY <2>2, Zenon DEF IndInv, PushPublish
    <3> QED BY <2>2, <3>1, PublishPushes, Zenon DEF Fifo!FifoNext
  <2>3. CASE PopPublish
    BY <2>3, PublishPops, Zenon DEF Fifo!FifoNext
  <2>4. ASSUME UNCHANGED <<write_idx, read_idx, buffer, got>>
        PROVE  queue' = queue /\ got' = got
    BY <2>4, Zenon DEF queue, size
  <2>5. CASE (\E v \in Values : PushCall(v)) \/ (\E x \in Index : PushRefresh(x))
    BY <2>4, <2>5, Zenon DEF PushCall, PushRefresh, consumerVars
  <2>6. CASE PopCall \/ (\E x \in Index : PopRefresh(x)) \/ PopCopy
    BY <2>4, <2>6, Zenon DEF PopCall, PopRefresh, PopCopy, producerVars
  <2>7. CASE UNCHANGED vars
    BY <2>4, <2>7, Zenon DEF vars, producerVars, consumerVars
  <2> QED BY <2>1, <2>2, <2>3, <2>5, <2>6, <2>7, Zenon DEF Next, Producer, Consumer
<1> QED BY <1>1, <1>2, IndInvariant, PTL DEF Spec, ImplementsFifo, Fifo!FifoSpec
=============================================================================
