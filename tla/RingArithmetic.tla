--------------------------- MODULE RingArithmetic ---------------------------
(***************************************************************************)
(* Remainders by a symbolic divisor: what every ring of the system rests   *)
(* on that places element s in slot s % size (the shared-memory ring, the  *)
(* reorder buffer, the history).                                           *)
(***************************************************************************)
EXTENDS Integers, TLAPS

\* The quotient and the remainder that index & kMask and wrap-around rest on.
LEMMA DivMod ==
    ASSUME NEW a \in Int, NEW c \in Nat \ {0}
    PROVE  /\ a = c * (a \div c) + (a % c)
           /\ a % c \in 0 .. c - 1
           /\ a \div c \in Int
OBVIOUS

\* A multiple of c strictly between -c and c is zero.
LEMMA SmallMultiple ==
    ASSUME NEW c \in Nat \ {0}, NEW k \in Int, NEW d \in Int,
           d = c * k, d < c, d > -c
    PROVE  k = 0
<1>1. CASE k >= 1
  <2>1. c * k >= c BY <1>1
  <2> QED BY <2>1
<1>2. CASE k <= -1
  <2>1. c * k <= -c BY <1>2
  <2> QED BY <2>1
<1> QED BY <1>1, <1>2

\* A number has one remainder.
LEMMA ModUnique ==
    ASSUME NEW c \in Nat \ {0}, NEW k \in Int, NEW r \in 0 .. c - 1, NEW a \in Int,
           a = c * k + r
    PROVE  a % c = r
<1> DEFINE j == (a \div c) - k
<1>1. r - (a % c) = c * j BY DivMod
<1>2. j \in Int /\ r - (a % c) \in Int BY DivMod
<1>3. r - (a % c) < c /\ r - (a % c) > -c BY DivMod
<1> HIDE DEF j
<1>4. j = 0 BY <1>1, <1>2, <1>3, SmallMultiple, Zenon
<1> QED BY <1>1, <1>4, DivMod

\* Elements less than the ring's size apart have slots of their own.
LEMMA SlotsApart ==
    ASSUME NEW c \in Nat \ {0}, NEW a \in Int, NEW b \in Int,
           a % c = b % c, a - b < c, b - a < c
    PROVE  a = b
<1> DEFINE i == a \div c
           j == b \div c
           r == a % c
<1>1. a = c * i + r /\ b = c * j + r /\ i \in Int /\ j \in Int /\ r \in Int BY DivMod
<1> HIDE DEF i, j, r
<1>2. a - b = c * (i - j) /\ i - j \in Int BY <1>1
<1>3. i - j = 0 BY <1>2, SmallMultiple
<1> QED BY <1>2, <1>3

\* A slot number is smaller than the size.
LEMMA SlotRange ==
    ASSUME NEW c \in Nat \ {0}, NEW a \in Int
    PROVE  a % c \in 0 .. c - 1
BY DivMod, Zenon

-----------------------------------------------------------------------------
(* The window of consecutive numbers that such a ring retains *)

\* A ring of h slots retains oldest..newest of the numbers that began with f:
\* each is in its slot and the window is as wide as the ring allows.
Retains(h, ring, oldest, newest, f) ==
    /\ ring \in [0 .. h - 1 -> Nat] /\ oldest \in Nat /\ newest \in Nat
    /\ newest = 0 => oldest = 0
    /\ newest # 0 =>
          /\ oldest >= f /\ oldest <= newest /\ newest - oldest < h
          /\ \A s \in oldest .. newest : ring[s % h] = s
          /\ newest - oldest + 1 = IF newest - f + 1 > h THEN h ELSE newest - f + 1

\* stored and after are the ring and the oldest number once s, the next one, is
\* stored in it.
Stores(h, ring, oldest, newest, f, s, after, stored) ==
    LET o == IF newest = 0 THEN s ELSE oldest
    IN  /\ s = (IF newest = 0 THEN f ELSE newest + 1)
        /\ after = (IF s - o + 1 > h THEN s - h + 1 ELSE o)
        /\ stored = [ring EXCEPT ![s % h] = s]

\* Storing the next number evicts at most the oldest one and keeps the slots of
\* all others.
LEMMA NextNumber ==
    ASSUME NEW h \in Nat \ {0}, NEW ring, NEW oldest, NEW newest, NEW f \in Nat \ {0},
           Retains(h, ring, oldest, newest, f),
           NEW s, NEW after, NEW stored, Stores(h, ring, oldest, newest, f, s, after, stored)
    PROVE  Retains(h, stored, after, s, f) /\ after >= oldest /\ s >= newest
<1> DEFINE o == IF newest = 0 THEN s ELSE oldest
<1>0. /\ s = (IF newest = 0 THEN f ELSE newest + 1)
      /\ after = (IF s - o + 1 > h THEN s - h + 1 ELSE o)
      /\ stored = [ring EXCEPT ![s % h] = s]
  BY Zenon DEF Stores
<1>1. oldest \in Nat /\ newest \in Nat /\ ring \in [0 .. h - 1 -> Nat] BY Zenon DEF Retains
<1>2. s \in Nat \ {0} /\ s \in Int BY <1>0, <1>1
<1>3. s % h \in 0 .. h - 1 BY <1>2, SlotRange, Zenon
<1>4. newest # 0 => /\ oldest >= f /\ oldest <= newest /\ newest - oldest < h
                    /\ \A k \in oldest .. newest : ring[k % h] = k
                    /\ newest - oldest + 1 =
                           IF newest - f + 1 > h THEN h ELSE newest - f + 1
  BY Zenon DEF Retains
<1>5. /\ after \in Nat /\ after >= f /\ after <= s /\ s - after < h
      /\ after >= oldest /\ s >= newest
      /\ s - after + 1 = IF s - f + 1 > h THEN h ELSE s - f + 1
  <2>1. CASE newest = 0
    <3>1. oldest = 0 BY <2>1, Zenon DEF Retains
    <3> QED BY <1>0, <1>1, <2>1, <3>1
  <2>2. CASE newest # 0 BY <1>0, <1>1, <1>4, <2>2
  <2> QED BY <2>1, <2>2, Zenon
<1>6. (newest = 0 => after = s) /\ (newest # 0 => s = newest + 1) BY <1>0, <1>1
<1>7. ASSUME NEW k \in after .. s PROVE stored[k % h] = k
  <2>1. k \in Int /\ k >= after /\ k <= s BY <1>2, <1>5
  <2>2. k - s < h /\ s - k < h BY <1>2, <1>5, <2>1
  <2>3. k % h \in 0 .. h - 1 BY <2>1, SlotRange, Zenon
  <2>4. CASE k = s BY <1>0, <1>1, <1>3, <2>4, Zenon
  <2>5. CASE k # s
    <3>1. newest # 0 /\ k \in oldest .. newest BY <1>1, <1>5, <1>6, <2>1, <2>5
    <3>2. k % h # s % h BY <1>2, <2>1, <2>2, <2>5, SlotsApart, Zenon
    <3>3. ring[k % h] = k BY <1>4, <3>1, Zenon
    <3> QED BY <1>0, <1>1, <1>3, <2>3, <3>2, <3>3, Zenon
  <2> QED BY <2>4, <2>5, Zenon
<1>8. stored \in [0 .. h - 1 -> Nat] BY <1>0, <1>1, <1>2, <1>3, Zenon
<1> QED BY <1>2, <1>5, <1>7, <1>8, Zenon DEF Retains
=============================================================================
