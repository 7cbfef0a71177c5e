---------------------------- MODULE HistoryStore ----------------------------
(***************************************************************************)
(* The exchange's bounded history of published messages (HistoryStore in   *)
(* src/exchange/recovery_server.cpp).  A message is its sequence number.   *)
(* append and fetch hold the mutex, so each is a single step.              *)
(***************************************************************************)
EXTENDS Integers

CONSTANT H      \* ring_.size(), the --history argument

ASSUME HistoryAssumption == H \in Nat \ {0}

VARIABLES ring, oldest, newest      \* newest = 0 stands for empty_

history == <<ring, oldest, newest>>

HistoryInit == ring = [k \in 0 .. H - 1 |-> 0] /\ oldest = 0 /\ newest = 0

\* Mutant: the window is one too wide.
append_wide(s) ==
    /\ ring' = [ring EXCEPT ![s % H] = s]
    /\ newest' = s
    /\ oldest' = LET o == IF newest = 0 THEN s ELSE oldest
                 IN  IF s - o + 1 > H THEN s - H ELSE o

append(s) ==
    /\ ring' = [ring EXCEPT ![s % H] = s]
    /\ newest' = s
    /\ oldest' = LET o == IF newest = 0 THEN s ELSE oldest
                 IN  IF s - o + 1 > H THEN s - H + 1 ELSE o

\* The retained numbers of from..to are consecutive: so many of them come
\* before s.
before(s, from) == s - (IF from > oldest THEN from ELSE oldest)

\* Mutant: the newest message is left out.
fetch_older(from, to, max) ==
    {ring[s % H] : s \in {k \in from .. to : /\ newest # 0 /\ k >= oldest /\ k < newest
                                             /\ before(k, from) < max}}

\* The retained part of from..to, cut off after max messages.
fetch(from, to, max) ==
    {ring[s % H] : s \in {k \in from .. to : /\ newest # 0 /\ k >= oldest /\ k <= newest
                                             /\ before(k, from) < max}}
=============================================================================
