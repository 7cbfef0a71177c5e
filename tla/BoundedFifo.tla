---------------------------- MODULE BoundedFifo ----------------------------
(***************************************************************************)
(* What SpscQueue (src/include/llte/spsc_queue.hpp) promises its two       *)
(* users: a first-in first-out queue of at most Capacity entries.  A push  *)
(* appends one value, a pop removes the oldest one and hands it out.  An   *)
(* unsuccessful try_push or try_pop changes nothing here.                  *)
(***************************************************************************)
EXTENDS Naturals, Sequences

CONSTANTS Capacity, Values, Zero

VARIABLES
    q,      \* the entries pushed and not yet popped, oldest first
    got     \* what the last successful pop returned (Zero before the first)

fifoVars == <<q, got>>

FifoInit == q = << >> /\ got = Zero

\* A successful try_push(v).
FifoPush(v) ==
    /\ Len(q) < Capacity
    /\ q' = Append(q, v)
    /\ UNCHANGED got

\* A successful try_pop.
FifoPop ==
    /\ q # << >>
    /\ got' = Head(q)
    /\ q' = Tail(q)

FifoNext == FifoPop \/ \E v \in Values : FifoPush(v)

FifoSpec == FifoInit /\ [][FifoNext]_fifoVars
=============================================================================
