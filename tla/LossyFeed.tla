----------------------------- MODULE LossyFeed -----------------------------
(***************************************************************************)
(* What the transport from the exchange to the engine promises: messages   *)
(* are numbered one after the other, and the engine takes some of them, in *)
(* the order of their numbers, each at most once and none that was not     *)
(* published.  Nothing is said about which ones it gets.                   *)
(***************************************************************************)
EXTENDS Naturals

VARIABLES
    published,      \* messages numbered so far
    taken           \* number of the last one the engine took, 0 for none

feedVars == <<published, taken>>

FeedInit == published = 0 /\ taken = 0

FeedPublish == published' = published + 1 /\ UNCHANGED taken

FeedTake == \E n \in taken + 1 .. published : taken' = n /\ UNCHANGED published

FeedSpec == FeedInit /\ [][FeedPublish \/ FeedTake]_feedVars
=============================================================================
